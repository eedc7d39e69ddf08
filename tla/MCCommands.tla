----------------------------- MODULE MCCommands -----------------------------
(* Two commands, of those that meet: directories with the same last element, *)
(* one that is mounted second, one whose name is that of another and a mode. *)
EXTENDS Commands, TLC

A == Plain("/a/app")
B == Plain("/b/app")
C == Plain("/c")
CRo == [dir |-> "/c", mode |-> "ro"]
MCDirs == {A, B, C, CRo}
MCCleaned == (A :> "app") @@ (B :> "app") @@ (C :> "c") @@ (CRo :> "c-ro")
MCOrder == <<"app", "box", "c", "c-ro">>
MCNames == {"app", "box", "c", "c-ro"}
MCAgents == [claude |-> [image |-> "claude-image", command |-> <<"claude">>],
             codex |-> [image |-> "codex-image", command |-> <<"codex">>]]

NoFlags == [name |-> "", image |-> "", cpus |-> 0, memory |-> [halves |-> 0, unit |-> "g"],
            ports |-> <<>>, env |-> <<>>]
Line(cmd, cwd) ==
  [cmd |-> cmd, cwd |-> cwd, sandbox |-> "", args |-> <<>>, passthrough |-> <<>>,
   flags |-> NoFlags, force |-> FALSE, env |-> <<>>, workdir |-> NoPath, user |-> "", tty |-> FALSE]
Set(key, value) == [key |-> key, value |-> <<value>>, eq |-> TRUE]

RunA == Line("run", A)
RunB == Line("run", B)
RunCodex == [Line("run", A) EXCEPT !.args = <<Plain("codex"), Plain(Here)>>,
                                   !.passthrough = <<"--resume">>, !.tty = TRUE]
RunBox == [Line("run", C) EXCEPT !.flags.name = "box"]
CreateBox ==
  [Line("create", B) EXCEPT !.args = <<Plain(Here), [dir |-> "/a/app", mode |-> "ro"]>>,
     !.flags = [name |-> "box", image |-> "", cpus |-> 2, memory |-> [halves |-> 1, unit |-> "g"],
                ports |-> <<[host |-> 8080, sandbox |-> 0, bare |-> TRUE, proto |-> "tcp"],
                            [host |-> 53, sandbox |-> 65535, bare |-> FALSE, proto |-> "udp"],
                            [host |-> 8080, sandbox |-> 0, bare |-> TRUE, proto |-> ""]>>,
                env |-> <<Set("LANG", "C"), Set("HTTP_PROXY", "elsewhere"), Set("LANG", "en")>>]]
CreateTwice == [Line("create", A) EXCEPT !.args = <<A, [dir |-> Here, mode |-> "ro"]>>]
CreateCut == Line("create", CRo)
CreateOutOfRange ==
  [Line("create", C) EXCEPT !.flags.ports = <<[host |-> 65536, sandbox |-> 0, bare |-> TRUE, proto |-> ""]>>]
RunCut == Line("run", CRo)
RemoveApp == [Line("rm", C) EXCEPT !.sandbox = "app", !.force = TRUE]
RemoveHere == Line("rm", B)
StopApp == [Line("stop", C) EXCEPT !.sandbox = "app"]
StartHere == Line("start", A)
InspectBox == [Line("inspect", C) EXCEPT !.sandbox = "box"]
ExecBox == [Line("exec", C) EXCEPT !.sandbox = "box", !.args = <<"sh">>, !.env = <<Set("LANG", "C")>>]
ExecNameless == [Line("exec", C) EXCEPT !.sandbox = "box", !.args = <<"sh">>, !.env = <<Set("", "C")>>]
CopyOut == [Line("cp", C) EXCEPT !.args = <<[before |-> "app", rest |-> "/x"], [before |-> "./x", rest |-> ""]>>]
CopyAcross == [Line("cp", C) EXCEPT !.args = <<[before |-> "app", rest |-> "/x"], [before |-> "box", rest |-> "/x"]>>]

MCLines == {RunA, RunB, RunCodex, RunBox, CreateBox, CreateTwice, CreateCut, CreateOutOfRange, RunCut,
            RemoveApp, RemoveHere, StopApp, StartHere, InspectBox, ExecBox, ExecNameless,
            CopyOut, CopyAcross, Line("ls", C)}
MCPriors == {Line("create", A), CreateBox}
Interchangeable == Permutations(Processes)
=============================================================================
