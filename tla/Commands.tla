------------------------------ MODULE Commands ------------------------------
(***************************************************************************)
(* The command line over the daemon's service: run, create, ls, start,     *)
(* stop, rm, inspect, exec and cp (cmd/jard), each a process that makes    *)
(* one call after the other, through Client and Server of                  *)
(* internal/api/rpc, of a service that several of them share.              *)
(*                                                                         *)
(* A call is a request, what the service does, and a reply; Wire says what *)
(* becomes of the values.  The service is one step per call, but for the   *)
(* two that take more: finding by path and listing read the directory of   *)
(* records, then each record, then ask the runtime for each sandbox        *)
(* (store.List, direct.List).  What the other calls are made of is in      *)
(* Lifecycle and ExecSession.                                              *)
(***************************************************************************)
EXTENDS SandboxSpec, Wire

CONSTANTS
  Processes,     \* invocations of jard
  Lines,         \* command lines
  Priors,        \* command lines of sandboxes that may be there from before
  Order,         \* every sandbox name, in sorted order
  Egress,        \* whether the daemon has a proxy
  ExitCodes,     \* what an agent or a command may exit with
  NoSandbox

ASSUME OrderAssumption ==
  Order \in Seq(ValidNames) /\ ValidNames \subseteq {Order[i] : i \in DOMAIN Order}

\* A message's numbers hold every port, and every exit status.
ASSUME NumbersAssumption == Half > 65535 /\ \A code \in ExitCodes : Fits(code)

\* What a shell hands a command: lists of arguments, from some directory.
ASSUME LinesAssumption ==
  LET IsList(s) == s \in Seq({s[i] : i \in DOMAIN s})
  IN  \A l \in Lines \cup Priors :
        /\ l # <<>>
        /\ l.cwd = [dir |-> l.cwd.dir, mode |-> l.cwd.mode] /\ l.cwd.dir # ""
        /\ l.cmd \in {"run", "create"} =>
             /\ IsList(l.args) /\ IsList(l.flags.env) /\ IsList(l.flags.ports)
             /\ l.flags.cpus \in Int /\ l.flags.memory.halves \in Int

VARIABLES
  records,       \* the store: name -> sandbox
  boxes,         \* the runtime: name -> container
  births,        \* sandboxes created so far; a sandbox's createdAt tells it apart
  line, at, pc,  \* process -> its command, the call it makes, how far that is
  request, reply,
  todo, got,     \* the service's side of a listing: names to read or observe, what it has
  found,         \* process -> the sandbox it has resolved
  exit,          \* process -> its exit status, once it is done
  ran,           \* process -> the container its agent or command ran in
  before, since  \* process -> specs of the sandboxes there when its listing began,
                 \* and of those there at any time since

serviceVars == <<records, boxes, births>>
clientVars == <<line, at, found, exit>>
listingVars == <<todo, got, before, since>>
vars == <<serviceVars, clientVars, pc, request, reply, listingVars, ran>>

NoReply == [code |-> "OK"]
Sorted(S) ==
  LET sorted[i \in 0..Len(Order)] ==
        IF i = 0 THEN <<>>
        ELSE IF Order[i] \in S THEN Append(sorted[i - 1], Order[i])
        ELSE sorted[i - 1]
  IN  sorted[Len(Order)]
Without(f, n) == [m \in DOMAIN f \ {n} |-> f[m]]
Present == {records[n].spec : n \in DOMAIN records}

TypeOK ==
  /\ DOMAIN records \subseteq ValidNames /\ DOMAIN boxes = DOMAIN records
  /\ \A n \in DOMAIN records :
       records[n].spec.name = n /\ Validate(records[n].spec) /\ Fits(records[n].state.exitCode)
  /\ births \in Nat /\ \A n \in DOMAIN records : records[n].spec.createdAt.at \in 1..births
  /\ at \in [Processes -> {"none", "Inspect", "Create", "Start", "Stop", "Remove", "Exec", "Copy", "List"}]
  /\ pc \in [Processes -> {"idle", "call", "reading", "observing", "answered", "done"}]
  /\ exit \in [Processes -> ExitCodes \cup {0, 1}]
  /\ \A p \in Processes : reply[p].code \in Code
-----------------------------------------------------------------------------
(* Requests, as the client renders them *)

RefRequest(ref) == [ref |-> ProtoRef(ref)]
RemoveRequest(ref, force) == [ref |-> ProtoRef(ref), force |-> force]
CreateRequest(spec) == [spec |-> ProtoSpec(spec)]
CopyRequest(src, dst) == [src |-> ProtoPath(src), dst |-> ProtoPath(dst)]
ExecFrame(ref, req) == [ref |-> ProtoRef(ref), req |-> ProtoExecRequest(req)]

ByName(name) == [name |-> name, path |-> NoPath]
ByPath(path) == [name |-> "", path |-> path]

\* A command's next call, or the end of it.
Call(p, which, message) ==
  /\ at' = [at EXCEPT ![p] = which]
  /\ pc' = [pc EXCEPT ![p] = "call"]
  /\ request' = [request EXCEPT ![p] = message]
  /\ reply' = [reply EXCEPT ![p] = NoReply]
  /\ UNCHANGED exit

Quit(p, status) ==
  /\ at' = [at EXCEPT ![p] = "none"]
  /\ pc' = [pc EXCEPT ![p] = "done"]
  /\ exit' = [exit EXCEPT ![p] = status]
  /\ UNCHANGED <<request, reply>>
-----------------------------------------------------------------------------
(* What a command line begins with *)

runRef(l) ==
  LET paths == splitAgentAndPaths(l.args).paths
      first == IF paths = <<>> THEN [host |-> l.cwd] ELSE parseWorkspace(paths[1], l.cwd)
  IN  CASE l.flags.name # "" -> ByName(l.flags.name)
        [] l.flags.name = "" /\ first = Rejected -> Rejected
        [] OTHER -> ByPath(first.host)

refArg(l) == IF l.sandbox # "" THEN ByName(l.sandbox) ELSE ByPath(l.cwd)

specOf(l) ==
  LET positional == splitAgentAndPaths(l.args)
  IN  buildSpec(l.flags, positional.agent, positional.paths, l.cwd)

CallOrQuit(p, which, argument, message) ==
  IF argument = Rejected THEN Quit(p, 1) ELSE Call(p, which, message)

BeginRun(p, l) ==
  /\ l.cmd = "run"
  /\ LET ref == runRef(l) IN CallOrQuit(p, "Inspect", ref, IF ref = Rejected THEN <<>> ELSE RefRequest(ref))

BeginCreate(p, l) ==
  /\ l.cmd = "create"
  /\ LET spec == specOf(l) IN CallOrQuit(p, "Create", spec, IF spec = Rejected THEN <<>> ELSE CreateRequest(spec))

\* act, and inspect: the sandbox's own name comes first.
BeginAct(p, l) ==
  /\ l.cmd \in {"start", "stop", "rm", "inspect"}
  /\ Call(p, "Inspect", RefRequest(refArg(l)))

BeginExec(p, l) ==
  /\ l.cmd = "exec"
  /\ LET env == cutEnv(l.env)
         req == [cmd |-> l.args, env |-> env, workdir |-> l.workdir, user |-> l.user,
                 interactive |-> TRUE, tty |-> l.tty]
     IN  CallOrQuit(p, "Exec", env, IF env = Rejected THEN <<>> ELSE ExecFrame(ByName(l.sandbox), req))

BeginCopy(p, l) ==
  /\ l.cmd = "cp"
  /\ Call(p, "Copy", CopyRequest(parseCopyPath(l.args[1]), parseCopyPath(l.args[2])))

BeginList(p, l) == l.cmd = "ls" /\ Call(p, "List", <<>>)

Begin(p) ==
  /\ pc[p] = "idle"
  /\ \E l \in Lines :
       /\ \/ BeginRun(p, l) \/ BeginCreate(p, l) \/ BeginAct(p, l)
          \/ BeginExec(p, l) \/ BeginCopy(p, l) \/ BeginList(p, l)
       /\ line' = [line EXCEPT ![p] = l]
  /\ UNCHANGED <<serviceVars, found, listingVars, ran>>
-----------------------------------------------------------------------------
(* The daemon's side *)

Serving(p, which) == pc[p] = "call" /\ at[p] = which
Answered(p, which) == pc[p] = "answered" /\ at[p] = which
Ok(p) == reply[p].code = "OK"

Reply(p, message) ==
  /\ reply' = [reply EXCEPT ![p] = message]
  /\ pc' = [pc EXCEPT ![p] = "answered"]
Failure(err) == [code |-> wireError(err)]

\* The sandboxes a process's listing may show follow what is created meanwhile.
Created(sb) == since' = [q \in Processes |-> IF pc[q] = "idle" THEN since[q]
                                             ELSE since[q] \cup {sb.spec}]

\* Service.Create: the spec is checked again, wherever it comes from.
NewSandbox(spec) ==
  LET stamped == [spec EXCEPT !.createdAt = [at |-> births + 1, zone |-> UTC]]
  IN  [spec |-> stamped,
       state |-> [status |-> "created", containerId |-> spec.name, startedAt |-> ZeroTime, exitCode |-> 0]]

MayCreateUnchecked(spec) == spec.name \notin DOMAIN records
MayCreate(spec) == Validate(spec) /\ spec.name \notin DOMAIN records

Create(p) ==
  /\ Serving(p, "Create")
  /\ LET spec == ApiSpec(request[p].spec)
         sb == NewSandbox(spec)
     IN  IF ~MayCreate(spec)
         THEN /\ Reply(p, Failure(IF Validate(spec) THEN {"ErrExists"} ELSE {}))
              /\ UNCHANGED <<serviceVars, since>>
         ELSE /\ births' = births + 1
              /\ records' = Over([n \in {spec.name} |-> sb], records)
              /\ boxes' = Over([n \in {spec.name} |-> [config |-> CreateInvocation(sb.spec, Egress),
                                                       status |-> "created", asked |-> line[p]]], boxes)
              /\ Created(sb)
              /\ Reply(p, [code |-> "OK", sandbox |-> ProtoSandbox(sb)])
  /\ UNCHANGED <<clientVars, request, todo, got, before, ran>>

\* Start and Stop, of a sandbox by its name; act stores what it then observes.
Boot(p, which, status) ==
  /\ Serving(p, which)
  /\ LET name == ApiRef(request[p].ref).name
     IN  IF name \notin DOMAIN records
         THEN Reply(p, Failure({"ErrNotFound"})) /\ UNCHANGED <<records, boxes>>
         ELSE /\ boxes' = [boxes EXCEPT ![name].status = status]
              /\ records' = [records EXCEPT ![name].state.status = status]
              /\ Reply(p, NoReply)
  /\ UNCHANGED <<births, clientVars, request, listingVars, ran>>
Start(p) == Boot(p, "Start", "running")
Stop(p) == Boot(p, "Stop", "stopped")

Remove(p) ==
  /\ Serving(p, "Remove")
  /\ LET name == ApiRef(request[p].ref).name
     IN  CASE name \notin DOMAIN records ->
                Reply(p, Failure({"ErrNotFound"})) /\ UNCHANGED <<records, boxes>>
           [] name \in DOMAIN records /\ boxes[name].status = "running" /\ ~request[p].force ->
                Reply(p, Failure({"ErrRunning"})) /\ UNCHANGED <<records, boxes>>
           [] OTHER ->
                /\ records' = Without(records, name) /\ boxes' = Without(boxes, name)
                /\ Reply(p, NoReply)
  /\ UNCHANGED <<births, clientVars, request, listingVars, ran>>

\* The runtime refuses to run where there is nothing running, or no such directory.
Runnable(name, workdir) ==
  /\ boxes[name].status = "running"
  /\ workdir = NoPath \/ \E ro \in BOOLEAN : <<workdir, ro>> \in boxes[name].config.volumes

Exec(p) ==
  /\ Serving(p, "Exec")
  /\ LET name == ApiRef(request[p].ref).name
         call == ExecInvocation(name, ApiExecRequest(request[p].req))
     IN  CASE name \notin DOMAIN records ->
                Reply(p, Failure({"ErrNotFound"})) /\ UNCHANGED ran
           [] name \in DOMAIN records /\ ~Runnable(name, call.workdir) ->
                Reply(p, [code |-> "OK", exitCode |-> 1]) /\ UNCHANGED ran
           [] OTHER -> \E code \in ExitCodes :
                /\ Reply(p, [code |-> "OK", exitCode |-> Int32(code)])
                /\ ran' = [ran EXCEPT ![p] = [call |-> call, config |-> boxes[name].config]]
  /\ UNCHANGED <<serviceVars, clientVars, request, listingVars>>

Copy(p) ==
  /\ Serving(p, "Copy")
  /\ LET ref == CopyRef(ApiPath(request[p].src), ApiPath(request[p].dst))
     IN  CASE ref = Rejected -> Reply(p, Failure({}))
           [] ref # Rejected /\ ref.name \notin DOMAIN records -> Reply(p, Failure({"ErrNotFound"}))
           [] OTHER -> Reply(p, NoReply)
  /\ UNCHANGED <<serviceVars, clientVars, request, listingVars, ran>>

\* store.Find by name is one read.
FindByName(p) ==
  /\ Serving(p, "Inspect") /\ ApiRef(request[p].ref).name # ""
  /\ LET name == ApiRef(request[p].ref).name
     IN  IF name \notin DOMAIN records
         THEN Reply(p, Failure({"ErrNotFound"})) /\ UNCHANGED <<todo, got>>
         ELSE /\ got' = [got EXCEPT ![p] = <<records[name]>>]
              /\ todo' = [todo EXCEPT ![p] = <<name>>]
              /\ pc' = [pc EXCEPT ![p] = "observing"]
              /\ UNCHANGED reply
  /\ before' = [before EXCEPT ![p] = Present]
  /\ since' = [since EXCEPT ![p] = Present]
  /\ UNCHANGED <<serviceVars, clientVars, request, ran>>

\* Find by path and List begin with the names in the directory.
ReadDir(p) ==
  /\ Serving(p, "List") \/ (Serving(p, "Inspect") /\ ApiRef(request[p].ref).name = "")
  /\ todo' = [todo EXCEPT ![p] = Sorted(DOMAIN records)]
  /\ got' = [got EXCEPT ![p] = <<>>]
  /\ pc' = [pc EXCEPT ![p] = "reading"]
  /\ before' = [before EXCEPT ![p] = Present]
  /\ since' = [since EXCEPT ![p] = Present]
  /\ UNCHANGED <<serviceVars, clientVars, request, reply, ran>>

\* A record that has gone since fails the listing; to Service.find that is the
\* same as a sandbox that is not there, to Service.List an error like any other.
GoneEndsTheListing(p) ==
  todo' = [todo EXCEPT ![p] = <<>>] /\ UNCHANGED <<pc, reply, got>>
Gone(p) ==
  /\ Reply(p, Failure(IF at[p] = "Inspect" THEN {"ErrNotFound"} ELSE {}))
  /\ UNCHANGED <<todo, got>>

Get(p) ==
  /\ pc[p] = "reading" /\ todo[p] # <<>>
  /\ LET name == Head(todo[p])
     IN  IF name \in DOMAIN records
         THEN /\ got' = [got EXCEPT ![p] = Append(@, records[name])]
              /\ todo' = [todo EXCEPT ![p] = Tail(@)]
              /\ UNCHANGED <<pc, reply>>
         ELSE Gone(p)
  /\ UNCHANGED <<serviceVars, clientVars, request, before, since, ran>>

Matches(sb, path) == Primary(sb.spec) = path

Matched(p) ==
  /\ pc[p] = "reading" /\ todo[p] = <<>>
  /\ LET path == IF at[p] = "List" THEN NoPath ELSE ApiRef(request[p].ref).path
         hits == {i \in DOMAIN got[p] : Matches(got[p][i], path)}
         mine == IF at[p] = "List" THEN got[p] ELSE <<got[p][CHOOSE i \in hits : First(i, hits)]>>
     IN  IF at[p] = "Inspect" /\ hits = {}
         THEN Reply(p, Failure({"ErrNotFound"})) /\ UNCHANGED <<todo, got>>
         ELSE /\ got' = [got EXCEPT ![p] = mine]
              /\ todo' = [todo EXCEPT ![p] = [i \in DOMAIN mine |-> mine[i].spec.name]]
              /\ pc' = [pc EXCEPT ![p] = "observing"]
              /\ UNCHANGED reply
  /\ UNCHANGED <<serviceVars, clientVars, request, before, since, ran>>

\* observe: what the runtime says, or what was last recorded when it says nothing.
Observe(p) ==
  /\ pc[p] = "observing" /\ todo[p] # <<>>
  /\ LET name == Head(todo[p])
         i == Len(got[p]) - Len(todo[p]) + 1
         status == IF name \in DOMAIN boxes THEN boxes[name].status ELSE "missing"
     IN  \/ got' = [got EXCEPT ![p][i].state.status = status]
         \/ UNCHANGED got
  /\ todo' = [todo EXCEPT ![p] = Tail(@)]
  /\ UNCHANGED <<serviceVars, clientVars, pc, request, reply, before, since, ran>>

Observed(p) ==
  /\ pc[p] = "observing" /\ todo[p] = <<>>
  /\ Reply(p, IF at[p] = "List"
              THEN [code |-> "OK", sandboxes |-> [i \in DOMAIN got[p] |-> ProtoSandbox(got[p][i])]]
              ELSE [code |-> "OK", sandbox |-> ProtoSandbox(got[p][1])])
  /\ got' = [got EXCEPT ![p] = <<>>]
  /\ UNCHANGED <<serviceVars, clientVars, request, todo, before, since, ran>>

\* A call fails: the runtime does, or the daemon has gone, perhaps only after it
\* did what it was asked.
CallFails(p) ==
  /\ pc[p] \in {"call", "reading", "observing", "answered"} /\ Ok(p)
  /\ \/ pc[p] = "call" /\ Reply(p, Failure({}))
     \/ Reply(p, [code |-> "Unavailable"])
  /\ todo' = [todo EXCEPT ![p] = <<>>] /\ got' = [got EXCEPT ![p] = <<>>]
  /\ UNCHANGED <<serviceVars, clientVars, request, before, since, ran>>
-----------------------------------------------------------------------------
(* What a command does with an answer *)

\* resolveOrCreate: only a sandbox that is not there is created.
NothingHereOnAnyError(p) == ~Ok(p)
NothingHere(p) == ~Ok(p) /\ "ErrNotFound" \in localError(reply[p].code)

AgentDirLeftOut(sb) == NoPath
AgentDir(sb) == Primary(sb.spec)

\* The sandbox's own agent wins over the one named on the command line.
AgentRequest(l, sb) ==
  LET agent == LookupAgent(sb.spec.agent)
  IN  IF agent = Rejected THEN Rejected
      ELSE [cmd |-> agent.command \o l.passthrough, env |-> Pairs(<<>>),
            workdir |-> AgentDir(sb), user |-> "", interactive |-> TRUE, tty |-> l.tty]

Attach(p, sb) ==
  LET req == AgentRequest(line[p], sb)
  IN  CallOrQuit(p, "Exec", req, IF req = Rejected THEN <<>> ELSE ExecFrame(ByName(sb.spec.name), req))

RunFinds(p) ==
  /\ Answered(p, "Inspect") \/ Answered(p, "Create")
  /\ line[p].cmd = "run" /\ Ok(p)
  /\ LET sb == ApiSandbox(reply[p].sandbox)
     IN  /\ found' = [found EXCEPT ![p] = sb]
         /\ IF sb.state.status = "running" THEN Attach(p, sb)
            ELSE Call(p, "Start", RefRequest(ByName(sb.spec.name)))

RunCreates(p) ==
  /\ Answered(p, "Inspect") /\ line[p].cmd = "run" /\ NothingHere(p)
  /\ LET spec == specOf(line[p])
     IN  CallOrQuit(p, "Create", spec, IF spec = Rejected THEN <<>> ELSE CreateRequest(spec))
  /\ UNCHANGED found

RunAttaches(p) ==
  /\ Answered(p, "Start") /\ line[p].cmd = "run" /\ Ok(p)
  /\ Attach(p, found[p])
  /\ UNCHANGED found

Act(p) ==
  /\ Answered(p, "Inspect") /\ line[p].cmd \in {"start", "stop", "rm"} /\ Ok(p)
  /\ LET ref == ByName(ApiSandbox(reply[p].sandbox).spec.name)
     IN  CASE line[p].cmd = "start" -> Call(p, "Start", RefRequest(ref))
           [] line[p].cmd = "stop" -> Call(p, "Stop", RefRequest(ref))
           [] line[p].cmd = "rm" -> Call(p, "Remove", RemoveRequest(ref, line[p].force))
  /\ UNCHANGED found

\* A session's status is the command's own (exitCodeError, main.run).
Finish(p) ==
  /\ pc[p] = "answered" /\ Ok(p)
  /\ CASE line[p].cmd \in {"run", "exec"} -> at[p] = "Exec" /\ Quit(p, reply[p].exitCode)
       [] line[p].cmd \in {"start", "stop", "rm"} -> at[p] # "Inspect" /\ Quit(p, 0)
       [] OTHER -> Quit(p, 0)
  /\ UNCHANGED found

Fail(p) ==
  /\ pc[p] = "answered" /\ ~Ok(p)
  /\ ~(line[p].cmd = "run" /\ at[p] = "Inspect" /\ NothingHere(p))
  /\ Quit(p, 1)
  /\ UNCHANGED found

Continue(p) ==
  /\ \/ RunFinds(p) \/ RunCreates(p) \/ RunAttaches(p) \/ Act(p) \/ Finish(p) \/ Fail(p)
  /\ UNCHANGED <<serviceVars, line, listingVars, ran>>
-----------------------------------------------------------------------------
\* Sandboxes from before were made by command lines that could make them.
ASSUME PriorsAssumption ==
  \A l \in Priors : l.cmd = "create" /\ specOf(l) # Rejected /\ Validate(specOf(l))

\* A sandbox from before, as its command line made it; births goes on from there.
Prior(l, status) ==
  LET spec == [specOf(l) EXCEPT !.createdAt = [at |-> CHOOSE i \in DOMAIN Order : Order[i] = specOf(l).name, zone |-> UTC]]
  IN  [record |-> [spec |-> spec, state |-> [status |-> status, containerId |-> spec.name,
                                             startedAt |-> ZeroTime, exitCode |-> 0]],
       box |-> [config |-> CreateInvocation(spec, Egress), status |-> status, asked |-> l]]

Init ==
  /\ \E S \in SUBSET Priors : \E status \in [S -> {"stopped", "running"}] :
       LET Named(n) == CHOOSE l \in S : specOf(l).name = n
           names == {specOf(l).name : l \in S}
       IN  /\ records = [n \in names |-> Prior(Named(n), status[Named(n)]).record]
           /\ boxes = [n \in names |-> Prior(Named(n), status[Named(n)]).box]
  /\ births = Len(Order)
  /\ line = [p \in Processes |-> <<>>] /\ at = [p \in Processes |-> "none"]
  /\ pc = [p \in Processes |-> "idle"]
  /\ request = [p \in Processes |-> <<>>] /\ reply = [p \in Processes |-> NoReply]
  /\ todo = [p \in Processes |-> <<>>] /\ got = [p \in Processes |-> <<>>]
  /\ found = [p \in Processes |-> NoSandbox] /\ exit = [p \in Processes |-> 0]
  /\ ran = [p \in Processes |-> NoSandbox]
  /\ before = [p \in Processes |-> {}] /\ since = [p \in Processes |-> {}]

Next == \E p \in Processes :
  \/ Begin(p) \/ Continue(p) \/ CallFails(p)
  \/ Create(p) \/ Start(p) \/ Stop(p) \/ Remove(p) \/ Exec(p) \/ Copy(p)
  \/ FindByName(p) \/ ReadDir(p) \/ Get(p) \/ Matched(p) \/ Observe(p) \/ Observed(p)

Spec == Init /\ [][Next]_vars
-----------------------------------------------------------------------------
(* Properties *)

\* A run creates a sandbox only where its lookup could find none: if no sandbox has
\* been removed since the lookup began, then none that was there carries the name,
\* or has for its first workspace the directory, that the command line stands for.
\* (run.go's help: "running jard again in the same directory finds the same
\* sandbox".  A removal meanwhile, of any sandbox, fails the listing with an error
\* that says not found.)
RunReattaches ==
  \A p \in Processes :
    /\ line[p] # <<>> /\ pc[p] = "call" /\ at[p] = "Create"
    /\ line[p].cmd = "run" /\ before[p] \subseteq Present
    => LET ref == runRef(line[p])
       IN  \A spec \in before[p] :
             IF ref.name # "" THEN spec.name # ref.name ELSE Primary(spec) # ref.path

\* What ls shows is in order, has every sandbox that was there all along, and only
\* such as were there at some time while it listed, each with the spec it was
\* created with, whatever was created, removed, started or stopped meanwhile.
ListIsFaithful ==
  \A p \in Processes :
    Answered(p, "List") /\ Ok(p) =>
      LET shown == [i \in DOMAIN reply[p].sandboxes |-> ApiSandbox(reply[p].sandboxes[i]).spec]
          specs == {shown[i] : i \in DOMAIN shown}
      IN  /\ before[p] \cap Present \subseteq specs /\ specs \subseteq since[p]
          /\ [i \in DOMAIN shown |-> shown[i].name] = Sorted({s.name : s \in specs})

\* What a command line asks for: its directories, its ports and the rest.
Wanted(l) ==
  LET given == IF l.args # <<>> /\ l.args[1].mode = NoMode /\ l.args[1].dir \in DOMAIN Agents
               THEN Tail(l.args) ELSE l.args
  IN  IF given = <<>> THEN <<Plain(Here)>> ELSE given
Absolute(arg, l) == IF arg.dir = Here THEN l.cwd ELSE Plain(arg.dir)
Publishes(q, port) ==
  /\ q.host = port.host /\ (q.proto = "udp") = (port.proto = "udp")
  /\ q.sandbox = IF port.bare THEN q.host ELSE port.sandbox
AsAsked(config, name, l) ==
  LET dirs == Wanted(l)
      ports == l.flags.ports
      env == l.flags.env
      asked == {env[i].key : i \in DOMAIN env}
  IN  /\ config.volumes = {<<Absolute(dirs[i], l), dirs[i].mode = "ro">> : i \in DOMAIN dirs}
      /\ config.workdir = Absolute(dirs[1], l)
      /\ \A i \in DOMAIN ports : \E q \in config.publish : Publishes(q, ports[i])
      /\ \A q \in config.publish : \E i \in DOMAIN ports : Publishes(q, ports[i])
      /\ config.cpus = l.flags.cpus
      /\ (config.memory = 0) = (l.flags.memory.halves * ByteUnits[l.flags.memory.unit] < 2)
      /\ \A k \in asked \ (ProxyKeys \cup NoProxyKeys) : \E i \in DOMAIN env :
           /\ env[i].key = k /\ config.env[k] = env[i].value
           /\ \A j \in (i + 1)..Len(env) : env[j].key # k
      /\ Egress => \A k \in ProxyKeys : config.env[k] = RelayAddr(name)

\* A container is what the command line that made it asked for: it mounts those
\* directories and no other, read-only where it said so, works in the first, has
\* the ports, the limits and the last value of each variable asked for, but for the
\* variables that point at the relay, which no command line can set.  (But for a
\* current directory with a colon in its name, which is cut like an argument; and a
\* size of less than a byte, which is no limit.)
ContainerIsAsAsked ==
  \A n \in DOMAIN boxes :
    boxes[n].asked.cwd.mode = NoMode => AsAsked(boxes[n].config, n, boxes[n].asked)

\* An agent that run started from a directory runs in a container that mounts that
\* directory, and works there: run finds the sandbox by its path and then goes on by
\* its name, under which there may be another one by then.
AgentRunsWhereAsked ==
  \A p \in Processes :
    ran[p] # NoSandbox /\ line[p].cmd = "run" /\ line[p].flags.name = "" /\ line[p].cwd.mode = NoMode =>
      LET path == runRef(line[p]).path
      IN  /\ ran[p].call.workdir = path
          /\ \E ro \in BOOLEAN : <<path, ro>> \in ran[p].config.volumes
=============================================================================
