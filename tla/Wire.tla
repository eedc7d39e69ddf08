-------------------------------- MODULE Wire --------------------------------
(***************************************************************************)
(* What becomes of values and errors between the daemon and its clients:   *)
(* internal/api/rpc/convert.go and errors.go.  ProtoX renders a value as a *)
(* message, ApiX reads it back; a message that was left out is Absent.     *)
(*                                                                         *)
(* A time is an instant and the zone it is told in; a number in a message  *)
(* is a signed integer of 2 * Half values (2^32 in the code).  A map or a  *)
(* list that is empty and one that is nil are the same.                    *)
(***************************************************************************)
EXTENDS Integers, Sequences

CONSTANT
  Half  \* 2^31: what a message's number holds, either side of zero

ASSUME HalfAssumption == Half \in Nat \ {0}

\* A message that is not there.
Absent == [absent |-> TRUE]

UTC == "UTC"
ZeroTime == [at |-> 0, zone |-> UTC]

\* int32(n)
Int32(n) == ((n + Half) % (2 * Half)) - Half
Fits(n) == n \in (-Half)..(Half - 1)

ProtoTime(t) == IF t.at = 0 THEN Absent ELSE [seconds |-> t.at]
ApiTime(ts) == IF ts = Absent THEN ZeroTime ELSE [at |-> ts.seconds, zone |-> UTC]
-----------------------------------------------------------------------------
(* Specs, states and sandboxes *)

ZeroSpec == [name |-> "", agent |-> "", image |-> "", workspaces |-> <<>>,
             cpus |-> 0, memory |-> 0, env |-> <<>>, ports |-> <<>>, createdAt |-> ZeroTime]
ZeroState == [status |-> "", containerId |-> "", startedAt |-> ZeroTime, exitCode |-> 0]

ProtoPort(p) == [host |-> Int32(p.host), sandbox |-> Int32(p.sandbox), proto |-> p.proto]
ApiPort(p) == [host |-> p.host, sandbox |-> p.sandbox, proto |-> p.proto]

ProtoSpec(s) ==
  [name |-> s.name, agent |-> s.agent, image |-> s.image,
   resources |-> [cpus |-> s.cpus, memory |-> s.memory],
   env |-> s.env,
   createdAt |-> ProtoTime(s.createdAt),
   workspaces |-> [i \in 1..Len(s.workspaces) |->
                     [host |-> s.workspaces[i].host, readOnly |-> s.workspaces[i].readOnly]],
   ports |-> [i \in 1..Len(s.ports) |-> ProtoPort(s.ports[i])]]

ApiSpec(p) ==
  IF p = Absent THEN ZeroSpec
  ELSE [name |-> p.name, agent |-> p.agent, image |-> p.image,
        workspaces |-> [i \in 1..Len(p.workspaces) |->
                          [host |-> p.workspaces[i].host, readOnly |-> p.workspaces[i].readOnly]],
        cpus |-> IF p.resources = Absent THEN 0 ELSE p.resources.cpus,
        memory |-> IF p.resources = Absent THEN 0 ELSE p.resources.memory,
        env |-> p.env,
        ports |-> [i \in 1..Len(p.ports) |-> ApiPort(p.ports[i])],
        createdAt |-> ApiTime(p.createdAt)]

ProtoState(s) ==
  [status |-> s.status, containerId |-> s.containerId,
   startedAt |-> ProtoTime(s.startedAt), exitCode |-> Int32(s.exitCode)]
ApiState(p) ==
  IF p = Absent THEN ZeroState
  ELSE [status |-> p.status, containerId |-> p.containerId,
        startedAt |-> ApiTime(p.startedAt), exitCode |-> p.exitCode]

ProtoSandbox(sb) == [spec |-> ProtoSpec(sb.spec), state |-> ProtoState(sb.state)]
ApiSandbox(p) ==
  IF p = Absent THEN [spec |-> ZeroSpec, state |-> ZeroState]
  ELSE [spec |-> ApiSpec(p.spec), state |-> ApiState(p.state)]
-----------------------------------------------------------------------------
(* Requests, policies and decisions *)

ProtoRef(r) == [name |-> r.name, path |-> r.path]
ApiRef(p) == IF p = Absent THEN [name |-> "", path |-> ""] ELSE [name |-> p.name, path |-> p.path]

ProtoPath(p) == [sandbox |-> p.sandbox, path |-> p.path]
ApiPath(p) == IF p = Absent THEN [sandbox |-> "", path |-> ""] ELSE [sandbox |-> p.sandbox, path |-> p.path]

ProtoExecRequest(r) ==
  [cmd |-> r.cmd, env |-> r.env, workdir |-> r.workdir, user |-> r.user,
   interactive |-> r.interactive, tty |-> r.tty]
ApiExecRequest(p) ==
  IF p = Absent THEN [cmd |-> <<>>, env |-> <<>>, workdir |-> "", user |-> "",
                      interactive |-> FALSE, tty |-> FALSE]
  ELSE [cmd |-> p.cmd, env |-> p.env, workdir |-> p.workdir, user |-> p.user,
        interactive |-> p.interactive, tty |-> p.tty]

ProtoPolicy(p) ==
  [preset |-> p.preset,
   rules |-> [i \in 1..Len(p.rules) |-> [pattern |-> p.rules[i].pattern, allow |-> p.rules[i].allow]]]
ApiPolicy(p) ==
  IF p = Absent THEN [preset |-> "", rules |-> <<>>]
  ELSE [preset |-> p.preset,
        rules |-> [i \in 1..Len(p.rules) |-> [pattern |-> p.rules[i].pattern, allow |-> p.rules[i].allow]]]

ProtoDecision(e) ==
  [seq |-> e.seq, at |-> ProtoTime(e.at), host |-> e.target.host, port |-> Int32(e.target.port),
   allowed |-> e.allowed, reason |-> e.reason, sandbox |-> e.sandbox]
ApiDecision(d) ==
  IF d = Absent THEN [seq |-> 0, at |-> ZeroTime, target |-> [host |-> "", port |-> 0],
                      allowed |-> FALSE, reason |-> "", sandbox |-> ""]
  ELSE [seq |-> d.seq, at |-> ApiTime(d.at), target |-> [host |-> d.host, port |-> d.port],
        allowed |-> d.allowed, reason |-> d.reason, sandbox |-> d.sandbox]
-----------------------------------------------------------------------------
(* Errors: the set of the sentinels that errors.Is finds in them.  OK is no *)
(* error, as a code; one that wraps no sentinel travels as Unknown.         *)

sentinels == <<
  [err |-> "ErrNotFound",       code |-> "NotFound"],
  [err |-> "ErrExists",         code |-> "AlreadyExists"],
  [err |-> "ErrRunning",        code |-> "FailedPrecondition"],
  [err |-> "ErrNotImplemented", code |-> "Unimplemented"],
  [err |-> "ErrNoPolicy",       code |-> "Unavailable"],
  [err |-> "Canceled",          code |-> "Canceled"],
  [err |-> "DeadlineExceeded",  code |-> "DeadlineExceeded"] >>

Sentinel == {"ErrNotFound", "ErrExists", "ErrRunning", "ErrNotImplemented", "ErrNoPolicy",
             "Canceled", "DeadlineExceeded"}
Code == {"OK", "Unknown", "NotFound", "AlreadyExists", "FailedPrecondition", "Unimplemented",
         "Unavailable", "Canceled", "DeadlineExceeded"}

\* The first entry of the table that a test holds for.
First(i, S) == i \in S /\ \A j \in S : i <= j
Wrapped(err) == {i \in DOMAIN sentinels : sentinels[i].err \in err}
Coded(code) == {i \in DOMAIN sentinels : sentinels[i].code = code}

wireError(err) ==
  IF Wrapped(err) = {} THEN "Unknown"
  ELSE sentinels[CHOOSE i \in DOMAIN sentinels : First(i, Wrapped(err))].code

localError(code) ==
  IF Coded(code) = {} THEN {}
  ELSE {sentinels[CHOOSE i \in DOMAIN sentinels : First(i, Coded(code))].err}
=============================================================================
