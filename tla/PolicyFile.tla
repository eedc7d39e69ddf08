----------------------------- MODULE PolicyFile -----------------------------
(***************************************************************************)
(* The host's policy, a file that is read and replaced as a whole          *)
(* (internal/store/policy.go), and those who edit it: the commands of      *)
(* cmd/jard/policy.go and the dashboard's ruleForSelected                  *)
(* (internal/tui/keys.go).  Each reads the policy, changes its copy and    *)
(* writes that back; a command that finds none asks for a preset first.    *)
(***************************************************************************)
EXTENDS EgressPolicy

CONSTANTS
  Editors,      \* commands and dashboards
  Patterns,     \* the patterns rules are written for
  NoPolicy,     \* no file
  Disruptions,  \* which of "outage", a daemon that is away when asked
  MaxEdits      \* bound on the edits begun

Policy == [preset : Presets, rules : Seq([pattern : Patterns, allow : BOOLEAN])]

ASSUME PolicyAssumption == NoPolicy \notin Policy /\ MaxEdits \in Nat

VARIABLES
  file,         \* the policy on disk, or NoPolicy
  task,         \* task[e]: what e has been asked for
  step,         \* step[e]: what e does next
  held,         \* held[e]: e's copy
  begun,        \* edits begun
  asked,        \* history: asked[p], the rule the last edit of p asked for
  disturbed     \* history: "overlap", two edits have been under way at once, "outage"

policyVars == <<file, task, step, held, begun, asked, disturbed>>

Task ==
  [op : {"allow", "deny", "rm"}, by : {"command"}, pattern : Patterns]
    \cup [op : {"allow", "deny"}, by : {"dashboard"}, pattern : {p \in Patterns : p.port = NoPort}]
    \cup [op : Presets, by : {"command"}, pattern : {NoPattern}]

NoTask == [op |-> "open", by |-> "command", pattern |-> NoPattern]
NoCopy == New("balanced")

PolicyTypeOK ==
  /\ file \in Policy \cup {NoPolicy}
  /\ task \in [Editors -> Task]
  /\ step \in [Editors -> {"idle", "read", "choose", "write"}]
  /\ held \in [Editors -> Policy]
  /\ begun \in 0..MaxEdits
  /\ asked \in [Patterns -> {"allow", "deny", "rm"}]
  /\ disturbed \subseteq {"overlap", "outage"}

PolicyInit ==
  /\ file = NoPolicy
  /\ task = [e \in Editors |-> NoTask]
  /\ step = [e \in Editors |-> "idle"]
  /\ held = [e \in Editors |-> NoCopy]
  /\ begun = 0
  /\ asked = [p \in Patterns |-> "rm"]
  /\ disturbed = {}

Goto(e, s) == step' = [step EXCEPT ![e] = s]

Finish(e) ==
  /\ Goto(e, "idle")
  /\ task' = [task EXCEPT ![e] = NoTask]
  /\ held' = [held EXCEPT ![e] = NoCopy]

Invoke(e) ==
  /\ step[e] = "idle" /\ begun < MaxEdits
  /\ \E t \in Task : task' = [task EXCEPT ![e] = t]
  /\ begun' = begun + 1
  /\ disturbed' = IF \E f \in Editors : step[f] # "idle" THEN disturbed \cup {"overlap"} ELSE disturbed
  /\ Goto(e, "read")
  /\ UNCHANGED <<file, held, asked>>

ReadPolicy(e) ==
  /\ step[e] = "read" /\ file # NoPolicy
  /\ held' = [held EXCEPT ![e] = file]
  /\ Goto(e, "write")
  /\ UNCHANGED <<file, task, begun, asked, disturbed>>

\* policyOrWizard asks where the dashboard only reports.
NoneToRead(e) ==
  /\ step[e] = "read"
  /\ IF task[e].by = "command" THEN Goto(e, "choose") /\ UNCHANGED <<task, held>> ELSE Finish(e)
  /\ UNCHANGED <<file, begun, asked>>

ReadNone(e) == file = NoPolicy /\ NoneToRead(e) /\ UNCHANGED disturbed

\* A daemon that is away is the code Unavailable, and that is ErrNoPolicy.
ReadUnreachable(e) ==
  /\ "outage" \in Disruptions
  /\ NoneToRead(e)
  /\ disturbed' = disturbed \cup {"outage"}

Choose(e) ==
  /\ step[e] = "choose"
  /\ \E preset \in Presets :
       /\ file' = New(preset)
       /\ held' = [held EXCEPT ![e] = New(preset)]
  /\ Goto(e, "write")
  /\ UNCHANGED <<task, begun, asked, disturbed>>

Edited(e) ==
  LET p == task[e].pattern
  IN CASE task[e].op \in {"allow", "deny"} -> WithRule(held[e], p, task[e].op = "allow")
       [] task[e].op = "rm"                -> WithoutRule(held[e], p)
       [] task[e].op \in Presets           -> WithPreset(held[e], task[e].op)

Write(e) ==
  /\ step[e] = "write"
  /\ task[e].op = "rm" => Edited(e) # held[e]
  /\ file' = Edited(e)
  /\ asked' = IF task[e].op \in Presets THEN asked
              ELSE [asked EXCEPT ![task[e].pattern] = task[e].op]
  /\ Finish(e)
  /\ UNCHANGED <<begun, disturbed>>

\* The form is left, there is nothing to drop, the write fails, or the command
\* only shows the policy.
GiveUp(e) ==
  /\ step[e] \in {"choose", "write"}
  /\ Finish(e)
  /\ UNCHANGED <<file, begun, asked, disturbed>>

Edit(e) ==
  \/ Invoke(e) \/ ReadPolicy(e) \/ ReadNone(e) \/ ReadUnreachable(e)
  \/ Choose(e) \/ Write(e) \/ GiveUp(e)
=============================================================================
