-------------------------------- MODULE Feed --------------------------------
(***************************************************************************)
(* The dashboard's view of the decision log: readConnections,              *)
(* appendConnections and the cursor of internal/tui/model.go over          *)
(* DecisionLog.                                                            *)
(*                                                                         *)
(* Every connTick starts a poll in a goroutine of its own with the connSeq *)
(* of that moment and does not wait for the one before it: polls overlap,  *)
(* read the log when they get there, and their batches come back as        *)
(* messages in any order.                                                  *)
(***************************************************************************)
EXTENDS DecisionLog

CONSTANTS
  Polls,          \* the polls that can be in flight at once
  ViewLimit,      \* connectionLimit: how many decisions the dashboard holds
  MaxSeq,         \* bound on the decisions of one daemon
  MaxRestarts     \* bound on the restarts of the daemon

ASSUME ViewAssumption == ViewLimit \in Nat \ {0}

VARIABLES
  polls,          \* poll -> what it is doing
  connections,    \* the decisions that can be scrolled, oldest first
  connSeq,        \* the sequence the next poll asks from
  cursor,         \* the position of the cursor in connections, from 1
  listed          \* history: the decisions that connections has held

viewVars == <<connections, connSeq, cursor, listed>>
vars == <<logVars, polls, viewVars>>

Idle == [state |-> "idle"]
Poll == {Idle} \cup [state : {"asked"}, since : Nat] \cup [state : {"answered"}, batch : Seq(Entry)]

TypeOK ==
  /\ LogTypeOK
  /\ polls \in [Polls -> Poll]
  /\ connections \in Seq(Entry) /\ Len(connections) <= ViewLimit
  /\ connSeq \in Nat
  /\ cursor \in 1..ViewLimit
  /\ listed \subseteq Entry

Init ==
  /\ LogInit
  /\ polls = [p \in Polls |-> Idle]
  /\ connections = <<>> /\ connSeq = 0 /\ cursor = 1 /\ listed = {}
-----------------------------------------------------------------------------
Decide ==
  /\ seq < MaxSeq
  /\ Record
  /\ UNCHANGED <<polls, viewVars>>

\* The client's connection finds the next daemon's socket by itself.
Restart ==
  /\ daemon < MaxRestarts
  /\ NewLog
  /\ UNCHANGED <<polls, viewVars>>

Ask(p) ==
  /\ polls[p] = Idle
  /\ polls' = [polls EXCEPT ![p] = [state |-> "asked", since |-> connSeq]]
  /\ UNCHANGED <<logVars, viewVars>>

Answer(p) ==
  /\ polls[p].state = "asked"
  /\ polls' = [polls EXCEPT ![p] = [state |-> "answered", batch |-> Since(polls[p].since)]]
  /\ UNCHANGED <<logVars, viewVars>>

PollFails(p) ==
  /\ polls[p].state = "asked"
  /\ polls' = [polls EXCEPT ![p] = Idle]
  /\ UNCHANGED <<logVars, viewVars>>

\* The sequence under the cursor, or zero.
SelectedConnection == IF cursor <= Len(connections) THEN connections[cursor].seq ELSE 0

\* Mutant: the cursor keeps its position rather than its decision.
SamePosition(view, selected) == IF cursor <= Len(view) THEN cursor ELSE Len(view)

\* Where the decision the cursor was on is now; the newest one if it is gone.
RestoredCursor(view, selected) ==
  LET found == {i \in 1..Len(view) : view[i].seq = selected}
  IN  IF selected # 0 /\ found # {}
      THEN CHOOSE i \in found : \A j \in found : i <= j
      ELSE Len(view)

\* Mutant: the dashboard skips ahead by what it drops.
DeliverSkippingAhead(p) ==
  /\ polls[p].state = "answered"
  /\ polls' = [polls EXCEPT ![p] = Idle]
  /\ LET batch == polls[p].batch
         all   == connections \o batch
     IN  IF batch = <<>>
         THEN UNCHANGED viewVars
         ELSE /\ connections' = Keep(all, ViewLimit)
              /\ connSeq' = connSeq + Len(all)
              /\ cursor' = RestoredCursor(connections', SelectedConnection)
              /\ listed' = listed \cup {connections'[i] : i \in 1..Len(connections')}
  /\ UNCHANGED logVars

\* Mutant: the view is not trimmed.
DeliverUntrimmed(p) ==
  /\ polls[p].state = "answered"
  /\ polls' = [polls EXCEPT ![p] = Idle]
  /\ LET batch == polls[p].batch
         all   == connections \o batch
     IN  IF batch = <<>>
         THEN UNCHANGED viewVars
         ELSE /\ connections' = all
              /\ connSeq' = all[Len(all)].seq
              /\ cursor' = RestoredCursor(connections', SelectedConnection)
              /\ listed' = listed \cup {connections'[i] : i \in 1..Len(connections')}
  /\ UNCHANGED logVars

Deliver(p) ==
  /\ polls[p].state = "answered"
  /\ polls' = [polls EXCEPT ![p] = Idle]
  /\ LET batch == polls[p].batch
         all   == connections \o batch
     IN  IF batch = <<>>
         THEN UNCHANGED viewVars
         ELSE /\ connections' = Keep(all, ViewLimit)
              /\ connSeq' = all[Len(all)].seq
              /\ cursor' = RestoredCursor(connections', SelectedConnection)
              /\ listed' = listed \cup {connections'[i] : i \in 1..Len(connections')}
  /\ UNCHANGED logVars

\* One up, one down, to the oldest, to the newest; it does not leave the list.
MoveCursor ==
  /\ cursor' \in {cursor - 1, cursor + 1, 1, Len(connections)} \cap (1..Len(connections))
  /\ UNCHANGED <<logVars, polls, connections, connSeq, listed>>

Next ==
  \/ Decide \/ Restart \/ MoveCursor
  \/ \E p \in Polls : Ask(p) \/ Answer(p) \/ PollFails(p) \/ Deliver(p)

Spec == Init /\ [][Next]_vars
-----------------------------------------------------------------------------
(***************************************************************************)
(* Properties.                                                             *)
(***************************************************************************)
Decision(i) == [seq |-> i, daemon |-> daemon]
Skipped == {i \in 1..connSeq : Decision(i) \notin listed}

\* A full list of consecutive decisions, all newer than i, has been listed.
Displaced(i) ==
  \E last \in (i + ViewLimit)..seq : \A j \in (last - ViewLimit + 1)..last : Decision(j) \in listed

\* With one daemon, asking only for what is newer than connSeq passes over no
\* decision without cause, however polls overlap and overtake each other: one
\* that was never listed has been dropped by the log itself, or newer ones
\* that came with it left no room for it in the list (appendConnections cuts
\* to connectionLimit before anything is drawn).
NothingIsSkipped ==
  daemon = 0 => \A i \in Skipped : i <= seq - Len(entries) \/ Displaced(i)

\* A batch that arrives leaves the cursor on the decision it was on, unless
\* that one is no longer held.
CursorStaysOnDecision ==
  [][connections' # connections /\ SelectedConnection # 0 =>
       \/ SelectedConnection' = SelectedConnection
       \/ \A i \in 1..Len(connections') : connections'[i].seq # SelectedConnection]_vars
=============================================================================
