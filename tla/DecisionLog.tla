---------------------------- MODULE DecisionLog ----------------------------
(***************************************************************************)
(* The proxy's bounded record of recent decisions: Log of                  *)
(* internal/proxy/log.go.  A decision is reduced to what identifies it:    *)
(* its sequence, and which daemon's log it is in, since a restarted daemon *)
(* has a new log.  A mutex makes Record and Since atomic.                  *)
(***************************************************************************)
EXTENDS Naturals, Sequences

CONSTANT Limit    \* how many decisions the log keeps

ASSUME LimitAssumption == Limit \in Nat \ {0}

VARIABLES
  seq,            \* the sequence of the latest decision
  entries,        \* the decisions kept, oldest first
  daemon          \* how many daemons there have been before this one

logVars == <<seq, entries, daemon>>

Entry == [seq : Nat \ {0}, daemon : Nat]

LogTypeOK ==
  /\ seq \in Nat
  /\ entries \in Seq(Entry)
  /\ daemon \in Nat

LogInit == seq = 0 /\ entries = <<>> /\ daemon = 0

\* The last n elements of s.
Keep(s, n) == IF Len(s) > n THEN SubSeq(s, Len(s) - n + 1, Len(s)) ELSE s

\* Mutant: the full log drops what is new rather than what is old.
RecordKeepingOldest ==
  /\ seq' = seq + 1
  /\ entries' = IF Len(entries) < Limit
                THEN Append(entries, [seq |-> seq', daemon |-> daemon])
                ELSE entries
  /\ UNCHANGED daemon

Record ==
  /\ seq' = seq + 1
  /\ entries' = Keep(Append(entries, [seq |-> seq', daemon |-> daemon]), Limit)
  /\ UNCHANGED daemon

Since(s) ==
  LET out[i \in 0..Len(entries)] ==
        IF i = 0 THEN <<>>
        ELSE IF entries[i].seq > s THEN Append(out[i - 1], entries[i])
        ELSE out[i - 1]
  IN  out[Len(entries)]

\* Serve makes a new log when the daemon comes up again.
NewLog ==
  /\ seq' = 0
  /\ entries' = <<>>
  /\ daemon' = daemon + 1

\* The log holds the latest decisions, all of them and each once, as many as
\* fit: nothing newer than the oldest one kept is missing.
LogIsDense ==
  /\ Len(entries) = IF seq < Limit THEN seq ELSE Limit
  /\ \A i \in 1..Len(entries) :
       entries[i] = [seq |-> seq - Len(entries) + i, daemon |-> daemon]
=============================================================================
