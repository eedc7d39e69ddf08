------------------------------- MODULE Duplex -------------------------------
(***************************************************************************)
(* What a sandbox and an origin are promised of the connection between     *)
(* them, however many processes it runs through: two streams of numbered   *)
(* chunks that do not know of each other.  A stream arrives in order and   *)
(* without gaps, and its end is seen after the last chunk.  Only once a    *)
(* connection or a process has failed may a stream break off early.        *)
(*                                                                         *)
(* The one exception is a sandbox that does not wait for the answer to its *)
(* CONNECT: what it sends behind the request may be missing.               *)
(***************************************************************************)
EXTENDS Naturals

VARIABLES
  patient,  \* whether the sandbox waits for its CONNECT to be answered
  sound,    \* nothing on the way has failed
  sent,     \* direction -> chunks sent
  fin,      \* direction -> whether the sender is done
  last,     \* direction -> the last chunk the receiver has, 0 for none
  seen      \* direction -> "no", or how the stream ended for its receiver

duplexVars == <<patient, sound, sent, fin, last, seen>>

Dir == {"out", "in"}

Init ==
  /\ patient \in BOOLEAN
  /\ sound = TRUE
  /\ sent = [d \in Dir |-> 0] /\ fin = [d \in Dir |-> FALSE]
  /\ last = [d \in Dir |-> 0] /\ seen = [d \in Dir |-> "no"]

Send(d) ==
  /\ ~fin[d]
  /\ sent' = [sent EXCEPT ![d] = @ + 1]
  /\ UNCHANGED <<patient, sound, fin, last, seen>>

Finish(d) ==
  /\ ~fin[d]
  /\ fin' = [fin EXCEPT ![d] = TRUE]
  /\ UNCHANGED <<patient, sound, sent, last, seen>>

\* The beginning of what a hasty sandbox sends may be lost, nothing else.
HastyStart(d) == d = "out" /\ ~patient /\ last[d] = 0

Receive(d) ==
  /\ seen[d] = "no"
  /\ \E n \in (last[d] + 1)..sent[d] :
       /\ n = last[d] + 1 \/ HastyStart(d)
       /\ last' = [last EXCEPT ![d] = n]
  /\ UNCHANGED <<patient, sound, sent, fin, seen>>

SeeEnd(d) ==
  /\ seen[d] = "no"
  /\ \/ /\ sound => fin[d] /\ (last[d] = sent[d] \/ HastyStart(d))
        /\ seen' = [seen EXCEPT ![d] = "end"]
     \/ /\ ~sound
        /\ seen' = [seen EXCEPT ![d] = "reset"]
  /\ UNCHANGED <<patient, sound, sent, fin, last>>

Fail ==
  /\ sound' = FALSE
  /\ UNCHANGED <<patient, sent, fin, last, seen>>

Next ==
  \/ \E d \in Dir : Send(d) \/ Finish(d) \/ Receive(d) \/ SeeEnd(d)
  \/ Fail

Spec == Init /\ [][Next]_duplexVars
=============================================================================
