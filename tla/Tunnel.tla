------------------------------- MODULE Tunnel -------------------------------
(***************************************************************************)
(* A sandbox's connection to an origin: through the relay's forward        *)
(* (cmd/jard-relay/main.go) and the proxy's serveConnect and tunnel        *)
(* (internal/proxy/proxy.go).  Both join two connections with two copies,  *)
(* one each way, which half-close what they wrote to when what they read   *)
(* from has ended; both let go when the two copies are done.               *)
(*                                                                         *)
(*    sandbox --0-- hop 1 --1-- ... --(Hops-1)-- hop Hops --Hops-- origin  *)
(*                                                                         *)
(* The last hop is the proxy, the ones before it are relays.  Direction    *)
(* "out" flows to the origin, "in" to the sandbox; wires and copies are    *)
(* numbered along the flow.  Chunk 0 is the CONNECT and its answer, the    *)
(* chunks of data are 1, 2, ...  A wire is what the kernels at both ends   *)
(* hold of one direction of a connection; it takes Room chunks.            *)
(***************************************************************************)
EXTENDS Naturals, Sequences

CONSTANTS
  Hops,       \* processes on the way
  Room,       \* chunks a wire holds before a write waits
  MaxChunks,  \* direction -> bound on its chunks
  MaxFaults   \* bound on resets, failed dials and processes that exit

ASSUME HopsAssumption == Hops \in Nat \ {0}
ASSUME RoomAssumption == Room \in Nat \ {0}

VARIABLES
  patient, up,              \* the sandbox waits for the answer; has it
  sent, fin, last, seen,    \* the two ends, as in Duplex
  wire, ended,              \* wires: what is in flight, whether the end follows
  broken,                   \* connections that have been reset
  closed,                   \* <<connection, d>>: the end that reads d has closed it
  hop,                      \* the processes
  copy,                     \* the copies: direction -> place -> state
  faults

ends == <<patient, up, sent, fin, last, seen>>
wires == <<wire, ended, broken, closed>>
vars == <<ends, wires, hop, copy, faults>>

Dir == {"out", "in"}
Back(d) == IF d = "out" THEN "in" ELSE "out"
Wires == 0..Hops
Processes == 1..Hops

\* The connection a direction's k-th wire belongs to, and the process in front
\* of which it lies; both maps are their own inverse.
Conn(d, k) == IF d = "out" THEN k ELSE Hops - k
HopAt(d, k) == IF d = "out" THEN k ELSE Hops + 1 - k

Idle == [at |-> "reading", chunk |-> 0]

TypeOK ==
  /\ patient \in BOOLEAN /\ up \in BOOLEAN
  /\ sent \in [Dir -> Nat] /\ fin \in [Dir -> BOOLEAN]
  /\ last \in [Dir -> Nat] /\ seen \in [Dir -> {"no", "end", "reset"}]
  /\ wire \in [Dir -> [Wires -> Seq(Nat)]] /\ ended \in [Dir -> [Wires -> BOOLEAN]]
  /\ broken \in SUBSET Wires /\ closed \in SUBSET (Wires \X Dir)
  /\ hop \in [Processes -> {"dialling", "joined", "closed"}]
  /\ copy \in [Dir -> [Processes -> [at : {"reading", "writing", "closing", "done"}, chunk : Nat]]]
  /\ faults \in Nat
  /\ \A d \in Dir, k \in Processes : hop[HopAt(d, k)] = "dialling" => copy[d][k] = Idle

Init ==
  /\ patient \in BOOLEAN /\ up = FALSE
  /\ sent = [d \in Dir |-> 0] /\ fin = [d \in Dir |-> FALSE]
  /\ last = [d \in Dir |-> 0] /\ seen = [d \in Dir |-> "no"]
  /\ wire = [d \in Dir |-> [k \in Wires |-> IF d = "out" /\ k = 0 THEN <<0>> ELSE <<>>]]
  /\ ended = [d \in Dir |-> [k \in Wires |-> FALSE]]
  /\ broken = {} /\ closed = {}
  /\ hop = [h \in Processes |-> "dialling"]
  /\ copy = [d \in Dir |-> [k \in Processes |-> Idle]]
  /\ faults = 0
-----------------------------------------------------------------------------
(* Sockets *)

\* A reset takes what was in flight on the connection, both ways.
Without(w, cs) ==
  [d \in Dir |-> [k \in Wires |-> IF Conn(d, k) \in cs THEN <<>> ELSE w[d][k]]]

\* A write: it waits for room, and what reaches a closed socket comes back as a reset.
Put(d, k, chunk) ==
  /\ Conn(d, k) \notin broken
  /\ IF <<Conn(d, k), d>> \in closed
       THEN /\ broken' = broken \cup {Conn(d, k)}
            /\ wire' = Without(wire, {Conn(d, k)})
       ELSE /\ Len(wire[d][k]) < Room
            /\ wire' = [wire EXCEPT ![d][k] = Append(@, chunk)]
            /\ UNCHANGED broken
  /\ UNCHANGED <<ended, closed>>

\* What a read returns.
HasChunk(d, k) == wire[d][k] # <<>>
AtEnd(d, k) == wire[d][k] = <<>> /\ ended[d][k] /\ Conn(d, k) \notin broken
IsReset(d, k) == Conn(d, k) \in broken

Take(d, k) == wire' = [wire EXCEPT ![d][k] = Tail(@)]

\* Close by a process, on both of its connections: the end follows what was
\* written, and a socket closed with something left to read resets.  resets
\* are connections that break besides.
CloseBoth(h, resets) ==
  LET mine == {<<h - 1, "out">>, <<h, "in">>}
      unread == {c \in {h - 1, h} : \E d \in Dir, k \in Wires :
                   Conn(d, k) = c /\ <<c, d>> \in mine /\ HasChunk(d, k)}
  IN  /\ closed' = closed \cup mine
      /\ broken' = broken \cup unread \cup resets
      /\ wire' = Without(wire, unread \cup resets)
      /\ ended' = [d \in Dir |-> [k \in Wires |->
                     ended[d][k] \/ <<Conn(d, k), Back(d)>> \in mine]]
-----------------------------------------------------------------------------
(* The sandbox and the origin *)

\* A patient sandbox sends nothing behind its CONNECT until it is answered;
\* the origin can once the proxy has dialled it.
MaySend(d) == IF d = "out" THEN up \/ ~patient ELSE hop[Hops] # "dialling"

Send(d) ==
  /\ MaySend(d) /\ ~fin[d] /\ sent[d] < MaxChunks[d]
  /\ Put(d, 0, sent[d] + 1)
  /\ sent' = [sent EXCEPT ![d] = @ + 1]
  /\ UNCHANGED <<patient, up, fin, last, seen, hop, copy, faults>>

Finish(d) ==
  /\ MaySend(d) /\ (d = "out" => up) /\ ~fin[d] /\ Conn(d, 0) \notin broken
  /\ fin' = [fin EXCEPT ![d] = TRUE]
  /\ ended' = [ended EXCEPT ![d][0] = TRUE]
  /\ UNCHANGED <<patient, up, sent, last, seen, wire, broken, closed, hop, copy, faults>>

Receive(d) ==
  /\ seen[d] = "no" /\ HasChunk(d, Hops)
  /\ LET n == Head(wire[d][Hops])
     IN  IF n = 0 THEN up' = TRUE /\ UNCHANGED last
                  ELSE last' = [last EXCEPT ![d] = n] /\ UNCHANGED up
  /\ Take(d, Hops)
  /\ UNCHANGED <<patient, sent, fin, seen, ended, broken, closed, hop, copy, faults>>

SeeEnd(d) ==
  /\ seen[d] = "no"
  /\ \/ AtEnd(d, Hops) /\ seen' = [seen EXCEPT ![d] = "end"]
     \/ IsReset(d, Hops) /\ seen' = [seen EXCEPT ![d] = "reset"]
  /\ UNCHANGED <<patient, up, sent, fin, last, wires, hop, copy, faults>>

\* One of the two gives up without an orderly end.
Reset(c) ==
  /\ c \in {0, Hops} \ broken /\ faults < MaxFaults
  /\ c = Hops => hop[Hops] # "dialling"
  /\ broken' = broken \cup {c} /\ wire' = Without(wire, {c})
  /\ faults' = faults + 1
  /\ UNCHANGED <<ends, ended, closed, hop, copy>>
-----------------------------------------------------------------------------
(* The processes *)

\* forward has dialled the next process: its two copies run.
Dial(h) ==
  /\ h < Hops /\ hop[h] = "dialling"
  /\ hop' = [hop EXCEPT ![h] = "joined"]
  /\ UNCHANGED <<ends, wires, copy, faults>>

\* The dial fails, and forward's deferred close is all the client hears.
DialFails(h) ==
  /\ h < Hops /\ hop[h] = "dialling" /\ faults < MaxFaults
  /\ CloseBoth(h, {h})
  /\ hop' = [hop EXCEPT ![h] = "closed"]
  /\ faults' = faults + 1
  /\ UNCHANGED <<ends, copy>>

\* serveConnect, for a target it may open (Proxy says which): the request has
\* come, the origin is dialled, the connection hijacked and the CONNECT
\* answered.  The reader the request came through goes with what it had read
\* ahead.
Establish ==
  /\ hop[Hops] = "dialling" /\ HasChunk("out", Hops - 1)
  /\ \E ahead \in 0..(Len(wire["out"][Hops - 1]) - 1) :
       wire' = [wire EXCEPT
         !["out"][Hops - 1] = SubSeq(@, ahead + 2, Len(@)),
         !["in"][1] = Append(@, 0)]
  /\ hop' = [hop EXCEPT ![Hops] = "joined"]
  /\ UNCHANGED <<ends, ended, broken, closed, copy, faults>>

\* The connection ended before a request came.
Abandon ==
  /\ hop[Hops] = "dialling"
  /\ AtEnd("out", Hops - 1) \/ IsReset("out", Hops - 1)
  /\ CloseBoth(Hops, {Hops})
  /\ hop' = [hop EXCEPT ![Hops] = "closed"]
  /\ UNCHANGED <<ends, copy, faults>>

\* One copy: io.Copy from wire k - 1 to wire k, then the half-close.
Running(d, k) == hop[HopAt(d, k)] = "joined"

\* A copy that takes a failed read for a pause.
CopyReadPastReset(d, k) ==
  /\ Running(d, k) /\ copy[d][k].at = "reading"
  /\ \/ /\ HasChunk(d, k - 1)
        /\ copy' = [copy EXCEPT ![d][k] = [at |-> "writing", chunk |-> Head(wire[d][k - 1])]]
        /\ Take(d, k - 1)
     \/ /\ AtEnd(d, k - 1)
        /\ copy' = [copy EXCEPT ![d][k].at = "closing"]
        /\ UNCHANGED wire
  /\ UNCHANGED <<ends, ended, broken, closed, hop, faults>>

CopyRead(d, k) ==
  /\ Running(d, k) /\ copy[d][k].at = "reading"
  /\ \/ /\ HasChunk(d, k - 1)
        /\ copy' = [copy EXCEPT ![d][k] = [at |-> "writing", chunk |-> Head(wire[d][k - 1])]]
        /\ Take(d, k - 1)
     \/ /\ AtEnd(d, k - 1) \/ IsReset(d, k - 1)
        /\ copy' = [copy EXCEPT ![d][k].at = "closing"]
        /\ UNCHANGED wire
  /\ UNCHANGED <<ends, ended, broken, closed, hop, faults>>

CopyWrite(d, k) ==
  /\ Running(d, k) /\ copy[d][k].at = "writing"
  /\ \/ /\ Put(d, k, copy[d][k].chunk)
        /\ copy' = [copy EXCEPT ![d][k] = Idle]
     \/ /\ IsReset(d, k)
        /\ copy' = [copy EXCEPT ![d][k] = [at |-> "closing", chunk |-> 0]]
        /\ UNCHANGED wires
  /\ UNCHANGED <<ends, hop, faults>>

\* A copy that ends without a half-close.
CopyCloseSilently(d, k) ==
  /\ Running(d, k) /\ copy[d][k].at = "closing"
  /\ copy' = [copy EXCEPT ![d][k].at = "done"]
  /\ UNCHANGED <<ends, wires, hop, faults>>

\* CloseWrite, in copyThrough and in tunnel; a connection that is gone has none.
CopyClose(d, k) ==
  /\ Running(d, k) /\ copy[d][k].at = "closing"
  /\ ended' = [ended EXCEPT ![d][k] = TRUE]
  /\ copy' = [copy EXCEPT ![d][k].at = "done"]
  /\ UNCHANGED <<ends, wire, broken, closed, hop, faults>>

\* A tunnel that ends with the first of its copies.
LetGoWithTheFirst(h) ==
  /\ hop[h] = "joined"
  /\ \E d \in Dir : copy[d][HopAt(d, h)].at = "done"
  /\ CloseBoth(h, {})
  /\ hop' = [hop EXCEPT ![h] = "closed"]
  /\ UNCHANGED <<ends, copy, faults>>

\* wg.Wait, and the deferred closes behind it.
LetGo(h) ==
  /\ hop[h] = "joined"
  /\ \A d \in Dir : copy[d][HopAt(d, h)].at = "done"
  /\ CloseBoth(h, {})
  /\ hop' = [hop EXCEPT ![h] = "closed"]
  /\ UNCHANGED <<ends, copy, faults>>

\* The process ends: killed, or told to stop.  The relay's run returns as soon
\* as its listener is closed, whatever is still being forwarded.
Exit(h) ==
  /\ hop[h] # "closed" /\ faults < MaxFaults
  /\ CloseBoth(h, IF hop[h] = "dialling" THEN {h} ELSE {})
  /\ hop' = [hop EXCEPT ![h] = "closed"]
  /\ faults' = faults + 1
  /\ UNCHANGED <<ends, copy>>
-----------------------------------------------------------------------------
CopyStep(d, k) == CopyRead(d, k) \/ CopyWrite(d, k) \/ CopyClose(d, k)
ProcessStep(h) == Dial(h) \/ LetGo(h) \/ (h = Hops /\ (Establish \/ Abandon))
Listen(d) == Receive(d) \/ SeeEnd(d)

Next ==
  \/ \E d \in Dir : Send(d) \/ Finish(d) \/ Receive(d) \/ SeeEnd(d)
  \/ \E d \in Dir, k \in Processes : CopyRead(d, k) \/ CopyWrite(d, k) \/ CopyClose(d, k)
  \/ \E h \in Processes : Dial(h) \/ DialFails(h) \/ LetGo(h) \/ Exit(h)
  \/ Establish \/ Abandon
  \/ \E c \in {0, Hops} : Reset(c)

\* The copies are goroutines and the processes run; both ends go on reading.
\* Nobody has to send, to finish or to fail.
Fairness ==
  /\ \A d \in Dir, k \in Processes : WF_vars(CopyStep(d, k))
  /\ \A h \in Processes : WF_vars(ProcessStep(h))
  /\ \A d \in Dir : WF_vars(Listen(d))

Spec == Init /\ [][Next]_vars /\ Fairness
-----------------------------------------------------------------------------
(* Properties *)

\* What the ends see of each other is what Duplex allows: each stream arrives in
\* order and complete, whatever the other does, and breaks off early only after
\* a reset, a failed dial or the end of a process on the way.
Plain == INSTANCE Duplex WITH sound <- faults = 0
KeepsTheStreams == Plain!Spec

\* A stream whose sender is done reaches its end, however long the other stream
\* stays open: a half-close is passed on hop by hop, and neither copy waits for
\* the other (proxy.go's closeWrite, the relay's copyThrough).
StreamsComplete ==
  \A d \in Dir : fin[d] ~> (seen[d] # "no" \/ faults > 0)

\* Once both ends are done or gone no process holds on to the connection: the two
\* copies of each end and the deferred closes run.
EndsAreDone ==
  /\ fin["out"] \/ 0 \in broken
  /\ fin["in"] \/ Hops \in broken
ProcessesLetGo == EndsAreDone ~> (\A h \in Processes : hop[h] = "closed")
=============================================================================
