---------------------------- MODULE TunnelProofs ----------------------------
(***************************************************************************)
(* Tunnel implements Duplex, for any number of processes on the way, any   *)
(* room on the wires, any bounds on what is sent and any number of faults. *)
(*                                                                         *)
(* The argument counts.  For each wire there is a number x, the last chunk *)
(* that entered it: what is on the wire are the chunks up to x, and as     *)
(* long as the copy behind the wire runs and nothing has been reset, what  *)
(* has left the wire is what entered the next one, but for the chunk the   *)
(* copy holds.  The receiver's last chunk is the end of that chain.  A     *)
(* reset cuts the chain, and nothing passes the cut any more.  Without a   *)
(* fault nothing is reset: the end that follows on a wire follows all its  *)
(* sender has sent.                                                        *)
(***************************************************************************)
EXTENDS Tunnel, Integers, TLAPS

\* The sequence ends in x and goes up in steps of one.
Run(w, x) == \A i \in 1..Len(w) : w[i] = x - (Len(w) - i)

\* A run goes on with the next number,
LEMMA RunGrows ==
  ASSUME NEW w \in Seq(Nat), NEW x \in Int, NEW n \in Nat, Run(w, x), n = x + 1
  PROVE  Append(w, n) \in Seq(Nat) /\ Len(Append(w, n)) = Len(w) + 1 /\ Run(Append(w, n), n)
<1>1. Append(w, n) \in Seq(Nat) /\ Len(Append(w, n)) = Len(w) + 1
  OBVIOUS
<1>2. \A i \in 1..Len(w) + 1 : Append(w, n)[i] = IF i = Len(w) + 1 THEN n ELSE w[i]
  OBVIOUS
<1> QED
  BY <1>1, <1>2 DEF Run

\* it can lose its first one,
LEMMA RunShrinks ==
  ASSUME NEW w \in Seq(Nat), NEW x \in Int, Run(w, x), w # <<>>
  PROVE  /\ Head(w) \in Nat /\ Head(w) = x - Len(w) + 1
         /\ Tail(w) \in Seq(Nat) /\ Len(Tail(w)) = Len(w) - 1 /\ Run(Tail(w), x)
<1>1. Len(w) \in Nat /\ Len(w) > 0 /\ Head(w) = w[1] /\ Head(w) \in Nat
  OBVIOUS
<1>2. Tail(w) \in Seq(Nat) /\ Len(Tail(w)) = Len(w) - 1
  OBVIOUS
<1>3. \A i \in 1..Len(w) - 1 : Tail(w)[i] = w[i + 1]
  OBVIOUS
<1> QED
  BY <1>1, <1>2, <1>3 DEF Run

\* or more of its beginning.
LEMMA RunSuffix ==
  ASSUME NEW w \in Seq(Nat), NEW x \in Int, Run(w, x), w # <<>>, NEW a \in 0..(Len(w) - 1)
  PROVE  /\ SubSeq(w, a + 2, Len(w)) \in Seq(Nat)
         /\ Len(SubSeq(w, a + 2, Len(w))) = Len(w) - a - 1
         /\ Run(SubSeq(w, a + 2, Len(w)), x)
<1>1. Len(w) \in Nat /\ a \in Nat /\ a < Len(w)
  OBVIOUS
<1>2. SubSeq(w, a + 2, Len(w)) \in Seq(Nat)
  <2>1. \A i \in (a + 2)..Len(w) : w[i] \in Nat
    BY <1>1
  <2> QED
    BY <1>1, <2>1
<1>3. Len(SubSeq(w, a + 2, Len(w))) = Len(w) - a - 1
  BY <1>1
<1>4. \A i \in 1..(Len(w) - a - 1) : SubSeq(w, a + 2, Len(w))[i] = w[i + a + 1]
  BY <1>1
<1>5. \A i \in 1..(Len(w) - a - 1) : w[i + a + 1] = x - ((Len(w) - a - 1) - i)
  BY <1>1 DEF Run
<1>6. Run(SubSeq(w, a + 2, Len(w)), x)
  BY <1>3, <1>4, <1>5 DEF Run
<1> QED
  BY <1>2, <1>3, <1>6

\* Nothing is a run up to anything.
LEMMA RunEmpty == \A x : Run(<<>>, x)
  BY DEF Run

\* A wire holds no chunk below zero.
LEMMA RunLength ==
  ASSUME NEW w \in Seq(Nat), NEW x \in Int, Run(w, x)
  PROVE  Len(w) \in Nat /\ (w # <<>> => Len(w) <= x + 1) /\ (x = -1 => w = <<>>)
<1>1. CASE w = <<>>
  BY <1>1
<1>2. CASE w # <<>>
  <2>1. Head(w) \in Nat /\ Head(w) = x - Len(w) + 1 /\ Len(w) \in Nat /\ Len(w) > 0
    BY <1>2, RunShrinks
  <2> QED
    BY <2>1
<1> QED
  BY <1>1, <1>2
-----------------------------------------------------------------------------
(* Type correctness *)

\* Both maps of the places stay among the places.
LEMMA Places ==
  \A d \in Dir : /\ \A k \in Wires : Conn(d, k) \in Wires
                 /\ \A k \in Processes : /\ HopAt(d, k) \in Processes
                                         /\ HopAt(d, HopAt(d, k)) = k /\ k \in Wires /\ k - 1 \in Wires
  BY HopsAssumption DEF Dir, Wires, Processes, Conn, HopAt

\* A reset empties the wires of its connections and no other.
LEMMA WithoutType ==
  ASSUME TypeOK, NEW cs
  PROVE  /\ Without(wire, cs) \in [Dir -> [Wires -> Seq(Nat)]]
         /\ \A d \in Dir, k \in Wires :
              Without(wire, cs)[d][k] = IF Conn(d, k) \in cs THEN <<>> ELSE wire[d][k]
  BY DEF TypeOK, Without

\* What a write does, wire by wire.
Lost(c) ==
  /\ broken' = broken \cup {c}
  /\ \A e \in Dir, j \in Wires : Conn(e, j) = c => wire'[e][j] = <<>>
  /\ \A e \in Dir, j \in Wires : Conn(e, j) # c => wire'[e][j] = wire[e][j]

\* A write is lost with its connection, or appended.
LEMMA PutEffect ==
  ASSUME TypeOK, NEW d \in Dir, NEW k \in Wires, NEW n \in Nat, Put(d, k, n)
  PROVE  /\ wire' \in [Dir -> [Wires -> Seq(Nat)]] /\ broken' \in SUBSET Wires
         /\ ended' = ended /\ closed' = closed
         /\ Conn(d, k) \notin broken
         /\ \/ <<Conn(d, k), d>> \in closed /\ Lost(Conn(d, k))
            \/ /\ <<Conn(d, k), d>> \notin closed /\ broken' = broken
               /\ wire'[d][k] = Append(wire[d][k], n)
               /\ \A e \in Dir, j \in Wires : (e # d \/ j # k) => wire'[e][j] = wire[e][j]
<1>1. Conn(d, k) \in Wires
  BY Places
<1>2. Append(wire[d][k], n) \in Seq(Nat)
  BY DEF TypeOK
<1>3. ended' = ended /\ closed' = closed /\ Conn(d, k) \notin broken
  BY DEF Put
<1>4. CASE <<Conn(d, k), d>> \in closed
  <2>1. broken' = broken \cup {Conn(d, k)} /\ wire' = Without(wire, {Conn(d, k)})
    BY <1>4 DEF Put
  <2>2. /\ wire' \in [Dir -> [Wires -> Seq(Nat)]]
        /\ \A e \in Dir, j \in Wires :
             wire'[e][j] = IF Conn(e, j) \in {Conn(d, k)} THEN <<>> ELSE wire[e][j]
    BY <2>1, WithoutType
  <2>3. broken' \in SUBSET Wires
    BY <1>1, <2>1 DEF TypeOK
  <2>4. Lost(Conn(d, k))
    BY <2>1, <2>2 DEF Lost
  <2> QED
    BY <1>3, <1>4, <2>2, <2>3, <2>4
<1>5. CASE <<Conn(d, k), d>> \notin closed
  <2>1. broken' = broken /\ wire' = [wire EXCEPT ![d][k] = Append(wire[d][k], n)]
    BY <1>5 DEF Put
  <2>2. wire \in [Dir -> [Wires -> Seq(Nat)]] /\ broken \in SUBSET Wires
    BY DEF TypeOK
  <2>3. /\ wire' \in [Dir -> [Wires -> Seq(Nat)]]
        /\ wire'[d][k] = Append(wire[d][k], n)
        /\ \A e \in Dir, j \in Wires : (e # d \/ j # k) => wire'[e][j] = wire[e][j]
    BY <1>2, <2>1, <2>2
  <2> QED
    BY <1>3, <1>5, <2>1, <2>2, <2>3
<1> QED
  BY <1>4, <1>5

\* A read takes the head of its wire.
LEMMA TakeEffect ==
  ASSUME TypeOK, NEW d \in Dir, NEW k \in Wires, Take(d, k), HasChunk(d, k)
  PROVE  /\ wire' \in [Dir -> [Wires -> Seq(Nat)]]
         /\ \A e \in Dir, j \in Wires :
              wire'[e][j] = IF e = d /\ j = k THEN Tail(wire[d][k]) ELSE wire[e][j]
         /\ Head(wire[d][k]) \in Nat
<1>1. wire[d][k] \in Seq(Nat) /\ wire[d][k] # <<>>
  BY DEF TypeOK, HasChunk
<1>2. Tail(wire[d][k]) \in Seq(Nat) /\ Head(wire[d][k]) \in Nat
  BY <1>1
<1> QED
  BY <1>2 DEF TypeOK, Take

Mine(h) == {<<h - 1, "out">>, <<h, "in">>}
Unread(h) == {c \in {h - 1, h} : \E d \in Dir, k \in Wires :
                Conn(d, k) = c /\ <<c, d>> \in Mine(h) /\ HasChunk(d, k)}

Closes(h, cs) ==
  /\ closed' = closed \cup Mine(h)
  /\ broken' = broken \cup Unread(h) \cup cs
  /\ \A d \in Dir, k \in Wires :
       wire'[d][k] = IF Conn(d, k) \in Unread(h) \cup cs THEN <<>> ELSE wire[d][k]
  /\ \A d \in Dir, k \in Wires :
       ended'[d][k] <=> (ended[d][k] \/ <<Conn(d, k), Back(d)>> \in Mine(h))

\* A process that closes has these four effects.
LEMMA CloseBothEffect ==
  ASSUME TypeOK, NEW h \in Processes, NEW cs \in SUBSET Wires, CloseBoth(h, cs)
  PROVE  /\ wire' \in [Dir -> [Wires -> Seq(Nat)]] /\ broken' \in SUBSET Wires
         /\ ended' \in [Dir -> [Wires -> BOOLEAN]] /\ closed' \in SUBSET (Wires \X Dir)
         /\ Closes(h, cs)
<1>1. h \in Wires /\ h - 1 \in Wires
  BY HopsAssumption DEF Processes, Wires
<1>2. Unread(h) \in SUBSET Wires /\ Mine(h) \in SUBSET (Wires \X Dir)
  BY <1>1 DEF Unread, Mine, Dir
<1>3. /\ closed' = closed \cup Mine(h)
      /\ broken' = broken \cup Unread(h) \cup cs
      /\ wire' = Without(wire, Unread(h) \cup cs)
      /\ ended' = [d \in Dir |-> [k \in Wires |->
                    ended[d][k] \/ <<Conn(d, k), Back(d)>> \in Mine(h)]]
  BY DEF CloseBoth, Mine, Unread
<1>4. \A d \in Dir, k \in Wires : ended[d][k] \in BOOLEAN
  BY DEF TypeOK
<1>5. /\ wire' \in [Dir -> [Wires -> Seq(Nat)]]
      /\ \A d \in Dir, k \in Wires :
           wire'[d][k] = IF Conn(d, k) \in Unread(h) \cup cs THEN <<>> ELSE wire[d][k]
  BY <1>3, WithoutType
<1>6. /\ ended' \in [Dir -> [Wires -> BOOLEAN]]
      /\ \A d \in Dir, k \in Wires :
           ended'[d][k] <=> (ended[d][k] \/ <<Conn(d, k), Back(d)>> \in Mine(h))
  BY <1>3, <1>4
<1>7. broken' \in SUBSET Wires /\ closed' \in SUBSET (Wires \X Dir)
  BY <1>2, <1>3 DEF TypeOK
<1> QED
  BY <1>3, <1>5, <1>6, <1>7 DEF Closes

\* What a process leaves alone when all it does is close or dial.
HopEffect(h) ==
  /\ hop' \in [Processes -> {"dialling", "joined", "closed"}]
  /\ \A g \in Processes : hop'[g] = IF g = h THEN hop'[h] ELSE hop[g]

\* Type correctness: the beginning, then one lemma for each kind of step.
LEMMA TypeInit == Init => TypeOK
<1> SUFFICES ASSUME Init PROVE TypeOK
  OBVIOUS
<1>1. <<>> \in Seq(Nat) /\ <<0>> \in Seq(Nat)
  OBVIOUS
<1> QED
  BY <1>1 DEF Init, TypeOK, Idle

\* The ends' steps keep the types,
LEMMA TypeEnds ==
  ASSUME TypeOK, NEW d \in Dir, Send(d) \/ Finish(d) \/ Receive(d) \/ SeeEnd(d)
  PROVE  TypeOK'
<1>1. 0 \in Wires /\ Hops \in Wires
  BY HopsAssumption DEF Wires
<1>2. CASE Send(d)
  <2>1. sent[d] + 1 \in Nat
    BY DEF TypeOK
  <2>2. Put(d, 0, sent[d] + 1)
    BY <1>2 DEF Send
  <2>3. /\ wire' \in [Dir -> [Wires -> Seq(Nat)]] /\ broken' \in SUBSET Wires
        /\ ended' = ended /\ closed' = closed
    BY <1>1, <2>1, <2>2, PutEffect
  <2> QED
    BY <1>2, <2>1, <2>3 DEF Send, TypeOK
<1>3. CASE Finish(d)
  BY <1>1, <1>3 DEF Finish, TypeOK
<1>4. CASE Receive(d)
  <2>1. /\ wire' \in [Dir -> [Wires -> Seq(Nat)]] /\ Head(wire[d][Hops]) \in Nat
    BY <1>1, <1>4, TakeEffect DEF Receive
  <2> QED
    BY <1>4, <2>1 DEF Receive, TypeOK
<1>5. CASE SeeEnd(d)
  BY <1>5 DEF SeeEnd, TypeOK, wires
<1> QED
  BY <1>2, <1>3, <1>4, <1>5

CopyState == [at : {"reading", "writing", "closing", "done"}, chunk : Nat]

MovesTo(d, k, a) == copy' = [copy EXCEPT ![d][k].at = a]

\* A copy that moves to its end keeps its chunk, and the others theirs.
LEMMA CopyEffect ==
  ASSUME TypeOK, NEW d \in Dir, NEW k \in Processes,
         NEW a \in {"closing", "done"}, MovesTo(d, k, a)
  PROVE  /\ copy' \in [Dir -> [Processes -> CopyState]]
         /\ copy'[d][k].at = a /\ copy'[d][k].chunk = copy[d][k].chunk
         /\ \A e \in Dir, j \in Processes : (e # d \/ j # k) => copy'[e][j] = copy[e][j]
<1>1. /\ copy \in [Dir -> [Processes -> CopyState]]
      /\ copy[d][k] \in CopyState
  BY DEF TypeOK, CopyState
<1>2. [copy[d][k] EXCEPT !.at = a] = [at |-> a, chunk |-> copy[d][k].chunk]
  BY <1>1 DEF CopyState
<1>3. copy' = [copy EXCEPT ![d] = [copy[d] EXCEPT ![k] = [copy[d][k] EXCEPT !.at = a]]]
  BY DEF MovesTo
<1>4. [at |-> a, chunk |-> copy[d][k].chunk] \in CopyState
  BY <1>1 DEF CopyState
<1> QED
  BY <1>1, <1>2, <1>3, <1>4

\* the copies' steps do,
LEMMA TypeCopies ==
  ASSUME TypeOK, NEW d \in Dir, NEW k \in Processes,
         CopyRead(d, k) \/ CopyWrite(d, k) \/ CopyClose(d, k)
  PROVE  TypeOK'
<1>1. k \in Wires /\ k - 1 \in Wires
  BY Places
<1>2. CASE CopyRead(d, k)
  <2>1. CASE HasChunk(d, k - 1) /\ Take(d, k - 1)
             /\ copy' = [copy EXCEPT ![d][k] = [at |-> "writing", chunk |-> Head(wire[d][k - 1])]]
    <3>1. /\ wire' \in [Dir -> [Wires -> Seq(Nat)]] /\ Head(wire[d][k - 1]) \in Nat
      BY <1>1, <2>1, TakeEffect
    <3> QED
      BY <1>2, <2>1, <3>1 DEF CopyRead, Running, TypeOK, ends
  <2>2. CASE copy' = [copy EXCEPT ![d][k].at = "closing"] /\ UNCHANGED wire
    <3>1. /\ copy' \in [Dir -> [Processes -> CopyState]]
          /\ \A e \in Dir, j \in Processes : (e # d \/ j # k) => copy'[e][j] = copy[e][j]
      <4>1. MovesTo(d, k, "closing")
        BY <2>2 DEF MovesTo
      <4> QED
        BY <4>1, CopyEffect
    <3>2. \A e \in Dir, j \in Processes : hop'[HopAt(e, j)] = "dialling" => copy'[e][j] = Idle
      <4>1. hop' = hop /\ hop[HopAt(d, k)] = "joined"
        BY <1>2 DEF CopyRead, Running
      <4> QED
        BY <3>1, <4>1 DEF TypeOK
    <3> QED
      BY <1>2, <2>2, <3>1, <3>2 DEF CopyRead, TypeOK, CopyState, ends
  <2> QED
    BY <1>2, <2>1, <2>2 DEF CopyRead
<1>3. CASE CopyWrite(d, k)
  <2>1. CASE Put(d, k, copy[d][k].chunk) /\ copy' = [copy EXCEPT ![d][k] = Idle]
    <3>1. copy[d][k].chunk \in Nat
      BY DEF TypeOK
    <3>2. /\ wire' \in [Dir -> [Wires -> Seq(Nat)]] /\ broken' \in SUBSET Wires
          /\ ended' = ended /\ closed' = closed
      BY <1>1, <2>1, <3>1, PutEffect
    <3> QED
      BY <1>3, <2>1, <3>2 DEF CopyWrite, Running, TypeOK, ends, Idle
  <2>2. CASE copy' = [copy EXCEPT ![d][k] = [at |-> "closing", chunk |-> 0]] /\ UNCHANGED wires
    <3>1. /\ copy' \in [Dir -> [Processes -> CopyState]]
          /\ \A e \in Dir, j \in Processes : (e # d \/ j # k) => copy'[e][j] = copy[e][j]
      BY <2>2 DEF TypeOK, CopyState
    <3>2. \A e \in Dir, j \in Processes : hop'[HopAt(e, j)] = "dialling" => copy'[e][j] = Idle
      <4>1. hop' = hop /\ hop[HopAt(d, k)] = "joined"
        BY <1>3 DEF CopyWrite, Running
      <4> QED
        BY <3>1, <4>1 DEF TypeOK
    <3>3. UNCHANGED <<ends, wires, hop, faults>>
      BY <1>3, <2>2 DEF CopyWrite
    <3> QED
      BY <3>1, <3>2, <3>3 DEF TypeOK, CopyState, ends, wires
  <2> QED
    BY <1>3, <2>1, <2>2 DEF CopyWrite
<1>4. CASE CopyClose(d, k)
  <2>1. /\ copy' \in [Dir -> [Processes -> CopyState]]
        /\ \A e \in Dir, j \in Processes : (e # d \/ j # k) => copy'[e][j] = copy[e][j]
    <3>1. MovesTo(d, k, "done")
      BY <1>4 DEF CopyClose, MovesTo
    <3> QED
      BY <3>1, CopyEffect
  <2>2. \A e \in Dir, j \in Processes : hop'[HopAt(e, j)] = "dialling" => copy'[e][j] = Idle
    BY <1>4, <2>1 DEF CopyClose, Running, TypeOK
  <2> QED
    BY <1>1, <1>4, <2>1, <2>2 DEF CopyClose, TypeOK, CopyState, ends
<1> QED
  BY <1>2, <1>3, <1>4

\* the processes' steps do,
LEMMA TypeProcesses ==
  ASSUME TypeOK, NEW h \in Processes, Dial(h) \/ DialFails(h) \/ LetGo(h) \/ Exit(h)
  PROVE  TypeOK'
<1>2. CASE Dial(h)
  BY <1>2, Places DEF Dial, TypeOK, ends, wires
<1>3. CASE DialFails(h)
  <2>1. /\ wire' \in [Dir -> [Wires -> Seq(Nat)]] /\ broken' \in SUBSET Wires
        /\ ended' \in [Dir -> [Wires -> BOOLEAN]] /\ closed' \in SUBSET (Wires \X Dir)
    BY <1>3, CloseBothEffect, HopsAssumption DEF DialFails, Processes, Wires
  <2> QED
    BY <1>3, <2>1, Places DEF DialFails, TypeOK, ends
<1>4. CASE LetGo(h)
  <2>1. /\ wire' \in [Dir -> [Wires -> Seq(Nat)]] /\ broken' \in SUBSET Wires
        /\ ended' \in [Dir -> [Wires -> BOOLEAN]] /\ closed' \in SUBSET (Wires \X Dir)
    BY <1>4, CloseBothEffect DEF LetGo
  <2> QED
    BY <1>4, <2>1, Places DEF LetGo, TypeOK, ends
<1>5. CASE Exit(h)
  <2>1. /\ wire' \in [Dir -> [Wires -> Seq(Nat)]] /\ broken' \in SUBSET Wires
        /\ ended' \in [Dir -> [Wires -> BOOLEAN]] /\ closed' \in SUBSET (Wires \X Dir)
    BY <1>5, CloseBothEffect, HopsAssumption DEF Exit, Processes, Wires
  <2> QED
    BY <1>5, <2>1, Places DEF Exit, TypeOK, ends
<1> QED
  BY <1>2, <1>3, <1>4, <1>5

\* the proxy's answer and its giving up do,
LEMMA TypeLastHop ==
  ASSUME TypeOK, Establish \/ Abandon
  PROVE  TypeOK'
<1>1. Hops \in Processes /\ Hops - 1 \in Wires /\ 1 \in Wires
  BY HopsAssumption DEF Processes, Wires
<1>2. CASE Establish
  <2>1. PICK a \in 0..(Len(wire["out"][Hops - 1]) - 1) :
          wire' = [wire EXCEPT
            !["out"][Hops - 1] = SubSeq(wire["out"][Hops - 1], a + 2, Len(wire["out"][Hops - 1])),
            !["in"][1] = Append(wire["in"][1], 0)]
    BY <1>2 DEF Establish
  <2>2. wire["out"][Hops - 1] \in Seq(Nat) /\ wire["in"][1] \in Seq(Nat)
    BY <1>1 DEF TypeOK, Dir
  <2>3. Append(wire["in"][1], 0) \in Seq(Nat)
    BY <2>2
  <2>4. SubSeq(wire["out"][Hops - 1], a + 2, Len(wire["out"][Hops - 1])) \in Seq(Nat)
    <3>1. \A i \in (a + 2)..Len(wire["out"][Hops - 1]) : wire["out"][Hops - 1][i] \in Nat
      BY <2>2
    <3> QED
      BY <2>2, <3>1
  <2>5. wire' \in [Dir -> [Wires -> Seq(Nat)]]
    BY <2>1, <2>3, <2>4 DEF TypeOK
  <2> QED
    BY <1>1, <1>2, <2>5, Places DEF Establish, TypeOK, ends
<1>3. CASE Abandon
  <2>1. /\ wire' \in [Dir -> [Wires -> Seq(Nat)]] /\ broken' \in SUBSET Wires
        /\ ended' \in [Dir -> [Wires -> BOOLEAN]] /\ closed' \in SUBSET (Wires \X Dir)
    BY <1>1, <1>3, CloseBothEffect, HopsAssumption DEF Abandon, Wires
  <2> QED
    BY <1>1, <1>3, <2>1, Places DEF Abandon, TypeOK, ends
<1> QED
  BY <1>2, <1>3

\* and a reset does.
LEMMA TypeReset ==
  ASSUME TypeOK, NEW c \in {0, Hops}, Reset(c)
  PROVE  TypeOK'
<1>1. wire' \in [Dir -> [Wires -> Seq(Nat)]]
  BY WithoutType DEF Reset
<1>2. broken' \in SUBSET Wires
  BY HopsAssumption DEF Reset, TypeOK, Wires
<1>3. UNCHANGED <<ends, ended, closed, hop, copy>> /\ faults' = faults + 1
  BY DEF Reset
<1> QED
  BY <1>1, <1>2, <1>3 DEF TypeOK, ends

\* Every step keeps the types.
LEMMA TypeStep == TypeOK /\ [Next]_vars => TypeOK'
<1> SUFFICES ASSUME TypeOK, [Next]_vars PROVE TypeOK'
  OBVIOUS
<1>1. CASE Next
  BY <1>1, TypeEnds, TypeCopies, TypeProcesses, TypeLastHop, TypeReset DEF Next
<1>2. CASE UNCHANGED vars
  BY <1>2 DEF vars, ends, wires, TypeOK
<1> QED
  BY <1>1, <1>2

\* The ends, the wires, the processes and their copies stay in their types.
THEOREM TunnelTypes == Spec => []TypeOK
  BY TypeInit, TypeStep, PTL DEF Spec

-----------------------------------------------------------------------------
(* The chain: x[d][k] is the last chunk that entered a wire. *)

XType(x) ==
  /\ x \in [Dir -> [Wires -> Int]]
  /\ \A d \in Dir : x[d][0] = sent[d]
  /\ \A d \in Dir, k \in Wires : -1 <= x[d][k] /\ x[d][k] <= sent[d]

\* A wire holds consecutive chunks, up to the last one that entered it.
Consecutive(x) == \A d \in Dir, k \in Wires : Run(wire[d][k], x[d][k])

BrokenEmpty == \A d \in Dir, k \in Wires : Conn(d, k) \in broken => wire[d][k] = <<>>

\* A copy holds the chunk that comes next on the wire it writes to.
HeldNext(x) == \A d \in Dir, k \in Processes : copy[d][k].at = "writing" =>
  /\ copy[d][k].chunk <= sent[d]
  /\ Conn(d, k) \notin broken => copy[d][k].chunk = x[d][k] + 1

\* The place where a copy runs, or will run, between wires that are whole.
Linked(d, k) ==
  /\ hop[HopAt(d, k)] # "closed" /\ (HopAt(d, k) = Hops => hop[Hops] # "dialling")
  /\ copy[d][k].at \in {"reading", "writing"}
  /\ Conn(d, k - 1) \notin broken /\ Conn(d, k) \notin broken
Held(d, k) == IF copy[d][k].at = "writing" THEN 1 ELSE 0
Link(x) == \A d \in Dir, k \in Processes :
  Linked(d, k) => x[d][k - 1] - Len(wire[d][k - 1]) = x[d][k] + Held(d, k)

\* The receiver's last chunk is what has left the last wire; the answer to the
\* CONNECT is the chunk before the first.
Base(d) == IF d = "in" /\ ~up THEN -1 ELSE last[d]
Hasty(d) == d = "out" /\ ~patient /\ last[d] = 0
LastLink(x) == \A d \in Dir :
  Conn(d, Hops) \notin broken /\ ~Hasty(d) => x[d][Hops] - Len(wire[d][Hops]) = Base(d)
Positive(x) == Len(wire["out"][Hops]) <= x["out"][Hops]

\* Until the proxy has dialled nothing has come back and nothing has got through.
Dialling(x) == hop[Hops] = "dialling" =>
  /\ ~up /\ sent["in"] = 0 /\ ~fin["in"] /\ last["out"] = 0
  /\ wire["in"][0] = <<>> /\ wire["out"][Hops] = <<>> /\ x["out"][Hops] = 0
  /\ \A k \in Processes : x["in"][k] = -1 /\ copy["in"][k].at # "writing"

Answered ==
  /\ fin["out"] => up
  /\ patient /\ ~up => sent["out"] = 0
  /\ ~up => last["in"] = 0

Chain(x) ==
  /\ XType(x) /\ Consecutive(x) /\ BrokenEmpty /\ HeldNext(x)
  /\ Link(x) /\ LastLink(x) /\ Positive(x) /\ Dialling(x) /\ Answered

\* As long as nothing has failed an end follows all that was sent, and a process
\* closes nothing that is still in use.
Calm(x) == faults = 0 =>
  /\ broken = {}
  /\ \A d \in Dir, k \in Wires : ended[d][k] => fin[d] /\ x[d][k] = sent[d]
  /\ \A d \in Dir, k \in Processes :
       /\ ended[d][k] <=> copy[d][k].at = "done"
       /\ copy[d][k].at \in {"closing", "done"} =>
            fin[d] /\ x[d][k] = sent[d] /\ ended[d][k - 1] /\ wire[d][k - 1] = <<>>
       /\ hop[HopAt(d, k)] = "closed" => copy[d][k].at = "done"

\* Who has closed an end that reads is closed.
Closed == \A d \in Dir, k \in Wires :
  <<Conn(d, k), d>> \in closed => k < Hops /\ hop[HopAt(d, k + 1)] = "closed"

IInv(x) == Chain(x) /\ Calm(x) /\ Closed

\* A connection carries one wire of each direction.
LEMMA ConnTells ==
  \A d \in Dir, j \in Wires, k \in Wires : Conn(d, j) = Conn(d, k) => j = k
  BY HopsAssumption DEF Dir, Wires, Conn

\* At the beginning the chain is the CONNECT on its first wire.
LEMMA ChainInit ==
  ASSUME Init
  PROVE  \E x : IInv(x)
<1> DEFINE x == [d \in Dir |-> [k \in Wires |-> IF k = 0 \/ (d = "out" /\ k = Hops) THEN 0 ELSE -1]]
<1>1. x \in [Dir -> [Wires -> Int]] /\ 0 \in Wires /\ Hops \in Wires /\ Hops # 0
  BY HopsAssumption DEF Wires
<1>2. \A d \in Dir, k \in Wires :
        x[d][k] = IF k = 0 \/ (d = "out" /\ k = Hops) THEN 0 ELSE -1
  OBVIOUS
<1>3. \A d \in Dir, k \in Wires : wire[d][k] = IF d = "out" /\ k = 0 THEN <<0>> ELSE <<>>
  BY DEF Init
<1>4. /\ ~up /\ broken = {} /\ closed = {}
      /\ \A h \in Processes : hop[h] = "dialling"
      /\ \A d \in Dir : sent[d] = 0 /\ ~fin[d] /\ last[d] = 0
      /\ \A d \in Dir, k \in Wires : ~ended[d][k]
      /\ \A d \in Dir, k \in Processes : copy[d][k].at = "reading"
  BY DEF Init, Idle
<1> HIDE DEF x
<1>5. XType(x)
  BY <1>1, <1>2, <1>4 DEF XType
<1>6. Consecutive(x)
  <2>1. Len(<<0>>) = 1 /\ <<0>>[1] = 0
    OBVIOUS
  <2>2. Run(<<0>>, 0)
    BY <2>1 DEF Run
  <2> QED
    BY <1>1, <1>2, <1>3, <2>2, RunEmpty DEF Consecutive
<1>7. BrokenEmpty /\ HeldNext(x) /\ Answered /\ Closed
  BY <1>4 DEF BrokenEmpty, HeldNext, Answered, Closed, Dir
<1>8. Link(x)
  <2> SUFFICES ASSUME NEW d \in Dir, NEW k \in Processes, Linked(d, k)
               PROVE  x[d][k - 1] - Len(wire[d][k - 1]) = x[d][k] + Held(d, k)
    BY DEF Link
  <2>1. /\ HopAt(d, k) # Hops /\ Held(d, k) = 0
        /\ Len(<<0>>) = 1 /\ Len(<<>>) = 0
    <3>1. HopAt(d, k) \in Processes
      BY Places
    <3>2. hop[HopAt(d, k)] = "dialling" /\ copy[d][k].at = "reading"
      BY <1>4, <3>1
    <3> QED
      BY <3>2 DEF Linked, Held
  <2>2. k \in Wires /\ k - 1 \in Wires /\ k # 0 /\ (d = "out" => k # Hops) /\ (d = "in" => k # 1)
    BY <2>1, HopsAssumption DEF HopAt, Processes, Wires, Dir
  <2>3. k - 1 # Hops
    BY HopsAssumption DEF Processes
  <2>4. x[d][k] = -1
    BY <1>2, <2>2 DEF Dir
  <2>5. x[d][k - 1] = IF d = "out" /\ k - 1 = 0 THEN 0 ELSE -1
    <3>1. x[d][k - 1] = IF k - 1 = 0 \/ (d = "out" /\ k - 1 = Hops) THEN 0 ELSE -1
      BY <1>2, <2>2
    <3>2. d = "out" \/ k - 1 # 0
      BY <2>2 DEF Dir, Wires
    <3> QED
      BY <2>3, <3>1, <3>2
  <2>6. Len(wire[d][k - 1]) = IF d = "out" /\ k - 1 = 0 THEN 1 ELSE 0
    <3>1. wire[d][k - 1] = IF d = "out" /\ k - 1 = 0 THEN <<0>> ELSE <<>>
      BY <1>3, <2>2
    <3> QED
      BY <2>1, <3>1
  <2> QED
    BY <2>1, <2>4, <2>5, <2>6
<1>9. LastLink(x) /\ Positive(x) /\ Dialling(x)
  <2>1. Len(<<>>) = 0 /\ Hops \in Processes /\ \A k \in Processes : k \in Wires /\ k # 0
    BY HopsAssumption DEF Processes, Wires
  <2> QED
    BY <1>1, <1>2, <1>3, <1>4, <2>1 DEF LastLink, Positive, Dialling, Base, Dir
<1>10. Calm(x)
  BY <1>4, Places DEF Calm, Processes, Wires
<1> QED
  BY <1>5, <1>6, <1>7, <1>8, <1>9, <1>10 DEF IInv, Chain

\* A process closes or joins; connections may break, and nothing else changes.
HopKeeps ==
  \A h \in Processes :
    hop'[h] # "closed" => hop[h] # "closed" /\ (h = Hops => hop'[h] = hop[h])
Cut ==
  /\ broken \subseteq broken'
  /\ \A d \in Dir, k \in Wires :
       wire'[d][k] = IF Conn(d, k) \in broken' THEN <<>> ELSE wire[d][k]

\* A step that only cuts connections keeps the chain.
LEMMA CutKeeps ==
  ASSUME TypeOK, NEW x, Chain(x), Cut, HopKeeps,
         UNCHANGED <<patient, up, sent, fin, last, copy>>
  PROVE  Chain(x)'
<1>1. Hops \in Wires /\ Hops \in Processes /\ 0 \in Wires
  BY HopsAssumption DEF Wires, Processes
<1>2. Len(<<>>) = 0
  OBVIOUS
<1>3. XType(x)' /\ Answered' /\ BrokenEmpty'
  BY DEF Chain, XType, Answered, BrokenEmpty, Cut
<1>4. Consecutive(x)'
  BY RunEmpty DEF Chain, Consecutive, Cut
<1>5. HeldNext(x)'
  BY DEF Chain, HeldNext, Cut
<1>6. Link(x)'
  <2> SUFFICES ASSUME NEW d \in Dir, NEW k \in Processes, Linked(d, k)'
               PROVE  x[d][k - 1] - Len(wire'[d][k - 1]) = x[d][k] + Held(d, k)'
    BY DEF Link
  <2>1. Linked(d, k) /\ Held(d, k)' = Held(d, k)
    BY Places DEF Linked, Held, Cut, HopKeeps
  <2>2. wire'[d][k - 1] = wire[d][k - 1]
    BY Places DEF Linked, Cut
  <2> QED
    BY <2>1, <2>2 DEF Chain, Link
<1>7. LastLink(x)'
  BY <1>1 DEF Chain, LastLink, Base, Hasty, Cut
<1>8. Positive(x)'
  <2>1. "out" \in Dir /\ x["out"][Hops] \in Int /\ wire["out"][Hops] \in Seq(Nat)
    BY <1>1 DEF TypeOK, Chain, XType, Dir
  <2>2. Len(wire["out"][Hops]) \in Nat /\ Len(wire["out"][Hops]) <= x["out"][Hops]
    BY <2>1 DEF Chain, Positive
  <2>3. wire'["out"][Hops] = <<>> \/ wire'["out"][Hops] = wire["out"][Hops]
    BY <1>1, <2>1 DEF Cut
  <2> QED
    BY <1>2, <2>1, <2>2, <2>3 DEF Positive
<1>9. Dialling(x)'
  <2>1. hop'[Hops] = "dialling" => hop[Hops] = "dialling"
    BY <1>1 DEF HopKeeps
  <2> QED
    BY <1>1, <2>1 DEF Chain, Dialling, Cut, Dir
<1> QED
  BY <1>3, <1>4, <1>5, <1>6, <1>7, <1>8, <1>9 DEF Chain

\* What a write does to the chain: n is the next chunk, if it gets through.
Follows(x, y, d, k, n) ==
  /\ \A e \in Dir, j \in Wires : (e # d \/ j # k) => y[e][j] = x[e][j]
  /\ <<Conn(d, k), d>> \notin closed => y[d][k] = n /\ n = x[d][k] + 1

\* The wires stay consecutive, and what has left them is as it was.
Kept(x, y, d, k) ==
  /\ broken \subseteq broken' /\ Consecutive(y)' /\ BrokenEmpty'
  /\ <<Conn(d, k), d>> \in closed => Conn(d, k) \in broken'
  /\ <<Conn(d, k), d>> \notin closed => broken' = broken
  /\ \A e \in Dir, j \in Wires :
       /\ Conn(e, j) \notin broken' => y[e][j] - Len(wire'[e][j]) = x[e][j] - Len(wire[e][j])
       /\ (e # d \/ j # k) => wire'[e][j] = <<>> \/ wire'[e][j] = wire[e][j]

\* A write to a wire keeps the others, and adds its chunk at the end of this one.
LEMMA PutKeeps ==
  ASSUME TypeOK, NEW x \in [Dir -> [Wires -> Int]], NEW y \in [Dir -> [Wires -> Int]],
         Consecutive(x), BrokenEmpty,
         NEW d \in Dir, NEW k \in Wires, NEW n \in Nat, Put(d, k, n), Follows(x, y, d, k, n)
  PROVE  Kept(x, y, d, k)
<1>0. /\ \A e \in Dir, j \in Wires : (e # d \/ j # k) => y[e][j] = x[e][j]
      /\ <<Conn(d, k), d>> \notin closed => y[d][k] = n /\ n = x[d][k] + 1
  BY DEF Follows
<1>1. /\ \A e \in Dir, j \in Wires : wire[e][j] \in Seq(Nat) /\ Len(wire[e][j]) \in Nat
      /\ \A e \in Dir, j \in Wires : x[e][j] \in Int /\ y[e][j] \in Int
  BY DEF TypeOK
<1>2. Conn(d, k) \notin broken
  BY PutEffect
<1>3. CASE <<Conn(d, k), d>> \in closed
  <2>1. Lost(Conn(d, k))
    BY <1>3, PutEffect
  <2>2. /\ broken \subseteq broken' /\ Conn(d, k) \in broken'
        /\ \A e \in Dir, j \in Wires : Conn(e, j) \in broken' => wire'[e][j] = <<>>
        /\ \A e \in Dir, j \in Wires : Conn(e, j) \notin broken' => wire'[e][j] = wire[e][j]
    BY <2>1 DEF Lost, BrokenEmpty
  <2>3. \A e \in Dir, j \in Wires : wire'[e][j] = <<>> \/ (wire'[e][j] = wire[e][j] /\ y[e][j] = x[e][j])
    BY <1>0, <2>2
  <2>4. Consecutive(y)'
    BY <2>3, RunEmpty DEF Consecutive
  <2>5. BrokenEmpty'
    BY <2>2 DEF BrokenEmpty
  <2>6. \A e \in Dir, j \in Wires :
          Conn(e, j) \notin broken' => wire'[e][j] = wire[e][j] /\ y[e][j] = x[e][j]
    BY <1>0, <2>2
  <2> QED
    BY <1>3, <2>2, <2>3, <2>4, <2>5, <2>6 DEF Kept
<1>4. CASE <<Conn(d, k), d>> \notin closed
  <2>1. /\ broken' = broken
        /\ wire'[d][k] = Append(wire[d][k], n)
        /\ \A e \in Dir, j \in Wires : (e # d \/ j # k) => wire'[e][j] = wire[e][j]
    BY <1>4, PutEffect
  <2>2. Run(wire[d][k], x[d][k])
    BY DEF Consecutive
  <2>3. /\ Len(Append(wire[d][k], n)) = Len(wire[d][k]) + 1
        /\ Run(Append(wire[d][k], n), n)
    BY <1>0, <1>1, <1>4, <2>2, RunGrows
  <2>4. Consecutive(y)'
    <3> SUFFICES ASSUME NEW e \in Dir, NEW j \in Wires
                 PROVE  Run(wire'[e][j], y[e][j])
      BY DEF Consecutive
    <3>1. CASE e = d /\ j = k
      BY <1>0, <1>4, <2>1, <2>3, <3>1
    <3>2. CASE e # d \/ j # k
      BY <1>0, <2>1, <3>2 DEF Consecutive
    <3> QED
      BY <3>1, <3>2
  <2>5. BrokenEmpty'
    <3> SUFFICES ASSUME NEW e \in Dir, NEW j \in Wires, Conn(e, j) \in broken
                 PROVE  wire'[e][j] = <<>>
      BY <2>1 DEF BrokenEmpty
    <3>1. e # d \/ j # k
      BY <1>2
    <3> QED
      BY <2>1, <3>1 DEF BrokenEmpty
  <2>6. \A e \in Dir, j \in Wires :
          y[e][j] - Len(wire'[e][j]) = x[e][j] - Len(wire[e][j])
    <3> SUFFICES ASSUME NEW e \in Dir, NEW j \in Wires
                 PROVE  y[e][j] - Len(wire'[e][j]) = x[e][j] - Len(wire[e][j])
      OBVIOUS
    <3>1. CASE e = d /\ j = k
      BY <1>0, <1>1, <1>4, <2>1, <2>3, <3>1
    <3>2. CASE e # d \/ j # k
      BY <1>0, <2>1, <3>2
    <3> QED
      BY <3>1, <3>2
  <2> QED
    BY <1>4, <2>1, <2>4, <2>5, <2>6 DEF Kept
<1> QED
  BY <1>3, <1>4

\* A read takes the next chunk.
Taken(x, d, k) ==
  /\ Consecutive(x)' /\ BrokenEmpty' /\ Conn(d, k) \notin broken
  /\ Head(wire[d][k]) \in Nat /\ Head(wire[d][k]) = x[d][k] - Len(wire[d][k]) + 1
  /\ Len(wire'[d][k]) = Len(wire[d][k]) - 1 /\ Len(wire[d][k]) \in Nat \ {0}
  /\ \A e \in Dir, j \in Wires : (e # d \/ j # k) => wire'[e][j] = wire[e][j]

\* Reading from a wire takes its next chunk and nothing else.
LEMMA TakeKeeps ==
  ASSUME TypeOK, NEW x \in [Dir -> [Wires -> Int]], Consecutive(x), BrokenEmpty,
         NEW d \in Dir, NEW k \in Wires, HasChunk(d, k), Take(d, k), broken' = broken
  PROVE  Taken(x, d, k)
<1>1. wire[d][k] \in Seq(Nat) /\ wire[d][k] # <<>> /\ x[d][k] \in Int /\ Run(wire[d][k], x[d][k])
  BY DEF TypeOK, HasChunk, Consecutive
<1>2. \A e \in Dir, j \in Wires :
        wire'[e][j] = IF e = d /\ j = k THEN Tail(wire[d][k]) ELSE wire[e][j]
  BY TakeEffect
<1>3. Conn(d, k) \notin broken
  BY <1>1 DEF BrokenEmpty
<1>4. /\ Head(wire[d][k]) \in Nat /\ Head(wire[d][k]) = x[d][k] - Len(wire[d][k]) + 1
      /\ Len(Tail(wire[d][k])) = Len(wire[d][k]) - 1 /\ Run(Tail(wire[d][k]), x[d][k])
  BY <1>1, RunShrinks
<1>5. Len(wire[d][k]) \in Nat \ {0}
  BY <1>1
<1>6. Consecutive(x)'
  BY <1>2, <1>4 DEF Consecutive
<1>7. BrokenEmpty'
  BY <1>2, <1>3 DEF BrokenEmpty
<1> QED
  BY <1>2, <1>3, <1>4, <1>5, <1>6, <1>7 DEF Taken

\* Send adds a link at the front.
LEMMA SendKeeps ==
  ASSUME TypeOK, NEW x, IInv(x), NEW d \in Dir, Send(d)
  PROVE  \E y : IInv(y)'
<1>1. /\ 0 \in Wires /\ Hops \in Wires /\ Hops # 0 /\ 1 \in Processes /\ Hops \in Processes
      /\ \A k \in Processes : k \in Wires /\ k - 1 \in Wires /\ k # 0
  BY HopsAssumption DEF Wires, Processes
<1>2. /\ x \in [Dir -> [Wires -> Int]] /\ x[d][0] = sent[d] /\ sent[d] \in Nat
      /\ Consecutive(x) /\ BrokenEmpty
  BY DEF IInv, Chain, XType, TypeOK
<1>4. PICK y \in [Dir -> [Wires -> Int]] :
        \A e \in Dir, j \in Wires : y[e][j] = IF e = d /\ j = 0 THEN sent[d] + 1 ELSE x[e][j]
  <2>1. [x EXCEPT ![d][0] = sent[d] + 1] \in [Dir -> [Wires -> Int]]
    BY <1>1, <1>2
  <2>2. \A e \in Dir, j \in Wires :
          [x EXCEPT ![d][0] = sent[d] + 1][e][j] = IF e = d /\ j = 0 THEN sent[d] + 1 ELSE x[e][j]
    BY <1>1, <1>2
  <2> QED
    BY <2>1, <2>2
<1>5. Put(d, 0, sent[d] + 1)
  BY DEF Send
<1>6. /\ MaySend(d) /\ ~fin[d]
      /\ \A e \in Dir : sent'[e] = IF e = d THEN sent[d] + 1 ELSE sent[e]
      /\ UNCHANGED <<patient, up, fin, last, hop, copy, faults, ended, closed>>
  BY DEF Send, Put, TypeOK
<1>7. /\ broken \subseteq broken' /\ Consecutive(y)' /\ BrokenEmpty'
      /\ <<Conn(d, 0), d>> \notin closed => broken' = broken
      /\ \A e \in Dir, j \in Wires :
           /\ Conn(e, j) \notin broken' =>
                y[e][j] - Len(wire'[e][j]) = x[e][j] - Len(wire[e][j])
           /\ (e # d \/ j # 0) => wire'[e][j] = <<>> \/ wire'[e][j] = wire[e][j]
  <2>1. Follows(x, y, d, 0, sent[d] + 1) /\ sent[d] + 1 \in Nat
    BY <1>1, <1>2, <1>4 DEF Follows
  <2>2. Kept(x, y, d, 0)
    BY <1>1, <1>2, <1>5, <2>1, PutKeeps
  <2> QED
    BY <2>2 DEF Kept
<1>8. XType(y)'
  <2>1. /\ \A e \in Dir : x[e][0] = sent[e] /\ sent[e] \in Nat
        /\ \A e \in Dir, j \in Wires : x[e][j] \in Int /\ -1 <= x[e][j] /\ x[e][j] <= sent[e]
    BY <1>2 DEF IInv, Chain, XType, TypeOK
  <2>2. \A e \in Dir : y[e][0] = sent'[e]
    BY <1>1, <1>4, <1>6, <2>1
  <2>3. \A e \in Dir, j \in Wires : -1 <= y[e][j] /\ y[e][j] <= sent'[e]
    BY <1>4, <1>6, <2>1
  <2> QED
    BY <2>2, <2>3 DEF XType
<1>9. HeldNext(y)'
  <2>1. \A e \in Dir : sent[e] \in Nat /\ \A k \in Processes : copy[e][k].chunk \in Nat
    BY DEF TypeOK
  <2>2. HeldNext(x)
    BY DEF IInv, Chain
  <2>3. \A e \in Dir : sent[e] <= sent'[e] /\ sent'[e] \in Nat
    BY <1>6, <2>1
  <2>4. \A e \in Dir, k \in Processes : y[e][k] = x[e][k]
    BY <1>1, <1>4
  <2> QED
    BY <1>6, <1>7, <2>1, <2>2, <2>3, <2>4 DEF HeldNext
<1>10. Link(y)'
  <2> SUFFICES ASSUME NEW e \in Dir, NEW k \in Processes, Linked(e, k)'
               PROVE  y[e][k - 1] - Len(wire'[e][k - 1]) = y[e][k] + Held(e, k)'
    BY DEF Link
  <2>1. Linked(e, k) /\ Held(e, k)' = Held(e, k) /\ Conn(e, k - 1) \notin broken'
    BY <1>6, <1>7 DEF Linked, Held
  <2>2. x[e][k - 1] - Len(wire[e][k - 1]) = x[e][k] + Held(e, k)
    BY <2>1 DEF IInv, Chain, Link
  <2> QED
    BY <1>1, <1>4, <1>7, <2>1, <2>2
<1>11. LastLink(y)'
  <2>1. LastLink(x)
    BY DEF IInv, Chain
  <2> QED
    BY <1>1, <1>6, <1>7, <2>1 DEF LastLink, Base, Hasty
<1>12. Positive(y)'
  <2>1. /\ "out" \in Dir /\ wire["out"][Hops] \in Seq(Nat)
        /\ Len(wire["out"][Hops]) <= x["out"][Hops] /\ x["out"][Hops] \in Int
    BY <1>1, <1>2 DEF IInv, Chain, Positive, TypeOK, Dir
  <2>2. y["out"][Hops] = x["out"][Hops]
    BY <1>1, <1>4, <2>1
  <2>3. wire'["out"][Hops] = <<>> \/ wire'["out"][Hops] = wire["out"][Hops]
    BY <1>1, <1>7, <2>1
  <2>4. Len(<<>>) = 0 /\ Len(wire["out"][Hops]) \in Nat
    BY <2>1
  <2> QED
    BY <2>1, <2>2, <2>3, <2>4 DEF Positive
<1>13. Dialling(y)'
  <2>1. Dialling(x) /\ "in" \in Dir /\ "out" \in Dir
    BY DEF IInv, Chain, Dir
  <2>2. hop[Hops] = "dialling" => d # "in"
    BY <1>6 DEF MaySend
  <2> QED
    BY <1>1, <1>4, <1>6, <1>7, <2>1, <2>2 DEF Dialling
<1>14. Answered'
  <2>1. Answered /\ "out" \in Dir
    BY DEF IInv, Chain, Dir
  <2>2. patient /\ ~up => sent'["out"] = sent["out"]
    BY <1>6, <2>1 DEF MaySend
  <2> QED
    BY <1>6, <2>1, <2>2 DEF Answered
<1>15. Calm(y)'
  <2> SUFFICES ASSUME faults = 0 PROVE Calm(y)'
    BY <1>6 DEF Calm
  <2>1. <<Conn(d, 0), d>> \notin closed
    <3>1. hop[HopAt(d, 1)] = "closed" => fin[d]
      BY <1>1 DEF IInv, Calm
    <3> QED
      BY <1>1, <1>6, <3>1 DEF IInv, Closed
  <2>2. Calm(x)
    BY DEF IInv
  <2>3. broken' = {}
    BY <1>7, <2>1, <2>2 DEF Calm
  <2>4. \A e \in Dir : fin[e] =>
          /\ sent'[e] = sent[e]
          /\ \A j \in Wires :
               y[e][j] = x[e][j] /\ (wire[e][j] = <<>> => wire'[e][j] = <<>>)
    BY <1>4, <1>6, <1>7
  <2> QED
    BY <1>1, <1>6, <2>2, <2>3, <2>4 DEF Calm
<1>16. Closed'
  BY <1>6 DEF IInv, Closed
<1> QED
  BY <1>7, <1>8, <1>9, <1>10, <1>11, <1>12, <1>13, <1>14, <1>15, <1>16 DEF IInv, Chain

\* Finish puts the end behind all that was sent.
LEMMA FinishKeeps ==
  ASSUME TypeOK, NEW x, IInv(x), NEW d \in Dir, Finish(d)
  PROVE  IInv(x)'
<1>1. 0 \in Wires /\ \A k \in Processes : k \in Wires /\ k # 0
  BY HopsAssumption DEF Wires, Processes
<1>2. /\ MaySend(d) /\ (d = "out" => up) /\ ~fin[d]
      /\ \A e \in Dir : fin'[e] <=> (fin[e] \/ e = d)
      /\ \A e \in Dir, j \in Wires : ended'[e][j] <=> (ended[e][j] \/ (e = d /\ j = 0))
      /\ UNCHANGED <<patient, up, sent, last, seen, wire, broken, closed, hop, copy, faults>>
  <2>1. fin' = [fin EXCEPT ![d] = TRUE] /\ ended' = [ended EXCEPT ![d][0] = TRUE]
    BY DEF Finish
  <2>2. /\ \A e \in Dir : fin[e] \in BOOLEAN
        /\ \A e \in Dir, j \in Wires : ended[e][j] \in BOOLEAN
    BY DEF TypeOK
  <2> QED
    BY <1>1, <2>1, <2>2 DEF Finish, TypeOK
<1>3. Chain(x)'
  <2>1. /\ XType(x)' /\ Consecutive(x)' /\ BrokenEmpty' /\ HeldNext(x)'
        /\ Link(x)' /\ LastLink(x)' /\ Positive(x)'
    BY <1>2 DEF IInv, Chain, XType, Consecutive, BrokenEmpty, HeldNext, Link, Linked, Held,
                LastLink, Base, Hasty, Positive
  <2>2. Dialling(x)' /\ Answered'
    BY <1>2 DEF IInv, Chain, Dialling, Answered, MaySend, Dir
  <2> QED
    BY <2>1, <2>2 DEF Chain
<1>4. Calm(x)'
  <2>1. Calm(x) /\ x[d][0] = sent[d]
    BY DEF IInv, Chain, XType
  <2>2. \A e \in Dir, k \in Processes : ended'[e][k] <=> ended[e][k]
    BY <1>1, <1>2
  <2> QED
    BY <1>2, <2>1, <2>2, Places DEF Calm
<1>5. Closed'
  BY <1>2 DEF IInv, Closed
<1> QED
  BY <1>3, <1>4, <1>5 DEF IInv

\* A receiver that sees the end changes nothing on the way.
LEMMA SeeEndKeeps ==
  ASSUME TypeOK, NEW x, IInv(x), NEW d \in Dir, SeeEnd(d)
  PROVE  IInv(x)'
<1>1. UNCHANGED <<patient, up, sent, fin, last, wire, ended, broken, closed, hop, copy, faults>>
  BY DEF SeeEnd, wires
<1>2. Chain(x)'
  BY <1>1 DEF IInv, Chain, XType, Consecutive, BrokenEmpty, HeldNext, Link, Linked, Held,
              LastLink, Base, Hasty, Positive, Dialling, Answered
<1> QED
  BY <1>1, <1>2 DEF IInv, Calm, Closed

\* What a receiver takes is the chunk after its last one, or the answer.
LEMMA Received ==
  ASSUME TypeOK, NEW x, IInv(x), NEW d \in Dir, HasChunk(d, Hops), Take(d, Hops), broken' = broken
  PROVE  /\ Head(wire[d][Hops]) \in Nat /\ Head(wire[d][Hops]) <= sent[d]
         /\ Head(wire[d][Hops]) = x[d][Hops] - Len(wire[d][Hops]) + 1
         /\ ~Hasty(d) => Head(wire[d][Hops]) = Base(d) + 1
         /\ Head(wire[d][Hops]) = 0 <=> (d = "in" /\ ~up)
         /\ hop[Hops] = "dialling" => d = "in"
<1>1. Hops \in Wires /\ Hops \in Processes
  BY HopsAssumption DEF Wires, Processes
<1>2. /\ x \in [Dir -> [Wires -> Int]] /\ Consecutive(x) /\ BrokenEmpty
      /\ x[d][Hops] <= sent[d] /\ sent[d] \in Nat /\ last[d] \in Nat
  BY <1>1 DEF IInv, Chain, XType, TypeOK
<1>3. /\ Conn(d, Hops) \notin broken
      /\ Head(wire[d][Hops]) \in Nat
      /\ Head(wire[d][Hops]) = x[d][Hops] - Len(wire[d][Hops]) + 1
      /\ Len(wire[d][Hops]) \in Nat \ {0} /\ x[d][Hops] \in Int
  <2>1. Taken(x, d, Hops)
    BY <1>1, <1>2, TakeKeeps
  <2> QED
    BY <1>1, <1>2, <2>1 DEF Taken
<1>4. ~Hasty(d) => Head(wire[d][Hops]) = Base(d) + 1
  BY <1>3 DEF IInv, Chain, LastLink, Base
<1>5. d = "out" => Head(wire[d][Hops]) # 0
  BY <1>3 DEF IInv, Chain, Positive
<1>6. d = "in" => (Head(wire[d][Hops]) = 0 <=> ~up)
  BY <1>2, <1>3, <1>4 DEF Hasty, Base
<1>7. hop[Hops] = "dialling" => d = "in"
  BY DEF IInv, Chain, Dialling, HasChunk, Dir
<1> QED
  BY <1>2, <1>3, <1>4, <1>5, <1>6, <1>7 DEF Dir

\* Receive takes the next chunk from the end of the chain.
LEMMA ReceiveKeeps ==
  ASSUME TypeOK, NEW x, IInv(x), NEW d \in Dir, Receive(d)
  PROVE  IInv(x)'
<1>1. /\ Hops \in Wires /\ Hops \in Processes
      /\ \A k \in Processes : k - 1 \in Wires /\ k - 1 # Hops
  BY HopsAssumption DEF Wires, Processes
<1> DEFINE n == Head(wire[d][Hops])
<1>2. /\ HasChunk(d, Hops) /\ Take(d, Hops)
      /\ UNCHANGED <<patient, sent, fin, ended, broken, closed, hop, copy, faults>>
      /\ n = 0 => up' /\ last' = last
      /\ n # 0 => up' = up /\ last' = [last EXCEPT ![d] = n]
  BY DEF Receive
<1>3. /\ x \in [Dir -> [Wires -> Int]] /\ Consecutive(x) /\ BrokenEmpty
      /\ \A e \in Dir : last[e] \in Nat
      /\ \A e \in Dir, j \in Wires : Len(wire[e][j]) \in Nat
  BY DEF IInv, Chain, XType, TypeOK
<1>4. /\ Consecutive(x)' /\ BrokenEmpty'
      /\ Len(wire'[d][Hops]) = Len(wire[d][Hops]) - 1 /\ Len(wire[d][Hops]) \in Nat \ {0}
      /\ \A e \in Dir, j \in Wires : (e # d \/ j # Hops) => wire'[e][j] = wire[e][j]
  <2>1. Taken(x, d, Hops)
    BY <1>1, <1>2, <1>3, TakeKeeps
  <2> QED
    BY <2>1 DEF Taken
<1>5. /\ n \in Nat /\ n = x[d][Hops] - Len(wire[d][Hops]) + 1
      /\ ~Hasty(d) => n = Base(d) + 1
      /\ n = 0 <=> (d = "in" /\ ~up)
      /\ hop[Hops] = "dialling" => d = "in"
  BY <1>2, Received
<1> HIDE DEF n
<1>6. /\ last'[d] = n
      /\ \A e \in Dir : e # d => last'[e] = last[e]
      /\ up' <=> (up \/ n = 0)
  <2>1. n = 0 => last[d] = 0
    BY <1>5 DEF IInv, Chain, Answered
  <2>2. up \in BOOLEAN /\ last \in [Dir -> Nat]
    BY DEF TypeOK
  <2> QED
    BY <1>2, <2>1, <2>2
<1>7. XType(x)' /\ HeldNext(x)'
  BY <1>2 DEF IInv, Chain, XType, HeldNext
<1>8. Link(x)'
  <2>1. \A e \in Dir, k \in Processes : wire'[e][k - 1] = wire[e][k - 1]
    BY <1>1, <1>4
  <2> QED
    BY <1>2, <2>1 DEF IInv, Chain, Link, Linked, Held
<1>9. LastLink(x)' /\ Positive(x)'
  <2>1. \A e \in Dir : x[e][Hops] \in Int
    BY <1>1, <1>3
  <2>2. x[d][Hops] - Len(wire'[d][Hops]) = n
    BY <1>4, <1>5, <2>1
  <2>3. Base(d)' = n
    BY <1>5, <1>6 DEF Base, Dir
  <2>4. \A e \in Dir : e # d => wire'[e][Hops] = wire[e][Hops] /\ Base(e)' = Base(e)
    BY <1>1, <1>4, <1>5, <1>6 DEF Base
  <2>5. LastLink(x)'
    BY <1>2, <1>6, <2>2, <2>3, <2>4 DEF IInv, Chain, LastLink, Hasty
  <2>6. Positive(x)'
    BY <1>3, <1>4, <1>5, <2>1, <2>2, <2>4 DEF IInv, Chain, Positive, Dir
  <2> QED
    BY <2>5, <2>6
<1>10. Dialling(x)'
  BY <1>1, <1>2, <1>4, <1>5, <1>6 DEF IInv, Chain, Dialling, Dir
<1>11. Answered'
  BY <1>2, <1>5, <1>6 DEF IInv, Chain, Answered, Dir
<1>12. Calm(x)'
  <2>1. Calm(x)
    BY DEF IInv
  <2>2. \A e \in Dir, k \in Processes : wire'[e][k - 1] = wire[e][k - 1]
    BY <1>1, <1>4
  <2> QED
    BY <1>2, <2>1, <2>2 DEF Calm
<1>13. Closed'
  BY <1>2 DEF IInv, Closed
<1> QED
  BY <1>4, <1>7, <1>8, <1>9, <1>10, <1>11, <1>12, <1>13 DEF IInv, Chain

\* A copy that turns to its half-close, or has done it, moves no chunk.
LEMMA CopyEndsKeeps ==
  ASSUME TypeOK, NEW x, IInv(x), NEW d \in Dir, NEW k \in Processes,
         NEW a \in {"closing", "done"}, copy'[d][k].at = a,
         \A e \in Dir, j \in Processes : (e # d \/ j # k) => copy'[e][j] = copy[e][j],
         UNCHANGED <<patient, up, sent, fin, last, wire, broken, hop>>
  PROVE  Chain(x)'
<1>1. XType(x)' /\ Consecutive(x)' /\ BrokenEmpty' /\ LastLink(x)' /\ Positive(x)' /\ Answered'
  BY DEF IInv, Chain, XType, Consecutive, BrokenEmpty, LastLink, Base, Hasty, Positive, Answered
<1>2. HeldNext(x)'
  BY DEF IInv, Chain, HeldNext
<1>3. Link(x)'
  BY DEF IInv, Chain, Link, Linked, Held
<1>4. Dialling(x)'
  BY DEF IInv, Chain, Dialling, Dir
<1> QED
  BY <1>1, <1>2, <1>3, <1>4 DEF Chain

\* A copy that reads holds the chunk that comes next.
LEMMA CopyTakesKeeps ==
  ASSUME TypeOK, NEW x, IInv(x), NEW d \in Dir, NEW k \in Processes, CopyRead(d, k),
         HasChunk(d, k - 1), Take(d, k - 1),
         copy' = [copy EXCEPT ![d][k] = [at |-> "writing", chunk |-> Head(wire[d][k - 1])]]
  PROVE  IInv(x)'
<1>1. /\ k \in Wires /\ k - 1 \in Wires /\ k - 1 # Hops /\ 0 \in Wires /\ Hops \in Processes
      /\ \A j \in Processes : j \in Wires /\ j - 1 \in Wires /\ (j # k => j - 1 # k - 1)
      /\ \A j \in Processes : k - 1 # 0 => k - 1 \in Processes
  BY HopsAssumption DEF Wires, Processes
<1>2. /\ hop[HopAt(d, k)] = "joined" /\ copy[d][k].at = "reading"
      /\ UNCHANGED <<patient, up, sent, fin, last, seen, ended, broken, closed, hop, faults>>
  BY DEF CopyRead, Running, ends
<1>3. /\ x \in [Dir -> [Wires -> Int]] /\ Consecutive(x) /\ BrokenEmpty
      /\ \A e \in Dir, j \in Wires : x[e][j] \in Int /\ x[e][j] <= sent[e]
      /\ \A e \in Dir : sent[e] \in Nat
  BY DEF IInv, Chain, XType, TypeOK
<1>4. /\ Consecutive(x)' /\ BrokenEmpty' /\ Conn(d, k - 1) \notin broken
      /\ Head(wire[d][k - 1]) \in Nat
      /\ Head(wire[d][k - 1]) = x[d][k - 1] - Len(wire[d][k - 1]) + 1
      /\ Len(wire'[d][k - 1]) = Len(wire[d][k - 1]) - 1 /\ Len(wire[d][k - 1]) \in Nat \ {0}
      /\ \A e \in Dir, j \in Wires : (e # d \/ j # k - 1) => wire'[e][j] = wire[e][j]
  <2>1. Taken(x, d, k - 1)
    BY <1>1, <1>2, <1>3, TakeKeeps
  <2> QED
    BY <2>1 DEF Taken
<1>5. /\ copy'[d][k].at = "writing" /\ copy'[d][k].chunk = Head(wire[d][k - 1])
      /\ \A e \in Dir, j \in Processes : (e # d \/ j # k) => copy'[e][j] = copy[e][j]
  BY DEF TypeOK
<1>6. Conn(d, k) \notin broken => x[d][k - 1] - Len(wire[d][k - 1]) = x[d][k]
  <2>1. HopAt(d, k) = Hops => hop[Hops] # "dialling"
    BY <1>2
  <2>2. Conn(d, k) \notin broken => Linked(d, k) /\ Held(d, k) = 0
    BY <1>2, <1>4, <2>1 DEF Linked, Held
  <2>3. x[d][k] \in Int
    BY <1>1, <1>3
  <2> QED
    BY <2>2, <2>3 DEF IInv, Chain, Link
<1>7. XType(x)' /\ Answered'
  BY <1>2 DEF IInv, Chain, XType, Answered
<1>8. HeldNext(x)'
  <2>1. HeldNext(x)
    BY DEF IInv, Chain
  <2>2. Head(wire[d][k - 1]) <= sent[d]
    BY <1>1, <1>3, <1>4
  <2>3. Conn(d, k) \notin broken => Head(wire[d][k - 1]) = x[d][k] + 1
    BY <1>4, <1>6
  <2> QED
    BY <1>2, <1>5, <2>1, <2>2, <2>3 DEF HeldNext
<1>9. Link(x)'
  <2> SUFFICES ASSUME NEW e \in Dir, NEW j \in Processes, Linked(e, j)'
               PROVE  x[e][j - 1] - Len(wire'[e][j - 1]) = x[e][j] + Held(e, j)'
    BY DEF Link
  <2>1. CASE e = d /\ j = k
    <3>1. Conn(d, k) \notin broken
      BY <1>2, <2>1 DEF Linked
    <3>2. Held(e, j)' = 1
      BY <1>5, <2>1 DEF Held
    <3> QED
      BY <1>1, <1>3, <1>4, <1>6, <2>1, <3>1, <3>2
  <2>2. CASE e # d \/ j # k
    <3>1. Linked(e, j) /\ Held(e, j)' = Held(e, j)
      BY <1>2, <1>5, <2>2 DEF Linked, Held
    <3>2. wire'[e][j - 1] = wire[e][j - 1]
      BY <1>1, <1>4, <2>2
    <3> QED
      BY <3>1, <3>2 DEF IInv, Chain, Link
  <2> QED
    BY <2>1, <2>2
<1>10. LastLink(x)' /\ Positive(x)'
  <2>1. \A e \in Dir : wire'[e][Hops] = wire[e][Hops]
    BY <1>1, <1>4
  <2> QED
    BY <1>2, <2>1 DEF IInv, Chain, LastLink, Base, Hasty, Positive, Dir
<1>11. Dialling(x)'
  <2> SUFFICES ASSUME hop[Hops] = "dialling" PROVE Dialling(x)'
    BY <1>2 DEF Dialling
  <2>1. Dialling(x)
    BY DEF IInv, Chain
  <2>2. d # "in"
    <3>1. ASSUME d = "in" PROVE FALSE
      <4>1. k - 1 # 0
        BY <1>2, <3>1, HopsAssumption DEF HopAt
      <4>2. x["in"][k - 1] = -1
        BY <1>1, <2>1, <4>1 DEF Dialling
      <4> QED
        BY <1>4, <3>1, <4>2
    <3> QED
      BY <3>1
  <2>3. wire'["in"][0] = wire["in"][0] /\ wire'["out"][Hops] = wire["out"][Hops]
    BY <1>1, <1>4, <2>2 DEF Dir
  <2> QED
    BY <1>2, <1>5, <2>1, <2>2, <2>3 DEF Dialling, Dir
<1>12. Calm(x)'
  <2> SUFFICES ASSUME faults = 0 PROVE Calm(x)'
    BY <1>2 DEF Calm
  <2>1. Calm(x)
    BY DEF IInv
  <2>2. ~ended[d][k]
    BY <1>2, <2>1 DEF Calm
  <2>3. \A e \in Dir, j \in Processes : (e # d \/ j # k) => wire'[e][j - 1] = wire[e][j - 1]
    BY <1>1, <1>4
  <2>4. broken' = {} /\ \A e \in Dir, j \in Wires : ended'[e][j] => fin'[e] /\ x[e][j] = sent'[e]
    BY <1>2, <2>1 DEF Calm
  <2> QED
    BY <1>2, <1>5, <2>1, <2>2, <2>3, <2>4 DEF Calm
<1>13. Closed'
  BY <1>2 DEF IInv, Closed
<1> QED
  BY <1>4, <1>7, <1>8, <1>9, <1>10, <1>11, <1>12, <1>13 DEF IInv, Chain

\* With the end of its source a copy has passed on all there is.
LEMMA CopyReadKeeps ==
  ASSUME TypeOK, NEW x, IInv(x), NEW d \in Dir, NEW k \in Processes, CopyRead(d, k)
  PROVE  IInv(x)'
<1>1. CASE /\ HasChunk(d, k - 1) /\ Take(d, k - 1)
           /\ copy' = [copy EXCEPT ![d][k] = [at |-> "writing", chunk |-> Head(wire[d][k - 1])]]
  BY <1>1, CopyTakesKeeps
<1>2. CASE /\ AtEnd(d, k - 1) \/ IsReset(d, k - 1)
           /\ copy' = [copy EXCEPT ![d][k].at = "closing"] /\ UNCHANGED wire
  <2>1. MovesTo(d, k, "closing")
    BY <1>2 DEF MovesTo
  <2>2. /\ copy'[d][k].at = "closing"
        /\ \A e \in Dir, j \in Processes : (e # d \/ j # k) => copy'[e][j] = copy[e][j]
    BY <2>1, CopyEffect
  <2>3. /\ hop[HopAt(d, k)] = "joined" /\ copy[d][k].at = "reading"
        /\ UNCHANGED <<patient, up, sent, fin, last, wire, ended, broken, closed, hop, faults>>
    BY <1>2 DEF CopyRead, Running, ends
  <2>4. Chain(x)'
    BY <2>2, <2>3, CopyEndsKeeps
  <2>5. Calm(x)'
    <3> SUFFICES ASSUME faults = 0 PROVE Calm(x)'
      BY <2>3 DEF Calm
    <3>1. Calm(x) /\ k \in Wires /\ k - 1 \in Wires /\ x \in [Dir -> [Wires -> Int]]
      BY Places DEF IInv, Chain, XType
    <3>2. broken = {}
      BY <3>1 DEF Calm
    <3>3. AtEnd(d, k - 1)
      BY <1>2, <3>2 DEF IsReset
    <3>4. fin[d] /\ x[d][k - 1] = sent[d] /\ ended[d][k - 1] /\ wire[d][k - 1] = <<>>
      BY <3>1, <3>3 DEF AtEnd, Calm
    <3>5. x[d][k] = sent[d]
      <4>1. HopAt(d, k) = Hops => hop[Hops] # "dialling"
        BY <2>3
      <4>2. Linked(d, k) /\ Held(d, k) = 0
        BY <2>3, <3>2, <4>1 DEF Linked, Held
      <4>3. x[d][k - 1] - Len(wire[d][k - 1]) = x[d][k] + 0
        BY <4>2 DEF IInv, Chain, Link
      <4>4. Len(wire[d][k - 1]) = 0 /\ x[d][k] \in Int /\ x[d][k - 1] \in Int
        BY <3>1, <3>4
      <4> QED
        BY <3>4, <4>3, <4>4
    <3> QED
      <4>1. broken' = {} /\ \A e \in Dir, j \in Wires : ended'[e][j] => fin'[e] /\ x[e][j] = sent'[e]
        BY <2>3, <3>1 DEF Calm
      <4>2. ~ended[d][k]
        BY <2>3, <3>1 DEF Calm
      <4> QED
        BY <2>2, <2>3, <3>1, <3>4, <3>5, <4>1, <4>2 DEF Calm
  <2>6. Closed'
    BY <2>3 DEF IInv, Closed
  <2> QED
    BY <2>4, <2>5, <2>6 DEF IInv
<1> QED
  BY <1>1, <1>2 DEF CopyRead

\* The half-close comes behind all that was sent.
LEMMA CopyCloseKeeps ==
  ASSUME TypeOK, NEW x, IInv(x), NEW d \in Dir, NEW k \in Processes, CopyClose(d, k)
  PROVE  IInv(x)'
<1>1. MovesTo(d, k, "done")
  BY DEF CopyClose, MovesTo
<1>2. /\ copy'[d][k].at = "done"
      /\ \A e \in Dir, j \in Processes : (e # d \/ j # k) => copy'[e][j] = copy[e][j]
  BY <1>1, CopyEffect
<1>3. /\ copy[d][k].at = "closing"
      /\ UNCHANGED <<patient, up, sent, fin, last, wire, broken, closed, hop, faults>>
      /\ ended' = [ended EXCEPT ![d][k] = TRUE] /\ k \in Wires /\ k - 1 \in Wires
  BY Places DEF CopyClose, ends
<1>4. \A e \in Dir, j \in Wires : ended'[e][j] <=> (ended[e][j] \/ (e = d /\ j = k))
  <2>1. \A e \in Dir, j \in Wires : ended[e][j] \in BOOLEAN
    BY DEF TypeOK
  <2> QED
    BY <1>3, <2>1 DEF TypeOK
<1>5. Chain(x)'
  BY <1>2, <1>3, CopyEndsKeeps
<1>6. Calm(x)'
  <2> SUFFICES ASSUME faults = 0 PROVE Calm(x)'
    BY <1>3 DEF Calm
  <2>1. Calm(x)
    BY DEF IInv
  <2>2. \A j \in Processes : j \in Wires /\ j - 1 \in Wires
    BY Places
  <2> QED
    BY <1>2, <1>3, <1>4, <2>1, <2>2 DEF Calm
<1>7. Closed'
  BY <1>3 DEF IInv, Closed
<1> QED
  BY <1>5, <1>6, <1>7 DEF IInv

\* A copy that writes puts its chunk behind the one before it.
LEMMA CopyPutsKeeps ==
  ASSUME TypeOK, NEW x, IInv(x), NEW d \in Dir, NEW k \in Processes, CopyWrite(d, k),
         Put(d, k, copy[d][k].chunk), copy' = [copy EXCEPT ![d][k] = Idle]
  PROVE  \E y : IInv(y)'
<1> DEFINE n == copy[d][k].chunk
           open == <<Conn(d, k), d>> \notin closed
<1>1. /\ k \in Wires /\ k - 1 \in Wires /\ k # 0 /\ 0 \in Wires
      /\ Hops \in Wires /\ Hops \in Processes
      /\ \A j \in Processes : j \in Wires /\ j - 1 \in Wires
      /\ k < Hops => k + 1 \in Processes /\ (k + 1) - 1 = k
  BY HopsAssumption DEF Wires, Processes
<1>2. /\ x \in [Dir -> [Wires -> Int]] /\ Consecutive(x) /\ BrokenEmpty
      /\ \A e \in Dir : x[e][0] = sent[e] /\ sent[e] \in Nat
      /\ \A e \in Dir, j \in Wires : x[e][j] \in Int /\ -1 <= x[e][j] /\ x[e][j] <= sent[e]
  BY DEF IInv, Chain, XType, TypeOK
<1>3. /\ hop[HopAt(d, k)] = "joined" /\ copy[d][k].at = "writing" /\ n \in Nat
      /\ UNCHANGED <<patient, up, sent, fin, last, hop, faults, ended, closed>>
  BY DEF CopyWrite, Running, ends, Put, TypeOK
<1>4. /\ copy'[d][k].at = "reading"
      /\ \A e \in Dir, j \in Processes : (e # d \/ j # k) => copy'[e][j] = copy[e][j]
  BY DEF TypeOK, Idle
<1>5. /\ Conn(d, k) \notin broken /\ n = x[d][k] + 1 /\ n <= sent[d]
      /\ wire' \in [Dir -> [Wires -> Seq(Nat)]]
  BY <1>1, <1>3, PutEffect DEF IInv, Chain, HeldNext
<1>6. PICK y \in [Dir -> [Wires -> Int]] :
        /\ \A e \in Dir, j \in Wires : (e # d \/ j # k) => y[e][j] = x[e][j]
        /\ y[d][k] = IF open THEN n ELSE x[d][k]
  <2>1. CASE open
    <3>0. n \in Int
      BY <1>3
    <3>1. [x EXCEPT ![d][k] = n] \in [Dir -> [Wires -> Int]]
      BY <1>1, <1>2, <3>0
    <3>2. /\ \A e \in Dir, j \in Wires : (e # d \/ j # k) => [x EXCEPT ![d][k] = n][e][j] = x[e][j]
          /\ [x EXCEPT ![d][k] = n][d][k] = n
      BY <1>1, <1>2
    <3> QED
      BY <2>1, <3>1, <3>2
  <2>2. CASE ~open
    BY <1>2, <2>2
  <2> QED
    BY <2>1, <2>2
<1>7. Follows(x, y, d, k, n)
  BY <1>5, <1>6 DEF Follows
<1>8. Kept(x, y, d, k)
  BY <1>1, <1>2, <1>3, <1>7, PutKeeps
<1>9. /\ broken \subseteq broken' /\ Consecutive(y)' /\ BrokenEmpty'
      /\ ~open => Conn(d, k) \in broken'
      /\ open => broken' = broken
      /\ \A e \in Dir, j \in Wires :
           /\ Conn(e, j) \notin broken' =>
                y[e][j] - Len(wire'[e][j]) = x[e][j] - Len(wire[e][j])
           /\ (e # d \/ j # k) => wire'[e][j] = <<>> \/ wire'[e][j] = wire[e][j]
  BY <1>8 DEF Kept
<1> HIDE DEF n, open
<1>10. XType(y)'
  <2>1. \A e \in Dir : y[e][0] = sent[e]
    BY <1>1, <1>2, <1>6
  <2>2. \A e \in Dir, j \in Wires : -1 <= y[e][j] /\ y[e][j] <= sent[e]
    <3>1. -1 <= y[d][k] /\ y[d][k] <= sent[d]
      BY <1>1, <1>2, <1>3, <1>5, <1>6
    <3> QED
      BY <1>2, <1>6, <3>1
  <2> QED
    BY <1>3, <1>6, <2>1, <2>2 DEF XType
<1>11. HeldNext(y)'
  <2>1. HeldNext(x)
    BY DEF IInv, Chain
  <2> SUFFICES ASSUME NEW e \in Dir, NEW j \in Processes, copy'[e][j].at = "writing"
               PROVE  /\ copy'[e][j].chunk <= sent[e]
                      /\ Conn(e, j) \notin broken' => copy'[e][j].chunk = y[e][j] + 1
    BY <1>3 DEF HeldNext
  <2>2. (e # d \/ j # k) /\ copy'[e][j] = copy[e][j]
    BY <1>4
  <2>3. y[e][j] = x[e][j]
    BY <1>1, <1>6, <2>2
  <2> QED
    BY <1>9, <2>1, <2>2, <2>3 DEF HeldNext
<1>12. Link(y)'
  <2> SUFFICES ASSUME NEW e \in Dir, NEW j \in Processes, Linked(e, j)'
               PROVE  y[e][j - 1] - Len(wire'[e][j - 1]) = y[e][j] + Held(e, j)'
    BY DEF Link
  <2>1. /\ Linked(e, j) /\ Conn(e, j - 1) \notin broken' /\ Conn(e, j) \notin broken'
    BY <1>3, <1>4, <1>9 DEF Linked
  <2>2. y[e][j - 1] - Len(wire'[e][j - 1]) = x[e][j] + Held(e, j)
    BY <1>1, <1>9, <2>1 DEF IInv, Chain, Link
  <2>3. CASE e = d /\ j = k
    <3>1. y[e][j] = x[e][j] + 1
      BY <1>5, <1>6, <1>9, <2>1, <2>3
    <3>2. Held(e, j) = 1 /\ Held(e, j)' = 0 /\ x[e][j] \in Int
      BY <1>1, <1>2, <1>3, <1>4, <2>3 DEF Held
    <3> QED
      BY <2>2, <3>1, <3>2
  <2>4. CASE e # d \/ j # k
    <3>1. y[e][j] = x[e][j] /\ Held(e, j)' = Held(e, j)
      BY <1>1, <1>4, <1>6, <2>4 DEF Held
    <3> QED
      BY <2>2, <3>1
  <2> QED
    BY <2>3, <2>4
<1>13. LastLink(y)'
  <2>1. LastLink(x)
    BY DEF IInv, Chain
  <2> QED
    BY <1>1, <1>3, <1>9, <2>1 DEF LastLink, Base, Hasty
<1>14. Positive(y)'
  <2>1. /\ "out" \in Dir /\ Len(wire["out"][Hops]) <= x["out"][Hops]
        /\ wire["out"][Hops] \in Seq(Nat) /\ x["out"][Hops] \in Int /\ y["out"][Hops] \in Int
    BY <1>1, <1>2 DEF IInv, Chain, Positive, TypeOK, Dir
  <2>2. wire'["out"][Hops] \in Seq(Nat)
    BY <1>1, <1>5, <2>1
  <2>3. /\ Len(wire["out"][Hops]) \in Nat /\ Len(wire'["out"][Hops]) \in Nat /\ Len(<<>>) = 0
    BY <2>1, <2>2
  <2>4. CASE Conn("out", Hops) \in broken'
    <3>1. wire'["out"][Hops] = <<>>
      BY <1>1, <1>9, <2>1, <2>4 DEF BrokenEmpty
    <3>2. y["out"][Hops] >= x["out"][Hops]
      <4>1. CASE d = "out" /\ k = Hops
        BY <1>5, <1>6, <2>1, <4>1
      <4>2. CASE d # "out" \/ k # Hops
        BY <1>1, <1>6, <2>1, <4>2
      <4> QED
        BY <4>1, <4>2
    <3>3. Len(wire'["out"][Hops]) = 0
      BY <2>3, <3>1
    <3> QED
      BY <2>1, <2>3, <3>2, <3>3 DEF Positive
  <2>5. CASE Conn("out", Hops) \notin broken'
    <3>1. y["out"][Hops] - Len(wire'["out"][Hops]) = x["out"][Hops] - Len(wire["out"][Hops])
      BY <1>1, <1>9, <2>1, <2>5
    <3>2. \A p, q, r, s \in Int : p - q = r - s /\ s <= r => q <= p
      OBVIOUS
    <3>3. Len(wire'["out"][Hops]) \in Int /\ Len(wire["out"][Hops]) \in Int
      BY <2>3
    <3>4. Len(wire'["out"][Hops]) <= y["out"][Hops]
      BY <2>1, <3>1, <3>2, <3>3
    <3> QED
      BY <3>4 DEF Positive
  <2> QED
    BY <2>4, <2>5
<1>15. Dialling(y)'
  <2> SUFFICES ASSUME hop[Hops] = "dialling" PROVE Dialling(y)'
    BY <1>3 DEF Dialling
  <2>1. Dialling(x) /\ "in" \in Dir /\ "out" \in Dir
    BY DEF IInv, Chain, Dir
  <2>2. d # "in" /\ (d = "out" => k # Hops)
    BY <1>3, <2>1 DEF Dialling, HopAt
  <2>3. /\ wire'["in"][0] = <<>> /\ wire'["out"][Hops] = <<>>
        /\ y["out"][Hops] = x["out"][Hops] /\ \A j \in Wires : y["in"][j] = x["in"][j]
    BY <1>1, <1>6, <1>9, <2>1, <2>2 DEF Dialling
  <2> QED
    BY <1>1, <1>3, <1>4, <2>1, <2>2, <2>3 DEF Dialling
<1>16. Answered'
  BY <1>3 DEF IInv, Chain, Answered
<1>17. Calm(y)'
  <2> SUFFICES ASSUME faults = 0 PROVE Calm(y)'
    BY <1>3 DEF Calm
  <2>1. Calm(x)
    BY DEF IInv
  <2>2. ~ended[d][k]
    BY <1>3, <2>1 DEF Calm
  <2>3. open
    <3> SUFFICES ASSUME ~open PROVE FALSE
      OBVIOUS
    <3>1. k < Hops /\ hop[HopAt(d, k + 1)] = "closed"
      BY <1>1 DEF open, IInv, Closed
    <3>2. copy[d][k + 1].at = "done"
      BY <1>1, <2>1, <3>1 DEF Calm
    <3> QED
      BY <1>1, <2>1, <2>2, <3>1, <3>2 DEF Calm
  <2>4. broken' = {}
    BY <1>9, <2>1, <2>3 DEF Calm
  <2>5. \A e \in Dir, j \in Wires : ended[e][j] =>
          y[e][j] = x[e][j] /\ (wire[e][j] = <<>> => wire'[e][j] = <<>>)
    BY <1>6, <1>9, <2>2
  <2>6. \A e \in Dir, j \in Wires : ended'[e][j] => fin'[e] /\ y[e][j] = sent'[e]
    BY <1>3, <2>1, <2>5 DEF Calm
  <2>7. \A e \in Dir, j \in Processes : (e # d \/ j # k) => y[e][j] = x[e][j]
    BY <1>1, <1>6
  <2> QED
    BY <1>1, <1>3, <1>4, <2>1, <2>2, <2>4, <2>5, <2>6, <2>7 DEF Calm
<1>18. Closed'
  BY <1>3 DEF IInv, Closed
<1> QED
  BY <1>9, <1>10, <1>11, <1>12, <1>13, <1>14, <1>15, <1>16, <1>17, <1>18 DEF IInv, Chain

\* A write that fails has a reset for its reason.
LEMMA CopyWriteKeeps ==
  ASSUME TypeOK, NEW x, IInv(x), NEW d \in Dir, NEW k \in Processes, CopyWrite(d, k)
  PROVE  \E y : IInv(y)'
<1>1. CASE Put(d, k, copy[d][k].chunk) /\ copy' = [copy EXCEPT ![d][k] = Idle]
  BY <1>1, CopyPutsKeeps
<1>2. CASE /\ IsReset(d, k) /\ UNCHANGED wires
           /\ copy' = [copy EXCEPT ![d][k] = [at |-> "closing", chunk |-> 0]]
  <2>1. /\ copy'[d][k].at = "closing"
        /\ \A e \in Dir, j \in Processes : (e # d \/ j # k) => copy'[e][j] = copy[e][j]
    BY <1>2 DEF TypeOK
  <2>2. UNCHANGED <<patient, up, sent, fin, last, wire, ended, broken, closed, hop, faults>>
    BY <1>2 DEF CopyWrite, ends, wires
  <2>3. Chain(x)'
    BY <2>1, <2>2, CopyEndsKeeps
  <2>4. Calm(x)' /\ Closed'
    BY <1>2, <2>2 DEF IInv, Calm, Closed, IsReset
  <2> QED
    BY <2>3, <2>4 DEF IInv
<1> QED
  BY <1>1, <1>2 DEF CopyWrite

\* A process that closes what it holds cuts connections and nothing else.
LEMMA CloseKeeps ==
  ASSUME TypeOK, NEW x, IInv(x), NEW h \in Processes, NEW cs \in SUBSET Wires, CloseBoth(h, cs),
         hop' = [hop EXCEPT ![h] = "closed"], UNCHANGED <<ends, copy>>
  PROVE  Chain(x)' /\ Closed'
<1>1. /\ closed' = closed \cup Mine(h)
      /\ broken' = broken \cup Unread(h) \cup cs
      /\ \A d \in Dir, k \in Wires :
           wire'[d][k] = IF Conn(d, k) \in Unread(h) \cup cs THEN <<>> ELSE wire[d][k]
  <2>1. Closes(h, cs)
    BY CloseBothEffect
  <2> QED
    BY <2>1 DEF Closes
<1>2. Cut
  <2> SUFFICES ASSUME NEW d \in Dir, NEW k \in Wires
               PROVE  wire'[d][k] = IF Conn(d, k) \in broken' THEN <<>> ELSE wire[d][k]
    BY <1>1 DEF Cut
  <2>1. Conn(d, k) \in broken => wire[d][k] = <<>>
    BY DEF IInv, Chain, BrokenEmpty
  <2> QED
    BY <1>1, <2>1
<1>3. HopKeeps
  BY DEF TypeOK, HopKeeps
<1>4. Chain(x)'
  BY <1>2, <1>3, CutKeeps DEF IInv, ends
<1>5. Closed'
  <2> SUFFICES ASSUME NEW d \in Dir, NEW k \in Wires, <<Conn(d, k), d>> \in closed'
               PROVE  k < Hops /\ hop'[HopAt(d, k + 1)] = "closed"
    BY DEF Closed
  <2>1. CASE <<Conn(d, k), d>> \in closed
    <3>1. k < Hops /\ hop[HopAt(d, k + 1)] = "closed"
      BY <2>1 DEF IInv, Closed
    <3>2. HopAt(d, k + 1) \in Processes
      BY <3>1, HopsAssumption DEF Processes, Wires, HopAt, Dir
    <3> QED
      BY <3>1, <3>2 DEF TypeOK
  <2>2. CASE <<Conn(d, k), d>> \in Mine(h)
    <3>1. k < Hops /\ HopAt(d, k + 1) = h
      BY <2>2, HopsAssumption DEF Mine, Conn, HopAt, Processes, Wires, Dir
    <3> QED
      BY <3>1 DEF TypeOK
  <2> QED
    BY <1>1, <2>1, <2>2
<1> QED
  BY <1>4, <1>5

\* When both copies are done there is nothing left to read, and no reset.
LEMMA LetGoKeeps ==
  ASSUME TypeOK, NEW x, IInv(x), NEW h \in Processes, LetGo(h)
  PROVE  IInv(x)'
<1>1. /\ CloseBoth(h, {}) /\ hop' = [hop EXCEPT ![h] = "closed"]
      /\ UNCHANGED <<ends, copy, faults>>
      /\ \A d \in Dir : copy[d][HopAt(d, h)].at = "done"
  BY DEF LetGo
<1>2. Chain(x)' /\ Closed'
  BY <1>1, CloseKeeps
<1>3. Calm(x)'
  <2> SUFFICES ASSUME faults = 0 PROVE Calm(x)'
    BY <1>1 DEF Calm
  <2>1. Calm(x)
    BY DEF IInv
  <2>2. /\ broken' = broken \cup Unread(h) \cup {}
        /\ \A d \in Dir, k \in Wires :
             wire'[d][k] = IF Conn(d, k) \in Unread(h) \cup {} THEN <<>> ELSE wire[d][k]
        /\ \A d \in Dir, k \in Wires :
             ended'[d][k] <=> (ended[d][k] \/ <<Conn(d, k), Back(d)>> \in Mine(h))
    <3>1. {} \in SUBSET Wires
      OBVIOUS
    <3>2. Closes(h, {})
      BY <1>1, <3>1, CloseBothEffect
    <3> QED
      BY <3>2 DEF Closes
  <2>3. \A d \in Dir, k \in Wires : <<Conn(d, k), d>> \in Mine(h) => wire[d][k] = <<>>
    <3> SUFFICES ASSUME NEW d \in Dir, NEW k \in Wires, <<Conn(d, k), d>> \in Mine(h)
                 PROVE  wire[d][k] = <<>>
      OBVIOUS
    <3>1. k + 1 \in Processes /\ (k + 1) - 1 = k /\ HopAt(d, h) = k + 1
      BY HopsAssumption DEF Mine, Conn, HopAt, Processes, Wires, Dir
    <3> QED
      BY <1>1, <2>1, <3>1 DEF Calm
  <2>4. Unread(h) = {}
    BY <2>3 DEF Unread, HasChunk
  <2>5. broken' = {} /\ \A d \in Dir, k \in Wires : wire'[d][k] = wire[d][k]
    BY <2>1, <2>2, <2>4 DEF Calm
  <2>6. \A d \in Dir, k \in Wires :
          <<Conn(d, k), Back(d)>> \in Mine(h) => k = HopAt(d, h) /\ k \in Processes
    BY HopsAssumption DEF Mine, Conn, HopAt, Back, Processes, Wires, Dir
  <2>7. \A d \in Dir, k \in Wires :
          /\ ended[d][k] => ended'[d][k]
          /\ ended'[d][k] => ended[d][k] \/ (k \in Processes /\ copy[d][k].at = "done")
    <3> SUFFICES ASSUME NEW d \in Dir, NEW k \in Wires, <<Conn(d, k), Back(d)>> \in Mine(h)
                 PROVE  k \in Processes /\ copy[d][k].at = "done"
      BY <2>2
    <3> QED
      BY <1>1, <2>6
  <2>8. \A d \in Dir, k \in Wires : ended'[d][k] => fin[d] /\ x[d][k] = sent[d]
    BY <2>1, <2>7 DEF Calm
  <2>11. \A d \in Dir, k \in Processes : ended'[d][k] <=> copy[d][k].at = "done"
    BY <2>1, <2>7, Places DEF Calm
  <2>9. \A d \in Dir, k \in Processes :
          copy[d][k].at \in {"closing", "done"} =>
            fin[d] /\ x[d][k] = sent[d] /\ ended'[d][k - 1] /\ wire'[d][k - 1] = <<>>
    BY <2>1, <2>5, <2>7, Places DEF Calm
  <2>10. \A d \in Dir, k \in Processes :
           hop'[HopAt(d, k)] = "closed" => copy[d][k].at = "done"
    <3> SUFFICES ASSUME NEW d \in Dir, NEW k \in Processes, hop'[HopAt(d, k)] = "closed"
                 PROVE  copy[d][k].at = "done"
      OBVIOUS
    <3>1. CASE HopAt(d, k) = h
      BY <1>1, <3>1, Places
    <3>2. CASE HopAt(d, k) # h
      BY <1>1, <2>1, <3>2, Places DEF Calm, TypeOK
    <3> QED
      BY <3>1, <3>2
  <2> QED
    BY <1>1, <2>5, <2>8, <2>9, <2>10, <2>11 DEF Calm, ends
<1> QED
  BY <1>2, <1>3 DEF IInv

\* Joining keeps the chain; failing and ending cut it and count as faults.
LEMMA ProcessesKeep ==
  ASSUME TypeOK, NEW x, IInv(x), NEW h \in Processes, Dial(h) \/ DialFails(h) \/ LetGo(h) \/ Exit(h)
  PROVE  IInv(x)'
<1>1. CASE Dial(h)
  <2>1. /\ hop[h] = "dialling" /\ h # Hops /\ hop' = [hop EXCEPT ![h] = "joined"]
        /\ UNCHANGED <<patient, up, sent, fin, last, wire, ended, broken, closed, copy, faults>>
    BY <1>1 DEF Dial, ends, wires, Processes
  <2>2. Cut
    BY <2>1 DEF Cut, IInv, Chain, BrokenEmpty
  <2>3. HopKeeps
    BY <2>1 DEF HopKeeps, TypeOK
  <2>4. Chain(x)'
    BY <2>1, <2>2, <2>3, CutKeeps DEF IInv
  <2>5. \A g \in Processes : hop'[g] = "closed" <=> hop[g] = "closed"
    BY <2>1 DEF TypeOK
  <2>6. Calm(x)'
    BY <2>1, <2>5, Places DEF IInv, Calm
  <2>7. Closed'
    <3>1. \A d \in Dir, k \in Wires : k < Hops => HopAt(d, k + 1) \in Processes
      BY HopsAssumption DEF Processes, Wires, HopAt, Dir
    <3> QED
      BY <2>1, <2>5, <3>1 DEF IInv, Closed
  <2> QED
    BY <2>4, <2>6, <2>7 DEF IInv
<1>2. CASE DialFails(h)
  <2>1. {h} \in SUBSET Wires /\ faults' # 0
    BY <1>2, HopsAssumption DEF Processes, Wires, DialFails, TypeOK
  <2>2. Chain(x)' /\ Closed'
    BY <1>2, <2>1, CloseKeeps DEF DialFails
  <2> QED
    BY <2>1, <2>2 DEF IInv, Calm
<1>3. CASE LetGo(h)
  BY <1>3, LetGoKeeps
<1>4. CASE Exit(h)
  <2>1. {h} \in SUBSET Wires /\ {} \in SUBSET Wires /\ faults' # 0
    BY <1>4, HopsAssumption DEF Processes, Wires, Exit, TypeOK
  <2>2. Chain(x)' /\ Closed'
    BY <1>4, <2>1, CloseKeeps DEF Exit
  <2> QED
    BY <2>1, <2>2 DEF IInv, Calm
<1> QED
  BY <1>1, <1>2, <1>3, <1>4

\* So does a reset.
LEMMA ResetKeeps ==
  ASSUME TypeOK, NEW x, IInv(x), NEW c \in {0, Hops}, Reset(c)
  PROVE  IInv(x)'
<1>1. /\ broken' = broken \cup {c} /\ faults' # 0
      /\ UNCHANGED <<patient, up, sent, fin, last, ended, closed, hop, copy>>
      /\ \A d \in Dir, k \in Wires :
           wire'[d][k] = IF Conn(d, k) \in {c} THEN <<>> ELSE wire[d][k]
  <2>1. wire' = Without(wire, {c})
    BY DEF Reset
  <2>2. \A d \in Dir, k \in Wires :
          wire'[d][k] = IF Conn(d, k) \in {c} THEN <<>> ELSE wire[d][k]
    BY <2>1, WithoutType
  <2>3. /\ broken' = broken \cup {c} /\ faults' = faults + 1 /\ faults \in Nat
        /\ UNCHANGED <<ends, ended, closed, hop, copy>>
    BY DEF Reset, TypeOK
  <2> QED
    BY <2>2, <2>3 DEF ends
<1>2. Cut
  <2> SUFFICES ASSUME NEW d \in Dir, NEW k \in Wires
               PROVE  wire'[d][k] = IF Conn(d, k) \in broken' THEN <<>> ELSE wire[d][k]
    BY <1>1 DEF Cut
  <2>1. Conn(d, k) \in broken => wire[d][k] = <<>>
    BY DEF IInv, Chain, BrokenEmpty
  <2> QED
    BY <1>1, <2>1
<1>3. HopKeeps
  BY <1>1 DEF HopKeeps
<1>4. Chain(x)'
  BY <1>1, <1>2, <1>3, CutKeeps DEF IInv
<1> QED
  BY <1>1, <1>4 DEF IInv, Calm, Closed

\* A connection that ends before its request does so by a fault.
LEMMA AbandonKeeps ==
  ASSUME TypeOK, NEW x, IInv(x), Abandon
  PROVE  IInv(x)'
<1>1. /\ Hops \in Processes /\ {Hops} \in SUBSET Wires /\ Hops - 1 \in Wires /\ "out" \in Dir
      /\ CloseBoth(Hops, {Hops}) /\ hop' = [hop EXCEPT ![Hops] = "closed"]
      /\ UNCHANGED <<ends, copy, faults>>
  BY HopsAssumption DEF Processes, Wires, Abandon, Dir
<1>2. Chain(x)' /\ Closed'
  BY <1>1, CloseKeeps
<1>3. faults # 0
  <2>1. faults = 0 => fin["out"] \/ broken # {}
    BY <1>1 DEF Abandon, AtEnd, IsReset, IInv, Calm
  <2> QED
    BY <2>1 DEF Abandon, IInv, Chain, Dialling, Answered, Calm
<1> QED
  BY <1>1, <1>2, <1>3 DEF IInv, Calm

\* The CONNECT and its answer join the two halves of the chain.
LEMMA EstablishKeeps ==
  ASSUME TypeOK, NEW x, IInv(x), Establish
  PROVE  \E y : IInv(y)'
<1>1. /\ Hops \in Processes /\ Hops \in Wires /\ Hops - 1 \in Wires /\ Hops - 1 # Hops
      /\ Hops # 0 /\ 0 \in Wires /\ 1 \in Wires /\ 1 \in Processes
      /\ "out" \in Dir /\ "in" \in Dir
      /\ \A k \in Processes : k \in Wires /\ k - 1 \in Wires /\ k - 1 # Hops /\ k # 0
      /\ \A k \in Processes : k - 1 = Hops - 1 <=> k = Hops
      /\ \A k \in Processes : k - 1 = 1 => k # 1
      /\ Conn("in", 1) = Conn("out", Hops - 1)
      /\ HopAt("out", Hops) = Hops /\ HopAt("in", 1) = Hops
  BY HopsAssumption DEF Wires, Processes, Dir, Conn, HopAt
<1>2. /\ x \in [Dir -> [Wires -> Int]] /\ Consecutive(x) /\ BrokenEmpty
      /\ \A e \in Dir : x[e][0] = sent[e] /\ sent[e] \in Nat
      /\ \A e \in Dir, j \in Wires : x[e][j] \in Int /\ -1 <= x[e][j] /\ x[e][j] <= sent[e]
      /\ \A e \in Dir, j \in Wires : wire[e][j] \in Seq(Nat) /\ Len(wire[e][j]) \in Nat
  BY DEF IInv, Chain, XType, TypeOK
<1>3. /\ hop[Hops] = "dialling" /\ wire["out"][Hops - 1] # <<>>
      /\ UNCHANGED <<patient, up, sent, fin, last, ended, broken, closed, copy, faults>>
  BY DEF Establish, HasChunk, ends
<1>4. /\ ~up /\ sent["in"] = 0 /\ ~fin["in"] /\ last["out"] = 0
      /\ wire["in"][0] = <<>> /\ wire["out"][Hops] = <<>> /\ x["out"][Hops] = 0
      /\ \A k \in Processes : x["in"][k] = -1 /\ copy["in"][k].at # "writing"
  BY <1>3 DEF IInv, Chain, Dialling
<1>5. copy["out"][Hops].at = "reading" /\ copy["in"][1].at = "reading"
  BY <1>1, <1>3 DEF TypeOK, Idle
<1>6. \A e \in Dir, k \in Processes : hop'[HopAt(e, k)] =
        IF HopAt(e, k) = Hops THEN "joined" ELSE hop[HopAt(e, k)]
  BY <1>1, Places DEF Establish, TypeOK
<1> DEFINE w == wire["out"][Hops - 1]
<1>7. PICK a \in 0..(Len(w) - 1) :
        wire' = [wire EXCEPT !["out"][Hops - 1] = SubSeq(w, a + 2, Len(w)),
                             !["in"][1] = Append(wire["in"][1], 0)]
  BY DEF Establish
<1>8. PICK z \in Int : z = x["out"][Hops - 1] - (Len(w) - a - 1)
  BY <1>1, <1>2
<1>9. /\ w \in Seq(Nat) /\ Run(w, x["out"][Hops - 1]) /\ Len(w) <= x["out"][Hops - 1] + 1
      /\ Len(w) \in Nat \ {0}
  <2>1. w \in Seq(Nat) /\ Run(w, x["out"][Hops - 1])
    BY <1>1, <1>2 DEF Consecutive
  <2> QED
    BY <1>1, <1>2, <1>3, <2>1, RunLength
<1>10. /\ Len(SubSeq(w, a + 2, Len(w))) = Len(w) - a - 1
       /\ Run(SubSeq(w, a + 2, Len(w)), x["out"][Hops - 1])
  BY <1>1, <1>2, <1>3, <1>9, RunSuffix
<1>11. 0 <= z /\ z <= sent["out"]
  <2>1. a \in Int /\ 0 <= a /\ a <= Len(w) - 1 /\ Len(w) \in Int
    BY <1>9
  <2>2. x["out"][Hops - 1] \in Int /\ x["out"][Hops - 1] <= sent["out"] /\ sent["out"] \in Int
    BY <1>1, <1>2
  <2> QED
    BY <1>8, <1>9, <2>1, <2>2
<1>12. wire["in"][1] = <<>>
  BY <1>1, <1>2, <1>4, RunLength DEF Consecutive
<1>13. /\ wire'["out"][Hops - 1] = SubSeq(w, a + 2, Len(w))
       /\ wire'["in"][1] = <<0>>
       /\ \A e \in Dir, j \in Wires :
            (e # "out" \/ j # Hops - 1) /\ (e # "in" \/ j # 1) => wire'[e][j] = wire[e][j]
  <2>1. wire'["in"][1] = Append(wire["in"][1], 0)
    BY <1>1, <1>7 DEF TypeOK
  <2>2. wire'["in"][1] = <<0>>
    BY <1>12, <2>1
  <2> QED
    BY <1>1, <1>7, <2>2 DEF TypeOK
<1>14. PICK y \in [Dir -> [Wires -> Int]] :
         /\ y["out"][Hops] = z /\ y["in"][1] = 0
         /\ \A e \in Dir, j \in Wires :
              (e # "out" \/ j # Hops) /\ (e # "in" \/ j # 1) => y[e][j] = x[e][j]
  <2> DEFINE g == [x EXCEPT !["out"][Hops] = z]
             f == [g EXCEPT !["in"][1] = 0]
  <2>3. /\ g \in [Dir -> [Wires -> Int]] /\ g["out"][Hops] = z
        /\ \A e \in Dir, j \in Wires : (e # "out" \/ j # Hops) => g[e][j] = x[e][j]
    BY <1>1, <1>2
  <2> HIDE DEF g
  <2>1. f \in [Dir -> [Wires -> Int]]
    BY <1>1, <2>3
  <2>2. /\ f["out"][Hops] = z /\ f["in"][1] = 0
        /\ \A e \in Dir, j \in Wires :
             (e # "out" \/ j # Hops) /\ (e # "in" \/ j # 1) => f[e][j] = x[e][j]
    BY <1>1, <2>3
  <2> HIDE DEF f
  <2> QED
    BY <2>1, <2>2
<1> HIDE DEF w
<1>15. Len(<<0>>) = 1 /\ Len(<<>>) = 0 /\ <<0>>[1] = 0
  OBVIOUS
<1>16. XType(y)'
  <2>1. \A e \in Dir : y[e][0] = sent[e]
    BY <1>1, <1>2, <1>14
  <2>2. \A e \in Dir, j \in Wires : -1 <= y[e][j] /\ y[e][j] <= sent[e]
    <3> SUFFICES ASSUME NEW e \in Dir, NEW j \in Wires
                 PROVE  -1 <= y[e][j] /\ y[e][j] <= sent[e]
      OBVIOUS
    <3>1. CASE e = "out" /\ j = Hops
      BY <1>11, <1>14, <3>1
    <3>2. CASE e = "in" /\ j = 1
      BY <1>4, <1>14, <3>2
    <3>3. CASE (e # "out" \/ j # Hops) /\ (e # "in" \/ j # 1)
      BY <1>2, <1>14, <3>3
    <3> QED
      BY <3>1, <3>2, <3>3
  <2> QED
    BY <1>3, <1>14, <2>1, <2>2 DEF XType
<1>17. Consecutive(y)'
  <2> SUFFICES ASSUME NEW e \in Dir, NEW j \in Wires
               PROVE  Run(wire'[e][j], y[e][j])
    BY DEF Consecutive
  <2>1. CASE e = "out" /\ j = Hops - 1
    <3>1. y[e][j] = x["out"][Hops - 1]
      BY <1>1, <1>14, <2>1
    <3> QED
      BY <1>10, <1>13, <2>1, <3>1
  <2>2. CASE e = "in" /\ j = 1
    <3>1. Run(<<0>>, 0)
      BY <1>15 DEF Run
    <3> QED
      BY <1>13, <1>14, <2>2, <3>1
  <2>3. CASE e = "out" /\ j = Hops
    BY <1>1, <1>4, <1>13, <2>3, RunEmpty
  <2>4. CASE (e # "out" \/ (j # Hops - 1 /\ j # Hops)) /\ (e # "in" \/ j # 1)
    BY <1>2, <1>13, <1>14, <2>4 DEF Consecutive
  <2> QED
    BY <2>1, <2>2, <2>3, <2>4
<1>18. BrokenEmpty'
  <2> SUFFICES ASSUME NEW e \in Dir, NEW j \in Wires, Conn(e, j) \in broken
               PROVE  wire'[e][j] = <<>>
    BY <1>3 DEF BrokenEmpty
  <2>1. (e # "out" \/ j # Hops - 1) /\ (e # "in" \/ j # 1)
    BY <1>1, <1>2, <1>3 DEF BrokenEmpty
  <2> QED
    BY <1>2, <1>13, <2>1 DEF BrokenEmpty
<1>19. HeldNext(y)'
  <2> SUFFICES ASSUME NEW e \in Dir, NEW k \in Processes, copy[e][k].at = "writing"
               PROVE  /\ copy[e][k].chunk <= sent[e]
                      /\ Conn(e, k) \notin broken => copy[e][k].chunk = y[e][k] + 1
    BY <1>3 DEF HeldNext
  <2>1. y[e][k] = x[e][k]
    BY <1>1, <1>5, <1>14
  <2> QED
    BY <2>1 DEF IInv, Chain, HeldNext
<1>20. Link(y)'
  <2> SUFFICES ASSUME NEW e \in Dir, NEW k \in Processes, Linked(e, k)'
               PROVE  y[e][k - 1] - Len(wire'[e][k - 1]) = y[e][k] + Held(e, k)
    BY <1>3 DEF Link, Held
  <2>1. CASE e = "out" /\ k = Hops
    <3>1. Held(e, k) = 0 /\ y[e][k] = z
      BY <1>5, <1>14, <2>1 DEF Held
    <3>2. y[e][k - 1] = x["out"][Hops - 1] /\ Len(wire'[e][k - 1]) = Len(w) - a - 1
      BY <1>1, <1>10, <1>13, <1>14, <2>1
    <3> QED
      BY <1>8, <3>1, <3>2
  <2>2. CASE e = "in" /\ k = 1
    <3>1. Held(e, k) = 0 /\ y[e][k] = 0
      BY <1>5, <1>14, <2>2 DEF Held
    <3>2. y[e][0] = 0 /\ wire'[e][0] = <<>>
      BY <1>1, <1>2, <1>4, <1>13, <1>14, <2>2
    <3>3. Len(wire'[e][0]) = 0 /\ k - 1 = 0
      BY <1>15, <2>2, <3>2
    <3> QED
      BY <3>1, <3>2, <3>3
  <2>3. CASE (e # "out" \/ k # Hops) /\ (e # "in" \/ k # 1)
    <3>1. HopAt(e, k) # Hops
      BY <2>3, HopsAssumption DEF HopAt, Processes, Dir
    <3>2. Linked(e, k)
      BY <1>3, <1>6, <3>1 DEF Linked
    <3>3. x[e][k - 1] - Len(wire[e][k - 1]) = x[e][k] + Held(e, k)
      BY <3>2 DEF IInv, Chain, Link
    <3>4. y[e][k] = x[e][k]
      BY <1>1, <1>14, <2>3
    <3>5. CASE e = "in" /\ k - 1 = 1
      <4>1. x[e][k - 1] = -1 /\ Len(wire[e][k - 1]) = 0
        BY <1>1, <1>4, <1>12, <1>15, <3>5
      <4>2. y[e][k - 1] = 0 /\ Len(wire'[e][k - 1]) = 1
        BY <1>13, <1>14, <1>15, <3>5
      <4> QED
        BY <3>3, <3>4, <4>1, <4>2
    <3>6. CASE e # "in" \/ k - 1 # 1
      <4>1. y[e][k - 1] = x[e][k - 1] /\ wire'[e][k - 1] = wire[e][k - 1]
        BY <1>1, <1>13, <1>14, <2>3, <3>6
      <4> QED
        BY <3>3, <3>4, <4>1
    <3> QED
      BY <3>5, <3>6
  <2> QED
    BY <2>1, <2>2, <2>3
<1>21. LastLink(y)'
  <2> SUFFICES ASSUME NEW e \in Dir, Conn(e, Hops) \notin broken, ~Hasty(e)
               PROVE  y[e][Hops] - Len(wire'[e][Hops]) = Base(e)
    BY <1>3 DEF LastLink, Base, Hasty
  <2>1. x[e][Hops] - Len(wire[e][Hops]) = Base(e)
    BY DEF IInv, Chain, LastLink
  <2>2. CASE e = "out"
    <3>1. patient /\ sent["out"] = 0 /\ Base(e) = 0
      BY <1>4, <2>2 DEF Hasty, Base, IInv, Chain, Answered
    <3>2. y[e][Hops] = 0
      BY <1>11, <1>14, <2>2, <3>1
    <3>3. wire'[e][Hops] = <<>>
      BY <1>1, <1>4, <1>13, <2>2
    <3>4. Len(wire'[e][Hops]) = 0
      BY <1>15, <3>3
    <3> QED
      BY <3>1, <3>2, <3>4
  <2>3. CASE e = "in" /\ Hops = 1
    <3>1. Base(e) = -1
      BY <1>4, <2>3 DEF Base
    <3>2. y[e][Hops] = 0 /\ Len(wire'[e][Hops]) = 1
      BY <1>13, <1>14, <1>15, <2>3
    <3> QED
      BY <3>1, <3>2
  <2>4. CASE e = "in" /\ Hops # 1
    BY <1>1, <1>13, <1>14, <2>1, <2>4
  <2> QED
    BY <2>2, <2>3, <2>4 DEF Dir
<1>22. Positive(y)'
  <2>1. wire'["out"][Hops] = <<>> /\ y["out"][Hops] = z
    BY <1>1, <1>4, <1>13, <1>14
  <2> QED
    BY <1>11, <1>15, <2>1 DEF Positive
<1>23. Dialling(y)' /\ Answered'
  <2>1. hop'[Hops] = "joined"
    BY <1>1, <1>6
  <2> QED
    BY <1>3, <2>1 DEF Dialling, IInv, Chain, Answered
<1>24. Calm(y)'
  <2> SUFFICES ASSUME faults = 0 PROVE Calm(y)'
    BY <1>3 DEF Calm
  <2>1. Calm(x)
    BY DEF IInv
  <2>2. ~ended["out"][Hops] /\ ~ended["in"][1]
    BY <1>1, <1>5, <2>1 DEF Calm
  <2>3. \A e \in Dir, j \in Wires : ended[e][j] => fin[e] /\ y[e][j] = sent[e]
    BY <1>14, <2>1, <2>2 DEF Calm
  <2>4. \A e \in Dir, k \in Processes : copy[e][k].at \in {"closing", "done"} =>
          fin[e] /\ y[e][k] = sent[e] /\ ended[e][k - 1] /\ wire'[e][k - 1] = <<>>
    <3> SUFFICES ASSUME NEW e \in Dir, NEW k \in Processes, copy[e][k].at \in {"closing", "done"}
                 PROVE  fin[e] /\ y[e][k] = sent[e] /\ ended[e][k - 1] /\ wire'[e][k - 1] = <<>>
      OBVIOUS
    <3>1. fin[e] /\ x[e][k] = sent[e] /\ ended[e][k - 1] /\ wire[e][k - 1] = <<>>
      BY <2>1 DEF Calm
    <3>2. e # "in" /\ (e # "out" \/ k # Hops)
      BY <1>4, <1>5, <3>1
    <3>3. y[e][k] = x[e][k] /\ wire'[e][k - 1] = wire[e][k - 1]
      BY <1>1, <1>13, <1>14, <3>2
    <3> QED
      BY <3>1, <3>3
  <2>5. \A e \in Dir, k \in Processes : hop'[HopAt(e, k)] = "closed" => copy[e][k].at = "done"
    BY <1>6, <2>1 DEF Calm
  <2>6. broken = {} /\ \A e \in Dir, k \in Processes : ended[e][k] <=> copy[e][k].at = "done"
    BY <2>1 DEF Calm
  <2> QED
    BY <1>3, <2>3, <2>4, <2>5, <2>6 DEF Calm
<1>25. Closed'
  <2> SUFFICES ASSUME NEW e \in Dir, NEW k \in Wires, <<Conn(e, k), e>> \in closed
               PROVE  k < Hops /\ hop'[HopAt(e, k + 1)] = "closed"
    BY <1>3 DEF Closed
  <2>1. k < Hops /\ hop[HopAt(e, k + 1)] = "closed"
    BY DEF IInv, Closed
  <2>2. k + 1 \in Processes
    BY <2>1, HopsAssumption DEF Processes, Wires
  <2>3. HopAt(e, k + 1) # Hops
    BY <1>3, <2>1
  <2> QED
    BY <1>6, <2>1, <2>2, <2>3
<1> QED
  BY <1>16, <1>17, <1>18, <1>19, <1>20, <1>21, <1>22, <1>23, <1>24, <1>25 DEF IInv, Chain

\* The invariant is inductive.
LEMMA IInvStep == TypeOK /\ (\E x : IInv(x)) /\ [Next]_vars => (\E x : IInv(x))'
<1> SUFFICES ASSUME TypeOK, NEW x, IInv(x), [Next]_vars PROVE \E y : IInv(y)'
  OBVIOUS
<1>1. ASSUME NEW d \in Dir, Send(d) \/ Finish(d) \/ Receive(d) \/ SeeEnd(d) PROVE \E y : IInv(y)'
  BY <1>1, SendKeeps, FinishKeeps, ReceiveKeeps, SeeEndKeeps
<1>2. ASSUME NEW d \in Dir, NEW k \in Processes,
             CopyRead(d, k) \/ CopyWrite(d, k) \/ CopyClose(d, k)
      PROVE  \E y : IInv(y)'
  BY <1>2, CopyReadKeeps, CopyWriteKeeps, CopyCloseKeeps
<1>3. ASSUME NEW h \in Processes, Dial(h) \/ DialFails(h) \/ LetGo(h) \/ Exit(h)
      PROVE  \E y : IInv(y)'
  BY <1>3, ProcessesKeep
<1>4. CASE Establish \/ Abandon
  BY <1>4, EstablishKeeps, AbandonKeeps
<1>5. ASSUME NEW c \in {0, Hops}, Reset(c) PROVE \E y : IInv(y)'
  BY <1>5, ResetKeeps
<1>6. CASE UNCHANGED vars
  <2>1. /\ UNCHANGED <<patient, up, sent, fin, last, wire, ended>>
        /\ UNCHANGED <<broken, closed, hop, copy, faults>>
    BY <1>6 DEF vars, ends, wires
  <2>2. Cut
    BY <2>1 DEF Cut, IInv, Chain, BrokenEmpty
  <2>3. Chain(x)'
    BY <2>1, <2>2, CutKeeps DEF HopKeeps, IInv
  <2>4. Calm(x)' /\ Closed'
    BY <2>1 DEF IInv, Calm, Closed
  <2> QED
    BY <2>3, <2>4 DEF IInv
<1> QED
  BY <1>1, <1>2, <1>3, <1>4, <1>5, <1>6 DEF Next


-----------------------------------------------------------------------------
(* The refinement *)

\* Both begin alike.
LEMMA RefinesInit == Init => Plain!Init
  BY DEF Init, Plain!Init, Dir, Plain!Dir

\* What is received is the next chunk, or is the answer and no chunk.
LEMMA ReceiveRefines ==
  ASSUME TypeOK, NEW x, IInv(x), NEW d \in Dir, Receive(d)
  PROVE  Plain!Next \/ UNCHANGED Plain!duplexVars
<1> DEFINE n == Head(wire[d][Hops])
<1>1. /\ seen[d] = "no" /\ UNCHANGED <<patient, sent, fin, seen, faults>>
      /\ n = 0 => last' = last
      /\ n # 0 => last' = [last EXCEPT ![d] = n]
  BY DEF Receive
<1>2. /\ n \in Nat /\ n <= sent[d]
      /\ ~Hasty(d) => n = Base(d) + 1
      /\ n = 0 <=> (d = "in" /\ ~up)
  BY Received DEF Receive
<1>3. last[d] \in Nat /\ sent[d] \in Nat
  BY DEF TypeOK
<1> HIDE DEF n
<1>4. CASE n = 0
  BY <1>1, <1>4 DEF Plain!duplexVars
<1>5. CASE n # 0
  <2>1. n = last[d] + 1 \/ Plain!HastyStart(d)
    BY <1>2, <1>5 DEF Hasty, Base, Plain!HastyStart
  <2>2. n \in (last[d] + 1)..sent[d]
    BY <1>2, <1>3, <1>5, <2>1 DEF Plain!HastyStart
  <2>3. Plain!Receive(d)
    BY <1>1, <1>5, <2>1, <2>2 DEF Plain!Receive
  <2> QED
    BY <2>3 DEF Plain!Next, Dir, Plain!Dir
<1> QED
  BY <1>4, <1>5

\* An end that is seen comes after the last chunk, and a reset after a fault.
LEMMA SeeEndRefines ==
  ASSUME TypeOK, NEW x, IInv(x), NEW d \in Dir, SeeEnd(d)
  PROVE  Plain!SeeEnd(d)
<1>1. Hops \in Wires /\ x \in [Dir -> [Wires -> Int]] /\ sent[d] \in Nat
  BY HopsAssumption DEF Wires, IInv, Chain, XType, TypeOK
<1>2. seen[d] = "no" /\ UNCHANGED <<patient, sent, fin, last, faults>>
  BY DEF SeeEnd
<1>3. CASE AtEnd(d, Hops) /\ seen' = [seen EXCEPT ![d] = "end"]
  <2>1. ASSUME faults = 0 PROVE fin[d] /\ (last[d] = sent[d] \/ Plain!HastyStart(d))
    <3>1. fin[d] /\ x[d][Hops] = sent[d]
      BY <1>1, <1>3, <2>1 DEF AtEnd, IInv, Calm
    <3>2. ASSUME ~Hasty(d) PROVE last[d] = sent[d]
      <4>1. x[d][Hops] - Len(wire[d][Hops]) = Base(d)
        BY <1>3, <3>2 DEF AtEnd, IInv, Chain, LastLink
      <4>2. Len(wire[d][Hops]) = 0
        BY <1>3 DEF AtEnd
      <4>3. sent[d] = Base(d)
        BY <1>1, <3>1, <4>1, <4>2
      <4> QED
        BY <1>1, <4>3 DEF Base
    <3> QED
      BY <3>1, <3>2 DEF Hasty, Plain!HastyStart
  <2> QED
    BY <1>2, <1>3, <2>1 DEF Plain!SeeEnd
<1>4. CASE IsReset(d, Hops) /\ seen' = [seen EXCEPT ![d] = "reset"]
  <2>1. faults # 0
    BY <1>4 DEF IsReset, IInv, Calm
  <2> QED
    BY <1>2, <1>4, <2>1 DEF Plain!SeeEnd
<1> QED
  BY <1>3, <1>4 DEF SeeEnd

\* Every step is one of Duplex, or none.
LEMMA RefinesStep ==
  ASSUME TypeOK, NEW x, IInv(x), [Next]_vars
  PROVE  Plain!Next \/ UNCHANGED Plain!duplexVars
<1>1. ASSUME NEW d \in Dir, Send(d) \/ Finish(d) PROVE Plain!Next
  <2>1. Plain!Send(d) \/ Plain!Finish(d)
    BY <1>1 DEF Send, Finish, Plain!Send, Plain!Finish
  <2> QED
    BY <2>1 DEF Plain!Next, Dir, Plain!Dir
<1>2. ASSUME NEW d \in Dir, Receive(d) PROVE Plain!Next \/ UNCHANGED Plain!duplexVars
  BY <1>2, ReceiveRefines
<1>3. ASSUME NEW d \in Dir, SeeEnd(d) PROVE Plain!Next
  BY <1>3, SeeEndRefines DEF Plain!Next, Dir, Plain!Dir
<1>4. ASSUME NEW d \in Dir, NEW k \in Processes,
             CopyRead(d, k) \/ CopyWrite(d, k) \/ CopyClose(d, k)
      PROVE  UNCHANGED Plain!duplexVars
  BY <1>4 DEF CopyRead, CopyWrite, CopyClose, ends, Plain!duplexVars
<1>5. ASSUME NEW h \in Processes, Dial(h) \/ LetGo(h) PROVE UNCHANGED Plain!duplexVars
  BY <1>5 DEF Dial, LetGo, ends, Plain!duplexVars
<1>6. CASE Establish \/ Abandon
  BY <1>6 DEF Establish, Abandon, ends, Plain!duplexVars
<1>7. ASSUME UNCHANGED ends, faults' = faults + 1 PROVE Plain!Next
  <2>1. (faults' = 0) = FALSE
    BY <1>7 DEF TypeOK
  <2>2. Plain!Fail
    BY <1>7, <2>1 DEF Plain!Fail, ends
  <2> QED
    BY <2>2 DEF Plain!Next
<1>8. ASSUME NEW h \in Processes, DialFails(h) \/ Exit(h) PROVE Plain!Next
  BY <1>7, <1>8 DEF DialFails, Exit
<1>9. ASSUME NEW c \in {0, Hops}, Reset(c) PROVE Plain!Next
  BY <1>7, <1>9 DEF Reset
<1>10. CASE UNCHANGED vars
  BY <1>10 DEF vars, ends, Plain!duplexVars
<1> QED
  BY <1>1, <1>2, <1>3, <1>4, <1>5, <1>6, <1>8, <1>9, <1>10 DEF Next

Chained == \E x : IInv(x)

\* What the sandbox and the origin see of each other is what Duplex allows, over
\* any number of processes: each stream in order and complete, and broken off
\* early only after a reset, a failed dial or a process that has ended.
THEOREM TunnelIsDuplex == Spec => KeepsTheStreams
<1>1. Init => TypeOK /\ Chained
  BY TypeInit, ChainInit DEF Chained
<1>2. TypeOK /\ Chained /\ [Next]_vars => TypeOK' /\ Chained'
  BY TypeStep, IInvStep DEF Chained
<1>3. TypeOK /\ Chained /\ [Next]_vars => [Plain!Next]_(Plain!duplexVars)
  BY RefinesStep DEF Chained
<1> QED
  BY <1>1, <1>2, <1>3, RefinesInit, PTL DEF Spec, KeepsTheStreams, Plain!Spec
=============================================================================
