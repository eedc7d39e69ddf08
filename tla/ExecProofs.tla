----------------------------- MODULE ExecProofs -----------------------------
(***************************************************************************)
(* Theorems about ExecSession, for every number of chunks and of sizes.    *)
(*                                                                         *)
(* The argument is about what is in flight.  Frames arrive in the order    *)
(* they were sent, so that the chunks between the daemon and the client    *)
(* are at all times the ones one end has sent and the other not taken,     *)
(* each once and in order (Carries), and nothing of a kind is behind the   *)
(* frame that says there is no more of it (Seals).  Whoever takes that     *)
(* frame has therefore taken all there was (SealedIsAll): the daemon all   *)
(* input before its end, the client all output before the status.          *)
(***************************************************************************)
EXTENDS ExecSession, SequenceTheorems, TLAPS

\* The frames in flight carry the chunks after the k-th up to the last one, each
\* of them once and in order.
Carries(q, kind, k, last) ==
  /\ \A i \in 1..Len(q) : q[i].kind = kind => q[i].n \in (k + 1)..last
  /\ \A n \in (k + 1)..last : \E i \in 1..Len(q) : q[i].kind = kind /\ q[i].n = n
  /\ \A i, j \in 1..Len(q) : i < j /\ q[i].kind = kind /\ q[j].kind = kind => q[i].n < q[j].n

\* Nothing of one kind is behind a frame of another.
Seals(q, end, kind) ==
  \A i, j \in 1..Len(q) : i < j /\ q[i].kind = end => q[j].kind # kind

\* The first frame of a session is its start, and there is no other.
StartInv ==
  /\ relay = "start" => up = <<>> /\ (handler = "recvStart" \/ Gone)
  /\ relay # "start" /\ handler = "recvStart" => up # <<>>
  /\ \A i \in 1..Len(up) :
       /\ up[i].kind \in {"start", "stdin", "stdinClose", "resize"}
       /\ up[i].kind = "start" <=> (i = 1 /\ handler = "recvStart")
  /\ handler = "recvStart" => frames.at = "off"

\* How far the daemon has come.
PhaseInv ==
  /\ handler \in {"recvStart", "begin"} => cmd = "off"
  /\ handler = "running" => cmd # "off"
  /\ cmd = "running" => handler = "running"
  /\ cmd = "off" => copy = "off" /\ resizer = "off"
  /\ eof => copy = "done"
  /\ result = "exited" => handler = "returned"

\* From the terminal's opening size to the start of the command there is always one.
SizeInv ==
  /\ mode = "tty" /\ relay = "start" => sizes # <<>>
  /\ \A i \in 1..Len(up) :
       /\ up[i].kind = "resize" => up[i].n \in Sizes
       /\ up[i].kind = "start" => up[i].n \in Sizes \/ (up[i].n = NoSize /\ mode = "pipe")
  /\ frames.at = "resize" => frames.n \in Sizes
  /\ mode = "tty" /\ handler = "begin" => srvSizes # <<>>
  /\ NeverUnsized

\* Until the command has ended, what it has been handed, what waits for it and
\* what is in flight is all that was typed and read, in order.
Received == IF frames.at = "write" THEN frames.n ELSE fed
InputInv ==
  /\ relay = "done" => ~stdinOpen /\ sent = typed
  /\ \A i \in 1..Len(up) : up[i].kind = "stdinClose" => relay = "done"
  /\ Seals(up, "stdinClose", "stdin")
  /\ cmd # "ended" =>
       /\ frames.at = "write" => frames.n = fed + 1 /\ frames.n <= sent
       /\ frames.at = "done" => StreamOver
       /\ frames.at # "done" => Carries(up, "stdin", Received, sent)
       /\ pipeClosed =>
            \/ result = "lost" \/ handler = "returned"
            \/ ~stdinOpen /\ fed = typed /\ frames.at # "write"

\* As long as the client is there, the output in flight is what it has not shown
\* yet, and the exit is behind all of it.
OutputInv ==
  /\ \A i \in 1..Len(down) : down[i].kind \in {"output", "exit", "error"}
  /\ ~Gone =>
       /\ Carries(down, "output", shown, drained)
       /\ Seals(down, "exit", "output")
       /\ \A i \in 1..Len(down) :
            down[i].kind = "exit" => handler = "returned" /\ cmd = "ended" /\ drained = emitted

ExecInv == StartInv /\ PhaseInv /\ SizeInv /\ InputInv /\ OutputInv
-----------------------------------------------------------------------------
(***************************************************************************)
(* Frames in flight.                                                       *)
(***************************************************************************)
\* A frame that is sent is behind the others.
LEMMA Sent ==
  ASSUME NEW q \in Seq(Frame), NEW f \in Frame
  PROVE  /\ Append(q, f) \in Seq(Frame) /\ Append(q, f) # <<>> /\ Len(Append(q, f)) = Len(q) + 1
         /\ Len(q) \in Nat
         /\ \A i \in 1..Len(q) + 1 : Append(q, f)[i] = IF i = Len(q) + 1 THEN f ELSE q[i]
  BY AppendProperties

\* One that is received was the first.
LEMMA Taken ==
  ASSUME NEW q \in Seq(Frame), q # <<>>
  PROVE  /\ Head(q) \in Frame /\ Head(q) = q[1] /\ Tail(q) \in Seq(Frame)
         /\ Len(q) \in Nat \ {0} /\ Len(Tail(q)) = Len(q) - 1
         /\ \A i \in 1..Len(q) - 1 : Tail(q)[i] = q[i + 1]
  BY HeadTailProperties, EmptySeq

\* The next chunk carries on the sequence in flight.
LEMMA CarriesMore ==
  ASSUME NEW q \in Seq(Frame), NEW kind, NEW k \in Nat, NEW last \in Nat, k <= last,
         Carries(q, kind, k, last), NEW f \in Frame, f.kind = kind, f.n = last + 1
  PROVE  Carries(Append(q, f), kind, k, last + 1)
  <1> DEFINE r == Append(q, f)
  <1>1. /\ Len(r) = Len(q) + 1 /\ Len(q) \in Nat
        /\ \A i \in 1..Len(q) : r[i] = q[i]
        /\ r[Len(q) + 1] = f
    BY Sent
  <1> HIDE DEF r
  <1>2. \A i \in 1..Len(r) : r[i].kind = kind => r[i].n \in (k + 1)..last + 1
    <2>1. TAKE i \in 1..Len(r)
    <2>2. CASE i = Len(q) + 1
      BY <1>1, <2>2
    <2>3. CASE i \in 1..Len(q)
      BY <1>1, <2>3 DEF Carries
    <2>4. QED BY <1>1, <2>2, <2>3
  <1>3. ASSUME NEW n \in (k + 1)..last + 1
        PROVE  \E i \in 1..Len(r) : r[i].kind = kind /\ r[i].n = n
    <2>1. CASE n = last + 1
      BY <1>1, <2>1
    <2>2. CASE n \in (k + 1)..last
      <3>1. PICK i \in 1..Len(q) : q[i].kind = kind /\ q[i].n = n
        BY <2>2 DEF Carries
      <3>2. QED BY <1>1, <3>1
    <2>3. QED BY <1>3, <2>1, <2>2
  <1>4. ASSUME NEW i \in 1..Len(r), NEW j \in 1..Len(r), i < j, r[i].kind = kind, r[j].kind = kind
        PROVE  r[i].n < r[j].n
    <2>1. i \in 1..Len(q) /\ r[i] = q[i] /\ q[i].n \in (k + 1)..last
      BY <1>1, <1>4 DEF Carries
    <2>2. CASE j = Len(q) + 1
      BY <1>1, <2>1, <2>2
    <2>3. CASE j \in 1..Len(q)
      BY <1>1, <1>4, <2>1, <2>3 DEF Carries
    <2>4. QED BY <1>1, <2>2, <2>3
  <1>5. QED BY <1>2, <1>3, <1>4 DEF Carries, r

\* A frame of another kind does not disturb it.
LEMMA CarriesStill ==
  ASSUME NEW q \in Seq(Frame), NEW kind, NEW k \in Nat, NEW last \in Nat,
         Carries(q, kind, k, last), NEW f \in Frame, f.kind # kind
  PROVE  Carries(Append(q, f), kind, k, last)
  <1> DEFINE r == Append(q, f)
  <1>1. /\ Len(r) = Len(q) + 1 /\ Len(q) \in Nat
        /\ \A i \in 1..Len(q) : r[i] = q[i]
        /\ r[Len(q) + 1] = f
    BY Sent
  <1> HIDE DEF r
  <1>2. \A i \in 1..Len(r) : r[i].kind = kind => i \in 1..Len(q)
    BY <1>1
  <1>3. ASSUME NEW n \in (k + 1)..last
        PROVE  \E i \in 1..Len(r) : r[i].kind = kind /\ r[i].n = n
    <2>1. PICK i \in 1..Len(q) : q[i].kind = kind /\ q[i].n = n
      BY DEF Carries
    <2>2. QED BY <1>1, <2>1
  <1>4. \A i \in 1..Len(r) : r[i].kind = kind => r[i].n \in (k + 1)..last
    BY <1>1, <1>2 DEF Carries
  <1>5. \A i, j \in 1..Len(r) : i < j /\ r[i].kind = kind /\ r[j].kind = kind => r[i].n < r[j].n
    BY <1>1, <1>2 DEF Carries
  <1>6. QED BY <1>3, <1>4, <1>5 DEF Carries, r

\* The first chunk in flight is the next one.
LEMMA CarriesNext ==
  ASSUME NEW q \in Seq(Frame), q # <<>>, NEW kind, NEW k \in Nat, NEW last \in Nat,
         Carries(q, kind, k, last), Head(q).kind = kind
  PROVE  /\ Head(q).n = k + 1 /\ k + 1 <= last
         /\ Carries(Tail(q), kind, k + 1, last)
  <1> DEFINE r == Tail(q)
  <1>1. /\ Len(q) \in Nat \ {0} /\ Len(r) = Len(q) - 1 /\ Head(q) = q[1]
        /\ \A i \in 1..Len(r) : r[i] = q[i + 1] /\ i + 1 \in 1..Len(q) /\ i + 1 > 1
    BY Taken
  <1> HIDE DEF r
  <1>2. 1 \in 1..Len(q) /\ q[1].n \in (k + 1)..last
    BY <1>1 DEF Carries
  <1>3. PICK h \in 1..Len(q) : q[h].kind = kind /\ q[h].n = k + 1
    BY <1>2 DEF Carries
  <1>4. q[1].n = k + 1
    <2>1. CASE h = 1
      BY <1>3, <2>1
    <2>2. CASE h # 1
      BY <1>1, <1>2, <1>3, <2>2 DEF Carries
    <2>3. QED BY <2>1, <2>2
  <1>5. ASSUME NEW i \in 1..Len(r), r[i].kind = kind PROVE r[i].n \in (k + 2)..last
    <2>1. i + 1 \in 1..Len(q) /\ 1 < i + 1 /\ q[i + 1].kind = kind /\ r[i] = q[i + 1]
      BY <1>1, <1>5
    <2>2. q[1].n < q[i + 1].n /\ q[i + 1].n \in (k + 1)..last
      BY <1>1, <1>2, <2>1 DEF Carries
    <2>3. QED BY <1>4, <2>1, <2>2
  <1>6. ASSUME NEW n \in (k + 2)..last PROVE \E i \in 1..Len(r) : r[i].kind = kind /\ r[i].n = n
    <2>1. PICK i \in 1..Len(q) : q[i].kind = kind /\ q[i].n = n
      BY DEF Carries
    <2>2. i - 1 \in 1..Len(r) /\ r[i - 1] = q[i]
      BY <1>1, <1>4, <2>1
    <2>3. QED BY <2>1, <2>2
  <1>7. ASSUME NEW i \in 1..Len(r), NEW j \in 1..Len(r), i < j, r[i].kind = kind, r[j].kind = kind
        PROVE  r[i].n < r[j].n
    <2>1. i + 1 \in 1..Len(q) /\ j + 1 \in 1..Len(q) /\ i + 1 < j + 1
      BY <1>1, <1>7
    <2>2. q[i + 1].kind = kind /\ q[j + 1].kind = kind
      BY <1>1, <1>7
    <2>3. q[i + 1].n < q[j + 1].n
      BY <2>1, <2>2 DEF Carries
    <2>4. QED BY <1>1, <2>3
  <1>8. k + 1 + 1 = k + 2
    OBVIOUS
  <1>9. QED BY <1>1, <1>2, <1>4, <1>5, <1>6, <1>7, <1>8 DEF Carries, r

\* Taking a frame of another kind leaves the chunks in flight.
LEMMA CarriesBehind ==
  ASSUME NEW q \in Seq(Frame), q # <<>>, NEW kind, NEW k \in Nat, NEW last \in Nat,
         Carries(q, kind, k, last), Head(q).kind # kind
  PROVE  Carries(Tail(q), kind, k, last)
  <1> DEFINE r == Tail(q)
  <1>1. /\ Len(q) \in Nat \ {0} /\ Len(r) = Len(q) - 1 /\ Head(q) = q[1]
        /\ \A i \in 1..Len(r) : r[i] = q[i + 1] /\ i + 1 \in 1..Len(q)
    BY Taken
  <1> HIDE DEF r
  <1>2. ASSUME NEW n \in (k + 1)..last PROVE \E i \in 1..Len(r) : r[i].kind = kind /\ r[i].n = n
    <2>1. PICK i \in 1..Len(q) : q[i].kind = kind /\ q[i].n = n
      BY DEF Carries
    <2>2. i - 1 \in 1..Len(r) /\ r[i - 1] = q[i]
      BY <1>1, <2>1
    <2>3. QED BY <2>1, <2>2
  <1>3. \A i \in 1..Len(r) : r[i].kind = kind => r[i].n \in (k + 1)..last
    BY <1>1 DEF Carries
  <1>4. ASSUME NEW i \in 1..Len(r), NEW j \in 1..Len(r), i < j, r[i].kind = kind, r[j].kind = kind
        PROVE  r[i].n < r[j].n
    <2>1. i + 1 \in 1..Len(q) /\ j + 1 \in 1..Len(q) /\ i + 1 < j + 1
      BY <1>1, <1>4
    <2>2. q[i + 1].kind = kind /\ q[j + 1].kind = kind
      BY <1>1, <1>4
    <2>3. q[i + 1].n < q[j + 1].n
      BY <2>1, <2>2 DEF Carries
    <2>4. QED BY <1>1, <2>3
  <1>5. QED BY <1>2, <1>3, <1>4 DEF Carries, r

\* Behind the last frame of all there is nothing left in flight.
LEMMA SealedIsAll ==
  ASSUME NEW q \in Seq(Frame), q # <<>>, NEW kind, NEW k \in Nat, NEW last \in Nat, k <= last,
         Carries(q, kind, k, last), NEW end, end # kind, Head(q).kind = end, Seals(q, end, kind)
  PROVE  k = last
  <1>1. SUFFICES ASSUME k < last PROVE FALSE
    OBVIOUS
  <1>2. Len(q) \in Nat \ {0} /\ Head(q) = q[1]
    BY Taken
  <1>3. k + 1 \in (k + 1)..last
    BY <1>1
  <1>4. PICK i \in 1..Len(q) : q[i].kind = kind /\ q[i].n = k + 1
    BY <1>3 DEF Carries
  <1>5. QED BY <1>2, <1>4 DEF Seals

\* A frame may be sent unless it is sealed off,
LEMMA SealsSent ==
  ASSUME NEW q \in Seq(Frame), NEW end, NEW kind, Seals(q, end, kind), NEW f \in Frame,
         f.kind = kind => \A i \in 1..Len(q) : q[i].kind # end
  PROVE  Seals(Append(q, f), end, kind)
  BY Sent DEF Seals

\* and taking one breaks no seal.
LEMMA SealsTaken ==
  ASSUME NEW q \in Seq(Frame), q # <<>>, NEW end, NEW kind, Seals(q, end, kind)
  PROVE  Seals(Tail(q), end, kind)
  BY Taken DEF Seals
-----------------------------------------------------------------------------
(***************************************************************************)
(* The invariant, one part at a time.                                      *)
(***************************************************************************)
\* What is asked of every state, type and all.
Good == TypeOK /\ ExecInv

\* A channel that is empty,
LEMMA EmptyChannel == <<>> \in Seq(Sizes) /\ Len(<<>>) = 0 /\ Len(<<>>) <= 1
  OBVIOUS

\* and one that holds a size.
LEMMA FullChannel ==
  ASSUME NEW s \in Sizes
  PROVE  <<s>> \in Seq(Sizes) /\ Len(<<s>>) = 1 /\ Len(<<s>>) <= 1 /\ <<s>> # <<>> /\ Head(<<s>>) = s
  OBVIOUS

\* A size is not the absence of one.
LEMMA SizeIs ==
  ASSUME NEW s \in Sizes
  PROVE  s \in Nat /\ s # NoSize
  BY BoundsAssumption DEF Sizes, NoSize

\* What is taken out of a channel is a size.
LEMMA FirstOfChannel ==
  ASSUME NEW q \in Seq(Sizes), q # <<>>
  PROVE  Head(q) \in Sizes /\ Head(q) \in Nat /\ Head(q) # NoSize
  <1>1. Head(q) \in Sizes
    OBVIOUS
  <1>2. QED BY <1>1, SizeIs

\* A place is a place.
LEMMA PlaceIs ==
  ASSUME NEW where, NEW n
  PROVE  At(where, n).at = where /\ At(where, n).n = n
  BY DEF At

\* The numbers of a session are natural.
LEMMA Counts ==
  ASSUME TypeOK
  PROVE  /\ typed \in Nat /\ sent \in Nat /\ sent <= typed /\ fed \in Nat /\ fed <= sent
         /\ emitted \in Nat /\ drained \in Nat /\ drained <= emitted
         /\ shown \in Nat /\ shown <= drained
         /\ size \in Nat /\ held \in Nat /\ frames.n \in Nat
         /\ up \in Seq(Frame) /\ down \in Seq(Frame)
         /\ Received \in Nat
  BY BoundsAssumption DEF TypeOK, Sizes, NoSize, Received

\* A frame for the daemon, or for the client, is one.
LEMMA Framed ==
  ASSUME TypeOK, NEW n \in Nat,
         NEW kind \in {"start", "stdin", "stdinClose", "resize", "output", "exit", "error"}
  PROVE  /\ [kind |-> kind, n |-> n] \in Frame
         /\ Append(up, [kind |-> kind, n |-> n]) \in Seq(Frame)
         /\ Append(down, [kind |-> kind, n |-> n]) \in Seq(Frame)
  BY Counts, Sent DEF Frame

\* The frames the daemon takes after the start.
LEMMA FrameIs ==
  ASSUME TypeOK, StartInv, RecvFrame
  PROVE  /\ frames.at = "recv" /\ up # <<>> /\ up' = Tail(up) /\ Head(up).n \in Nat
         /\ Head(up) = up[1] /\ 1 \in 1..Len(up)
         /\ \/ Head(up).kind = "stdin" /\ frames' = At("write", Head(up).n) /\ pipeClosed' = pipeClosed
            \/ Head(up).kind = "resize" /\ frames' = At("resize", Head(up).n) /\ pipeClosed' = pipeClosed
            \/ Head(up).kind = "stdinClose" /\ pipeClosed' = TRUE /\ frames' = frames
  <1>1. frames.at = "recv" /\ up # <<>> /\ up' = Tail(up)
    BY DEF RecvFrame
  <1>2. Head(up) = up[1] /\ 1 \in 1..Len(up) /\ Head(up).n \in Nat
    BY <1>1, Counts, Taken DEF Frame
  <1>3. Head(up).kind \in {"stdin", "resize", "stdinClose"}
    BY <1>1, <1>2 DEF StartInv
  <1>4. \/ Head(up).kind = "stdin" /\ frames' = At("write", Head(up).n) /\ UNCHANGED pipeClosed
        \/ Head(up).kind = "resize" /\ frames' = At("resize", Head(up).n) /\ UNCHANGED pipeClosed
        \/ Head(up).kind = "stdinClose" /\ pipeClosed' = TRUE /\ UNCHANGED frames
    BY <1>3 DEF RecvFrame
  <1>5. QED BY <1>1, <1>2, <1>4

\* The frames the client takes.
LEMMA ReplyIs ==
  ASSUME TypeOK, OutputInv, Receive
  PROVE  /\ ~Gone /\ down # <<>> /\ down' = Tail(down) /\ Head(down) = down[1] /\ 1 \in 1..Len(down)
         /\ \/ /\ Head(down).kind = "output" /\ shown' = shown + 1 /\ shown' <= drained
               /\ result' = result
            \/ Head(down).kind = "exit" /\ result' = "exited" /\ shown' = shown
            \/ Head(down).kind = "error" /\ result' = "lost" /\ shown' = shown
  <1>1. ~Gone /\ down # <<>> /\ down' = Tail(down)
    BY DEF Receive
  <1>2. Head(down) = down[1] /\ 1 \in 1..Len(down)
    BY <1>1, Counts, Taken
  <1>3. Head(down).kind \in {"output", "exit", "error"}
    BY <1>2 DEF OutputInv
  <1>4. \/ Head(down).kind = "output" /\ shown' = Head(down).n /\ UNCHANGED result
        \/ Head(down).kind = "exit" /\ result' = "exited" /\ UNCHANGED shown
        \/ Head(down).kind = "error" /\ result' = "lost" /\ UNCHANGED shown
    BY <1>3 DEF Receive
  <1>5. Head(down).kind = "output" => Head(down).n = shown + 1 /\ shown + 1 <= drained
    BY <1>1, Counts, CarriesNext DEF OutputInv
  <1>6. QED BY <1>1, <1>2, <1>4, <1>5

\* What the daemon takes first.
LEMMA StartIs ==
  ASSUME TypeOK, StartInv, SizeInv, RecvStart
  PROVE  /\ handler = "recvStart" /\ up # <<>> /\ up' = Tail(up)
         /\ Head(up) = up[1] /\ 1 \in 1..Len(up) /\ Head(up).kind = "start"
         /\ \/ Head(up).n = NoSize /\ mode = "pipe" /\ srvSizes' = <<>>
            \/ Head(up).n \in Sizes /\ srvSizes' = <<Head(up).n>>
  <1>1. handler = "recvStart" /\ up # <<>> /\ up' = Tail(up)
    BY DEF RecvStart
  <1>2. Head(up) = up[1] /\ 1 \in 1..Len(up)
    BY <1>1, Counts, Taken
  <1>3. up[1].kind = "start"
    BY <1>1, <1>2 DEF StartInv
  <1>4. (Head(up).n = NoSize /\ mode = "pipe") \/ Head(up).n \in Sizes
    BY <1>2, <1>3 DEF SizeInv
  <1>5. QED BY <1>1, <1>2, <1>3, <1>4, SizeIs DEF RecvStart

\* The types, sorted.
Flags == stdinOpen \in BOOLEAN /\ winch \in BOOLEAN /\ pipeClosed \in BOOLEAN /\ eof \in BOOLEAN
Numbers ==
  /\ typed \in 0..MaxInput /\ sent \in 0..typed /\ fed \in 0..sent
  /\ emitted \in 0..MaxOutput /\ drained \in 0..emitted /\ shown \in 0..drained
  /\ size \in Sizes /\ held \in Sizes \cup {NoSize} /\ ptySize \in Sizes \cup {NoSize}
Phases ==
  /\ mode \in Modes
  /\ relay \in {"start", "reading", "done"}
  /\ handler \in {"recvStart", "begin", "running", "returned"}
  /\ frames \in [at : {"off", "recv", "write", "resize", "done"}, n : Nat]
  /\ copy \in {"off", "reading", "done"} /\ resizer \in {"off", "on", "done"}
  /\ cmd \in {"off", "running", "ended"}
  /\ result \in {"none", "exited", "lost"}
Channels ==
  /\ sizes \in Seq(Sizes) /\ Len(sizes) <= 1
  /\ srvSizes \in Seq(Sizes) /\ Len(srvSizes) <= 1
  /\ up \in Seq(Frame) /\ down \in Seq(Frame)

\* They are all of it.
LEMMA TypeParts == TypeOK <=> Flags /\ Numbers /\ Phases /\ Channels
  BY DEF TypeOK, Flags, Numbers, Phases, Channels

\* A flag is set or cleared,
LEMMA FlagsStep ==
  ASSUME Good, Next
  PROVE  Flags'
  <1> USE DEF inputVars, clientVars, commandVars, serverVars
  <1>0. Flags
    BY TypeParts DEF Good
  <1>1. CASE User
    BY <1>0, <1>1 DEF Flags, User, Type, CloseStdin, ResizeWindow, Die
  <1>2. CASE Terminal
    BY <1>0, <1>2 DEF Flags, Terminal, TakeWinch, PutSize
  <1>3. CASE SendStart \/ StdinRelay \/ RelayResize \/ Receive
    BY <1>0, <1>3 DEF Flags, SendStart, StdinRelay, RelayStdin, RelayClose, RelayResize, Receive
  <1>4. CASE Handler
    BY <1>0, <1>4 DEF Flags, Handler, RecvStart, NoStart, Begin, BeginFails, Finish
  <1>5. CASE RecvFrame
    <2>1. pipeClosed' \in {TRUE, pipeClosed}
      BY <1>5, FrameIs DEF Good, ExecInv
    <2>2. QED BY <1>0, <1>5, <2>1 DEF Flags, RecvFrame
  <1>6. CASE RecvFails \/ QueueSize \/ QueueSizeCancelled
    BY <1>0, <1>6 DEF Flags, RecvFails, FramesDone, QueueSize, QueueSizeCancelled
  <1>7. CASE InputCopy
    BY <1>0, <1>7 DEF Flags, InputCopy, CopyInputFails, CopyEnds
  <1>8. CASE SizeCopy \/ Drain \/ Kill \/ Command
    BY <1>0, <1>8 DEF Flags, SizeCopy, Resize, ResizerEnds, Drain, Kill, Command, CopyInput, Emit, CommandEnds
  <1>9. QED BY <1>1, <1>2, <1>3, <1>4, <1>5, <1>6, <1>7, <1>8 DEF Next, Goroutines, ServeFrames

\* the numbers stay in order,
LEMMA NumbersStep ==
  ASSUME Good, Next
  PROVE  Numbers'
  <1> USE DEF inputVars, clientVars, commandVars, serverVars
  <1>0. Numbers /\ MaxInput \in Nat /\ MaxOutput \in Nat /\ MaxSize \in Nat
    BY TypeParts, BoundsAssumption DEF Good
  <1>1. CASE User
    BY <1>0, <1>1 DEF Numbers, Sizes, NoSize, User, Type, CloseStdin, ResizeWindow, Die
  <1>2. CASE Terminal
    BY <1>0, <1>2 DEF Numbers, Terminal, TakeWinch, PutSize
  <1>3. CASE SendStart \/ StdinRelay \/ RelayResize
    BY <1>0, <1>3 DEF Numbers, SendStart, StdinRelay, RelayStdin, RelayClose, RelayResize
  <1>4. CASE Receive
    <2>1. shown' = shown \/ (shown' = shown + 1 /\ shown' <= drained)
      BY <1>4, ReplyIs DEF Good, ExecInv
    <2>2. QED BY <1>0, <1>4, <2>1 DEF Numbers, Receive
  <1>5. CASE Begin
    <2>1. ptySize' \in Sizes \cup {NoSize}
      BY <1>0, <1>5, FirstOfChannel DEF Good, TypeOK, Begin, Numbers
    <2>2. QED BY <1>0, <1>5, <2>1 DEF Numbers, Begin
  <1>6. CASE RecvStart \/ NoStart \/ BeginFails \/ Finish
    BY <1>0, <1>6 DEF Numbers, RecvStart, NoStart, BeginFails, Finish
  <1>7. CASE ServeFrames \/ InputCopy
    BY <1>0, <1>7 DEF Numbers, ServeFrames, RecvFrame, RecvFails, FramesDone, QueueSize,
       QueueSizeCancelled, InputCopy, CopyInputFails, CopyEnds
  <1>8. CASE SizeCopy
    <2>1. ptySize' \in Sizes \cup {NoSize}
      BY <1>0, <1>8, FirstOfChannel DEF Good, TypeOK, SizeCopy, Resize, ResizerEnds, Numbers
    <2>2. QED BY <1>0, <1>8, <2>1 DEF Numbers, SizeCopy, Resize, ResizerEnds
  <1>9. CASE CopyInput
    <2>1. fed' = frames.n /\ frames.n = fed + 1 /\ frames.n <= sent
      BY <1>9 DEF CopyInput, Good, ExecInv, InputInv
    <2>2. QED BY <1>0, <1>9, <2>1 DEF Numbers, CopyInput
  <1>10. CASE Drain \/ Kill \/ Emit \/ CommandEnds
    BY <1>0, <1>10 DEF Numbers, Drain, Kill, Emit, CommandEnds
  <1>11. QED BY <1>1, <1>2, <1>3, <1>4, <1>5, <1>6, <1>7, <1>8, <1>9, <1>10
           DEF Next, Goroutines, Handler, Command

\* everyone is at one of its places,
LEMMA PhasesStep ==
  ASSUME Good, Next
  PROVE  Phases'
  <1> USE DEF inputVars, clientVars, commandVars, serverVars
  <1>0. Phases
    BY TypeParts DEF Good
  <1>1. CASE User \/ Terminal \/ SendStart \/ StdinRelay \/ RelayResize
    BY <1>0, <1>1 DEF Phases, User, Type, CloseStdin, ResizeWindow, Die, Terminal, TakeWinch,
       PutSize, SendStart, StdinRelay, RelayStdin, RelayClose, RelayResize
  <1>2. CASE Receive
    <2>1. result' \in {result, "exited", "lost"}
      BY <1>2, ReplyIs DEF Good, ExecInv
    <2>2. QED BY <1>0, <1>2, <2>1 DEF Phases, Receive
  <1>3. CASE Handler
    BY <1>0, <1>3 DEF Phases, Handler, RecvStart, NoStart, Begin, BeginFails, Finish, At
  <1>4. CASE RecvFrame
    <2>1. \/ frames' = At("write", Head(up).n)
          \/ frames' = At("resize", Head(up).n)
          \/ frames' = frames
      BY <1>4, FrameIs DEF Good, ExecInv
    <2>2. Head(up).n \in Nat
      BY <1>4, FrameIs DEF Good, ExecInv
    <2>3. frames' \in [at : {"off", "recv", "write", "resize", "done"}, n : Nat]
      BY <1>0, <2>1, <2>2 DEF At, Phases
    <2>4. QED BY <1>0, <1>4, <2>3 DEF Phases, RecvFrame
  <1>5. CASE RecvFails \/ QueueSize \/ QueueSizeCancelled
    BY <1>0, <1>5 DEF Phases, RecvFails, FramesDone, QueueSize, QueueSizeCancelled, At
  <1>6. CASE InputCopy \/ SizeCopy \/ Drain
    BY <1>0, <1>6 DEF Phases, InputCopy, CopyInputFails, CopyEnds, SizeCopy, Resize, ResizerEnds,
       Drain, At
  <1>7. CASE Kill \/ Command
    BY <1>0, <1>7 DEF Phases, Kill, Command, CopyInput, Emit, CommandEnds, At
  <1>8. QED BY <1>1, <1>2, <1>3, <1>4, <1>5, <1>6, <1>7 DEF Next, Goroutines, ServeFrames

\* and what is sent are sizes and frames.
LEMMA ChannelsStep ==
  ASSUME Good, Next
  PROVE  Channels'
  <1> USE DEF inputVars, clientVars, commandVars, serverVars
  <1>0. Channels /\ TypeOK
    BY TypeParts DEF Good
  <1>1. CASE User \/ TakeWinch
    BY <1>0, <1>1 DEF Channels, User, Type, CloseStdin, ResizeWindow, Die, TakeWinch
  <1>2. CASE PutSize
    <2>1. sizes' \in Seq(Sizes) /\ Len(sizes') <= 1
      <3>1. sizes' = <<held>> /\ held \in Sizes
        BY <1>0, <1>2 DEF PutSize, TypeOK
      <3>2. QED BY <3>1, FullChannel
    <2>2. QED BY <1>0, <1>2, <2>1 DEF Channels, PutSize
  <1>3. CASE SendStart \/ RelayResize
    <2>1. sizes' \in Seq(Sizes) /\ Len(sizes') <= 1
      BY <1>3, EmptyChannel DEF SendStart, RelayResize
    <2>2. sizes # <<>> => Head(sizes) \in Nat
      BY <1>0, FirstOfChannel DEF TypeOK
    <2>3. up' \in Seq(Frame)
      <3>1. CASE SendStart
        <4>1. FirstSize \in Nat
          BY <2>2 DEF FirstSize, NoSize
        <4>2. QED BY <1>0, <3>1, <4>1, Framed DEF SendStart, Send
      <3>2. CASE RelayResize
        BY <1>0, <2>2, <3>2, Framed DEF RelayResize, Send
      <3>3. QED BY <1>3, <3>1, <3>2
    <2>4. QED BY <1>0, <1>3, <2>1, <2>3 DEF Channels, SendStart, RelayResize
  <1>4. CASE StdinRelay
    <2>1. up' \in Seq(Frame)
      <3>1. sent + 1 \in Nat
        BY <1>0, Counts
      <3>2. QED BY <1>0, <1>4, <3>1, Framed DEF StdinRelay, RelayStdin, RelayClose, Send
    <2>2. QED BY <1>0, <1>4, <2>1 DEF Channels, StdinRelay, RelayStdin, RelayClose
  <1>5. CASE Receive
    <2>1. down' \in Seq(Frame)
      BY <1>0, <1>5, Counts, Taken DEF Receive
    <2>2. QED BY <1>0, <1>5, <2>1 DEF Channels, Receive
  <1>6. CASE RecvStart
    <2>1. up # <<>> /\ up' = Tail(up)
      BY <1>6 DEF RecvStart
    <2>2. up' \in Seq(Frame)
      BY <1>0, <2>1, Counts, Taken
    <2>3. srvSizes' = <<>> \/ (Head(up).n \in Sizes /\ srvSizes' = <<Head(up).n>>)
      BY <1>0, <1>6, StartIs DEF Good, ExecInv
    <2>4. srvSizes' \in Seq(Sizes) /\ Len(srvSizes') <= 1
      BY <2>3, EmptyChannel, FullChannel
    <2>5. QED BY <1>0, <1>6, <2>2, <2>4 DEF Channels, RecvStart
  <1>7. CASE Begin
    <2>1. srvSizes' = srvSizes \/ srvSizes' = <<>>
      BY <1>7 DEF Begin
    <2>2. srvSizes' \in Seq(Sizes) /\ Len(srvSizes') <= 1
      BY <1>0, <2>1, EmptyChannel DEF Channels
    <2>3. QED BY <1>0, <1>7, <2>2 DEF Channels, Begin
  <1>8. CASE BeginFails \/ Finish \/ Drain
    <2>1. down' \in Seq(Frame)
      <3>1. drained + 1 \in Nat
        BY <1>0, Counts
      <3>2. QED BY <1>0, <1>8, <3>1, Framed DEF BeginFails, Finish, Drain, Reply
    <2>2. QED BY <1>0, <1>8, <2>1 DEF Channels, BeginFails, Finish, Drain
  <1>9. CASE RecvFrame
    <2>1. up' \in Seq(Frame)
      BY <1>0, <1>9, Counts, Taken DEF RecvFrame
    <2>2. QED BY <1>0, <1>9, <2>1 DEF Channels, RecvFrame
  <1>10. CASE QueueSize
    <2>1. srvSizes' \in Seq(Sizes) /\ Len(srvSizes') <= 1
      <3>1. frames.n \in Sizes /\ srvSizes' = <<frames.n>>
        BY <1>10 DEF QueueSize, Good, ExecInv, SizeInv
      <3>2. QED BY <3>1, FullChannel
    <2>2. QED BY <1>0, <1>10, <2>1 DEF Channels, QueueSize
  <1>11. CASE SizeCopy
    <2>1. srvSizes' = srvSizes \/ srvSizes' = <<>>
      BY <1>11 DEF SizeCopy, Resize, ResizerEnds
    <2>2. srvSizes' \in Seq(Sizes) /\ Len(srvSizes') <= 1
      BY <1>0, <2>1, EmptyChannel DEF Channels
    <2>3. QED BY <1>0, <1>11, <2>2 DEF Channels, SizeCopy, Resize, ResizerEnds
  <1>12. CASE NoStart \/ RecvFails \/ QueueSizeCancelled \/ InputCopy \/ Kill \/ Command
    BY <1>0, <1>12 DEF Channels, NoStart, RecvFails, QueueSizeCancelled, FramesDone, InputCopy,
       CopyInputFails, CopyEnds, Kill, Command, CopyInput, Emit, CommandEnds
  <1>13. QED BY <1>1, <1>2, <1>3, <1>4, <1>5, <1>6, <1>7, <1>8, <1>9, <1>10, <1>11, <1>12
           DEF Next, Goroutines, Terminal, Handler, ServeFrames

\* so that every variable keeps its type.
LEMMA TypeStep ==
  ASSUME Good, Next
  PROVE  TypeOK'
  BY FlagsStep, NumbersStep, PhasesStep, ChannelsStep DEF TypeOK, Flags, Numbers, Phases, Channels

\* The handler has started the command, and waited for it.
LEMMA PhaseStep ==
  ASSUME Good, Next
  PROVE  PhaseInv'
  <1> USE DEF inputVars, clientVars, commandVars, serverVars
  <1>0. PhaseInv /\ OutputInv /\ TypeOK /\ SizeInv
    BY DEF Good, ExecInv
  <1>1. CASE User \/ Terminal \/ SendStart \/ StdinRelay \/ RelayResize
    BY <1>0, <1>1 DEF PhaseInv, User, Type, CloseStdin, ResizeWindow, Die, Terminal, TakeWinch,
       PutSize, SendStart, StdinRelay, RelayStdin, RelayClose, RelayResize
  <1>2. CASE Receive
    <2>1. result' = "exited" => handler = "returned"
      BY <1>0, <1>2, ReplyIs DEF OutputInv, PhaseInv
    <2>2. QED BY <1>0, <1>2, <2>1 DEF PhaseInv, Receive
  <1>3. CASE Handler
    BY <1>0, <1>3 DEF PhaseInv, Handler, RecvStart, NoStart, Begin, BeginFails, Finish
  <1>4. CASE ServeFrames
    <2>1. UNCHANGED <<handler, cmd, copy, resizer, eof, result>>
      BY <1>4 DEF ServeFrames, RecvFrame, RecvFails, FramesDone, QueueSize, QueueSizeCancelled
    <2>2. QED BY <1>0, <2>1 DEF PhaseInv
  <1>5. CASE InputCopy
    BY <1>0, <1>5 DEF PhaseInv, InputCopy, CopyInputFails, CopyEnds
  <1>6. CASE SizeCopy \/ Drain
    BY <1>0, <1>6 DEF PhaseInv, SizeCopy, Resize, ResizerEnds, Drain
  <1>7. CASE Kill \/ Command
    BY <1>0, <1>7 DEF PhaseInv, Kill, Command, CopyInput, Emit, CommandEnds
  <1>8. QED BY <1>1, <1>2, <1>3, <1>4, <1>5, <1>6, <1>7 DEF Next, Goroutines

\* The frames in flight after one is sent to the daemon.
LEMMA UpSent ==
  ASSUME TypeOK, NEW n \in Nat, NEW kind \in {"start", "stdin", "stdinClose", "resize"}, Send(kind, n)
  PROVE  /\ [kind |-> kind, n |-> n] \in Frame
         /\ up' = Append(up, [kind |-> kind, n |-> n]) /\ up' # <<>>
         /\ Len(up) \in Nat /\ Len(up') = Len(up) + 1
         /\ \A i \in 1..Len(up) : up'[i] = up[i]
         /\ up'[Len(up) + 1].kind = kind /\ up'[Len(up) + 1].n = n
  <1>1. up' = Append(up, [kind |-> kind, n |-> n]) /\ [kind |-> kind, n |-> n] \in Frame
    BY Framed DEF Send
  <1>2. up \in Seq(Frame)
    BY Counts
  <1>3. QED BY <1>1, <1>2, Sent

\* The frames in flight after the daemon has taken one.
LEMMA UpTaken ==
  ASSUME TypeOK, up # <<>>, up' = Tail(up)
  PROVE  /\ Len(up) \in Nat \ {0} /\ Len(up') = Len(up) - 1
         /\ \A i \in 1..Len(up') : up'[i] = up[i + 1] /\ i + 1 \in 1..Len(up) /\ i + 1 # 1
  <1>1. up \in Seq(Frame)
    BY Counts
  <1>2. /\ Len(up) \in Nat \ {0} /\ Len(up') = Len(up) - 1
        /\ \A i \in 1..Len(up) - 1 : up'[i] = up[i + 1]
    BY <1>1, Taken
  <1>3. QED BY <1>2

\* The start is the first frame, until the daemon has taken it.
LEMMA StartStep ==
  ASSUME Good, Next
  PROVE  StartInv'
  <1> USE DEF inputVars, clientVars, commandVars, serverVars
  <1>0. StartInv /\ TypeOK /\ SizeInv /\ InputInv /\ OutputInv
    BY DEF Good, ExecInv
  <1>1. CASE User \/ Terminal
    BY <1>0, <1>1 DEF StartInv, Gone, User, Type, CloseStdin, ResizeWindow, Die, Terminal, TakeWinch,
       PutSize
  <1>2. CASE SendStart
    <2>1. FirstSize \in Nat
      BY <1>0, FirstOfChannel DEF FirstSize, NoSize, TypeOK
    <2>2. up = <<>> /\ handler = "recvStart" /\ Len(up) = 0
      BY <1>0, <1>2 DEF StartInv, SendStart
    <2>3. Len(up') = 1 /\ up'[1].kind = "start" /\ up' # <<>>
      <3>1. Send("start", FirstSize)
        BY <1>2 DEF SendStart
      <3>2. up' # <<>> /\ Len(up') = Len(up) + 1 /\ up'[Len(up) + 1].kind = "start"
        BY <1>0, <2>1, <3>1, UpSent
      <3>3. QED BY <2>2, <3>2
    <2>4. QED BY <1>0, <1>2, <2>2, <2>3 DEF StartInv, SendStart
  <1>3. CASE StdinRelay \/ RelayResize
    <2>1. PICK kind \in {"stdin", "stdinClose", "resize"}, n \in Nat : Send(kind, n)
      <3>1. CASE StdinRelay
        <4>1. sent + 1 \in Nat
          BY <1>0, Counts
        <4>2. QED BY <3>1, <4>1 DEF StdinRelay, RelayStdin, RelayClose
      <3>2. CASE RelayResize
        BY <1>0, <3>2, FirstOfChannel DEF RelayResize, TypeOK
      <3>3. QED BY <1>3, <3>1, <3>2
    <2>2. relay # "start" /\ relay' # "start" /\ handler' = handler /\ frames' = frames
      BY <1>3 DEF StdinRelay, RelayStdin, RelayClose, RelayResize
    <2>3. /\ up' # <<>> /\ Len(up) \in Nat /\ Len(up') = Len(up) + 1
          /\ \A i \in 1..Len(up) : up'[i] = up[i]
          /\ up'[Len(up) + 1].kind = kind
      BY <1>0, <2>1, UpSent
    <2>4. ASSUME NEW i \in 1..Len(up')
          PROVE  /\ up'[i].kind \in {"start", "stdin", "stdinClose", "resize"}
                 /\ up'[i].kind = "start" <=> (i = 1 /\ handler = "recvStart")
      <3>1. CASE i \in 1..Len(up)
        BY <1>0, <2>3, <3>1 DEF StartInv
      <3>2. CASE i = Len(up) + 1
        <4>1. handler = "recvStart" => i # 1
          BY <1>0, <2>2, <2>3, <3>2, Counts, EmptySeq DEF StartInv
        <4>2. QED BY <2>1, <2>3, <3>2, <4>1
      <3>3. QED BY <2>3, <3>1, <3>2
    <2>5. QED BY <1>0, <2>2, <2>3, <2>4 DEF StartInv
  <1>4. CASE Receive
    <2>1. result' # "none" \/ result' = result
      BY <1>0, <1>4, ReplyIs
    <2>2. QED BY <1>0, <1>4, <2>1 DEF StartInv, Gone, Receive
  <1>5. CASE RecvStart
    <2>1. up # <<>> /\ up' = Tail(up) /\ handler = "recvStart" /\ handler' # "recvStart" /\ relay' = relay
      BY <1>5 DEF RecvStart
    <2>2. relay # "start"
      BY <1>0, <2>1 DEF StartInv
    <2>3. QED BY <1>0, <2>1, <2>2, UpTaken DEF StartInv
  <1>6. CASE NoStart
    <2>1. up = <<>> /\ Gone /\ handler' = "returned" /\ UNCHANGED <<up, relay, frames, result>>
      BY <1>6 DEF NoStart
    <2>2. Len(up) = 0
      BY <2>1
    <2>3. QED BY <1>0, <2>1, <2>2 DEF StartInv, Gone
  <1>7. CASE Begin \/ BeginFails \/ Finish
    <2>1. handler # "recvStart" /\ handler' # "recvStart" /\ UNCHANGED <<up, relay, frames, result>>
      BY <1>7 DEF Begin, BeginFails, Finish
    <2>2. QED BY <1>0, <2>1 DEF StartInv, Gone
  <1>8. CASE RecvFrame
    <2>1. up # <<>> /\ up' = Tail(up) /\ frames.at = "recv" /\ UNCHANGED <<handler, relay, result>>
      BY <1>8 DEF RecvFrame
    <2>2. handler # "recvStart" /\ relay # "start"
      BY <1>0, <2>1 DEF StartInv
    <2>3. QED BY <1>0, <2>1, <2>2, UpTaken DEF StartInv
  <1>9. CASE RecvFails \/ QueueSize \/ QueueSizeCancelled \/ InputCopy \/ CopyInput
    <2>1. handler # "recvStart"
      BY <1>0, <1>9 DEF StartInv, RecvFails, QueueSize, QueueSizeCancelled, InputCopy, CopyInputFails,
         CopyEnds, CopyInput, Good, ExecInv, PhaseInv
    <2>2. UNCHANGED <<up, relay, handler, result>>
      BY <1>9 DEF RecvFails, FramesDone, QueueSize, QueueSizeCancelled, InputCopy,
         CopyInputFails, CopyEnds, CopyInput
    <2>3. QED BY <1>0, <2>1, <2>2 DEF StartInv, Gone
  <1>10. CASE SizeCopy \/ Drain \/ Kill \/ Emit \/ CommandEnds
    BY <1>0, <1>10 DEF StartInv, Gone, SizeCopy, Resize, ResizerEnds, Drain, Kill, Emit, CommandEnds
  <1>11. QED BY <1>1, <1>2, <1>3, <1>4, <1>5, <1>6, <1>7, <1>8, <1>9, <1>10
           DEF Next, Goroutines, Handler, ServeFrames, Command

\* Sizes in flight are sizes.
SizedFrames(q) ==
  \A i \in 1..Len(q) :
    /\ q[i].kind = "resize" => q[i].n \in Sizes
    /\ q[i].kind = "start" => q[i].n \in Sizes \/ (q[i].n = NoSize /\ mode = "pipe")

\* A terminal's session always has one, from its opening to its command.
LEMMA SizeStep ==
  ASSUME Good, Next
  PROVE  SizeInv'
  <1> USE DEF inputVars, clientVars, commandVars, serverVars
  <1>0. SizeInv /\ TypeOK /\ StartInv /\ PhaseInv /\ SizedFrames(up)
    BY DEF Good, ExecInv, SizeInv, SizedFrames
  <1>1. mode' = mode
    BY DEF Next, Goroutines, User, Type, CloseStdin, ResizeWindow, Die, Terminal, TakeWinch, PutSize,
       SendStart, StdinRelay, RelayStdin, RelayClose, RelayResize, Receive, Handler, RecvStart, NoStart,
       Begin, BeginFails, Finish, ServeFrames, RecvFrame, RecvFails, FramesDone, QueueSize,
       QueueSizeCancelled, InputCopy, CopyInputFails, CopyEnds, SizeCopy, Resize, ResizerEnds, Drain,
       Kill, Command, CopyInput, Emit, CommandEnds
  <1>2. mode = "tty" /\ relay' = "start" => sizes' # <<>>
    <2>1. CASE SendStart \/ StdinRelay \/ RelayResize
      BY <2>1 DEF SendStart, StdinRelay, RelayStdin, RelayClose, RelayResize
    <2>2. CASE PutSize
      BY <2>2 DEF PutSize
    <2>3. CASE User \/ TakeWinch \/ Receive \/ Handler \/ Drain \/ Kill \/ Command
      BY <1>0, <2>3 DEF SizeInv, User, Type, CloseStdin, ResizeWindow, Die, TakeWinch, Receive, Handler,
         RecvStart, NoStart, Begin, BeginFails, Finish, Drain, Kill, Command, CopyInput, Emit, CommandEnds
    <2>4. CASE ServeFrames \/ InputCopy \/ SizeCopy
      BY <1>0, <2>4 DEF SizeInv, ServeFrames, RecvFrame, RecvFails, FramesDone, QueueSize,
         QueueSizeCancelled, InputCopy, CopyInputFails, CopyEnds, SizeCopy, Resize, ResizerEnds
    <2>5. QED BY <2>1, <2>2, <2>3, <2>4 DEF Next, Goroutines, Terminal
  <1>3. SizedFrames(up')
    <2>1. CASE SendStart
      <3>1. FirstSize \in Nat /\ (FirstSize \in Sizes \/ (FirstSize = NoSize /\ mode = "pipe"))
        <4>1. mode # "tty" => mode = "pipe"
          BY <1>0, ModesAssumption DEF TypeOK
        <4>2. CASE sizes # <<>>
          BY <1>0, <4>2, FirstOfChannel DEF FirstSize, TypeOK
        <4>3. CASE sizes = <<>>
          BY <1>0, <2>1, <4>1, <4>3 DEF FirstSize, NoSize, SizeInv, SendStart
        <4>4. QED BY <4>2, <4>3
      <3>2. Send("start", FirstSize)
        BY <2>1 DEF SendStart
      <3>3. /\ Len(up) \in Nat /\ Len(up') = Len(up) + 1
            /\ \A i \in 1..Len(up) : up'[i] = up[i]
            /\ up'[Len(up) + 1].kind = "start" /\ up'[Len(up) + 1].n = FirstSize
        BY <1>0, <3>1, <3>2, UpSent
      <3>4. ASSUME NEW i \in 1..Len(up')
            PROVE  /\ up'[i].kind = "resize" => up'[i].n \in Sizes
                   /\ up'[i].kind = "start" => up'[i].n \in Sizes \/ (up'[i].n = NoSize /\ mode = "pipe")
        <4>1. CASE i \in 1..Len(up)
          BY <1>0, <3>3, <4>1 DEF SizedFrames
        <4>2. CASE i = Len(up) + 1
          BY <3>1, <3>3, <4>2
        <4>3. QED BY <3>3, <4>1, <4>2
      <3>5. QED BY <3>4 DEF SizedFrames
    <2>2. CASE StdinRelay \/ RelayResize
      <3>1. PICK kind \in {"stdin", "stdinClose", "resize"}, n \in Nat :
              Send(kind, n) /\ (kind = "resize" => n \in Sizes)
        <4>1. CASE StdinRelay
          <5>1. sent + 1 \in Nat
            BY <1>0, Counts
          <5>2. QED BY <4>1, <5>1 DEF StdinRelay, RelayStdin, RelayClose
        <4>2. CASE RelayResize
          BY <1>0, <4>2, FirstOfChannel DEF RelayResize, TypeOK
        <4>3. QED BY <2>2, <4>1, <4>2
      <3>2. /\ Len(up) \in Nat /\ Len(up') = Len(up) + 1
            /\ \A i \in 1..Len(up) : up'[i] = up[i]
            /\ up'[Len(up) + 1].kind = kind /\ up'[Len(up) + 1].n = n
        BY <1>0, <3>1, UpSent
      <3>3. ASSUME NEW i \in 1..Len(up')
            PROVE  /\ up'[i].kind = "resize" => up'[i].n \in Sizes
                   /\ up'[i].kind = "start" => up'[i].n \in Sizes \/ (up'[i].n = NoSize /\ mode = "pipe")
        <4>1. CASE i \in 1..Len(up)
          BY <1>0, <3>2, <4>1 DEF SizedFrames
        <4>2. CASE i = Len(up) + 1
          BY <3>1, <3>2, <4>2
        <4>3. QED BY <3>2, <4>1, <4>2
      <3>4. QED BY <3>3 DEF SizedFrames
    <2>3. CASE RecvStart \/ RecvFrame
      <3>1. up # <<>> /\ up' = Tail(up)
        BY <2>3 DEF RecvStart, RecvFrame
      <3>2. QED BY <1>0, <3>1, UpTaken DEF SizedFrames
    <2>4. CASE User \/ Terminal \/ Receive \/ NoStart \/ Begin \/ BeginFails \/ Finish
      BY <1>0, <2>4 DEF User, Type, CloseStdin, ResizeWindow, Die, Terminal, TakeWinch, PutSize, Receive,
         NoStart, Begin, BeginFails, Finish
    <2>5. CASE RecvFails \/ QueueSize \/ QueueSizeCancelled \/ InputCopy \/ SizeCopy \/ Drain \/ Kill \/ Command
      BY <1>0, <2>5 DEF RecvFails, FramesDone, QueueSize, QueueSizeCancelled, InputCopy, CopyInputFails,
         CopyEnds, SizeCopy, Resize, ResizerEnds, Drain, Kill, Command, CopyInput, Emit, CommandEnds
    <2>6. QED BY <2>1, <2>2, <2>3, <2>4, <2>5 DEF Next, Goroutines, Handler, ServeFrames
  <1>4. frames'.at = "resize" => frames'.n \in Sizes
    <2>1. CASE RecvFrame
      <3>1. Head(up).kind = "resize" => Head(up).n \in Sizes
        BY <1>0, <2>1, FrameIs DEF SizedFrames
      <3>2. \/ Head(up).kind = "resize" /\ frames' = At("resize", Head(up).n)
            \/ frames' = At("write", Head(up).n)
            \/ frames' = frames
        BY <1>0, <2>1, FrameIs
      <3>3. frames' = At("resize", Head(up).n) => frames'.n = Head(up).n
        BY PlaceIs
      <3>4. frames' = At("write", Head(up).n) => frames'.at # "resize"
        BY PlaceIs
      <3>5. QED BY <1>0, <3>1, <3>2, <3>3, <3>4 DEF SizeInv
    <2>2. CASE frames' = frames \/ frames' = At("recv", 0) \/ frames' = At("done", 0)
      BY <1>0, <2>2, PlaceIs DEF SizeInv
    <2>3. CASE User \/ Terminal \/ SendStart \/ StdinRelay \/ RelayResize \/ Receive \/ Handler \/ Command
      BY <2>2, <2>3 DEF User, Type, CloseStdin, ResizeWindow, Die, Terminal, TakeWinch, PutSize,
         SendStart, StdinRelay, RelayStdin, RelayClose, RelayResize, Receive,
         Handler, RecvStart, NoStart, Begin, BeginFails, Finish, Command, CopyInput, Emit, CommandEnds
    <2>4. CASE RecvFails \/ QueueSize \/ QueueSizeCancelled \/ InputCopy \/ SizeCopy \/ Drain \/ Kill
      BY <2>2, <2>4 DEF RecvFails, FramesDone, QueueSize, QueueSizeCancelled, InputCopy, CopyInputFails,
         CopyEnds, SizeCopy, Resize, ResizerEnds, Drain, Kill, CommandEnds
    <2>5. QED BY <2>1, <2>3, <2>4 DEF Next, Goroutines, ServeFrames
  <1>5. /\ mode = "tty" /\ handler' = "begin" => srvSizes' # <<>>
        /\ mode = "tty" /\ cmd' # "off" => ptySize' # NoSize
    <2>1. CASE RecvStart
      <3>1. mode = "tty" => \E s \in Sizes : srvSizes' = <<s>>
        BY <1>0, <2>1, StartIs
      <3>2. handler' = "begin" /\ UNCHANGED <<cmd, ptySize>>
        BY <2>1 DEF RecvStart
      <3>3. QED BY <1>0, <3>1, <3>2 DEF SizeInv, NeverUnsized
    <2>2. CASE Begin
      <3>1. handler = "begin" /\ handler' = "running"
        BY <2>2 DEF Begin
      <3>2. mode = "tty" => srvSizes # <<>> /\ ptySize' = Head(srvSizes)
        BY <1>0, <2>2, <3>1 DEF SizeInv, Begin
      <3>3. srvSizes # <<>> => Head(srvSizes) # NoSize
        BY <1>0, FirstOfChannel DEF TypeOK
      <3>4. QED BY <3>1, <3>2, <3>3
    <2>3. CASE SizeCopy
      <3>1. UNCHANGED <<handler, cmd>> /\ handler # "begin"
        BY <1>0, <2>3 DEF PhaseInv, SizeCopy, Resize, ResizerEnds
      <3>2. ptySize' = ptySize \/ (srvSizes # <<>> /\ ptySize' = Head(srvSizes))
        BY <2>3 DEF SizeCopy, Resize, ResizerEnds
      <3>3. srvSizes # <<>> => Head(srvSizes) # NoSize
        BY <1>0, FirstOfChannel DEF TypeOK
      <3>4. QED BY <1>0, <3>1, <3>2, <3>3 DEF SizeInv, NeverUnsized
    <2>4. CASE QueueSize
      <3>1. srvSizes' = <<frames.n>> /\ UNCHANGED <<cmd, ptySize>>
        BY <2>4 DEF QueueSize
      <3>2. QED BY <1>0, <3>1 DEF SizeInv, NeverUnsized
    <2>5. CASE NoStart \/ BeginFails \/ Finish
      BY <1>0, <2>5 DEF SizeInv, NeverUnsized, NoStart, BeginFails, Finish
    <2>6. CASE CommandEnds
      BY <1>0, <2>6 DEF SizeInv, NeverUnsized, CommandEnds
    <2>7. CASE UNCHANGED <<handler, srvSizes, cmd, ptySize>>
      BY <1>0, <2>7 DEF SizeInv, NeverUnsized
    <2>8. CASE User \/ Terminal \/ SendStart \/ StdinRelay \/ RelayResize \/ Receive \/ Drain
      BY <2>7, <2>8 DEF User, Type, CloseStdin, ResizeWindow, Die, Terminal, TakeWinch, PutSize,
         SendStart, StdinRelay, RelayStdin, RelayClose, RelayResize, Receive, Drain
    <2>9. CASE RecvFrame \/ RecvFails \/ QueueSizeCancelled \/ InputCopy \/ CopyInput \/ Emit
      BY <2>7, <2>9 DEF RecvFrame, RecvFails, FramesDone, QueueSizeCancelled, InputCopy,
         CopyInputFails, CopyEnds, CopyInput, Emit
    <2>10. QED BY <2>1, <2>2, <2>3, <2>4, <2>5, <2>6, <2>8, <2>9
             DEF Next, Goroutines, Handler, ServeFrames, Kill, Command
  <1>6. QED BY <1>1, <1>2, <1>3, <1>4, <1>5 DEF SizeInv, SizedFrames, NeverUnsized

\* The frames in flight after one is sent to the client.
LEMMA DownSent ==
  ASSUME TypeOK, NEW n \in Nat, NEW kind \in {"output", "exit", "error"}, Reply(kind, n)
  PROVE  /\ down \in Seq(Frame) /\ [kind |-> kind, n |-> n] \in Frame
         /\ down' = Append(down, [kind |-> kind, n |-> n])
         /\ Len(down) \in Nat /\ Len(down') = Len(down) + 1
         /\ \A i \in 1..Len(down) : down'[i] = down[i]
         /\ down'[Len(down) + 1].kind = kind /\ down'[Len(down) + 1].n = n
  <1>1. down' = Append(down, [kind |-> kind, n |-> n]) /\ [kind |-> kind, n |-> n] \in Frame
    BY Framed DEF Reply
  <1>2. down \in Seq(Frame)
    BY Counts
  <1>3. QED BY <1>1, <1>2, Sent

\* Once the command's status is in flight there is nothing more to send.
Closing(q) ==
  \A i \in 1..Len(q) : q[i].kind = "exit" => handler = "returned" /\ cmd = "ended" /\ drained = emitted

\* What the client has not shown is in flight, and the status behind it.
LEMMA OutputStep ==
  ASSUME Good, Next
  PROVE  OutputInv'
  <1> USE DEF inputVars, clientVars, commandVars, serverVars
  <1>0. /\ OutputInv /\ TypeOK /\ down \in Seq(Frame)
        /\ shown \in Nat /\ drained \in Nat /\ shown <= drained
    BY Counts DEF Good, ExecInv
  <1>1. CASE UNCHANGED <<down, shown, drained, emitted, handler, cmd>> /\ (result' = result \/ result' # "none")
    BY <1>0, <1>1 DEF OutputInv, Gone
  <1>2. CASE Receive
    <2>1. UNCHANGED <<handler, cmd, drained, emitted>>
      BY <1>2 DEF Receive
    <2>2. /\ ~Gone /\ down # <<>> /\ down' = Tail(down)
          /\ Carries(down, "output", shown, drained) /\ Seals(down, "exit", "output") /\ Closing(down)
      BY <1>0, <1>2, ReplyIs DEF OutputInv, Closing
    <2>3. /\ Len(down) \in Nat \ {0} /\ Len(down') = Len(down) - 1
          /\ \A i \in 1..Len(down') : down'[i] = down[i + 1] /\ i + 1 \in 1..Len(down)
      <3>1. /\ Len(down) \in Nat \ {0} /\ Len(down') = Len(down) - 1
            /\ \A i \in 1..Len(down) - 1 : down'[i] = down[i + 1]
        BY <1>0, <2>2, Taken
      <3>2. QED BY <3>1
    <2>4. \A i \in 1..Len(down') : down'[i].kind \in {"output", "exit", "error"}
      BY <1>0, <2>3 DEF OutputInv
    <2>5. Closing(down')
      BY <2>2, <2>3 DEF Closing
    <2>6. Seals(down', "exit", "output")
      BY <1>0, <2>2, SealsTaken
    <2>7. result' # "none" \/ Carries(down', "output", shown', drained)
      <3>1. CASE Head(down).kind = "output"
        <4>1. shown' = shown + 1
          BY <1>0, <1>2, <3>1, ReplyIs
        <4>2. QED BY <1>0, <2>2, <3>1, <4>1, CarriesNext
      <3>2. CASE Head(down).kind # "output"
        BY <1>0, <1>2, <3>2, ReplyIs
      <3>3. QED BY <3>1, <3>2
    <2>8. QED BY <2>1, <2>4, <2>5, <2>6, <2>7 DEF OutputInv, Gone, Closing
  <1>3. CASE BeginFails \/ Finish
    <2>1. PICK kind \in {"exit", "error"} :
            /\ Reply(kind, 0)
            /\ kind = "exit" => handler' = "returned" /\ cmd = "ended" /\ (drained = emitted \/ Gone)
      BY <1>3 DEF BeginFails, Finish
    <2>2. UNCHANGED <<shown, drained, emitted, cmd, result>> /\ handler # "returned"
      BY <1>3 DEF BeginFails, Finish
    <2> DEFINE f == [kind |-> kind, n |-> 0]
    <2>3. /\ f \in Frame /\ down' = Append(down, f) /\ f.kind = kind
          /\ Len(down) \in Nat /\ Len(down') = Len(down) + 1
          /\ \A i \in 1..Len(down) : down'[i] = down[i]
          /\ down'[Len(down) + 1].kind = kind
      BY <1>0, <2>1, DownSent
    <2> HIDE DEF f
    <2>4. \A i \in 1..Len(down') : down'[i].kind \in {"output", "exit", "error"}
      <3>1. TAKE i \in 1..Len(down')
      <3>2. CASE i \in 1..Len(down)
        BY <1>0, <2>3, <3>2 DEF OutputInv
      <3>3. CASE i = Len(down) + 1
        BY <2>3, <3>3
      <3>4. QED BY <2>3, <3>2, <3>3
    <2>5. ASSUME ~Gone
          PROVE  /\ Carries(down', "output", shown, drained)
                 /\ Seals(down', "exit", "output")
                 /\ \A i \in 1..Len(down') :
                      down'[i].kind = "exit" => handler' = "returned" /\ cmd = "ended" /\ drained = emitted
      <3>1. Carries(down, "output", shown, drained) /\ Seals(down, "exit", "output") /\ Closing(down)
        BY <1>0, <2>5 DEF OutputInv, Closing
      <3>2. Carries(down', "output", shown, drained)
        BY <1>0, <2>3, <3>1, CarriesStill
      <3>3. Seals(down', "exit", "output")
        BY <1>0, <2>3, <3>1, SealsSent
      <3>4. ASSUME NEW i \in 1..Len(down'), down'[i].kind = "exit"
            PROVE  handler' = "returned" /\ cmd = "ended" /\ drained = emitted
        <4>1. CASE i \in 1..Len(down)
          BY <2>2, <2>3, <3>1, <3>4, <4>1 DEF Closing
        <4>2. CASE i = Len(down) + 1
          BY <2>1, <2>3, <2>5, <3>4, <4>2
        <4>3. QED BY <2>3, <4>1, <4>2
      <3>5. QED BY <3>2, <3>3, <3>4
    <2>6. Gone' = Gone
      BY <2>2 DEF Gone
    <2>7. QED BY <2>2, <2>4, <2>5, <2>6 DEF OutputInv
  <1>4. CASE Drain
    <2>1. Reply("output", drained + 1) /\ drained < emitted /\ drained' = drained + 1
      BY <1>4 DEF Drain
    <2>2. UNCHANGED <<shown, emitted, cmd, handler, result>>
      BY <1>4 DEF Drain
    <2> DEFINE f == [kind |-> "output", n |-> drained + 1]
    <2>3. /\ f \in Frame /\ down' = Append(down, f) /\ f.kind = "output" /\ f.n = drained + 1
          /\ Len(down) \in Nat /\ Len(down') = Len(down) + 1
          /\ \A i \in 1..Len(down) : down'[i] = down[i]
          /\ down'[Len(down) + 1].kind = "output"
      <3>1. drained + 1 \in Nat
        BY <1>0
      <3>2. QED BY <1>0, <2>1, <3>1, DownSent
    <2> HIDE DEF f
    <2>4. \A i \in 1..Len(down') : down'[i].kind \in {"output", "exit", "error"}
      <3>1. TAKE i \in 1..Len(down')
      <3>2. CASE i \in 1..Len(down)
        BY <1>0, <2>3, <3>2 DEF OutputInv
      <3>3. CASE i = Len(down) + 1
        BY <2>3, <3>3
      <3>4. QED BY <2>3, <3>2, <3>3
    <2>5. ASSUME ~Gone
          PROVE  /\ Carries(down', "output", shown, drained + 1)
                 /\ Seals(down', "exit", "output")
                 /\ \A i \in 1..Len(down') : down'[i].kind # "exit"
      <3>1. Carries(down, "output", shown, drained) /\ Seals(down, "exit", "output") /\ Closing(down)
        BY <1>0, <2>5 DEF OutputInv, Closing
      <3>2. \A i \in 1..Len(down) : down[i].kind # "exit"
        <4>1. drained # emitted
          BY <1>0, <2>1, Counts
        <4>2. QED BY <3>1, <4>1 DEF Closing
      <3>3. Carries(down', "output", shown, drained + 1)
        BY <1>0, <2>3, <3>1, CarriesMore
      <3>4. Seals(down', "exit", "output")
        BY <1>0, <2>3, <3>1, <3>2, SealsSent
      <3>5. \A i \in 1..Len(down') : down'[i].kind # "exit"
        BY <2>3, <3>2
      <3>6. QED BY <3>3, <3>4, <3>5
    <2>6. Gone' = Gone
      BY <2>2 DEF Gone
    <2>7. QED BY <2>1, <2>2, <2>4, <2>5, <2>6 DEF OutputInv
  <1>5. CASE RecvStart \/ NoStart \/ Begin
    <2>1. handler # "returned" /\ UNCHANGED <<down, shown, drained, emitted, result>>
      BY <1>5 DEF RecvStart, NoStart, Begin
    <2>2. QED BY <1>0, <2>1 DEF OutputInv, Gone
  <1>6. CASE Emit \/ CommandEnds
    <2>1. cmd # "ended" /\ UNCHANGED <<down, shown, drained, handler, result>>
      BY <1>6 DEF Emit, CommandEnds
    <2>2. QED BY <1>0, <2>1 DEF OutputInv, Gone
  <1>7. CASE User \/ Terminal \/ SendStart \/ StdinRelay \/ RelayResize
    BY <1>1, <1>7 DEF User, Type, CloseStdin, ResizeWindow, Die, Terminal, TakeWinch, PutSize,
       SendStart, StdinRelay, RelayStdin, RelayClose, RelayResize
  <1>8. CASE ServeFrames \/ InputCopy \/ SizeCopy \/ CopyInput
    BY <1>1, <1>8 DEF ServeFrames, RecvFrame, RecvFails, FramesDone, QueueSize, QueueSizeCancelled,
       InputCopy, CopyInputFails, CopyEnds, SizeCopy, Resize, ResizerEnds, CopyInput
  <1>9. QED BY <1>2, <1>3, <1>4, <1>5, <1>6, <1>7, <1>8 DEF Next, Goroutines, Handler, Kill, Command

\* What is over stays over, and what was typed before the end of input is all there is.
LEMMA Settled ==
  ASSUME Good, Next
  PROVE  /\ result = "lost" => result' = "lost"
         /\ handler = "returned" => handler' = "returned"
         /\ StreamOver => StreamOver'
         /\ ~stdinOpen => ~stdinOpen' /\ typed' = typed
         /\ cmd = "ended" => cmd' = "ended"
  <1> USE DEF inputVars, clientVars, commandVars, serverVars
  <1>1. CASE User
    BY <1>1 DEF User, Type, CloseStdin, ResizeWindow, Die, Gone, StreamOver
  <1>2. CASE Receive
    <2>1. ~Gone /\ UNCHANGED <<handler, stdinOpen, typed, cmd>>
      BY <1>2 DEF Receive
    <2>2. QED BY <2>1 DEF Gone, StreamOver
  <1>3. CASE Handler
    BY <1>3 DEF Handler, RecvStart, NoStart, Begin, BeginFails, Finish, Gone, StreamOver,
       Good, ExecInv, PhaseInv
  <1>4. CASE UNCHANGED <<result, handler, stdinOpen, typed>> /\ cmd' \in {cmd, "ended"}
    BY <1>4 DEF Gone, StreamOver
  <1>5. CASE Terminal \/ SendStart \/ StdinRelay \/ RelayResize
    BY <1>4, <1>5 DEF Terminal, TakeWinch, PutSize, SendStart, StdinRelay, RelayStdin, RelayClose,
       RelayResize
  <1>6. CASE ServeFrames \/ InputCopy
    BY <1>4, <1>6 DEF ServeFrames, RecvFrame, RecvFails, FramesDone, QueueSize, QueueSizeCancelled,
       InputCopy, CopyInputFails, CopyEnds
  <1>7. CASE SizeCopy \/ Drain \/ Kill \/ Command
    BY <1>4, <1>7 DEF SizeCopy, Resize, ResizerEnds, Drain, Kill, Command, CopyInput, Emit, CommandEnds
  <1>8. QED BY <1>1, <1>2, <1>3, <1>5, <1>6, <1>7 DEF Next, Goroutines

\* The end of input, sent and in flight.
Closed ==
  /\ relay = "done" => ~stdinOpen /\ sent = typed
  /\ \A i \in 1..Len(up) : up[i].kind = "stdinClose" => relay = "done"
  /\ Seals(up, "stdinClose", "stdin")

\* The client sends the end of input behind all of it.
LEMMA CloseStep ==
  ASSUME Good, Next
  PROVE  Closed'
  <1> USE DEF inputVars, clientVars, commandVars, serverVars
  <1>0. Closed /\ TypeOK /\ StartInv /\ up \in Seq(Frame)
    BY Counts DEF Good, ExecInv, InputInv, Closed
  <1>1. ~stdinOpen => ~stdinOpen' /\ typed' = typed
    BY Settled
  <1>2. ASSUME NEW kind \in {"start", "stdin", "stdinClose", "resize"}, NEW n \in Nat, Send(kind, n),
               kind = "stdin" => relay # "done" /\ relay' = relay,
               kind = "stdinClose" => relay' = "done" /\ ~stdinOpen' /\ sent' = typed',
               kind # "stdin" => sent' = sent,
               relay' = relay \/ (relay' # "done" /\ relay # "done") \/ kind = "stdinClose"
        PROVE  Closed'
    <2> DEFINE f == [kind |-> kind, n |-> n]
    <2>1. /\ f \in Frame /\ f.kind = kind /\ up' = Append(up, f)
          /\ Len(up) \in Nat /\ Len(up') = Len(up) + 1
          /\ \A i \in 1..Len(up) : up'[i] = up[i]
          /\ up'[Len(up) + 1].kind = kind
      BY <1>0, <1>2, UpSent
    <2> HIDE DEF f
    <2>2. Seals(up', "stdinClose", "stdin")
      <3>1. kind = "stdin" => \A i \in 1..Len(up) : up[i].kind # "stdinClose"
        BY <1>0, <1>2 DEF Closed
      <3>2. QED BY <1>0, <2>1, <3>1, SealsSent DEF Closed
    <2>3. relay' = "done" => ~stdinOpen' /\ sent' = typed'
      BY <1>0, <1>1, <1>2 DEF Closed
    <2>4. ASSUME NEW i \in 1..Len(up'), up'[i].kind = "stdinClose" PROVE relay' = "done"
      <3>1. CASE i \in 1..Len(up)
        BY <1>0, <1>2, <2>1, <2>4, <3>1 DEF Closed
      <3>2. CASE i = Len(up) + 1
        BY <1>2, <2>1, <2>4, <3>2
      <3>3. QED BY <2>1, <3>1, <3>2
    <2>5. QED BY <2>2, <2>3, <2>4 DEF Closed
  <1>3. CASE SendStart
    <2>1. FirstSize \in Nat
      BY <1>0, FirstOfChannel DEF FirstSize, NoSize, TypeOK
    <2>2. Send("start", FirstSize) /\ relay = "start" /\ relay' = "reading" /\ sent' = sent
      BY <1>3 DEF SendStart
    <2>3. QED BY <1>2, <2>1, <2>2
  <1>4. CASE RelayStdin
    <2>1. sent + 1 \in Nat
      BY <1>0, Counts
    <2>2. Send("stdin", sent + 1) /\ relay # "done" /\ relay' = relay
      BY <1>4 DEF RelayStdin
    <2>3. QED BY <1>2, <2>1, <2>2
  <1>5. CASE RelayClose
    <2>1. Send("stdinClose", 0) /\ relay' = "done" /\ ~stdinOpen /\ sent = typed /\ sent' = sent
      BY <1>5 DEF RelayClose
    <2>2. QED BY <1>1, <1>2, <2>1
  <1>6. CASE RelayResize
    <2>1. Head(sizes) \in Nat
      BY <1>0, <1>6, FirstOfChannel DEF RelayResize, TypeOK
    <2>2. Send("resize", Head(sizes)) /\ relay' = relay /\ sent' = sent
      BY <1>6 DEF RelayResize
    <2>3. QED BY <1>2, <2>1, <2>2
  <1>7. CASE RecvStart \/ RecvFrame
    <2>1. up # <<>> /\ up' = Tail(up) /\ UNCHANGED <<relay, sent, stdinOpen, typed>>
      BY <1>7 DEF RecvStart, RecvFrame
    <2>2. Seals(up', "stdinClose", "stdin")
      BY <1>0, <2>1, SealsTaken DEF Closed
    <2>3. QED BY <1>0, <2>1, <2>2, UpTaken DEF Closed
  <1>8. CASE UNCHANGED <<relay, sent, up>>
    BY <1>0, <1>1, <1>8 DEF Closed
  <1>9. CASE User \/ Terminal \/ Receive \/ NoStart \/ Begin \/ BeginFails \/ Finish
    BY <1>8, <1>9 DEF User, Type, CloseStdin, ResizeWindow, Die, Terminal, TakeWinch, PutSize, Receive,
       NoStart, Begin, BeginFails, Finish
  <1>10. CASE RecvFails \/ QueueSize \/ QueueSizeCancelled \/ InputCopy \/ SizeCopy \/ Drain \/ Kill \/ Command
    BY <1>8, <1>10 DEF RecvFails, FramesDone, QueueSize, QueueSizeCancelled, InputCopy, CopyInputFails,
       CopyEnds, SizeCopy, Resize, ResizerEnds, Drain, Kill, Command, CopyInput, Emit, CommandEnds
  <1>11. QED BY <1>3, <1>4, <1>5, <1>6, <1>7, <1>9, <1>10
           DEF Next, Goroutines, StdinRelay, Handler, ServeFrames

\* The input between the client and a command that has not ended.
Handed ==
  /\ frames.at = "write" => frames.n = fed + 1 /\ frames.n <= sent
  /\ frames.at = "done" => StreamOver
  /\ frames.at # "done" => Carries(up, "stdin", Received, sent)
  /\ pipeClosed =>
       \/ result = "lost" \/ handler = "returned"
       \/ ~stdinOpen /\ fed = typed /\ frames.at # "write"

\* The command is handed the input in order, and its end after all of it.
LEMMA HandStep ==
  ASSUME Good, Next, cmd' # "ended"
  PROVE  Handed'
  <1> USE DEF inputVars, clientVars, commandVars, serverVars
  <1>0. /\ Closed /\ TypeOK /\ StartInv /\ PhaseInv /\ Handed
        /\ up \in Seq(Frame) /\ sent \in Nat /\ typed \in Nat /\ fed \in Nat
        /\ fed <= sent /\ sent <= typed /\ Received \in Nat
    BY Counts, Settled DEF Good, ExecInv, InputInv, Closed, Handed
  <1>1. /\ result = "lost" => result' = "lost"
        /\ handler = "returned" => handler' = "returned"
        /\ StreamOver => StreamOver'
        /\ ~stdinOpen => ~stdinOpen' /\ typed' = typed
    BY Settled
  <1>2. Received <= sent /\ (frames.at # "write" => Received = fed)
    BY <1>0 DEF Received, Handed
  <1>3. CASE UNCHANGED <<frames, fed, sent, up, pipeClosed>>
    BY <1>0, <1>1, <1>3 DEF Handed, Received
  <1>4. ASSUME NEW kind \in {"start", "stdinClose", "resize"}, NEW n \in Nat, Send(kind, n),
               UNCHANGED <<frames, fed, sent, pipeClosed>>
        PROVE  Handed'
    <2> DEFINE f == [kind |-> kind, n |-> n]
    <2>1. f \in Frame /\ f.kind # "stdin" /\ up' = Append(up, f)
      BY <1>0, <1>4, UpSent
    <2> HIDE DEF f
    <2>2. frames.at # "done" => Carries(up', "stdin", Received, sent)
      BY <1>0, <2>1, CarriesStill DEF Handed
    <2>3. QED BY <1>0, <1>1, <1>4, <2>2 DEF Handed, Received
  <1>5. CASE SendStart
    <2>1. FirstSize \in Nat
      BY <1>0, FirstOfChannel DEF FirstSize, NoSize, TypeOK
    <2>2. Send("start", FirstSize) /\ UNCHANGED <<frames, fed, sent, pipeClosed>>
      BY <1>5 DEF SendStart
    <2>3. QED BY <1>4, <2>1, <2>2
  <1>6. CASE RelayClose
    <2>1. Send("stdinClose", 0) /\ UNCHANGED <<frames, fed, sent, pipeClosed>>
      BY <1>6 DEF RelayClose
    <2>2. QED BY <1>4, <2>1
  <1>7. CASE RelayResize
    <2>1. Head(sizes) \in Nat
      BY <1>0, <1>7, FirstOfChannel DEF RelayResize, TypeOK
    <2>2. Send("resize", Head(sizes)) /\ UNCHANGED <<frames, fed, sent, pipeClosed>>
      BY <1>7 DEF RelayResize
    <2>3. QED BY <1>4, <2>1, <2>2
  <1>8. CASE RelayStdin
    <2> DEFINE f == [kind |-> "stdin", n |-> sent + 1]
    <2>1. Send("stdin", sent + 1) /\ sent' = sent + 1 /\ UNCHANGED <<frames, fed, pipeClosed>>
      BY <1>8 DEF RelayStdin
    <2>2. f \in Frame /\ f.kind = "stdin" /\ f.n = sent + 1 /\ up' = Append(up, f)
      <3>1. sent + 1 \in Nat
        BY <1>0
      <3>2. QED BY <1>0, <2>1, <3>1, UpSent
    <2> HIDE DEF f
    <2>3. frames.at # "done" => Carries(up', "stdin", Received, sent + 1)
      BY <1>0, <1>2, <2>2, CarriesMore DEF Handed
    <2>4. frames.at = "write" => frames.n = fed + 1 /\ frames.n <= sent + 1
      BY <1>0 DEF Handed
    <2>5. QED BY <1>0, <1>1, <2>1, <2>3, <2>4 DEF Handed, Received
  <1>9. CASE RecvStart
    <2>1. /\ up # <<>> /\ up' = Tail(up) /\ Head(up).kind = "start" /\ frames.at = "off"
      BY <1>0, <1>9, StartIs DEF StartInv, Good, ExecInv
    <2>2. /\ UNCHANGED <<fed, sent, pipeClosed, stdinOpen, typed, result>>
          /\ frames' = At("recv", 0) /\ frames'.at = "recv" /\ handler # "returned"
      BY <1>9, PlaceIs DEF RecvStart
    <2>3. Carries(up', "stdin", fed, sent)
      BY <1>0, <1>2, <2>1, CarriesBehind DEF Handed
    <2>4. QED BY <1>0, <2>2, <2>3 DEF Handed, Received
  <1>10. CASE RecvFrame
    <2>1. up # <<>> /\ up' = Tail(up) /\ frames.at = "recv"
      BY <1>10 DEF RecvFrame
    <2>2. UNCHANGED <<fed, sent, stdinOpen, typed, result, handler>>
      BY <1>10 DEF RecvFrame
    <2>3. Carries(up, "stdin", fed, sent)
      BY <1>0, <1>2, <2>1 DEF Handed
    <2>4. CASE Head(up).kind = "stdin"
      <3>1. /\ Head(up).n = fed + 1 /\ fed + 1 <= sent
            /\ Carries(up', "stdin", fed + 1, sent)
        BY <1>0, <2>1, <2>3, <2>4, CarriesNext
      <3>2. frames' = At("write", Head(up).n) /\ pipeClosed' = pipeClosed
        BY <1>0, <1>10, <2>4, FrameIs
      <3>3. frames'.at = "write" /\ frames'.n = fed + 1
        BY <3>1, <3>2, PlaceIs
      <3>4. fed # typed
        BY <1>0, <3>1
      <3>5. QED BY <1>0, <2>2, <3>1, <3>2, <3>3, <3>4 DEF Handed, Received
    <2>5. CASE Head(up).kind = "resize"
      <3>1. frames' = At("resize", Head(up).n) /\ pipeClosed' = pipeClosed
        BY <1>0, <1>10, <2>5, FrameIs
      <3>2. frames'.at = "resize"
        BY <3>1, PlaceIs
      <3>3. Carries(up', "stdin", fed, sent)
        BY <1>0, <2>1, <2>3, <2>5, CarriesBehind
      <3>4. QED BY <1>0, <2>2, <3>1, <3>2, <3>3 DEF Handed, Received
    <2>6. CASE Head(up).kind = "stdinClose"
      <3>1. frames' = frames
        BY <1>0, <1>10, <2>6, FrameIs
      <3>2. ~stdinOpen /\ sent = typed
        BY <1>0, <1>10, <2>6, FrameIs DEF Closed
      <3>3. fed = sent
        BY <1>0, <2>1, <2>3, <2>6, SealedIsAll DEF Closed
      <3>4. Carries(up', "stdin", fed, sent)
        BY <1>0, <2>1, <2>3, <2>6, CarriesBehind
      <3>5. QED BY <2>1, <2>2, <3>1, <3>2, <3>3, <3>4 DEF Handed, Received
    <2>7. QED BY <1>0, <1>10, <2>4, <2>5, <2>6, FrameIs
  <1>11. CASE RecvFails \/ QueueSizeCancelled
    <2>1. StreamOver /\ frames' = At("done", 0) /\ UNCHANGED <<fed, sent, up, stdinOpen, typed, result, handler>>
      BY <1>11 DEF RecvFails, QueueSizeCancelled, FramesDone
    <2>2. frames'.at = "done"
      BY <2>1, PlaceIs
    <2>3. result = "lost" \/ handler = "returned"
      BY <1>0, <2>1 DEF StreamOver, Gone, PhaseInv, TypeOK
    <2>4. QED BY <1>1, <2>1, <2>2, <2>3 DEF Handed
  <1>12. CASE QueueSize
    <2>1. /\ frames.at = "resize" /\ frames' = At("recv", 0)
          /\ UNCHANGED <<fed, sent, up, pipeClosed, stdinOpen, typed, result, handler>>
      BY <1>12 DEF QueueSize
    <2>2. frames'.at = "recv"
      BY <2>1, PlaceIs
    <2>3. QED BY <1>0, <2>1, <2>2 DEF Handed, Received
  <1>13. CASE CopyInput
    <2>1. /\ frames.at = "write" /\ frames' = At("recv", 0) /\ fed' = frames.n
          /\ UNCHANGED <<sent, up, pipeClosed, stdinOpen, typed, result, handler>>
      BY <1>13 DEF CopyInput
    <2>2. frames'.at = "recv"
      BY <2>1, PlaceIs
    <2>3. QED BY <1>0, <2>1, <2>2 DEF Handed, Received
  <1>14. CASE CopyInputFails
    BY <1>14 DEF CopyInputFails
  <1>15. CASE User \/ Terminal \/ Receive \/ NoStart \/ Begin \/ BeginFails \/ Finish
    BY <1>3, <1>15 DEF User, Type, CloseStdin, ResizeWindow, Die, Terminal, TakeWinch, PutSize, Receive,
       NoStart, Begin, BeginFails, Finish
  <1>16. CASE CopyEnds \/ SizeCopy \/ Drain \/ Kill \/ Emit \/ CommandEnds
    BY <1>3, <1>16 DEF CopyEnds, SizeCopy, Resize, ResizerEnds, Drain, Kill, Emit, CommandEnds
  <1>17. QED BY <1>5, <1>6, <1>7, <1>8, <1>9, <1>10, <1>11, <1>12, <1>13, <1>14, <1>15, <1>16
           DEF Next, Goroutines, StdinRelay, Handler, ServeFrames, InputCopy, Command

\* Together: input and its end arrive in order, and nothing is lost on the way.
LEMMA InputStep ==
  ASSUME Good, Next
  PROVE  InputInv'
  BY CloseStep, HandStep DEF InputInv, Closed, Handed
-----------------------------------------------------------------------------
(***************************************************************************)
(* The theorems.                                                           *)
(***************************************************************************)
\* A session begins with nothing in flight, and with the size of its terminal.
LEMMA Opening == Init => Good
  <1> SUFFICES ASSUME Init PROVE Good
    OBVIOUS
  <1>1. /\ up = <<>> /\ down = <<>> /\ frames = At("off", 0) /\ frames.at = "off" /\ frames.n = 0
        /\ Len(up) = 0 /\ Len(down) = 0 /\ up \in Seq(Frame) /\ down \in Seq(Frame)
    BY PlaceIs DEF Init
  <1>2. 1 \in Sizes /\ 0 \in Nat
    BY BoundsAssumption DEF Sizes
  <1>3. /\ sizes \in Seq(Sizes) /\ Len(sizes) <= 1 /\ (mode = "tty" => sizes # <<>>)
        /\ srvSizes \in Seq(Sizes) /\ Len(srvSizes) <= 1
    <2>1. sizes = <<>> \/ sizes = <<1>>
      BY DEF Init
    <2>2. mode = "tty" => sizes = <<1>>
      BY DEF Init
    <2>3. srvSizes = <<>>
      BY DEF Init
    <2>4. QED BY <1>2, <2>1, <2>2, <2>3, EmptyChannel, FullChannel
  <1>4. frames \in [at : {"off", "recv", "write", "resize", "done"}, n : Nat]
    BY <1>1 DEF At
  <1>5. TypeOK
    <2>1. Flags
      BY DEF Init, Flags
    <2>2. Numbers
      BY <1>2, BoundsAssumption DEF Init, Numbers
    <2>3. Phases
      BY <1>4 DEF Init, Phases
    <2>4. Channels
      BY <1>1, <1>3 DEF Init, Channels
    <2>5. QED BY <2>1, <2>2, <2>3, <2>4, TypeParts
  <1>6. StartInv /\ PhaseInv /\ SizeInv
    BY <1>1, <1>3 DEF Init, StartInv, PhaseInv, SizeInv, NeverUnsized
  <1>7. Carries(<<>>, "stdin", 0, 0) /\ Carries(<<>>, "output", 0, 0)
    BY EmptySeq DEF Carries
  <1>8. InputInv
    BY <1>1, <1>7 DEF Init, InputInv, Received, Seals
  <1>9. OutputInv
    BY <1>1, <1>7 DEF Init, OutputInv, Gone, Seals
  <1>10. QED BY <1>5, <1>6, <1>8, <1>9 DEF Good, ExecInv

\* The type and the invariant are kept by every step.
LEMMA GoodStep == Good /\ [Next]_vars => Good'
  <1> SUFFICES ASSUME Good, [Next]_vars PROVE Good'
    OBVIOUS
  <1>1. CASE Next
    <2>1. TypeOK'
      BY <1>1, TypeStep
    <2>2. StartInv' /\ PhaseInv'
      BY <1>1, StartStep, PhaseStep
    <2>3. SizeInv' /\ InputInv' /\ OutputInv'
      BY <1>1, SizeStep, InputStep, OutputStep
    <2>4. QED BY <2>1, <2>2, <2>3 DEF Good, ExecInv
  <1>2. CASE UNCHANGED vars
    BY <1>2 DEF vars, inputVars, clientVars, serverVars, commandVars, Good, TypeOK, ExecInv, StartInv,
       PhaseInv, SizeInv, NeverUnsized, InputInv, Received, OutputInv, StreamOver, Gone
  <1>3. QED BY <1>1, <1>2

\* The inductive invariant of a session.
THEOREM SessionInvariant == Spec => []Good
  BY Opening, GoodStep, PTL DEF Spec

\* Every variable keeps its type; in it, what the command has been fed never
\* exceeds what was sent, nor what is shown what the daemon has sent.
THEOREM SessionTypes == Spec => []TypeOK
  <1>1. Good => TypeOK
    BY DEF Good
  <1>2. QED BY <1>1, SessionInvariant, PTL

\* The command never runs on a terminal without a size.
THEOREM NeverStartsUnsized == Spec => []NeverUnsized
  <1>1. Good => NeverUnsized
    BY DEF Good, ExecInv, SizeInv
  <1>2. QED BY <1>1, SessionInvariant, PTL

\* The opening of a session is that of the promise.
LEMMA PromisedInit == Init => Promised!Init
  BY DEF Init, Promised!Init

\* Every step of the session is one the promise allows, or none of its business.
LEMMA PromisedStep ==
  ASSUME Good, Next
  PROVE  [Promised!Next]_(Promised!sessionVars)
  <1> USE DEF inputVars, clientVars, commandVars, serverVars
  <1>0. /\ TypeOK /\ PhaseInv /\ InputInv /\ OutputInv
        /\ sent <= typed /\ shown <= drained /\ drained <= emitted /\ fed <= sent
        /\ typed \in Nat /\ sent \in Nat /\ fed \in Nat
        /\ shown \in Nat /\ drained \in Nat /\ emitted \in Nat
        /\ down \in Seq(Frame)
    BY Counts DEF Good, ExecInv
  <1>1. CASE UNCHANGED <<typed, stdinOpen, fed, eof, emitted, cmd, shown, result>>
    BY <1>1 DEF Promised!sessionVars
  <1>2. CASE Type
    BY <1>2 DEF Type, Promised!Next, Promised!Type
  <1>3. CASE CloseStdin
    BY <1>3 DEF CloseStdin, Promised!Next, Promised!CloseStdin
  <1>4. CASE Die
    BY <1>4 DEF Die, Gone, Promised!Next, Promised!Lose
  <1>5. CASE Receive
    <2>1. UNCHANGED <<typed, stdinOpen, fed, eof, emitted, cmd>> /\ result = "none"
      BY <1>5 DEF Receive, Gone
    <2>2. /\ down # <<>> /\ Head(down) = down[1] /\ 1 \in 1..Len(down)
          /\ Carries(down, "output", shown, drained) /\ Seals(down, "exit", "output")
      BY <1>0, <1>5, ReplyIs DEF OutputInv
    <2>3. CASE Head(down).kind = "output"
      <3>1. shown' = shown + 1 /\ shown + 1 <= drained /\ result' = result
        BY <1>0, <1>5, <2>3, ReplyIs
      <3>2. shown < emitted
        BY <1>0, <3>1
      <3>3. Promised!Show
        BY <2>1, <3>1, <3>2 DEF Promised!Show
      <3>4. QED BY <3>3 DEF Promised!Next
    <2>4. CASE Head(down).kind = "exit"
      <3>1. result' = "exited" /\ shown' = shown
        BY <1>0, <1>5, <2>4, ReplyIs
      <3>2. cmd = "ended" /\ drained = emitted
        BY <1>0, <2>1, <2>2, <2>4 DEF OutputInv, Gone
      <3>3. shown = drained
        BY <1>0, <2>2, <2>4, SealedIsAll
      <3>4. Promised!Exit
        BY <2>1, <3>1, <3>2, <3>3 DEF Promised!Exit
      <3>5. QED BY <3>4 DEF Promised!Next
    <2>5. CASE Head(down).kind = "error"
      <3>1. result' = "lost" /\ shown' = shown
        BY <1>0, <1>5, <2>5, ReplyIs
      <3>2. QED BY <2>1, <3>1 DEF Promised!Next, Promised!Lose
    <2>6. QED BY <1>0, <1>5, <2>3, <2>4, <2>5, ReplyIs
  <1>6. CASE Begin
    <2>1. cmd = "off" /\ cmd' = "running" /\ UNCHANGED <<typed, stdinOpen, fed, eof, emitted, shown, result>>
      BY <1>0, <1>6 DEF Begin, PhaseInv
    <2>2. QED BY <2>1 DEF Promised!sessionVars
  <1>7. CASE CopyInput
    <2>1. /\ cmd = "running" /\ fed' = fed + 1 /\ fed + 1 <= sent /\ copy = "reading"
          /\ UNCHANGED <<typed, stdinOpen, eof, emitted, cmd, shown, result>>
      BY <1>0, <1>7 DEF CopyInput, InputInv
    <2>2. fed < typed /\ ~eof
      BY <1>0, <2>1 DEF PhaseInv
    <2>3. QED BY <2>1, <2>2 DEF Promised!Next, Promised!Feed
  <1>8. CASE CopyEnds
    <2>1. UNCHANGED <<typed, stdinOpen, fed, emitted, cmd, shown, result>> /\ pipeClosed /\ frames.at # "write"
      BY <1>8 DEF CopyEnds
    <2>2. eof = FALSE
      BY <1>0, <1>8 DEF CopyEnds, PhaseInv, TypeOK
    <2>3. CASE mode = "pipe" /\ cmd = "running"
      <3>1. eof' = TRUE
        BY <1>8, <2>3 DEF CopyEnds
      <3>2. result = "lost" \/ (~stdinOpen /\ fed = typed)
        BY <1>0, <2>1, <2>3 DEF InputInv, PhaseInv
      <3>3. QED BY <2>1, <2>2, <2>3, <3>1, <3>2 DEF Promised!Next, Promised!EndInput
    <2>4. CASE ~(mode = "pipe" /\ cmd = "running")
      <3>1. eof' = eof
        BY <1>8, <2>2, <2>4 DEF CopyEnds
      <3>2. QED BY <1>1, <2>1, <3>1
    <2>5. QED BY <2>3, <2>4
  <1>9. CASE Emit
    BY <1>9 DEF Emit, Promised!Next, Promised!Emit
  <1>10. CASE CommandEnds
    BY <1>10 DEF CommandEnds, Promised!Next, Promised!End
  <1>11. CASE ResizeWindow \/ Terminal \/ SendStart \/ StdinRelay \/ RelayResize
    BY <1>1, <1>11 DEF ResizeWindow, Terminal, TakeWinch, PutSize, SendStart, StdinRelay, RelayStdin,
       RelayClose, RelayResize
  <1>12. CASE RecvStart \/ NoStart \/ BeginFails \/ Finish \/ ServeFrames
    BY <1>1, <1>12 DEF RecvStart, NoStart, BeginFails, Finish, ServeFrames, RecvFrame, RecvFails,
       FramesDone, QueueSize, QueueSizeCancelled
  <1>13. CASE CopyInputFails \/ SizeCopy \/ Drain
    BY <1>1, <1>13 DEF CopyInputFails, SizeCopy, Resize, ResizerEnds, Drain
  <1>14. QED BY <1>2, <1>3, <1>4, <1>5, <1>6, <1>7, <1>8, <1>9, <1>10, <1>11, <1>12, <1>13
           DEF Next, User, Goroutines, Handler, InputCopy, Kill, Command

\* Over the daemon a session is what it would be in process: the input reaches
\* the command in order and before its end, the output the terminal in order and
\* before the status.
THEOREM KeepsItsPromise == Spec => KeepsThePromise
  <1>1. Good /\ [Next]_vars => [Promised!Next]_(Promised!sessionVars)
    <2> SUFFICES ASSUME Good, [Next]_vars PROVE [Promised!Next]_(Promised!sessionVars)
      OBVIOUS
    <2>1. CASE Next
      BY <2>1, PromisedStep
    <2>2. CASE UNCHANGED vars
      BY <2>2 DEF vars, inputVars, clientVars, serverVars, commandVars, Promised!sessionVars
    <2>3. QED BY <2>1, <2>2
  <1>2. QED BY <1>1, PromisedInit, SessionInvariant, PTL DEF Spec, KeepsThePromise, Promised!Spec
=============================================================================
