----------------------------- MODULE FeedProofs -----------------------------
(***************************************************************************)
(* Theorems about Feed and the DecisionLog under it, for every limit.      *)
(***************************************************************************)
EXTENDS Feed, SequenceTheorems, WellFoundedInduction, TLAPS

\* Keep returns the last n elements, in order.
LEMMA KeepIsASuffix ==
  ASSUME NEW S, NEW s \in Seq(S), NEW n \in Nat
  PROVE  /\ Keep(s, n) \in Seq(S)
         /\ Len(Keep(s, n)) = IF Len(s) > n THEN n ELSE Len(s)
         /\ \A i \in 1..Len(Keep(s, n)) : Keep(s, n)[i] = s[Len(s) - Len(Keep(s, n)) + i]
  <1>1. CASE Len(s) > n
    <2> DEFINE k == Len(s) - n
               m == Len(s)
    <2>1. /\ k \in 1..m /\ m \in Nat
          /\ m - (k + 1) + 1 = n
      BY <1>1
    <2>2. Keep(s, n) = SubSeq(s, k + 1, m)
      BY <1>1 DEF Keep
    <2>3. \A i \in k + 1 .. m : s[i] \in S
      BY <2>1
    <2>4. /\ SubSeq(s, k + 1, m) \in Seq(S)
          /\ Len(SubSeq(s, k + 1, m)) = IF k + 1 <= m THEN m - (k + 1) + 1 ELSE 0
          /\ \A i \in 1 .. m - (k + 1) + 1 :
               SubSeq(s, k + 1, m)[i] = s[(k + 1) + i - 1]
      <3> HIDE DEF m, k
      <3>1. k + 1 \in Int /\ m \in Int
        BY <2>1
      <3>2. QED BY <2>3, <3>1, SubSeqProperties
    <2>5. Len(SubSeq(s, k + 1, m)) = n
      BY <2>1, <2>4
    <2>6. \A i \in 1..n : SubSeq(s, k + 1, m)[i] = s[k + i]
      BY <2>1, <2>4
    <2>7. QED BY <1>1, <2>1, <2>2, <2>4, <2>5, <2>6
  <1>2. CASE ~(Len(s) > n)
    BY <1>2 DEF Keep
  <1>3. QED BY <1>1, <1>2

\* Recording a decision keeps a dense log dense, whether or not it is full.
LEMMA RecordKeepsDense ==
  ASSUME LogTypeOK, LogIsDense, Record
  PROVE  LogTypeOK' /\ LogIsDense'
  <1> DEFINE e    == [seq |-> seq + 1, daemon |-> daemon]
             all  == Append(entries, e)
             kept == Keep(all, Limit)
  <1>1. e \in Entry /\ seq' = seq + 1 /\ daemon' = daemon /\ entries' = kept
    BY DEF LogTypeOK, Entry, Record
  <1>2. /\ all \in Seq(Entry) /\ Len(all) = Len(entries) + 1 /\ Len(entries) \in Nat
        /\ all[Len(all)] = e
        /\ \A i \in 1..Len(entries) : all[i] = entries[i]
    BY <1>1 DEF LogTypeOK
  <1>3. Limit \in Nat /\ Limit >= 1
    BY LimitAssumption
  <1>4. /\ kept \in Seq(Entry)
        /\ Len(kept) = IF Len(all) > Limit THEN Limit ELSE Len(all)
        /\ \A i \in 1..Len(kept) : kept[i] = all[Len(all) - Len(kept) + i]
    BY <1>2, <1>3, KeepIsASuffix
  <1> HIDE DEF e, all, kept
  <1>5. LogTypeOK' /\ seq \in Nat /\ Len(kept) \in Nat
    BY <1>1, <1>4 DEF LogTypeOK
  <1>6. Len(kept) = IF seq + 1 < Limit THEN seq + 1 ELSE Limit
    BY <1>2, <1>3, <1>4, <1>5 DEF LogIsDense
  <1>7. ASSUME NEW i \in 1..Len(kept)
        PROVE  kept[i] = [seq |-> seq + 1 - Len(kept) + i, daemon |-> daemon]
    <2>1. CASE i = Len(kept)
      <3>1. kept[i] = all[Len(all)]
        <4>1. Len(all) - Len(kept) + i = Len(all)
          BY <1>2, <1>5, <2>1
        <4>2. kept[i] = all[Len(all) - Len(kept) + i]
          BY <1>4
        <4>3. QED BY <4>1, <4>2
      <3>2. seq + 1 - Len(kept) + i = seq + 1
        BY <1>3, <1>5, <1>6, <2>1
      <3>3. QED BY <1>2, <3>1, <3>2 DEF e
    <2>2. CASE i # Len(kept)
      <3> DEFINE j == Len(all) - Len(kept) + i
      <3>1. j \in 1..Len(entries) /\ kept[i] = all[j]
        <4>1. /\ Len(all) \in Nat /\ Len(kept) <= Len(all)
              /\ i \in Nat /\ 1 <= i /\ i <= Len(kept) - 1
          BY <1>2, <1>3, <1>4, <1>5, <2>2
        <4>2. j \in 1..Len(entries)
          BY <1>2, <1>5, <4>1
        <4>3. kept[i] = all[j]
          BY <1>4
        <4>4. QED BY <4>2, <4>3
      <3>2. seq - Len(entries) + j = seq + 1 - Len(kept) + i
        BY <1>2, <1>3, <1>4, <1>5
      <3>3. QED BY <1>2, <3>1, <3>2 DEF LogIsDense
    <2>3. QED BY <2>1, <2>2
  <1>8. QED BY <1>1, <1>5, <1>6, <1>7 DEF LogIsDense

\* A restart or a decision leaves a dense log, and nobody else touches it.
LEMMA DenseStep ==
  ASSUME LogTypeOK, LogIsDense, [Next]_vars
  PROVE  LogTypeOK' /\ LogIsDense'
  <1>1. CASE Decide
    BY <1>1, RecordKeepsDense DEF Decide
  <1>2. CASE Restart
    BY <1>2, LimitAssumption DEF Restart, NewLog, LogTypeOK, LogIsDense
  <1>3. CASE UNCHANGED logVars
    BY <1>3 DEF logVars, LogTypeOK, LogIsDense
  <1>4. QED
    BY <1>1, <1>2, <1>3 DEF Next, MoveCursor, Ask, Answer, PollFails, Deliver, vars
-----------------------------------------------------------------------------
(***************************************************************************)
(* What a poll is answered with.                                           *)
(***************************************************************************)
\* Natural numbers have a least one in every set that is not empty,
LEMMA LeastNat ==
  ASSUME NEW T \in SUBSET Nat, T # {}
  PROVE  \E x \in T : \A y \in T : x <= y
  <1>1. PICK x \in T : \A y \in T : ~(<<y, x>> \in OpToRel(<, Nat))
    BY NatLessThanWellFounded, WFMin
  <1>2. ASSUME NEW y \in T PROVE x <= y
    <2>1. y \in Nat /\ x \in Nat
      OBVIOUS
    <2>2. ~(y < x)
      BY <1>1, <2>1 DEF OpToRel
    <2>3. QED BY <2>1, <2>2
  <1>3. QED BY <1>2

\* and so a set that holds zero and the successor of each it holds has them all.
LEMMA AllNat ==
  ASSUME NEW S, 0 \in S, \A n \in Nat : n \in S => n + 1 \in S
  PROVE  Nat \subseteq S
  <1>1. SUFFICES ASSUME Nat \ S # {} PROVE FALSE
    OBVIOUS
  <1>2. PICK x \in Nat \ S : \A y \in Nat \ S : x <= y
    BY <1>1, LeastNat
  <1>3. x - 1 \in Nat /\ x - 1 + 1 = x
    BY <1>2
  <1>4. x - 1 \in S
    BY <1>2, <1>3
  <1>5. QED BY <1>2, <1>3, <1>4

\* The loop of Since, as far as the n-th entry.
Loop(out, s, n) ==
  out = [i \in 0..n |->
           IF i = 0 THEN <<>>
           ELSE IF entries[i].seq > s THEN Append(out[i - 1], entries[i])
           ELSE out[i - 1]]

\* The loop comes to an end, and Since is what it comes to.
LEMMA SinceLoops ==
  ASSUME entries \in Seq(Entry), NEW s
  PROVE  \E out : Loop(out, s, Len(entries)) /\ Since(s) = out[Len(entries)]
  <1> DEFINE S == {n \in Nat : \E out : Loop(out, s, n)}
  <1>1. 0 \in S
    <2>1. Loop([i \in 0..0 |-> <<>>], s, 0)
      BY DEF Loop
    <2>2. QED BY <2>1
  <1>2. ASSUME NEW n \in Nat, n \in S PROVE n + 1 \in S
    <2>1. PICK f : Loop(f, s, n)
      BY <1>2
    <2> DEFINE last == IF entries[n + 1].seq > s THEN Append(f[n], entries[n + 1]) ELSE f[n]
               g == [i \in 0..n + 1 |-> IF i = n + 1 THEN last ELSE f[i]]
    <2> HIDE DEF last
    <2>2. ASSUME NEW i \in 0..n + 1
          PROVE  g[i] = IF i = 0 THEN <<>>
                        ELSE IF entries[i].seq > s THEN Append(g[i - 1], entries[i])
                        ELSE g[i - 1]
      <3>1. CASE i = n + 1
        <4>1. g[i] = last /\ g[i - 1] = f[n] /\ i # 0
          BY <3>1
        <4>2. QED BY <3>1, <4>1 DEF last
      <3>2. CASE i \in 0..n
        <4>1. g[i] = f[i] /\ (i # 0 => g[i - 1] = f[i - 1])
          BY <3>2
        <4>2. f[i] = IF i = 0 THEN <<>>
                     ELSE IF entries[i].seq > s THEN Append(f[i - 1], entries[i])
                     ELSE f[i - 1]
          BY <2>1, <3>2 DEF Loop
        <4> HIDE DEF g
        <4>3. QED BY <4>1, <4>2
      <3>3. QED BY <3>1, <3>2
    <2>3. g = [i \in 0..n + 1 |-> g[i]]
      OBVIOUS
    <2> HIDE DEF g
    <2>4. Loop(g, s, n + 1)
      BY <2>2, <2>3 DEF Loop
    <2>5. QED BY <2>4
  <1>3. Len(entries) \in S
    <2> HIDE DEF S
    <2>1. QED BY <1>1, <1>2, AllNat
  <1> DEFINE out == CHOOSE f : Loop(f, s, Len(entries))
  <1>4. Loop(out, s, Len(entries))
    BY <1>3
  <1>5. Since(s) = out[Len(entries)]
    BY DEF Since, Loop
  <1>6. QED BY <1>4, <1>5

\* A log without gaps has dropped a first part of the decisions and holds the rest.
LEMMA LogShape ==
  ASSUME LogTypeOK, LogIsDense
  PROVE  \E f \in Nat, len \in Nat :
           /\ Len(entries) = len /\ seq = f + len /\ seq - Len(entries) = f
           /\ \A i \in 1..len : entries[i] = [seq |-> f + i, daemon |-> daemon]
  <1> DEFINE len == Len(entries)
             f == seq - len
  <1>1. len \in Nat /\ seq \in Nat /\ Limit \in Nat
    BY LimitAssumption DEF LogTypeOK
  <1>2. len = IF seq < Limit THEN seq ELSE Limit
    BY DEF LogIsDense
  <1>3. \A i \in 1..len : entries[i] = [seq |-> f + i, daemon |-> daemon]
    BY Zenon DEF LogIsDense
  <1>4. seq - Len(entries) = f /\ len = Len(entries)
    OBVIOUS
  <1> HIDE DEF len
  <1>5. f \in Nat /\ seq = f + len
    BY <1>1, <1>2
  <1> HIDE DEF f
  <1>6. /\ Len(entries) = len /\ seq = f + len /\ seq - Len(entries) = f
        /\ \A i \in 1..len : entries[i] = [seq |-> f + i, daemon |-> daemon]
    BY <1>3, <1>4, <1>5
  <1>7. QED BY <1>1, <1>5, <1>6

\* q is what is newer than s of the first n entries, and their end.
NewerEnd(q, s, n) ==
  \E len \in 0..n :
    /\ q \in Seq(Entry) /\ Len(q) = len
    /\ \A k \in 1..len : q[k] = entries[n - len + k]
    /\ \A i \in 1..n : entries[i].seq > s <=> i > n - len

\* Of a log without gaps Since returns the end that is newer than s, in order.
LEMMA SinceIsTheNewerEnd ==
  ASSUME LogTypeOK, LogIsDense, NEW s \in Nat
  PROVE  NewerEnd(Since(s), s, Len(entries))
  <1>1. entries \in Seq(Entry)
    BY DEF LogTypeOK
  <1>2. PICK out : Loop(out, s, Len(entries)) /\ Since(s) = out[Len(entries)]
    BY <1>1, SinceLoops
  <1>3. PICK f \in Nat, all \in Nat :
          /\ Len(entries) = all /\ seq = f + all /\ seq - Len(entries) = f
          /\ \A i \in 1..all : entries[i] = [seq |-> f + i, daemon |-> daemon]
    BY LogShape
  <1>4. \A i \in 1..all : entries[i] \in Entry /\ entries[i].seq = f + i
    BY <1>1, <1>3
  <1>5. \A m \in 0..all :
          out[m] = IF m = 0 THEN <<>>
                   ELSE IF entries[m].seq > s THEN Append(out[m - 1], entries[m])
                   ELSE out[m - 1]
    BY <1>2, <1>3 DEF Loop
  <1> DEFINE S == {n \in Nat : n <= all => NewerEnd(out[n], s, n)}
  <1>6. 0 \in S
    <2>1. out[0] = <<>> /\ <<>> \in Seq(Entry) /\ Len(<<>>) = 0
      BY <1>5
    <2>2. 0 \in 0..0 /\ 1..0 = {}
      OBVIOUS
    <2>3. NewerEnd(out[0], s, 0)
      BY <2>1, <2>2 DEF NewerEnd
    <2>4. QED BY <2>3
  <1>7. ASSUME NEW n \in Nat, n \in S PROVE n + 1 \in S
    <2>1. SUFFICES ASSUME n + 1 <= all PROVE NewerEnd(out[n + 1], s, n + 1)
      OBVIOUS
    <2>2. /\ n + 1 \in 1..all /\ n + 1 \in 0..all /\ n + 1 # 0 /\ n + 1 - 1 = n /\ n <= all
          /\ \A i \in 1..n : i \in 1..all
      BY <1>3, <2>1
    <2> DEFINE q == out[n]
               r == out[n + 1]
               e == entries[n + 1]
    <2>3. NewerEnd(q, s, n)
      BY <1>7, <2>2
    <2>4. r = IF e.seq > s THEN Append(q, e) ELSE q
      <3>1. r = IF n + 1 = 0 THEN <<>>
                ELSE IF e.seq > s THEN Append(out[n + 1 - 1], e)
                ELSE out[n + 1 - 1]
        BY <1>5, <2>2
      <3>2. QED BY <2>2, <3>1
    <2>5. e \in Entry /\ e.seq = f + (n + 1) /\ \A i \in 1..n : entries[i].seq = f + i
      BY <1>4, <2>2
    <2>6. e = entries[n + 1]
      OBVIOUS
    <2> HIDE DEF q, r, e
    <2>7. PICK len \in 0..n :
            /\ q \in Seq(Entry) /\ Len(q) = len
            /\ \A k \in 1..len : q[k] = entries[n - len + k]
            /\ \A i \in 1..n : entries[i].seq > s <=> i > n - len
      BY <2>3 DEF NewerEnd
    <2>8. CASE e.seq > s
      <3>1. /\ r \in Seq(Entry) /\ Len(r) = len + 1
            /\ \A k \in 1..len : r[k] = q[k]
            /\ r[len + 1] = e
        BY <2>4, <2>5, <2>7, <2>8, AppendProperties
      <3>2. ASSUME NEW k \in 1..len + 1 PROVE r[k] = entries[n + 1 - (len + 1) + k]
        <4>1. CASE k \in 1..len
          <5>1. n + 1 - (len + 1) + k = n - len + k
            OBVIOUS
          <5>2. QED BY <2>7, <3>1, <4>1, <5>1
        <4>2. CASE k = len + 1
          <5>1. n + 1 - (len + 1) + k = n + 1
            BY <4>2
          <5>2. QED BY <2>6, <3>1, <4>2, <5>1
        <4>3. QED BY <4>1, <4>2
      <3>3. ASSUME NEW i \in 1..n + 1 PROVE entries[i].seq > s <=> i > n + 1 - (len + 1)
        <4>1. CASE i \in 1..n
          BY <2>7, <4>1
        <4>2. CASE i = n + 1
          BY <2>6, <2>8, <4>2
        <4>3. QED BY <4>1, <4>2
      <3>4. len + 1 \in 0..n + 1
        OBVIOUS
      <3>5. NewerEnd(r, s, n + 1)
        BY <3>1, <3>2, <3>3, <3>4 DEF NewerEnd
      <3>6. QED BY <3>5 DEF r
    <2>9. CASE ~(e.seq > s)
      <3>1. \A i \in 1..n : ~(entries[i].seq > s)
        BY <2>5, <2>9
      <3>2. len = 0
        <4>1. len # 0 => n \in 1..n /\ n > n - len
          OBVIOUS
        <4>2. QED BY <2>7, <3>1, <4>1
      <3>3. r \in Seq(Entry) /\ Len(r) = 0
        BY <2>4, <2>7, <2>9, <3>2
      <3>4. ASSUME NEW i \in 1..n + 1 PROVE entries[i].seq > s <=> i > n + 1 - 0
        <4>1. CASE i \in 1..n
          BY <3>1, <4>1
        <4>2. CASE i = n + 1
          BY <2>6, <2>9, <4>2
        <4>3. QED BY <4>1, <4>2
      <3>5. 0 \in 0..n + 1 /\ 1..0 = {}
        OBVIOUS
      <3>6. NewerEnd(r, s, n + 1)
        BY <3>3, <3>4, <3>5 DEF NewerEnd
      <3>7. QED BY <3>6 DEF r
    <2>10. QED BY <2>8, <2>9
  <1>8. all \in S
    <2> HIDE DEF S
    <2>1. QED BY <1>3, <1>6, <1>7, AllNat
  <1>9. NewerEnd(out[all], s, all)
    BY <1>8
  <1>10. QED BY <1>2, <1>3, <1>9
-----------------------------------------------------------------------------
(***************************************************************************)
(* The view.                                                               *)
(***************************************************************************)
\* A poll that has been asked has a sequence, one that has been answered a batch.
LEMMA PollIs ==
  ASSUME TypeOK, NEW p \in Polls
  PROVE  /\ polls[p].state = "asked" => polls[p].since \in Nat
         /\ polls[p].state = "answered" => polls[p].batch \in Seq(Entry)
  <1>1. polls[p] \in Poll
    BY DEF TypeOK
  <1>2. QED BY <1>1 DEF Poll, Idle

\* As much of a batch as fits ends up at the end of the view.
LEMMA DeliveredView ==
  ASSUME TypeOK, NEW p \in Polls, Deliver(p), polls[p].batch # <<>>
  PROVE  LET batch == polls[p].batch
             held  == Len(connections')
         IN  /\ batch \in Seq(Entry) /\ Len(batch) \in Nat \ {0} /\ batch[Len(batch)] \in Entry
             /\ connections' \in Seq(Entry)
             /\ Len(connections') \in 1..ViewLimit
             /\ connSeq' = batch[Len(batch)].seq
             /\ cursor' = RestoredCursor(connections', SelectedConnection)
             /\ listed' = listed \cup {connections'[i] : i \in 1..held}
             /\ held < ViewLimit => held >= Len(batch)
             /\ \A k \in 1..Len(batch) : k > Len(batch) - held => batch[k] \in listed'
  <1> DEFINE batch == polls[p].batch
             all == connections \o batch
             held == Len(connections')
  <1>1. batch \in Seq(Entry) /\ connections \in Seq(Entry)
    BY PollIs DEF Deliver, TypeOK
  <1>2. /\ connections' = Keep(all, ViewLimit) /\ connSeq' = all[Len(all)].seq
        /\ cursor' = RestoredCursor(connections', SelectedConnection)
        /\ listed' = listed \cup {connections'[i] : i \in 1..held}
    BY DEF Deliver
  <1> HIDE DEF batch
  <1>3. batch # <<>>
    BY DEF batch
  <1>4. Len(batch) \in Nat \ {0} /\ batch[Len(batch)] \in Entry
    BY <1>1, <1>3, EmptySeq
  <1>5. all \in Seq(Entry) /\ Len(all) = Len(connections) + Len(batch) /\ Len(connections) \in Nat
        /\ \A k \in 1..Len(batch) : all[Len(connections) + k] = batch[k]
    BY <1>1, <1>4, ConcatProperties
  <1> HIDE DEF all
  <1>6. /\ connections' \in Seq(Entry)
        /\ held = IF Len(all) > ViewLimit THEN ViewLimit ELSE Len(all)
        /\ \A i \in 1..held : connections'[i] = all[Len(all) - held + i]
    <2>1. /\ Keep(all, ViewLimit) \in Seq(Entry)
          /\ Len(Keep(all, ViewLimit)) = IF Len(all) > ViewLimit THEN ViewLimit ELSE Len(all)
          /\ \A i \in 1..Len(Keep(all, ViewLimit)) :
               Keep(all, ViewLimit)[i] = all[Len(all) - Len(Keep(all, ViewLimit)) + i]
      BY <1>5, KeepIsASuffix, ViewAssumption
    <2>2. QED BY <1>2, <2>1, Zenon
  <1> DEFINE room == Len(all)
             came == Len(batch)
             had == Len(connections)
  <1>7. held \in 1..ViewLimit /\ (held < ViewLimit => held >= came)
    <2>1. /\ room = had + came /\ had \in Nat /\ came \in Nat \ {0}
          /\ held = IF room > ViewLimit THEN ViewLimit ELSE room
      BY <1>4, <1>5, <1>6
    <2> HIDE DEF room, came, had, held
    <2>2. QED BY <2>1, ViewAssumption
  <1>8. connSeq' = batch[Len(batch)].seq
    BY <1>2, <1>4, <1>5
  <1> HIDE DEF held
  <1>9. held < ViewLimit => held >= Len(batch)
    BY <1>7
  <1>10. ASSUME NEW k \in 1..Len(batch), k > Len(batch) - held PROVE batch[k] \in listed'
    <2> DEFINE i == k - (Len(batch) - held)
    <2>1. i \in 1..held /\ Len(all) - held + i = Len(connections) + k
      BY <1>4, <1>5, <1>7, <1>10
    <2>2. batch[k] = connections'[i]
      BY <1>5, <1>6, <2>1
    <2> HIDE DEF i
    <2>3. QED BY <1>2, <2>1, <2>2
  <1>11. QED BY <1>1, <1>2, <1>4, <1>6, <1>7, <1>8, <1>9, <1>10 DEF batch, held

\* The cursor comes to be on what it was on, wherever that is now, or on the
\* newest decision.
LEMMA CursorIsRestored ==
  ASSUME NEW view, Len(view) \in Nat \ {0}, NEW selected
  PROVE  /\ RestoredCursor(view, selected) \in 1..Len(view)
         /\ selected # 0 /\ (\E i \in 1..Len(view) : view[i].seq = selected) =>
              view[RestoredCursor(view, selected)].seq = selected
  <1> DEFINE found == {i \in 1..Len(view) : view[i].seq = selected}
  <1>1. CASE selected # 0 /\ found # {}
    <2>1. \E i \in found : \A j \in found : i <= j
      <3>1. found \in SUBSET Nat
        OBVIOUS
      <3> HIDE DEF found
      <3>2. QED BY <1>1, <3>1, LeastNat
    <2>2. RestoredCursor(view, selected) \in found
      BY <1>1, <2>1 DEF RestoredCursor
    <2>3. QED BY <2>2
  <1>2. CASE ~(selected # 0 /\ found # {})
    <2>1. RestoredCursor(view, selected) = Len(view)
      BY <1>2 DEF RestoredCursor
    <2>2. QED BY <1>2, <2>1
  <1>3. QED BY <1>1, <1>2

\* The types are kept: what is listed and held are decisions, and the cursor is
\* within the list.
LEMMA TypeStep ==
  ASSUME TypeOK, LogIsDense, [Next]_vars
  PROVE  TypeOK'
  <1>1. CASE Decide
    BY <1>1, RecordKeepsDense DEF Decide, TypeOK, viewVars
  <1>2. CASE Restart
    BY <1>2 DEF Restart, NewLog, TypeOK, LogTypeOK, viewVars
  <1>3. CASE MoveCursor
    <2>1. cursor' \in 1..Len(connections) /\ Len(connections) \in Nat /\ Len(connections) <= ViewLimit
      BY <1>3 DEF MoveCursor, TypeOK
    <2>2. cursor' \in 1..ViewLimit
      BY <2>1, ViewAssumption
    <2>3. QED BY <1>3, <2>2 DEF MoveCursor, TypeOK, LogTypeOK, logVars
  <1>4. ASSUME NEW p \in Polls, Ask(p) PROVE TypeOK'
    <2>1. [state |-> "asked", since |-> connSeq] \in Poll
      BY DEF TypeOK, Poll
    <2>2. polls' \in [Polls -> Poll]
      BY <1>4, <2>1 DEF Ask, TypeOK
    <2>3. QED BY <1>4, <2>2 DEF Ask, TypeOK, LogTypeOK, logVars, viewVars
  <1>5. ASSUME NEW p \in Polls, Answer(p) PROVE TypeOK'
    <2>1. Since(polls[p].since) \in Seq(Entry)
      <3>1. NewerEnd(Since(polls[p].since), polls[p].since, Len(entries))
        BY <1>5, PollIs, SinceIsTheNewerEnd DEF Answer, TypeOK
      <3>2. QED BY <3>1 DEF NewerEnd
    <2>2. [state |-> "answered", batch |-> Since(polls[p].since)] \in Poll
      BY <2>1 DEF Poll
    <2>3. polls' \in [Polls -> Poll]
      BY <1>5, <2>2 DEF Answer, TypeOK
    <2>4. QED BY <1>5, <2>3 DEF Answer, TypeOK, LogTypeOK, logVars, viewVars
  <1>6. ASSUME NEW p \in Polls, PollFails(p) PROVE TypeOK'
    <2>1. polls' \in [Polls -> Poll]
      BY <1>6 DEF PollFails, TypeOK, Poll
    <2>2. QED BY <1>6, <2>1 DEF PollFails, TypeOK, LogTypeOK, logVars, viewVars
  <1>7. ASSUME NEW p \in Polls, Deliver(p) PROVE TypeOK'
    <2>1. polls' \in [Polls -> Poll] /\ UNCHANGED logVars
      BY <1>7 DEF Deliver, TypeOK, Poll
    <2>2. CASE polls[p].batch = <<>>
      BY <1>7, <2>1, <2>2 DEF Deliver, TypeOK, LogTypeOK, logVars, viewVars
    <2>3. CASE polls[p].batch # <<>>
      <3> DEFINE batch == polls[p].batch
      <3>1. /\ batch \in Seq(Entry) /\ Len(batch) \in Nat \ {0} /\ batch[Len(batch)] \in Entry
            /\ connections' \in Seq(Entry) /\ Len(connections') \in 1..ViewLimit
            /\ connSeq' = batch[Len(batch)].seq
            /\ cursor' = RestoredCursor(connections', SelectedConnection)
            /\ listed' = listed \cup {connections'[i] : i \in 1..Len(connections')}
        BY <1>7, <2>3, DeliveredView
      <3> HIDE DEF batch
      <3>2. connSeq' \in Nat
        BY <3>1 DEF Entry
      <3>3. cursor' \in 1..Len(connections')
        BY <3>1, CursorIsRestored
      <3>4. listed' \subseteq Entry
        BY <3>1 DEF TypeOK
      <3>5. cursor' \in 1..ViewLimit /\ Len(connections') <= ViewLimit
        BY <3>1, <3>3, ViewAssumption
      <3>6. QED BY <2>1, <3>1, <3>2, <3>4, <3>5 DEF TypeOK, LogTypeOK, logVars
    <2>4. QED BY <2>2, <2>3
  <1>8. CASE UNCHANGED vars
    BY <1>8 DEF TypeOK, LogTypeOK, vars, logVars, viewVars
  <1>9. QED BY <1>1, <1>2, <1>3, <1>4, <1>5, <1>6, <1>7, <1>8 DEF Next

\* The first daemon's decisions.
First(n) == [seq |-> n, daemon |-> 0]

\* A full list of them, newer than n, has been listed.
Overtaken(n) ==
  \E last \in (n + ViewLimit)..seq : \A j \in (last - ViewLimit + 1)..last : First(j) \in listed

\* A decision of the first daemon has been listed, the log has dropped it, or
\* newer ones have taken its place.
Accounted(n) == First(n) \in listed \/ n <= seq - Len(entries) \/ Overtaken(n)

\* With one daemon, what the dashboard has asked for leaves nothing behind it,
\* and what it has been answered goes on from there without a gap.
Asked(p) ==
  polls[p].state = "asked" => \A n \in 1..polls[p].since : Accounted(n)
Answered(p) ==
  LET batch == polls[p].batch
      last  == batch[Len(batch)].seq
  IN  polls[p].state = "answered" /\ batch # <<>> =>
        /\ last <= seq /\ Len(batch) <= last
        /\ \A k \in 1..Len(batch) : batch[k] = First(last - Len(batch) + k)
        /\ \A n \in 1..(last - Len(batch)) : Accounted(n)
NothingBehind ==
  daemon = 0 =>
    /\ \A n \in 1..connSeq : Accounted(n)
    /\ \A p \in Polls : Asked(p) /\ Answered(p)

FeedInv == TypeOK /\ LogIsDense /\ NothingBehind

\* What is accounted for stays so.
LEMMA AccountedForGood ==
  ASSUME TypeOK, LogIsDense, TypeOK', LogIsDense', daemon' = 0, [Next]_vars
  PROVE  /\ daemon = 0 /\ seq \in Nat /\ seq' \in Nat /\ seq <= seq'
         /\ \A n \in Nat : Accounted(n) => Accounted(n)'
  <1>1. seq \in Nat /\ daemon \in Nat /\ Limit \in Nat \ {0} /\ ViewLimit \in Nat \ {0} /\ seq' \in Nat
    BY LimitAssumption, ViewAssumption DEF TypeOK, LogTypeOK
  <1>2. ASSUME seq <= seq', seq - Len(entries) <= seq' - Len(entries)', listed \subseteq listed',
               seq - Len(entries) \in Nat, seq' - Len(entries)' \in Nat
        PROVE  \A n \in Nat : Accounted(n) => Accounted(n)'
    <2>1. SUFFICES ASSUME NEW n \in Nat, Accounted(n) PROVE Accounted(n)'
      OBVIOUS
    <2>2. CASE First(n) \in listed
      BY <1>2, <2>2 DEF Accounted, First
    <2>3. CASE n <= seq - Len(entries)
      <3>1. n <= seq' - Len(entries)'
        <4>1. \A a, b, c \in Nat : a <= b /\ b <= c => a <= c
          OBVIOUS
        <4>2. QED BY <1>2, <2>3, <4>1
      <3>2. QED BY <3>1 DEF Accounted
    <2>4. CASE Overtaken(n)
      <3>1. PICK last \in (n + ViewLimit)..seq :
                   \A j \in (last - ViewLimit + 1)..last : First(j) \in listed
        BY <2>4 DEF Overtaken
      <3>2. last \in (n + ViewLimit)..seq'
        BY <1>1, <1>2
      <3>3. Overtaken(n)'
        BY <1>2, <3>1, <3>2 DEF Overtaken, First
      <3>4. QED BY <3>3 DEF Accounted
    <2>5. QED BY <2>1, <2>2, <2>3, <2>4 DEF Accounted
  <1>3. /\ seq - Len(entries) \in Nat /\ seq' - Len(entries)' \in Nat
        /\ seq' = seq + 1 => seq - Len(entries) <= seq' - Len(entries)'
    <2> DEFINE len == Len(entries)
               len1 == Len(entries)'
    <2>1. /\ len = IF seq < Limit THEN seq ELSE Limit
          /\ len1 = IF seq' < Limit THEN seq' ELSE Limit
      BY DEF LogIsDense
    <2> HIDE DEF len, len1
    <2>2. /\ seq - len \in Nat /\ seq' - len1 \in Nat
          /\ seq' = seq + 1 => seq - len <= seq' - len1
      <3>1. \A s, t, r \in Nat :
              LET l == IF s < r THEN s ELSE r
                  m == IF t < r THEN t ELSE r
              IN  s - l \in Nat /\ t - m \in Nat /\ (t = s + 1 => s - l <= t - m)
        OBVIOUS
      <3>2. QED BY <1>1, <2>1, <3>1
    <2>3. QED BY <2>2 DEF len, len1
  <1>4. CASE Decide
    <2>1. seq' = seq + 1 /\ daemon' = daemon /\ listed' = listed
      BY <1>4 DEF Decide, Record, viewVars
    <2>2. seq - Len(entries) <= seq' - Len(entries)' /\ seq <= seq'
      BY <1>1, <1>3, <2>1
    <2>3. QED BY <1>1, <1>2, <1>3, <2>1, <2>2
  <1>5. CASE Restart
    BY <1>1, <1>5 DEF Restart, NewLog
  <1>6. CASE UNCHANGED <<seq, entries, daemon>> /\ listed \subseteq listed'
    <2>1. seq - Len(entries) <= seq' - Len(entries)' /\ seq <= seq'
      BY <1>1, <1>3, <1>6
    <2>2. QED BY <1>1, <1>2, <1>3, <1>6, <2>1
  <1>7. ASSUME NEW p \in Polls, Ask(p) \/ Answer(p) \/ PollFails(p) \/ Deliver(p)
        PROVE  UNCHANGED <<seq, entries, daemon>> /\ listed \subseteq listed'
    BY <1>7 DEF Ask, Answer, PollFails, Deliver, logVars, viewVars
  <1>8. CASE MoveCursor \/ UNCHANGED vars
    BY <1>6, <1>8 DEF MoveCursor, vars, logVars, viewVars
  <1>9. QED BY <1>4, <1>5, <1>6, <1>7, <1>8 DEF Next

\* The answer to a poll goes on from what it asks for, or from what the log has
\* dropped, without a gap.
LEMMA AnswerGoesOn ==
  ASSUME TypeOK, LogIsDense, daemon = 0, NEW s \in Nat, \A n \in 1..s : Accounted(n),
         Since(s) # <<>>
  PROVE  LET batch == Since(s)
             last  == batch[Len(batch)].seq
         IN  /\ last <= seq /\ Len(batch) <= last
             /\ \A k \in 1..Len(batch) : batch[k] = First(last - Len(batch) + k)
             /\ \A n \in 1..(last - Len(batch)) : Accounted(n)
  <1> DEFINE batch == Since(s)
  <1>1. LogTypeOK /\ entries \in Seq(Entry)
    BY DEF TypeOK, LogTypeOK
  <1>2. PICK f \in Nat, all \in Nat :
          /\ Len(entries) = all /\ seq = f + all /\ seq - Len(entries) = f
          /\ \A i \in 1..all : entries[i] = [seq |-> f + i, daemon |-> daemon]
    BY <1>1, LogShape
  <1>3. \A i \in 1..all : entries[i] = First(f + i) /\ entries[i].seq = f + i
    BY <1>2 DEF First
  <1>4. NewerEnd(batch, s, all)
    BY <1>1, <1>2, SinceIsTheNewerEnd
  <1> HIDE DEF batch
  <1>5. PICK len \in 0..all :
          /\ batch \in Seq(Entry) /\ Len(batch) = len
          /\ \A k \in 1..len : batch[k] = entries[all - len + k]
          /\ \A i \in 1..all : entries[i].seq > s <=> i > all - len
    BY <1>4 DEF NewerEnd
  <1>6. len # 0
    BY <1>5, EmptySeq DEF batch
  <1>7. ASSUME NEW k \in 1..len PROVE batch[k] = First(f + all - len + k)
    <2>1. all - len + k \in 1..all /\ f + (all - len + k) = f + all - len + k
      OBVIOUS
    <2>2. QED BY <1>3, <1>5, <2>1
  <1>8. batch[len].seq = f + all
    <2>1. len \in 1..len /\ f + all - len + len = f + all
      BY <1>6
    <2>2. batch[len] = First(f + all)
      BY <1>7, <2>1
    <2>3. QED BY <2>2 DEF First
  <1>9. ASSUME NEW n \in 1..(f + all - len) PROVE Accounted(n)
    <2>1. CASE n <= f
      BY <1>2, <2>1 DEF Accounted
    <2>2. CASE n > f
      <3>1. PICK i \in Nat : i = n - f
        BY <2>2
      <3>2. i \in 1..all /\ ~(i > all - len) /\ f + i = n
        BY <2>2, <3>1
      <3>3. ~(entries[i].seq > s) /\ entries[i].seq = n
        <4>1. ~(entries[i].seq > s)
          BY <1>5, <3>2
        <4>2. entries[i].seq = n
          BY <1>3, <3>2
        <4>3. QED BY <4>1, <4>2
      <3>4. n \in 1..s
        BY <3>3
      <3>5. QED BY <3>4
    <2>3. QED BY <2>1, <2>2
  <1>10. f + all <= seq /\ len <= f + all
    BY <1>2
  <1>11. QED BY <1>5, <1>7, <1>8, <1>9, <1>10 DEF batch

\* What is delivered is listed, or a full list of newer ones with it.
LEMMA DeliveryAccounts ==
  ASSUME TypeOK, TypeOK', NEW p \in Polls, Deliver(p), polls[p].batch # <<>>,
         Answered(p), daemon = 0, \A n \in Nat : Accounted(n) => Accounted(n)',
         NEW n \in 1..connSeq'
  PROVE  Accounted(n)'
  <1> DEFINE batch == polls[p].batch
             held  == Len(connections')
             last  == connSeq'
  <1>1. /\ batch \in Seq(Entry) /\ Len(batch) \in Nat \ {0}
        /\ held \in 1..ViewLimit /\ last = batch[Len(batch)].seq
        /\ held < ViewLimit => held >= Len(batch)
        /\ \A k \in 1..Len(batch) : k > Len(batch) - held => batch[k] \in listed'
    BY DeliveredView
  <1>2. /\ last <= seq /\ Len(batch) <= last
        /\ \A k \in 1..Len(batch) : batch[k] = First(last - Len(batch) + k)
        /\ \A m \in 1..(last - Len(batch)) : Accounted(m)
    BY <1>1 DEF Answered, Deliver
  <1>3. last \in Nat /\ seq \in Nat /\ seq' = seq /\ ViewLimit \in Nat \ {0} /\ n \in Nat
    BY ViewAssumption DEF TypeOK, LogTypeOK, Deliver, logVars
  <1>4. \A j \in 1..last : j > last - Len(batch) /\ j > last - held => First(j) \in listed'
    <2>1. SUFFICES ASSUME NEW j \in 1..last, j > last - Len(batch), j > last - held
                   PROVE  First(j) \in listed'
      OBVIOUS
    <2> DEFINE len == Len(batch)
    <2>2. /\ len \in Nat /\ len <= last /\ held \in Nat /\ last \in Nat
          /\ j > last - len /\ j > last - held
      BY <1>1, <1>2, <1>3, <2>1
    <2> HIDE DEF batch, held, last, len
    <2>3. PICK k \in 1..len : k > len - held /\ last - len + k = j
      <3>1. j - (last - len) \in 1..len /\ j - (last - len) > len - held
            /\ last - len + (j - (last - len)) = j
        BY <2>2
      <3>2. QED BY <3>1
    <2>4. k \in 1..Len(batch) /\ k > Len(batch) - held /\ last - Len(batch) + k = j
      BY <2>3 DEF len
    <2>5. QED BY <1>1, <1>2, <2>4
  <1> HIDE DEF batch, held
  <1>5. CASE n <= last - Len(batch)
    BY <1>1, <1>2, <1>3, <1>5
  <1>6. CASE n > last - Len(batch) /\ n > last - held
    BY <1>4, <1>6 DEF Accounted, First
  <1>7. CASE n > last - Len(batch) /\ ~(n > last - held)
    <2>1. held = ViewLimit /\ held < Len(batch)
      BY <1>1, <1>2, <1>3, <1>7
    <2>2. last \in (n + ViewLimit)..seq'
      BY <1>1, <1>2, <1>3, <1>7, <2>1
    <2>3. \A j \in (last - ViewLimit + 1)..last : First(j) \in listed'
      <3>1. SUFFICES ASSUME NEW j \in (last - ViewLimit + 1)..last PROVE First(j) \in listed'
        OBVIOUS
      <3>2. j \in 1..last /\ j > last - Len(batch) /\ j > last - held
        BY <1>1, <1>2, <1>3, <2>1
      <3>3. QED BY <1>4, <3>2
    <2>4. Overtaken(n)'
      BY <2>2, <2>3 DEF Overtaken, First
    <2>5. QED BY <2>4 DEF Accounted
  <1>8. QED BY <1>1, <1>2, <1>3, <1>5, <1>6, <1>7

\* Nothing is left behind by any step.
LEMMA NothingBehindStep ==
  ASSUME FeedInv, TypeOK', LogIsDense', [Next]_vars
  PROVE  NothingBehind'
  <1>1. SUFFICES ASSUME daemon' = 0
                 PROVE  /\ \A n \in 1..connSeq' : Accounted(n)'
                        /\ \A p \in Polls : Asked(p)' /\ Answered(p)'
    BY DEF NothingBehind
  <1>2. /\ TypeOK /\ LogIsDense /\ daemon = 0
        /\ seq \in Nat /\ seq' \in Nat /\ seq <= seq'
        /\ \A n \in Nat : Accounted(n) => Accounted(n)'
    BY <1>1, AccountedForGood DEF FeedInv
  <1>3. /\ \A n \in 1..connSeq : Accounted(n)
        /\ \A p \in Polls : Asked(p) /\ Answered(p)
        /\ connSeq \in Nat /\ DOMAIN polls = Polls
    BY <1>2 DEF FeedInv, NothingBehind, TypeOK
  <1>4. ASSUME NEW q \in Polls, polls'[q] = polls[q] PROVE Asked(q)' /\ Answered(q)'
    <2>1. Asked(q)'
      BY <1>2, <1>3, <1>4 DEF Asked
    <2>2. Answered(q)'
      <3> DEFINE batch == polls[q].batch
                 last  == batch[Len(batch)].seq
      <3>1. SUFFICES ASSUME polls[q].state = "answered", batch # <<>>
                     PROVE  /\ last <= seq' /\ Len(batch) <= last
                            /\ \A k \in 1..Len(batch) : batch[k] = First(last - Len(batch) + k)
                            /\ \A n \in 1..(last - Len(batch)) : Accounted(n)'
        BY <1>4 DEF Answered, First
      <3>2. /\ last <= seq /\ Len(batch) <= last
            /\ \A k \in 1..Len(batch) : batch[k] = First(last - Len(batch) + k)
            /\ \A n \in 1..(last - Len(batch)) : Accounted(n)
        BY <1>3, <3>1 DEF Answered
      <3>3. last \in Nat
        <4>1. batch \in Seq(Entry)
          BY <1>2, <3>1, PollIs
        <4> HIDE DEF batch
        <4>2. batch[Len(batch)] \in Entry
          BY <3>1, <4>1, EmptySeq
        <4>3. QED BY <4>2 DEF Entry
      <3> HIDE DEF batch, last
      <3>4. last <= seq'
        BY <1>2, <3>2, <3>3
      <3>5. QED BY <1>2, <3>2, <3>4
    <2>3. QED BY <2>1, <2>2
  <1>5. ASSUME NEW q \in Polls, polls'[q] = Idle PROVE Asked(q)' /\ Answered(q)'
    BY <1>5 DEF Asked, Answered, Idle
  <1>6. ASSUME connSeq' = connSeq PROVE \A n \in 1..connSeq' : Accounted(n)'
    BY <1>2, <1>3, <1>6
  <1>7. CASE UNCHANGED <<polls, connSeq>>
    BY <1>4, <1>6, <1>7
  <1>8. CASE Decide \/ Restart \/ MoveCursor \/ UNCHANGED vars
    BY <1>7, <1>8 DEF Decide, Restart, MoveCursor, vars, viewVars
  <1>9. ASSUME NEW p \in Polls, Ask(p)
        PROVE  /\ \A n \in 1..connSeq' : Accounted(n)'
               /\ \A q \in Polls : Asked(q)' /\ Answered(q)'
    <2>1. polls' = [polls EXCEPT ![p] = [state |-> "asked", since |-> connSeq]] /\ connSeq' = connSeq
      BY <1>9 DEF Ask, viewVars
    <2>2. polls'[p].state = "asked" /\ polls'[p].since = connSeq
      BY <1>3, <2>1
    <2>3. Asked(p)' /\ Answered(p)'
      BY <1>6, <2>1, <2>2 DEF Asked, Answered
    <2>4. \A q \in Polls : q # p => polls'[q] = polls[q]
      BY <1>3, <2>1
    <2>5. QED BY <1>4, <1>6, <2>1, <2>3, <2>4
  <1>10. ASSUME NEW p \in Polls, Answer(p)
         PROVE  /\ \A n \in 1..connSeq' : Accounted(n)'
                /\ \A q \in Polls : Asked(q)' /\ Answered(q)'
    <2> DEFINE s == polls[p].since
               batch == Since(s)
               last == batch[Len(batch)].seq
    <2>1. /\ polls' = [polls EXCEPT ![p] = [state |-> "answered", batch |-> batch]]
          /\ connSeq' = connSeq /\ polls[p].state = "asked" /\ seq' = seq
      BY <1>10 DEF Answer, viewVars, logVars
    <2>2. polls'[p].state = "answered" /\ polls'[p].batch = batch
      BY <1>3, <2>1
    <2>3. s \in Nat /\ \A n \in 1..s : Accounted(n)
      BY <1>2, <1>3, <2>1, PollIs DEF Asked
    <2> HIDE DEF s
    <2>4. ASSUME batch # <<>>
          PROVE  /\ last <= seq /\ Len(batch) <= last
                 /\ \A k \in 1..Len(batch) : batch[k] = First(last - Len(batch) + k)
                 /\ \A n \in 1..(last - Len(batch)) : Accounted(n)
      BY <1>2, <2>3, <2>4, AnswerGoesOn
    <2> HIDE DEF batch
    <2>5. Asked(p)'
      BY <2>2 DEF Asked
    <2>6. Answered(p)'
      <3>1. batch # <<>> =>
              /\ last <= seq' /\ Len(batch) <= last
              /\ \A k \in 1..Len(batch) : batch[k] = First(last - Len(batch) + k)
              /\ \A n \in 1..(last - Len(batch)) : Accounted(n)'
        BY <1>2, <2>1, <2>4
      <3>2. QED BY <2>2, <3>1 DEF Answered, First
    <2>7. \A q \in Polls : q # p => polls'[q] = polls[q]
      BY <1>3, <2>1
    <2>8. QED BY <1>4, <1>6, <2>1, <2>5, <2>6, <2>7
  <1>11. ASSUME NEW p \in Polls, PollFails(p)
         PROVE  /\ \A n \in 1..connSeq' : Accounted(n)'
                /\ \A q \in Polls : Asked(q)' /\ Answered(q)'
    <2>1. polls' = [polls EXCEPT ![p] = Idle] /\ connSeq' = connSeq
      BY <1>11 DEF PollFails, viewVars
    <2>2. \A q \in Polls : polls'[q] = IF q = p THEN Idle ELSE polls[q]
      BY <1>3, <2>1
    <2>3. QED BY <1>4, <1>5, <1>6, <2>1, <2>2
  <1>12. ASSUME NEW p \in Polls, Deliver(p)
         PROVE  /\ \A n \in 1..connSeq' : Accounted(n)'
                /\ \A q \in Polls : Asked(q)' /\ Answered(q)'
    <2>1. polls' = [polls EXCEPT ![p] = Idle]
      BY <1>12 DEF Deliver
    <2>2. \A q \in Polls : polls'[q] = IF q = p THEN Idle ELSE polls[q]
      BY <1>3, <2>1
    <2>3. \A n \in 1..connSeq' : Accounted(n)'
      <3>1. CASE polls[p].batch = <<>>
        <4>1. connSeq' = connSeq
          BY <1>12, <3>1 DEF Deliver, viewVars
        <4>2. QED BY <1>6, <4>1
      <3>2. CASE polls[p].batch # <<>>
        BY <1>2, <1>3, <1>12, <3>2, DeliveryAccounts
      <3>3. QED BY <3>1, <3>2
    <2>4. QED BY <1>4, <1>5, <2>2, <2>3
  <1>13. QED BY <1>8, <1>9, <1>10, <1>11, <1>12 DEF Next

\* The inductive invariant of the network panel and the log under it.
THEOREM FeedInvariant == Spec => []FeedInv
  <1>1. Init => FeedInv
    <2> SUFFICES ASSUME Init PROVE FeedInv
      OBVIOUS
    <2>1. LogTypeOK /\ LogIsDense
      BY LimitAssumption DEF Init, LogInit, LogTypeOK, LogIsDense
    <2>2. TypeOK
      BY <2>1, ViewAssumption DEF Init, TypeOK, Poll
    <2>3. NothingBehind
      BY DEF Init, NothingBehind, Asked, Answered, Idle
    <2>4. QED BY <2>1, <2>2, <2>3 DEF FeedInv
  <1>2. FeedInv /\ [Next]_vars => FeedInv'
    <2> SUFFICES ASSUME FeedInv, [Next]_vars PROVE FeedInv'
      OBVIOUS
    <2>1. LogTypeOK /\ LogIsDense /\ TypeOK
      BY DEF FeedInv, TypeOK
    <2>2. LogIsDense'
      BY <2>1, DenseStep
    <2>3. TypeOK'
      BY <2>1, TypeStep
    <2>4. QED BY <2>2, <2>3, NothingBehindStep DEF FeedInv
  <1>3. QED BY <1>1, <1>2, PTL DEF Spec

\* Every variable keeps its type: what is on screen are decisions, no more of them
\* than fit, and the cursor is within the list.
THEOREM FeedTypes == Spec => []TypeOK
  <1>1. FeedInv => TypeOK
    BY DEF FeedInv
  <1>2. QED BY <1>1, FeedInvariant, PTL

\* Whatever the daemon decides, restarts included, the log holds the latest
\* decisions without a gap and never more than its limit.
THEOREM LogDense == Spec => []LogIsDense
  <1>1. FeedInv => LogIsDense
    BY DEF FeedInv
  <1>2. QED BY <1>1, FeedInvariant, PTL

\* However polls overlap and overtake each other, a decision of its one daemon
\* that the dashboard has passed over without listing it is one the log dropped,
\* or one that a full list of newer decisions left no room for.
THEOREM NoneIsSkipped == Spec => []NothingIsSkipped
  <1>1. FeedInv => NothingIsSkipped
    <2> SUFFICES ASSUME FeedInv, daemon = 0, NEW i \in Skipped
                 PROVE  i <= seq - Len(entries) \/ Displaced(i)
      BY DEF NothingIsSkipped
    <2>1. i \in 1..connSeq /\ First(i) \notin listed
      BY DEF Skipped, Decision, First
    <2>2. Accounted(i)
      BY <2>1 DEF FeedInv, NothingBehind
    <2>3. Overtaken(i) => Displaced(i)
      BY DEF Overtaken, Displaced, Decision, First
    <2>4. QED BY <2>1, <2>2, <2>3 DEF Accounted
  <1>2. QED BY <1>1, FeedInvariant, PTL

\* A batch that arrives leaves the cursor on the decision it was on, as long as
\* that is held.
THEOREM CursorStays == Spec => CursorStaysOnDecision
  <1> DEFINE Stays ==
        connections' # connections /\ SelectedConnection # 0 =>
          \/ SelectedConnection' = SelectedConnection
          \/ \A i \in 1..Len(connections') : connections'[i].seq # SelectedConnection
  <1>1. TypeOK /\ [Next]_vars => [Stays]_vars
    <2> SUFFICES ASSUME TypeOK, Next, connections' # connections, SelectedConnection # 0,
                        \E i \in 1..Len(connections') : connections'[i].seq = SelectedConnection
                 PROVE  SelectedConnection' = SelectedConnection
      BY DEF vars, viewVars
    <2>1. PICK p \in Polls : Deliver(p) /\ polls[p].batch # <<>>
      BY DEF Next, Decide, Restart, MoveCursor, Ask, Answer, PollFails, Deliver, viewVars
    <2>2. /\ Len(connections') \in Nat \ {0}
          /\ cursor' = RestoredCursor(connections', SelectedConnection)
      BY <2>1, DeliveredView
    <2>3. /\ cursor' \in 1..Len(connections')
          /\ connections'[cursor'].seq = SelectedConnection
      BY <2>2, CursorIsRestored
    <2>4. QED BY <2>2, <2>3 DEF SelectedConnection
  <1>2. QED BY <1>1, FeedTypes, PTL DEF Spec, CursorStaysOnDecision
=============================================================================
