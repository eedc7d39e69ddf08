---------------------------- MODULE EgressProofs ----------------------------
(***************************************************************************)
(* Theorems about EgressPolicy, and about the proxy that decides by it.    *)
(***************************************************************************)
EXTENDS Proxy, SequenceTheorems, WellFoundedInduction, TLAPS

\* First picks a member of its set; which one matters to a verdict's pattern
\* only, so the set alone decides whether a target is allowed.
LEMMA AllowedByCases ==
  ASSUME NEW p, NEW t
  PROVE  Check(p, t).allowed =
           (/\ ~IsPrivate(t)
            /\ Matching(p.rules, t, FALSE) = {}
            /\ \/ Matching(p.rules, t, TRUE) # {}
               \/ p.preset = "open"
               \/ InPreset(p.preset, t) # {})
  BY DEF Check, Verdict

\* No policy hands a sandbox an address that is not public: Check refuses its
\* literal before any rule or preset is consulted.
THEOREM PrivateIsOutOfReach ==
  ASSUME NEW p, NEW t, t.host \in DOMAIN Literals, ~AllowsAddress(Literals[t.host])
  PROVE  ~Check(p, t).allowed
  BY AllowedByCases DEF IsPrivate

\* A deny rule beats every allow rule and every preset, wherever it stands.
THEOREM DenialsWin ==
  ASSUME NEW p, NEW t, NEW i \in DOMAIN p.rules,
         p.rules[i].allow = FALSE, Matches(p.rules[i].pattern, t)
  PROVE  ~Check(p, t).allowed
  <1>1. i \in Matching(p.rules, t, FALSE)
    BY DEF Matching
  <1> QED
    BY <1>1, AllowedByCases

\* Policies with the same preset and the same rules allow the same targets, in
\* whatever order, and however often, the rules are written.
THEOREM OrderIsIrrelevant ==
  ASSUME NEW p, NEW q, NEW t, p.preset = q.preset,
         {p.rules[i] : i \in DOMAIN p.rules} = {q.rules[i] : i \in DOMAIN q.rules}
  PROVE  Check(p, t).allowed = Check(q, t).allowed
  <1>1. ASSUME NEW a
        PROVE  Matching(p.rules, t, a) = {} <=> Matching(q.rules, t, a) = {}
    <2>1. ASSUME NEW i \in Matching(p.rules, t, a)
          PROVE  Matching(q.rules, t, a) # {}
      <3>1. PICK j \in DOMAIN q.rules : q.rules[j] = p.rules[i]
        BY <2>1 DEF Matching
      <3> QED
        BY <2>1, <3>1 DEF Matching
    <2>2. ASSUME NEW i \in Matching(q.rules, t, a)
          PROVE  Matching(p.rules, t, a) # {}
      <3>1. PICK j \in DOMAIN p.rules : p.rules[j] = q.rules[i]
        BY <2>2 DEF Matching
      <3> QED
        BY <2>2, <3>1 DEF Matching
    <2> QED
      BY <2>1, <2>2
  <1> QED
    BY <1>1, AllowedByCases

\* A leading "*." covers subdomains but not the domain itself.
THEOREM WildcardSparesItsApex ==
  ASSUME NEW apex \in Seq(STRING), apex # <<>>, NEW t, Undotted(t.host) = apex, NEW port
  PROVE  ~Matches([host |-> <<"*">> \o apex, port |-> port], t)
  <1> DEFINE pattern == <<"*">> \o apex
  <1>1. Len(apex) \in Nat \ {0} /\ Len(pattern) = Len(apex) + 1
    BY EmptySeq, ConcatProperties
  <1>2. ~Under(apex, pattern)
    BY <1>1 DEF Under
  <1>3. pattern # <<"*">> /\ pattern # apex
    BY <1>1
  <1> QED
    BY <1>2, <1>3 DEF Matches
-----------------------------------------------------------------------------
\* What EXCEPT needs to know: every one of these is a function of requests.
Shapes ==
  /\ DOMAIN at = Requests /\ DOMAIN target = Requests /\ DOMAIN verdict = Requests
  /\ DOMAIN upstream = Requests /\ DOMAIN inForce = Requests
  /\ log \in Seq(Entry)

\* A request that is not decided yet has the verdict of today's policy among
\* those that would be right; one that has been allowed has its own among them.
Justified(r) ==
  /\ at[r] = "asked" => Check(InForce(file), target[r]) \in inForce[r]
  /\ at[r] \in {"lookup", "dial", "open"} => verdict[r].allowed /\ verdict[r] \in inForce[r]
  /\ at[r] = "open" => AllowsAddress(upstream[r])

Entries(r) == {i \in DOMAIN log : log[i].request = r}
Connected(r) == at[r] \in {"open", "closed"}
OnRecord(r) ==
  IF Connected(r) \/ at[r] = "refused"
  THEN \E i \in Entries(r) : Entries(r) = {i} /\ (log[i].allowed <=> Connected(r))
  ELSE Entries(r) = {}

ProxyInv == Shapes /\ \A r \in Requests : Justified(r) /\ OnRecord(r)

\* A request that has not come is justified and has no entry.
LEMMA InvInit == Init => ProxyInv
  <1> SUFFICES ASSUME Init PROVE ProxyInv
    OBVIOUS
  <1>1. Shapes
    BY DEF Init, Shapes
  <1>2. ASSUME NEW r \in Requests PROVE Justified(r) /\ OnRecord(r)
    BY <1>2 DEF Init, Justified, OnRecord, Entries, Connected
  <1> QED
    BY <1>1, <1>2 DEF ProxyInv

\* An edit adds the verdict of its outcome for the requests still undecided.
LEMMA EditKeepsInv ==
  ASSUME ProxyInv, NEW e \in Editors, EditPolicy(e)
  PROVE  ProxyInv'
  <1>1. Shapes'
    BY DEF ProxyInv, Shapes, EditPolicy, requestVars
  <1>2. ASSUME NEW r \in Requests PROVE Justified(r)' /\ OnRecord(r)'
    <2>1. Justified(r) /\ OnRecord(r)
      BY <1>2 DEF ProxyInv
    <2>2. Justified(r)'
      BY <2>1 DEF Justified, EditPolicy, requestVars
    <2>3. OnRecord(r)'
      BY <2>1 DEF OnRecord, Entries, Connected, EditPolicy, requestVars
    <2> QED
      BY <2>2, <2>3
  <1> QED
    BY <1>1, <1>2 DEF ProxyInv

\* Appending adds one index, and leaves what the others hold.
LEMMA AppendAddsOne ==
  ASSUME NEW S, NEW s \in Seq(S), NEW x \in S
  PROVE  /\ Append(s, x) \in Seq(S)
         /\ \A i \in DOMAIN s : Append(s, x)[i] = s[i]
         /\ Len(s) + 1 \notin DOMAIN s
         /\ DOMAIN Append(s, x) = DOMAIN s \cup {Len(s) + 1}
         /\ Append(s, x)[Len(s) + 1] = x
  <1>1. Len(s) \in Nat /\ DOMAIN s = 1..Len(s)
    OBVIOUS
  <1>2. DOMAIN Append(s, x) = 1..(Len(s) + 1)
    OBVIOUS
  <1>3. ASSUME NEW n \in Nat PROVE 1..(n + 1) = 1..n \cup {n + 1}
    BY SMT
  <1>4. ASSUME NEW n \in Nat PROVE n + 1 \notin 1..n
    BY SMT
  <1>5. \A i \in 1..Len(s) : Append(s, x)[i] = s[i]
    OBVIOUS
  <1>6. Append(s, x) \in Seq(S) /\ Append(s, x)[Len(s) + 1] = x
    OBVIOUS
  <1> QED
    BY <1>1, <1>2, <1>3, <1>4, <1>5, <1>6

\* A step that puts a decision of q's on record adds one entry, to q's only.
LEMMA RecordAddsOne ==
  ASSUME log \in Seq(Entry), NEW q \in Requests, NEW allowed \in BOOLEAN,
         NEW reason \in {"policy", "unresolved", "blocked"}, Record(q, allowed, reason)
  PROVE  /\ log' \in Seq(Entry)
         /\ \A i \in DOMAIN log : log'[i] = log[i]
         /\ Len(log) + 1 \notin DOMAIN log
         /\ DOMAIN log' = DOMAIN log \cup {Len(log) + 1}
         /\ log'[Len(log) + 1].request = q /\ log'[Len(log) + 1].allowed = allowed
  <1> DEFINE new == [request |-> q, allowed |-> allowed, reason |-> reason]
  <1>1. new \in Entry /\ new.request = q /\ new.allowed = allowed
    BY DEF Entry
  <1>2. log' = Append(log, new)
    BY DEF Record
  <1> HIDE DEF new
  <1>3. /\ Append(log, new) \in Seq(Entry)
        /\ \A i \in DOMAIN log : Append(log, new)[i] = log[i]
        /\ Len(log) + 1 \notin DOMAIN log
        /\ DOMAIN Append(log, new) = DOMAIN log \cup {Len(log) + 1}
        /\ Append(log, new)[Len(log) + 1] = new
    BY <1>1, AppendAddsOne
  <1> QED
    BY <1>1, <1>2, <1>3

\* The answers: one decision goes on record, and says whether it connects.
LEMMA AnswerKeepsRecord ==
  ASSUME ProxyInv, NEW q \in Requests, NEW allowed \in BOOLEAN,
         NEW reason \in {"policy", "unresolved", "blocked"}, Record(q, allowed, reason),
         at[q] \in {"asked", "lookup", "dial"},
         at' = [at EXCEPT ![q] = IF allowed THEN "open" ELSE "refused"],
         NEW r \in Requests
  PROVE  OnRecord(r)'
  <1>1. OnRecord(r) /\ log \in Seq(Entry) /\ DOMAIN at = Requests
    BY DEF ProxyInv, Shapes
  <1>2. /\ \A i \in DOMAIN log : log'[i] = log[i]
        /\ Len(log) + 1 \notin DOMAIN log
        /\ DOMAIN log' = DOMAIN log \cup {Len(log) + 1}
        /\ log'[Len(log) + 1].request = q /\ log'[Len(log) + 1].allowed = allowed
    BY <1>1, RecordAddsOne
  <1>3. CASE r = q
    <2>1. Entries(r) = {}
      BY <1>1, <1>3 DEF OnRecord, Connected
    <2>2. Entries(r)' = {Len(log) + 1}
      <3> DEFINE n == Len(log) + 1
      <3>1. \A i \in DOMAIN log : log[i].request # r
        BY <2>1 DEF Entries
      <3> HIDE DEF n
      <3>2. /\ \A i \in DOMAIN log : log'[i] = log[i]
            /\ DOMAIN log' = DOMAIN log \cup {n} /\ log'[n].request = r
        BY <1>2, <1>3 DEF n
      <3>3. Entries(r)' = {n}
        BY <3>1, <3>2 DEF Entries
      <3> QED
        BY <3>3 DEF n
    <2>3. at'[r] = IF allowed THEN "open" ELSE "refused"
      BY <1>1, <1>3
    <2>4. CASE allowed
      <3>1. at'[r] = "open" /\ log'[Len(log) + 1].allowed = TRUE
        BY <2>3, <2>4, <1>2
      <3>2. Connected(r)'
        BY <3>1 DEF Connected
      <3>3. log'[Len(log) + 1].allowed <=> Connected(r)'
        BY <3>1, <3>2
      <3> QED
        BY <2>2, <3>1, <3>2, <3>3 DEF OnRecord
    <2>5. CASE ~allowed
      <3>1. at'[r] = "refused" /\ log'[Len(log) + 1].allowed = FALSE
        BY <2>3, <2>5, <1>2
      <3>2. ~Connected(r)'
        BY <3>1 DEF Connected
      <3>3. log'[Len(log) + 1].allowed <=> Connected(r)'
        BY <3>1, <3>2
      <3> QED
        BY <2>2, <3>1, <3>2, <3>3 DEF OnRecord
    <2> QED
      BY <2>4, <2>5
  <1>4. CASE r # q
    <2>1. Entries(r)' = Entries(r)
      BY <1>2, <1>4 DEF Entries
    <2>2. at'[r] = at[r]
      BY <1>1, <1>4
    <2> QED
      BY <1>1, <1>2, <2>1, <2>2 DEF OnRecord, Connected, Entries
  <1> QED
    BY <1>3, <1>4

\* Every other step leaves the record, and who is answered, as they are.
LEMMA OtherStepsKeepRecord ==
  ASSUME ProxyInv, log' = log, NEW q \in Requests, NEW there,
         at' = [at EXCEPT ![q] = there],
         \/ {at[q], there} \subseteq {"new", "asked", "lookup", "dial"}
         \/ at[q] = "open" /\ there = "closed",
         NEW r \in Requests
  PROVE  OnRecord(r)'
  <1>1. OnRecord(r) /\ DOMAIN at = Requests
    BY DEF ProxyInv, Shapes
  <1>2. Entries(r)' = Entries(r)
    BY DEF Entries
  <1>3. at'[r] = IF r = q THEN there ELSE at[r]
    BY <1>1
  <1> QED
    BY <1>1, <1>2, <1>3 DEF OnRecord, Connected

\* A step of a request keeps the invariant, its own part and everybody else's.
LEMMA ServeKeepsInv ==
  ASSUME ProxyInv, NEW q \in Requests, Serve(q)
  PROVE  ProxyInv'
  <1>1. Shapes /\ \A r \in Requests : Justified(r)
    BY DEF ProxyInv
  <1>2. CASE Arrive(q)
    <2>1. Shapes'
      BY <1>1, <1>2 DEF Shapes, Arrive, Move
    <2>2. ASSUME NEW r \in Requests PROVE Justified(r)'
      BY <1>1, <1>2 DEF Shapes, Justified, Arrive, Move, policyVars
    <2>3. ASSUME NEW r \in Requests PROVE OnRecord(r)'
      BY <1>2, OtherStepsKeepRecord DEF Arrive, Move
    <2> QED
      BY <2>1, <2>2, <2>3 DEF ProxyInv
  <1>3. CASE Decide(q)
    <2>1. CASE verdict'[q].allowed
      <3>1. Shapes'
        BY <1>1, <1>3, <2>1 DEF Shapes, Decide, Move
      <3>2. ASSUME NEW r \in Requests PROVE Justified(r)'
        BY <1>1, <1>3, <2>1 DEF Shapes, Justified, Decide, Move, policyVars
      <3>3. ASSUME NEW r \in Requests PROVE OnRecord(r)'
        BY <1>3, <2>1, OtherStepsKeepRecord DEF Decide, Move
      <3> QED
        BY <3>1, <3>2, <3>3 DEF ProxyInv
    <2>2. CASE ~verdict'[q].allowed
      <3>0. Move(q, "asked", "refused") /\ Record(q, FALSE, "policy")
        BY <1>3, <2>2 DEF Decide
      <3>1. Shapes'
        BY <1>1, <1>3, <3>0, RecordAddsOne DEF Shapes, Decide, Move
      <3>2. ASSUME NEW r \in Requests PROVE Justified(r)'
        BY <1>1, <1>3, <3>0 DEF Shapes, Justified, Decide, Move, policyVars
      <3>3. ASSUME NEW r \in Requests PROVE OnRecord(r)'
        BY <3>0, AnswerKeepsRecord DEF Move
      <3> QED
        BY <3>1, <3>2, <3>3 DEF ProxyInv
    <2> QED
      BY <2>1, <2>2
  <1>4. CASE Lookup(q)
    <2>1. Shapes'
      BY <1>1, <1>4 DEF Shapes, Lookup, Move
    <2>2. ASSUME NEW r \in Requests PROVE Justified(r)'
      BY <1>1, <1>4 DEF Shapes, Justified, Lookup, Move, policyVars
    <2>3. ASSUME NEW r \in Requests PROVE OnRecord(r)'
      BY <1>4, OtherStepsKeepRecord DEF Lookup, Move
    <2> QED
      BY <2>1, <2>2, <2>3 DEF ProxyInv
  <1>5. CASE LookupFails(q)
    <2>0. Move(q, "lookup", "refused") /\ Record(q, FALSE, "unresolved")
      BY <1>5 DEF LookupFails
    <2>1. Shapes'
      BY <1>1, <1>5, <2>0, RecordAddsOne DEF Shapes, LookupFails, Move
    <2>2. ASSUME NEW r \in Requests PROVE Justified(r)'
      BY <1>1, <1>5, <2>0 DEF Shapes, Justified, LookupFails, Move, policyVars
    <2>3. ASSUME NEW r \in Requests PROVE OnRecord(r)'
      BY <2>0, AnswerKeepsRecord DEF Move
    <2> QED
      BY <2>1, <2>2, <2>3 DEF ProxyInv
  <1>6. CASE Guarded(q) \/ DialFails(q)
    <2>1. at[q] = "dial" /\ UNCHANGED <<policyVars, at, target, verdict, upstream, log, inForce>>
      BY <1>6 DEF Guarded, DialFails, PassOver
    <2>2. Shapes'
      BY <1>1, <2>1 DEF Shapes
    <2>3. ASSUME NEW r \in Requests PROVE Justified(r)'
      BY <1>1, <2>1 DEF Justified, policyVars
    <2>4. ASSUME NEW r \in Requests PROVE OnRecord(r)'
      BY <2>1 DEF ProxyInv, OnRecord, Connected, Entries
    <2> QED
      BY <2>2, <2>3, <2>4 DEF ProxyInv
  <1>7. CASE Dial(q)
    <2>0. Move(q, "dial", "open") /\ Record(q, TRUE, "policy")
      BY <1>7 DEF Dial
    <2>1. Shapes'
      BY <1>1, <1>7, <2>0, RecordAddsOne DEF Shapes, Dial, Move
    <2>2. ASSUME NEW r \in Requests PROVE Justified(r)'
      BY <1>1, <1>7, <2>0 DEF Shapes, Justified, Dial, Move, policyVars
    <2>3. ASSUME NEW r \in Requests PROVE OnRecord(r)'
      BY <2>0, AnswerKeepsRecord DEF Move
    <2> QED
      BY <2>1, <2>2, <2>3 DEF ProxyInv
  <1>8. CASE Exhausted(q)
    <2>0. PICK reason \in {"policy", "blocked"} :
            Move(q, "dial", "refused") /\ Record(q, FALSE, reason)
      BY <1>8 DEF Exhausted
    <2>1. Shapes'
      BY <1>1, <1>8, <2>0, RecordAddsOne DEF Shapes, Exhausted, Move
    <2>2. ASSUME NEW r \in Requests PROVE Justified(r)'
      BY <1>1, <1>8, <2>0 DEF Shapes, Justified, Exhausted, Move, policyVars
    <2>3. ASSUME NEW r \in Requests PROVE OnRecord(r)'
      BY <2>0, AnswerKeepsRecord DEF Move
    <2> QED
      BY <2>1, <2>2, <2>3 DEF ProxyInv
  <1>9. CASE Close(q)
    <2>1. Shapes'
      BY <1>1, <1>9 DEF Shapes, Close, Move
    <2>2. ASSUME NEW r \in Requests PROVE Justified(r)'
      BY <1>1, <1>9 DEF Shapes, Justified, Close, Move, policyVars
    <2>3. ASSUME NEW r \in Requests PROVE OnRecord(r)'
      BY <1>9, OtherStepsKeepRecord DEF Close, Move
    <2> QED
      BY <2>1, <2>2, <2>3 DEF ProxyInv
  <1> QED
    BY <1>2, <1>3, <1>4, <1>5, <1>6, <1>7, <1>8, <1>9 DEF Serve

\* The invariant holds however edits of the policy and steps of requests mix.
THEOREM ProxyInvariant == Spec => []ProxyInv
  <1>1. ASSUME ProxyInv, UNCHANGED vars PROVE ProxyInv'
    <2>1. UNCHANGED <<file, at, target, verdict, upstream, log, inForce>>
      BY <1>1 DEF vars, policyVars, requestVars
    <2> QED
      BY <1>1, <2>1 DEF ProxyInv, Shapes, Justified, OnRecord, Connected, Entries
  <1>2. ProxyInv /\ [Next]_vars => ProxyInv'
    BY <1>1, EditKeepsInv, ServeKeepsInv DEF Next
  <1> QED
    BY InvInit, <1>2, PTL DEF Spec

\* Whatever is edited meanwhile, a connection is open only to a public address
\* and by a verdict that was right at some time since its request came.
THEOREM OpenIsJustified == Spec => []OpenAsThePolicySays
  <1>1. ProxyInv => OpenAsThePolicySays
    BY DEF ProxyInv, Justified, OpenAsThePolicySays
  <1> QED
    BY <1>1, ProxyInvariant, PTL

\* Every answered request is on record once, as what became of it.
THEOREM EveryDecisionIsOnRecord == Spec => []OneDecisionOnRecord
  <1>1. ProxyInv => OneDecisionOnRecord
    BY DEF ProxyInv, OnRecord, Connected, Entries, OneDecisionOnRecord
  <1> QED
    BY <1>1, ProxyInvariant, PTL
-----------------------------------------------------------------------------
(***************************************************************************)
(* Rules without those for a pattern.                                      *)
(***************************************************************************)
\* Natural numbers have a least one in every set that is not empty,
LEMMA LeastNat ==
  ASSUME NEW T \in SUBSET Nat, T # {}
  PROVE  \E x \in T : \A y \in T : x <= y
  <1>1. PICK x \in T : \A y \in T : ~(<<y, x>> \in OpToRel(<, Nat))
    BY NatLessThanWellFounded, WFMin
  <1>2. ASSUME NEW y \in T PROVE x <= y
    <2>1. y \in Nat /\ x \in Nat
      OBVIOUS
    <2>2. ~(y < x)
      BY <1>1, <2>1 DEF OpToRel
    <2>3. QED BY <2>1, <2>2
  <1>3. QED BY <1>2

\* and so a set that holds zero and the successor of each it holds has them all.
LEMMA AllNat ==
  ASSUME NEW S, 0 \in S, \A n \in Nat : n \in S => n + 1 \in S
  PROVE  Nat \subseteq S
  <1>1. SUFFICES ASSUME Nat \ S # {} PROVE FALSE
    OBVIOUS
  <1>2. PICK x \in Nat \ S : \A y \in Nat \ S : x <= y
    BY <1>1, LeastNat
  <1>3. x - 1 \in Nat /\ x - 1 + 1 = x
    BY <1>2
  <1>4. x - 1 \in S
    BY <1>2, <1>3
  <1>5. QED BY <1>2, <1>3, <1>4

\* Without, as far as the n-th rule.
Sieve(kept, rules, p, n) ==
  kept = [i \in 0..n |->
            IF i = 0 THEN <<>>
            ELSE IF rules[i].pattern # p THEN Append(kept[i - 1], rules[i])
            ELSE kept[i - 1]]

\* There is such a function for every length, and Without is its last value.
LEMMA WithoutSieves ==
  ASSUME NEW R, NEW rules \in Seq(R), NEW p
  PROVE  \E kept : Sieve(kept, rules, p, Len(rules)) /\ Without(rules, p) = kept[Len(rules)]
  <1> DEFINE S == {n \in Nat : \E kept : Sieve(kept, rules, p, n)}
  <1>1. 0 \in S
    <2>1. Sieve([i \in 0..0 |-> <<>>], rules, p, 0)
      BY DEF Sieve
    <2>2. QED BY <2>1
  <1>2. ASSUME NEW n \in Nat, n \in S PROVE n + 1 \in S
    <2>1. PICK f : Sieve(f, rules, p, n)
      BY <1>2
    <2> DEFINE last == IF rules[n + 1].pattern # p THEN Append(f[n], rules[n + 1]) ELSE f[n]
               g == [i \in 0..n + 1 |-> IF i = n + 1 THEN last ELSE f[i]]
    <2> HIDE DEF last
    <2>2. ASSUME NEW i \in 0..n + 1
          PROVE  g[i] = IF i = 0 THEN <<>>
                        ELSE IF rules[i].pattern # p THEN Append(g[i - 1], rules[i])
                        ELSE g[i - 1]
      <3>1. CASE i = n + 1
        <4>1. g[i] = last /\ g[i - 1] = f[n] /\ i # 0
          BY <3>1
        <4>2. QED BY <3>1, <4>1 DEF last
      <3>2. CASE i \in 0..n
        <4>1. g[i] = f[i] /\ (i # 0 => g[i - 1] = f[i - 1])
          BY <3>2
        <4>2. f[i] = IF i = 0 THEN <<>>
                     ELSE IF rules[i].pattern # p THEN Append(f[i - 1], rules[i])
                     ELSE f[i - 1]
          BY <2>1, <3>2 DEF Sieve
        <4> HIDE DEF g
        <4>3. QED BY <4>1, <4>2
      <3>3. QED BY <3>1, <3>2
    <2>3. g = [i \in 0..n + 1 |-> g[i]]
      OBVIOUS
    <2> HIDE DEF g
    <2>4. Sieve(g, rules, p, n + 1)
      BY <2>2, <2>3 DEF Sieve
    <2>5. QED BY <2>4
  <1>3. Len(rules) \in S
    <2> HIDE DEF S
    <2>1. QED BY <1>1, <1>2, AllNat
  <1> DEFINE kept == CHOOSE f : Sieve(f, rules, p, Len(rules))
  <1>4. Sieve(kept, rules, p, Len(rules))
    BY <1>3
  <1>5. Without(rules, p) = kept[Len(rules)]
    BY DEF Without, Sieve
  <1>6. QED BY <1>4, <1>5

\* No two rules are for one pattern.
OneEach(rules) ==
  \A i, j \in DOMAIN rules : rules[i].pattern = rules[j].pattern => i = j

\* Without keeps the rules for other patterns, all of them and no more than once.
LEMMA WithoutIs ==
  ASSUME NEW R, NEW rules \in Seq(R), NEW p
  PROVE  LET kept == Without(rules, p)
         IN  /\ kept \in Seq(R)
             /\ \A k \in 1..Len(kept) : \E i \in 1..Len(rules) :
                  kept[k] = rules[i] /\ rules[i].pattern # p
             /\ \A i \in 1..Len(rules) :
                  rules[i].pattern # p => \E k \in 1..Len(kept) : kept[k] = rules[i]
             /\ OneEach(rules) => OneEach(kept)
  <1>1. PICK out : Sieve(out, rules, p, Len(rules)) /\ Without(rules, p) = out[Len(rules)]
    BY WithoutSieves
  <1>2. Len(rules) \in Nat
    OBVIOUS
  <1> DEFINE
        From(s, n) == \A k \in 1..Len(s) : \E i \in 1..n : s[k] = rules[i] /\ rules[i].pattern # p
        All(s, n) == \A i \in 1..n : rules[i].pattern # p => \E k \in 1..Len(s) : s[k] = rules[i]
        Sifted(s, n) == s \in Seq(R) /\ From(s, n) /\ All(s, n) /\ (OneEach(rules) => OneEach(s))
        S == {n \in Nat : n <= Len(rules) => Sifted(out[n], n)}
  <1>3. 0 \in S
    <2>1. out[0] = <<>> /\ <<>> \in Seq(R) /\ Len(<<>>) = 0
      BY <1>1, <1>2 DEF Sieve
    <2>2. 1..0 = {} /\ DOMAIN <<>> = {}
      OBVIOUS
    <2>3. From(<<>>, 0) /\ All(<<>>, 0) /\ OneEach(<<>>)
      BY <2>1, <2>2 DEF OneEach
    <2>4. Sifted(out[0], 0)
      BY <2>1, <2>3
    <2>5. QED BY <2>4
  <1>4. ASSUME NEW n \in Nat, n \in S PROVE n + 1 \in S
    <2>1. SUFFICES ASSUME n + 1 <= Len(rules) PROVE Sifted(out[n + 1], n + 1)
      OBVIOUS
    <2>2. Sifted(out[n], n) /\ n + 1 \in 1..Len(rules) /\ rules[n + 1] \in R
      BY <1>2, <1>4, <2>1
    <2>3. out[n + 1] = IF rules[n + 1].pattern # p THEN Append(out[n], rules[n + 1]) ELSE out[n]
      <3>1. n + 1 \in 0..Len(rules) /\ n + 1 # 0 /\ n + 1 - 1 = n
        BY <1>2, <2>1
      <3>2. \A m \in 0..Len(rules) :
              out[m] = IF m = 0 THEN <<>>
                       ELSE IF rules[m].pattern # p THEN Append(out[m - 1], rules[m])
                       ELSE out[m - 1]
        BY <1>1 DEF Sieve
      <3>3. QED BY <3>1, <3>2
    <2>4. CASE rules[n + 1].pattern # p
      <3> DEFINE q == out[n]
                 r == out[n + 1]
                 e == rules[n + 1]
      <3>1. /\ r \in Seq(R) /\ q \in Seq(R) /\ Len(q) \in Nat /\ Len(r) = Len(q) + 1
            /\ \A k \in 1..Len(q) : r[k] = q[k]
            /\ r[Len(q) + 1] = e
        BY <2>2, <2>3, <2>4, AppendProperties
      <3>2. From(q, n) /\ All(q, n) /\ (OneEach(rules) => OneEach(q))
        BY <2>2
      <3> HIDE DEF q, r
      <3>0. \A k \in 1..Len(r) : k \in 1..Len(q) \/ k = Len(q) + 1
        BY <3>1
      <3>3. ASSUME NEW k \in 1..Len(r)
            PROVE  \E i \in 1..n + 1 : r[k] = rules[i] /\ rules[i].pattern # p
        <4>1. CASE k \in 1..Len(q)
          <5>1. PICK i \in 1..n : q[k] = rules[i] /\ rules[i].pattern # p
            BY <3>2, <4>1
          <5>2. QED BY <3>1, <4>1, <5>1
        <4>2. CASE k = Len(q) + 1
          BY <2>4, <3>1, <4>2
        <4>3. QED BY <4>1, <4>2, <3>0
      <3>4. ASSUME NEW i \in 1..n + 1, rules[i].pattern # p
            PROVE  \E k \in 1..Len(r) : r[k] = rules[i]
        <4>1. CASE i \in 1..n
          <5>1. PICK k \in 1..Len(q) : q[k] = rules[i]
            BY <3>2, <3>4, <4>1
          <5>2. QED BY <3>1, <5>1
        <4>2. CASE i = n + 1
          BY <3>1, <4>2
        <4>3. QED BY <4>1, <4>2
      <3>5. ASSUME OneEach(rules) PROVE OneEach(r)
        <4>1. ASSUME NEW k \in 1..Len(q) PROVE q[k].pattern # e.pattern
          <5>1. PICK i \in 1..n : q[k] = rules[i]
            BY <3>2
          <5>2. i # n + 1 /\ i \in DOMAIN rules /\ n + 1 \in DOMAIN rules
            BY <2>1, <1>2
          <5>3. QED BY <3>5, <5>1, <5>2 DEF OneEach
        <4>2. DOMAIN r = 1..Len(r) /\ DOMAIN q = 1..Len(q)
          BY <3>1
        <4>3. ASSUME NEW k \in 1..Len(r), NEW l \in 1..Len(r), r[k].pattern = r[l].pattern
              PROVE  k = l
          <5>1. CASE k \in 1..Len(q) /\ l \in 1..Len(q)
            BY <3>1, <3>2, <3>5, <4>2, <4>3, <5>1 DEF OneEach
          <5>2. CASE k \in 1..Len(q) /\ l = Len(q) + 1
            BY <3>1, <4>1, <4>3, <5>2
          <5>3. CASE k = Len(q) + 1 /\ l \in 1..Len(q)
            BY <3>1, <4>1, <4>3, <5>3
          <5>4. QED BY <3>0, <5>1, <5>2, <5>3
        <4>4. QED BY <4>2, <4>3 DEF OneEach
      <3>6. QED BY <3>1, <3>3, <3>4, <3>5 DEF r
    <2>5. CASE ~(rules[n + 1].pattern # p)
      <3>1. out[n + 1] = out[n]
        BY <2>3, <2>5
      <3>2. \A i \in 1..n + 1 : rules[i].pattern # p => i \in 1..n
        BY <2>5
      <3>3. QED BY <2>2, <3>1, <3>2
    <2>6. QED BY <2>4, <2>5
  <1>5. Len(rules) \in S
    <2> HIDE DEF S
    <2>1. QED BY <1>2, <1>3, <1>4, AllNat
  <1>6. QED BY <1>1, <1>2, <1>5
-----------------------------------------------------------------------------
(***************************************************************************)
(* The policy file, and the types.                                         *)
(***************************************************************************)
RuleType == [pattern : Patterns, allow : BOOLEAN]

\* An edited policy is a policy, with one rule for each pattern if it had so.
LEMMA EditedIs ==
  ASSUME PolicyTypeOK, NEW e \in Editors
  PROVE  /\ Edited(e) \in Policy
         /\ OneEach(held[e].rules) => OneEach(Edited(e).rules)
  <1> DEFINE p == task[e].pattern
             rules == held[e].rules
             kept == Without(rules, p)
  <1>1. /\ held[e] \in Policy /\ rules \in Seq(RuleType) /\ held[e].preset \in Presets
        /\ held[e] = [preset |-> held[e].preset, rules |-> rules]
    BY DEF PolicyTypeOK, Policy, RuleType
  <1>2. task[e] \in Task
    BY DEF PolicyTypeOK
  <1>3. task[e].op \in {"allow", "deny", "rm"} => p \in Patterns
    BY <1>2 DEF Task, Presets
  <1>4. task[e].op \in {"allow", "deny", "rm"} \cup Presets
    BY <1>2 DEF Task
  <1>5. /\ kept \in Seq(RuleType)
        /\ OneEach(rules) => OneEach(kept)
        /\ \A k \in 1..Len(kept) : kept[k].pattern # p
    <2>1. /\ kept \in Seq(RuleType)
          /\ \A k \in 1..Len(kept) : \E i \in 1..Len(rules) :
                  kept[k] = rules[i] /\ rules[i].pattern # p
          /\ OneEach(rules) => OneEach(kept)
      BY <1>1, WithoutIs
    <2>2. QED BY <2>1
  <1> HIDE DEF p, rules, kept
  <1>6. CASE task[e].op \in {"allow", "deny"}
    <2> DEFINE new == Rule(p, task[e].op = "allow")
               all == Append(kept, new)
    <2>1. new \in RuleType /\ new.pattern = p
      BY <1>3, <1>6 DEF Rule, RuleType
    <2>2. Edited(e) = [preset |-> held[e].preset, rules |-> all]
      <3>1. Edited(e) = WithRule(held[e], p, task[e].op = "allow")
        BY <1>6 DEF Edited, p, Presets
      <3>2. Edited(e) = [held[e] EXCEPT !.rules = Append(Without(@, p), new)]
        BY <3>1 DEF WithRule
      <3> HIDE DEF new
      <3>3. Append(Without(held[e].rules, p), new) = all
        BY DEF kept, rules
      <3> HIDE DEF all
      <3>4. Edited(e) = [held[e] EXCEPT !.rules = all]
        BY <3>2, <3>3
      <3>5. QED BY <1>1, <3>4
    <2> HIDE DEF new
    <2>3. /\ all \in Seq(RuleType) /\ DOMAIN all = 1..Len(kept) + 1 /\ Len(kept) \in Nat
          /\ \A k \in 1..Len(kept) : all[k] = kept[k]
          /\ all[Len(kept) + 1] = new
          /\ DOMAIN kept = 1..Len(kept)
      BY <1>5, <2>1, AppendProperties
    <2> HIDE DEF all
    <2>4. ASSUME OneEach(rules) PROVE OneEach(all)
      <3>1. SUFFICES ASSUME NEW i \in 1..Len(kept) + 1, NEW j \in 1..Len(kept) + 1,
                            all[i].pattern = all[j].pattern
                     PROVE  i = j
        BY <2>3 DEF OneEach
      <3>2. CASE i \in 1..Len(kept) /\ j \in 1..Len(kept)
        BY <1>5, <2>3, <2>4, <3>1, <3>2 DEF OneEach
      <3>3. CASE i \in 1..Len(kept) /\ j = Len(kept) + 1
        BY <1>5, <2>1, <2>3, <3>1, <3>3
      <3>4. CASE i = Len(kept) + 1 /\ j \in 1..Len(kept)
        BY <1>5, <2>1, <2>3, <3>1, <3>4
      <3>5. \A k \in 1..Len(kept) + 1 : k \in 1..Len(kept) \/ k = Len(kept) + 1
        BY <2>3
      <3>6. QED BY <3>2, <3>3, <3>4, <3>5
    <2>5. QED BY <1>1, <2>2, <2>3, <2>4 DEF Policy, RuleType, rules
  <1>7. CASE task[e].op = "rm"
    <2>1. Edited(e) = WithoutRule(held[e], p)
      BY <1>7 DEF Edited, p, Presets
    <2>2. Edited(e) = [preset |-> held[e].preset, rules |-> kept]
      BY <1>1, <2>1 DEF WithoutRule, rules, kept
    <2>3. QED BY <1>1, <1>5, <2>2 DEF Policy, RuleType, rules
  <1>8. CASE task[e].op \in Presets
    <2>1. Edited(e) = WithPreset(held[e], task[e].op)
      BY <1>8 DEF Edited, Presets
    <2>2. Edited(e) = [preset |-> task[e].op, rules |-> rules]
      BY <1>1, <2>1 DEF WithPreset
    <2>3. QED BY <1>1, <1>8, <2>2 DEF Policy, RuleType, rules
  <1>9. QED BY <1>4, <1>6, <1>7, <1>8

\* A new policy has no rules.
LEMMA NewIs ==
  ASSUME NEW preset \in Presets
  PROVE  New(preset) \in Policy /\ OneEach(New(preset).rules)
  <1>1. <<>> \in Seq([pattern : Patterns, allow : BOOLEAN]) /\ DOMAIN <<>> = {}
    OBVIOUS
  <1>2. QED BY <1>1 DEF New, Policy, OneEach

\* On disk and in every editor's hands, a pattern has one rule.
OneEachHeld ==
  /\ file # NoPolicy => OneEach(file.rules)
  /\ \A e \in Editors : OneEach(held[e].rules)

\* An edit keeps the types of the file and of its editors, and rules apart.
LEMMA EditKeepsFile ==
  ASSUME PolicyTypeOK, OneEachHeld, NEW e \in Editors, Edit(e)
  PROVE  PolicyTypeOK' /\ OneEachHeld'
  <1>1. NoTask \in Task /\ NoCopy \in Policy /\ OneEach(NoCopy.rules)
    <2>1. "balanced" \in Presets /\ "open" \in Presets
      BY DEF Presets
    <2>2. NoTask \in Task
      BY <2>1 DEF NoTask, Task
    <2>3. QED BY <2>1, <2>2, NewIs DEF NoCopy
  <1>2. ASSUME NEW copy \in Policy, OneEach(copy.rules),
               held' = [held EXCEPT ![e] = copy]
        PROVE  held' \in [Editors -> Policy] /\ \A f \in Editors : OneEach(held'[f].rules)
    BY <1>2 DEF PolicyTypeOK, OneEachHeld
  <1>3. ASSUME Finish(e)
        PROVE  /\ task' \in [Editors -> Task]
               /\ step' \in [Editors -> {"idle", "read", "choose", "write"}]
               /\ held' \in [Editors -> Policy] /\ \A f \in Editors : OneEach(held'[f].rules)
    <2>1. held' \in [Editors -> Policy] /\ \A f \in Editors : OneEach(held'[f].rules)
      BY <1>1, <1>2, <1>3 DEF Finish
    <2>2. QED BY <1>1, <1>3, <2>1 DEF Finish, Goto, PolicyTypeOK
  <1>4. CASE Invoke(e)
    <2>1. begun' \in 0..MaxEdits
      BY <1>4, PolicyAssumption DEF Invoke, PolicyTypeOK
    <2>2. task' \in [Editors -> Task]
      BY <1>4 DEF Invoke, PolicyTypeOK
    <2>3. step' \in [Editors -> {"idle", "read", "choose", "write"}]
      BY <1>4 DEF Invoke, Goto, PolicyTypeOK
    <2>4. disturbed' \subseteq {"overlap", "outage"} /\ UNCHANGED <<file, held, asked>>
      BY <1>4 DEF Invoke, PolicyTypeOK
    <2>5. QED BY <2>1, <2>2, <2>3, <2>4 DEF PolicyTypeOK, OneEachHeld
  <1>5. CASE ReadPolicy(e)
    <2>1. file \in Policy /\ OneEach(file.rules)
      BY <1>5 DEF ReadPolicy, PolicyTypeOK, OneEachHeld
    <2>2. held' \in [Editors -> Policy] /\ \A f \in Editors : OneEach(held'[f].rules)
      BY <1>2, <1>5, <2>1 DEF ReadPolicy
    <2>3. QED BY <1>5, <2>2 DEF ReadPolicy, Goto, PolicyTypeOK, OneEachHeld
  <1>6. ASSUME NoneToRead(e), disturbed' \subseteq {"overlap", "outage"}
        PROVE  PolicyTypeOK' /\ OneEachHeld'
    <2>1. CASE task[e].by = "command"
      BY <1>6, <2>1 DEF NoneToRead, Goto, PolicyTypeOK, OneEachHeld
    <2>2. CASE task[e].by # "command"
      <3>1. Finish(e) /\ UNCHANGED <<file, begun, asked>>
        BY <1>6, <2>2 DEF NoneToRead
      <3>2. QED BY <1>3, <1>6, <3>1 DEF PolicyTypeOK, OneEachHeld
    <2>3. QED BY <2>1, <2>2
  <1>7. CASE ReadNone(e) \/ ReadUnreachable(e)
    BY <1>6, <1>7 DEF ReadNone, ReadUnreachable, PolicyTypeOK
  <1>8. CASE Choose(e)
    <2>1. PICK preset \in Presets :
            file' = New(preset) /\ held' = [held EXCEPT ![e] = New(preset)]
      BY <1>8 DEF Choose
    <2>2. New(preset) \in Policy /\ OneEach(New(preset).rules)
      BY NewIs
    <2>3. held' \in [Editors -> Policy] /\ \A f \in Editors : OneEach(held'[f].rules)
      BY <1>2, <2>1, <2>2
    <2>4. QED BY <1>8, <2>1, <2>2, <2>3 DEF Choose, Goto, PolicyTypeOK, OneEachHeld
  <1>9. CASE Write(e)
    <2>1. Finish(e) /\ file' = Edited(e) /\ UNCHANGED <<begun, disturbed>>
      BY <1>9 DEF Write
    <2>2. Edited(e) \in Policy /\ OneEach(Edited(e).rules)
      BY EditedIs DEF OneEachHeld
    <2>3. asked' \in [Patterns -> {"allow", "deny", "rm"}]
      <3>1. CASE task[e].op \in Presets
        BY <1>9, <3>1 DEF Write, PolicyTypeOK
      <3>2. CASE task[e].op \notin Presets
        <4>1. task[e] \in Task
          BY DEF PolicyTypeOK
        <4>2. task[e].op \in {"allow", "deny", "rm"}
          BY <3>2, <4>1 DEF Task
        <4>3. asked' = [asked EXCEPT ![task[e].pattern] = task[e].op]
          BY <1>9, <3>2 DEF Write
        <4>4. QED BY <4>2, <4>3 DEF PolicyTypeOK
      <3>3. QED BY <3>1, <3>2
    <2>4. QED BY <1>3, <2>1, <2>2, <2>3 DEF PolicyTypeOK, OneEachHeld
  <1>10. CASE GiveUp(e)
    BY <1>3, <1>10 DEF GiveUp, PolicyTypeOK, OneEachHeld
  <1>11. QED BY <1>4, <1>5, <1>7, <1>8, <1>9, <1>10 DEF Edit

\* The verdict on a target either allows it or does not.
LEMMA CheckIsBoolean ==
  ASSUME NEW p, NEW t
  PROVE  Check(p, t).allowed \in BOOLEAN
  BY AllowedByCases

\* A step of a request leaves the policy and its editors alone, and keeps types.
LEMMA ServeKeepsTypes ==
  ASSUME TypeOK, Shapes, NEW r \in Requests, Serve(r)
  PROVE  TypeOK' /\ UNCHANGED policyVars
  <1> DEFINE
        Places == {"new", "asked", "lookup", "dial", "open", "refused", "closed"}
        Answered(q) == at[q] = "refused" <=> status[q] # "none"
        Placed == /\ at \in [Requests -> Places]
                  /\ status \in [Requests -> {"none", "forbidden", "badGateway"}]
                  /\ \A q \in Requests : Answered(q)
  <1>0. UNCHANGED policyVars
    BY DEF Serve, Arrive, Decide, Lookup, LookupFails, Guarded, DialFails, PassOver, Dial,
           Exhausted, Close
  <1> SUFFICES TypeOK'
    BY <1>0
  <1>1. PolicyTypeOK'
    <2>1. PolicyTypeOK
      BY DEF TypeOK
    <2>2. QED BY <1>0, <2>1 DEF policyVars, PolicyTypeOK
  <1>2. ASSUME NEW here \in Places \ {"refused"}, NEW there \in Places \ {"refused"},
               Move(r, here, there), UNCHANGED status
        PROVE  Placed'
    BY <1>2 DEF TypeOK, Move
  <1>3. ASSUME NEW here \in Places, NEW allowed \in BOOLEAN,
               Move(r, here, "refused"), Refuse(r, allowed)
        PROVE  Placed'
    <2>1. PICK s \in {"forbidden", "badGateway"} : status' = [status EXCEPT ![r] = s]
      BY <1>3 DEF Refuse
    <2>2. QED BY <1>3, <2>1 DEF TypeOK, Move
  <1>4. ASSUME NEW allowed \in BOOLEAN, NEW reason \in {"policy", "unresolved", "blocked"},
               Record(r, allowed, reason)
        PROVE  log' \in Seq(Entry)
    BY <1>4, RecordAddsOne DEF Shapes
  <1>5. CASE Arrive(r)
    <2>1. target' \in [Requests -> Targets \cup {NoTarget}]
      BY <1>5 DEF Arrive, TypeOK
    <2>2. QED BY <1>1, <1>2, <1>5, <2>1 DEF Arrive, TypeOK
  <1>6. CASE Decide(r)
    <2>1. \A q \in Requests : verdict'[q].allowed \in BOOLEAN
      BY <1>6, CheckIsBoolean DEF Decide, TypeOK, Shapes
    <2>2. CASE verdict'[r].allowed
      BY <1>1, <1>2, <1>6, <2>1, <2>2 DEF Decide, TypeOK
    <2>3. CASE ~verdict'[r].allowed
      <3>1. Move(r, "asked", "refused") /\ Record(r, FALSE, "policy") /\ Refuse(r, FALSE)
        BY <1>6, <2>3 DEF Decide
      <3>2. UNCHANGED <<target, addrs, lastErr, upstream>>
        BY <1>6 DEF Decide
      <3>3. Placed' /\ log' \in Seq(Entry)
        BY <1>3, <1>4, <3>1
      <3>4. QED BY <1>1, <2>1, <3>2, <3>3 DEF TypeOK
    <2>4. QED BY <2>2, <2>3
  <1>7. CASE Lookup(r)
    <2>1. addrs' \in [Requests -> Seq(Address)]
      <3>1. PICK answer : /\ addrs' = [addrs EXCEPT ![r] = answer]
                          /\ answer \in IF target[r].host \in DOMAIN Literals
                                        THEN {<<Literals[target[r].host]>>} ELSE Answers
        BY <1>7 DEF Lookup
      <3>2. answer \in Seq(Address)
        <4> DEFINE host == target[r].host
        <4> HIDE DEF host
        <4>1. CASE host \in DOMAIN Literals
          <5>1. Literals[host] \in Address
            BY <4>1, LiteralsAssumption
          <5>2. answer = <<Literals[host]>>
            BY <3>1, <4>1 DEF host
          <5>3. QED BY <5>1, <5>2
        <4>2. CASE host \notin DOMAIN Literals
          BY <3>1, <4>2, AnswersAssumption DEF host
        <4>3. QED BY <4>1, <4>2
      <3>3. QED BY <3>1, <3>2 DEF TypeOK
    <2>2. Placed'
      BY <1>2, <1>7 DEF Lookup
    <2>3. QED BY <1>1, <1>7, <2>1, <2>2 DEF Lookup, TypeOK
  <1>8. CASE LookupFails(r)
    <2>1. verdict[r].allowed \in BOOLEAN
      BY DEF TypeOK
    <2>2. /\ Move(r, "lookup", "refused") /\ Record(r, FALSE, "unresolved")
          /\ Refuse(r, verdict[r].allowed)
          /\ UNCHANGED <<target, verdict, addrs, lastErr, upstream>>
      BY <1>8 DEF LookupFails
    <2>3. Placed'
      BY <1>3, <2>1, <2>2
    <2>4. log' \in Seq(Entry)
      BY <1>4, <2>2
    <2>5. QED BY <1>1, <2>2, <2>3, <2>4 DEF TypeOK
  <1>9. ASSUME NEW err \in {"blocked", "dial"}, addrs[r] # <<>>, PassOver(r, err)
        PROVE  TypeOK'
    <2>1. Tail(addrs[r]) \in Seq(Address)
      BY <1>9 DEF TypeOK
    <2>2. UNCHANGED <<at, target, verdict, upstream, status, log>>
      BY <1>9 DEF PassOver
    <2>3. /\ addrs' \in [Requests -> Seq(Address)]
          /\ lastErr' \in [Requests -> {"none", "blocked", "dial"}]
      BY <1>9, <2>1 DEF PassOver, TypeOK
    <2>4. QED BY <1>1, <2>2, <2>3 DEF TypeOK
  <1>10. CASE Guarded(r) \/ DialFails(r)
    BY <1>9, <1>10 DEF Guarded, DialFails
  <1>11. CASE Dial(r)
    <2>1. Head(addrs[r]) \in Address
      BY <1>11 DEF Dial, TypeOK
    <2>2. upstream' \in [Requests -> Address]
      BY <1>11, <2>1 DEF Dial, TypeOK
    <2>3. QED BY <1>1, <1>2, <1>4, <1>11, <2>2 DEF Dial, TypeOK
  <1>12. CASE Exhausted(r)
    <2>1. PICK reason \in {"policy", "blocked"} : Record(r, FALSE, reason)
      BY <1>12 DEF Exhausted
    <2>2. /\ Move(r, "dial", "refused") /\ Refuse(r, FALSE)
          /\ UNCHANGED <<target, verdict, addrs, lastErr, upstream>>
      BY <1>12 DEF Exhausted
    <2>3. Placed' /\ log' \in Seq(Entry)
      BY <1>3, <1>4, <2>1, <2>2
    <2>4. QED BY <1>1, <2>2, <2>3 DEF TypeOK
  <1>13. CASE Close(r)
    BY <1>1, <1>2, <1>13 DEF Close, TypeOK
  <1>14. QED
    BY <1>5, <1>6, <1>7, <1>8, <1>10, <1>11, <1>12, <1>13 DEF Serve

\* The types, and the rules on disk and in hand, hold to begin with and for good.
THEOREM FileInvariant == Spec => [](TypeOK /\ OneEachHeld)
  <1>1. Init => TypeOK /\ OneEachHeld
    <2> SUFFICES ASSUME Init PROVE TypeOK /\ OneEachHeld
      OBVIOUS
    <2>1. NoTask \in Task /\ NoCopy \in Policy /\ OneEach(NoCopy.rules)
      <3>1. "balanced" \in Presets /\ "open" \in Presets
        BY DEF Presets
      <3>2. QED BY <3>1, NewIs DEF NoTask, Task, NoCopy
    <2>2. PolicyTypeOK
      BY <2>1, PolicyAssumption DEF Init, PolicyInit, PolicyTypeOK
    <2>3. Nowhere \in Address
      BY DEF Nowhere, Address, Classes
    <2>4. log \in Seq(Entry) /\ addrs \in [Requests -> Seq(Address)]
      BY DEF Init
    <2>5. \A r \in Requests : verdict[r].allowed \in BOOLEAN
      BY DEF Init, Verdict
    <2>6. TypeOK
      BY <2>2, <2>3, <2>4, <2>5 DEF Init, TypeOK
    <2>7. OneEachHeld
      BY <2>1 DEF Init, PolicyInit, OneEachHeld
    <2>8. QED BY <2>6, <2>7
  <1>2. TypeOK /\ OneEachHeld /\ ProxyInv /\ [Next]_vars => (TypeOK /\ OneEachHeld)'
    <2> SUFFICES ASSUME TypeOK, OneEachHeld, ProxyInv, [Next]_vars
                 PROVE  TypeOK' /\ OneEachHeld'
      OBVIOUS
    <2>1. ASSUME NEW e \in Editors, EditPolicy(e) PROVE TypeOK' /\ OneEachHeld'
      <3>1. PolicyTypeOK' /\ OneEachHeld'
        BY <2>1, EditKeepsFile DEF TypeOK, EditPolicy
      <3>2. QED BY <2>1, <3>1 DEF EditPolicy, requestVars, TypeOK
    <2>2. ASSUME NEW r \in Requests, Serve(r) PROVE TypeOK' /\ OneEachHeld'
      <3>1. TypeOK' /\ UNCHANGED policyVars
        BY <2>2, ServeKeepsTypes DEF ProxyInv
      <3>2. QED BY <3>1 DEF policyVars, OneEachHeld
    <2>3. CASE UNCHANGED vars
      <3>1. UNCHANGED policyVars /\ UNCHANGED requestVars
        BY <2>3 DEF vars
      <3>2. PolicyTypeOK' /\ OneEachHeld'
        BY <3>1 DEF policyVars, PolicyTypeOK, OneEachHeld, TypeOK
      <3>3. QED BY <3>1, <3>2 DEF requestVars, TypeOK
    <2>4. QED BY <2>1, <2>2, <2>3 DEF Next
  <1>3. QED BY <1>1, <1>2, ProxyInvariant, PTL DEF Spec

\* Every variable of the proxy and of the policy's editors keeps its type, and a
\* request is refused exactly if it has been answered with a status.
THEOREM ProxyTypes == Spec => []TypeOK
  BY FileInvariant, PTL

\* Whoever edits at the same time, the file never holds two rules for a pattern.
THEOREM RulesStayApart == Spec => []OneRulePerPattern
  <1>1. OneEachHeld => OneRulePerPattern
    BY DEF OneEachHeld, OneEach, OneRulePerPattern
  <1>2. QED BY <1>1, FileInvariant, PTL
-----------------------------------------------------------------------------
(***************************************************************************)
(* Verdicts are as asked.                                                  *)
(***************************************************************************)
\* The rules are those that the last edit of each pattern asked for.
Says(rules, a) ==
  /\ \A i \in DOMAIN rules :
       a[rules[i].pattern] = IF rules[i].allow THEN "allow" ELSE "deny"
  /\ \A p \in Patterns : a[p] # "rm" => \E i \in DOMAIN rules : rules[i].pattern = p

\* While edits do not overlap and the daemon is there, one editor at a time has
\* a copy, and that is the file's.
Undisturbed ==
  disturbed = {} =>
    /\ \A e, f \in Editors : step[e] # "idle" /\ step[f] # "idle" => e = f
    /\ \A e \in Editors : step[e] = "write" => file # NoPolicy /\ held[e] = file
    /\ \A e \in Editors : step[e] = "choose" => file = NoPolicy
    /\ file = NoPolicy => \A p \in Patterns : asked[p] = "rm"
    /\ file # NoPolicy => Says(file.rules, asked)

\* An edit of what says what was asked says what is asked now.
LEMMA EditedSays ==
  ASSUME PolicyTypeOK, NEW e \in Editors, Says(held[e].rules, asked), Write(e)
  PROVE  Says(file'.rules, asked')
  <1> DEFINE p == task[e].pattern
             rules == held[e].rules
             kept == Without(rules, p)
  <1>1. /\ held[e] \in Policy /\ rules \in Seq(RuleType)
        /\ held[e] = [preset |-> held[e].preset, rules |-> rules]
    BY DEF PolicyTypeOK, Policy, RuleType
  <1>2. task[e] \in Task
    BY DEF PolicyTypeOK
  <1>3. task[e].op \in {"allow", "deny", "rm"} => p \in Patterns
    BY <1>2 DEF Task, Presets
  <1>4. task[e].op \in {"allow", "deny", "rm"} \cup Presets
    BY <1>2 DEF Task
  <1>5. /\ kept \in Seq(RuleType)
        /\ \A k \in 1..Len(kept) : \E i \in 1..Len(rules) :
             kept[k] = rules[i] /\ rules[i].pattern # p
        /\ \A i \in 1..Len(rules) :
             rules[i].pattern # p => \E k \in 1..Len(kept) : kept[k] = rules[i]
    <2>1. /\ kept \in Seq(RuleType)
          /\ \A k \in 1..Len(kept) : \E i \in 1..Len(rules) :
               kept[k] = rules[i] /\ rules[i].pattern # p
          /\ \A i \in 1..Len(rules) :
               rules[i].pattern # p => \E k \in 1..Len(kept) : kept[k] = rules[i]
          /\ OneEach(rules) => OneEach(kept)
      <3> HIDE DEF rules, p
      <3>1. QED BY <1>1, WithoutIs
    <2>2. QED BY <2>1
  <1>6. file' = Edited(e)
    BY DEF Write
  <1>7. task[e].op \in {"allow", "deny", "rm"} => asked' = [asked EXCEPT ![p] = task[e].op]
    BY DEF Write, Presets
  <1>8. asked \in [Patterns -> {"allow", "deny", "rm"}]
    BY DEF PolicyTypeOK
  <1>9. DOMAIN rules = 1..Len(rules) /\ DOMAIN kept = 1..Len(kept) /\ Len(kept) \in Nat
    BY <1>1, <1>5
  <1>10. Says(rules, asked)
    OBVIOUS
  <1> HIDE DEF p, rules, kept
  \* What is kept says what was asked of the other patterns.
  <1>11. ASSUME NEW k \in 1..Len(kept)
         PROVE  asked[kept[k].pattern] = IF kept[k].allow THEN "allow" ELSE "deny"
    <2>1. PICK i \in 1..Len(rules) : kept[k] = rules[i]
      BY <1>5
    <2>2. QED BY <1>9, <1>10, <2>1 DEF Says
  <1>12. ASSUME NEW k \in 1..Len(kept) PROVE kept[k].pattern \in Patterns /\ kept[k].pattern # p
    <2>1. kept[k].pattern # p
      BY <1>5
    <2>2. kept[k] \in RuleType
      BY <1>5
    <2>3. QED BY <2>1, <2>2 DEF RuleType
  <1>13. ASSUME NEW q \in Patterns, q # p, asked[q] # "rm"
         PROVE  \E k \in 1..Len(kept) : kept[k].pattern = q
    <2>1. PICK i \in 1..Len(rules) : rules[i].pattern = q
      BY <1>9, <1>10, <1>13 DEF Says
    <2>2. PICK k \in 1..Len(kept) : kept[k] = rules[i]
      BY <1>5, <1>13, <2>1
    <2>3. QED BY <2>1, <2>2
  <1>14. CASE task[e].op \in {"allow", "deny"}
    <2> DEFINE new == Rule(p, task[e].op = "allow")
               all == Append(kept, new)
    <2>1. new \in RuleType /\ new.pattern = p /\ (new.allow <=> task[e].op = "allow")
      BY <1>3, <1>14 DEF Rule, RuleType
    <2>2. file'.rules = all
      <3>1. Edited(e) = WithRule(held[e], p, task[e].op = "allow")
        BY <1>14 DEF Edited, p, Presets
      <3>2. Edited(e) = [held[e] EXCEPT !.rules = Append(Without(@, p), new)]
        BY <3>1 DEF WithRule
      <3> HIDE DEF new
      <3>3. Append(Without(held[e].rules, p), new) = all
        BY DEF kept, rules
      <3> HIDE DEF all
      <3>4. Edited(e) = [held[e] EXCEPT !.rules = all]
        BY <3>2, <3>3
      <3>5. QED BY <1>1, <1>6, <3>4
    <2> HIDE DEF new
    <2>3. /\ DOMAIN all = 1..Len(kept) + 1
          /\ \A k \in 1..Len(kept) : all[k] = kept[k]
          /\ all[Len(kept) + 1] = new
          /\ \A k \in 1..Len(kept) + 1 : k \in 1..Len(kept) \/ k = Len(kept) + 1
      BY <1>5, <1>9, <2>1, AppendProperties
    <2> HIDE DEF all
    <2>4. ASSUME NEW k \in 1..Len(kept) + 1
          PROVE  asked'[all[k].pattern] = IF all[k].allow THEN "allow" ELSE "deny"
      <3>1. CASE k \in 1..Len(kept)
        <4>1. asked'[kept[k].pattern] = asked[kept[k].pattern]
          BY <1>7, <1>8, <1>12, <1>14, <3>1
        <4>2. QED BY <1>11, <2>3, <3>1, <4>1
      <3>2. CASE k = Len(kept) + 1
        <4>1. asked'[p] = task[e].op
          BY <1>3, <1>7, <1>8, <1>14
        <4>2. all[k] = new
          BY <2>3, <3>2
        <4>3. QED BY <1>14, <2>1, <4>1, <4>2
      <3>3. QED BY <2>3, <3>1, <3>2
    <2>5. ASSUME NEW q \in Patterns, asked'[q] # "rm"
          PROVE  \E k \in 1..Len(kept) + 1 : all[k].pattern = q
      <3>1. CASE q = p
        <4>1. Len(kept) + 1 \in 1..Len(kept) + 1
          BY <1>9
        <4>2. QED BY <2>1, <2>3, <3>1, <4>1
      <3>2. CASE q # p
        <4>1. asked'[q] = asked[q]
          BY <1>7, <1>8, <1>14, <3>2
        <4>2. PICK k \in 1..Len(kept) : kept[k].pattern = q
          BY <1>13, <2>5, <3>2, <4>1
        <4>3. k \in 1..Len(kept) + 1 /\ all[k] = kept[k]
          BY <1>9, <2>3
        <4>4. QED BY <4>2, <4>3
      <3>3. QED BY <3>1, <3>2
    <2>6. QED BY <2>2, <2>3, <2>4, <2>5 DEF Says
  <1>15. CASE task[e].op = "rm"
    <2>1. file'.rules = kept
      <3>1. Edited(e) = WithoutRule(held[e], p)
        BY <1>15 DEF Edited, p, Presets
      <3>2. QED BY <1>1, <1>6, <3>1 DEF WithoutRule, rules, kept
    <2>2. \A q \in Patterns : asked'[q] = IF q = p THEN "rm" ELSE asked[q]
      BY <1>7, <1>8, <1>15
    <2>3. ASSUME NEW k \in 1..Len(kept)
          PROVE  asked'[kept[k].pattern] = IF kept[k].allow THEN "allow" ELSE "deny"
      BY <1>11, <1>12, <2>2
    <2>4. ASSUME NEW q \in Patterns, asked'[q] # "rm"
          PROVE  \E k \in 1..Len(kept) : kept[k].pattern = q
      BY <1>13, <2>2, <2>4
    <2>5. QED BY <1>9, <2>1, <2>3, <2>4 DEF Says
  <1>16. CASE task[e].op \in Presets
    <2>1. Edited(e) = WithPreset(held[e], task[e].op)
      BY <1>16 DEF Edited, Presets
    <2>2. file'.rules = rules
      BY <1>1, <1>6, <2>1 DEF WithPreset
    <2>3. asked' = asked
      BY <1>16 DEF Write
    <2>4. QED BY <1>10, <2>2, <2>3
  <1>17. QED BY <1>4, <1>14, <1>15, <1>16

\* An editor who is done is idle, and nobody else moves.
LEMMA FinishedIsIdle ==
  ASSUME PolicyTypeOK, NEW e \in Editors, Finish(e), NEW f \in Editors
  PROVE  /\ step'[f] # "idle" => f # e /\ step'[f] = step[f]
         /\ f # e => held'[f] = held[f]
  BY DEF Finish, Goto, PolicyTypeOK

\* A step of an editor leaves one editor at a time, with the file's copy.
LEMMA EditStaysUndisturbed ==
  ASSUME PolicyTypeOK, Undisturbed, NEW e \in Editors, Edit(e)
  PROVE  Undisturbed'
  <1> SUFFICES ASSUME disturbed' = {}
               PROVE  /\ \A g, f \in Editors : step'[g] # "idle" /\ step'[f] # "idle" => g = f
                      /\ \A f \in Editors : step'[f] = "write" => file' # NoPolicy /\ held'[f] = file'
                      /\ \A f \in Editors : step'[f] = "choose" => file' = NoPolicy
                      /\ file' = NoPolicy => \A p \in Patterns : asked'[p] = "rm"
                      /\ file' # NoPolicy => Says(file'.rules, asked')
    BY DEF Undisturbed
  <1>1. disturbed = {}
    BY DEF Edit, Invoke, ReadPolicy, ReadNone, ReadUnreachable, Choose, Write, GiveUp
  <1>2. /\ \A g, f \in Editors : step[g] # "idle" /\ step[f] # "idle" => g = f
        /\ \A f \in Editors : step[f] = "write" => file # NoPolicy /\ held[f] = file
        /\ \A f \in Editors : step[f] = "choose" => file = NoPolicy
        /\ file = NoPolicy => \A p \in Patterns : asked[p] = "rm"
        /\ file # NoPolicy => Says(file.rules, asked)
    BY <1>1 DEF Undisturbed
  <1>3. DOMAIN step = Editors /\ DOMAIN held = Editors
    BY DEF PolicyTypeOK
  <1>4. CASE Invoke(e)
    <2>1. \A f \in Editors : step[f] = "idle"
      BY <1>4 DEF Invoke
    <2>2. \A f \in Editors : step'[f] = IF f = e THEN "read" ELSE "idle"
      BY <1>3, <1>4, <2>1 DEF Invoke, Goto
    <2>3. UNCHANGED <<file, held, asked>>
      BY <1>4 DEF Invoke
    <2>4. QED BY <1>2, <2>2, <2>3
  <1>5. ASSUME step[e] # "idle" PROVE \A f \in Editors : f # e => step[f] = "idle"
    BY <1>2, <1>5
  <1>6. CASE ReadPolicy(e)
    <2>1. \A f \in Editors : step'[f] = IF f = e THEN "write" ELSE "idle"
      BY <1>3, <1>5, <1>6 DEF ReadPolicy, Goto
    <2>2. held'[e] = file /\ file # NoPolicy /\ UNCHANGED <<file, asked>>
      BY <1>3, <1>6 DEF ReadPolicy
    <2>3. QED BY <1>2, <2>1, <2>2
  <1>7. CASE ReadNone(e)
    <2>1. step[e] = "read" /\ file = NoPolicy /\ UNCHANGED <<file, asked>>
      BY <1>7 DEF ReadNone, NoneToRead
    <2>2. CASE task[e].by = "command"
      <3>1. \A f \in Editors : step'[f] = IF f = e THEN "choose" ELSE "idle"
        BY <1>3, <1>5, <1>7, <2>1, <2>2 DEF ReadNone, NoneToRead, Goto
      <3>2. QED BY <1>2, <2>1, <3>1
    <2>3. CASE task[e].by # "command"
      <3>1. Finish(e)
        BY <1>7, <2>3 DEF ReadNone, NoneToRead
      <3>2. \A f \in Editors : step'[f] = "idle"
        BY <1>5, <2>1, <3>1, FinishedIsIdle
      <3>3. QED BY <1>2, <2>1, <3>2
    <2>4. QED BY <2>2, <2>3
  <1>8. ~ReadUnreachable(e)
    BY DEF ReadUnreachable
  <1>9. CASE Choose(e)
    <2>1. PICK preset \in Presets :
            file' = New(preset) /\ held' = [held EXCEPT ![e] = New(preset)]
      BY <1>9 DEF Choose
    <2>2. step[e] = "choose" /\ asked' = asked
      BY <1>9 DEF Choose
    <2>3. \A f \in Editors : step'[f] = IF f = e THEN "write" ELSE "idle"
      BY <1>3, <1>5, <1>9, <2>2 DEF Choose, Goto
    <2>4. New(preset) \in Policy /\ New(preset) # NoPolicy
      BY NewIs, PolicyAssumption
    <2>5. Says(New(preset).rules, asked)
      <3>1. New(preset).rules = <<>> /\ DOMAIN <<>> = {}
        BY DEF New
      <3>2. \A p \in Patterns : asked[p] = "rm"
        BY <1>2, <2>2
      <3>3. QED BY <3>1, <3>2 DEF Says
    <2>6. held'[e] = file'
      BY <1>3, <2>1
    <2>7. QED BY <2>1, <2>2, <2>3, <2>4, <2>5, <2>6
  <1>10. CASE Write(e)
    <2>1. step[e] = "write" /\ file' = Edited(e) /\ Finish(e)
      BY <1>10 DEF Write
    <2>2. \A f \in Editors : step'[f] = "idle"
      BY <1>5, <2>1, FinishedIsIdle
    <2>3. file' # NoPolicy
      BY <2>1, EditedIs, PolicyAssumption
    <2>4. Says(file'.rules, asked')
      BY <1>2, <1>10, <2>1, EditedSays
    <2>5. QED BY <2>2, <2>3, <2>4
  <1>11. CASE GiveUp(e)
    <2>1. Finish(e) /\ step[e] # "idle" /\ UNCHANGED <<file, asked>>
      BY <1>11 DEF GiveUp
    <2>2. \A f \in Editors : step'[f] = "idle"
      BY <1>5, <2>1, FinishedIsIdle
    <2>3. QED BY <1>2, <2>1, <2>2
  <1>12. QED BY <1>4, <1>6, <1>7, <1>8, <1>9, <1>10, <1>11 DEF Edit

\* Nothing a request does disturbs anyone.
THEOREM AsAskedInvariant == Spec => []Undisturbed
  <1>1. Init => Undisturbed
    BY DEF Init, PolicyInit, Undisturbed
  <1>2. TypeOK /\ Undisturbed /\ ProxyInv /\ [Next]_vars => Undisturbed'
    <2> SUFFICES ASSUME TypeOK, Undisturbed, ProxyInv, [Next]_vars PROVE Undisturbed'
      OBVIOUS
    <2>1. ASSUME NEW e \in Editors, EditPolicy(e) PROVE Undisturbed'
      BY <2>1, EditStaysUndisturbed DEF EditPolicy, TypeOK
    <2>2. ASSUME UNCHANGED policyVars PROVE Undisturbed'
      BY <2>2 DEF policyVars, Undisturbed, Says
    <2>3. ASSUME NEW r \in Requests, Serve(r) PROVE Undisturbed'
      BY <2>2, <2>3, ServeKeepsTypes DEF ProxyInv
    <2>4. QED BY <2>1, <2>2, <2>3 DEF Next, vars
  <1>3. QED BY <1>1, <1>2, ProxyTypes, ProxyInvariant, PTL DEF Spec

\* A pattern that names something: its last label is one.
Blank == ""
WellWritten(p) == p.host \in Seq(STRING) \ {<<>>} /\ p.host[Len(p.host)] # Blank

\* Undotted takes away the empty last label of a host that has another.
LEMMA UndottedIs ==
  ASSUME NEW h \in Seq(STRING), h # <<>>
  PROVE  /\ Undotted(h) \in Seq(STRING) /\ Len(Undotted(h)) \in 1..Len(h)
         /\ \A i \in 1..Len(Undotted(h)) : Undotted(h)[i] = h[i]
         /\ h = Undotted(h) \/ h = Append(Undotted(h), Blank)
         /\ Len(h) > 1 /\ h[Len(h)] = Blank => Len(Undotted(h)) = Len(h) - 1
  <1>1. Len(h) \in Nat \ {0}
    BY EmptySeq
  <1>0. Undotted(h) = IF Len(h) > 1 /\ h[Len(h)] = Blank THEN SubSeq(h, 1, Len(h) - 1) ELSE h
    BY Zenon DEF Undotted, Blank
  <1>2. CASE Len(h) > 1 /\ h[Len(h)] = Blank
    <2> DEFINE u == SubSeq(h, 1, Len(h) - 1)
    <2>1. Undotted(h) = u
      BY <1>0, <1>2
    <2>2. /\ u \in Seq(STRING) /\ Len(u) = Len(h) - 1
          /\ \A i \in 1..Len(h) - 1 : u[i] = h[i]
      <3>1. \A i \in 1..Len(h) - 1 : h[i] \in STRING
        BY <1>1
      <3> DEFINE n == Len(h) - 1
      <3>2. n \in Int /\ n >= 1
        BY <1>1, <1>2
      <3> HIDE DEF n
      <3>3. /\ SubSeq(h, 1, n) \in Seq(STRING)
            /\ Len(SubSeq(h, 1, n)) = IF 1 <= n THEN n - 1 + 1 ELSE 0
            /\ \A i \in 1..n - 1 + 1 : SubSeq(h, 1, n)[i] = h[1 + i - 1]
        <4>1. \A i \in 1..n : h[i] \in STRING
          BY <3>1 DEF n
        <4>2. QED BY <3>2, <4>1, SubSeqProperties
      <3>4. Len(SubSeq(h, 1, n)) = n /\ \A i \in 1..n : SubSeq(h, 1, n)[i] = h[i]
        BY <3>2, <3>3
      <3>5. QED BY <3>3, <3>4 DEF n
    <2> HIDE DEF u
    <2>5. Blank \in STRING
      <3>1. Len(h) \in 1..Len(h)
        BY <1>1
      <3>2. h[Len(h)] \in STRING
        BY <3>1
      <3>3. QED BY <1>2, <3>2
    <2>6. /\ Append(u, Blank) \in Seq(STRING) /\ Len(Append(u, Blank)) = Len(u) + 1
          /\ \A i \in 1..Len(u) : Append(u, Blank)[i] = u[i]
          /\ Append(u, Blank)[Len(u) + 1] = Blank
      BY <2>2, <2>5, AppendProperties
    <2>7. Len(u) + 1 = Len(h)
      BY <1>1, <2>2
    <2>3. h = Append(u, Blank)
      <3>1. Append(u, Blank) \in Seq(STRING) /\ Len(Append(u, Blank)) = Len(h)
        BY <2>6, <2>7
      <3>2. ASSUME NEW i \in 1..Len(h) PROVE h[i] = Append(u, Blank)[i]
        <4>1. CASE i = Len(h)
          BY <1>2, <2>6, <2>7, <4>1
        <4>2. CASE i # Len(h)
          <5>1. i \in 1..Len(u)
            BY <1>1, <2>2, <4>2
          <5>2. h[i] = u[i] /\ Append(u, Blank)[i] = u[i]
            BY <1>1, <2>2, <2>6, <2>7, <5>1
          <5>3. QED BY <5>2
        <4>3. QED BY <4>1, <4>2
      <3>3. QED BY <3>1, <3>2, SeqEqual
    <2>4. QED BY <1>1, <1>2, <2>1, <2>2, <2>3
  <1>3. CASE ~(Len(h) > 1 /\ h[Len(h)] = Blank)
    BY <1>0, <1>1, <1>3
  <1>4. QED BY <1>2, <1>3

\* A host is under a wildcard exactly if something stands for the wildcard.
LEMMA UnderIs ==
  ASSUME NEW h \in Seq(STRING), h # <<>>, NEW sub \in Seq(STRING), Len(sub) > 1
  PROVE  Under(Undotted(h), sub)
           <=> \E k \in 1..Len(h) - 1 : Undotted(h) = SubSeq(h, 1, k) \o Tail(sub)
  <1> DEFINE u == Undotted(h)
             n == Len(u)
             m == Len(sub)
             tail == Tail(sub)
  <1>1. u \in Seq(STRING) /\ n \in 1..Len(h) /\ \A i \in 1..n : u[i] = h[i]
    BY UndottedIs
  <1>2. m \in Nat /\ m > 1 /\ Len(h) \in Nat
    OBVIOUS
  <1>3. tail \in Seq(STRING) /\ Len(tail) = m - 1 /\ \A i \in 1..m - 1 : tail[i] = sub[i + 1]
    BY <1>2, HeadTailProperties, EmptySeq
  <1> HIDE DEF u, n, m, tail
  <1>4. ASSUME NEW k \in 1..Len(h)
        PROVE  /\ SubSeq(h, 1, k) \in Seq(STRING) /\ Len(SubSeq(h, 1, k)) = k
               /\ \A i \in 1..k : SubSeq(h, 1, k)[i] = h[i]
    <2>1. \A i \in 1..k : h[i] \in STRING
      BY <1>2
    <2>2. k \in Int /\ k >= 1
      BY <1>2
    <2>3. /\ SubSeq(h, 1, k) \in Seq(STRING)
          /\ Len(SubSeq(h, 1, k)) = IF 1 <= k THEN k - 1 + 1 ELSE 0
          /\ \A i \in 1..k - 1 + 1 : SubSeq(h, 1, k)[i] = h[1 + i - 1]
      BY <2>1, <2>2, SubSeqProperties
    <2>4. Len(SubSeq(h, 1, k)) = k /\ \A i \in 1..k : SubSeq(h, 1, k)[i] = h[i]
      BY <2>2, <2>3
    <2>5. QED BY <2>3, <2>4
  <1>5. n \in Nat /\ n >= 1 /\ n <= Len(h)
    BY <1>1, <1>2
  <1>6. ASSUME n >= m
        PROVE  /\ SubSeq(u, n - m + 2, n) \in Seq(STRING)
               /\ Len(SubSeq(u, n - m + 2, n)) = m - 1
               /\ \A i \in 1..m - 1 : SubSeq(u, n - m + 2, n)[i] = u[n - m + 1 + i]
    <2> DEFINE b == n - m + 2
    <2>1. b \in Int /\ b >= 2 /\ b <= n
      BY <1>2, <1>5, <1>6
    <2>2. \A i \in b..n : u[i] \in STRING
      <3>1. \A i \in b..n : i \in 1..n
        BY <1>5, <2>1
      <3>2. \A i \in 1..n : u[i] \in STRING
        BY <1>1 DEF n
      <3>3. QED BY <3>1, <3>2
    <2> HIDE DEF b
    <2>3. /\ SubSeq(u, b, n) \in Seq(STRING)
          /\ Len(SubSeq(u, b, n)) = IF b <= n THEN n - b + 1 ELSE 0
          /\ \A i \in 1..n - b + 1 : SubSeq(u, b, n)[i] = u[b + i - 1]
      BY <1>5, <2>1, <2>2, SubSeqProperties
    <2>4. n - b + 1 = m - 1 /\ b <= n /\ \A i \in 1..m - 1 : b + i - 1 = n - m + 1 + i
      BY <1>2, <1>5, <2>1 DEF b
    <2>5. QED BY <2>3, <2>4 DEF b
  \* What stands for the wildcard is what is left of the tail.
  <1>7. ASSUME Under(u, sub) PROVE \E k \in 1..Len(h) - 1 : u = SubSeq(h, 1, k) \o tail
    <2> DEFINE k == n - m + 1
               cat == SubSeq(h, 1, k) \o tail
    <2>1. n >= m /\ SubSeq(u, n - m + 2, n) = tail
      BY <1>7 DEF Under, n, m, tail
    <2>2. k \in 1..Len(h) - 1 /\ k \in 1..Len(h) /\ k \in Nat /\ n = k + (m - 1)
      BY <1>2, <1>5, <2>1
    <2>3. \A i \in 1..m - 1 : tail[i] = u[k + i]
      BY <1>6, <2>1
    <2> HIDE DEF k
    <2>4. /\ cat \in Seq(STRING) /\ Len(cat) = k + (m - 1)
          /\ \A i \in 1..k + (m - 1) :
               cat[i] = IF i <= k THEN SubSeq(h, 1, k)[i] ELSE tail[i - k]
      BY <1>3, <1>4, <2>2, ConcatProperties
    <2> HIDE DEF cat
    <2>5. ASSUME NEW i \in 1..n PROVE u[i] = cat[i]
      <3>1. CASE i <= k
        <4>1. i \in 1..k /\ i \in 1..k + (m - 1)
          BY <2>2, <3>1
        <4>2. QED BY <1>1, <1>4, <2>2, <2>4, <3>1, <4>1
      <3>2. CASE ~(i <= k)
        <4>1. i - k \in 1..m - 1 /\ k + (i - k) = i /\ i \in 1..k + (m - 1)
          BY <1>2, <2>2, <3>2
        <4>2. tail[i - k] = u[i]
          BY <2>3, <4>1
        <4>3. QED BY <2>4, <3>2, <4>1, <4>2
      <3>3. QED BY <3>1, <3>2
    <2>6. u = cat
      BY <1>1, <2>2, <2>4, <2>5, SeqEqual DEF n
    <2>7. QED BY <2>2, <2>6 DEF cat
  <1>8. ASSUME NEW k \in 1..Len(h) - 1, u = SubSeq(h, 1, k) \o tail PROVE Under(u, sub)
    <2> DEFINE end == SubSeq(u, n - m + 2, n)
    <2>1. k \in 1..Len(h) /\ k \in Nat /\ k >= 1
      BY <1>2
    <2>2. /\ n = k + (m - 1)
          /\ \A i \in 1..k + (m - 1) :
               u[i] = IF i <= k THEN SubSeq(h, 1, k)[i] ELSE tail[i - k]
      <3> DEFINE cat == SubSeq(h, 1, k) \o tail
      <3>1. /\ Len(cat) = k + (m - 1)
            /\ \A i \in 1..k + (m - 1) :
                 cat[i] = IF i <= k THEN SubSeq(h, 1, k)[i] ELSE tail[i - k]
        <4> DEFINE s == SubSeq(h, 1, k)
        <4>1. s \in Seq(STRING) /\ Len(s) = k
          BY <1>4, <2>1
        <4> HIDE DEF s
        <4>2. /\ Len(s \o tail) = Len(s) + Len(tail)
              /\ \A i \in 1..Len(s) + Len(tail) :
                   (s \o tail)[i] = IF i <= Len(s) THEN s[i] ELSE tail[i - Len(s)]
          BY <1>3, <4>1, ConcatProperties
        <4>3. /\ Len(s \o tail) = k + (m - 1)
              /\ \A i \in 1..k + (m - 1) :
                   (s \o tail)[i] = IF i <= k THEN s[i] ELSE tail[i - k]
          BY <1>3, <4>1, <4>2
        <4>4. QED BY <4>3 DEF s
      <3> HIDE DEF cat
      <3>2. u = cat
        BY <1>8 DEF cat
      <3>3. QED BY <3>1, <3>2 DEF n
    <2>3. n >= m /\ n - m + 1 = k
      BY <1>2, <2>1, <2>2
    <2>4. end \in Seq(STRING) /\ Len(end) = m - 1 /\ \A i \in 1..m - 1 : end[i] = u[k + i]
      BY <1>6, <2>3
    <2> HIDE DEF end
    <2>5. ASSUME NEW i \in 1..m - 1 PROVE end[i] = tail[i]
      <3>1. k + i \in 1..k + (m - 1) /\ ~(k + i <= k) /\ k + i - k = i
        BY <1>2, <2>1
      <3>2. u[k + i] = tail[i]
        BY <2>2, <3>1
      <3>3. QED BY <2>4, <3>2
    <2>6. end = tail
      BY <1>3, <2>4, <2>5, SeqEqual
    <2>7. QED BY <2>3, <2>6 DEF Under, end, n, m, tail
  <1>9. QED BY <1>7, <1>8 DEF u, tail

\* The host of a pattern covers, as it is documented, what it matches.
LEMMA MatchesIsCovers ==
  ASSUME NEW p, WellWritten(p), NEW t, t.host \in Seq(STRING) \ {<<>>},
         Undotted(t.host) \notin PortLike
  PROVE  Matches(p, t) <=> Covers(p, t)
  <1> DEFINE u == Undotted(t.host)
             h == t.host
  <1>1. /\ p.host \in Seq(STRING) /\ Len(p.host) \in Nat \ {0}
        /\ p.host[Len(p.host)] # Blank
    BY EmptySeq DEF WellWritten
  <1>2. Head(p.host) = p.host[1]
    BY <1>1
  <1>3. /\ u \in Seq(STRING) /\ Len(u) \in 1..Len(h)
        /\ \A i \in 1..Len(u) : u[i] = h[i]
        /\ h = u \/ h = Append(u, Blank)
        /\ Len(h) > 1 /\ h[Len(h)] = Blank => Len(u) = Len(h) - 1
    BY UndottedIs
  <1>4. h \in Seq(STRING) /\ h # <<>> /\ Len(h) \in Nat
    OBVIOUS
  <1>5. Covers(p, t) <=>
          /\ p.port = NoPort \/ p.port = t.port
          /\ CASE p.host = <<"*">> -> TRUE
               [] p.host # <<"*">> /\ Head(p.host) = "*" ->
                    \E k \in 1..(Len(h) - 1) : u = SubSeq(h, 1, k) \o Tail(p.host)
               [] Head(p.host) # "*" -> h \in {p.host, Append(p.host, Blank)}
    BY Zenon DEF Covers, Blank
  <1>6. Matches(p, t) <=>
          /\ p.port = NoPort \/ p.port = t.port
          /\ ~(p.port = NoPort /\ p.host \in PortLike)
          /\ \/ p.host = <<"*">>
             \/ Len(p.host) > 1 /\ p.host[1] = "*" /\ Under(u, p.host)
             \/ p.host = u
    BY DEF Matches
  <1>7. p.host \in PortLike => p.host[1] # "*" /\ p.host # u
    BY LiteralsAssumption
  <1>8. CASE p.host = <<"*">>
    <2>1. p.host[1] = "*"
      BY <1>8
    <2>2. QED BY <1>5, <1>6, <1>7, <1>8, <2>1
  <1>9. CASE p.host # <<"*">> /\ p.host[1] = "*"
    <2>1. Len(p.host) > 1
      <3> DEFINE host == p.host
                 star == <<host[1]>>
      <3>1. host \in Seq(STRING) /\ Len(host) \in Nat \ {0}
        BY <1>1
      <3>2. star # host
        BY <1>9
      <3> HIDE DEF host
      <3>3. ASSUME Len(host) = 1 PROVE FALSE
        <4>1. host[1] \in STRING
          <5>1. 1 \in 1..Len(host)
            BY <3>3
          <5>2. QED BY <3>1, <5>1, ElementOfSeq
        <4>2. star \in Seq(STRING) /\ Len(star) = 1 /\ \A i \in 1..1 : star[i] = host[i]
          BY <4>1
        <4> HIDE DEF star
        <4>3. host = star
          BY <3>1, <3>3, <4>2, SeqEqual
        <4>4. QED BY <3>2, <4>3
      <3>4. Len(host) > 1
        BY <3>1, <3>3
      <3>5. QED BY <3>4 DEF host
    <2>2. Under(u, p.host) <=> \E k \in 1..Len(h) - 1 : u = SubSeq(h, 1, k) \o Tail(p.host)
      BY <1>1, <1>4, <2>1, UnderIs
    \* A host that is the wildcard's own text is under it as well.
    <2>3. p.host = u => Under(u, p.host)
      <3> HIDE DEF u
      <3>1. SUFFICES ASSUME p.host = u PROVE Under(u, u)
        OBVIOUS
      <3>2. SubSeq(u, Len(u) - Len(u) + 2, Len(u)) = Tail(u)
        <4>1. Len(u) - Len(u) + 2 = 2
          BY <1>1, <3>1
        <4>2. SubSeq(u, 2, Len(u)) = Tail(u)
          BY <1>1, <3>1 DEF Tail
        <4>3. QED BY <4>1, <4>2
      <3>3. QED BY <1>1, <3>1, <3>2 DEF Under
    <2> HIDE DEF u, h
    <2>4. Covers(p, t) <=> (p.port = NoPort \/ p.port = t.port) /\ Under(u, p.host)
      BY <1>2, <1>5, <1>9, <2>2
    <2>5. p.host \notin PortLike
      BY <1>7, <1>9
    <2>6. QED BY <1>6, <1>9, <2>1, <2>3, <2>4, <2>5
  <1>10. CASE p.host[1] # "*"
    <2>1. p.host # <<"*">>
      BY <1>10
    <2>2. p.host = u <=> h \in {p.host, Append(p.host, Blank)}
      <3>1. ASSUME h = p.host PROVE p.host = u
        <4>1. ASSUME h = Append(u, Blank) PROVE FALSE
          <5>1. Len(h) = Len(u) + 1 /\ h[Len(u) + 1] = Blank
            <6> HIDE DEF u, h
            <6>1. Len(Append(u, Blank)) = Len(u) + 1 /\ Append(u, Blank)[Len(u) + 1] = Blank
              BY <1>3
            <6>2. QED BY <4>1, <6>1
          <5>2. QED BY <1>1, <3>1, <5>1
        <4>2. QED BY <1>3, <3>1, <4>1
      <3>2. ASSUME h = Append(p.host, Blank) PROVE p.host = u
        <4> HIDE DEF u, h
        <4>1. /\ Len(h) = Len(p.host) + 1 /\ h[Len(h)] = Blank
              /\ \A i \in 1..Len(p.host) : h[i] = p.host[i]
          BY <1>1, <3>2
        <4>2. h # u
          <5>1. Len(u) = Len(h) - 1
            BY <1>1, <1>3, <4>1
          <5>2. QED BY <1>1, <4>1, <5>1
        <4>3. QED BY <1>1, <1>3, <3>2, <4>1, <4>2
      <3>3. QED BY <1>3, <3>1, <3>2
    <2> HIDE DEF u, h
    <2>3. Covers(p, t) <=> (p.port = NoPort \/ p.port = t.port) /\ h \in {p.host, Append(p.host, Blank)}
      BY <1>2, <1>5, <1>10, <2>1
    <2>4. QED BY <1>6, <1>7, <1>10, <2>1, <2>2, <2>3
  <1>11. QED BY <1>8, <1>9, <1>10

\* While edits do not overlap and the daemon is there, the policy answers for
\* every target what the edits asked for, given that no pattern ends in a dot:
\* such a rule matches nothing, though it is documented to cover its host.
THEOREM UndisturbedEditsAreObeyed ==
  ASSUME \A p \in Patterns : WellWritten(p)
  PROVE  Spec => []VerdictsAreAsAsked
  <1>1. TypeOK /\ Undisturbed => VerdictsAreAsAsked
    <2> SUFFICES ASSUME TypeOK, Undisturbed, disturbed = {}, file # NoPolicy,
                        NEW t \in Targets, Undotted(t.host) \notin PortLike
                 PROVE  Check(file, t).allowed = AsAsked(t)
      BY DEF VerdictsAreAsAsked
    <2>1. file \in Policy /\ Says(file.rules, asked)
      BY DEF TypeOK, PolicyTypeOK, Undisturbed
    <2>2. file.rules \in Seq(RuleType)
      BY <2>1 DEF Policy, RuleType
    <2>3. ASSUME NEW p \in Patterns PROVE Matches(p, t) <=> Covers(p, t)
      BY MatchesIsCovers, TargetsAssumption
    <2>4. ASSUME NEW i \in DOMAIN file.rules
          PROVE  /\ file.rules[i].pattern \in Patterns /\ file.rules[i].allow \in BOOLEAN
                 /\ asked[file.rules[i].pattern] = IF file.rules[i].allow THEN "allow" ELSE "deny"
      <3>1. file.rules[i] \in RuleType
        BY <2>2
      <3>2. QED BY <2>1, <3>1 DEF RuleType, Says
    \* The rules that match with either verdict are the patterns asked for that cover.
    <2> DEFINE said(op) == \E p \in Patterns : asked[p] = op /\ Covers(p, t)
    <2>5. Matching(file.rules, t, FALSE) # {} <=> said("deny")
      <3>1. ASSUME NEW i \in Matching(file.rules, t, FALSE) PROVE said("deny")
        BY <2>3, <2>4 DEF Matching
      <3>2. ASSUME NEW p \in Patterns, asked[p] = "deny", Covers(p, t)
            PROVE  Matching(file.rules, t, FALSE) # {}
        <4>1. PICK i \in DOMAIN file.rules : file.rules[i].pattern = p
          BY <2>1, <3>2 DEF Says
        <4>2. file.rules[i].allow = FALSE
          BY <2>4, <3>2, <4>1
        <4>3. QED BY <2>3, <3>2, <4>1, <4>2 DEF Matching
      <3>3. QED BY <3>1, <3>2
    <2>6. Matching(file.rules, t, TRUE) # {} <=> said("allow")
      <3>1. ASSUME NEW i \in Matching(file.rules, t, TRUE) PROVE said("allow")
        BY <2>3, <2>4 DEF Matching
      <3>2. ASSUME NEW p \in Patterns, asked[p] = "allow", Covers(p, t)
            PROVE  Matching(file.rules, t, TRUE) # {}
        <4>1. PICK i \in DOMAIN file.rules : file.rules[i].pattern = p
          BY <2>1, <3>2 DEF Says
        <4>2. file.rules[i].allow = TRUE
          BY <2>4, <3>2, <4>1
        <4>3. QED BY <2>3, <3>2, <4>1, <4>2 DEF Matching
      <3>3. QED BY <3>1, <3>2
    <2>7. InPreset(file.preset, t) # {}
            <=> file.preset = "balanced" /\ \E i \in DOMAIN Balanced : Covers(Balanced[i], t)
      <3>1. ASSUME NEW i \in DOMAIN Balanced
            PROVE  Matches(Balanced[i], t) <=> Covers(Balanced[i], t)
        <4>1. WellWritten(Balanced[i])
          BY BalancedAssumption, Zenon DEF WellWritten, Blank
        <4>2. QED BY <4>1, MatchesIsCovers, TargetsAssumption
      <3>2. QED BY <3>1 DEF InPreset
    <2>8. AsAsked(t) =
            (/\ ~IsPrivate(t) /\ ~said("deny")
             /\ \/ said("allow")
                \/ file.preset = "open"
                \/ file.preset = "balanced" /\ \E i \in DOMAIN Balanced : Covers(Balanced[i], t))
      BY Zenon DEF AsAsked
    <2>9. Check(file, t).allowed =
            (/\ ~IsPrivate(t)
             /\ Matching(file.rules, t, FALSE) = {}
             /\ \/ Matching(file.rules, t, TRUE) # {}
                \/ file.preset = "open"
                \/ InPreset(file.preset, t) # {})
      BY AllowedByCases
    <2> HIDE DEF said
    <2>10. QED BY <2>5, <2>6, <2>7, <2>8, <2>9
  <1>2. QED BY <1>1, ProxyTypes, AsAskedInvariant, PTL
=============================================================================
