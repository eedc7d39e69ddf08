--------------------------- MODULE DashboardProofs --------------------------
(***************************************************************************)
(* That the dashboard's keys are held off by an action and come back with  *)
(* it, that its variables keep their types and its cursor stays on its     *)
(* sandbox, for any sandboxes, hosts and bounds, however listings, samples *)
(* and outcomes overtake each other.                                       *)
(***************************************************************************)
EXTENDS Dashboard, FiniteSetTheorems, TLAPS

Quiet == acting = {} /\ pending = NoName

\* A name is pending only while an action of that name is under way.  As long
\* as no rule for "" has come among them there is one action at most, and it
\* has a name that is pending; the form is open only where nothing is pending,
\* and outside the program nothing is under way.
PendingInv ==
  /\ pending # NoName => \E a \in acting : a.name = pending
  /\ ~nameless => Quiet \/ (pending # NoName /\ \E a \in acting : acting = {a} /\ pending = a.name)
  /\ form => mode = "open" /\ pending = NoName
  /\ mode # "open" => Quiet

\* A new dashboard has nothing under way and nothing pending.
THEOREM PendingInit == Init => PendingInv
BY DEF Init, PendingInv, Quiet

\* With nothing pending, nothing is under way but rules for "" and what came
\* after them.
LEMMA NothingPending ==
  ASSUME PendingInv, pending = NoName
  PROVE  nameless \/ Quiet
BY DEF PendingInv, Quiet

\* An action that begins where nothing is pending is the pending one, and the
\* only one but for rules for "" and what came after them.
LEMMA ActKeepsInv ==
  ASSUME PendingInv, pending = NoName, mode = "open", NEW kind, NEW n, Act(kind, n), form' = FALSE
  PROVE  PendingInv'
<1> DEFINE a == [id |-> events', kind |-> kind, name |-> n, done |-> FALSE]
<1>1. acting' = acting \cup {a} /\ pending' = n /\ mode' = "open" /\ nameless' = (nameless \/ n = NoName)
  BY DEF Act
<1>2. a.name = n
  OBVIOUS
<1> HIDE DEF a
<1>3. \E b \in acting' : b.name = pending'
  BY <1>1, <1>2
<1>4. ~nameless' => pending' # NoName /\ \E b \in acting' : acting' = {b} /\ pending' = b.name
  <2>1. SUFFICES ASSUME ~nameless'
                 PROVE  pending' # NoName /\ \E b \in acting' : acting' = {b} /\ pending' = b.name
    OBVIOUS
  <2>2. n # NoName /\ acting = {}
    BY <1>1, <2>1, NothingPending DEF Quiet
  <2> QED
    BY <1>1, <1>2, <2>2
<1> QED
  BY <1>1, <1>3, <1>4 DEF PendingInv

\* Every step keeps the invariant: keys begin an action only where nothing is
\* pending, and an outcome clears what is pending whatever else is under way.
THEOREM PendingStep == PendingInv /\ [Next]_vars => PendingInv'
<1> SUFFICES ASSUME PendingInv, [Next]_vars PROVE PendingInv'
  OBVIOUS
<1>1. CASE UNCHANGED <<mode, form, pending, acting, nameless>>
  BY <1>1 DEF PendingInv, Quiet
<1>2. CASE Key
  <2>1. CASE ToggleSelected \/ RemoveSelected
    <3>1. PICK kind : Act(kind, Selected)
      BY <2>1 DEF ToggleSelected, RemoveSelected
    <3>2. pending = NoName /\ mode = "open" /\ form' = FALSE
      BY <2>1 DEF ToggleSelected, RemoveSelected, ListHasKeys
    <3> QED
      BY <3>1, <3>2, ActKeepsInv
  <2>2. CASE \E h \in Hosts : RuleForSelected(h)
    <3>1. PICK h \in Hosts : Act("rule", h)
      BY <2>2 DEF RuleForSelected
    <3>2. pending = NoName /\ mode = "open" /\ form' = FALSE
      BY <2>2 DEF RuleForSelected, ListHasKeys
    <3> QED
      BY <3>1, <3>2, ActKeepsInv
  <2>3. CASE \E n \in Names : SubmitCreate(n)
    <3>1. PICK n \in Names : Act("create", n)
      BY <2>3 DEF SubmitCreate
    <3>2. pending = NoName /\ mode = "open" /\ form' = FALSE
      BY <2>3 DEF SubmitCreate, PendingInv
    <3> QED
      BY <3>1, <3>2, ActKeepsInv
  <2>4. CASE StartCreate
    BY <2>4 DEF StartCreate, ListHasKeys, PendingInv, Quiet, commandVars
  <2>5. CASE LeaveForm
    BY <2>5 DEF LeaveForm, PendingInv, Quiet, commandVars
  <2>6. CASE MoveCursor
    BY <1>1, <2>6 DEF MoveCursor, programVars, commandVars
  <2> QED
    BY <1>2, <2>1, <2>2, <2>3, <2>4, <2>5, <2>6 DEF Key
<1>3. CASE Quit \/ AttachSelected
  BY <1>1, <1>3 DEF Quit, AttachSelected, commandVars
<1>4. CASE QuitMsg
  BY <1>4 DEF QuitMsg, PendingInv, Quiet
<1>5. CASE StartSession \/ Reopen \/ SessionFails
  BY <1>5 DEF StartSession, Reopen, SessionFails, PendingInv, Quiet, commandVars
<1>6. ASSUME NEW a \in acting, Perform(a) PROVE PendingInv'
  <2> DEFINE b == [a EXCEPT !.done = TRUE]
  <2>1. acting' = (acting \ {a}) \cup {b} /\ UNCHANGED <<mode, form, pending, nameless>>
    BY <1>6 DEF Perform, programVars
  <2>2. b.name = a.name \/ a.name = NoName
    OBVIOUS
  <2> QED
    BY <2>1, <2>2 DEF PendingInv, Quiet
<1>7. ASSUME NEW a \in acting, ActionMsg(a) \/ RuleMsg(a) PROVE PendingInv'
  <2>1. /\ acting' = acting \ {a} /\ pending' = NoName /\ mode = "open"
        /\ nameless' = (nameless /\ acting' # {}) /\ UNCHANGED <<mode, form>>
    BY <1>7 DEF ActionMsg, RuleMsg, ComesBack
  <2>2. ~nameless' => acting' = {}
    BY <2>1 DEF PendingInv, Quiet
  <2> QED
    BY <2>1, <2>2 DEF PendingInv, Quiet
<1>8. CASE \/ Tick \/ Answer \/ ListFails \/ ErrMsg \/ UNCHANGED vars
           \/ \E answer \in World : SandboxesMsg(answer)
           \/ \E n \in Names : TakeSample(n) \/ StatsMsg(n) \/ Outside(n)
           \/ \E a \in adrift : PerformAdrift(a)
  <2>1. UNCHANGED <<mode, form, pending, acting, nameless>>
    BY <1>8 DEF Tick, Answer, ListFails, ErrMsg, SandboxesMsg, TakeSample, StatsMsg, Outside,
                PerformAdrift, vars, programVars, commandVars
  <2> QED
    BY <1>1, <2>1
<1> QED
  BY <1>2, <1>3, <1>4, <1>5, <1>6, <1>7, <1>8 DEF Next

\* However its messages overtake each other, a pending name, which holds off
\* the keys, is that of an action under way, and but for rules for "" and what
\* comes after them one action at most is under way, with its name pending
\* (internal/tui/keys.go, handleKey).
THEOREM OneAction == Spec => []OneActionAtATime
<1>1. PendingInv => OneActionAtATime
  BY DEF PendingInv, Quiet, OneActionAtATime
<1> QED
  BY <1>1, PendingInit, PendingStep, PTL DEF Spec
-----------------------------------------------------------------------------
(***************************************************************************)
(* Rows.                                                                   *)
(***************************************************************************)
\* A listing is of some of the sandboxes, each with its status.
LEMMA WorldIs ==
  ASSUME NEW w
  PROVE  w \in World <=> DOMAIN w \subseteq Names /\ w \in [DOMAIN w -> {"running", "stopped"}]
<1>1. ASSUME w \in World
      PROVE  DOMAIN w \subseteq Names /\ w \in [DOMAIN w -> {"running", "stopped"}]
  <2>1. PICK S \in SUBSET Names : w \in [S -> {"running", "stopped"}]
    BY <1>1 DEF World
  <2> QED
    BY <2>1
<1>2. ASSUME DOMAIN w \subseteq Names, w \in [DOMAIN w -> {"running", "stopped"}]
      PROVE  w \in World
  BY <1>2 DEF World
<1> QED
  BY <1>1, <1>2

\* A row is one of the listing's, and no two sandboxes share one.
LEMMA RowIs ==
  ASSUME NEW w \in World
  PROVE  /\ IsFiniteSet(DOMAIN w) /\ Cardinality(DOMAIN w) \in Nat
         /\ \A n \in DOMAIN w : Row(w, n) \in 0..(Cardinality(DOMAIN w) - 1)
         /\ \A m, n \in DOMAIN w : Row(w, m) = Row(w, n) => m = n
<1> DEFINE D == DOMAIN w
           Below(n) == {m \in D : m < n}
<1>1. D \subseteq Names /\ D \subseteq Nat
  BY WorldIs, NamesAssumption
<1>2. IsFiniteSet(D) /\ Cardinality(D) \in Nat
  <2>1. IsFiniteSet(D)
    BY <1>1, NamesAssumption, FS_Subset
  <2> QED
    BY <2>1, FS_CardinalityType
<1>3. ASSUME NEW n \in D
      PROVE  /\ IsFiniteSet(Below(n)) /\ Cardinality(Below(n)) \in Nat
             /\ Cardinality(Below(n)) < Cardinality(D)
  <2>1. Below(n) \subseteq D /\ n \notin Below(n)
    BY <1>1
  <2> HIDE DEF Below, D
  <2>2. IsFiniteSet(Below(n)) /\ Cardinality(Below(n)) <= Cardinality(D) /\ Below(n) # D
    BY <1>2, <1>3, <2>1, FS_Subset
  <2>3. Cardinality(Below(n)) \in Nat
    BY <2>2, FS_CardinalityType
  <2>4. Cardinality(D) # Cardinality(Below(n))
    BY <1>2, <2>1, <2>2, FS_Subset
  <2> QED
    BY <1>2, <2>2, <2>3, <2>4
<1>4. ASSUME NEW m \in D, NEW n \in D, m < n PROVE Cardinality(Below(m)) < Cardinality(Below(n))
  <2>1. Below(m) \subseteq Below(n) /\ m \in Below(n) /\ m \notin Below(m)
    BY <1>1, <1>4
  <2>2. IsFiniteSet(Below(n)) /\ Cardinality(Below(m)) \in Nat /\ Cardinality(Below(n)) \in Nat
    BY <1>3
  <2> HIDE DEF Below, D
  <2>3. Cardinality(Below(m)) <= Cardinality(Below(n))
        /\ (Cardinality(Below(n)) = Cardinality(Below(m)) => Below(n) = Below(m))
    BY <2>1, <2>2, FS_Subset
  <2> QED
    BY <2>1, <2>2, <2>3
<1>5. \A n \in D : Row(w, n) = Cardinality(Below(n))
  BY DEF Row
<1> HIDE DEF Below
<1>6. \A n \in D : Row(w, n) \in 0..(Cardinality(D) - 1)
  BY <1>2, <1>3, <1>5
<1>7. ASSUME NEW m \in D, NEW n \in D, Row(w, m) = Row(w, n) PROVE m = n
  <2>1. m \in Nat /\ n \in Nat
    BY <1>1
  <2>2. ~(m < n) /\ ~(n < m)
    BY <1>3, <1>4, <1>5, <1>7
  <2> QED
    BY <2>1, <2>2
<1> QED
  BY <1>2, <1>6, <1>7

\* What the cursor may be on a listing.
CursorOn(c, w) == c = 0 \/ c \in 1..(Cardinality(DOMAIN w) - 1)

\* A clamped row is one of the listing's, or the first.
LEMMA ClampIs ==
  ASSUME NEW w \in World, NEW c \in Nat
  PROVE  CursorOn(Clamp(c, w), w)
<1> DEFINE k == Cardinality(DOMAIN w)
<1>1. k \in Nat /\ (DOMAIN w # {} => k # 0)
  BY RowIs, FS_EmptySet
<1> HIDE DEF k
<1>2. Clamp(c, w) = IF c < k THEN c ELSE IF DOMAIN w = {} THEN 0 ELSE k - 1
  BY DEF Clamp, k
<1>3. Clamp(c, w) = 0 \/ Clamp(c, w) \in 1..(k - 1)
  <2>1. CASE c < k
    BY <1>1, <1>2, <2>1
  <2>2. CASE ~(c < k) /\ DOMAIN w = {}
    BY <1>2, <2>2
  <2>3. CASE ~(c < k) /\ DOMAIN w # {}
    <3>1. Clamp(c, w) = k - 1 /\ k \in Nat /\ k # 0
      BY <1>1, <1>2, <2>3
    <3>2. k - 1 = 0 \/ k - 1 \in 1..(k - 1)
      BY <3>1
    <3> QED
      BY <3>1, <3>2
  <2> QED
    BY <2>1, <2>2, <2>3
<1> QED
  BY <1>3 DEF CursorOn, k

\* A restored cursor is on the listing it is restored in.
LEMMA RestoredIs ==
  ASSUME NEW w \in World, cursor \in Nat
  PROVE  CursorOn(RestoredCursor(w), w)
<1>1. CASE Selected \in DOMAIN w
  <2> DEFINE k == Cardinality(DOMAIN w)
             row == Row(w, Selected)
  <2>1. row \in 0..(k - 1) /\ k \in Nat
    BY <1>1, RowIs
  <2>2. RestoredCursor(w) = row
    BY <1>1 DEF RestoredCursor
  <2> HIDE DEF row, k
  <2>3. row = 0 \/ row \in 1..(k - 1)
    BY <2>1
  <2> QED
    BY <2>2, <2>3 DEF CursorOn, k
<1>2. CASE Selected \notin DOMAIN w
  BY <1>2, ClampIs DEF RestoredCursor
<1> QED
  BY <1>1, <1>2

\* The sandbox of a row is the one with that row.
LEMMA SelectedIs ==
  ASSUME shown \in World
  PROVE  /\ Selected # NoName => Selected \in DOMAIN shown /\ Row(shown, Selected) = cursor
         /\ \A n \in DOMAIN shown : Row(shown, n) = cursor => Selected = n
         /\ Selected \in Names \cup {NoName}
<1>1. DOMAIN shown \subseteq Names
  BY WorldIs
<1>2. CASE \E n \in DOMAIN shown : Row(shown, n) = cursor
  <2>1. Selected \in DOMAIN shown /\ Row(shown, Selected) = cursor
    BY <1>2 DEF Selected
  <2> QED
    BY <1>1, <2>1, RowIs
<1>3. CASE ~\E n \in DOMAIN shown : Row(shown, n) = cursor
  BY <1>3 DEF Selected
<1> QED
  BY <1>2, <1>3
-----------------------------------------------------------------------------
(***************************************************************************)
(* Types, and the cursor.                                                  *)
(***************************************************************************)
Types == TypeOK /\ IsFiniteSet(lists)

\* The service's answer to an action is again a set of sandboxes.
LEMMA EffectIs ==
  ASSUME world \in World, NEW a, a.kind = "rule" \/ a.name \in Names
  PROVE  Effect(a) \in World
<1> DEFINE S == {"running", "stopped"}
<1>1. DOMAIN world \subseteq Names /\ world \in [DOMAIN world -> S]
  BY WorldIs
<1>2. CASE a.kind = "start" /\ a.name \in DOMAIN world
  <2>1. Effect(a) = [world EXCEPT ![a.name] = "running"]
    BY <1>2 DEF Effect
  <2> QED
    BY <1>1, <2>1, WorldIs
<1>3. CASE a.kind = "stop" /\ a.name \in DOMAIN world
  <2>1. Effect(a) = [world EXCEPT ![a.name] = "stopped"]
    BY <1>3 DEF Effect
  <2> QED
    BY <1>1, <2>1, WorldIs
<1>4. CASE a.kind = "remove" /\ a.name \in DOMAIN world /\ a.name \notin Running(world)
  <2>1. Effect(a) = [n \in DOMAIN world \ {a.name} |-> world[n]]
    BY <1>4 DEF Effect, Restrict
  <2> QED
    BY <1>1, <2>1, WorldIs
<1>5. CASE a.kind = "create" /\ a.name \notin DOMAIN world
  <2> DEFINE w == [n \in DOMAIN world \cup {a.name} |-> IF n = a.name THEN "stopped" ELSE world[n]]
  <2>1. Effect(a) = w
    BY <1>5 DEF Effect
  <2>2. a.name \in Names
    BY <1>5
  <2>3. DOMAIN w \subseteq Names /\ w \in [DOMAIN w -> S]
    BY <1>1, <2>2
  <2> QED
    BY <2>1, <2>3, WorldIs
<1>6. CASE /\ ~(a.kind \in {"start", "stop"} /\ a.name \in DOMAIN world)
           /\ ~(a.kind = "remove" /\ a.name \in DOMAIN world /\ a.name \notin Running(world))
           /\ ~(a.kind = "create" /\ a.name \notin DOMAIN world)
  BY <1>6 DEF Effect
<1> QED
  BY <1>2, <1>3, <1>4, <1>5, <1>6

\* One listing more is within the bound where there is room for it.
LEMMA ListIs ==
  ASSUME Types, List(lists)
  PROVE  /\ IsFiniteSet(lists') /\ Cardinality(lists') <= MaxLists
         /\ lists' \subseteq [stage : {"asked", "answered", "failed"}, answer : World]
<1>1. /\ IsFiniteSet(lists) /\ Cardinality(lists) <= MaxLists
      /\ lists \subseteq [stage : {"asked", "answered", "failed"}, answer : World]
  BY DEF Types, TypeOK
<1>2. Cardinality(lists) \in Nat /\ MaxLists \in Nat
  BY <1>1, FS_CardinalityType, BoundsAssumption
<1>3. lists' = lists \cup {Asked} /\ (Cardinality(lists) < MaxLists \/ Asked \in lists)
  BY DEF List
<1>4. Empty \in World
  BY WorldIs DEF Empty
<1>5. Asked \in [stage : {"asked", "answered", "failed"}, answer : World]
  BY <1>4 DEF Asked, Listing
<1>6. /\ IsFiniteSet(lists \cup {Asked})
      /\ Cardinality(lists \cup {Asked}) =
           IF Asked \in lists THEN Cardinality(lists) ELSE Cardinality(lists) + 1
  BY <1>1, FS_AddElement
<1> QED
  BY <1>1, <1>2, <1>3, <1>5, <1>6

\* A listing that is answered, fails or is shown leaves no more of them.
LEMMA ListsStay ==
  ASSUME Types, NEW old \in lists,
         NEW new \in [stage : {"asked", "answered", "failed"}, answer : World],
         lists' \in {lists \ {old}, (lists \ {old}) \cup {new}}
  PROVE  /\ IsFiniteSet(lists') /\ Cardinality(lists') <= MaxLists
         /\ lists' \subseteq [stage : {"asked", "answered", "failed"}, answer : World]
<1> DEFINE rest == lists \ {old}
<1>1. /\ IsFiniteSet(lists) /\ Cardinality(lists) <= MaxLists
      /\ lists \subseteq [stage : {"asked", "answered", "failed"}, answer : World]
  BY DEF Types, TypeOK
<1>2. Cardinality(lists) \in Nat /\ MaxLists \in Nat
  BY <1>1, FS_CardinalityType, BoundsAssumption
<1>3. IsFiniteSet(rest) /\ Cardinality(rest) = Cardinality(lists) - 1
  BY <1>1, FS_RemoveElement
<1> HIDE DEF rest
<1>4. /\ IsFiniteSet(rest \cup {new})
      /\ Cardinality(rest \cup {new}) = IF new \in rest THEN Cardinality(rest) ELSE Cardinality(rest) + 1
  BY <1>3, FS_AddElement
<1>5. lists' = rest \/ lists' = rest \cup {new}
  BY DEF rest
<1>6. lists' \subseteq [stage : {"asked", "answered", "failed"}, answer : World]
  BY <1>1, <1>5 DEF rest
<1>7. IsFiniteSet(lists') /\ Cardinality(lists') <= MaxLists
  <2>1. CASE lists' = rest
    BY <1>1, <1>2, <1>3, <2>1
  <2>2. CASE lists' = rest \cup {new}
    BY <1>1, <1>2, <1>3, <1>4, <2>2
  <2> QED
    BY <1>5, <2>1, <2>2
<1> QED
  BY <1>6, <1>7

\* Every step keeps the types.
LEMMA TypesStep ==
  ASSUME Types, [Next]_vars
  PROVE  Types'
<1> DEFINE AllListings == [stage : {"asked", "answered", "failed"}, answer : World]
<1>1. /\ world \in World /\ shown \in World /\ acting \subseteq Action
      /\ IsFiniteSet(lists) /\ lists \subseteq AllListings /\ Cardinality(lists) <= MaxLists
      /\ CursorOn(cursor, shown) /\ cursor \in Nat
      /\ sampling \subseteq Names \X {"asked", "taken"} /\ load \subseteq Names
      /\ events \in 0..MaxEvents /\ MaxEvents \in Nat
      /\ adrift \subseteq Action /\ quitting \in BOOLEAN /\ nameless \in BOOLEAN
  <2>1. CursorOn(cursor, shown)
    BY DEF Types, TypeOK, CursorOn
  <2>2. cursor \in Nat
    BY <2>1 DEF CursorOn
  <2> QED
    BY <2>1, <2>2, BoundsAssumption DEF Types, TypeOK
<1>2. Empty \in World /\ Failed \in AllListings /\ Asked \in AllListings
      /\ Listing("answered", world) \in AllListings
  <2>1. Empty \in World
    BY WorldIs DEF Empty
  <2> QED
    BY <1>1, <2>1 DEF Failed, Asked, Listing
<1>3. Selected \in Names \cup {NoName}
  BY <1>1, SelectedIs
<1>4. Event => events' \in 0..MaxEvents
  BY <1>1 DEF Event
<1>5. CASE Tick
  <2>1. List(lists)
    BY <1>5 DEF Tick
  <2>2. IsFiniteSet(lists') /\ Cardinality(lists') <= MaxLists /\ lists' \subseteq AllListings
    BY <2>1, ListIs
  <2> QED
    BY <1>5, <2>2 DEF Tick, Types, TypeOK, screenVars
<1>6. CASE Answer \/ ListFails \/ ErrMsg
  <2>1. IsFiniteSet(lists') /\ Cardinality(lists') <= MaxLists /\ lists' \subseteq AllListings
    <3>1. CASE Answer
      BY <1>2, <3>1, ListsStay DEF Answer
    <3>2. CASE ListFails
      BY <1>2, <3>2, ListsStay DEF ListFails
    <3>3. CASE ErrMsg
      BY <1>2, <3>3, ListsStay DEF ErrMsg
    <3> QED
      BY <1>6, <3>1, <3>2, <3>3
  <2>2. UNCHANGED <<world, programVars, screenVars, sampling, acting, adrift>>
    BY <1>6 DEF Answer, ListFails, ErrMsg
  <2>3. events' \in 0..MaxEvents
    BY <1>1, <1>4, <1>6 DEF Answer, ListFails, ErrMsg
  <2> QED
    BY <2>1, <2>2, <2>3 DEF Types, TypeOK, programVars, screenVars
<1>7. ASSUME NEW answer \in World, SandboxesMsg(answer) PROVE Types'
  <2>1. Listing("answered", answer) \in lists /\ lists' = lists \ {Listing("answered", answer)}
    BY <1>7 DEF SandboxesMsg
  <2>2. IsFiniteSet(lists') /\ Cardinality(lists') <= MaxLists /\ lists' \subseteq AllListings
    BY <1>2, <2>1, ListsStay
  <2>3. shown' = answer /\ cursor' = RestoredCursor(answer)
        /\ sampling' = sampling \cup ((Running(answer) \ load) \X {"asked"})
        /\ load' = load \cap Running(answer)
    BY <1>7 DEF SandboxesMsg, ApplyListing
  <2>4. Running(answer) \subseteq Names
    BY WorldIs DEF Running
  <2>5. CursorOn(cursor', shown')
    BY <1>1, <2>3, RestoredIs
  <2>6. sampling' \subseteq Names \X {"asked", "taken"} /\ load' \subseteq Names
    BY <1>1, <2>3, <2>4
  <2>7. UNCHANGED <<world, programVars, acting, adrift, events>>
    BY <1>7 DEF SandboxesMsg
  <2> QED
    BY <2>2, <2>3, <2>5, <2>6, <2>7 DEF Types, TypeOK, CursorOn, programVars
<1>8. ASSUME NEW n \in Names, TakeSample(n) \/ StatsMsg(n) PROVE Types'
  <2>1. sampling' \subseteq Names \X {"asked", "taken"}
    BY <1>1, <1>8 DEF TakeSample, StatsMsg
  <2>2. load' \subseteq Names
    BY <1>1, <1>8 DEF TakeSample, StatsMsg, screenVars
  <2>3. UNCHANGED <<world, programVars, shown, cursor, lists, acting, adrift, events>>
    BY <1>8 DEF TakeSample, StatsMsg, screenVars
  <2> QED
    BY <2>1, <2>2, <2>3 DEF Types, TypeOK, programVars
<1>9. ASSUME NEW kind, NEW n,
             \/ kind \in {"start", "stop", "remove", "create"} /\ n \in Names
             \/ kind = "rule" /\ n \in Hosts,
             Act(kind, n), form' \in BOOLEAN
      PROVE  Types'
  <2>1. acting' \subseteq Action
    <3>1. [id |-> events', kind |-> kind, name |-> n, done |-> FALSE] \in Action
      <4>1. events' \in Nat
        BY <1>1, <1>4, <1>9 DEF Act
      <4>2. QED BY <1>9, <4>1 DEF Action
    <3> QED
      BY <1>1, <1>9, <3>1 DEF Act
  <2>2. pending' \in Names \cup Hosts \cup {NoName} /\ events' \in 0..MaxEvents
    BY <1>4, <1>9 DEF Act
  <2>3. /\ nameless' \in BOOLEAN
        /\ UNCHANGED <<world, mode, quitting, attach, timer, shown, cursor, load, lists,
                       sampling, adrift>>
    BY <1>9 DEF Act, screenVars
  <2> QED
    BY <1>9, <2>1, <2>2, <2>3 DEF Types, TypeOK
<1>10. CASE Key
  <2>0. form \in BOOLEAN
    BY DEF Types, TypeOK
  <2>1. CASE MoveCursor
    <3>1. CursorOn(cursor', shown)
      <4>1. CursorOn(0, shown)
        BY DEF CursorOn
      <4>2. CursorOn(IF cursor = 0 THEN 0 ELSE cursor - 1, shown)
        <5> DEFINE k == Cardinality(DOMAIN shown)
        <5>1. k \in Nat /\ (cursor = 0 \/ cursor \in 1..(k - 1))
          BY <1>1, RowIs DEF CursorOn
        <5> HIDE DEF k
        <5>2. LET c == IF cursor = 0 THEN 0 ELSE cursor - 1 IN c = 0 \/ c \in 1..(k - 1)
          BY <5>1
        <5> QED
          BY <5>2 DEF CursorOn, k
      <4>3. CursorOn(Clamp(cursor + 1, shown), shown)
        BY <1>1, ClampIs
      <4>4. CursorOn(Clamp(Cardinality(DOMAIN shown), shown), shown)
        BY <1>1, ClampIs, RowIs
      <4> QED
        BY <2>1, <4>1, <4>2, <4>3, <4>4 DEF MoveCursor
    <3>2. UNCHANGED <<world, programVars, shown, load, commandVars, events>>
      BY <2>1 DEF MoveCursor
    <3> QED
      BY <3>1, <3>2 DEF Types, TypeOK, CursorOn, programVars, commandVars
  <2>2. CASE ToggleSelected
    <3>1. PICK kind \in {"start", "stop"} : Act(kind, Selected)
      BY <2>2 DEF ToggleSelected
    <3>2. Selected \in Names /\ form' = form
      BY <1>3, <2>2 DEF ToggleSelected
    <3> QED
      BY <1>9, <2>0, <3>1, <3>2
  <2>3. CASE RemoveSelected
    <3>1. Act("remove", Selected) /\ Selected \in Names /\ form' = form
      BY <1>3, <2>3 DEF RemoveSelected
    <3> QED
      BY <1>9, <2>0, <3>1
  <2>4. CASE StartCreate \/ LeaveForm
    BY <2>4 DEF StartCreate, LeaveForm, Types, TypeOK, screenVars, commandVars
  <2>5. ASSUME NEW n \in Names, SubmitCreate(n) PROVE Types'
    BY <1>9, <2>5 DEF SubmitCreate
  <2>6. ASSUME NEW h \in Hosts, RuleForSelected(h) PROVE Types'
    BY <1>9, <2>0, <2>6 DEF RuleForSelected
  <2> QED
    BY <1>10, <2>1, <2>2, <2>3, <2>4, <2>5, <2>6 DEF Key
<1>11. CASE Quit \/ AttachSelected \/ QuitMsg
  <2>1. CASE Quit \/ AttachSelected
    <3>1. quitting' = TRUE /\ attach' \in Names \cup {NoName} /\ events' \in 0..MaxEvents
      BY <1>3, <1>4, <2>1 DEF Quit, AttachSelected, Types, TypeOK
    <3>2. UNCHANGED <<world, mode, form, pending, timer, nameless, screenVars, commandVars>>
      BY <2>1 DEF Quit, AttachSelected
    <3> QED
      BY <3>1, <3>2 DEF Types, TypeOK, screenVars, commandVars
  <2>2. CASE QuitMsg
    <3>1. /\ mode' \in {"left", "attaching"} /\ quitting' = FALSE /\ form' = FALSE
          /\ pending' = NoName /\ timer' = FALSE /\ nameless' = FALSE
          /\ shown' = Empty /\ cursor' = 0 /\ load' = {} /\ lists' = {} /\ sampling' = {}
          /\ acting' = {} /\ UNCHANGED <<world, attach, events>>
      BY <2>2 DEF QuitMsg
    <3>2. adrift' \subseteq Action
      BY <1>1, <2>2 DEF QuitMsg
    <3>3. IsFiniteSet({}) /\ Cardinality({}) = 0 /\ 0 <= MaxLists
      BY FS_EmptySet, BoundsAssumption
    <3> QED
      BY <1>2, <3>1, <3>2, <3>3 DEF Types, TypeOK
  <2> QED
    BY <1>11, <2>1, <2>2
<1>12. CASE StartSession \/ SessionFails
  <2>1. world' \in World
    <3>1. \A n \in DOMAIN world : [world EXCEPT ![n] = "running"] \in World
      BY <1>1, WorldIs
    <3> QED
      BY <1>1, <1>12, <3>1 DEF StartSession, SessionFails
  <2>2. mode' \in {"attached", "left"}
        /\ UNCHANGED <<quitting, attach, form, pending, timer, nameless, screenVars, commandVars,
                       events>>
    BY <1>12 DEF StartSession, SessionFails
  <2> QED
    BY <2>1, <2>2 DEF Types, TypeOK, screenVars, commandVars
<1>13. CASE Reopen
  <2>1. IsFiniteSet(lists') /\ Cardinality(lists') <= MaxLists /\ lists' \subseteq AllListings
    <3>1. lists' = {Asked} /\ IsFiniteSet({Asked}) /\ Cardinality({Asked}) = 1
      BY <1>13, FS_Singleton DEF Reopen
    <3>2. MaxLists \in Nat /\ MaxLists # 0
      BY BoundsAssumption
    <3> QED
      BY <1>2, <3>1, <3>2
  <2> QED
    BY <1>13, <2>1 DEF Reopen, Types, TypeOK, screenVars
<1>14. ASSUME NEW n \in Names, Outside(n) PROVE Types'
  <2>1. world' \in World
    <3>1. PICK kind \in {"start", "stop", "remove", "create"} :
            world' = Effect([kind |-> kind, name |-> n])
      BY <1>14 DEF Outside
    <3> QED
      BY <1>1, <3>1, EffectIs
  <2>2. events' \in 0..MaxEvents /\ UNCHANGED <<programVars, screenVars, commandVars>>
    BY <1>4, <1>14 DEF Outside
  <2> QED
    BY <2>1, <2>2 DEF Types, TypeOK, programVars, screenVars, commandVars
<1>15. ASSUME NEW a \in acting, Perform(a) PROVE Types'
  <2>1. a \in Action /\ [a EXCEPT !.done = TRUE] \in Action
    BY <1>1 DEF Action
  <2>2. acting' \subseteq Action
    BY <1>1, <1>15, <2>1 DEF Perform
  <2>3. world' \in World
    BY <1>1, <1>15, <2>1, EffectIs DEF Perform, Action
  <2>4. UNCHANGED <<programVars, screenVars, lists, sampling, adrift, events>>
    BY <1>15 DEF Perform
  <2> QED
    BY <2>2, <2>3, <2>4 DEF Types, TypeOK, programVars, screenVars
<1>16. ASSUME NEW a \in acting, ActionMsg(a) \/ RuleMsg(a) PROVE Types'
  <2>1. IsFiniteSet(lists') /\ Cardinality(lists') <= MaxLists /\ lists' \subseteq AllListings
    BY <1>1, <1>16, ListIs DEF ActionMsg, RuleMsg
  <2>2. /\ pending' = NoName /\ acting' \subseteq Action /\ nameless' \in BOOLEAN
        /\ UNCHANGED <<world, mode, quitting, attach, form, timer, screenVars, sampling, adrift,
                       events>>
    BY <1>1, <1>16 DEF ActionMsg, RuleMsg, ComesBack
  <2> QED
    BY <2>1, <2>2 DEF Types, TypeOK, screenVars
<1>17. ASSUME NEW a \in adrift, PerformAdrift(a) PROVE Types'
  <2>1. world' \in World
    <3>1. a \in Action
      BY <1>1
    <3> QED
      BY <1>1, <1>17, <3>1, EffectIs DEF PerformAdrift, Action
  <2>2. /\ adrift' \subseteq Action
        /\ UNCHANGED <<programVars, screenVars, lists, sampling, acting, events>>
    BY <1>1, <1>17 DEF PerformAdrift
  <2> QED
    BY <2>1, <2>2 DEF Types, TypeOK, programVars, screenVars
<1>18. CASE UNCHANGED vars
  BY <1>18 DEF vars, programVars, screenVars, commandVars, Types, TypeOK
<1> QED
  BY <1>5, <1>6, <1>7, <1>8, <1>10, <1>11, <1>12, <1>13, <1>14, <1>15, <1>16, <1>17, <1>18 DEF Next

\* Every variable keeps its type, for any sandboxes and bounds: the cursor is on a
\* row of the listing on screen whatever that is replaced with, and a name pending
\* or attached to is one there is.
THEOREM TypeCorrect == Spec => []Types
<1>1. Init => Types
  <2> SUFFICES ASSUME Init PROVE Types
    OBVIOUS
  <2>1. Empty \in World /\ DOMAIN Empty = {}
    BY WorldIs DEF Empty
  <2>2. Asked \in [stage : {"asked", "answered", "failed"}, answer : World]
    BY <2>1 DEF Asked, Listing
  <2>3. IsFiniteSet(lists) /\ Cardinality(lists) <= MaxLists
    <3>1. lists = {Asked} /\ IsFiniteSet({Asked}) /\ Cardinality({Asked}) = 1
      BY FS_Singleton DEF Init
    <3> QED
      BY <3>1, BoundsAssumption
  <2>4. /\ lists = {Asked} /\ events = 0 /\ events \in 0..MaxEvents
        /\ world \in World /\ shown = Empty /\ cursor = 0
    BY BoundsAssumption DEF Init
  <2> QED
    BY <2>1, <2>2, <2>3, <2>4 DEF Init, Types, TypeOK
<1>2. Types /\ [Next]_vars => Types'
  BY TypesStep
<1> QED
  BY <1>1, <1>2, PTL DEF Spec

\* The same, as the property the run checks.
THEOREM DashboardTypes == Spec => []TypeOK
<1>1. Types => TypeOK
  BY DEF Types
<1> QED
  BY <1>1, TypeCorrect, PTL

\* A listing leaves the cursor on its sandbox, in whatever row that is now.
LEMMA ListingKeepsSelected ==
  ASSUME Types, NEW answer \in World, SandboxesMsg(answer), Selected \in DOMAIN answer
  PROVE  Selected' = Selected
<1>1. shown' = answer /\ cursor' = Row(answer, Selected)
  BY DEF SandboxesMsg, ApplyListing, RestoredCursor
<1>2. Selected' = CHOOSE n \in DOMAIN answer : Row(answer, n) = Row(answer, Selected)
  <2> DEFINE row == Row(answer, Selected)
  <2>1. \E n \in DOMAIN answer : Row(answer, n) = row
    OBVIOUS
  <2> HIDE DEF row
  <2>2. Selected' = IF \E n \in DOMAIN answer : Row(answer, n) = row
                    THEN CHOOSE n \in DOMAIN answer : Row(answer, n) = row ELSE NoName
    BY <1>1 DEF Selected, row, Row
  <2> QED
    BY <2>1, <2>2 DEF row
<1>3. \A n \in DOMAIN answer : Row(answer, n) = Row(answer, Selected) => n = Selected
  BY RowIs
<1> QED
  BY <1>2, <1>3

\* While the panel is open the cursor stays on its sandbox as long as that is
\* listed, whatever else comes, goes or changes its row in between.
THEOREM CursorStays == Spec => CursorStaysOnSandbox
<1>1. ASSUME Types, [Next]_vars
      PROVE  [mode = "open" /\ mode' = "open" /\ shown' # shown /\ Selected \in DOMAIN shown' =>
                Selected' = Selected]_vars
  <2> SUFFICES ASSUME mode = "open", mode' = "open", shown' # shown, Selected \in DOMAIN shown'
               PROVE  Selected' = Selected
    OBVIOUS
  <2>1. \E answer \in World : SandboxesMsg(answer)
    <3>1. Next
      BY <1>1 DEF vars, screenVars
    <3>2. ~(Tick \/ Answer \/ ListFails \/ ErrMsg \/ StartSession \/ Reopen \/ SessionFails)
      BY DEF Tick, Answer, ListFails, ErrMsg, StartSession, Reopen, SessionFails, screenVars
    <3>3. ~Quit /\ ~AttachSelected /\ ~QuitMsg /\ ~\E a \in adrift : PerformAdrift(a)
      BY DEF Quit, AttachSelected, QuitMsg, PerformAdrift, screenVars
    <3>4. ~Key
      BY DEF Key, MoveCursor, ToggleSelected, RemoveSelected, RuleForSelected, StartCreate,
             SubmitCreate, LeaveForm, Act, screenVars
    <3>5. ~\E n \in Names : TakeSample(n) \/ StatsMsg(n) \/ Outside(n)
      BY DEF TakeSample, StatsMsg, Outside, screenVars
    <3>6. ~\E a \in acting : Perform(a) \/ ActionMsg(a) \/ RuleMsg(a)
      BY DEF Perform, ActionMsg, RuleMsg, ComesBack, screenVars
    <3> QED
      BY <3>1, <3>2, <3>3, <3>4, <3>5, <3>6 DEF Next
  <2>2. PICK answer \in World : SandboxesMsg(answer)
    BY <2>1
  <2>3. shown' = answer
    BY <2>2 DEF SandboxesMsg, ApplyListing
  <2> QED
    BY <1>1, <2>2, <2>3, ListingKeepsSelected
<1> QED
  BY <1>1, TypeCorrect, PTL DEF Spec, CursorStaysOnSandbox
=============================================================================
