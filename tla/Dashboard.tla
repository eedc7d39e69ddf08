------------------------------ MODULE Dashboard -----------------------------
(***************************************************************************)
(* The dashboard's sandboxes panel (internal/tui/model.go, keys.go and     *)
(* create.go) and the sessions it gives way to (cmd/jard/dashboard.go).    *)
(*                                                                         *)
(* One loop applies messages to the model.  Commands run beside it, each   *)
(* in a goroutine that calls the service and ends in one message: listings,*)
(* samples of a sandbox's load, and what a key asked for.  Nothing orders  *)
(* their messages.  The service is here what its interface says: List      *)
(* answers with all sandboxes, and every other call is one step.           *)
(*                                                                         *)
(* tea.Quit is such a command too: what a key has been pressed behind it   *)
(* is handled before its message ends the program.                         *)
(*                                                                         *)
(* The panel that has the keyboard is left out: tab is never refused, so   *)
(* the keys of both panels are always at hand.                             *)
(***************************************************************************)
EXTENDS Naturals, FiniteSets, Functions

CONSTANTS
  Names,        \* sandboxes, numbered in the order of a listing
  Hosts,        \* hosts a decision of the network panel is about: what parseTarget
                \* makes of an authority, which for ":443" is ""
  NoName,       \* "", no sandbox's name (api.ValidName)
  MaxLists,     \* bound on the listings under way at a time
  MaxEvents     \* bound on the actions begun, the keys that quit, the sandboxes
                \* others change and the listings that fail, taken together

ASSUME NamesAssumption == Names \subseteq Nat /\ IsFiniteSet(Names)
ASSUME NoNameAssumption == NoName \notin Names
ASSUME BoundsAssumption == MaxLists \in Nat \ {0} /\ MaxEvents \in Nat

VARIABLES
  world,        \* the sandboxes there are, with their status
  mode,         \* "open", "attaching" or "attached" to a session, "left"
  quitting,     \* m.quitting, the message that ends the program is on its way
  attach,       \* m.attach, the sandbox of the session
  shown,        \* m.sandboxes, the listing on screen
  cursor,       \* m.cursor, a row of shown
  load,         \* the keys of m.stats, the sandboxes shown with their load
  form,         \* m.create # nil
  pending,      \* m.pending
  timer,        \* a tick is under way
  lists,        \* listings under way, those alike taken as one
  sampling,     \* samples under way, at most one of a sandbox at each stage
  acting,       \* what keys asked for and has not come back
  adrift,       \* what keys of a program that has ended asked for and is not done
  nameless,     \* history: a rule for "" has been begun, and something has been
                \* under way ever since
  events        \* how many there have been

programVars == <<mode, quitting, attach, form, pending, timer, nameless>>
screenVars == <<shown, cursor, load>>
commandVars == <<lists, sampling, acting, adrift>>
vars == <<world, programVars, screenVars, commandVars, events>>

World == UNION {[S -> {"running", "stopped"}] : S \in SUBSET Names}
Empty == [n \in {} |-> "stopped"]
Listing(stage, answer) == [stage |-> stage, answer |-> answer]
Asked == Listing("asked", Empty)
Failed == Listing("failed", Empty)
Action == [id : Nat, kind : {"start", "stop", "remove", "create"}, name : Names, done : BOOLEAN]
            \cup [id : Nat, kind : {"rule"}, name : Hosts, done : BOOLEAN]

TypeOK ==
  /\ world \in World /\ shown \in World
  /\ mode \in {"open", "attaching", "attached", "left"}
  /\ attach \in Names \cup {NoName}
  /\ cursor = 0 \/ cursor \in 1..(Cardinality(DOMAIN shown) - 1)
  /\ load \subseteq Names
  /\ form \in BOOLEAN /\ timer \in BOOLEAN /\ quitting \in BOOLEAN /\ nameless \in BOOLEAN
  /\ pending \in Names \cup Hosts \cup {NoName}
  /\ lists \subseteq [stage : {"asked", "answered", "failed"}, answer : World]
  /\ Cardinality(lists) <= MaxLists
  /\ sampling \subseteq Names \X {"asked", "taken"}
  /\ acting \subseteq Action /\ adrift \subseteq Action
  /\ events \in 0..MaxEvents

\* tui.New and Model.Init: an empty model, its first listing and its timer.
Init ==
  /\ world \in World
  /\ mode = "open" /\ quitting = FALSE /\ attach = NoName
  /\ form = FALSE /\ pending = NoName /\ timer = TRUE
  /\ shown = Empty /\ cursor = 0 /\ load = {}
  /\ lists = {Asked} /\ sampling = {} /\ acting = {} /\ adrift = {}
  /\ nameless = FALSE /\ events = 0

Running(listing) == {n \in DOMAIN listing : listing[n] = "running"}
Row(listing, n) == Cardinality({m \in DOMAIN listing : m < n})

\* The sandbox under the cursor; there is one exactly if there is a listing.
Selected ==
  IF \E n \in DOMAIN shown : Row(shown, n) = cursor
  THEN CHOOSE n \in DOMAIN shown : Row(shown, n) = cursor
  ELSE NoName

Clamp(c, listing) ==
  IF c < Cardinality(DOMAIN listing) THEN c
  ELSE IF DOMAIN listing = {} THEN 0 ELSE Cardinality(DOMAIN listing) - 1
-----------------------------------------------------------------------------
(***************************************************************************)
(* Listings.                                                               *)
(***************************************************************************)
Event == events < MaxEvents /\ events' = events + 1

List(others) ==
  /\ Cardinality(others) < MaxLists \/ Asked \in others
  /\ lists' = others \cup {Asked}

\* Mutant: an open form takes the tick with everything else.
TickUnlessForm ==
  /\ mode = "open" /\ timer
  /\ IF form THEN timer' = FALSE /\ UNCHANGED lists ELSE List(lists) /\ UNCHANGED timer
  /\ UNCHANGED <<world, mode, quitting, attach, form, pending, nameless, screenVars,
                 sampling, acting, adrift, events>>

\* A tick asks for a listing and for the next tick.
Tick ==
  /\ mode = "open" /\ timer
  /\ List(lists)
  /\ timer' = TRUE
  /\ UNCHANGED <<world, mode, quitting, attach, form, pending, nameless, screenVars,
                 sampling, acting, adrift, events>>

Answer ==
  /\ Asked \in lists
  /\ lists' = (lists \ {Asked}) \cup {Listing("answered", world)}
  /\ UNCHANGED <<world, programVars, screenVars, sampling, acting, adrift, events>>

ListFails ==
  /\ Event
  /\ Asked \in lists
  /\ lists' = (lists \ {Asked}) \cup {Failed}
  /\ UNCHANGED <<world, programVars, screenVars, sampling, acting, adrift>>

\* Mutant: the cursor keeps its row.
SameRow(listing) == Clamp(cursor, listing)

\* Mutant: the cursor is not brought back into the list.
Unclamped(listing) ==
  IF Selected \in DOMAIN listing THEN Row(listing, Selected) ELSE cursor

RestoredCursor(listing) ==
  IF Selected \in DOMAIN listing THEN Row(listing, Selected) ELSE Clamp(cursor, listing)

\* Mutant: what is no longer running keeps its load.
ApplyListingKeepingLoad(listing) ==
  /\ sampling' = sampling \cup ((Running(listing) \ load) \X {"asked"})
  /\ shown' = listing
  /\ cursor' = RestoredCursor(listing)
  /\ UNCHANGED load

\* Only what has no sample is sampled.
ApplyListing(listing) ==
  /\ sampling' = sampling \cup ((Running(listing) \ load) \X {"asked"})
  /\ load' = load \cap Running(listing)
  /\ shown' = listing
  /\ cursor' = RestoredCursor(listing)

SandboxesMsg(answer) ==
  /\ mode = "open" /\ Listing("answered", answer) \in lists
  /\ ApplyListing(answer)
  /\ lists' = lists \ {Listing("answered", answer)}
  /\ UNCHANGED <<world, programVars, acting, adrift, events>>

ErrMsg ==
  /\ mode = "open" /\ Failed \in lists
  /\ lists' = lists \ {Failed}
  /\ UNCHANGED <<world, programVars, screenVars, sampling, acting, adrift, events>>
-----------------------------------------------------------------------------
(***************************************************************************)
(* Samples: one reading, of a sandbox that runs when it is taken; where    *)
(* there is none, in time or at all, nothing comes back.                   *)
(***************************************************************************)
TakeSample(n) ==
  /\ <<n, "asked">> \in sampling
  /\ \/ sampling' = sampling \ {<<n, "asked">>}
     \/ n \in Running(world) /\ sampling' = (sampling \ {<<n, "asked">>}) \cup {<<n, "taken">>}
  /\ UNCHANGED <<world, programVars, screenVars, lists, acting, adrift, events>>

StatsMsg(n) ==
  /\ mode = "open" /\ <<n, "taken">> \in sampling
  /\ load' = load \cup {n}
  /\ sampling' = sampling \ {<<n, "taken">>}
  /\ UNCHANGED <<world, programVars, shown, cursor, lists, acting, adrift, events>>
-----------------------------------------------------------------------------
(***************************************************************************)
(* Keys, and the actions they begin.                                       *)
(***************************************************************************)
\* Every key but quit, tab, help and details waits for the pending action,
\* which the code knows by pending having a name.
ListHasKeys == mode = "open" /\ ~form /\ pending = NoName

MoveCursor ==
  /\ ListHasKeys
  /\ cursor' \in {0, IF cursor = 0 THEN 0 ELSE cursor - 1,
                  Clamp(cursor + 1, shown), Clamp(Cardinality(DOMAIN shown), shown)}
  /\ UNCHANGED <<world, programVars, shown, load, commandVars, events>>

Act(kind, n) ==
  /\ Event
  /\ pending' = n
  /\ acting' = acting \cup {[id |-> events', kind |-> kind, name |-> n, done |-> FALSE]}
  /\ nameless' = (nameless \/ n = NoName)
  /\ UNCHANGED <<world, mode, quitting, attach, timer, screenVars, lists, sampling, adrift>>

\* What the row says decides, not what the sandbox is by now.
ToggleSelected ==
  /\ ListHasKeys /\ Selected # NoName
  /\ Act(IF shown[Selected] = "running" THEN "stop" ELSE "start", Selected)
  /\ UNCHANGED form

RemoveSelected ==
  /\ ListHasKeys /\ Selected # NoName
  /\ Act("remove", Selected)
  /\ UNCHANGED form

RuleForSelected(h) == ListHasKeys /\ Act("rule", h) /\ UNCHANGED form

\* Mutant: the form opens although an action is pending.
StartCreateAnytime ==
  /\ mode = "open" /\ ~form
  /\ form' = TRUE
  /\ UNCHANGED <<world, mode, quitting, attach, pending, timer, nameless, screenVars,
                 commandVars, events>>

StartCreate ==
  /\ ListHasKeys
  /\ form' = TRUE
  /\ UNCHANGED <<world, mode, quitting, attach, pending, timer, nameless, screenVars,
                 commandVars, events>>

SubmitCreate(n) ==
  /\ mode = "open" /\ form
  /\ Act("create", n)
  /\ form' = FALSE

\* Escape, an aborted form, or answers that make no specification.
LeaveForm ==
  /\ mode = "open" /\ form
  /\ form' = FALSE
  /\ UNCHANGED <<world, mode, quitting, attach, pending, timer, nameless, screenVars,
                 commandVars, events>>

Key ==
  \/ MoveCursor \/ ToggleSelected \/ RemoveSelected \/ StartCreate \/ LeaveForm
  \/ \E n \in Names : SubmitCreate(n)
  \/ \E h \in Hosts : RuleForSelected(h)

\* The service does what it was asked for, where it can: it starts and stops
\* what is there, removes what is not running and creates what is not there.
Effect(a) ==
  LET there == a.name \in DOMAIN world
  IN CASE a.kind = "start" /\ there -> [world EXCEPT ![a.name] = "running"]
       [] a.kind = "stop" /\ there -> [world EXCEPT ![a.name] = "stopped"]
       [] a.kind = "remove" /\ there /\ a.name \notin Running(world) ->
            Restrict(world, DOMAIN world \ {a.name})
       [] a.kind = "create" /\ ~there ->
            [n \in DOMAIN world \cup {a.name} |-> IF n = a.name THEN "stopped" ELSE world[n]]
       [] OTHER -> world

Perform(a) ==
  /\ ~a.done
  /\ world' \in {Effect(a), world}
  /\ acting' = (acting \ {a}) \cup {[a EXCEPT !.done = TRUE]}
  /\ UNCHANGED <<programVars, screenVars, lists, sampling, adrift, events>>

\* The call of a program that has ended is still made; its message is dropped.
PerformAdrift(a) ==
  /\ world' \in {Effect(a), world}
  /\ adrift' = adrift \ {a}
  /\ UNCHANGED <<programVars, screenVars, lists, sampling, acting, events>>

\* An outcome clears what is pending, whichever action that names.
ComesBack(a) ==
  /\ mode = "open" /\ a.done
  /\ pending' = NoName
  /\ acting' = acting \ {a}
  /\ nameless' = (nameless /\ acting' # {})
  /\ UNCHANGED <<world, mode, quitting, attach, form, timer, screenVars, sampling, adrift, events>>

ActionMsg(a) == a.kind # "rule" /\ ComesBack(a) /\ List(lists)
RuleMsg(a) == a.kind = "rule" /\ ComesBack(a) /\ UNCHANGED lists
-----------------------------------------------------------------------------
(***************************************************************************)
(* Leaving: for good, or for a session, after which a new model is opened. *)
(* Messages for a program that has ended are dropped.                      *)
(***************************************************************************)
\* q and ctrl+c; a form has them to itself.
Quit ==
  /\ Event
  /\ mode = "open" /\ ~form
  /\ quitting' = TRUE
  /\ UNCHANGED <<world, mode, attach, form, pending, timer, nameless, screenVars, commandVars>>

AttachSelected ==
  /\ Event
  /\ ListHasKeys /\ Selected # NoName
  /\ quitting' = TRUE /\ attach' = Selected
  /\ UNCHANGED <<world, mode, form, pending, timer, nameless, screenVars, commandVars>>

\* Run returns the model's attach, whichever key asked to quit.
QuitMsg ==
  /\ mode = "open" /\ quitting
  /\ mode' = (IF attach = NoName THEN "left" ELSE "attaching")
  /\ quitting' = FALSE /\ form' = FALSE /\ pending' = NoName /\ timer' = FALSE
  /\ nameless' = FALSE
  /\ shown' = Empty /\ cursor' = 0 /\ load' = {}
  /\ lists' = {} /\ sampling' = {} /\ acting' = {}
  /\ adrift' = adrift \cup {a \in acting : ~a.done}
  /\ UNCHANGED <<world, attach, events>>

\* attachSession starts the sandbox; if that fails the dashboard is over.
StartSession ==
  /\ mode = "attaching"
  /\ \/ /\ attach \in DOMAIN world
        /\ world' = [world EXCEPT ![attach] = "running"]
        /\ mode' = "attached"
     \/ mode' = "left" /\ UNCHANGED world
  /\ UNCHANGED <<quitting, attach, form, pending, timer, nameless, screenVars, commandVars, events>>

Reopen ==
  /\ mode = "attached"
  /\ mode' = "open" /\ attach' = NoName /\ timer' = TRUE
  /\ lists' = {Asked}
  /\ UNCHANGED <<world, quitting, form, pending, nameless, screenVars, sampling, acting,
                 adrift, events>>

\* The session could not be run, or was interrupted.
SessionFails ==
  /\ mode = "attached"
  /\ mode' = "left"
  /\ UNCHANGED <<world, quitting, attach, form, pending, timer, nameless, screenVars,
                 commandVars, events>>

\* Other commands start, stop, create and remove sandboxes.
Outside(n) ==
  /\ Event
  /\ \E kind \in {"start", "stop", "remove", "create"} :
       world' = Effect([kind |-> kind, name |-> n])
  /\ world' # world
  /\ UNCHANGED <<programVars, screenVars, commandVars>>

Next ==
  \/ Tick \/ Key \/ Quit \/ AttachSelected \/ QuitMsg \/ StartSession \/ Reopen \/ SessionFails
  \/ Answer \/ ListFails \/ ErrMsg \/ \E answer \in World : SandboxesMsg(answer)
  \/ \E n \in Names : TakeSample(n) \/ StatsMsg(n) \/ Outside(n)
  \/ \E a \in acting : Perform(a) \/ ActionMsg(a) \/ RuleMsg(a)
  \/ \E a \in adrift : PerformAdrift(a)

\* The loop, its timer and its commands keep going and the service answers
\* them; nobody has to press a key.
Fairness ==
  /\ WF_vars(Tick) /\ WF_vars(Answer) /\ WF_vars(ErrMsg)
  /\ \A answer \in World : WF_vars(SandboxesMsg(answer))
  /\ \A n \in Names : WF_vars(TakeSample(n)) /\ WF_vars(StatsMsg(n))

Spec == Init /\ [][Next]_vars /\ Fairness
-----------------------------------------------------------------------------
(***************************************************************************)
(* Properties.                                                             *)
(***************************************************************************)
\* The keys are held off by a name that five messages set or clear.  Whatever
\* overlaps, a name is pending only while an action of that name is under way,
\* so the keys come back; and nothing else is under way with it, so no key
\* races another, as long as no rule for "" has come among them: that one holds
\* off nothing, and its outcome clears the name of the next.
OneActionAtATime ==
  /\ pending # NoName => \E a \in acting : a.name = pending
  /\ ~nameless => \A a, b \in acting : a = b /\ pending = a.name

\* Whatever listings come in, in whatever order, the cursor stays on its
\* sandbox as long as that is listed: the next key is for the row the user
\* has been looking at.
CursorStaysOnSandbox ==
  [][mode = "open" /\ mode' = "open" /\ shown' # shown /\ Selected \in DOMAIN shown' =>
       Selected' = Selected]_vars

\* Listings overtake each other, fail and go on behind an open form: once the
\* sandboxes stay as they are, the list comes to show them, and stays so.
ListingSettles ==
  <>[](mode = "open") /\ <>[][UNCHANGED world]_vars => <>[](shown = world)

\* A sample that comes in after its sandbox was listed as stopped, or not
\* listed, is not shown for good.
LoadOfStoppedGoesAway ==
  mode = "open" /\ ~(load \subseteq Running(shown))
    ~> mode # "open" \/ load \subseteq Running(shown)

\* The load of a sandbox that goes on running is read again and again.
LoadIsLive ==
  \A n \in Names :
    <>[](mode = "open" /\ n \in Running(shown)) => []<>(\E s \in {"asked", "taken"} : <<n, s>> \in sampling)
=============================================================================
