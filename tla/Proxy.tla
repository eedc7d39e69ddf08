-------------------------------- MODULE Proxy -------------------------------
(***************************************************************************)
(* The egress proxy's Server.open and the answers around it                *)
(* (internal/proxy/proxy.go), deciding by the policy on disk while that is *)
(* edited.  A request is a CONNECT or a plain one; they differ only in     *)
(* what is carried once the upstream is open.                              *)
(***************************************************************************)
EXTENDS PolicyFile

CONSTANTS
  Requests,     \* requests of sandboxes
  Targets,      \* what they ask for
  Answers       \* what a name can resolve to: sequences of addresses

ASSUME TargetsAssumption == \A t \in Targets : t.host \in Seq(STRING) \ {<<>>}
ASSUME AnswersAssumption == Answers \subseteq Seq(Address)

VARIABLES
  at,           \* at[r]: where request r is
  target,       \* target[r]
  verdict,      \* verdict[r]: the policy's
  addrs,        \* addrs[r]: the addresses still to try
  lastErr,      \* lastErr[r]: why the last address was passed over
  upstream,     \* upstream[r]: the address r is connected to
  status,       \* status[r]: what a refused request is answered with
  log,          \* the decisions on record
  inForce       \* history: inForce[r], the verdicts there could have been since r came

requestVars == <<at, target, verdict, addrs, lastErr, upstream, status, log>>
vars == <<policyVars, requestVars, inForce>>

Nowhere == [class |-> "unspecified", mapped |-> FALSE]
NoTarget == NoPattern
Entry == [request : Requests, allowed : BOOLEAN,
          reason : {"policy", "unresolved", "blocked"}]

TypeOK ==
  /\ PolicyTypeOK
  /\ at \in [Requests -> {"new", "asked", "lookup", "dial", "open", "refused", "closed"}]
  /\ target \in [Requests -> Targets \cup {NoTarget}]
  /\ \A r \in Requests : verdict[r].allowed \in BOOLEAN
  /\ addrs \in [Requests -> Seq(Address)]
  /\ lastErr \in [Requests -> {"none", "blocked", "dial"}]
  /\ upstream \in [Requests -> Address]
  /\ status \in [Requests -> {"none", "forbidden", "badGateway"}]
  /\ \A r \in Requests : at[r] = "refused" <=> status[r] # "none"
  /\ log \in Seq(Entry)

Init ==
  /\ PolicyInit
  /\ at = [r \in Requests |-> "new"]
  /\ target = [r \in Requests |-> NoTarget]
  /\ verdict = [r \in Requests |-> Verdict(FALSE, "preset", NoPattern)]
  /\ addrs = [r \in Requests |-> <<>>]
  /\ lastErr = [r \in Requests |-> "none"]
  /\ upstream = [r \in Requests |-> Nowhere]
  /\ status = [r \in Requests |-> "none"]
  /\ log = <<>>
  /\ inForce = [r \in Requests |-> {}]

\* serveProxy's policy function: what cannot be read is balanced.
InForce(f) == IF f = NoPolicy THEN New("balanced") ELSE f

Move(r, here, there) == at[r] = here /\ at' = [at EXCEPT ![r] = there]
Record(r, allowed, reason) ==
  log' = Append(log, [request |-> r, allowed |-> allowed, reason |-> reason])

\* refuse: what the policy allowed and failed is the upstream's problem.
Refuse(r, allowed) ==
  status' = [status EXCEPT ![r] = IF allowed THEN "badGateway" ELSE "forbidden"]
-----------------------------------------------------------------------------
\* A request comes in; an authority that does not parse never gets here.
Arrive(r) ==
  /\ Move(r, "new", "asked")
  /\ \E t \in Targets :
       /\ target' = [target EXCEPT ![r] = t]
       /\ inForce' = [inForce EXCEPT ![r] = {Check(InForce(file), t)}]
  /\ UNCHANGED <<policyVars, verdict, addrs, lastErr, upstream, status, log>>

Decide(r) ==
  /\ verdict' = [verdict EXCEPT ![r] = Check(InForce(file), target[r])]
  /\ IF verdict'[r].allowed
     THEN Move(r, "asked", "lookup") /\ UNCHANGED <<log, status>>
     ELSE /\ Move(r, "asked", "refused")
          /\ Record(r, FALSE, "policy")
          /\ Refuse(r, FALSE)
  /\ UNCHANGED <<policyVars, target, addrs, lastErr, upstream, inForce>>

\* A literal resolves to itself.
Lookup(r) ==
  /\ Move(r, "lookup", "dial")
  /\ \E answer \in IF target[r].host \in DOMAIN Literals
                   THEN {<<Literals[target[r].host]>>} ELSE Answers :
       addrs' = [addrs EXCEPT ![r] = answer]
  /\ UNCHANGED <<policyVars, target, verdict, lastErr, upstream, status, log, inForce>>

\* Mutant: a name that does not resolve is not put on record.
LookupFailsSilently(r) ==
  /\ Move(r, "lookup", "refused")
  /\ Refuse(r, verdict[r].allowed)
  /\ UNCHANGED <<policyVars, target, verdict, addrs, lastErr, upstream, log, inForce>>

\* Mutant: a name that does not resolve is not answered.
LookupFailsUnanswered(r) ==
  /\ Move(r, "lookup", "refused")
  /\ Record(r, FALSE, "unresolved")
  /\ UNCHANGED <<policyVars, target, verdict, addrs, lastErr, upstream, status, inForce>>

LookupFails(r) ==
  /\ Move(r, "lookup", "refused")
  /\ Record(r, FALSE, "unresolved")
  /\ Refuse(r, verdict[r].allowed)
  /\ UNCHANGED <<policyVars, target, verdict, addrs, lastErr, upstream, inForce>>

PassOver(r, err) ==
  /\ at[r] = "dial"
  /\ addrs' = [addrs EXCEPT ![r] = Tail(@)]
  /\ lastErr' = [lastErr EXCEPT ![r] = err]
  /\ UNCHANGED <<policyVars, at, target, verdict, upstream, status, log, inForce>>

Guarded(r) == addrs[r] # <<>> /\ ~AllowsAddress(Head(addrs[r])) /\ PassOver(r, "blocked")
DialFails(r) == addrs[r] # <<>> /\ AllowsAddress(Head(addrs[r])) /\ PassOver(r, "dial")

\* Mutant: only the first address of an answer is guarded.
DialFirstGuarded(r) ==
  /\ addrs[r] # <<>>
  /\ AllowsAddress(Head(addrs[r])) \/ lastErr[r] # "none"
  /\ Move(r, "dial", "open")
  /\ upstream' = [upstream EXCEPT ![r] = Head(addrs[r])]
  /\ Record(r, TRUE, "policy")
  /\ UNCHANGED <<policyVars, target, verdict, addrs, lastErr, status, inForce>>

Dial(r) ==
  /\ addrs[r] # <<>>
  /\ AllowsAddress(Head(addrs[r]))
  /\ Move(r, "dial", "open")
  /\ upstream' = [upstream EXCEPT ![r] = Head(addrs[r])]
  /\ Record(r, TRUE, "policy")
  /\ UNCHANGED <<policyVars, target, verdict, addrs, lastErr, status, inForce>>

\* The verdict open returns here is not the policy's and never allows.
Exhausted(r) ==
  /\ addrs[r] = <<>>
  /\ Move(r, "dial", "refused")
  /\ Record(r, FALSE, IF lastErr[r] = "dial" THEN "policy" ELSE "blocked")
  /\ Refuse(r, FALSE)
  /\ UNCHANGED <<policyVars, target, verdict, addrs, lastErr, upstream, inForce>>

\* The tunnel, or the one exchange of a plain request, is over.
Close(r) ==
  /\ Move(r, "open", "closed")
  /\ UNCHANGED <<policyVars, target, verdict, addrs, lastErr, upstream, status, log, inForce>>

Serve(r) ==
  \/ Arrive(r) \/ Decide(r) \/ Lookup(r) \/ LookupFails(r)
  \/ Guarded(r) \/ DialFails(r) \/ Dial(r) \/ Exhausted(r) \/ Close(r)

\* An edit; a request that is not decided yet may be decided by its outcome.
EditPolicy(e) ==
  /\ Edit(e)
  /\ inForce' = [r \in Requests |->
                   IF at[r] = "asked"
                   THEN inForce[r] \cup {Check(InForce(file'), target[r])}
                   ELSE inForce[r]]
  /\ UNCHANGED requestVars

Next == (\E e \in Editors : EditPolicy(e)) \/ (\E r \in Requests : Serve(r))

Spec == Init /\ [][Next]_vars
-----------------------------------------------------------------------------
(***************************************************************************)
(* Properties.                                                             *)
(***************************************************************************)
\* A connection is open only to a vetted address, and only when a policy that
\* was on disk since its request came allowed its target: an edit that is done
\* before a request comes is the one the request is decided by.
OpenAsThePolicySays ==
  \A r \in Requests :
    at[r] = "open" =>
      /\ AllowsAddress(upstream[r])
      /\ verdict[r].allowed /\ verdict[r] \in inForce[r]

\* Every request that has been answered is on record once, as allowed exactly
\* if it was connected, whichever of its steps failed.
OneDecisionOnRecord ==
  \A r \in Requests :
    LET entries == {i \in DOMAIN log : log[i].request = r}
        connected == at[r] \in {"open", "closed"}
    IN IF connected \/ at[r] = "refused"
       THEN \E i \in entries : entries = {i} /\ (log[i].allowed <=> connected)
       ELSE entries = {}

\* No pattern has two rules, whoever edits at the same time.
OneRulePerPattern ==
  file # NoPolicy =>
    \A i, j \in DOMAIN file.rules : file.rules[i].pattern = file.rules[j].pattern => i = j

\* What a pattern is documented to cover: every host, a domain's subdomains but
\* not the domain, or one host; on one port or on all.
Covers(p, t) ==
  /\ p.port = NoPort \/ p.port = t.port
  /\ CASE p.host = <<"*">> -> TRUE
       [] p.host # <<"*">> /\ Head(p.host) = "*" ->
            \E k \in 1..(Len(t.host) - 1) :
              Undotted(t.host) = SubSeq(t.host, 1, k) \o Tail(p.host)
       [] Head(p.host) # "*" -> t.host \in {p.host, Append(p.host, "")}

AsAsked(t) ==
  LET said(op) == \E p \in Patterns : asked[p] = op /\ Covers(p, t)
  IN /\ ~IsPrivate(t) /\ ~said("deny")
     /\ \/ said("allow")
        \/ file.preset = "open"
        \/ file.preset = "balanced" /\ \E i \in DOMAIN Balanced : Covers(Balanced[i], t)

\* While edits do not overlap and the daemon is there, the policy answers for every target what the
\* edits asked for: denials before permissions before the preset, in whatever
\* order they were made.  (Except for the literals whose patterns are misread.)
VerdictsAreAsAsked ==
  disturbed = {} /\ file # NoPolicy =>
    \A t \in Targets : Undotted(t.host) \notin PortLike => Check(file, t).allowed = AsAsked(t)
=============================================================================
