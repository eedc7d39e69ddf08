---------------------------- MODULE EgressPolicy ----------------------------
(***************************************************************************)
(* What a sandbox may reach: Policy.Check, Matches and AllowsAddress of    *)
(* internal/proxy/policy.go, the presets of internal/proxy/presets.go and  *)
(* the edits that rules go through in cmd/jard/policy.go and               *)
(* internal/tui/keys.go.                                                   *)
(*                                                                         *)
(* A host is the sequence of labels its text has between its dots, in one  *)
(* case; a host that ends in a dot has an empty last label.  A pattern is  *)
(* a host, which may begin with the label "*", and a port or NoPort.  A    *)
(* port that is not a number is part of the last label.                    *)
(***************************************************************************)
EXTENDS Naturals, Sequences

CONSTANTS
  Literals,     \* the addresses of those hosts that are literals of addresses
  PortLike,     \* the literals that end in a colon and a number
  Balanced      \* the patterns of the balanced preset, in order

NoPort == 0
Presets == {"balanced", "open", "locked-down"}

Classes == {"public", "loopback", "private", "linkLocal", "multicast", "unspecified", "sharedNAT"}
Address == [class : Classes, mapped : BOOLEAN]

\* An address of IPv4 that comes as one of IPv6 is judged as what it is.
AllowsAddress(a) == a.class = "public"

\* A host has a label, and a literal is no wildcard.
ASSUME LiteralsAssumption ==
  /\ \A h \in DOMAIN Literals : h # <<>> /\ h[1] # "*" /\ Literals[h] \in Address
  /\ PortLike \subseteq DOMAIN Literals

\* The preset's patterns name something, and none ends in a dot.
ASSUME BalancedAssumption ==
  \A i \in DOMAIN Balanced :
    LET host == Balanced[i].host
    IN  host \in Seq(STRING) \ {<<>>} /\ host[Len(host)] # ""

Rule(p, allow) == [pattern |-> p, allow |-> allow]
New(preset) == [preset |-> preset, rules |-> <<>>]

\* Mutant: the wildcard covers the domain itself too.
CoversApexToo(host, sub) ==
  /\ Len(host) + 1 >= Len(sub)
  /\ SubSeq(host, Len(host) - Len(sub) + 2, Len(host)) = Tail(sub)

\* host ends in what follows the "*" of sub, and in something before it.
Under(host, sub) ==
  /\ Len(host) >= Len(sub)
  /\ SubSeq(host, Len(host) - Len(sub) + 2, Len(host)) = Tail(sub)

\* strings.TrimSuffix(host, "."): of one dot.
Undotted(host) ==
  IF Len(host) > 1 /\ host[Len(host)] = "" THEN SubSeq(host, 1, Len(host) - 1) ELSE host

\* The last colon of a pattern separates its port, also where the colon is
\* one of an IPv6 literal's; what is left is then no host anyone asks for.
Matches(p, t) ==
  /\ p.port \in {NoPort, t.port}
  /\ ~(p.port = NoPort /\ p.host \in PortLike)
  /\ \/ p.host = <<"*">>
     \/ Len(p.host) > 1 /\ p.host[1] = "*" /\ Under(Undotted(t.host), p.host)
     \/ p.host = Undotted(t.host)

Matching(rules, t, allow) ==
  {i \in DOMAIN rules : rules[i].allow = allow /\ Matches(rules[i].pattern, t)}
InPreset(preset, t) ==
  {i \in DOMAIN Balanced : preset = "balanced" /\ Matches(Balanced[i], t)}

First(S) == CHOOSE i \in S : \A j \in S : i <= j

IsPrivate(t) == t.host \in DOMAIN Literals /\ ~AllowsAddress(Literals[t.host])

NoPattern == [host |-> <<>>, port |-> NoPort]
Verdict(allowed, reason, p) == [allowed |-> allowed, reason |-> reason, pattern |-> p]

Check(policy, t) ==
  LET denying == Matching(policy.rules, t, FALSE)
      allowing == Matching(policy.rules, t, TRUE)
      preset == InPreset(policy.preset, t)
  IN IF IsPrivate(t) THEN Verdict(FALSE, "private", NoPattern)
     ELSE IF denying # {} THEN Verdict(FALSE, "rule", policy.rules[First(denying)].pattern)
     ELSE IF allowing # {} THEN Verdict(TRUE, "rule", policy.rules[First(allowing)].pattern)
     ELSE IF policy.preset = "open" THEN Verdict(TRUE, "preset", NoPattern)
     ELSE IF preset # {} THEN Verdict(TRUE, "preset", Balanced[First(preset)])
     ELSE Verdict(FALSE, "preset", NoPattern)

Without(rules, p) ==
  LET kept[i \in 0..Len(rules)] ==
        IF i = 0 THEN <<>>
        ELSE IF rules[i].pattern # p THEN Append(kept[i - 1], rules[i])
        ELSE kept[i - 1]
  IN  kept[Len(rules)]

\* Mutant: a rule for the same pattern stays beside the new one.
WithRuleBesideOthers(policy, p, allow) ==
  [policy EXCEPT !.rules = Append(@, Rule(p, allow))]

WithRule(policy, p, allow) ==
  [policy EXCEPT !.rules = Append(Without(@, p), Rule(p, allow))]

WithoutRule(policy, p) == [policy EXCEPT !.rules = Without(@, p)]
WithPreset(policy, preset) == [policy EXCEPT !.preset = preset]
=============================================================================
