------------------------------- MODULE MCProxy ------------------------------
(***************************************************************************)
(* Small instances of Proxy for TLC.                                       *)
(***************************************************************************)
EXTENDS Proxy, TLC

CONSTANTS e1, e2, r1

\* Names under x and y, the literal of a private address, and one whose pattern
\* is misread.
MCLiterals ==
  <<"10.1">> :> [class |-> "private", mapped |-> TRUE]
    @@ <<"2001:1">> :> [class |-> "public", mapped |-> FALSE]
MCPortLike == {<<"2001:1">>}
MCBalanced == <<[host |-> <<"*", "y">>, port |-> 0], [host |-> <<"x">>, port |-> 80]>>
MCPatterns ==
  {[host |-> <<"*", "x">>, port |-> 0], [host |-> <<"a", "x">>, port |-> 0],
   [host |-> <<"x">>, port |-> 443], [host |-> <<"2001:1">>, port |-> 0]}
MCTargets ==
  {[host |-> <<"a", "x">>, port |-> 80], [host |-> <<"x", "">>, port |-> 443],
   [host |-> <<"10.1">>, port |-> 80], [host |-> <<"2001:1">>, port |-> 443],
   [host |-> <<"b", "y">>, port |-> 443]}
MCAnswers ==
  LET public == [class |-> "public", mapped |-> FALSE]
      private == [class |-> "private", mapped |-> FALSE]
  IN {<<>>, <<public>>, <<private, public>>, <<public, private>>}
Symmetry == Permutations({e1, e2})
=============================================================================
