--------------------------- MODULE MCPromotions ---------------------------
(* Two proposals of different candidates and a suite on which both succeed.  *)
(* Exchanging the proposals with their candidates changes nothing.           *)
EXTENDS Promotions, TLC

CONSTANTS p1, p2, c1, c2, s1, s2, suite

MCCandidateOf == (p1 :> c1) @@ (p2 :> c2)
MCRecommends == [p \in Proposals |-> {suite}]

MCSymmetry ==
  Permutations(Sessions) \cup {(p1 :> p2) @@ (p2 :> p1) @@ (c1 :> c2) @@ (c2 :> c1)}
=============================================================================
