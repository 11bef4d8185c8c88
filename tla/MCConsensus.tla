----------------------------- MODULE MCConsensus -----------------------------
(***************************************************************************)
(* Instances of Consensus for TLC.                                         *)
(***************************************************************************)
EXTENDS Consensus

CONSTANTS p, v1, v2, v3, v4

(* One booth of four: f = 1, threshold 2. *)
OneBooth == {{p, v1, v2, v3}}

(* The vehicle v1 leaves and v4 joins. *)
TwoBooths == {{p, v1, v2, v3}, {p, v2, v3, v4}}

(* All four vehicles are in range in between. *)
ThreeBooths == TwoBooths \cup {{p, v1, v2, v3, v4}}

(* Bounds: block 0 is ordered before v1 leaves and v4 joins, block 1       *)
(* after; v4 is in the commit booths; one validator gets stuck or panics.  *)
MembershipChanges ==
    /\ booth[0] \in {NoBooth, {p, v1, v2, v3}}
    /\ booth[1] \in {NoBooth, {p, v2, v3, v4}}
    /\ \A B \in Range(cmtBooth) : v4 \in B
    /\ Cardinality(stuck \cup crashed) <= 1 \/ pc = "done"

(* Bounds: every validator stores block 0 and it is sealed before block 1  *)
(* is proposed; the one instance is about both blocks.                     *)
FirstBlockSettled ==
    /\ \A b \in Blocks : certified[b] = {}
    /\ booth[1] # NoBooth => held[0] = Validators /\ 0 \in sealed
    /\ ranges # << >> => Len(vgrec) = 2

OneBoothSymmetry == Permutations({v1, v2, v3})
TwoBoothsSymmetry == Permutations({v2, v3})
=============================================================================
