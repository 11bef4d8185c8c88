------------------------------ MODULE MCOrdering ------------------------------
(***************************************************************************)
(* Instances of Ordering for TLC.                                          *)
(***************************************************************************)
EXTENDS Ordering, TLC

CONSTANTS p, v1, v2, v3, v4

(* One booth of four: f = 1, threshold 2. *)
OneBooth == {{p, v1, v2, v3}}

(* One booth of five: threshold 2 of four members. *)
BoothOfFive == {{p, v1, v2, v3, v4}}

(* The vehicle v1 leaves and v4 joins. *)
TwoBooths == {{p, v1, v2, v3}, {p, v2, v3, v4}}

(* Bounds of ordering_live: the third block is made when the handlers of   *)
(* the first two have ended or wait for good, and what comes after the     *)
(* blocks are ordered, or after a failed write, is not explored.  Members  *)
(* are alike, so v1 is the first whose share of block 0 is counted, and v2 *)
(* the second.                                                             *)
ThirdBlockLate ==
    /\ sigs[0] \in {<< >>, <<v1>>, <<v1, v2>>}
    /\ ~broadcastError
    /\ ~\A b \in Blocks : Ordered(b)
    /\ logIndex = 3 =>
         /\ \A msg \in msgs : msg.block = 2
         /\ \A v \in Validators, b \in 0 .. 1 :
               b \in oaRunning[v] => \E c \in 0 .. 1 : Stalled(v, c)

(* The members of the one booth are interchangeable. *)
OneBoothSymmetry == Permutations({v1, v2, v3})
BoothOfFiveSymmetry == Permutations({v1, v2, v3, v4})

(* v2 and v3 are members of both booths. *)
TwoBoothsSymmetry == Permutations({v2, v3})
=============================================================================
