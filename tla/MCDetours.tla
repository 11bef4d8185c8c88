------------------------------- MODULE MCDetours -------------------------------
(***************************************************************************)
(* Instances of Detours for TLC.                                           *)
(***************************************************************************)
EXTENDS Detours, TLC

CONSTANTS p1, p2, v1, v2

TwoProposers == <<p1, p2>>

(* One phase stands for the five, which are set up alike. *)
OnePhase == <<TIME>>

(* v1 goes from p1 over to p2 and back, v2 is out of range for a while. *)
Moves == [t \in 1 .. 3 |->
            (v1 :> <<<<p1>>, <<p2>>, <<p1>>>>[t]) @@ (v2 :> <<<<p2, p1>>, << >>, <<p2>>>>[t])]
=============================================================================
