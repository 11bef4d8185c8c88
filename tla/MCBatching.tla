------------------------------ MODULE MCBatching ------------------------------
(***************************************************************************)
(* Instances of Batching for TLC.                                          *)
(***************************************************************************)
EXTENDS Batching

Flags(periodic, w, ml, b) ==
    [UsePeriodicOrdering |-> periodic, NumOfValidators |-> w, MsgLoad |-> ml,
     BatchSize |-> b]

(* Both modes with one worker and with two; with an incomplete last batch, *)
(* batches of a single message, and nothing to do at all.                  *)
BothModes ==
    {Flags(TRUE, 1, 7, 3), Flags(TRUE, 2, 3, 2),
     Flags(FALSE, 1, 7, 3), Flags(FALSE, 2, 5, 2),
     Flags(TRUE, 1, 3, 1), Flags(FALSE, 2, 0, 2)}
=============================================================================
