---------------------------- MODULE BoothBroadcast ----------------------------
(***************************************************************************)
(* What one broadcast of the proposer to a booth can do: broadcastToBooth, *)
(* broadcastToNewBooth and their ...WithComCheck variants in mmu.go.  All  *)
(* four loop over the booth's members, never stop early, and give up for   *)
(* good (broadcastError, never reset) once a write has failed.  A detour   *)
(* over another proposer is a delay, and messages are delayed anyway.      *)
(***************************************************************************)
EXTENDS Quorums

CONSTANTS Registered,                  \* validators with a connection
          EvaluateComPossibilityFlag   \* -ecf: sends depend on radio range

ASSUME BroadcastAssumption ==
    /\ Registered \subseteq Validators
    /\ EvaluateComPossibilityFlag \in BOOLEAN

(* The members a broadcast to booth B is written to.  Members without a    *)
(* connection are skipped; with EvaluateComPossibilityFlag so are those    *)
(* with neither a direct nor a detour path at this moment, and which ones  *)
(* these are changes from send to send.                                    *)
Reached(B, to) ==
    IF EvaluateComPossibilityFlag
    THEN to \subseteq Members(B) \cap Registered
    ELSE to = Members(B) \cap Registered

(* A write to a validator whose process is gone may fail; it may also      *)
(* still be accepted by the local kernel.  The result of a write of the    *)
(* resent entries to a new member is not looked at.                        *)
WriteFails(to, newMembers, gone) == (to \ newMembers) \cap gone # {}
=============================================================================
