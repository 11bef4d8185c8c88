----------------------------- MODULE CommittedLog -----------------------------
(***************************************************************************)
(* What the consensus phase promises: the total order log is cut into      *)
(* instances, each with the booth it is decided in; the members of that    *)
(* booth vote, and a voter commits once a threshold of the members has     *)
(* voted.  What was taken, voted or committed stays so.  Nothing here      *)
(* knows about messages, shares, tokens or handlers that overwrite one     *)
(* another; module Consensus does, and refines this one.                   *)
(***************************************************************************)
EXTENDS Quorums

CONSTANT Blocks     \* the ids of the blocks that can be ordered

VARIABLES log,         \* ordered block ids, in order
          taken,       \* how many of them are in an instance
          instances    \* the instances, in order

vars == <<log, taken, instances>>

Instance(blocks, B) ==
    [blocks |-> blocks, booth |-> B, voted |-> {}, committed |-> {}]

Init ==
    /\ log = << >>
    /\ taken = 0
    /\ instances = << >>

Extend(b) ==
    /\ b \notin Range(log)
    /\ log' = Append(log, b)
    /\ UNCHANGED <<taken, instances>>

(* All that was ordered since the last instance makes the next one. *)
Start(B) ==
    /\ taken < Len(log)
    /\ instances' = Append(instances, Instance(SubSeq(log, taken + 1, Len(log)), B))
    /\ taken' = Len(log)
    /\ UNCHANGED log

Vote(i, v) ==
    /\ v \in Members(instances[i].booth)
    /\ instances' = [instances EXCEPT ![i].voted = @ \cup {v}]
    /\ UNCHANGED <<log, taken>>

Commit(i, v) ==
    /\ v \in instances[i].voted
    /\ Cardinality(instances[i].voted) >= Threshold(instances[i].booth)
    /\ instances' = [instances EXCEPT ![i].committed = @ \cup {v}]
    /\ UNCHANGED <<log, taken>>

Next ==
    \/ \E b \in Blocks : Extend(b)
    \/ \E B \in Booths : Start(B)
    \/ \E i \in DOMAIN instances, v \in Validators : Vote(i, v) \/ Commit(i, v)

Spec == Init /\ [][Next]_vars
=============================================================================
