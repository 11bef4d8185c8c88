------------------------------ MODULE OrderedLog ------------------------------
(***************************************************************************)
(* What the ordering phase promises the consensus phase: a total order log *)
(* of block ids (vgrec in vordering.go).  A block enters the log at most   *)
(* once, only after a threshold of the members of the booth it was ordered *)
(* in hold its content, and its threshold signature becomes available to   *)
(* the proposer some time AFTER the id is in the log.  Nothing here knows  *)
(* about messages, locks or goroutines; module Ordering does, and refines  *)
(* this one.                                                               *)
(***************************************************************************)
EXTENDS Quorums

CONSTANTS MaxBlocks,    \* bound: how many blocks the proposer makes
          NoBooth       \* "this block was not proposed yet"

ASSUME MaxBlocksAssumption == MaxBlocks \in Nat
ASSUME NoBoothAssumption == NoBooth \notin Booths

Blocks == 0 .. MaxBlocks - 1

VARIABLES booth,        \* booth[b]: the booth block b is ordered in
          held,         \* held[b]: the validators that accepted b's OPA
          vgrec,        \* IDRecorder.blockIDs: the log of ordered block ids
          sealed,       \* blocks whose tSig is in the proposer's cmtSnapshot
          certified     \* certified[b]: validators that hold b's tSig

logVars == <<booth, held, vgrec, sealed, certified>>

LogTypeOK ==
    /\ booth \in [Blocks -> Booths \cup {NoBooth}]
    /\ held \in [Blocks -> SUBSET Validators]
    /\ vgrec \in Seq(Blocks)
    /\ sealed \subseteq Blocks
    /\ certified \in [Blocks -> SUBSET Validators]

LogInit ==
    /\ booth = [b \in Blocks |-> NoBooth]
    /\ held = [b \in Blocks |-> {}]
    /\ vgrec = << >>
    /\ sealed = {}
    /\ certified = [b \in Blocks |-> {}]

Ordered(b) == b \in Range(vgrec)

(* Block ids are handed out in sequence: 0, 1, 2, ... *)
Propose(b, B) ==
    /\ booth[b] = NoBooth
    /\ \A c \in Blocks : c < b => booth[c] # NoBooth
    /\ booth' = [booth EXCEPT ![b] = B]
    /\ UNCHANGED <<held, vgrec, sealed, certified>>

(* Storing the content starts a snapshot without a threshold signature. *)
Hold(b, v) ==
    /\ booth[b] # NoBooth
    /\ v \in Members(booth[b])
    /\ v \notin held[b]
    /\ held' = [held EXCEPT ![b] = @ \cup {v}]
    /\ certified' = [certified EXCEPT ![b] = @ \ {v}]
    /\ UNCHANGED <<booth, vgrec, sealed>>

Order(b) ==
    /\ booth[b] # NoBooth
    /\ ~Ordered(b)
    /\ Cardinality(held[b]) >= Threshold(booth[b])
    /\ vgrec' = Append(vgrec, b)
    /\ UNCHANGED <<booth, held, sealed, certified>>

Seal(b) ==
    /\ Ordered(b)
    /\ b \notin sealed
    /\ sealed' = sealed \cup {b}
    /\ UNCHANGED <<booth, held, vgrec, certified>>

Certify(b, v) ==
    /\ b \in sealed
    /\ v \in held[b]
    /\ certified' = [certified EXCEPT ![b] = @ \cup {v}]
    /\ UNCHANGED <<booth, held, vgrec, sealed>>

LogNext ==
    \E b \in Blocks :
        \/ \E B \in Booths : Propose(b, B)
        \/ \E v \in Validators : Hold(b, v) \/ Certify(b, v)
        \/ Order(b)
        \/ Seal(b)

LogSpec == LogInit /\ [][LogNext]_logVars
=============================================================================
