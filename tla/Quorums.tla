------------------------------- MODULE Quorums -------------------------------
(***************************************************************************)
(* Booths and their thresholds, shared by the ordering and the consensus   *)
(* phases.  A booth (mmu.go, type Booth) is the membership profile that    *)
(* one ordering or consensus instance runs in: a set of server ids that    *)
(* always holds the proposer, because getBoothID prepends ServerID to a    *)
(* pattern of at least three vehicles.                                     *)
(*                                                                         *)
(* A threshold signature is represented by the validators whose shares     *)
(* went into it: the shares of one block differ by signer only.            *)
(***************************************************************************)
EXTENDS Integers, FiniteSets, Sequences, Functions

CONSTANTS Validators,   \* the vehicles that can be members of a booth
          Proposer,     \* the one server with ServerID = MainProposerId
          Booths        \* the membership profiles the MMU hands out

ASSUME ServersAssumption == /\ Proposer \notin Validators
                            /\ IsFiniteSet(Validators)

(* Mutant: a third of the booth, instead of two. *)
Mut_getThreshold(boothSize) == boothSize \div 3

(* getThreshold: (boothSize / 3) * 2 in Go's integer division. *)
getThreshold(boothSize) == (boothSize \div 3) * 2

Threshold(B) == getThreshold(Cardinality(B))

(* The members a broadcast is sent to: the loops over boo.Indices skip     *)
(* the proposer's own index.                                               *)
Members(B) == B \ {Proposer}

(* getBoothID retries while the pattern has two vehicles or fewer, and     *)
(* prepends the proposer to the pattern it finally uses.                   *)
IsBooth(B) == /\ Proposer \in B
              /\ Members(B) \subseteq Validators
              /\ Cardinality(Members(B)) > 2

(* Mutant: recovery asks for one share more than the handlers collect. *)
Mut_PenRecovery(shares, B) == Cardinality(Range(shares)) > Threshold(B)

(* PenRecovery (tbls.Recover): needs a threshold of distinct valid shares. *)
PenRecovery(shares, B) == Cardinality(Range(shares)) >= Threshold(B)

ASSUME BoothsAssumption == \A B \in Booths : IsBooth(B)
=============================================================================
