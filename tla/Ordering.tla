------------------------------- MODULE Ordering -------------------------------
(***************************************************************************)
(* The ordering phase: vordering.go on the proposer, validatingOAEntry and *)
(* validatingOBEntry of comply.go on the validators, and the broadcasts of *)
(* mmu.go between them.                                                    *)
(*                                                                         *)
(*   proposer   --OPA-->  every member of the booth   (block, hash)        *)
(*   validator  --R-OPA-> proposer                    (signature share)    *)
(*   proposer   --OPB-->  every member of the booth   (threshold sig.)     *)
(*                                                                         *)
(* Every received message is handled by a goroutine of its own ("go        *)
(* validatingOAEntry", "go asyncHandleOBReply"), so messages are a set and *)
(* handlers interleave freely.  A handler is split exactly where it        *)
(* releases a lock and takes another one that somebody else may hold.      *)
(* One ordering worker runs (-w=1); module Batching has several.           *)
(*                                                                         *)
(* Data: a block is its id, a share is its signer, and one blockchain is   *)
(* ordered (only MainProposerId starts startOrderingPhaseA).               *)
(***************************************************************************)
EXTENDS BoothBroadcast

CONSTANTS MaxBlocks,    \* bound: blocks the proposer makes
          NoBooth,      \* this block was not made yet
          NoBlock,      \* nobody holds this lock
          MaxCrash      \* bound: crashes from outside

ASSUME OrderingAssumption ==
    /\ MaxBlocks \in Nat
    /\ MaxCrash \in Nat
    /\ NoBooth \notin Booths

Blocks == 0 .. MaxBlocks - 1

ASSUME NoBlockAssumption == NoBlock \notin Blocks

VARIABLES
    \* the proposer
    logIndex,        \* state.logIndex: the next block id
    booth,           \* booth[b]: booth of ordSnapshot[b], NoBooth before
    sigs,            \* sigs[b]: ordSnapshot[b].sigs, signers in order
    vgrec,           \* IDRecorder.blockIDs
    recovered,       \* blocks whose handler is past vgrec.Add only
    sealed,          \* blocks with tSig in the proposer's cmtSnapshot
    broadcastError,  \* mmu.go: set by any failed send, never reset
    \* the network
    msgs,
    \* the validators
    ordSnapshot,     \* ordSnapshot[v]: blocks with an entry in the map
    oaRunning,       \* oaRunning[v]: OA handlers between their two locks
    cmtSnapshot,     \* cmtSnapshot[v][b]: "absent", "unsigned", "signed"
    cmtLock,         \* cmtLock[v]: block of the OB handler holding the lock
    ordJob,          \* ordJob[v][b]: channel of valiOrdJobStack
    crashed          \* validators whose process is gone

proposerVars == <<logIndex, booth, sigs, vgrec, recovered, sealed, broadcastError>>
validatorVars == <<ordSnapshot, oaRunning, cmtSnapshot, cmtLock, ordJob>>
vars == <<proposerVars, msgs, validatorVars, crashed>>

(* Mutant: two integer fields are filled the wrong way round. *)
Mut_Msg(type, b, v) == [type |-> type, block |-> v, validator |-> b]

Msg(type, b, v) == [type |-> type, block |-> b, validator |-> v]
Messages == [type : {"OPA", "R-OPA", "OPB"}, block : Blocks, validator : Validators]

TypeOK ==
    /\ logIndex \in 0 .. MaxBlocks
    /\ booth \in [Blocks -> Booths \cup {NoBooth}]
    /\ sigs \in [Blocks -> Seq(Validators)]
    /\ vgrec \in Seq(Blocks)
    /\ recovered \subseteq Blocks
    /\ sealed \subseteq Blocks
    /\ broadcastError \in BOOLEAN
    /\ msgs \subseteq Messages
    /\ ordSnapshot \in [Validators -> SUBSET Blocks]
    /\ oaRunning \in [Validators -> SUBSET Blocks]
    /\ cmtSnapshot \in [Validators -> [Blocks -> {"absent", "unsigned", "signed"}]]
    /\ cmtLock \in [Validators -> Blocks \cup {NoBlock}]
    /\ ordJob \in [Validators -> [Blocks -> {"none", "empty", "full"}]]
    /\ crashed \subseteq Validators

Init ==
    /\ logIndex = 0
    /\ booth = [b \in Blocks |-> NoBooth]
    /\ sigs = [b \in Blocks |-> << >>]
    /\ vgrec = << >>
    /\ recovered = {}
    /\ sealed = {}
    /\ broadcastError = FALSE
    /\ msgs = {}
    /\ ordSnapshot = [v \in Validators |-> {}]
    /\ oaRunning = [v \in Validators |-> {}]
    /\ cmtSnapshot = [v \in Validators |-> [b \in Blocks |-> "absent"]]
    /\ cmtLock = [v \in Validators |-> NoBlock]
    /\ ordJob = [v \in Validators |-> [b \in Blocks |-> "none"]]
    /\ crashed = {}

-----------------------------------------------------------------------------
(* broadcastToBooth and broadcastToBoothWithComCheck: message `type` about *)
(* block b to booth B, on top of the messages already sent.                *)
Broadcast(type, b, B, sent) ==
    IF broadcastError
    THEN /\ msgs' = sent
         /\ UNCHANGED broadcastError
    ELSE \E to \in SUBSET Validators, failed \in BOOLEAN :
            /\ Reached(B, to)
            /\ failed => WriteFails(to, {}, crashed)
            /\ msgs' = sent \cup {Msg(type, b, v) : v \in to}
            /\ broadcastError' = failed

-----------------------------------------------------------------------------
(* The proposer.                                                           *)

(* Mutant: the increment is forgotten. *)
Mut_NotIncremented(index) == index

(* incrementLogIndex *)
Incremented(index) == index + 1

(* makeAndBroadcast: a block id, the booth of the moment, the snapshots,   *)
(* the OPA broadcast.                                                      *)
MakeAndBroadcast(B) ==
    /\ logIndex < MaxBlocks
    /\ logIndex' = Incremented(logIndex)
    /\ booth' = [booth EXCEPT ![logIndex] = B]
    /\ sigs' = [sigs EXCEPT ![logIndex] = << >>]
    /\ Broadcast("OPA", logIndex, B, msgs)
    /\ UNCHANGED <<vgrec, recovered, sealed, validatorVars, crashed>>

(* The signature count after which asyncHandleOBReply ignores a reply. *)
AlreadyOrdered(b) == Len(sigs[b]) = Threshold(booth[b])

(* asyncHandleOBReply up to vgrec.Add.  The reply that completes the       *)
(* threshold recovers the signature and appends the block to the log; a    *)
(* failed recovery just returns.                                           *)
AsyncHandleOBReply(b, v) ==
    /\ Msg("R-OPA", b, v) \in msgs
    /\ msgs' = msgs \ {Msg("R-OPA", b, v)}
    /\ IF AlreadyOrdered(b)
       THEN UNCHANGED <<sigs, vgrec, recovered>>
       ELSE LET aggregatedSigs == Append(sigs[b], v)
                done == /\ Len(aggregatedSigs) = Threshold(booth[b])
                        /\ PenRecovery(aggregatedSigs, booth[b])
            IN  /\ sigs' = [sigs EXCEPT ![b] = aggregatedSigs]
                /\ vgrec' = IF done THEN Append(vgrec, b) ELSE vgrec
                /\ recovered' = IF done THEN recovered \cup {b} ELSE recovered
    /\ UNCHANGED <<logIndex, booth, sealed, broadcastError, validatorVars, crashed>>

(* The rest of the same handler: tSig into cmtSnapshot, the OPB broadcast. *)
SealAndBroadcast(b) ==
    /\ b \in recovered
    /\ recovered' = recovered \ {b}
    /\ sealed' = sealed \cup {b}
    /\ Broadcast("OPB", b, booth[b], msgs)
    /\ UNCHANGED <<logIndex, booth, sigs, vgrec, validatorVars, crashed>>

-----------------------------------------------------------------------------
(* The validators.                                                         *)

(* Mutant: the share is sent back as soon as the id is known to be new. *)
Mut_OAStore(v, b) ==
    /\ v \notin crashed
    /\ Msg("OPA", b, v) \in msgs
    /\ b \notin ordSnapshot[v]
    /\ msgs' = (msgs \ {Msg("OPA", b, v)}) \cup {Msg("R-OPA", b, v)}
    /\ ordSnapshot' = [ordSnapshot EXCEPT ![v] = @ \cup {b}]
    /\ oaRunning' = [oaRunning EXCEPT ![v] = @ \cup {b}]
    /\ UNCHANGED <<proposerVars, cmtSnapshot, cmtLock, ordJob, crashed>>

(* validatingOAEntry, under ordSnapshot's lock: a known block id is        *)
(* refused.                                                                *)
OAStore(v, b) ==
    /\ v \notin crashed
    /\ Msg("OPA", b, v) \in msgs
    /\ msgs' = msgs \ {Msg("OPA", b, v)}
    /\ IF b \in ordSnapshot[v]
       THEN UNCHANGED <<ordSnapshot, oaRunning>>
       ELSE /\ ordSnapshot' = [ordSnapshot EXCEPT ![v] = @ \cup {b}]
            /\ oaRunning' = [oaRunning EXCEPT ![v] = @ \cup {b}]
    /\ UNCHANGED <<proposerVars, cmtSnapshot, cmtLock, ordJob, crashed>>

(* Mutant: the handler signs a block it did not store. *)
Mut_OAFinish(v, b) ==
    /\ v \notin crashed
    /\ b \in oaRunning[v]
    /\ cmtLock[v] = NoBlock
    /\ oaRunning' = [oaRunning EXCEPT ![v] = @ \ {b}]
    /\ ordJob' = [ordJob EXCEPT ![v][b] = "full"]
    /\ msgs' = msgs \cup {Msg("R-OPA", b, v)}
    /\ UNCHANGED <<proposerVars, ordSnapshot, cmtSnapshot, cmtLock, crashed>>

(* validatingOAEntry, from cmtSnapshot's lock on: the snapshot is stored,  *)
(* one token is put into the block's channel, and the share is sent back   *)
(* (with EvaluateComPossibilityFlag, if a proposer is in range).           *)
OAFinish(v, b) ==
    /\ v \notin crashed
    /\ b \in oaRunning[v]
    /\ cmtLock[v] = NoBlock
    /\ oaRunning' = [oaRunning EXCEPT ![v] = @ \ {b}]
    /\ cmtSnapshot' = [cmtSnapshot EXCEPT ![v][b] = "unsigned"]
    /\ ordJob' = [ordJob EXCEPT ![v][b] = "full"]
    /\ \/ msgs' = msgs \cup {Msg("R-OPA", b, v)}
       \/ EvaluateComPossibilityFlag /\ UNCHANGED msgs
    /\ UNCHANGED <<proposerVars, ordSnapshot, cmtLock, crashed>>

(* valiOrdJobStack.s[blockchainId] is made by the first OA handler that    *)
(* gets that far; every entry in it is a channel.                          *)
JobMapExists(v) == \E b \in Blocks : ordJob[v][b] # "none"

(* validatingOBEntry of a block whose OPA was not seen: ignored. *)
OBIgnore(v, b) ==
    /\ v \notin crashed
    /\ Msg("OPB", b, v) \in msgs
    /\ b \notin ordSnapshot[v]
    /\ msgs' = msgs \ {Msg("OPB", b, v)}
    /\ UNCHANGED <<proposerVars, validatorVars, crashed>>

(* validatingOBEntry takes cmtSnapshot's lock.  If the OA handler has not  *)
(* stored the block there yet, the channel to wait on is made under the    *)
(* lock, and the lock is kept while waiting.                               *)
OBLock(v, b) ==
    /\ v \notin crashed
    /\ Msg("OPB", b, v) \in msgs
    /\ b \in ordSnapshot[v]
    /\ cmtLock[v] = NoBlock
    /\ cmtSnapshot[v][b] = "absent" => JobMapExists(v)
    /\ msgs' = msgs \ {Msg("OPB", b, v)}
    /\ cmtLock' = [cmtLock EXCEPT ![v] = b]
    /\ ordJob' = IF cmtSnapshot[v][b] = "absent" /\ ordJob[v][b] = "none"
                 THEN [ordJob EXCEPT ![v][b] = "empty"]
                 ELSE ordJob
    /\ UNCHANGED <<proposerVars, ordSnapshot, oaRunning, cmtSnapshot, crashed>>

(* The same when no OA handler has made the inner map: the assignment to   *)
(* the nil map panics, and nothing recovers, so the process ends.          *)
OBPanic(v, b) ==
    /\ v \notin crashed
    /\ Msg("OPB", b, v) \in msgs
    /\ b \in ordSnapshot[v]
    /\ cmtLock[v] = NoBlock
    /\ cmtSnapshot[v][b] = "absent"
    /\ ~JobMapExists(v)
    /\ msgs' = msgs \ {Msg("OPB", b, v)}
    /\ crashed' = crashed \cup {v}
    /\ UNCHANGED <<proposerVars, validatorVars>>

(* The wait on the channel is over, or there was none: tSig is stored and  *)
(* the lock released.                                                      *)
OBFinish(v, b) ==
    /\ v \notin crashed
    /\ cmtLock[v] = b
    /\ cmtSnapshot[v][b] = "absent" => ordJob[v][b] = "full"
    /\ cmtSnapshot' = [cmtSnapshot EXCEPT ![v][b] = "signed"]
    /\ cmtLock' = [cmtLock EXCEPT ![v] = NoBlock]
    /\ ordJob' = IF cmtSnapshot[v][b] = "absent"
                 THEN [ordJob EXCEPT ![v][b] = "empty"]
                 ELSE ordJob
    /\ UNCHANGED <<proposerVars, msgs, ordSnapshot, oaRunning, crashed>>

(* A validator's process ends for a reason of its own. *)
Crash(v) ==
    /\ v \notin crashed
    /\ Cardinality(crashed) < MaxCrash
    /\ crashed' = crashed \cup {v}
    /\ UNCHANGED <<proposerVars, msgs, validatorVars>>

-----------------------------------------------------------------------------
ProposerNext ==
    \/ \E B \in Booths : MakeAndBroadcast(B)
    \/ \E b \in Blocks : SealAndBroadcast(b)
    \/ \E b \in Blocks, v \in Validators : AsyncHandleOBReply(b, v)

ValidatorStep(v, b) ==
    \/ OAStore(v, b)
    \/ OAFinish(v, b)
    \/ OBIgnore(v, b)
    \/ OBLock(v, b)
    \/ OBPanic(v, b)
    \/ OBFinish(v, b)

Next ==
    \/ ProposerNext
    \/ \E v \in Validators, b \in Blocks : ValidatorStep(v, b)
    \/ \E v \in Validators : Crash(v)

Spec == Init /\ [][Next]_vars

(* As long as some goroutine can go on, one does: the ordering worker      *)
(* never waits for an answer, and each handler runs in a goroutine of its  *)
(* own.  One condition for all is enough, for each can only take finitely  *)
(* many steps and so starves nobody.  Crashes are not fair.                *)
Fairness ==
    WF_vars(ProposerNext \/ \E v \in Validators, b \in Blocks : ValidatorStep(v, b))

FairSpec == Spec /\ Fairness

-----------------------------------------------------------------------------
(* What ordering must guarantee.                                           *)

Holders(b) == {v \in Validators : cmtSnapshot[v][b] # "absent"}
Stalled(v, b) == cmtLock[v] = b /\ cmtSnapshot[v][b] = "absent"
Ordered(b) == b \in Range(vgrec)

(* A block in the total order log (vgrec) is stored by a threshold of      *)
(* distinct members of the very booth it was ordered in, and a validator   *)
(* never stores a threshold signature for a block that is not in the log.  *)
CertificateBacked ==
    /\ \A b \in Blocks : Ordered(b) =>
          Cardinality(Holders(b) \cap Members(booth[b])) >= Threshold(booth[b])
    /\ \A v \in Validators, b \in Blocks :
          cmtSnapshot[v][b] = "signed" => Ordered(b)

(* A block's signature count reaching the threshold means the block is in  *)
(* the log: the early return "already ordered" of asyncHandleOBReply never *)
(* hides a block whose PenRecovery failed.                                 *)
RecoverySucceeds ==
    \A b \in Blocks : booth[b] # NoBooth /\ AlreadyOrdered(b) => Ordered(b)

(* validatingOBEntry can block forever on its channel, holding the         *)
(* cmtSnapshot lock, but never at a validator whose share is in the        *)
(* block's signature: at most Cardinality(Members) - Threshold validators  *)
(* are lost to one block.                                                  *)
VotersNeverStall ==
    \A b \in Blocks : \A v \in Range(sigs[b]) : ~Stalled(v, b)

(* Ordering implements the total order log that the consensus phase reads. *)
Log == INSTANCE OrderedLog
         WITH held <- [b \in Blocks |-> Holders(b)],
              certified <- [b \in Blocks |->
                              {v \in Validators : cmtSnapshot[v][b] = "signed"}]

RefinesOrderedLog == Log!LogSpec

(* Members of b's booth that cannot store anything more: their process has *)
(* ended, or an OB handler (of any block) keeps the cmtSnapshot lock.      *)
Lost(b) == {v \in Members(booth[b]) : v \in crashed \/ \E c \in Blocks : Stalled(v, c)}


(* Every block is ordered although one validator of a booth of four does   *)
(* not take part: what the comment in validatingOBEntry says is tolerated. *)
OrderedDespiteCrash == <>(\A b \in Blocks : Ordered(b))

(* The OA handler sends the token that validatingOBEntry waits for: never  *)
(* does an OB handler wait for it holding the cmtSnapshot lock that the OA *)
(* handler of the same block needs in order to send.                       *)
NoCircularWait ==
    \A v \in Validators, b \in Blocks : ~(Stalled(v, b) /\ b \in oaRunning[v])
=============================================================================
