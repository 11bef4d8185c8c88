------------------------------ MODULE Consensus ------------------------------
(***************************************************************************)
(* The consensus phase: startConsensusPhaseA and asyncHandleCPAReply of    *)
(* vconsensus.go on the proposer, validatingCAEntry and validatingCBEntry  *)
(* of comply.go on the validators.  It runs on top of the total order log  *)
(* of module OrderedLog, which keeps growing meanwhile.                    *)
(*                                                                         *)
(*   proposer   --CPA-->  every member of the commit booth (block ids,     *)
(*                        plus the ordered entries for its new members)    *)
(*   validator  --R-CPA-> proposer                    (signature share)    *)
(*   proposer   --CPB-->  every member of the commit booth (threshold sig.)*)
(*                                                                         *)
(* asyncHandleCPAReply reads the collected shares, releases the lock, adds *)
(* its own and writes the result back under a second lock: it is two       *)
(* actions.  The commit booth is read some ConsInterval before the log is; *)
(* as any booth may be current at any time, it is chosen at the poll.      *)
(*                                                                         *)
(* A validator whose validatingOBEntry waits for a token that cannot come  *)
(* (module Ordering, Stalled) keeps the cmtSnapshot lock for good and      *)
(* takes no further part: it is stuck.  Where it has not stored any block  *)
(* yet the same handler panics (Ordering, OBPanic) and the process ends.   *)
(*                                                                         *)
(* Data: all servers see the same content for a block id, so the hash      *)
(* comparisons succeed; a share is its signer.                             *)
(***************************************************************************)
EXTENDS OrderedLog, BoothBroadcast, SequencesExt

CONSTANTS ConsWaitingSec,   \* -cw: seconds without new blocks before ending
          TimelyNetwork,    \* answers arrive within a second's sleep
          MaxCrash          \* bound: processes that end before the proposer's

ASSUME ConsensusAssumption ==
    /\ ConsWaitingSec \in Nat
    /\ TimelyNetwork \in BOOLEAN
    /\ MaxCrash \in Nat

Instances == 1 .. MaxBlocks     \* ConsInstID + 1; an instance has a block

VARIABLES
    \* the proposer
    pc,              \* the loop: "poll", "asleep", "done" (vgInst.Done)
    waited,          \* empty polls so far
    lastIdx,         \* IDRecorder.lastIdx
    ranges,          \* ranges[i]: vgTxMeta.blockIDs of instance i
    cmtBooth,        \* cmtBooth[i]: vgTxData.boo of instance i
    unsigned,        \* unsigned[i]: blocks resent with a nil CombSig
    sigs,            \* sigs[i]: vgTxMeta.sigs of instance i
    running,         \* CPA reply handlers between their two locks
    broadcastError,
    \* the network
    msgs,
    \* the validators
    synced,          \* synced[b]: validators that stored b from a CPA
    voted,           \* voted[i]: validators that signed instance i
    tokens,          \* tokens[i]: those with a token in valiConsJobStack
    committed,       \* committed[i]: validators that verified the CPB
    stuck,           \* those whose cmtSnapshot lock is never released
    crashed,
    \* history, for the properties only
    handled          \* handled[i]: number of shares added by handlers

loopVars == <<pc, waited, lastIdx, ranges, cmtBooth, unsigned>>
replyVars == <<sigs, running, handled>>
memberVars == <<synced, voted, tokens, committed, stuck>>
consVars == <<loopVars, replyVars, broadcastError, msgs, memberVars, crashed>>
vars == <<logVars, consVars>>

(* Mutant: two integer fields are filled the wrong way round. *)
Mut_Msg(type, i, v, by) == [type |-> type, inst |-> v, validator |-> i, by |-> by]

(* `by` tells apart the CPB broadcasts of one instance: the validator      *)
(* whose reply caused it.                                                  *)
Msg(type, i, v, by) == [type |-> type, inst |-> i, validator |-> v, by |-> by]
Messages == [type : {"CPA", "R-CPA", "CPB"}, inst : Instances,
             validator : Validators, by : Validators \cup {Proposer}]

TypeOK ==
    /\ LogTypeOK
    /\ pc \in {"poll", "asleep", "done"}
    /\ waited \in 0 .. (IF ConsWaitingSec = 0 THEN 1 ELSE ConsWaitingSec)
    /\ lastIdx \in 0 .. MaxBlocks
    /\ ranges \in Seq(Seq(Blocks))
    /\ cmtBooth \in Seq(Booths)
    /\ unsigned \in Seq(SUBSET Blocks)
    /\ sigs \in [Instances -> Seq(Validators)]
    /\ running \subseteq [inst : Instances, validator : Validators,
                          partialSig : Seq(Validators)]
    /\ broadcastError \in BOOLEAN
    /\ msgs \subseteq Messages
    /\ synced \in [Blocks -> SUBSET Validators]
    /\ {voted, tokens, committed} \subseteq [Instances -> SUBSET Validators]
    /\ stuck \subseteq Validators
    /\ crashed \subseteq Validators
    /\ handled \in [Instances -> 0 .. Cardinality(Validators)]

Init ==
    /\ LogInit
    /\ pc = "poll"
    /\ waited = 0
    /\ lastIdx = 0
    /\ ranges = << >>
    /\ cmtBooth = << >>
    /\ unsigned = << >>
    /\ sigs = [i \in Instances |-> << >>]
    /\ running = {}
    /\ broadcastError = FALSE
    /\ msgs = {}
    /\ synced = [b \in Blocks |-> {}]
    /\ voted = [i \in Instances |-> {}]
    /\ tokens = [i \in Instances |-> {}]
    /\ committed = [i \in Instances |-> {}]
    /\ stuck = {}
    /\ crashed = {}
    /\ handled = [i \in Instances |-> 0]

-----------------------------------------------------------------------------
(* The proposer's loop.                                                    *)

(* Mutant: the entries for the new members are not collected. *)
Mut_Resent(B, blocks) == {}

(* Members of the commit booth that were not in the booth some block of    *)
(* the instance was ordered in, and the blocks resent to them.             *)
NewMembers(B, blocks) == {m \in B : \E b \in blocks : m \notin booth[b]}
Resent(B, blocks) == {b \in blocks : \E m \in B : m \notin booth[b]}

(* broadcastToBooth, broadcastToNewBooth and their ...WithComCheck. *)
Broadcast(type, i, B, by, newMembers, sent) ==
    IF broadcastError
    THEN /\ msgs' = sent
         /\ UNCHANGED broadcastError
    ELSE \E to \in SUBSET Validators, failed \in BOOLEAN :
            /\ Reached(B, to)
            /\ failed => WriteFails(to, newMembers, crashed)
            /\ msgs' = sent \cup {Msg(type, i, v, by) : v \in to}
            /\ broadcastError' = failed

(* Mutant: the range starts one entry too early from the second time on. *)
Mut_GetIDRange(from) == SubSeq(vgrec, IF from > 0 THEN from ELSE 1, Len(vgrec))

(* IDRecorder.GetIDRange: what was added to the log since the last call. *)
GetIDRange(from) == SubSeq(vgrec, from + 1, Len(vgrec))

(* One round of startConsensusPhaseA that finds ordered blocks. *)
StartInstance(B) ==
    LET blockIDRange == GetIDRange(lastIdx)
        blocks == Range(blockIDRange)
        i == Len(ranges) + 1
    IN  /\ pc = "poll"
        /\ blockIDRange # << >>
        /\ lastIdx' = Len(vgrec)
        /\ ranges' = Append(ranges, blockIDRange)
        /\ cmtBooth' = Append(cmtBooth, B)
        /\ unsigned' = Append(unsigned, Resent(B, blocks) \ sealed)
        /\ Broadcast("CPA", i, B, Proposer, NewMembers(B, blocks), msgs)
        /\ UNCHANGED <<logVars, pc, waited, replyVars, memberVars, crashed>>

(* A round that finds none sleeps for a second. *)
FallAsleep ==
    /\ pc = "poll"
    /\ GetIDRange(lastIdx) = << >>
    /\ pc' = "asleep"
    /\ UNCHANGED <<logVars, waited, lastIdx, ranges, cmtBooth, unsigned,
                   replyVars, broadcastError, msgs, memberVars, crashed>>

(* With a timely network whatever was on its way has arrived by then. *)
Quiet ==
    /\ running = {}
    /\ \A m \in msgs : \/ m.type = "CPB"
                       \/ m.type = "CPA" /\ m.validator \in crashed \cup stuck

(* Mutant: the counter is not advanced. *)
Mut_Waited(seconds) == seconds

Waited(seconds) == seconds + 1

(* waited++; the loop ends (vgInst.Done, then main returns) when waited    *)
(* has reached ConsWaitingSec.  waited is never reset.                     *)
WakeUp ==
    /\ pc = "asleep"
    /\ TimelyNetwork => Quiet
    /\ waited' = Waited(waited)
    /\ pc' = IF Waited(waited) < ConsWaitingSec THEN "poll" ELSE "done"
    /\ UNCHANGED <<logVars, lastIdx, ranges, cmtBooth, unsigned, replyVars,
                   broadcastError, msgs, memberVars, crashed>>

-----------------------------------------------------------------------------
(* asyncHandleCPAReply.                                                    *)

(* Mutant: a handler returns when one share is still missing. *)
Mut_BatchCommitted(i) == Len(sigs[i]) + 1 = Threshold(cmtBooth[i])

(* "Batch already committed" *)
BatchCommitted(i) == Len(sigs[i]) = Threshold(cmtBooth[i])

(* First lock: read the shares.  A handler that sees a full threshold      *)
(* returns; any other adds its share to its own copy.                      *)
CPAReplyRead(i, v) ==
    /\ pc # "done"
    /\ Msg("R-CPA", i, v, v) \in msgs
    /\ msgs' = msgs \ {Msg("R-CPA", i, v, v)}
    /\ running' = IF BatchCommitted(i)
                  THEN running
                  ELSE running \cup {[inst |-> i, validator |-> v,
                                      partialSig |-> Append(sigs[i], v)]}
    /\ UNCHANGED <<logVars, loopVars, sigs, handled, broadcastError,
                   memberVars, crashed>>

(* Second lock: write the copy back.  The handler whose copy has the       *)
(* threshold recovers the signature and broadcasts CPB.                    *)
CPAReplyWrite(h) ==
    LET i == h.inst
    IN  /\ pc # "done"
        /\ running' = running \ {h}
        /\ sigs' = [sigs EXCEPT ![i] = h.partialSig]
        /\ handled' = [handled EXCEPT ![i] = @ + 1]
        /\ IF /\ Len(h.partialSig) = Threshold(cmtBooth[i])
              /\ PenRecovery(h.partialSig, cmtBooth[i])
           THEN Broadcast("CPB", i, cmtBooth[i], h.validator, {}, msgs)
           ELSE UNCHANGED <<msgs, broadcastError>>
        /\ UNCHANGED <<logVars, loopVars, memberVars, crashed>>

-----------------------------------------------------------------------------
(* The validators.                                                         *)

(* The blocks among PrevOPBEntries that validatingOBEntry accepts: PenVerify *)
(* fails on an entry that was resent without its threshold signature.      *)
Verified(i, v) ==
    LET blocks == Range(ranges[i])
    IN  IF v \in NewMembers(cmtBooth[i], blocks)
        THEN Resent(cmtBooth[i], blocks) \ unsigned[i]
        ELSE {}

(* The resent entries of these blocks are stored. *)
TakeOver(blocks, v) ==
    /\ synced' = [b \in Blocks |-> IF b \in blocks /\ v \notin held[b]
                                  THEN synced[b] \cup {v} ELSE synced[b]]
    /\ certified' = [b \in Blocks |-> IF b \in blocks
                                     THEN certified[b] \cup {v} ELSE certified[b]]

(* validatingCAEntry: take over the resent entries, go through the blocks  *)
(* (one that is not in cmtSnapshot is skipped), sign, leave a token for    *)
(* validatingCBEntry, reply (with EvaluateComPossibilityFlag, if a         *)
(* proposer is in range).                                                  *)
CAEntry(i, v) ==
    /\ v \notin crashed \cup stuck
    /\ Msg("CPA", i, v, Proposer) \in msgs
    /\ TakeOver(Verified(i, v), v)
    /\ voted' = [voted EXCEPT ![i] = @ \cup {v}]
    /\ tokens' = [tokens EXCEPT ![i] = @ \cup {v}]
    /\ LET rest == msgs \ {Msg("CPA", i, v, Proposer)}
       IN  \/ msgs' = rest \cup {Msg("R-CPA", i, v, v)}
           \/ EvaluateComPossibilityFlag /\ msgs' = rest
    /\ UNCHANGED <<booth, held, vgrec, sealed, loopVars, replyVars,
                   broadcastError, committed, stuck, crashed>>

(* validatingOBEntry of a block that v's own OA handler has not finished    *)
(* storing waits for it under the lock that it needs; if none of v's OA    *)
(* handlers has finished, it panics (JobMapExists of module Ordering).     *)
WaitOrPanic(v) ==
    IF \E b \in Blocks : v \in held[b]
    THEN /\ stuck' = stuck \cup {v}
         /\ UNCHANGED crashed
    ELSE /\ crashed' = crashed \cup {v}
         /\ UNCHANGED stuck

(* validatingCAEntry when that happens at one of the resent entries. *)
CAStuck(i, v) ==
    /\ v \notin crashed \cup stuck
    /\ Msg("CPA", i, v, Proposer) \in msgs
    /\ \E n \in DOMAIN ranges[i] :
         LET b == ranges[i][n]
         IN  /\ b \in Verified(i, v)
             /\ v \in Members(booth[b]) \ (held[b] \cup synced[b])
             /\ TakeOver(Verified(i, v) \cap Range(SubSeq(ranges[i], 1, n - 1)), v)
    /\ msgs' = msgs \ {Msg("CPA", i, v, Proposer)}
    /\ WaitOrPanic(v)
    /\ UNCHANGED <<booth, held, vgrec, sealed, loopVars, replyVars,
                   broadcastError, voted, tokens, committed>>

(* The same in the ordering phase: the OPB of a sealed block overtakes the *)
(* OA handler.                                                             *)
OBStuck(v) ==
    /\ v \notin crashed \cup stuck
    /\ \E b \in sealed : v \in Members(booth[b]) \ (held[b] \cup synced[b])
    /\ WaitOrPanic(v)
    /\ UNCHANGED <<logVars, loopVars, replyVars, broadcastError, msgs,
                   synced, voted, tokens, committed>>

(* Mutants: the CPB handler does not wait; it waits for the token of the   *)
(* instance before.                                                        *)
Mut_NoWait(i, v) == TRUE
Mut_WaitForPrevious(i, v) == i > 1 /\ v \in tokens[i - 1]

(* The wait of validatingCBEntry, "wait for prior job to be finished". *)
PriorJobDone(i, v) == v \in tokens[i]

(* validatingCBEntry: takes the token, verifies the threshold signature.   *)
(* A handler that finds no token waits, for as long as it takes.           *)
CBEntry(i, v, by) ==
    /\ v \notin crashed
    /\ Msg("CPB", i, v, by) \in msgs
    /\ PriorJobDone(i, v)
    /\ msgs' = msgs \ {Msg("CPB", i, v, by)}
    /\ tokens' = [tokens EXCEPT ![i] = @ \ {v}]
    /\ committed' = [committed EXCEPT ![i] = @ \cup {v}]
    /\ UNCHANGED <<logVars, loopVars, replyVars, broadcastError, synced,
                   voted, stuck, crashed>>

(* A validator's process ends for a reason of its own. *)
Crash(v) ==
    /\ v \notin crashed
    /\ Cardinality(crashed) < MaxCrash
    /\ crashed' = crashed \cup {v}
    /\ UNCHANGED <<logVars, loopVars, replyVars, broadcastError, msgs, memberVars>>

(* The validators end when the proposer's connection is closed             *)
(* (receivingOADialMessages).  They no longer share anything by then, so   *)
(* one step stands for all of them.                                        *)
ConnectionClosed ==
    /\ pc = "done"
    /\ crashed # Validators
    /\ crashed' = Validators
    /\ UNCHANGED <<logVars, loopVars, replyVars, broadcastError, msgs, memberVars>>

-----------------------------------------------------------------------------
(* The ordering phase goes on, until the proposer's process has ended; a   *)
(* validator that is stuck or has ended stores nothing more.               *)
OrderingStep ==
    /\ pc # "done"
    /\ LogNext
    /\ \A v \in stuck \cup crashed, b \in Blocks :
         /\ v \in held'[b] <=> v \in held[b]
         /\ v \in certified'[b] <=> v \in certified[b]
    /\ UNCHANGED consVars

ReplyStep(i, v) == 
    \/ CPAReplyRead(i, v)
    \/ \E h \in running : h.inst = i /\ h.validator = v /\ CPAReplyWrite(h)

MemberStep(i, v) == CAEntry(i, v) \/ \E by \in Validators : CBEntry(i, v, by)

Next ==
    \/ OrderingStep
    \/ \E B \in Booths : StartInstance(B)
    \/ FallAsleep
    \/ WakeUp
    \/ \E i \in Instances, v \in Validators : ReplyStep(i, v) \/ MemberStep(i, v)
    \/ \E i \in Instances, v \in Validators : CAStuck(i, v)
    \/ \E v \in Validators : OBStuck(v) \/ Crash(v)
    \/ ConnectionClosed

Spec == Init /\ [][Next]_vars

(* The loop runs for ever and every handler has its own goroutine.         *)
Fairness ==
    /\ WF_vars(\E B \in Booths : StartInstance(B))
    /\ WF_vars(FallAsleep)
    /\ WF_vars(WakeUp)
    /\ \A i \in Instances, v \in Validators :
         WF_vars(ReplyStep(i, v)) /\ WF_vars(MemberStep(i, v))

FairSpec == Spec /\ Fairness

-----------------------------------------------------------------------------
(* What the consensus phase must guarantee.                                *)

Started == 1 .. Len(ranges)

CPBSent(i) == \/ committed[i] # {}
              \/ \E m \in msgs : m.type = "CPB" /\ m.inst = i

(* The ranges of the instances cut the log into pieces, none of them empty, *)
(* up to what was read last: GetIDRange neither skips nor repeats an id     *)
(* while Add runs, so every ordered block is in exactly one instance.       *)
RangesPartition ==
    \E cut \in [0 .. Len(ranges) -> 0 .. Len(vgrec)] :
        /\ cut[0] = 0
        /\ cut[Len(ranges)] = lastIdx
        /\ \A i \in Started : /\ cut[i - 1] < cut[i]
                              /\ ranges[i] = SubSeq(vgrec, cut[i - 1] + 1, cut[i])

(* A validator commits an instance only if it signed it itself and a       *)
(* threshold of distinct members of the commit booth did.                  *)
CommitBacked ==
    \A i \in Instances : \A v \in committed[i] :
        /\ i \in Started
        /\ v \in voted[i] \cap Members(cmtBooth[i])
        /\ Cardinality(voted[i] \cap Members(cmtBooth[i])) >= Threshold(cmtBooth[i])

(* The two phases of one booth meet: of the validators that signed a       *)
(* committed instance, one has each block that was ordered in the same     *)
(* booth.  validatingCAEntry signs for blocks that it does not find in its *)
(* cmtSnapshot, so only the thresholds of the phases see to that; those of *)
(* a booth of five, two of its four validators, do not.                    *)
CommitHeldByVoter ==
    \A i \in Started : committed[i] # {} /\ Cardinality(cmtBooth[i]) # 5 =>
        \A b \in Range(ranges[i]) :
            booth[b] = cmtBooth[i] => held[b] \cap voted[i] # {}

(* A member of the commit booth that was not in the booth a block was      *)
(* ordered in votes only with that block's threshold signature verified,   *)
(* unless the block was resent before its signature was in cmtSnapshot.    *)
NewMembersVerify ==
    \A i \in Started : \A v \in voted[i], b \in Range(ranges[i]) :
        v \notin booth[b] => v \in certified[b] \/ b \in unsigned[i]

(* The same without the exception. *)
NewMembersScrutinize ==
    \A i \in Started : \A v \in voted[i], b \in Range(ranges[i]) :
        v \notin booth[b] => v \in certified[b]

(* Where every member is reached and no process has ended, an instance     *)
(* stays uncommitted after all replies were handled only because a handler *)
(* overwrote a share that another one had added (asyncHandleCPAReply's two *)
(* locks), although stuck validators do not answer.                        *)
MissedOnlyByLostVote ==
    pc = "done" /\ crashed = {} =>
        \A i \in Started : CPBSent(i) \/ Len(sigs[i]) < handled[i]

(* The same without the exception: consensus instances commit. *)
EveryInstanceCommits ==
    pc = "done" /\ crashed = {} => \A i \in Started : CPBSent(i)

(* Every CPB sent to a member that signed the instance is acted upon,      *)
(* unless the process ends.                                                *)
CommitDelivered ==
    <>[](\A m \in msgs :
          m.type = "CPB" => \/ m.validator \in committed[m.inst]
                            \/ m.validator \notin voted[m.inst]
                            \/ m.validator \in crashed)

(* The instance ends: the empty polls add up to ConsWaitingSec. *)
LoopEnds == <>(pc = "done")

-----------------------------------------------------------------------------
(* The consensus phase seen from outside: what an instance decides about,  *)
(* where, and who has voted and committed.                                 *)
Result(i) == [blocks |-> ranges[i], booth |-> cmtBooth[i],
              voted |-> voted[i], committed |-> committed[i]]

Outcome == INSTANCE CommittedLog
             WITH log <- vgrec, taken <- lastIdx,
                  instances <- [i \in Started |-> Result(i)]

(* The consensus phase implements the atomic one: whatever its messages,   *)
(* its two locks and its stuck or crashed validators do, each step takes   *)
(* the next piece of the log, is one member's vote, or is one voter's      *)
(* commit after a threshold of votes; no vote or commit is ever withdrawn. *)
RefinesCommittedLog == Outcome!Spec
=============================================================================
