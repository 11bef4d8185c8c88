---------------------------- MODULE ConsensusProofs ----------------------------
(***************************************************************************)
(* Theorems about module Consensus, for any number of validators, booths,  *)
(* blocks and crashes, on a lossy network or a timely one, with stuck      *)
(* validators or without.                                                  *)
(*                                                                         *)
(* A commit is backed because a CPB is only sent for a threshold of        *)
(* signers, although handlers overwrite each other's shares: a copy may    *)
(* lose signers, but never holds one that has not signed.  That every      *)
(* share in a copy, written or not, comes from a signer of that instance,  *)
(* and every message about it goes to or comes from its booth, is the      *)
(* inductive invariant CInv.                                               *)
(*                                                                         *)
(* A commit is missed only where a share was overwritten (RepliesInv): as  *)
(* long as every member is reached and runs, its share is under way, in a  *)
(* handler's copy, or was written.                                         *)
(*                                                                         *)
(* With CInv each step also maps to a step of CommittedLog.                *)
(***************************************************************************)
EXTENDS Consensus, ShareLemmas

(* Only proposed blocks are in the log, each once. *)
OrderInv ==
    /\ IsInjective(vgrec)
    /\ \A b \in Range(vgrec) : booth[b] # NoBooth

(* The instances are numbered in sequence and each has taken something from *)
(* the log; empty polls are counted only as long as the loop runs.          *)
LoopInv ==
    /\ Len(cmtBooth) = Len(ranges)
    /\ Len(unsigned) = Len(ranges)
    /\ Len(ranges) <= lastIdx
    /\ lastIdx <= Len(vgrec)
    /\ pc # "done" => waited = 0 \/ waited < ConsWaitingSec

(* What an instance has taken is in the log. *)
RangeInv == \A i \in Started : Range(ranges[i]) \subseteq Range(vgrec)

(* A message is about an instance that was started, and to or from a       *)
(* member of its booth: an entry to one that has not signed, a reply from  *)
(* one that has, and a CPB about a threshold of signers.                   *)
MsgInv ==
    \A m \in msgs :
        /\ m.inst \in Started
        /\ m.validator \in Members(cmtBooth[m.inst])
        /\ m.type = "CPA" => m.by = Proposer /\ m.validator \notin voted[m.inst]
        /\ m.type = "R-CPA" => m.by = m.validator /\ m.validator \in voted[m.inst]
        /\ m.type = "CPB" => Cardinality(voted[m.inst]) >= Threshold(cmtBooth[m.inst])

(* The shares a handler has read or adds are its instance's signers', and  *)
(* each signer has one handler, after its reply was taken.                 *)
HandlerInv ==
    /\ \A h \in running :
        /\ h.inst \in Started
        /\ h.validator \in voted[h.inst]
        /\ Range(h.partialSig) \subseteq voted[h.inst]
        /\ Msg("R-CPA", h.inst, h.validator, h.validator) \notin msgs
    /\ \A h, k \in running : h.inst = k.inst /\ h.validator = k.validator => h = k

(* Votes, shares, tokens and commits of an instance. *)
VoteInv ==
    \A i \in Instances :
        /\ i \notin Started => voted[i] = {}
        /\ i \in Started => voted[i] \subseteq Members(cmtBooth[i])
        /\ tokens[i] \subseteq voted[i]
        /\ committed[i] \subseteq voted[i]
        /\ Range(sigs[i]) \subseteq voted[i]
        /\ committed[i] # {} => Cardinality(voted[i]) >= Threshold(cmtBooth[i])

(* Signers whose share has not been written yet. *)
Pending(i) == {v \in Validators : \/ Msg("R-CPA", i, v, v) \in msgs
                                  \/ \E h \in running : h.inst = i /\ h.validator = v}

(* Every signer is counted at most once. *)
CountInv == \A i \in Instances : handled[i] + Cardinality(Pending(i)) <= Cardinality(voted[i])

CInv == /\ TypeOK
        /\ OrderInv
        /\ LoopInv
        /\ RangeInv
        /\ RangesPartition
        /\ MsgInv
        /\ HandlerInv
        /\ VoteInv
        /\ CountInv
        /\ NewMembersVerify

-----------------------------------------------------------------------------
LEMMA MsgFields ==
    ASSUME NEW t1, NEW i1, NEW v1, NEW b1, NEW t2, NEW i2, NEW v2, NEW b2
    PROVE  Msg(t1, i1, v1, b1) = Msg(t2, i2, v2, b2)
               <=> t1 = t2 /\ i1 = i2 /\ v1 = v2 /\ b1 = b2
BY DEF Msg

LEMMA MsgType ==
    ASSUME NEW t \in {"CPA", "R-CPA", "CPB"}, NEW i \in Instances, NEW v \in Validators,
           NEW by \in Validators \cup {Proposer}
    PROVE  /\ Msg(t, i, v, by) \in Messages
           /\ Msg(t, i, v, by).type = t /\ Msg(t, i, v, by).inst = i
           /\ Msg(t, i, v, by).validator = v /\ Msg(t, i, v, by).by = by
BY DEF Msg, Messages

(* A broadcast only adds messages of its own type about its own instance,  *)
(* to members of the booth, whatever is lost and whatever fails.           *)
LEMMA BroadcastEffect ==
    ASSUME NEW sent, sent \subseteq Messages, broadcastError \in BOOLEAN,
           NEW type \in {"CPA", "CPB"}, NEW i \in Instances, NEW B,
           NEW by \in Validators \cup {Proposer}, NEW newMembers,
           Broadcast(type, i, B, by, newMembers, sent)
    PROVE  /\ msgs' \subseteq Messages
           /\ broadcastError' \in BOOLEAN
           /\ \A m \in msgs' : \/ m \in sent
                               \/ /\ m.type = type /\ m.inst = i /\ m.by = by
                                  /\ m.validator \in Members(B)
<1>1. CASE broadcastError
  BY <1>1 DEF Broadcast
<1>2. CASE ~broadcastError
  <2>1. PICK to \in SUBSET Validators, failed \in BOOLEAN :
            /\ Reached(B, to)
            /\ msgs' = sent \cup {Msg(type, i, v, by) : v \in to}
            /\ broadcastError' = failed
    BY <1>2 DEF Broadcast
  <2>2. to \subseteq Members(B)
    BY <2>1 DEF Reached
  <2>3. ASSUME NEW v \in to
        PROVE  /\ Msg(type, i, v, by) \in Messages
               /\ Msg(type, i, v, by).type = type /\ Msg(type, i, v, by).inst = i
               /\ Msg(type, i, v, by).validator = v /\ Msg(type, i, v, by).by = by
    BY MsgType
  <2> QED BY <2>1, <2>2, <2>3
<1> QED BY <1>1, <1>2

(* Each block is in the log once, so the log has an end. *)
LEMMA LogBounded == TypeOK /\ OrderInv => Len(vgrec) \in 0 .. MaxBlocks
<1> SUFFICES ASSUME TypeOK, OrderInv PROVE Len(vgrec) \in 0 .. MaxBlocks
  OBVIOUS
<1>1. vgrec \in Seq(Blocks) /\ Len(vgrec) \in Nat
  BY DEF TypeOK, LogTypeOK
<1>2. IsFiniteSet(Range(vgrec)) /\ Cardinality(Range(vgrec)) = Len(vgrec)
  BY <1>1, InjectiveCardinality DEF OrderInv
<1>3. IsFiniteSet(Blocks) /\ Cardinality(Blocks) = MaxBlocks
  BY FS_Interval, MaxBlocksAssumption DEF Blocks
<1>4. Range(vgrec) \subseteq Blocks
  BY <1>1 DEF Range
<1>5. Cardinality(Range(vgrec)) <= Cardinality(Blocks)
  BY <1>3, <1>4, FS_Subset
<1> QED BY <1>1, <1>2, <1>3, <1>5, MaxBlocksAssumption

(* A piece of the log stays the same when the log grows. *)
LEMMA SubSeqOfAppend ==
    ASSUME NEW S, NEW s \in Seq(S), NEW x \in S, NEW m \in Nat \ {0}, NEW n \in Nat, n <= Len(s)
    PROVE  SubSeq(Append(s, x), m, n) = SubSeq(s, m, n)
OBVIOUS

(* The voters of an instance are finitely many. *)
LEMMA VotersFinite ==
    ASSUME TypeOK, NEW i \in Instances
    PROVE  /\ voted[i] \subseteq Validators
           /\ IsFiniteSet(voted[i])
           /\ Cardinality(voted[i]) \in Nat
           /\ Cardinality(voted[i]) <= Cardinality(Validators)
           /\ Cardinality(Validators) \in Nat
           /\ IsFiniteSet(Pending(i))
           /\ Cardinality(Pending(i)) \in Nat
<1>1. voted[i] \subseteq Validators /\ Pending(i) \subseteq Validators
  BY DEF TypeOK, Pending
<1> QED BY <1>1, FS_Subset, FS_CardinalityType, ServersAssumption

(* The started instances are among the instances. *)
LEMMA StartedInstances ==
    TypeOK /\ OrderInv /\ LoopInv => /\ Started \subseteq Instances
                                     /\ Len(ranges) \in Nat
                                     /\ \A i \in Started : cmtBooth[i] \in Booths
<1> SUFFICES ASSUME TypeOK, OrderInv, LoopInv
             PROVE  /\ Started \subseteq Instances
                    /\ Len(ranges) \in Nat
                    /\ \A i \in Started : cmtBooth[i] \in Booths
  OBVIOUS
<1>1. Len(ranges) \in Nat /\ Len(ranges) <= MaxBlocks
  BY LogBounded, MaxBlocksAssumption DEF TypeOK, LoopInv
<1>2. Started \subseteq Instances
  BY <1>1, MaxBlocksAssumption DEF Started, Instances
<1>3. cmtBooth \in Seq(Booths) /\ Len(cmtBooth) = Len(ranges)
  BY DEF TypeOK, LoopInv
<1>4. \A i \in 1 .. Len(ranges) : cmtBooth[i] \in Booths
  BY <1>1, <1>3
<1> QED BY <1>1, <1>2, <1>4 DEF Started

-----------------------------------------------------------------------------
LEMMA EmptySlices ==
    /\ << >> \in Seq(Validators) /\ << >> \in Seq(Blocks) /\ Len(<< >>) = 0
    /\ Range(<< >>) = {} /\ IsInjective(<< >>)
BY DEF Range, IsInjective

(* Nothing ordered, nothing started. *)
LEMMA InitCInv == Init => CInv
<1> SUFFICES ASSUME Init PROVE CInv
  OBVIOUS
<1>1. TypeOK
  <2>1. LogTypeOK
    BY EmptySlices DEF Init, LogInit, LogTypeOK
  <2>2. /\ waited \in 0 .. (IF ConsWaitingSec = 0 THEN 1 ELSE ConsWaitingSec)
        /\ lastIdx \in 0 .. MaxBlocks
        /\ ranges \in Seq(Seq(Blocks)) /\ cmtBooth \in Seq(Booths)
        /\ unsigned \in Seq(SUBSET Blocks)
    BY ConsensusAssumption, MaxBlocksAssumption DEF Init
  <2>3. /\ sigs \in [Instances -> Seq(Validators)]
        /\ synced \in [Blocks -> SUBSET Validators]
        /\ {voted, tokens, committed} \subseteq [Instances -> SUBSET Validators]
    BY EmptySlices DEF Init
  <2>4. handled \in [Instances -> 0 .. Cardinality(Validators)]
    BY FS_CardinalityType, ServersAssumption DEF Init
  <2> QED BY <2>1, <2>2, <2>3, <2>4 DEF Init, TypeOK
<1>2. OrderInv
  BY EmptySlices DEF Init, LogInit, OrderInv
<1>3. LoopInv /\ RangeInv
  BY DEF Init, LogInit, LoopInv, RangeInv, Started
<1>4. RangesPartition
  <2> DEFINE cut == [n \in 0 .. Len(ranges) |-> 0]
  <2>1. Len(ranges) = 0 /\ Len(vgrec) = 0 /\ lastIdx = 0
    BY DEF Init, LogInit
  <2>2. /\ cut \in [0 .. Len(ranges) -> 0 .. Len(vgrec)]
        /\ cut[0] = 0 /\ cut[Len(ranges)] = lastIdx
        /\ Started = {}
    BY <2>1 DEF Started
  <2> QED BY <2>2 DEF RangesPartition
<1>5. MsgInv /\ HandlerInv
  BY DEF Init, MsgInv, HandlerInv
<1>6. VoteInv
  BY EmptySlices DEF Init, VoteInv
<1>7. CountInv
  <2>1. ASSUME NEW i \in Instances PROVE Pending(i) = {} /\ voted[i] = {} /\ handled[i] = 0
    BY DEF Init, Pending
  <2> QED BY <2>1, FS_EmptySet DEF CountInv
<1>8. NewMembersVerify
  BY DEF Init, NewMembersVerify, Started
<1> QED BY <1>1, <1>2, <1>3, <1>4, <1>5, <1>6, <1>7, <1>8 DEF CInv

-----------------------------------------------------------------------------
(* The log only grows, by proposed blocks that were not in it; a block's   *)
(* booth is settled when it is proposed, and only a member of that booth   *)
(* can start anew, without a certificate.                                  *)
LEMMA LogStep ==
    ASSUME LogTypeOK, OrderInv, LogNext
    PROVE  /\ LogTypeOK' /\ OrderInv'
           /\ vgrec' = vgrec \/ \E b \in Blocks : vgrec' = Append(vgrec, b)
           /\ \A b \in Blocks : booth[b] # NoBooth =>
                /\ booth'[b] = booth[b]
                /\ certified[b] \subseteq certified'[b] \cup booth[b]
<1>1. ASSUME NEW b \in Blocks, NEW B \in Booths, Propose(b, B)
      PROVE  /\ LogTypeOK' /\ OrderInv' /\ vgrec' = vgrec
             /\ \A c \in Blocks : booth[c] # NoBooth =>
                  booth'[c] = booth[c] /\ certified'[c] = certified[c]
  BY <1>1, NoBoothAssumption DEF Propose, LogTypeOK, OrderInv
<1>2. ASSUME NEW b \in Blocks, NEW v \in Validators, Hold(b, v)
      PROVE  /\ LogTypeOK' /\ OrderInv' /\ vgrec' = vgrec /\ booth' = booth
             /\ \A c \in Blocks : certified[c] \subseteq certified'[c] \cup booth[c]
  <2>1. v \in booth[b]
    BY <1>2 DEF Hold, Members
  <2> QED BY <1>2, <2>1 DEF Hold, LogTypeOK, OrderInv
<1>3. ASSUME NEW b \in Blocks, NEW v \in Validators, Certify(b, v)
      PROVE  /\ LogTypeOK' /\ OrderInv' /\ vgrec' = vgrec /\ booth' = booth
             /\ \A c \in Blocks : certified[c] \subseteq certified'[c]
  BY <1>3 DEF Certify, LogTypeOK, OrderInv
<1>4. ASSUME NEW b \in Blocks, Order(b)
      PROVE  /\ LogTypeOK' /\ OrderInv' /\ vgrec' = Append(vgrec, b)
             /\ booth' = booth /\ certified' = certified
  <2>1. vgrec \in Seq(Blocks) /\ b \notin Range(vgrec)
    BY <1>4 DEF Order, Ordered, LogTypeOK
  <2>2. /\ vgrec' = Append(vgrec, b) /\ vgrec' \in Seq(Blocks)
        /\ Range(vgrec') = Range(vgrec) \cup {b}
    BY <1>4, <2>1, RangeAppend DEF Order
  <2>3. IsInjective(vgrec')
    <3>1. IsInjective(vgrec)
      BY DEF OrderInv
    <3>2. IsInjective(Append(vgrec, b))
      BY <2>1, <3>1 DEF IsInjective, Range
    <3> QED BY <2>2, <3>2
  <2> QED BY <1>4, <2>2, <2>3 DEF Order, LogTypeOK, OrderInv
<1>5. ASSUME NEW b \in Blocks, Seal(b)
      PROVE  /\ LogTypeOK' /\ OrderInv' /\ vgrec' = vgrec
             /\ booth' = booth /\ certified' = certified
  BY <1>5 DEF Seal, LogTypeOK, OrderInv
<1> QED BY <1>1, <1>2, <1>3, <1>4, <1>5 DEF LogNext

(* The ordering phase goes on while instances run. *)
LEMMA OrderingCInv == ASSUME CInv, OrderingStep PROVE CInv'
<1>1. LogNext /\ UNCHANGED consVars
  BY DEF OrderingStep
<1>2. /\ LogTypeOK' /\ OrderInv'
      /\ vgrec' = vgrec \/ \E b \in Blocks : vgrec' = Append(vgrec, b)
      /\ \A b \in Blocks : booth[b] # NoBooth =>
           /\ booth'[b] = booth[b]
           /\ certified[b] \subseteq certified'[b] \cup booth[b]
  BY <1>1, LogStep DEF CInv, TypeOK
<1>3. TypeOK'
  BY <1>1, <1>2 DEF CInv, TypeOK, consVars, loopVars, replyVars, memberVars
<1>4. /\ vgrec \in Seq(Blocks) /\ Len(vgrec) \in Nat /\ Len(vgrec') \in Nat
      /\ Len(vgrec) <= Len(vgrec')
      /\ Range(vgrec) \subseteq Range(vgrec')
      /\ \A m \in Nat \ {0}, n \in Nat : n <= Len(vgrec) =>
            SubSeq(vgrec', m, n) = SubSeq(vgrec, m, n)
  <2>1. vgrec \in Seq(Blocks) /\ Len(vgrec) \in Nat
    BY DEF CInv, TypeOK, LogTypeOK
  <2>2. CASE vgrec' = vgrec
    BY <2>1, <2>2
  <2>3. CASE \E b \in Blocks : vgrec' = Append(vgrec, b)
    <3>1. PICK b \in Blocks : vgrec' = Append(vgrec, b)
      BY <2>3
    <3>2. /\ Len(vgrec') = Len(vgrec) + 1
          /\ Range(vgrec') = Range(vgrec) \cup {b}
      BY <2>1, <3>1, RangeAppend
    <3>3. \A m \in Nat \ {0}, n \in Nat : n <= Len(vgrec) =>
             SubSeq(vgrec', m, n) = SubSeq(vgrec, m, n)
      BY <2>1, <3>1, SubSeqOfAppend
    <3> QED BY <2>1, <3>2, <3>3
  <2> QED BY <1>2, <2>1, <2>2, <2>3
<1>5. /\ Started' = Started /\ ranges' = ranges /\ lastIdx' = lastIdx
      /\ voted' = voted /\ unsigned' = unsigned
  BY <1>1 DEF consVars, loopVars, memberVars, Started
<1>6. LoopInv'
  BY <1>1, <1>4 DEF CInv, LoopInv, TypeOK, consVars, loopVars
<1>7. RangeInv'
  BY <1>4, <1>5 DEF CInv, RangeInv
<1>8. RangesPartition'
  <2>1. PICK cut \in [0 .. Len(ranges) -> 0 .. Len(vgrec)] :
            /\ cut[0] = 0
            /\ cut[Len(ranges)] = lastIdx
            /\ \A i \in Started : /\ cut[i - 1] < cut[i]
                                  /\ ranges[i] = SubSeq(vgrec, cut[i - 1] + 1, cut[i])
    BY DEF CInv, RangesPartition
  <2>2. cut \in [0 .. Len(ranges) -> 0 .. Len(vgrec')]
    BY <1>4, <2>1
  <2>3. ASSUME NEW i \in Started
        PROVE  ranges[i] = SubSeq(vgrec', cut[i - 1] + 1, cut[i])
    <3>1. /\ cut[i - 1] + 1 \in Nat \ {0} /\ cut[i] \in Nat /\ cut[i] <= Len(vgrec)
      <4>1. i - 1 \in 0 .. Len(ranges) /\ i \in 0 .. Len(ranges)
        BY StartedInstances DEF Started, CInv
      <4>2. cut[i - 1] \in 0 .. Len(vgrec) /\ cut[i] \in 0 .. Len(vgrec)
        BY <2>1, <4>1
      <4> QED BY <1>4, <4>2
    <3> QED BY <1>4, <2>1, <3>1
  <2> QED BY <1>5, <2>1, <2>2, <2>3 DEF RangesPartition
<1>9. MsgInv' /\ HandlerInv' /\ VoteInv' /\ CountInv'
  BY <1>1, <1>5 DEF CInv, MsgInv, HandlerInv, VoteInv, CountInv, Pending,
                    consVars, loopVars, replyVars, memberVars
<1>10. NewMembersVerify'
  <2> SUFFICES ASSUME NEW i \in Started, NEW v \in voted[i], NEW b \in Range(ranges[i]),
                      v \notin booth'[b], b \notin unsigned[i]
               PROVE  v \in certified'[b]
    BY <1>5 DEF NewMembersVerify
  <2>1. b \in Range(vgrec)
    BY DEF CInv, RangeInv
  <2>2. b \in Blocks /\ booth[b] # NoBooth
    BY <1>4, <2>1 DEF CInv, OrderInv, Range
  <2>3. v \notin booth[b]
    BY <1>2, <2>2
  <2>4. v \in certified[b]
    BY <2>3 DEF CInv, NewMembersVerify
  <2> QED BY <1>2, <2>2, <2>3, <2>4
<1> QED BY <1>2, <1>3, <1>6, <1>7, <1>8, <1>9, <1>10 DEF CInv

-----------------------------------------------------------------------------
(* A new instance takes the next piece of the log. *)
LEMMA StartCInv ==
    ASSUME CInv, NEW B \in Booths, StartInstance(B)
    PROVE  CInv'
<1> DEFINE i == Len(ranges) + 1
           range == GetIDRange(lastIdx)
           blocks == Range(range)
<1>1. /\ pc = "poll" /\ range # << >>
      /\ lastIdx' = Len(vgrec)
      /\ ranges' = Append(ranges, range)
      /\ cmtBooth' = Append(cmtBooth, B)
      /\ unsigned' = Append(unsigned, Resent(B, blocks) \ sealed)
      /\ Broadcast("CPA", i, B, Proposer, NewMembers(B, blocks), msgs)
      /\ UNCHANGED <<logVars, pc, waited, replyVars, memberVars, crashed>>
  BY DEF StartInstance
<1>2. /\ vgrec \in Seq(Blocks) /\ Len(vgrec) \in 0 .. MaxBlocks
      /\ lastIdx \in Nat /\ lastIdx <= Len(vgrec) /\ Len(ranges) \in Nat
      /\ Len(ranges) <= lastIdx
      /\ ranges \in Seq(Seq(Blocks)) /\ cmtBooth \in Seq(Booths)
      /\ unsigned \in Seq(SUBSET Blocks)
      /\ Len(cmtBooth) = Len(ranges) /\ Len(unsigned) = Len(ranges)
  BY LogBounded DEF CInv, TypeOK, LogTypeOK, LoopInv
<1>3. range = SubSeq(vgrec, lastIdx + 1, Len(vgrec))
  BY DEF GetIDRange
<1>4. range \in Seq(Blocks) /\ lastIdx < Len(vgrec)
  BY <1>1, <1>2, <1>3
<1>5. blocks \subseteq Range(vgrec)
  BY <1>2, <1>3, <1>4 DEF Range
<1>6. i \in Instances /\ i \in Nat
  BY <1>2, <1>4, MaxBlocksAssumption DEF Instances
<1> HIDE DEF range, blocks
<1>7. /\ Len(ranges') = i /\ Len(cmtBooth') = i /\ Len(unsigned') = i
      /\ ranges'[i] = range /\ cmtBooth'[i] = B
      /\ \A j \in Started : /\ ranges'[j] = ranges[j] /\ cmtBooth'[j] = cmtBooth[j]
                            /\ unsigned'[j] = unsigned[j]
      /\ ranges' \in Seq(Seq(Blocks)) /\ cmtBooth' \in Seq(Booths)
      /\ unsigned' \in Seq(SUBSET Blocks)
  <2>1. Resent(B, blocks) \ sealed \in SUBSET Blocks
    BY <1>2, <1>5 DEF Resent, Range
  <2> QED BY <1>1, <1>2, <1>4, <2>1 DEF Started
<1>8. Started' = Started \cup {i} /\ i \notin Started
  <2>1. Started' = 1 .. i /\ Started = 1 .. Len(ranges)
    BY <1>7 DEF Started
  <2>2. 1 .. i = (1 .. Len(ranges)) \cup {i} /\ i \notin 1 .. Len(ranges)
    BY <1>2
  <2> QED BY <2>1, <2>2
<1>9. /\ msgs' \subseteq Messages
      /\ broadcastError' \in BOOLEAN
      /\ \A m \in msgs' : \/ m \in msgs
                          \/ /\ m.type = "CPA" /\ m.inst = i /\ m.by = Proposer
                             /\ m.validator \in Members(B)
  <2>1. msgs \subseteq Messages /\ broadcastError \in BOOLEAN
    BY DEF CInv, TypeOK
  <2> HIDE DEF i
  <2> QED BY <1>1, <1>6, <2>1, BroadcastEffect
<1>10. /\ UNCHANGED <<logVars, waited, pc, sigs, running, handled, voted, tokens, committed,
                      synced, stuck, crashed>>
  BY <1>1 DEF replyVars, memberVars
<1>11. voted[i] = {}
  BY <1>6, <1>8 DEF CInv, VoteInv
<1>12. TypeOK'
  <2>1. lastIdx' \in 0 .. MaxBlocks
    BY <1>1, <1>2
  <2> QED BY <1>7, <1>9, <1>10, <2>1 DEF CInv, TypeOK, LogTypeOK, logVars
<1>13. OrderInv'
  BY <1>10 DEF CInv, OrderInv, logVars
<1>14. LoopInv'
  BY <1>1, <1>2, <1>4, <1>7, <1>10 DEF CInv, LoopInv, logVars
<1>15. RangeInv'
  BY <1>5, <1>7, <1>8, <1>10 DEF CInv, RangeInv, logVars, blocks
<1>16. RangesPartition'
  <2>1. PICK cut \in [0 .. Len(ranges) -> 0 .. Len(vgrec)] :
            /\ cut[0] = 0
            /\ cut[Len(ranges)] = lastIdx
            /\ \A j \in Started : /\ cut[j - 1] < cut[j]
                                  /\ ranges[j] = SubSeq(vgrec, cut[j - 1] + 1, cut[j])
    BY DEF CInv, RangesPartition
  <2> DEFINE next == [n \in 0 .. i |-> IF n = i THEN Len(vgrec) ELSE cut[n]]
  <2>2. next \in [0 .. Len(ranges') -> 0 .. Len(vgrec')]
    BY <1>2, <1>7, <1>10, <2>1 DEF logVars
  <2>3. next[0] = 0 /\ next[Len(ranges')] = lastIdx'
    BY <1>1, <1>2, <1>7, <2>1
  <2>4. ASSUME NEW j \in Started'
        PROVE  /\ next[j - 1] < next[j]
               /\ ranges'[j] = SubSeq(vgrec', next[j - 1] + 1, next[j])
    <3>1. CASE j \in Started
      <4>1. j - 1 \in 0 .. i /\ j \in 0 .. i /\ j # i /\ j - 1 # i
        BY <1>2, <3>1 DEF Started
      <4>2. next[j - 1] = cut[j - 1] /\ next[j] = cut[j]
        BY <4>1
      <4> QED BY <1>7, <1>10, <2>1, <3>1, <4>2 DEF logVars
    <3>2. CASE j = i
      <4>1. next[j] = Len(vgrec) /\ next[j - 1] = lastIdx
        BY <1>2, <2>1, <3>2
      <4>2. vgrec' = vgrec
        BY <1>10 DEF logVars
      <4> QED BY <1>3, <1>4, <1>7, <3>2, <4>1, <4>2
    <3> QED BY <1>8, <3>1, <3>2
  <2> HIDE DEF next
  <2> QED BY <2>2, <2>3, <2>4 DEF RangesPartition
<1>17. MsgInv'
  <2> SUFFICES ASSUME NEW m \in msgs'
               PROVE  /\ m.inst \in Started'
                      /\ m.validator \in Members(cmtBooth'[m.inst])
                      /\ m.type = "CPA" => m.by = Proposer /\ m.validator \notin voted[m.inst]
                      /\ m.type = "R-CPA" => m.by = m.validator /\ m.validator \in voted[m.inst]
                      /\ m.type = "CPB" => Cardinality(voted[m.inst]) >= Threshold(cmtBooth'[m.inst])
    BY <1>10 DEF MsgInv
  <2>1. CASE m \in msgs
    BY <1>7, <1>8, <2>1 DEF CInv, MsgInv
  <2>2. CASE m \notin msgs
    BY <1>7, <1>8, <1>9, <1>11, <2>2
  <2> QED BY <2>1, <2>2
<1>18. \A j, v : Msg("R-CPA", j, v, v) \in msgs' <=> Msg("R-CPA", j, v, v) \in msgs
  <2>1. \A j, v : Msg("R-CPA", j, v, v).type = "R-CPA"
    BY DEF Msg
  <2>2. msgs \subseteq msgs'
    BY <1>1 DEF Broadcast
  <2> QED BY <1>9, <2>1, <2>2
<1>19. HandlerInv'
  BY <1>8, <1>10, <1>18 DEF CInv, HandlerInv
<1>20. VoteInv'
  <2> SUFFICES ASSUME NEW j \in Instances
               PROVE  /\ j \notin Started' => voted[j] = {}
                      /\ j \in Started' => voted[j] \subseteq Members(cmtBooth'[j])
                      /\ tokens[j] \subseteq voted[j]
                      /\ committed[j] \subseteq voted[j]
                      /\ Range(sigs[j]) \subseteq voted[j]
                      /\ committed[j] # {} =>
                            Cardinality(voted[j]) >= Threshold(cmtBooth'[j])
    BY <1>10 DEF VoteInv
  <2>1. CASE j = i
    BY <1>6, <1>11, <2>1 DEF CInv, VoteInv
  <2>2. CASE j # i
    <3>1. committed[j] # {} => j \in Started
      BY DEF CInv, VoteInv
    <3> QED BY <1>7, <1>8, <2>2, <3>1 DEF CInv, VoteInv
  <2> QED BY <2>1, <2>2
<1>21. CountInv'
  BY <1>10, <1>18 DEF CInv, CountInv, Pending
<1>22. NewMembersVerify'
  BY <1>7, <1>8, <1>10, <1>11 DEF CInv, NewMembersVerify, logVars
<1> QED BY <1>12, <1>13, <1>14, <1>15, <1>16, <1>17, <1>19, <1>20, <1>21, <1>22 DEF CInv

-----------------------------------------------------------------------------
(* A round without blocks, and steps that only change who is stuck or has  *)
(* ended, leave instances and messages alone.                              *)
LEMMA QuietCInv ==
    ASSUME CInv, UNCHANGED <<logVars, lastIdx, ranges, cmtBooth, unsigned, replyVars,
                             broadcastError, msgs, synced, voted, tokens, committed>>
    PROVE  /\ (OrderInv /\ RangeInv /\ RangesPartition)'
           /\ (MsgInv /\ HandlerInv /\ VoteInv /\ CountInv /\ NewMembersVerify)'
<1>1. OrderInv' /\ RangeInv' /\ RangesPartition'
  BY DEF CInv, OrderInv, RangeInv, RangesPartition, Started, logVars
<1>2. MsgInv' /\ HandlerInv' /\ VoteInv' /\ CountInv'
  BY DEF CInv, MsgInv, HandlerInv, VoteInv, CountInv, Pending, Started, replyVars
<1>3. NewMembersVerify'
  BY DEF CInv, NewMembersVerify, Started, logVars
<1> QED BY <1>1, <1>2, <1>3

LEMMA LoopCInv == ASSUME CInv, FallAsleep \/ WakeUp PROVE CInv'
<1>1. UNCHANGED <<logVars, lastIdx, ranges, cmtBooth, unsigned, replyVars,
                  broadcastError, msgs, synced, voted, tokens, committed, stuck, crashed>>
  BY DEF FallAsleep, WakeUp, memberVars
<1>2. waited \in Nat
  BY ConsensusAssumption DEF CInv, TypeOK
<1>3. /\ pc' \in {"poll", "asleep", "done"}
      /\ waited' \in 0 .. (IF ConsWaitingSec = 0 THEN 1 ELSE ConsWaitingSec)
      /\ pc' # "done" => waited' = 0 \/ waited' < ConsWaitingSec
  <2>1. CASE FallAsleep
    BY <2>1, ConsensusAssumption DEF FallAsleep, CInv, TypeOK, LoopInv
  <2>2. CASE WakeUp
    BY <1>2, <2>2, ConsensusAssumption DEF WakeUp, Waited, CInv, TypeOK, LoopInv
  <2> QED BY <2>1, <2>2
<1>4. TypeOK'
  BY <1>1, <1>3 DEF CInv, TypeOK, LogTypeOK, logVars, replyVars
<1>5. LoopInv'
  BY <1>1, <1>3 DEF CInv, LoopInv, logVars
<1> QED BY <1>1, <1>4, <1>5, QuietCInv DEF CInv

LEMMA ProcessCInv ==
    ASSUME CInv, NEW v \in Validators, OBStuck(v) \/ Crash(v) \/ ConnectionClosed
    PROVE  CInv'
<1>1. UNCHANGED <<logVars, loopVars, replyVars, broadcastError, msgs, synced, voted,
                  tokens, committed>>
  BY DEF OBStuck, Crash, ConnectionClosed, memberVars
<1>2. stuck' \subseteq Validators /\ crashed' \subseteq Validators
  BY DEF OBStuck, WaitOrPanic, Crash, ConnectionClosed, memberVars, CInv, TypeOK
<1>3. TypeOK' /\ LoopInv'
  BY <1>1, <1>2 DEF CInv, TypeOK, LogTypeOK, LoopInv, logVars, loopVars, replyVars
<1> QED BY <1>1, <1>3, QuietCInv DEF CInv, loopVars

-----------------------------------------------------------------------------
(* First lock: the reply becomes a handler, or nothing. *)
LEMMA ReadCInv ==
    ASSUME CInv, NEW i \in Instances, NEW v \in Validators, CPAReplyRead(i, v)
    PROVE  CInv'
<1> DEFINE reply == Msg("R-CPA", i, v, v)
           h == [inst |-> i, validator |-> v, partialSig |-> Append(sigs[i], v)]
<1>1. /\ reply \in msgs /\ msgs' = msgs \ {reply}
      /\ running' = running \/ running' = running \cup {h}
      /\ UNCHANGED <<logVars, loopVars, sigs, handled, broadcastError, memberVars, crashed>>
  BY DEF CPAReplyRead
<1>2. /\ reply.type = "R-CPA" /\ reply.inst = i /\ reply.validator = v
      /\ sigs[i] \in Seq(Validators)
  BY DEF CInv, TypeOK, Msg
<1>3. /\ Append(sigs[i], v) \in Seq(Validators)
      /\ Range(Append(sigs[i], v)) = Range(sigs[i]) \cup {v}
  BY <1>2, RangeAppend
<1>4. i \in Started /\ v \in voted[i] /\ Range(sigs[i]) \subseteq voted[i]
  BY <1>1, <1>2 DEF CInv, MsgInv, VoteInv
<1>5. \A k \in running : ~(k.inst = i /\ k.validator = v)
  BY <1>1 DEF CInv, HandlerInv
<1>6. /\ h \in [inst : Instances, validator : Validators, partialSig : Seq(Validators)]
      /\ h.inst = i /\ h.validator = v /\ Range(h.partialSig) \subseteq voted[i]
  BY <1>3, <1>4
<1> HIDE DEF reply, h
<1>7. TypeOK'
  BY <1>1, <1>6 DEF CInv, TypeOK, LogTypeOK, logVars, loopVars, memberVars
<1>8. OrderInv' /\ LoopInv' /\ RangeInv' /\ RangesPartition' /\ NewMembersVerify' /\ Started' = Started
  BY <1>1 DEF CInv, OrderInv, LoopInv, RangeInv, RangesPartition, NewMembersVerify, Started,
              logVars, loopVars, memberVars
<1>9. MsgInv'
  BY <1>1, <1>8 DEF CInv, MsgInv, loopVars, memberVars
<1>10. HandlerInv'
  <2>1. ASSUME NEW k \in running'
        PROVE  /\ k.inst \in Started /\ k.validator \in voted[k.inst]
               /\ Range(k.partialSig) \subseteq voted[k.inst]
               /\ Msg("R-CPA", k.inst, k.validator, k.validator) \notin msgs'
    <3>1. CASE k \in running
      BY <1>1, <3>1 DEF CInv, HandlerInv
    <3>2. CASE k = h
      BY <1>1, <1>4, <1>6, <3>2 DEF reply
    <3> QED BY <1>1, <3>1, <3>2
  <2>2. ASSUME NEW k \in running', NEW l \in running',
               k.inst = l.inst, k.validator = l.validator
        PROVE  k = l
    BY <1>1, <1>5, <1>6, <2>2 DEF CInv, HandlerInv
  <2> QED BY <1>1, <1>8, <2>1, <2>2 DEF HandlerInv, memberVars
<1>11. VoteInv'
  BY <1>1, <1>8 DEF CInv, VoteInv, loopVars, memberVars
<1>12. CountInv'
  <2>1. ASSUME NEW j \in Instances PROVE Pending(j)' \subseteq Pending(j)
    <3>1. ASSUME NEW w \in Pending(j)' PROVE w \in Pending(j)
      <4>1. CASE Msg("R-CPA", j, w, w) \in msgs'
        BY <1>1, <3>1, <4>1 DEF Pending
      <4>2. CASE \E k \in running' : k.inst = j /\ k.validator = w
        <5>1. PICK k \in running' : k.inst = j /\ k.validator = w
          BY <4>2
        <5>2. CASE k \in running
          BY <3>1, <5>1, <5>2 DEF Pending
        <5>3. CASE k = h
          BY <1>1, <1>6, <5>1, <5>3 DEF Pending, reply
        <5> QED BY <1>1, <5>2, <5>3
      <4> QED BY <3>1, <4>1, <4>2 DEF Pending
    <3> QED BY <3>1
  <2>2. ASSUME NEW j \in Instances
        PROVE  handled[j] + Cardinality(Pending(j)') <= Cardinality(voted[j])
    <3>1. /\ IsFiniteSet(Pending(j)) /\ Cardinality(Pending(j)) \in Nat
          /\ Cardinality(voted[j]) \in Nat
      BY VotersFinite DEF CInv
    <3>2. /\ Cardinality(Pending(j)') <= Cardinality(Pending(j))
          /\ Cardinality(Pending(j)') \in Nat
      BY <2>1, <3>1, FS_Subset, FS_CardinalityType
    <3>3. handled[j] \in Nat /\ handled[j] + Cardinality(Pending(j)) <= Cardinality(voted[j])
      BY VotersFinite DEF CInv, CountInv, TypeOK
    <3> QED BY <3>1, <3>2, <3>3
  <2> QED BY <1>1, <2>2 DEF CountInv, memberVars
<1> QED BY <1>7, <1>8, <1>9, <1>10, <1>11, <1>12 DEF CInv

-----------------------------------------------------------------------------
(* Second lock: the copy replaces what others may have written meanwhile;  *)
(* a full copy holds a threshold of signers all the same.                  *)
LEMMA WriteCInv ==
    ASSUME CInv, NEW h \in running, CPAReplyWrite(h)
    PROVE  CInv'
<1> DEFINE i == h.inst
           full == /\ Len(h.partialSig) = Threshold(cmtBooth[i])
                   /\ PenRecovery(h.partialSig, cmtBooth[i])
<1>1. /\ running' = running \ {h}
      /\ sigs' = [sigs EXCEPT ![i] = h.partialSig]
      /\ handled' = [handled EXCEPT ![i] = @ + 1]
      /\ IF full THEN Broadcast("CPB", i, cmtBooth[i], h.validator, {}, msgs)
                 ELSE UNCHANGED <<msgs, broadcastError>>
      /\ UNCHANGED <<logVars, loopVars, memberVars, crashed>>
  BY DEF CPAReplyWrite
<1>2. /\ i \in Instances /\ h.validator \in Validators /\ h.partialSig \in Seq(Validators)
      /\ msgs \subseteq Messages /\ broadcastError \in BOOLEAN
      /\ sigs \in [Instances -> Seq(Validators)]
  BY DEF CInv, TypeOK
<1>3. /\ i \in Started /\ h.validator \in voted[i]
      /\ Range(h.partialSig) \subseteq voted[i]
  BY DEF CInv, HandlerInv
<1>4. cmtBooth[i] \in Booths /\ Threshold(cmtBooth[i]) \in Nat
  <2>1. cmtBooth[i] \in Booths
    BY <1>3, StartedInstances DEF CInv
  <2> QED BY <2>1, ThresholdType, BoothsAssumption
<1>5. full => Cardinality(voted[i]) >= Threshold(cmtBooth[i])
  <2> SUFFICES ASSUME full PROVE Cardinality(voted[i]) >= Threshold(cmtBooth[i])
    OBVIOUS
  <2>1. Cardinality(Range(h.partialSig)) >= Threshold(cmtBooth[i])
    BY DEF PenRecovery
  <2>2. IsFiniteSet(voted[i]) /\ Cardinality(voted[i]) \in Nat
    BY <1>2, VotersFinite DEF CInv
  <2>3. /\ Cardinality(Range(h.partialSig)) <= Cardinality(voted[i])
        /\ Cardinality(Range(h.partialSig)) \in Nat
    BY <1>3, <2>2, FS_Subset, FS_CardinalityType
  <2> QED BY <1>4, <2>1, <2>2, <2>3
<1>6. /\ msgs' \subseteq Messages /\ broadcastError' \in BOOLEAN
      /\ \A m \in msgs' : \/ m \in msgs
                          \/ /\ full /\ m.type = "CPB" /\ m.inst = i
                             /\ m.validator \in Members(cmtBooth[i])
  <2> HIDE DEF i
  <2>1. CASE full
    <3>1. Broadcast("CPB", i, cmtBooth[i], h.validator, {}, msgs)
      BY <1>1, <2>1
    <3>2. h.validator \in Validators \cup {Proposer} /\ "CPB" \in {"CPA", "CPB"}
      BY <1>2
    <3> HIDE DEF full
    <3>3. /\ msgs' \subseteq Messages
          /\ broadcastError' \in BOOLEAN
          /\ \A m \in msgs' : \/ m \in msgs
                              \/ /\ m.type = "CPB" /\ m.inst = i /\ m.by = h.validator
                                 /\ m.validator \in Members(cmtBooth[i])
      BY <1>2, <3>1, <3>2, BroadcastEffect
    <3> QED BY <2>1, <3>3
  <2>2. CASE ~full
    BY <1>1, <1>2, <2>2
  <2> QED BY <2>1, <2>2
<1> HIDE DEF full
<1>7. msgs \subseteq msgs'
  BY <1>1 DEF Broadcast
<1>8. \A j, w : Msg("R-CPA", j, w, w) \in msgs' <=> Msg("R-CPA", j, w, w) \in msgs
  <2>1. \A j, w : Msg("R-CPA", j, w, w).type = "R-CPA"
    BY DEF Msg
  <2> QED BY <1>6, <1>7, <2>1
<1>9. /\ OrderInv' /\ LoopInv' /\ RangeInv' /\ RangesPartition' /\ NewMembersVerify'
      /\ Started' = Started
  BY <1>1 DEF CInv, OrderInv, LoopInv, RangeInv, RangesPartition, NewMembersVerify, Started,
              logVars, loopVars, memberVars
<1>10. MsgInv'
  BY <1>1, <1>3, <1>5, <1>6, <1>9 DEF CInv, MsgInv, loopVars, memberVars
<1>11. HandlerInv'
  BY <1>1, <1>8, <1>9 DEF CInv, HandlerInv, loopVars, memberVars
<1>12. VoteInv'
  <2>1. ASSUME NEW j \in Instances PROVE Range(sigs'[j]) \subseteq voted[j]
    BY <1>1, <1>2, <1>3 DEF CInv, VoteInv
  <2> QED BY <1>1, <1>9, <2>1 DEF CInv, VoteInv, loopVars, memberVars
<1>13. ASSUME NEW j \in Instances
       PROVE  handled'[j] \in Nat /\ handled'[j] + Cardinality(Pending(j)') <= Cardinality(voted[j])
  <2>1. /\ IsFiniteSet(Pending(j)) /\ Cardinality(Pending(j)) \in Nat
        /\ Cardinality(voted[j]) \in Nat
        /\ handled[j] \in Nat /\ handled[j] + Cardinality(Pending(j)) <= Cardinality(voted[j])
    BY VotersFinite DEF CInv, CountInv, TypeOK
  <2>2. CASE j # i
    <3>1. Pending(j)' = Pending(j)
      BY <1>1, <1>8, <2>2 DEF Pending
    <3>2. handled'[j] = handled[j]
      BY <1>1, <2>2 DEF CInv, TypeOK
    <3> QED BY <2>1, <3>1, <3>2
  <2>3. CASE j = i
    <3>1. Msg("R-CPA", i, h.validator, h.validator) \notin msgs
      BY DEF CInv, HandlerInv
    <3>2. \A k \in running : k.inst = i /\ k.validator = h.validator => k = h
      BY DEF CInv, HandlerInv
    <3>3. h.validator \in Pending(i) /\ h.validator \notin Pending(i)'
      BY <1>1, <1>2, <1>8, <3>1, <3>2 DEF Pending
    <3>4. Pending(i)' \subseteq Pending(i) \ {h.validator}
      BY <1>1, <1>8, <3>3 DEF Pending
    <3>5. /\ Cardinality(Pending(i) \ {h.validator}) = Cardinality(Pending(i)) - 1
          /\ IsFiniteSet(Pending(i) \ {h.validator})
      BY <2>1, <2>3, <3>3, FS_RemoveElement
    <3>6. /\ Cardinality(Pending(i)') <= Cardinality(Pending(i)) - 1
          /\ Cardinality(Pending(i)') \in Nat
      BY <3>4, <3>5, FS_Subset, FS_CardinalityType
    <3>7. handled'[i] = handled[i] + 1
      BY <1>1, <1>2 DEF CInv, TypeOK
    <3> QED BY <2>1, <2>3, <3>6, <3>7
  <2> QED BY <2>2, <2>3
<1>14. CountInv'
  BY <1>1, <1>13 DEF CountInv, memberVars
<1>15. handled' \in [Instances -> 0 .. Cardinality(Validators)]
  <2>1. ASSUME NEW j \in Instances PROVE handled'[j] \in 0 .. Cardinality(Validators)
    <3>1. /\ Cardinality(voted[j]) <= Cardinality(Validators)
          /\ Cardinality(voted[j]) \in Nat /\ Cardinality(Validators) \in Nat
      BY VotersFinite DEF CInv
    <3>2. Pending(j)' \subseteq Validators
      BY DEF Pending
    <3>3. Cardinality(Pending(j)') \in Nat
      BY <3>2, FS_Subset, FS_CardinalityType, ServersAssumption
    <3> QED BY <1>13, <3>1, <3>3
  <2> QED BY <1>1, <2>1 DEF CInv, TypeOK
<1>16. TypeOK'
  BY <1>1, <1>2, <1>6, <1>15 DEF CInv, TypeOK, LogTypeOK, logVars, loopVars, memberVars
<1> QED BY <1>9, <1>10, <1>11, <1>12, <1>14, <1>16 DEF CInv

-----------------------------------------------------------------------------
(* Taking over resent entries only adds certificates. *)
LEMMA TakeOverEffect ==
    ASSUME TypeOK, NEW blocks, NEW v \in Validators, TakeOver(blocks, v)
    PROVE  /\ synced' \in [Blocks -> SUBSET Validators]
           /\ certified' \in [Blocks -> SUBSET Validators]
           /\ \A b \in Blocks : certified[b] \subseteq certified'[b]
           /\ \A b \in Blocks : b \in blocks => v \in certified'[b]
BY DEF TakeOver, TypeOK, LogTypeOK

(* More certificates can only help new members. *)
LEMMA MoreCertificates ==
    ASSUME CInv, UNCHANGED <<booth, loopVars, voted>>,
           \A b \in Blocks : certified[b] \subseteq certified'[b]
    PROVE  NewMembersVerify'
<1> SUFFICES ASSUME NEW i \in Started, NEW v \in voted[i], NEW b \in Range(ranges[i]),
                    v \notin booth[b], b \notin unsigned[i]
             PROVE  v \in certified'[b]
  BY DEF NewMembersVerify, Started, loopVars
<1>1. b \in Blocks
  <2>1. b \in Range(vgrec)
    BY DEF CInv, RangeInv
  <2> QED BY <2>1 DEF CInv, TypeOK, LogTypeOK, Range
<1>2. v \in certified[b]
  BY DEF CInv, NewMembersVerify
<1> QED BY <1>1, <1>2

(* A member of the commit booth signs the instance. *)
LEMMA CAEntryCInv ==
    ASSUME CInv, NEW i \in Instances, NEW v \in Validators, CAEntry(i, v)
    PROVE  CInv'
<1> DEFINE entry == Msg("CPA", i, v, Proposer)
           reply == Msg("R-CPA", i, v, v)
<1>1. /\ entry \in msgs
      /\ TakeOver(Verified(i, v), v)
      /\ voted' = [voted EXCEPT ![i] = @ \cup {v}]
      /\ tokens' = [tokens EXCEPT ![i] = @ \cup {v}]
      /\ msgs' \subseteq (msgs \ {entry}) \cup {reply}
      /\ UNCHANGED <<booth, held, vgrec, sealed, loopVars, replyVars,
                     broadcastError, committed, stuck, crashed>>
  BY DEF CAEntry
<1>2. /\ entry.type = "CPA" /\ entry.inst = i /\ entry.validator = v
      /\ reply \in Messages
      /\ reply.type = "R-CPA" /\ reply.inst = i /\ reply.validator = v /\ reply.by = v
  BY MsgType DEF Msg
<1>3. i \in Started /\ v \in Members(cmtBooth[i]) /\ v \notin voted[i]
  BY <1>1, <1>2 DEF CInv, MsgInv
<1>4. \A m \in msgs : m.type = "CPA" /\ m.inst = i /\ m.validator = v => m = entry
  <2>1. \A m \in msgs : m \in Messages
    BY DEF CInv, TypeOK
  <2> QED BY <2>1 DEF CInv, MsgInv, Messages, Msg
<1>5. \A j \in Instances : voted[j] \subseteq voted'[j]
  BY <1>1 DEF CInv, TypeOK
<1>6. /\ voted'[i] = voted[i] \cup {v} /\ tokens'[i] = tokens[i] \cup {v}
      /\ \A j \in Instances : j # i => voted'[j] = voted[j] /\ tokens'[j] = tokens[j]
      /\ voted' \in [Instances -> SUBSET Validators]
      /\ tokens' \in [Instances -> SUBSET Validators]
  BY <1>1 DEF CInv, TypeOK
<1>7. /\ synced' \in [Blocks -> SUBSET Validators]
      /\ certified' \in [Blocks -> SUBSET Validators]
      /\ \A b \in Blocks : certified[b] \subseteq certified'[b]
      /\ \A b \in Blocks : b \in Verified(i, v) => v \in certified'[b]
  BY <1>1, TakeOverEffect DEF CInv
<1> HIDE DEF entry, reply
<1>8. TypeOK'
  BY <1>1, <1>2, <1>6, <1>7 DEF CInv, TypeOK, LogTypeOK, loopVars, replyVars
<1>9. OrderInv' /\ LoopInv' /\ RangeInv' /\ RangesPartition' /\ Started' = Started
  BY <1>1 DEF CInv, OrderInv, LoopInv, RangeInv, RangesPartition, Started, loopVars
<1>10. ASSUME NEW j \in Instances
       PROVE  /\ Cardinality(voted[j]) <= Cardinality(voted'[j])
              /\ Cardinality(voted[j]) \in Nat /\ Cardinality(voted'[j]) \in Nat
  <2>1. IsFiniteSet(voted'[j])
    BY <1>6, FS_Subset, ServersAssumption
  <2> QED BY <1>5, <2>1, FS_Subset, FS_CardinalityType
<1>11. \A j \in Started : Threshold(cmtBooth[j]) \in Nat
  BY StartedInstances, ThresholdType, BoothsAssumption DEF CInv
<1>12. MsgInv'
  <2> SUFFICES ASSUME NEW m \in msgs'
               PROVE  /\ m.inst \in Started
                      /\ m.validator \in Members(cmtBooth[m.inst])
                      /\ m.type = "CPA" => m.by = Proposer /\ m.validator \notin voted'[m.inst]
                      /\ m.type = "R-CPA" => m.by = m.validator /\ m.validator \in voted'[m.inst]
                      /\ m.type = "CPB" => Cardinality(voted'[m.inst]) >= Threshold(cmtBooth[m.inst])
    BY <1>1, <1>9 DEF MsgInv, loopVars
  <2>1. CASE m \in msgs /\ m # entry
    <3>1. /\ m.inst \in Started /\ m.inst \in Instances
          /\ m.validator \in Members(cmtBooth[m.inst])
      BY <2>1 DEF CInv, MsgInv, TypeOK, Messages
    <3>2. m.type = "CPA" => m.by = Proposer /\ m.validator \notin voted'[m.inst]
      BY <1>4, <1>6, <2>1, <3>1 DEF CInv, MsgInv
    <3>3. m.type = "R-CPA" => m.by = m.validator /\ m.validator \in voted'[m.inst]
      BY <1>5, <2>1, <3>1 DEF CInv, MsgInv
    <3>4. m.type = "CPB" => Cardinality(voted'[m.inst]) >= Threshold(cmtBooth[m.inst])
      <4>1. m.type = "CPB" => Cardinality(voted[m.inst]) >= Threshold(cmtBooth[m.inst])
        BY <2>1 DEF CInv, MsgInv
      <4> QED BY <1>10, <1>11, <3>1, <4>1
    <3> QED BY <3>1, <3>2, <3>3, <3>4
  <2>2. CASE m = reply
    BY <1>2, <1>3, <1>6, <2>2
  <2> QED BY <1>1, <2>1, <2>2
<1>13. HandlerInv'
  <2>1. ASSUME NEW h \in running
        PROVE  /\ h.inst \in Started /\ h.validator \in voted'[h.inst]
               /\ Range(h.partialSig) \subseteq voted'[h.inst]
               /\ Msg("R-CPA", h.inst, h.validator, h.validator) \notin msgs'
    <3>1. h.inst \in Instances
      BY DEF CInv, TypeOK
    <3>2. ~(h.inst = i /\ h.validator = v)
      BY <1>3 DEF CInv, HandlerInv
    <3>3. Msg("R-CPA", h.inst, h.validator, h.validator) # reply
      BY <3>2, MsgFields DEF reply
    <3> QED BY <1>1, <1>5, <3>1, <3>3 DEF CInv, HandlerInv
  <2> QED BY <1>1, <1>9, <2>1 DEF CInv, HandlerInv, replyVars
<1>14. VoteInv'
  <2> SUFFICES ASSUME NEW j \in Instances
               PROVE  /\ j \notin Started => voted'[j] = {}
                      /\ j \in Started => voted'[j] \subseteq Members(cmtBooth[j])
                      /\ tokens'[j] \subseteq voted'[j]
                      /\ committed[j] \subseteq voted'[j]
                      /\ Range(sigs[j]) \subseteq voted'[j]
                      /\ committed[j] # {} => Cardinality(voted'[j]) >= Threshold(cmtBooth[j])
    BY <1>1, <1>9 DEF VoteInv, loopVars, replyVars
  <2>1. CASE j # i
    BY <1>6, <2>1 DEF CInv, VoteInv
  <2>2. CASE j = i
    BY <1>3, <1>6, <1>10, <1>11, <2>2 DEF CInv, VoteInv
  <2> QED BY <2>1, <2>2
<1>15. CountInv'
  <2>1. ASSUME NEW j \in Instances
        PROVE  handled[j] + Cardinality(Pending(j)') <= Cardinality(voted'[j])
    <3>1. /\ IsFiniteSet(Pending(j)) /\ Cardinality(Pending(j)) \in Nat
          /\ IsFiniteSet(voted[j]) /\ Cardinality(voted[j]) \in Nat /\ handled[j] \in Nat
          /\ handled[j] + Cardinality(Pending(j)) <= Cardinality(voted[j])
      BY VotersFinite DEF CInv, CountInv, TypeOK
    <3>2. Pending(j)' \subseteq IF j = i THEN Pending(j) \cup {v} ELSE Pending(j)
      BY <1>1, MsgFields DEF Pending, reply, replyVars
    <3>3. CASE j = i
      <4>1. Cardinality(voted'[j]) = Cardinality(voted[j]) + 1
        BY <1>3, <1>6, <3>1, <3>3, FS_AddElement
      <4>2. /\ IsFiniteSet(Pending(j) \cup {v})
            /\ Cardinality(Pending(j) \cup {v}) \in Nat
            /\ Cardinality(Pending(j) \cup {v}) <= Cardinality(Pending(j)) + 1
        <5>1. /\ IsFiniteSet(Pending(j) \cup {v})
              /\ \/ Cardinality(Pending(j) \cup {v}) = Cardinality(Pending(j))
                 \/ Cardinality(Pending(j) \cup {v}) = Cardinality(Pending(j)) + 1
          BY <3>1, FS_AddElement
        <5> QED BY <3>1, <5>1
      <4>3. /\ Cardinality(Pending(j)') <= Cardinality(Pending(j) \cup {v})
            /\ Cardinality(Pending(j)') \in Nat
        BY <3>2, <3>3, <4>2, FS_Subset, FS_CardinalityType
      <4> QED BY <3>1, <4>1, <4>2, <4>3
    <3>4. CASE j # i
      <4>1. /\ Cardinality(Pending(j)') <= Cardinality(Pending(j))
            /\ Cardinality(Pending(j)') \in Nat
        BY <3>1, <3>2, <3>4, FS_Subset, FS_CardinalityType
      <4> QED BY <1>6, <3>1, <3>4, <4>1
    <3> QED BY <3>3, <3>4
  <2> QED BY <1>1, <2>1 DEF CountInv, replyVars
<1>16. NewMembersVerify'
  <2> SUFFICES ASSUME NEW j \in Started, NEW w \in voted'[j], NEW b \in Range(ranges[j]),
                      w \notin booth[b], b \notin unsigned[j]
               PROVE  w \in certified'[b]
    BY <1>1, <1>9 DEF NewMembersVerify, loopVars
  <2>1. b \in Blocks
    <3>1. b \in Range(vgrec)
      BY DEF CInv, RangeInv
    <3> QED BY <3>1 DEF CInv, TypeOK, LogTypeOK, Range
  <2>2. j \in Instances
    BY StartedInstances DEF CInv
  <2>3. CASE w \in voted[j]
    BY <1>7, <2>1, <2>3 DEF CInv, NewMembersVerify
  <2>4. CASE w \notin voted[j]
    <3>1. j = i /\ w = v
      BY <1>6, <2>2, <2>4
    <3>2. v \in cmtBooth[i]
      BY <1>3 DEF Members
    <3>3. b \in Verified(i, v)
      BY <3>1, <3>2 DEF Verified, NewMembers, Resent
    <3> QED BY <1>7, <2>1, <3>1, <3>3
  <2> QED BY <2>3, <2>4
<1> QED BY <1>8, <1>9, <1>12, <1>13, <1>14, <1>15, <1>16 DEF CInv

(* The same member, when it waits for its own OA handler instead: it takes *)
(* over some entries and does not sign.                                    *)
LEMMA CAStuckCInv ==
    ASSUME CInv, NEW i \in Instances, NEW v \in Validators, CAStuck(i, v)
    PROVE  CInv'
<1>1. /\ msgs' \subseteq msgs
      /\ \A m \in msgs : m.type = "R-CPA" => m \in msgs'
      /\ stuck' \subseteq stuck \cup {v} /\ crashed' \subseteq crashed \cup {v}
      /\ \E blocks : TakeOver(blocks, v)
      /\ UNCHANGED <<booth, held, vgrec, sealed, loopVars, replyVars,
                     broadcastError, voted, tokens, committed>>
  BY DEF CAStuck, WaitOrPanic, Msg
<1>2. /\ synced' \in [Blocks -> SUBSET Validators]
      /\ certified' \in [Blocks -> SUBSET Validators]
      /\ \A b \in Blocks : certified[b] \subseteq certified'[b]
  BY <1>1, TakeOverEffect DEF CInv
<1>3. TypeOK'
  BY <1>1, <1>2 DEF CInv, TypeOK, LogTypeOK, loopVars, replyVars
<1>4. OrderInv' /\ LoopInv' /\ RangeInv' /\ RangesPartition' /\ Started' = Started
  BY <1>1 DEF CInv, OrderInv, LoopInv, RangeInv, RangesPartition, Started, loopVars
<1>5. \A j, w : Msg("R-CPA", j, w, w) \in msgs' <=> Msg("R-CPA", j, w, w) \in msgs
  <2>1. \A j, w : Msg("R-CPA", j, w, w).type = "R-CPA"
    BY DEF Msg
  <2> QED BY <1>1, <2>1
<1>6. MsgInv'
  BY <1>1, <1>4 DEF CInv, MsgInv, loopVars
<1>7. HandlerInv'
  BY <1>1, <1>4, <1>5 DEF CInv, HandlerInv, replyVars
<1>8. VoteInv'
  BY <1>1, <1>4 DEF CInv, VoteInv, loopVars, replyVars
<1>9. CountInv'
  BY <1>1, <1>5 DEF CInv, CountInv, Pending, replyVars
<1>10. NewMembersVerify'
  BY <1>1, <1>2, MoreCertificates
<1> QED BY <1>3, <1>4, <1>6, <1>7, <1>8, <1>9, <1>10 DEF CInv

(* A CPB is only about a threshold of signers, and its receiver takes the  *)
(* token that only its own signing left.                                   *)
LEMMA CBEntryCInv ==
    ASSUME CInv, NEW i \in Instances, NEW v \in Validators, NEW by \in Validators,
           CBEntry(i, v, by)
    PROVE  CInv'
<1> DEFINE cpb == Msg("CPB", i, v, by)
<1>1. /\ cpb \in msgs /\ v \in tokens[i]
      /\ msgs' = msgs \ {cpb}
      /\ tokens' = [tokens EXCEPT ![i] = @ \ {v}]
      /\ committed' = [committed EXCEPT ![i] = @ \cup {v}]
      /\ UNCHANGED <<logVars, loopVars, replyVars, broadcastError, synced,
                     voted, stuck, crashed>>
  BY DEF CBEntry, PriorJobDone
<1>2. cpb.type = "CPB" /\ cpb.inst = i
  BY DEF Msg
<1>3. v \in voted[i] /\ Cardinality(voted[i]) >= Threshold(cmtBooth[i])
  BY <1>1, <1>2 DEF CInv, MsgInv, VoteInv
<1>4. /\ committed'[i] = committed[i] \cup {v} /\ tokens'[i] \subseteq tokens[i]
      /\ \A j \in Instances : j # i => committed'[j] = committed[j] /\ tokens'[j] = tokens[j]
      /\ committed' \in [Instances -> SUBSET Validators]
      /\ tokens' \in [Instances -> SUBSET Validators]
  BY <1>1 DEF CInv, TypeOK
<1> HIDE DEF cpb
<1>5. TypeOK'
  BY <1>1, <1>4 DEF CInv, TypeOK, LogTypeOK, logVars, loopVars, replyVars
<1>6. /\ OrderInv' /\ LoopInv' /\ RangeInv' /\ RangesPartition' /\ NewMembersVerify'
      /\ Started' = Started
  BY <1>1 DEF CInv, OrderInv, LoopInv, RangeInv, RangesPartition, NewMembersVerify, Started,
              logVars, loopVars
<1>7. \A j, w : Msg("R-CPA", j, w, w) \in msgs' <=> Msg("R-CPA", j, w, w) \in msgs
  <2>1. \A j, w : Msg("R-CPA", j, w, w).type = "R-CPA"
    BY DEF Msg
  <2> QED BY <1>1, <1>2, <2>1
<1>8. MsgInv'
  BY <1>1, <1>6 DEF CInv, MsgInv, loopVars
<1>9. HandlerInv'
  BY <1>1, <1>6, <1>7 DEF CInv, HandlerInv, replyVars
<1>10. VoteInv'
  <2> SUFFICES ASSUME NEW j \in Instances
               PROVE  /\ j \notin Started => voted[j] = {}
                      /\ j \in Started => voted[j] \subseteq Members(cmtBooth[j])
                      /\ tokens'[j] \subseteq voted[j]
                      /\ committed'[j] \subseteq voted[j]
                      /\ Range(sigs[j]) \subseteq voted[j]
                      /\ committed'[j] # {} => Cardinality(voted[j]) >= Threshold(cmtBooth[j])
    BY <1>1, <1>6 DEF VoteInv, loopVars, replyVars
  <2>1. CASE j # i
    BY <1>4, <2>1 DEF CInv, VoteInv
  <2>2. CASE j = i
    BY <1>3, <1>4, <2>2 DEF CInv, VoteInv
  <2> QED BY <2>1, <2>2
<1>11. CountInv'
  BY <1>1, <1>7 DEF CInv, CountInv, Pending, replyVars
<1> QED BY <1>5, <1>6, <1>8, <1>9, <1>10, <1>11 DEF CInv

-----------------------------------------------------------------------------
LEMMA NextCInv == CInv /\ [Next]_vars => CInv'
<1> SUFFICES ASSUME CInv, [Next]_vars PROVE CInv'
  OBVIOUS
<1>1. CASE OrderingStep
  BY <1>1, OrderingCInv
<1>2. ASSUME NEW B \in Booths, StartInstance(B) PROVE CInv'
  BY <1>2, StartCInv
<1>3. CASE FallAsleep \/ WakeUp
  BY <1>3, LoopCInv
<1>4. ASSUME NEW i \in Instances, NEW v \in Validators, ReplyStep(i, v) PROVE CInv'
  BY <1>4, ReadCInv, WriteCInv DEF ReplyStep
<1>5. ASSUME NEW i \in Instances, NEW v \in Validators, MemberStep(i, v) PROVE CInv'
  BY <1>5, CAEntryCInv, CBEntryCInv DEF MemberStep
<1>6. ASSUME NEW i \in Instances, NEW v \in Validators, CAStuck(i, v) PROVE CInv'
  BY <1>6, CAStuckCInv
<1>7. ASSUME NEW v \in Validators, OBStuck(v) \/ Crash(v) PROVE CInv'
  BY <1>7, ProcessCInv
<1>8. CASE ConnectionClosed
  <2>1. \E v : v \in Validators
    BY <1>8 DEF ConnectionClosed, CInv, TypeOK
  <2> QED BY <1>8, <2>1, ProcessCInv
<1>9. CASE UNCHANGED vars
  <2>1. UNCHANGED <<logVars, loopVars, replyVars, broadcastError, msgs, synced, voted,
                    tokens, committed, stuck, crashed>>
    BY <1>9 DEF vars, consVars, memberVars
  <2>2. TypeOK' /\ LoopInv'
    BY <2>1 DEF CInv, TypeOK, LogTypeOK, LoopInv, logVars, loopVars, replyVars
  <2> QED BY <2>1, <2>2, QuietCInv DEF CInv, loopVars
<1> QED BY <1>1, <1>2, <1>3, <1>4, <1>5, <1>6, <1>7, <1>8, <1>9 DEF Next

(* The inductive invariant holds in every reachable state. *)
LEMMA CInvAlways == Spec => []CInv
<1>1. CInv /\ [Next]_vars => CInv'
  BY NextCInv
<1> QED BY InitCInv, <1>1, PTL DEF Spec

-----------------------------------------------------------------------------
(* What the ordering phase guarantees of a block: only members of its booth *)
(* have stored it, and a threshold of them when it is in the log.  The      *)
(* consensus phase leaves that alone.                                       *)
HoldInv ==
    \A b \in Blocks :
        /\ booth[b] = NoBooth => held[b] = {}
        /\ booth[b] # NoBooth => held[b] \subseteq Members(booth[b])
        /\ b \in Range(vgrec) => Cardinality(held[b]) >= Threshold(booth[b])

(* A booth is a set of servers, and any number of them is a number. *)
LEMMA HolderCount ==
    ASSUME LogTypeOK, NEW b \in Blocks, booth[b] # NoBooth
    PROVE  /\ IsBooth(booth[b])
           /\ Threshold(booth[b]) \in Nat
           /\ \A Q \in SUBSET Validators : IsFiniteSet(Q) /\ Cardinality(Q) \in Nat
<1>1. booth[b] \in Booths
  BY DEF LogTypeOK
<1>2. IsBooth(booth[b])
  BY <1>1, BoothsAssumption
<1>3. \A Q \in SUBSET Validators : IsFiniteSet(Q) /\ Cardinality(Q) \in Nat
  BY FS_Subset, FS_CardinalityType, ServersAssumption
<1> QED BY <1>2, <1>3, ThresholdType

(* A block is proposed before it is stored, and stored by a threshold      *)
(* before it is ordered; no later step takes a holder away.                *)
LEMMA LogHoldInv ==
    ASSUME LogTypeOK, OrderInv, HoldInv, LogNext
    PROVE  HoldInv'
<1>1. ASSUME NEW b \in Blocks, NEW B \in Booths, Propose(b, B)
      PROVE  HoldInv'
  <2>1. /\ booth[b] = NoBooth /\ held' = held /\ vgrec' = vgrec
        /\ booth'[b] = B /\ \A c \in Blocks : c # b => booth'[c] = booth[c]
    BY <1>1 DEF Propose, LogTypeOK
  <2>2. held[b] = {} /\ b \notin Range(vgrec) /\ B # NoBooth
    BY <2>1, NoBoothAssumption DEF HoldInv, OrderInv
  <2> QED BY <2>1, <2>2 DEF HoldInv
<1>2. ASSUME NEW b \in Blocks, NEW v \in Validators, Hold(b, v)
      PROVE  HoldInv'
  <2>1. /\ booth[b] # NoBooth /\ v \in Members(booth[b]) /\ v \notin held[b]
        /\ booth' = booth /\ vgrec' = vgrec
        /\ held'[b] = held[b] \cup {v}
        /\ \A c \in Blocks : c # b => held'[c] = held[c]
    BY <1>2 DEF Hold, LogTypeOK
  <2>2. held[b] \in SUBSET Validators /\ Threshold(booth[b]) \in Nat
    BY <2>1, HolderCount DEF LogTypeOK
  <2>3. IsFiniteSet(held[b]) /\ Cardinality(held[b]) \in Nat
    BY <2>1, <2>2, HolderCount
  <2>4. Cardinality(held'[b]) = Cardinality(held[b]) + 1
    BY <2>1, <2>3, FS_AddElement
  <2>5. b \in Range(vgrec) => Cardinality(held'[b]) >= Threshold(booth[b])
    BY <2>2, <2>3, <2>4 DEF HoldInv
  <2> QED BY <2>1, <2>5 DEF HoldInv
<1>3. ASSUME NEW b \in Blocks, Order(b)
      PROVE  HoldInv'
  <2>1. /\ Cardinality(held[b]) >= Threshold(booth[b])
        /\ vgrec' = Append(vgrec, b) /\ booth' = booth /\ held' = held
    BY <1>3 DEF Order
  <2>2. Range(vgrec') = Range(vgrec) \cup {b}
    BY <2>1, RangeAppend DEF LogTypeOK
  <2> QED BY <2>1, <2>2 DEF HoldInv
<1>4. ASSUME NEW b \in Blocks, NEW v \in Validators, Certify(b, v)
      PROVE  HoldInv'
  BY <1>4 DEF Certify, HoldInv
<1>5. ASSUME NEW b \in Blocks, Seal(b)
      PROVE  HoldInv'
  BY <1>5 DEF Seal, HoldInv
<1> QED BY <1>1, <1>2, <1>3, <1>4, <1>5 DEF LogNext

(* Only the ordering phase stores and orders blocks. *)
LEMMA NextHoldInv == CInv /\ HoldInv /\ [Next]_vars => HoldInv'
<1> SUFFICES ASSUME CInv, HoldInv, [Next]_vars PROVE HoldInv'
  OBVIOUS
<1>1. CASE OrderingStep
  BY <1>1, LogHoldInv DEF OrderingStep, CInv, TypeOK
<1>2. CASE UNCHANGED <<booth, held, vgrec>>
  BY <1>2 DEF HoldInv
<1>3. ASSUME ~OrderingStep
      PROVE  UNCHANGED <<booth, held, vgrec>>
  <2>1. ASSUME NEW B \in Booths, StartInstance(B) PROVE UNCHANGED <<booth, held, vgrec>>
    BY <2>1 DEF StartInstance, logVars
  <2>2. CASE FallAsleep \/ WakeUp \/ ConnectionClosed
    BY <2>2 DEF FallAsleep, WakeUp, ConnectionClosed, logVars
  <2>3. ASSUME NEW i \in Instances, NEW v \in Validators, ReplyStep(i, v)
        PROVE  UNCHANGED <<booth, held, vgrec>>
    BY <2>3 DEF ReplyStep, CPAReplyRead, CPAReplyWrite, logVars
  <2>4. ASSUME NEW i \in Instances, NEW v \in Validators, MemberStep(i, v) \/ CAStuck(i, v)
        PROVE  UNCHANGED <<booth, held, vgrec>>
    BY <2>4 DEF MemberStep, CAEntry, CBEntry, CAStuck, logVars
  <2>5. ASSUME NEW v \in Validators, OBStuck(v) \/ Crash(v)
        PROVE  UNCHANGED <<booth, held, vgrec>>
    BY <2>5 DEF OBStuck, Crash, logVars
  <2>6. CASE UNCHANGED vars
    BY <2>6 DEF vars, logVars
  <2> QED BY <1>3, <2>1, <2>2, <2>3, <2>4, <2>5, <2>6 DEF Next
<1> QED BY <1>1, <1>2, <1>3

-----------------------------------------------------------------------------
(* The proposer's loop and the handlers keep their state in its types; in  *)
(* particular no handler is counted twice, and the loop ends on the poll   *)
(* at which waited reaches ConsWaitingSec.                                 *)
THEOREM ConsensusTypeCorrect == Spec => []TypeOK
<1>1. CInv => TypeOK
  BY DEF CInv
<1> QED BY CInvAlways, <1>1, PTL

(* What a validator commits was signed by itself and by a threshold of the *)
(* members of the commit booth, whichever shares the handlers of           *)
(* asyncHandleCPAReply have overwritten.                                   *)
THEOREM CommitsAreBacked == Spec => []CommitBacked
<1>1. CInv => CommitBacked
  <2> SUFFICES ASSUME CInv, NEW i \in Instances, NEW v \in committed[i]
               PROVE  /\ i \in Started
                      /\ v \in voted[i] \cap Members(cmtBooth[i])
                      /\ Cardinality(voted[i] \cap Members(cmtBooth[i]))
                             >= Threshold(cmtBooth[i])
    BY DEF CommitBacked
  <2>1. v \in voted[i] /\ Cardinality(voted[i]) >= Threshold(cmtBooth[i])
    BY DEF CInv, VoteInv
  <2>2. i \in Started /\ voted[i] \subseteq Members(cmtBooth[i])
    BY <2>1 DEF CInv, VoteInv
  <2>3. voted[i] \cap Members(cmtBooth[i]) = voted[i]
    BY <2>2
  <2> QED BY <2>1, <2>2, <2>3
<1> QED BY CInvAlways, <1>1, PTL

(* The two phases of one booth meet: whoever misses a block, or signs for   *)
(* it without having it, a committed instance has a signer that stored each *)
(* block ordered in the same booth, unless the booth has five servers.      *)
THEOREM CommitsAreHeld == Spec => []CommitHeldByVoter
<1>1. Init => HoldInv
  BY EmptySlices DEF Init, LogInit, HoldInv
<1>2. CInv /\ HoldInv /\ [Next]_vars => HoldInv'
  BY NextHoldInv
<1>3. CInv /\ HoldInv => CommitHeldByVoter
  <2> SUFFICES ASSUME CInv, HoldInv, NEW i \in Started, committed[i] # {},
                      Cardinality(cmtBooth[i]) # 5,
                      NEW b \in Range(ranges[i]), booth[b] = cmtBooth[i]
               PROVE  held[b] \cap voted[i] # {}
    BY DEF CommitHeldByVoter
  <2>1. i \in Instances /\ cmtBooth[i] \in Booths
    BY StartedInstances DEF CInv
  <2>2. /\ voted[i] \in SUBSET Members(cmtBooth[i])
        /\ Cardinality(voted[i]) >= Threshold(cmtBooth[i])
    BY <2>1 DEF CInv, VoteInv
  <2>3. b \in Range(vgrec)
    BY DEF CInv, RangeInv
  <2>4. b \in Blocks
    BY <2>3 DEF CInv, TypeOK, LogTypeOK, Range
  <2>5. /\ held[b] \in SUBSET Members(cmtBooth[i])
        /\ Cardinality(held[b]) >= Threshold(cmtBooth[i])
    BY <2>1, <2>3, <2>4, NoBoothAssumption DEF HoldInv
  <2> QED BY <2>1, <2>2, <2>5, BoothsAssumption, QuorumsIntersect
<1> QED BY CInvAlways, <1>1, <1>2, <1>3, PTL DEF Spec

(* GetIDRange puts every ordered block into exactly one instance, in log   *)
(* order, while Add runs.                                                  *)
THEOREM EveryBlockInOneInstance == Spec => []RangesPartition
<1>1. CInv => RangesPartition
  BY DEF CInv
<1> QED BY CInvAlways, <1>1, PTL

(* A new member of the commit booth signs only after it has verified the   *)
(* threshold signature of every block it did not take part in ordering,    *)
(* unless that was resent without one.                                     *)
THEOREM NewMembersHaveVerified == Spec => []NewMembersVerify
<1>1. CInv => NewMembersVerify
  BY DEF CInv
<1> QED BY CInvAlways, <1>1, PTL

-----------------------------------------------------------------------------
(* Why an instance that stays uncommitted has lost a vote.  On a network   *)
(* that reaches every member and answers in time, as long as no process    *)
(* has ended, every member is asked, and every signer's reply is counted   *)
(* or under way until the instance's CPB was sent.                         *)

Reliable == Validators \subseteq Registered /\ ~EvaluateComPossibilityFlag /\ TimelyNetwork

(* The members that still answer are enough. *)
VotersLeft(i) == Cardinality(Members(cmtBooth[i]) \ stuck) >= Threshold(cmtBooth[i])

(* A slice of shares, and a handler's copy of it, holds no signer twice and *)
(* none whose share is still to be written, but the handler's own; it is    *)
(* never longer than the threshold.                                         *)
ShareInv ==
    /\ \A i \in Instances : /\ IsInjective(sigs[i])
                            /\ Range(sigs[i]) \cap Pending(i) = {}
    /\ \A i \in Started : Len(sigs[i]) <= Threshold(cmtBooth[i])
    /\ \A h \in running : /\ IsInjective(h.partialSig)
                          /\ Range(h.partialSig) \cap Pending(h.inst) \subseteq {h.validator}
                          /\ Len(h.partialSig) <= Threshold(cmtBooth[h.inst])

(* Whoever is not stuck has signed or will get the entry. *)
AskedInv ==
    \A i \in Started : \A v \in Members(cmtBooth[i]) :
        Msg("CPA", i, v, Proposer) \in msgs \/ v \in voted[i] \cup stuck

(* Until the CPB is sent the shares are too few, and nobody's is forgotten *)
(* in the count.                                                           *)
Counted(i) == handled[i] + Cardinality(Pending(i)) = Cardinality(voted[i])

AnsweredInv ==
    \A i \in Started : \/ CPBSent(i)
                       \/ Len(sigs[i]) # Threshold(cmtBooth[i]) /\ Counted(i)

AliveInv == /\ ~broadcastError
            /\ AskedInv
            /\ AnsweredInv
            /\ pc = "done" => Quiet

RepliesInv == ShareInv /\ (crashed = {} => AliveInv)

-----------------------------------------------------------------------------
LEMMA PendingVoted == ASSUME CInv, NEW i \in Instances PROVE Pending(i) \subseteq voted[i]
<1> SUFFICES ASSUME NEW v \in Pending(i) PROVE v \in voted[i]
  OBVIOUS
<1>1. CASE Msg("R-CPA", i, v, v) \in msgs
  <2>1. /\ Msg("R-CPA", i, v, v).type = "R-CPA" /\ Msg("R-CPA", i, v, v).inst = i
        /\ Msg("R-CPA", i, v, v).validator = v
    BY DEF Msg
  <2> QED BY <1>1, <2>1 DEF CInv, MsgInv
<1>2. CASE \E h \in running : h.inst = i /\ h.validator = v
  BY <1>2 DEF CInv, HandlerInv
<1> QED BY <1>1, <1>2 DEF Pending

(* Nobody is missed, and no write fails while every process runs. *)
LEMMA BroadcastReachesAll ==
    ASSUME Reliable, ~broadcastError, crashed = {}, NEW B, Members(B) \subseteq Validators,
           NEW type, NEW i, NEW by, NEW newMembers, NEW sent,
           Broadcast(type, i, B, by, newMembers, sent)
    PROVE  /\ msgs' = sent \cup {Msg(type, i, v, by) : v \in Members(B)}
           /\ ~broadcastError'
<1>1. PICK to \in SUBSET Validators, failed \in BOOLEAN :
          /\ Reached(B, to)
          /\ failed => WriteFails(to, newMembers, crashed)
          /\ msgs' = sent \cup {Msg(type, i, v, by) : v \in to}
          /\ broadcastError' = failed
  BY DEF Broadcast
<1>2. to = Members(B)
  BY <1>1 DEF Reached, Reliable
<1>3. ~failed
  BY <1>1 DEF WriteFails
<1> QED BY <1>1, <1>2, <1>3

(* Processes do not come back. *)
LEMMA NobodyRevived == ASSUME CInv, [Next]_vars PROVE crashed \subseteq crashed'
<1>1. crashed \subseteq Validators
  BY DEF CInv, TypeOK
<1>2. CASE OrderingStep
  BY <1>2 DEF OrderingStep, consVars
<1>3. ASSUME NEW B \in Booths, StartInstance(B) PROVE crashed' = crashed
  BY <1>3 DEF StartInstance
<1>4. CASE FallAsleep \/ WakeUp
  BY <1>4 DEF FallAsleep, WakeUp
<1>5. ASSUME NEW i \in Instances, NEW v \in Validators, ReplyStep(i, v) PROVE crashed' = crashed
  BY <1>5 DEF ReplyStep, CPAReplyRead, CPAReplyWrite
<1>6. ASSUME NEW i \in Instances, NEW v \in Validators, MemberStep(i, v) PROVE crashed' = crashed
  BY <1>6 DEF MemberStep, CAEntry, CBEntry
<1>7. ASSUME NEW i \in Instances, NEW v \in Validators, CAStuck(i, v) PROVE crashed \subseteq crashed'
  BY <1>7 DEF CAStuck, WaitOrPanic
<1>8. ASSUME NEW v \in Validators, OBStuck(v) \/ Crash(v) PROVE crashed \subseteq crashed'
  BY <1>8 DEF OBStuck, WaitOrPanic, Crash
<1>9. CASE ConnectionClosed
  BY <1>1, <1>9 DEF ConnectionClosed
<1>10. CASE UNCHANGED vars
  BY <1>10 DEF vars, consVars
<1> QED BY <1>2, <1>3, <1>4, <1>5, <1>6, <1>7, <1>8, <1>9, <1>10 DEF Next

(* A CPB that was sent stays sent, or has been acted upon. *)
LEMMA CPBStays ==
    ASSUME NEW i \in Instances, CPBSent(i),
           committed[i] \subseteq committed'[i],
           \A m \in msgs : m.type = "CPB" /\ m.inst = i => m \in msgs' \/ committed'[i] # {}
    PROVE  CPBSent(i)'
BY DEF CPBSent

(* Steps that write no share and send no reply. *)
LEMMA NoReplyShares ==
    ASSUME CInv, ShareInv, UNCHANGED <<ranges, cmtBooth, sigs, running>>,
           \A i \in Instances, v \in Validators :
              Msg("R-CPA", i, v, v) \in msgs' => Msg("R-CPA", i, v, v) \in msgs
    PROVE  ShareInv'
<1>1. \A i \in Instances : Pending(i)' \subseteq Pending(i)
  BY DEF Pending
<1>2. Started' = Started
  BY DEF Started
<1>3. \A h \in running : h.inst \in Instances
  BY DEF CInv, TypeOK
<1> QED BY <1>1, <1>2, <1>3 DEF ShareInv

LEMMA NoReplyAlive ==
    ASSUME CInv, AliveInv, crashed = {}, crashed' = {},
           UNCHANGED <<ranges, cmtBooth, sigs, running, handled, voted, broadcastError>>,
           stuck \subseteq stuck',
           msgs' \subseteq msgs,
           \A m \in msgs : \/ m \in msgs'
                           \/ m.type = "CPA" /\ m.validator \in stuck'
                           \/ m.type = "CPB" /\ committed'[m.inst] # {},
           \A i \in Instances : committed[i] \subseteq committed'[i],
           pc' = "done" => pc = "done" \/ Quiet
    PROVE  AliveInv'
<1>1. Started' = Started /\ Started \subseteq Instances
  BY StartedInstances DEF Started, CInv
<1>2. AskedInv'
  <2> SUFFICES ASSUME NEW i \in Started, NEW v \in Members(cmtBooth[i])
               PROVE  Msg("CPA", i, v, Proposer) \in msgs' \/ v \in voted[i] \cup stuck'
    BY <1>1 DEF AskedInv
  <2>1. Msg("CPA", i, v, Proposer) \in msgs \/ v \in voted[i] \cup stuck
    BY DEF AliveInv, AskedInv
  <2>2. Msg("CPA", i, v, Proposer).type = "CPA" /\ Msg("CPA", i, v, Proposer).validator = v
    BY DEF Msg
  <2> QED BY <2>1, <2>2
<1>3. ASSUME NEW i \in Instances PROVE Pending(i)' = Pending(i)
  <2>1. \A v : Msg("R-CPA", i, v, v).type = "R-CPA"
    BY DEF Msg
  <2>2. \A v : Msg("R-CPA", i, v, v) \in msgs' <=> Msg("R-CPA", i, v, v) \in msgs
    BY <2>1
  <2> QED BY <2>2 DEF Pending
<1>4. ASSUME NEW i \in Started, CPBSent(i) PROVE CPBSent(i)'
  BY <1>1, <1>4, CPBStays
<1>5. AnsweredInv'
  <2> SUFFICES ASSUME NEW i \in Started
               PROVE  CPBSent(i)' \/ (Len(sigs[i]) # Threshold(cmtBooth[i]) /\ Counted(i)')
    BY <1>1 DEF AnsweredInv
  <2>1. CPBSent(i) \/ (Len(sigs[i]) # Threshold(cmtBooth[i]) /\ Counted(i))
    BY DEF AliveInv, AnsweredInv
  <2>2. Counted(i) => Counted(i)'
    BY <1>1, <1>3 DEF Counted
  <2> QED BY <1>4, <2>1, <2>2
<1>6. pc' = "done" => Quiet'
  <2>1. Quiet => Quiet'
    BY DEF Quiet
  <2> QED BY <2>1 DEF AliveInv
<1> QED BY <1>2, <1>5, <1>6 DEF AliveInv

-----------------------------------------------------------------------------
LEMMA InitReplies == Init => RepliesInv
<1> SUFFICES ASSUME Init PROVE RepliesInv
  OBVIOUS
<1>1. Started = {}
  BY DEF Init, Started
<1>2. \A i \in Instances : sigs[i] = << >> /\ Range(sigs[i]) = {} /\ IsInjective(sigs[i])
  BY EmptySlices DEF Init
<1>3. running = {} /\ pc # "done" /\ ~broadcastError
  BY DEF Init
<1> QED BY <1>1, <1>2, <1>3 DEF RepliesInv, ShareInv, AliveInv, AskedInv, AnsweredInv

(* A new instance: every member is asked, nobody has answered. *)
LEMMA StartReplies ==
    ASSUME Reliable, CInv, RepliesInv, NEW B \in Booths, StartInstance(B)
    PROVE  RepliesInv'
<1> PICK i : i = Len(ranges) + 1
  OBVIOUS
<1>1. /\ pc = "poll" /\ pc' = pc
      /\ Len(ranges) \in Nat /\ Len(cmtBooth) = Len(ranges)
      /\ cmtBooth \in Seq(Booths) /\ cmtBooth' = Append(cmtBooth, B)
      /\ Len(ranges') = i
      /\ UNCHANGED <<sigs, running, handled, voted, committed, stuck, crashed>>
  BY DEF StartInstance, CInv, TypeOK, LoopInv, replyVars, memberVars
<1>2. PICK newMembers : Broadcast("CPA", i, B, Proposer, newMembers, msgs)
  BY DEF StartInstance
<1>3. i \in Nat /\ cmtBooth'[i] = B /\ \A j \in Started : cmtBooth'[j] = cmtBooth[j]
  BY <1>1 DEF Started
<1>4. Started' = Started \cup {i} /\ i \notin Started
  <2>1. Started' = 1 .. i /\ Started = 1 .. Len(ranges)
    BY <1>1 DEF Started
  <2>2. 1 .. i = (1 .. Len(ranges)) \cup {i} /\ i \notin 1 .. Len(ranges)
    BY <1>1
  <2> QED BY <2>1, <2>2
<1>5. i \in Instances /\ Started \subseteq Instances
  <2>1. /\ vgrec \in Seq(Blocks) /\ Len(vgrec) \in 0 .. MaxBlocks
        /\ lastIdx \in Nat /\ lastIdx <= Len(vgrec) /\ Len(ranges) <= lastIdx
    BY LogBounded DEF CInv, TypeOK, LogTypeOK, LoopInv
  <2>2. SubSeq(vgrec, lastIdx + 1, Len(vgrec)) # << >>
    BY DEF StartInstance, GetIDRange
  <2>3. lastIdx < Len(vgrec)
    BY <2>1, <2>2
  <2> QED BY <1>1, <2>1, <2>3, StartedInstances, MaxBlocksAssumption DEF CInv, Instances
<1>6. Members(B) \subseteq Validators /\ Threshold(B) \in Nat /\ Threshold(B) >= 2
  BY BoothsAssumption, ThresholdType DEF IsBooth
<1>7. /\ voted[i] = {} /\ Pending(i) = {} /\ sigs[i] \in Seq(Validators) /\ Len(sigs[i]) = 0
      /\ handled[i] = 0 /\ Cardinality({}) = 0
  <2>1. voted[i] = {} /\ Range(sigs[i]) = {}
    BY <1>4, <1>5 DEF CInv, VoteInv
  <2>2. Pending(i) = {}
    BY <1>5, <2>1, PendingVoted
  <2>3. sigs[i] \in Seq(Validators)
    BY <1>5 DEF CInv, TypeOK
  <2>4. Len(sigs[i]) = 0
    <3>1. DOMAIN sigs[i] = 1 .. Len(sigs[i]) /\ Len(sigs[i]) \in Nat
      BY <2>3
    <3>2. \A n \in DOMAIN sigs[i] : sigs[i][n] \in Range(sigs[i])
      BY DEF Range
    <3>3. 1 \notin 1 .. Len(sigs[i])
      BY <2>1, <3>1, <3>2
    <3> QED BY <3>1, <3>3
  <2>5. handled[i] \in Nat /\ handled[i] + Cardinality(Pending(i)) <= Cardinality(voted[i])
    BY <1>5, VotersFinite DEF CInv, TypeOK, CountInv
  <2>6. Cardinality({}) = 0
    BY FS_EmptySet
  <2>7. Cardinality(voted[i]) = 0 /\ Cardinality(Pending(i)) = 0
    BY <2>1, <2>2, <2>6, Zenon
  <2>8. handled[i] = 0
    BY <2>5, <2>7
  <2> QED BY <2>1, <2>2, <2>3, <2>4, <2>6, <2>8
<1>8. /\ msgs \subseteq msgs'
      /\ \A m \in msgs' : m \in msgs \/ m.type = "CPA"
  <2>1. msgs \subseteq Messages /\ broadcastError \in BOOLEAN
    BY DEF CInv, TypeOK
  <2>2. \A m \in msgs' : m \in msgs \/ m.type = "CPA"
    BY <1>2, <1>5, <2>1, BroadcastEffect
  <2>3. msgs \subseteq msgs'
    BY <1>2 DEF Broadcast
  <2> QED BY <2>2, <2>3
<1>9. \A j \in Instances : Pending(j)' = Pending(j)
  <2>1. \A j, v : Msg("R-CPA", j, v, v).type = "R-CPA"
    BY DEF Msg
  <2>2. \A j, v : Msg("R-CPA", j, v, v) \in msgs' <=> Msg("R-CPA", j, v, v) \in msgs
    BY <1>8, <2>1
  <2> QED BY <1>1, <2>2 DEF Pending
<1>10. ShareInv'
  <2>1. \A j \in Started' : Len(sigs[j]) <= Threshold(cmtBooth'[j])
    BY <1>3, <1>4, <1>6, <1>7 DEF RepliesInv, ShareInv
  <2>2. \A h \in running : h.inst \in Instances /\ h.inst \in Started
    BY DEF CInv, TypeOK, HandlerInv
  <2> QED BY <1>1, <1>3, <1>9, <2>1, <2>2 DEF RepliesInv, ShareInv
<1>11. ASSUME crashed = {} PROVE AliveInv'
  <2>1. AliveInv
    BY <1>11 DEF RepliesInv
  <2>2. ~broadcastError' /\ msgs' = msgs \cup {Msg("CPA", i, v, Proposer) : v \in Members(B)}
    <3>1. ~broadcastError
      BY <2>1 DEF AliveInv
    <3> QED BY <1>2, <1>6, <1>11, <3>1, BroadcastReachesAll
  <2>3. AskedInv'
    <3> SUFFICES ASSUME NEW j \in Started', NEW v \in Members(cmtBooth'[j])
                 PROVE  Msg("CPA", j, v, Proposer) \in msgs' \/ v \in voted[j] \cup stuck
      BY <1>1 DEF AskedInv
    <3>1. CASE j = i
      BY <1>3, <2>2, <3>1
    <3>2. CASE j \in Started
      BY <1>3, <2>1, <2>2, <3>2 DEF AliveInv, AskedInv
    <3> QED BY <1>4, <3>1, <3>2
  <2>4. AnsweredInv'
    <3> SUFFICES ASSUME NEW j \in Started'
                 PROVE  CPBSent(j)' \/ (Len(sigs[j]) # Threshold(cmtBooth'[j]) /\ Counted(j)')
      BY <1>1 DEF AnsweredInv
    <3>1. CASE j = i
      <4>1. handled'[i] = 0 /\ Pending(i)' = {} /\ voted'[i] = {}
        BY <1>1, <1>5, <1>7, <1>9
      <4>2. Cardinality(Pending(i)') = 0 /\ Cardinality(voted'[i]) = 0
        BY <1>7, <4>1, Zenon
      <4>3. Counted(i)'
        BY <4>1, <4>2 DEF Counted
      <4> QED BY <1>3, <1>6, <1>7, <3>1, <4>3
    <3>2. CASE j \in Started
      <4>1. CPBSent(j) => CPBSent(j)'
        BY <1>1, <1>8 DEF CPBSent
      <4>2. Counted(j) => Counted(j)'
        BY <1>1, <1>5, <1>9, <3>2 DEF Counted
      <4> QED BY <1>3, <2>1, <3>2, <4>1, <4>2 DEF AliveInv, AnsweredInv
    <3> QED BY <1>4, <3>1, <3>2
  <2> QED BY <1>1, <2>2, <2>3, <2>4 DEF AliveInv
<1> QED BY <1>1, <1>10, <1>11 DEF RepliesInv

(* A member signs: it is new to the shares, and joins the pending ones. *)
LEMMA EntryReplies ==
    ASSUME Reliable, CInv, RepliesInv, NEW i \in Instances, NEW v \in Validators,
           CAEntry(i, v)
    PROVE  RepliesInv'
<1> DEFINE entry == Msg("CPA", i, v, Proposer)
           reply == Msg("R-CPA", i, v, v)
<1>1. /\ entry \in msgs /\ v \notin crashed \cup stuck
      /\ voted' = [voted EXCEPT ![i] = @ \cup {v}]
      /\ msgs' = (msgs \ {entry}) \cup {reply}
      /\ UNCHANGED <<loopVars, replyVars, broadcastError, committed, stuck, crashed>>
  BY DEF CAEntry, Reliable
<1>2. /\ entry.type = "CPA" /\ entry.inst = i /\ entry.validator = v
      /\ reply.type = "R-CPA"
  BY DEF Msg
<1>3. i \in Started /\ v \notin voted[i] /\ Started' = Started /\ Started \subseteq Instances
  BY <1>1, <1>2, StartedInstances DEF CInv, MsgInv, Started, loopVars
<1>4. /\ voted'[i] = voted[i] \cup {v}
      /\ \A j \in Instances : j # i => voted'[j] = voted[j]
      /\ \A j \in Instances : voted[j] \subseteq voted'[j]
  BY <1>1 DEF CInv, TypeOK
<1>5. /\ Pending(i)' = Pending(i) \cup {v} /\ v \notin Pending(i)
      /\ \A j \in Instances : j # i => Pending(j)' = Pending(j)
  <2>1. \A j, w : /\ Msg("R-CPA", j, w, w) # entry
                  /\ Msg("R-CPA", j, w, w) = reply <=> j = i /\ w = v
    BY MsgFields
  <2>2. \A j, w : Msg("R-CPA", j, w, w) \in msgs'
                      <=> Msg("R-CPA", j, w, w) \in msgs \/ (j = i /\ w = v)
    BY <1>1, <2>1
  <2>3. running' = running
    BY <1>1 DEF replyVars
  <2>4. v \notin Pending(i)
    BY <1>3, PendingVoted
  <2> QED BY <2>2, <2>3, <2>4 DEF Pending
<1>6. ShareInv'
  <2>1. \A j \in Instances : Range(sigs[j]) \subseteq voted[j]
    BY DEF CInv, VoteInv
  <2>2. \A h \in running : h.inst \in Instances /\ Range(h.partialSig) \subseteq voted[h.inst]
    BY DEF CInv, HandlerInv, TypeOK
  <2>3. UNCHANGED <<cmtBooth, sigs, running>>
    BY <1>1 DEF loopVars, replyVars
  <2>4. ASSUME NEW j \in Instances PROVE Range(sigs[j]) \cap Pending(j)' = {}
    BY <1>3, <1>5, <2>1 DEF RepliesInv, ShareInv
  <2>5. ASSUME NEW h \in running
        PROVE  Range(h.partialSig) \cap Pending(h.inst)' \subseteq {h.validator}
    <3>1. Range(h.partialSig) \cap Pending(h.inst) \subseteq {h.validator}
      BY DEF RepliesInv, ShareInv
    <3> QED BY <1>3, <1>5, <2>2, <3>1
  <2> QED BY <1>3, <2>3, <2>4, <2>5 DEF RepliesInv, ShareInv
<1>7. ASSUME crashed = {} PROVE AliveInv'
  <2>1. AliveInv
    BY <1>7 DEF RepliesInv
  <2>2. pc # "done"
    BY <1>1, <1>2, <1>7, <2>1 DEF AliveInv, Quiet
  <2>3. UNCHANGED <<pc, cmtBooth, sigs, handled, broadcastError, committed, stuck>>
    BY <1>1 DEF loopVars, replyVars
  <2>4. AskedInv'
    <3> SUFFICES ASSUME NEW j \in Started, NEW w \in Members(cmtBooth[j])
                 PROVE  Msg("CPA", j, w, Proposer) \in msgs' \/ w \in voted'[j] \cup stuck
      BY <1>3, <2>3 DEF AskedInv
    <3>1. Msg("CPA", j, w, Proposer) \in msgs \/ w \in voted[j] \cup stuck
      BY <2>1 DEF AliveInv, AskedInv
    <3>2. j \in Instances
      BY <1>3
    <3>3. Msg("CPA", j, w, Proposer) = entry => j = i /\ w = v
      BY MsgFields
    <3> HIDE DEF entry, reply
    <3> QED BY <1>1, <1>4, <3>1, <3>2, <3>3
  <2>5. AnsweredInv'
    <3> SUFFICES ASSUME NEW j \in Started
                 PROVE  CPBSent(j)' \/ (Len(sigs[j]) # Threshold(cmtBooth[j]) /\ Counted(j)')
      BY <1>3, <2>3 DEF AnsweredInv
    <3>1. j \in Instances
      BY <1>3
    <3>2. CPBSent(j) => CPBSent(j)'
      <4>1. \A m \in msgs : m.type = "CPB" => m \in msgs'
        BY <1>1, <1>2
      <4> QED BY <2>3, <4>1 DEF CPBSent
    <3>3. Counted(j) => Counted(j)'
      <4>1. CASE j = i
        <5>1. /\ IsFiniteSet(Pending(i)) /\ Cardinality(Pending(i)) \in Nat
              /\ IsFiniteSet(voted[i]) /\ Cardinality(voted[i]) \in Nat
          BY VotersFinite DEF CInv
        <5>2. /\ Cardinality(Pending(i)') = Cardinality(Pending(i)) + 1
              /\ Cardinality(voted'[i]) = Cardinality(voted[i]) + 1
          BY <1>3, <1>4, <1>5, <5>1, FS_AddElement
        <5>3. handled[i] \in Nat
          BY VotersFinite DEF CInv, TypeOK
        <5> QED BY <2>3, <4>1, <5>1, <5>2, <5>3 DEF Counted
      <4>2. CASE j # i
        BY <1>4, <1>5, <2>3, <3>1, <4>2 DEF Counted
      <4> QED BY <4>1, <4>2
    <3> QED BY <2>1, <3>2, <3>3 DEF AliveInv, AnsweredInv
  <2> QED BY <2>1, <2>2, <2>3, <2>4, <2>5 DEF AliveInv
<1> QED BY <1>1, <1>6, <1>7 DEF RepliesInv

(* First lock: a pending share joins a copy, or the instance has its CPB. *)
LEMMA ReadReplies ==
    ASSUME CInv, RepliesInv, NEW i \in Instances, NEW v \in Validators, CPAReplyRead(i, v)
    PROVE  RepliesInv'
<1> DEFINE reply == Msg("R-CPA", i, v, v)
<1> PICK h : h = [inst |-> i, validator |-> v, partialSig |-> Append(sigs[i], v)]
  OBVIOUS
<1>1. /\ reply \in msgs /\ msgs' = msgs \ {reply} /\ pc # "done" /\ pc' = pc
      /\ running' = IF Len(sigs[i]) = Threshold(cmtBooth[i]) THEN running ELSE running \cup {h}
      /\ UNCHANGED <<ranges, cmtBooth, sigs, handled, broadcastError, voted, committed,
                     stuck, crashed>>
  BY DEF CPAReplyRead, BatchCommitted, loopVars, memberVars
<1>2. reply.type = "R-CPA" /\ reply.inst = i /\ sigs[i] \in Seq(Validators)
  BY DEF CInv, TypeOK, Msg
<1>3. i \in Started /\ Started' = Started /\ Started \subseteq Instances
  BY <1>1, <1>2, StartedInstances DEF CInv, MsgInv, Started
<1>4. v \in Pending(i) /\ v \notin Range(sigs[i])
  BY <1>1 DEF Pending, RepliesInv, ShareInv
<1>5. /\ IsInjective(Append(sigs[i], v))
      /\ Range(Append(sigs[i], v)) = Range(sigs[i]) \cup {v}
      /\ Len(Append(sigs[i], v)) = Len(sigs[i]) + 1
  <2>1. sigs[i] \in Seq(Validators) /\ IsInjective(sigs[i]) /\ v \notin Range(sigs[i])
    BY <1>2, <1>4 DEF RepliesInv, ShareInv
  <2>2. IsInjective(Append(sigs[i], v))
    BY <2>1 DEF IsInjective, Range
  <2> QED BY <1>2, <2>2, RangeAppend
<1>6. h.inst = i /\ h.validator = v /\ h.partialSig = Append(sigs[i], v)
  OBVIOUS
<1>7. \A j, w : Msg("R-CPA", j, w, w) \in msgs'
                   <=> Msg("R-CPA", j, w, w) \in msgs /\ ~(j = i /\ w = v)
  BY <1>1, MsgFields
<1>8. \A j, w : Msg("CPA", j, w, Proposer) \in msgs => Msg("CPA", j, w, Proposer) \in msgs'
  BY <1>1, MsgFields
<1>9. \A j \in Instances : Pending(j)' \subseteq Pending(j) /\ (j # i => Pending(j)' = Pending(j))
  <2>1. \A j \in Instances : \A w : (\E k \in running' : k.inst = j /\ k.validator = w) =>
            (\E k \in running : k.inst = j /\ k.validator = w) \/ (j = i /\ w = v)
    BY <1>1, <1>6
  <2>2. running \subseteq running'
    BY <1>1
  <2>3. ASSUME NEW j \in Instances, NEW w \in Pending(j)' PROVE w \in Pending(j)
    BY <1>4, <1>7, <2>1, <2>3 DEF Pending
  <2>4. ASSUME NEW j \in Instances, j # i, NEW w \in Pending(j) PROVE w \in Pending(j)'
    BY <1>7, <2>2, <2>4 DEF Pending
  <2> QED BY <2>3, <2>4
<1>10. Len(sigs[i]) # Threshold(cmtBooth[i]) => Pending(i)' = Pending(i)
  <2> SUFFICES ASSUME Len(sigs[i]) # Threshold(cmtBooth[i]) PROVE Pending(i)' = Pending(i)
    OBVIOUS
  <2>1. h \in running' /\ running \subseteq running'
    BY <1>1
  <2>2. v \in Pending(i)'
    BY <1>6, <2>1 DEF Pending
  <2>3. \A w \in Pending(i) : w \in Pending(i)'
    BY <1>7, <2>1, <2>2 DEF Pending
  <2> QED BY <1>9, <2>3
<1>11. ShareInv'
  <2>1. ASSUME NEW j \in Instances PROVE IsInjective(sigs[j]) /\ Range(sigs[j]) \cap Pending(j)' = {}
    BY <1>9 DEF RepliesInv, ShareInv
  <2>2. ASSUME NEW k \in running
        PROVE  /\ IsInjective(k.partialSig)
               /\ Range(k.partialSig) \cap Pending(k.inst)' \subseteq {k.validator}
               /\ Len(k.partialSig) <= Threshold(cmtBooth[k.inst])
    <3>1. k.inst \in Instances
      BY DEF CInv, TypeOK
    <3> QED BY <1>9, <3>1 DEF RepliesInv, ShareInv
  <2>3. ASSUME Len(sigs[i]) # Threshold(cmtBooth[i])
        PROVE  /\ IsInjective(h.partialSig)
               /\ Range(h.partialSig) \cap Pending(h.inst)' \subseteq {h.validator}
               /\ Len(h.partialSig) <= Threshold(cmtBooth[h.inst])
    <3>1. Range(sigs[i]) \cap Pending(i)' = {}
      BY <2>1
    <3>2. Len(sigs[i]) <= Threshold(cmtBooth[i]) /\ Len(sigs[i]) \in Nat
      BY <1>2, <1>3 DEF RepliesInv, ShareInv
    <3>3. Threshold(cmtBooth[i]) \in Nat
      BY <1>3, StartedInstances, BoothsAssumption, ThresholdType DEF CInv
    <3> QED BY <1>5, <1>6, <2>3, <3>1, <3>2, <3>3
  <2> QED BY <1>1, <1>3, <2>1, <2>2, <2>3 DEF RepliesInv, ShareInv
<1>12. ASSUME crashed = {} PROVE AliveInv'
  <2>1. AliveInv
    BY <1>12 DEF RepliesInv
  <2>2. AskedInv'
    BY <1>1, <1>3, <1>8, <2>1 DEF AliveInv, AskedInv
  <2>3. ASSUME NEW j \in Started
        PROVE  CPBSent(j)' \/ (Len(sigs[j]) # Threshold(cmtBooth[j]) /\ Counted(j)')
    <3>1. CPBSent(j) => CPBSent(j)'
      BY <1>1, <1>2 DEF CPBSent
    <3>2. CASE CPBSent(j)
      BY <3>1, <3>2
    <3>3. CASE ~CPBSent(j)
      <4>1. Len(sigs[j]) # Threshold(cmtBooth[j]) /\ Counted(j)
        BY <2>1, <3>3 DEF AliveInv, AnsweredInv
      <4>2. Pending(j)' = Pending(j)
        BY <1>3, <1>9, <1>10, <4>1
      <4> QED BY <1>1, <4>1, <4>2 DEF Counted
    <3> QED BY <3>2, <3>3
  <2> QED BY <1>1, <1>3, <2>1, <2>2, <2>3 DEF AliveInv, AnsweredInv
<1> QED BY <1>1, <1>11, <1>12 DEF RepliesInv

(* Second lock: the handler's own share is written now; a full copy is a   *)
(* recoverable one, and its CPB goes out.                                  *)
LEMMA WriteReplies ==
    ASSUME Reliable, CInv, RepliesInv, NEW h \in running, CPAReplyWrite(h)
    PROVE  RepliesInv'
<1> PICK i : i = h.inst
  OBVIOUS
<1> DEFINE full == /\ Len(h.partialSig) = Threshold(cmtBooth[i])
                   /\ PenRecovery(h.partialSig, cmtBooth[i])
<1>1. /\ pc # "done"
      /\ running' = running \ {h}
      /\ sigs' = [sigs EXCEPT ![i] = h.partialSig]
      /\ handled' = [handled EXCEPT ![i] = @ + 1]
      /\ IF full THEN Broadcast("CPB", i, cmtBooth[i], h.validator, {}, msgs)
                 ELSE UNCHANGED <<msgs, broadcastError>>
      /\ UNCHANGED <<pc, ranges, cmtBooth, voted, committed, stuck, crashed>>
  BY DEF CPAReplyWrite, loopVars, memberVars
<1>2. /\ i \in Instances /\ h.validator \in Validators /\ h.partialSig \in Seq(Validators)
      /\ msgs \subseteq Messages /\ broadcastError \in BOOLEAN
      /\ i \in Started
  BY DEF CInv, TypeOK, HandlerInv
<1>3. Started' = Started /\ Started \subseteq Instances
  BY <1>1, StartedInstances DEF CInv, Started
<1>4. /\ sigs'[i] = h.partialSig /\ handled'[i] = handled[i] + 1
      /\ \A j \in Instances : j # i => sigs'[j] = sigs[j] /\ handled'[j] = handled[j]
  BY <1>1, <1>2 DEF CInv, TypeOK
<1>5. msgs \subseteq msgs' /\ \A m \in msgs' : m \in msgs \/ m.type = "CPB"
  <2>1. CASE full
    <3>1. Broadcast("CPB", i, cmtBooth[i], h.validator, {}, msgs)
      BY <1>1, <2>1
    <3> HIDE DEF full
    <3>2. \A m \in msgs' : m \in msgs \/ m.type = "CPB"
      BY <1>2, <3>1, BroadcastEffect
    <3> QED BY <3>1, <3>2 DEF Broadcast
  <2>2. CASE ~full
    BY <1>1, <2>2
  <2> QED BY <2>1, <2>2
<1>6. \A j, w : Msg("R-CPA", j, w, w) \in msgs' <=> Msg("R-CPA", j, w, w) \in msgs
  <2>1. \A j, w : Msg("R-CPA", j, w, w).type = "R-CPA"
    BY DEF Msg
  <2> QED BY <1>5, <2>1
<1>7. /\ Pending(i)' = Pending(i) \ {h.validator} /\ h.validator \in Pending(i)
      /\ \A j \in Instances : j # i => Pending(j)' = Pending(j)
  <2>1. Msg("R-CPA", i, h.validator, h.validator) \notin msgs
    BY DEF CInv, HandlerInv
  <2>2. \A k \in running : k.inst = i /\ k.validator = h.validator => k = h
    BY DEF CInv, HandlerInv
  <2> QED BY <1>1, <1>2, <1>6, <2>1, <2>2 DEF Pending
<1>8. /\ IsInjective(h.partialSig)
      /\ Range(h.partialSig) \cap Pending(i) \subseteq {h.validator}
      /\ Len(h.partialSig) <= Threshold(cmtBooth[i])
  BY DEF RepliesInv, ShareInv
<1>9. Len(h.partialSig) = Threshold(cmtBooth[i]) => full
  <2>1. Cardinality(Range(h.partialSig)) = Len(h.partialSig) /\ Len(h.partialSig) \in Nat
    BY <1>2, <1>8, InjectiveCardinality
  <2> QED BY <2>1 DEF PenRecovery
<1> HIDE DEF full
<1>10. ShareInv'
  <2>1. ASSUME NEW j \in Instances
        PROVE  IsInjective(sigs'[j]) /\ Range(sigs'[j]) \cap Pending(j)' = {}
    BY <1>4, <1>7, <1>8 DEF RepliesInv, ShareInv
  <2>2. ASSUME NEW j \in Started PROVE Len(sigs'[j]) <= Threshold(cmtBooth[j])
    BY <1>3, <1>4, <1>8 DEF RepliesInv, ShareInv
  <2>3. ASSUME NEW k \in running
        PROVE  /\ IsInjective(k.partialSig)
               /\ Range(k.partialSig) \cap Pending(k.inst)' \subseteq {k.validator}
               /\ Len(k.partialSig) <= Threshold(cmtBooth[k.inst])
    <3>1. k.inst \in Instances
      BY DEF CInv, TypeOK
    <3> QED BY <1>7, <3>1 DEF RepliesInv, ShareInv
  <2> QED BY <1>1, <1>3, <2>1, <2>2, <2>3 DEF ShareInv
<1>11. ASSUME crashed = {} PROVE AliveInv'
  <2>1. AliveInv
    BY <1>11 DEF RepliesInv
  <2>2. /\ ~broadcastError'
        /\ full => msgs' = msgs \cup {Msg("CPB", i, w, h.validator) : w \in Members(cmtBooth[i])}
    <3>1. ~broadcastError
      BY <2>1 DEF AliveInv
    <3>2. Members(cmtBooth[i]) \subseteq Validators
      BY <1>2, StartedInstances, BoothsAssumption DEF CInv, IsBooth
    <3>3. CASE full
      <4>1. Broadcast("CPB", i, cmtBooth[i], h.validator, {}, msgs)
        BY <1>1, <3>3
      <4> QED BY <1>11, <3>1, <3>2, <4>1, BroadcastReachesAll
    <3>4. CASE ~full
      BY <1>1, <3>1, <3>4
    <3> QED BY <3>3, <3>4
  <2>3. AskedInv'
    BY <1>1, <1>3, <1>5, <2>1 DEF AliveInv, AskedInv
  <2>4. full => CPBSent(i)'
    <3>1. PICK w : w \in Members(cmtBooth[i])
      <4>1. Cardinality(Members(cmtBooth[i])) > 2
        BY <1>2, StartedInstances, BoothsAssumption DEF CInv, IsBooth
      <4>2. Cardinality({}) = 0
        BY FS_EmptySet
      <4>3. Members(cmtBooth[i]) # {}
        <5>1. ASSUME Members(cmtBooth[i]) = {} PROVE Cardinality(Members(cmtBooth[i])) = 0
          BY <4>2, <5>1, Zenon
        <5> QED BY <4>1, <5>1
      <4> QED BY <4>3
    <3>2. full => Msg("CPB", i, w, h.validator) \in msgs'
      BY <2>2, <3>1
    <3>3. Msg("CPB", i, w, h.validator).type = "CPB" /\ Msg("CPB", i, w, h.validator).inst = i
      BY DEF Msg
    <3> QED BY <3>2, <3>3 DEF CPBSent
  <2>5. ASSUME NEW j \in Started
        PROVE  CPBSent(j)' \/ (Len(sigs'[j]) # Threshold(cmtBooth[j]) /\ Counted(j)')
    <3>1. CPBSent(j) => CPBSent(j)'
      BY <1>1, <1>5 DEF CPBSent
    <3>2. CASE CPBSent(j)
      BY <3>1, <3>2
    <3>3. CASE ~CPBSent(j)
      <4>1. Len(sigs[j]) # Threshold(cmtBooth[j]) /\ Counted(j)
        BY <2>1, <3>3 DEF AliveInv, AnsweredInv
      <4>2. CASE j # i
        BY <1>1, <1>3, <1>4, <1>7, <4>1, <4>2 DEF Counted
      <4>3. CASE j = i
        <5>1. /\ IsFiniteSet(Pending(i)) /\ Cardinality(Pending(i)) \in Nat
              /\ Cardinality(voted[i]) \in Nat /\ handled[i] \in Nat
          BY <1>2, VotersFinite DEF CInv, TypeOK
        <5>2. Cardinality(Pending(i) \ {h.validator}) = Cardinality(Pending(i)) - 1
          BY <1>7, <5>1, FS_RemoveElement
        <5>3. handled'[i] + Cardinality(Pending(i)') = Cardinality(voted[i])
          BY <1>4, <1>7, <4>1, <4>3, <5>1, <5>2 DEF Counted
        <5>4. Counted(i)'
          BY <1>1, <5>3 DEF Counted
        <5> QED BY <1>4, <1>9, <2>4, <4>3, <5>4
      <4> QED BY <4>2, <4>3
    <3> QED BY <3>2, <3>3
  <2> QED BY <1>1, <1>3, <2>1, <2>2, <2>3, <2>5 DEF AliveInv, AnsweredInv
<1> QED BY <1>1, <1>10, <1>11 DEF RepliesInv

(* Every other step writes no share, and lets a message go only when its   *)
(* receiver is stuck or has committed.                                     *)
LEMMA OtherReplies ==
    ASSUME CInv, RepliesInv, crashed \subseteq crashed',
           UNCHANGED <<ranges, cmtBooth, sigs, running, handled, voted, broadcastError>>,
           stuck \subseteq stuck',
           msgs' \subseteq msgs,
           \A m \in msgs : \/ m \in msgs'
                           \/ m.type = "CPA" /\ (m.validator \in stuck' \/ m.validator \in crashed')
                           \/ m.type = "CPB" /\ committed'[m.inst] # {},
           \A i \in Instances : committed[i] \subseteq committed'[i],
           pc' = "done" => pc = "done" \/ Quiet
    PROVE  RepliesInv'
<1>1. ShareInv'
  BY NoReplyShares DEF RepliesInv
<1>2. ASSUME crashed' = {} PROVE AliveInv'
  <2>1. crashed = {}
    BY <1>2
  <2>2. \A m \in msgs : \/ m \in msgs'
                        \/ m.type = "CPA" /\ m.validator \in stuck'
                        \/ m.type = "CPB" /\ committed'[m.inst] # {}
    BY <1>2
  <2> QED BY <1>2, <2>1, <2>2, NoReplyAlive DEF RepliesInv
<1> QED BY <1>1, <1>2 DEF RepliesInv

LEMMA NextReplies ==
    ASSUME Reliable PROVE CInv /\ RepliesInv /\ [Next]_vars => RepliesInv'
<1> SUFFICES ASSUME CInv, RepliesInv, [Next]_vars PROVE RepliesInv'
  OBVIOUS
<1>1. crashed \subseteq crashed'
  BY NobodyRevived
<1>2. ASSUME UNCHANGED <<ranges, cmtBooth, sigs, running, handled, voted, broadcastError,
                         msgs, committed>>,
             stuck \subseteq stuck',
             pc' = "done" => pc = "done" \/ Quiet
      PROVE  RepliesInv'
  BY <1>1, <1>2, OtherReplies
<1>3. CASE OrderingStep \/ FallAsleep \/ ConnectionClosed \/ UNCHANGED vars
  <2>1. /\ UNCHANGED <<ranges, cmtBooth, sigs, running, handled, voted, broadcastError,
                       msgs, committed, stuck>>
        /\ pc' = "done" => pc = "done"
    BY <1>3 DEF OrderingStep, FallAsleep, ConnectionClosed, vars, consVars, loopVars,
                replyVars, memberVars
  <2> QED BY <1>2, <2>1
<1>4. CASE WakeUp
  <2>1. /\ UNCHANGED <<ranges, cmtBooth, sigs, running, handled, voted, broadcastError,
                       msgs, committed, stuck>>
        /\ Quiet
    BY <1>4 DEF WakeUp, Reliable, replyVars, memberVars
  <2> QED BY <1>2, <2>1
<1>5. ASSUME NEW v \in Validators, OBStuck(v) \/ Crash(v) PROVE RepliesInv'
  <2>1. /\ UNCHANGED <<ranges, cmtBooth, sigs, running, handled, voted, broadcastError,
                       msgs, committed, pc>>
        /\ stuck \subseteq stuck'
    BY <1>5 DEF OBStuck, WaitOrPanic, Crash, loopVars, replyVars, memberVars
  <2> QED BY <1>2, <2>1
<1>6. ASSUME NEW B \in Booths, StartInstance(B) PROVE RepliesInv'
  BY <1>6, StartReplies
<1>7. ASSUME NEW i \in Instances, NEW v \in Validators, ReplyStep(i, v) PROVE RepliesInv'
  BY <1>7, ReadReplies, WriteReplies DEF ReplyStep
<1>8. ASSUME NEW i \in Instances, NEW v \in Validators, CAEntry(i, v) PROVE RepliesInv'
  BY <1>8, EntryReplies
<1>9. ASSUME NEW i \in Instances, NEW v \in Validators, NEW by \in Validators,
             CBEntry(i, v, by)
      PROVE  RepliesInv'
  <2>1. /\ msgs' = msgs \ {Msg("CPB", i, v, by)}
        /\ committed' = [committed EXCEPT ![i] = @ \cup {v}]
        /\ UNCHANGED <<ranges, cmtBooth, sigs, running, handled, voted, broadcastError,
                       stuck, pc>>
    BY <1>9 DEF CBEntry, loopVars, replyVars
  <2>2. Msg("CPB", i, v, by).type = "CPB" /\ Msg("CPB", i, v, by).inst = i
    BY DEF Msg
  <2>3. /\ v \in committed'[i]
        /\ \A j \in Instances : committed[j] \subseteq committed'[j]
    BY <2>1 DEF CInv, TypeOK
  <2>4. \A m \in msgs : m \in msgs' \/ (m.type = "CPB" /\ committed'[m.inst] # {})
    BY <2>1, <2>2, <2>3
  <2> QED BY <1>1, <2>1, <2>3, <2>4, OtherReplies
<1>10. ASSUME NEW i \in Instances, NEW v \in Validators, CAStuck(i, v) PROVE RepliesInv'
  <2>1. /\ msgs' = msgs \ {Msg("CPA", i, v, Proposer)}
        /\ stuck \subseteq stuck' /\ v \in stuck' \cup crashed'
        /\ UNCHANGED <<ranges, cmtBooth, sigs, running, handled, voted, broadcastError,
                       committed, pc>>
    BY <1>10 DEF CAStuck, WaitOrPanic, loopVars, replyVars
  <2>2. Msg("CPA", i, v, Proposer).type = "CPA" /\ Msg("CPA", i, v, Proposer).validator = v
    BY DEF Msg
  <2>3. \A m \in msgs : m \in msgs' \/ (m.type = "CPA" /\ m.validator \in stuck' \cup crashed')
    BY <2>1, <2>2
  <2>4. /\ msgs' \subseteq msgs
        /\ \A m \in msgs : \/ m \in msgs'
                           \/ m.type = "CPA" /\ (m.validator \in stuck' \/ m.validator \in crashed')
                           \/ m.type = "CPB" /\ committed'[m.inst] # {}
    BY <2>1, <2>3
  <2>5. \A j \in Instances : committed[j] \subseteq committed'[j]
    BY <2>1
  <2>6. UNCHANGED <<ranges, cmtBooth, sigs, running, handled, voted, broadcastError>>
    BY <2>1
  <2>7. stuck \subseteq stuck' /\ (pc' = "done" => pc = "done" \/ Quiet)
    BY <2>1
  <2> QED BY <1>1, <2>4, <2>5, <2>6, <2>7, OtherReplies
<1> QED BY <1>3, <1>4, <1>5, <1>6, <1>7, <1>8, <1>9, <1>10 DEF Next, MemberStep

LEMMA RepliesAlways == ASSUME Reliable PROVE Spec => []RepliesInv
BY InitReplies, NextReplies, CInvAlways, PTL DEF Spec

(* After the end: whoever is not stuck has signed, every share was written, *)
(* and they were too few.                                                   *)
LEMMA MissedByLostVote ==
    ASSUME CInv, RepliesInv, \A i \in Started : VotersLeft(i)
    PROVE  MissedOnlyByLostVote
<1> SUFFICES ASSUME pc = "done", crashed = {}, NEW i \in Started, ~CPBSent(i)
             PROVE  Len(sigs[i]) < handled[i]
  BY DEF MissedOnlyByLostVote
<1>1. AliveInv /\ Quiet
  BY DEF RepliesInv, AliveInv
<1>2. i \in Instances /\ cmtBooth[i] \in Booths
  BY StartedInstances DEF CInv
<1>3. Pending(i) = {}
  <2>1. \A v : Msg("R-CPA", i, v, v).type = "R-CPA"
    BY DEF Msg
  <2> QED BY <1>1, <2>1 DEF Quiet, Pending
<1>4. /\ IsFiniteSet(voted[i]) /\ Cardinality(voted[i]) \in Nat /\ handled[i] \in Nat
      /\ sigs[i] \in Seq(Validators)
  BY <1>2, VotersFinite DEF CInv, TypeOK
<1>5. Len(sigs[i]) # Threshold(cmtBooth[i]) /\ handled[i] = Cardinality(voted[i])
  <2>1. Len(sigs[i]) # Threshold(cmtBooth[i]) /\ Counted(i)
    BY <1>1 DEF AliveInv, AnsweredInv
  <2>2. Cardinality(Pending(i)) = 0
    <3>1. Cardinality({}) = 0
      BY FS_EmptySet
    <3> QED BY <1>3, <3>1, Zenon
  <2> QED BY <1>4, <2>1, <2>2 DEF Counted
<1>6. Members(cmtBooth[i]) \ stuck \subseteq voted[i]
  <2> SUFFICES ASSUME NEW v \in Members(cmtBooth[i]), v \notin stuck PROVE v \in voted[i]
    OBVIOUS
  <2>1. Msg("CPA", i, v, Proposer).type = "CPA" /\ Msg("CPA", i, v, Proposer).validator = v
    BY DEF Msg
  <2>2. Msg("CPA", i, v, Proposer) \notin msgs
    BY <1>1, <2>1 DEF Quiet
  <2> QED BY <1>1, <2>2 DEF AliveInv, AskedInv
<1>7. /\ Cardinality(Members(cmtBooth[i]) \ stuck) <= Cardinality(voted[i])
      /\ Cardinality(Members(cmtBooth[i]) \ stuck) \in Nat
  BY <1>4, <1>6, FS_Subset, FS_CardinalityType
<1>8. Threshold(cmtBooth[i]) \in Nat
  BY <1>2, BoothsAssumption, ThresholdType
<1>9. Cardinality(Members(cmtBooth[i]) \ stuck) >= Threshold(cmtBooth[i])
  BY DEF VotersLeft
<1>10. Len(sigs[i]) <= Threshold(cmtBooth[i]) /\ Len(sigs[i]) \in Nat
  BY <1>4 DEF RepliesInv, ShareInv
<1> QED BY <1>4, <1>5, <1>7, <1>8, <1>9, <1>10

(* On a reliable network, while enough members are not stuck, an instance  *)
(* that is not committed when the loop ends has had more handlers than its *)
(* slice has shares: one of them overwrote another's between the two locks *)
(* of asyncHandleCPAReply.  There is no other way to miss a commit.        *)
THEOREM MissedCommitsLostVotes ==
    ASSUME Reliable
    PROVE  Spec => []((\A i \in Started : VotersLeft(i)) => MissedOnlyByLostVote)
BY RepliesAlways, CInvAlways, MissedByLostVote, PTL

-----------------------------------------------------------------------------
(* Who can be stuck: a validator that misses a block which the others have  *)
(* ordered.                                                                 *)
StuckInv ==
    /\ sealed \subseteq Range(vgrec)
    /\ \A v \in stuck : \E b \in Range(vgrec) : v \in Members(booth[b]) \ held[b]

LEMMA LogStuckInv ==
    ASSUME CInv, StuckInv, OrderingStep
    PROVE  StuckInv'
<1>1. LogNext /\ LogTypeOK /\ OrderInv /\ stuck' = stuck
  BY DEF OrderingStep, CInv, TypeOK, consVars, memberVars
<1>2. /\ vgrec' = vgrec \/ \E b \in Blocks : vgrec' = Append(vgrec, b)
      /\ \A b \in Blocks : booth[b] # NoBooth => booth'[b] = booth[b]
  BY <1>1, LogStep
<1>3. Range(vgrec) \subseteq Range(vgrec') /\ Range(vgrec) \subseteq Blocks
  BY <1>1, <1>2, RangeAppend DEF LogTypeOK, Range
<1>4. ASSUME NEW v \in stuck PROVE \E b \in Range(vgrec') : v \in Members(booth'[b]) \ held'[b]
  <2>1. PICK b \in Range(vgrec) : v \in Members(booth[b]) \ held[b]
    BY DEF StuckInv
  <2>2. booth'[b] = booth[b]
    BY <1>2, <1>3 DEF CInv, OrderInv
  <2>3. v \in held'[b] <=> v \in held[b]
    BY <1>3 DEF OrderingStep
  <2> QED BY <1>3, <2>1, <2>2, <2>3
<1>5. sealed' \subseteq Range(vgrec')
  <2>1. sealed \subseteq Range(vgrec')
    BY <1>3 DEF StuckInv
  <2>2. \A b \in Blocks : Seal(b) => sealed' \subseteq Range(vgrec')
    BY <1>3, <2>1 DEF Seal, Ordered
  <2> QED BY <1>1, <2>1, <2>2 DEF LogNext, Propose, Hold, Order, Certify
<1> QED BY <1>1, <1>4, <1>5 DEF StuckInv

LEMMA NextStuckInv == CInv /\ StuckInv /\ [Next]_vars => StuckInv'
<1> SUFFICES ASSUME CInv, StuckInv, [Next]_vars PROVE StuckInv'
  OBVIOUS
<1>1. ASSUME UNCHANGED <<booth, held, vgrec, sealed, stuck>> PROVE StuckInv'
  BY <1>1 DEF StuckInv
<1>2. ASSUME NEW v \in Validators, UNCHANGED <<booth, held, vgrec, sealed>>,
             stuck' \subseteq stuck \cup {v},
             \E b \in Range(vgrec) : v \in Members(booth[b]) \ held[b]
      PROVE  StuckInv'
  BY <1>2 DEF StuckInv
<1>3. CASE OrderingStep
  BY <1>3, LogStuckInv
<1>4. ASSUME NEW B \in Booths, StartInstance(B) PROVE StuckInv'
  BY <1>1, <1>4 DEF StartInstance, logVars, memberVars
<1>5. CASE FallAsleep \/ WakeUp \/ ConnectionClosed \/ UNCHANGED vars
  BY <1>1, <1>5 DEF FallAsleep, WakeUp, ConnectionClosed, vars, consVars, logVars, memberVars
<1>6. ASSUME NEW i \in Instances, NEW v \in Validators, ReplyStep(i, v) PROVE StuckInv'
  BY <1>1, <1>6 DEF ReplyStep, CPAReplyRead, CPAReplyWrite, logVars, memberVars
<1>7. ASSUME NEW i \in Instances, NEW v \in Validators, MemberStep(i, v) PROVE StuckInv'
  BY <1>1, <1>7 DEF MemberStep, CAEntry, CBEntry, logVars
<1>8. ASSUME NEW i \in Instances, NEW v \in Validators, CAStuck(i, v) PROVE StuckInv'
  <2>1. PICK n \in DOMAIN ranges[i] : /\ ranges[i][n] \in Verified(i, v)
                                      /\ v \in Members(booth[ranges[i][n]]) \ held[ranges[i][n]]
    BY <1>8 DEF CAStuck
  <2>2. Msg("CPA", i, v, Proposer) \in msgs /\ Msg("CPA", i, v, Proposer).inst = i
    BY <1>8 DEF CAStuck, Msg
  <2>3. i \in Started
    BY <2>2 DEF CInv, MsgInv
  <2>4. ranges[i][n] \in Range(vgrec)
    BY <2>1, <2>3 DEF CInv, RangeInv, Range
  <2> QED BY <1>2, <1>8, <2>1, <2>4 DEF CAStuck, WaitOrPanic
<1>9. ASSUME NEW v \in Validators, OBStuck(v) \/ Crash(v) PROVE StuckInv'
  <2>1. CASE Crash(v)
    BY <1>1, <2>1 DEF Crash, logVars, memberVars
  <2>2. CASE OBStuck(v)
    <3>1. \E b \in Range(vgrec) : v \in Members(booth[b]) \ held[b]
      BY <2>2 DEF OBStuck, StuckInv
    <3> QED BY <1>2, <2>2, <3>1 DEF OBStuck, WaitOrPanic, logVars
  <2> QED BY <1>9, <2>1, <2>2
<1> QED BY <1>3, <1>4, <1>5, <1>6, <1>7, <1>8, <1>9 DEF Next

(* The stuck members have stored every ordered block but one. *)
OneBlockMissed ==
    \E b \in Blocks : \A c \in Range(vgrec) \ {b} : stuck \subseteq held[c]

(* With one booth, and stuck members that miss one and the same block, they *)
(* are never too many: a threshold has stored the block that they miss.    *)
(* Where different members get stuck on different blocks they can be.      *)
THEOREM OneBlockMissedByLostVote ==
    ASSUME Reliable, \A B, C \in Booths : B = C
    PROVE  Spec => [](OneBlockMissed => MissedOnlyByLostVote)
<1>1. ASSUME CInv, HoldInv, StuckInv, OneBlockMissed, NEW i \in Started PROVE VotersLeft(i)
  <2>1. cmtBooth[i] \in Booths /\ IsBooth(cmtBooth[i])
    BY <1>1, StartedInstances, BoothsAssumption DEF CInv
  <2>2. /\ IsFiniteSet(Members(cmtBooth[i])) /\ Cardinality(Members(cmtBooth[i])) \in Nat
        /\ Threshold(cmtBooth[i]) \in Nat
    BY <2>1, BoothSize, ThresholdType
  <2>3. CASE stuck = {}
    <3>1. Threshold(cmtBooth[i]) <= Cardinality(Members(cmtBooth[i]))
      BY <2>1, BoothSize DEF Threshold, getThreshold
    <3>2. Members(cmtBooth[i]) \ stuck = Members(cmtBooth[i])
      BY <2>3
    <3> QED BY <2>2, <3>1, <3>2 DEF VotersLeft
  <2>4. CASE stuck # {}
    <3>1. PICK b \in Blocks : \A c \in Range(vgrec) \ {b} : stuck \subseteq held[c]
      BY <1>1 DEF OneBlockMissed
    <3>2. \A v \in stuck : b \in Range(vgrec) /\ v \notin held[b]
      BY <1>1, <3>1 DEF StuckInv
    <3>3. b \in Range(vgrec)
      BY <2>4, <3>2
    <3>4. booth[b] # NoBooth /\ booth[b] = cmtBooth[i]
      BY <1>1, <2>1, <3>1, <3>3 DEF CInv, OrderInv, TypeOK, LogTypeOK
    <3>5. held[b] \subseteq Members(cmtBooth[i]) \ stuck
      BY <1>1, <3>1, <3>2, <3>4 DEF HoldInv
    <3>6. Cardinality(held[b]) >= Threshold(cmtBooth[i])
      BY <1>1, <3>1, <3>3, <3>4 DEF HoldInv
    <3>7. /\ IsFiniteSet(Members(cmtBooth[i]) \ stuck)
          /\ Cardinality(Members(cmtBooth[i]) \ stuck) \in Nat
      BY <2>2, FS_Subset, FS_CardinalityType
    <3>8. Cardinality(held[b]) <= Cardinality(Members(cmtBooth[i]) \ stuck)
          /\ Cardinality(held[b]) \in Nat
      BY <3>5, <3>7, FS_Subset, FS_CardinalityType
    <3> QED BY <2>2, <3>6, <3>7, <3>8 DEF VotersLeft
  <2> QED BY <2>3, <2>4
<1>2. Init => HoldInv /\ StuckInv
  BY EmptySlices DEF Init, LogInit, HoldInv, StuckInv
<1>3. CInv /\ HoldInv /\ StuckInv /\ [Next]_vars => (HoldInv /\ StuckInv)'
  BY NextHoldInv, NextStuckInv
<1>4. CInv /\ RepliesInv /\ HoldInv /\ StuckInv => (OneBlockMissed => MissedOnlyByLostVote)
  BY <1>1, MissedByLostVote
<1> QED BY CInvAlways, RepliesAlways, <1>2, <1>3, <1>4, PTL DEF Spec

-----------------------------------------------------------------------------
(* Consensus implements CommittedLog.  The mapping is that of module       *)
(* Consensus (Outcome == INSTANCE CommittedLog WITH ...); the invariant is *)
(* CInv, which knows who may vote and for what a CPB is sent.              *)

(* The instance's own copies of the operators count and collect alike.     *)
LEMMA SameOperators ==
    /\ \A S : Outcome!Cardinality(S) = Cardinality(S)
    /\ \A s : Outcome!Range(s) = Range(s)
    /\ \A B : Outcome!Threshold(B) = Threshold(B)
    /\ \A B : Outcome!Members(B) = Members(B)
<1>1. \A S : Outcome!Cardinality(S) = Cardinality(S)
  BY DEF Cardinality, Outcome!Cardinality
<1> QED BY <1>1 DEF Outcome!Range, Range, Outcome!Threshold, Threshold,
                    Outcome!getThreshold, getThreshold, Outcome!Members, Members

(* A step that takes nothing from the log and in which nobody votes or     *)
(* commits is a stutter.                                                   *)
LEMMA OutcomeStutter ==
    ASSUME UNCHANGED <<vgrec, lastIdx, ranges, cmtBooth, voted, committed>>
    PROVE  UNCHANGED Outcome!vars
BY DEF Outcome!vars, Result, Started

(* The ordering phase extends the log by a block that was not in it.       *)
LEMMA OrderingExtends ==
    ASSUME CInv, OrderingStep
    PROVE  [Outcome!Next]_(Outcome!vars)
<1>1. LogNext /\ UNCHANGED <<lastIdx, ranges, cmtBooth, voted, committed>>
  BY DEF OrderingStep, consVars, loopVars, memberVars
<1>2. CASE vgrec' = vgrec
  BY <1>1, <1>2, OutcomeStutter
<1>3. ASSUME NEW b \in Blocks, Order(b) PROVE Outcome!Next
  <2>1. b \notin Range(vgrec) /\ vgrec' = Append(vgrec, b)
    BY <1>3 DEF Order, Ordered
  <2>2. Outcome!Extend(b)
    BY <1>1, <2>1, SameOperators DEF Outcome!Extend, Result, Started
  <2> QED BY <2>2 DEF Outcome!Next
<1>4. vgrec' = vgrec \/ \E b \in Blocks : Order(b)
  BY <1>1 DEF LogNext, Propose, Hold, Certify, Seal
<1> QED BY <1>2, <1>3, <1>4

(* Functions on 1 .. n as sequences, one element longer or changed at one. *)
LEMMA OneMore ==
    ASSUME NEW n \in Nat, NEW S, NEW old \in [1 .. n -> S], NEW new \in [1 .. n + 1 -> S],
           \A j \in 1 .. n : new[j] = old[j]
    PROVE  new = Append(old, new[n + 1])
<1>1. old \in Seq(S) /\ Len(old) = n /\ new \in Seq(S) /\ Len(new) = n + 1
  OBVIOUS
<1>2. new[n + 1] \in S
  OBVIOUS
<1>3. PICK s \in Seq(S) : s = Append(old, new[n + 1])
  BY <1>1, <1>2
<1>4. /\ Len(s) = n + 1
      /\ \A j \in 1 .. n : s[j] = old[j]
      /\ s[n + 1] = new[n + 1]
  BY <1>1, <1>2, <1>3
<1>5. \A j \in 1 .. n + 1 : new[j] = s[j]
  <2>1. \A j \in 1 .. n + 1 : j = n + 1 \/ j \in 1 .. n
    OBVIOUS
  <2> QED BY <1>4, <2>1
<1> QED BY <1>1, <1>3, <1>4, <1>5

LEMMA OneChanged ==
    ASSUME NEW D, NEW i \in D, NEW old, NEW new,
           old = [j \in D |-> old[j]], new = [j \in D |-> new[j]],
           \A j \in D : j # i => new[j] = old[j]
    PROVE  new = [old EXCEPT ![i] = new[i]]
OBVIOUS

(* A round of startConsensusPhaseA takes all that was ordered since.       *)
LEMMA StartTakes ==
    ASSUME CInv, NEW B \in Booths, StartInstance(B)
    PROVE  Outcome!Next
<1>1. PICK range : range = SubSeq(vgrec, lastIdx + 1, Len(vgrec))
  OBVIOUS
<1>2. /\ range # << >> /\ lastIdx' = Len(vgrec)
      /\ ranges' = Append(ranges, range) /\ cmtBooth' = Append(cmtBooth, B)
      /\ vgrec' = vgrec /\ voted' = voted /\ committed' = committed
  BY <1>1 DEF StartInstance, GetIDRange, logVars, memberVars
<1>3. /\ Len(ranges) \in Nat /\ Len(cmtBooth) = Len(ranges) /\ lastIdx \in Nat
      /\ vgrec \in Seq(Blocks) /\ ranges \in Seq(Seq(Blocks)) /\ cmtBooth \in Seq(Booths)
      /\ Len(ranges) <= lastIdx /\ lastIdx <= Len(vgrec)
  BY DEF CInv, TypeOK, LogTypeOK, LoopInv
<1>4. lastIdx < Len(vgrec) /\ range \in Seq(Blocks)
  BY <1>1, <1>2, <1>3
<1>5. PICK n \in Nat : n = Len(ranges)
  BY <1>3
<1>6. n + 1 \in Instances /\ n + 1 \notin Started
  <2>1. Len(vgrec) <= MaxBlocks /\ Len(vgrec) \in Nat
    BY LogBounded DEF CInv
  <2> QED BY <1>3, <1>4, <1>5, <2>1, MaxBlocksAssumption DEF Instances, Started
<1>7. voted[n + 1] = {} /\ committed[n + 1] = {}
  BY <1>6 DEF CInv, VoteInv
<1>8. /\ Len(ranges') = n + 1 /\ ranges'[n + 1] = range /\ cmtBooth'[n + 1] = B
      /\ \A j \in 1 .. n : ranges'[j] = ranges[j] /\ cmtBooth'[j] = cmtBooth[j]
  BY <1>2, <1>3, <1>4, <1>5
<1>9. Started' = 1 .. n + 1 /\ Started = 1 .. n
  BY <1>5, <1>8 DEF Started
<1>10. PICK old, new : /\ old = [j \in Started |-> Result(j)]
                       /\ new = [j \in Started' |-> Result(j)']
  OBVIOUS
<1>11. new = Append(old, Outcome!Instance(range, B))
  <2>1. new[n + 1] = Outcome!Instance(range, B)
    <3>1. Result(n + 1)' = Outcome!Instance(range, B)
      BY <1>2, <1>7, <1>8 DEF Result, Outcome!Instance
    <3> QED BY <1>9, <1>10, <3>1
  <2>2. \A j \in 1 .. n : new[j] = old[j]
    <3>1. \A j \in 1 .. n : Result(j)' = Result(j)
      BY <1>2, <1>8 DEF Result
    <3>2. \A j \in 1 .. n : new[j] = Result(j)' /\ old[j] = Result(j)
      BY <1>9, <1>10
    <3> QED BY <3>1, <3>2
  <2>3. PICK S : old \in [1 .. n -> S] /\ new \in [1 .. n + 1 -> S]
    <3>1. /\ old \in [1 .. n -> {old[j] : j \in 1 .. n} \cup {new[j] : j \in 1 .. n + 1}]
          /\ new \in [1 .. n + 1 -> {old[j] : j \in 1 .. n} \cup {new[j] : j \in 1 .. n + 1}]
      BY <1>9, <1>10, Zenon
    <3> QED BY <3>1
  <2> QED BY <2>1, <2>2, <2>3, OneMore
<1>12. Outcome!Start(B)
  BY <1>1, <1>2, <1>4, <1>10, <1>11 DEF Outcome!Start
<1> QED BY <1>12 DEF Outcome!Next

(* What one member does to an instance's result, and to no other.          *)
LEMMA ResultsAfter ==
    ASSUME UNCHANGED <<ranges, cmtBooth>>, NEW i \in Started,
           \A j \in Started : j # i => voted'[j] = voted[j] /\ committed'[j] = committed[j]
    PROVE  [j \in Started |-> Result(j)]'
             = [[j \in Started |-> Result(j)] EXCEPT ![i] = Result(i)']
<1>1. Started' = Started /\ \A j \in Started : j # i => Result(j)' = Result(j)
  BY DEF Result, Started
<1>2. PICK old, new : /\ old = [j \in Started |-> Result(j)]
                      /\ new = [j \in Started |-> Result(j)']
  OBVIOUS
<1>3. /\ old = [j \in Started |-> old[j]] /\ new = [j \in Started |-> new[j]]
      /\ \A j \in Started : j # i => new[j] = old[j]
      /\ new[i] = Result(i)'
  BY <1>1, <1>2, Zenon
<1>4. new = [old EXCEPT ![i] = new[i]]
  BY <1>3, OneChanged
<1> QED BY <1>1, <1>2, <1>3, <1>4, Zenon

(* validatingCAEntry is a vote of a member. *)
LEMMA EntryVotes ==
    ASSUME CInv, NEW i \in Instances, NEW v \in Validators, CAEntry(i, v)
    PROVE  Outcome!Next
<1>1. i \in Started /\ v \in Members(cmtBooth[i])
  <2>1. PICK m \in msgs : m = Msg("CPA", i, v, Proposer)
    BY DEF CAEntry
  <2>2. m.inst = i /\ m.validator = v
    BY <2>1 DEF Msg
  <2> QED BY <2>2 DEF CInv, MsgInv
<1>2. /\ voted' = [voted EXCEPT ![i] = @ \cup {v}] /\ committed' = committed
      /\ UNCHANGED <<vgrec, lastIdx, ranges, cmtBooth>>
      /\ voted \in [Instances -> SUBSET Validators]
  BY DEF CAEntry, loopVars, CInv, TypeOK
<1>3. /\ voted'[i] = voted[i] \cup {v}
      /\ \A j \in Started : j # i => voted'[j] = voted[j] /\ committed'[j] = committed[j]
  BY <1>2, StartedInstances DEF CInv
<1>4. PICK old : old = [j \in Started |-> Result(j)]
  OBVIOUS
<1>5. old[i] = Result(i)
  BY <1>1, <1>4
<1>6. Result(i)' = [old[i] EXCEPT !.voted = @ \cup {v}]
  <2>1. Result(i)' = [Result(i) EXCEPT !.voted = @ \cup {v}]
    BY <1>2, <1>3 DEF Result
  <2> QED BY <1>5, <2>1
<1>7. [j \in Started |-> Result(j)]' = [old EXCEPT ![i].voted = @ \cup {v}]
  BY <1>1, <1>2, <1>3, <1>4, <1>6, ResultsAfter, Zenon
<1>8. v \in Outcome!Members(old[i].booth)
  BY <1>1, <1>5, SameOperators DEF Result
<1>9. Outcome!Vote(i, v)
  BY <1>2, <1>4, <1>7, <1>8, Zenon DEF Outcome!Vote
<1> QED BY <1>1, <1>9 DEF Outcome!Next

(* validatingCBEntry is the commit of a voter, for a threshold of votes.   *)
LEMMA EntryCommits ==
    ASSUME CInv, NEW i \in Instances, NEW v \in Validators, NEW by \in Validators,
           CBEntry(i, v, by)
    PROVE  Outcome!Next
<1>1. /\ i \in Started /\ v \in voted[i]
      /\ Cardinality(voted[i]) >= Threshold(cmtBooth[i])
  <2>1. PICK m \in msgs : m = Msg("CPB", i, v, by)
    BY DEF CBEntry
  <2>2. m.inst = i /\ m.validator = v /\ m.type = "CPB"
    BY <2>1 DEF Msg
  <2>3. v \in tokens[i]
    BY DEF CBEntry, PriorJobDone
  <2> QED BY <2>2, <2>3 DEF CInv, MsgInv, VoteInv
<1>2. /\ committed' = [committed EXCEPT ![i] = @ \cup {v}] /\ voted' = voted
      /\ UNCHANGED <<vgrec, lastIdx, ranges, cmtBooth>>
      /\ committed \in [Instances -> SUBSET Validators]
  BY DEF CBEntry, loopVars, logVars, CInv, TypeOK
<1>3. /\ committed'[i] = committed[i] \cup {v}
      /\ \A j \in Started : j # i => voted'[j] = voted[j] /\ committed'[j] = committed[j]
  BY <1>2, StartedInstances DEF CInv
<1>4. PICK old : old = [j \in Started |-> Result(j)]
  OBVIOUS
<1>5. old[i] = Result(i)
  BY <1>1, <1>4
<1>6. Result(i)' = [old[i] EXCEPT !.committed = @ \cup {v}]
  <2>1. Result(i)' = [Result(i) EXCEPT !.committed = @ \cup {v}]
    BY <1>2, <1>3 DEF Result
  <2> QED BY <1>5, <2>1
<1>7. [j \in Started |-> Result(j)]' = [old EXCEPT ![i].committed = @ \cup {v}]
  BY <1>1, <1>2, <1>3, <1>4, <1>6, ResultsAfter, Zenon
<1>8. /\ v \in old[i].voted
      /\ Outcome!Cardinality(old[i].voted) >= Outcome!Threshold(old[i].booth)
  BY <1>1, <1>5, SameOperators DEF Result
<1>9. Outcome!Commit(i, v)
  BY <1>2, <1>4, <1>7, <1>8, Zenon DEF Outcome!Commit
<1> QED BY <1>1, <1>9 DEF Outcome!Next

LEMMA StepRefines == CInv /\ [Next]_vars => [Outcome!Next]_(Outcome!vars)
<1> SUFFICES ASSUME CInv, [Next]_vars PROVE [Outcome!Next]_(Outcome!vars)
  OBVIOUS
<1>1. CASE OrderingStep
  BY <1>1, OrderingExtends
<1>2. ASSUME NEW B \in Booths, StartInstance(B) PROVE Outcome!Next
  BY <1>2, StartTakes
<1>3. CASE FallAsleep \/ WakeUp
  BY <1>3, OutcomeStutter DEF FallAsleep, WakeUp, logVars, memberVars
<1>4. ASSUME NEW i \in Instances, NEW v \in Validators, ReplyStep(i, v)
      PROVE  [Outcome!Next]_(Outcome!vars)
  BY <1>4, OutcomeStutter DEF ReplyStep, CPAReplyRead, CPAReplyWrite, logVars, loopVars, memberVars
<1>5. ASSUME NEW i \in Instances, NEW v \in Validators, MemberStep(i, v) PROVE Outcome!Next
  BY <1>5, EntryVotes, EntryCommits DEF MemberStep
<1>6. ASSUME NEW i \in Instances, NEW v \in Validators, CAStuck(i, v)
      PROVE  [Outcome!Next]_(Outcome!vars)
  BY <1>6, OutcomeStutter DEF CAStuck, loopVars
<1>7. ASSUME NEW v \in Validators, OBStuck(v) \/ Crash(v)
      PROVE  [Outcome!Next]_(Outcome!vars)
  BY <1>7, OutcomeStutter DEF OBStuck, Crash, logVars, loopVars, memberVars
<1>8. CASE ConnectionClosed
  BY <1>8, OutcomeStutter DEF ConnectionClosed, logVars, loopVars, memberVars
<1>9. CASE UNCHANGED vars
  BY <1>9, OutcomeStutter DEF vars, consVars, logVars, loopVars, memberVars
<1> QED BY <1>1, <1>2, <1>3, <1>4, <1>5, <1>6, <1>7, <1>8, <1>9 DEF Next

(* The consensus phase implements the atomic one: instances take the log   *)
(* piece by piece, members vote, and voters commit on a threshold of       *)
(* votes, whatever messages, handlers and crashes do in between.           *)
THEOREM ConsensusImplementsOutcome == Spec => RefinesCommittedLog
<1>1. Init => Outcome!Init
  <2> SUFFICES ASSUME Init PROVE Outcome!Init
    OBVIOUS
  <2>1. Started = {} /\ vgrec = << >> /\ lastIdx = 0
    BY DEF Init, LogInit, Started
  <2>2. [i \in Started |-> Result(i)] = << >>
    BY <2>1
  <2> QED BY <2>1, <2>2 DEF Outcome!Init
<1> QED BY <1>1, CInvAlways, StepRefines, PTL DEF Spec, RefinesCommittedLog, Outcome!Spec
=============================================================================
