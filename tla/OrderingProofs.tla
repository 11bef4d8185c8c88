---------------------------- MODULE OrderingProofs ----------------------------
(***************************************************************************)
(* Theorems about module Ordering, for any number of validators, booths,   *)
(* blocks and crashes, lossy or not.                                       *)
(*                                                                         *)
(* CertificateBacked is not inductive: that a counted share comes from a   *)
(* distinct member that stored the block depends on which replies are in   *)
(* flight and which handlers are between their locks.  IInv adds that.     *)
(***************************************************************************)
EXTENDS Ordering, ShareLemmas

(* Ids are handed out in sequence, each with its booth. *)
MadeInv == \A b \in Blocks : booth[b] # NoBooth <=> b < logIndex

(* A block is offered to a member that does not have it, a reply comes     *)
(* from a member that stored it and is not counted yet, and only a sealed  *)
(* block's signature is sent out.                                          *)
MsgInv ==
    \A b \in Blocks, v \in Validators :
        /\ Msg("OPA", b, v) \in msgs => /\ b < logIndex
                                        /\ v \in Members(booth[b])
                                        /\ b \notin ordSnapshot[v]
        /\ Msg("R-OPA", b, v) \in msgs => /\ cmtSnapshot[v][b] # "absent"
                                          /\ v \notin Range(sigs[b])
        /\ Msg("OPB", b, v) \in msgs => b \in sealed

(* The validator's maps agree: an OA handler that is between its locks has *)
(* stored the block in ordSnapshot only, and the token and the cmtSnapshot *)
(* entry appear together.                                                  *)
HandlerInv ==
    \A b \in Blocks, v \in Validators :
        /\ b \in ordSnapshot[v] => b < logIndex /\ v \in Members(booth[b])
        /\ b \in oaRunning[v] => b \in ordSnapshot[v] /\ cmtSnapshot[v][b] = "absent"
        /\ cmtSnapshot[v][b] # "absent" => b \in ordSnapshot[v]
        /\ ordJob[v][b] = "full" => cmtSnapshot[v][b] # "absent"
        /\ cmtLock[v] = b => b \in sealed
        /\ cmtSnapshot[v][b] = "signed" => b \in sealed

(* The counted shares come from distinct members that stored the block. *)
ShareInv ==
    \A b \in Blocks :
        /\ IsInjective(sigs[b])
        /\ \A v \in Range(sigs[b]) : cmtSnapshot[v][b] # "absent"
        /\ booth[b] # NoBooth => Len(sigs[b]) <= Threshold(booth[b])

(* The log holds exactly the blocks whose count reached the threshold. *)
LogInv ==
    \A b \in Blocks :
        /\ Ordered(b) <=> booth[b] # NoBooth /\ Len(sigs[b]) = Threshold(booth[b])
        /\ b \in recovered \cup sealed => Ordered(b)
        /\ ~(b \in recovered /\ b \in sealed)

IInv == TypeOK /\ MadeInv /\ MsgInv /\ HandlerInv /\ ShareInv /\ LogInv

-----------------------------------------------------------------------------
(* Messages are the same exactly when their fields are. *)
LEMMA MsgFields ==
    ASSUME NEW t1, NEW b1, NEW v1, NEW t2, NEW b2, NEW v2
    PROVE  Msg(t1, b1, v1) = Msg(t2, b2, v2) <=> t1 = t2 /\ b1 = b2 /\ v1 = v2
BY DEF Msg

LEMMA MsgType ==
    ASSUME NEW t \in {"OPA", "R-OPA", "OPB"}, NEW b \in Blocks, NEW v \in Validators
    PROVE  Msg(t, b, v) \in Messages
BY DEF Msg, Messages

(* A broadcast only adds messages of its own type about its own block, to  *)
(* members of its booth, whatever is lost and whatever fails.              *)
LEMMA BroadcastEffect ==
    ASSUME msgs \subseteq Messages, broadcastError \in BOOLEAN,
           NEW type \in {"OPA", "R-OPA", "OPB"}, NEW b \in Blocks, NEW B,
           Broadcast(type, b, B, msgs)
    PROVE  /\ msgs' \subseteq Messages
           /\ broadcastError' \in BOOLEAN
           /\ \A t, c, w : Msg(t, c, w) \in msgs' =>
                \/ Msg(t, c, w) \in msgs
                \/ t = type /\ c = b /\ w \in Members(B)
<1>1. CASE broadcastError
  BY <1>1 DEF Broadcast
<1>2. CASE ~broadcastError
  <2>1. PICK to \in SUBSET Validators, failed \in BOOLEAN :
            /\ Reached(B, to)
            /\ msgs' = msgs \cup {Msg(type, b, v) : v \in to}
            /\ broadcastError' = failed
    BY <1>2 DEF Broadcast
  <2>2. to \subseteq Members(B)
    BY <2>1 DEF Reached
  <2>3. msgs' \subseteq Messages
    BY <2>1, MsgType
  <2>4. ASSUME NEW t, NEW c, NEW w, Msg(t, c, w) \in msgs', Msg(t, c, w) \notin msgs
        PROVE  t = type /\ c = b /\ w \in Members(B)
    <3>1. PICK v \in to : Msg(t, c, w) = Msg(type, b, v)
      BY <2>1, <2>4
    <3> QED BY <3>1, <2>2, MsgFields
  <2> QED BY <2>1, <2>3, <2>4
<1> QED BY <1>1, <1>2

LEMMA EmptySlice ==
    << >> \in Seq(Validators) /\ Len(<< >>) = 0 /\ Range(<< >>) = {} /\ IsInjective(<< >>)
BY DEF Range, IsInjective

(* The booth of a block that was made is one the MMU handed out. *)
LEMMA MadeBooth ==
    ASSUME TypeOK, NEW b \in Blocks, booth[b] # NoBooth
    PROVE  /\ booth[b] \in Booths
           /\ Threshold(booth[b]) \in Nat
           /\ Threshold(booth[b]) >= 2
BY ThresholdType, BoothsAssumption DEF TypeOK

-----------------------------------------------------------------------------
(* No block, no message, no snapshot: the initial state satisfies IInv. *)
LEMMA InitIInv == Init => IInv
<1> SUFFICES ASSUME Init PROVE IInv
  OBVIOUS
<1>1. TypeOK
  <2>1. /\ logIndex \in 0 .. MaxBlocks
        /\ sigs \in [Blocks -> Seq(Validators)]
        /\ booth \in [Blocks -> Booths \cup {NoBooth}]
        /\ vgrec \in Seq(Blocks)
    BY EmptySlice, OrderingAssumption DEF Init
  <2>2. /\ ordSnapshot \in [Validators -> SUBSET Blocks]
        /\ oaRunning \in [Validators -> SUBSET Blocks]
        /\ cmtLock \in [Validators -> Blocks \cup {NoBlock}]
    BY DEF Init
  <2>3. /\ cmtSnapshot \in [Validators -> [Blocks -> {"absent", "unsigned", "signed"}]]
        /\ ordJob \in [Validators -> [Blocks -> {"none", "empty", "full"}]]
    BY DEF Init
  <2> QED BY <2>1, <2>2, <2>3 DEF Init, TypeOK
<1>2. MadeInv
  BY DEF Init, MadeInv, Blocks
<1>3. MsgInv
  BY DEF Init, MsgInv
<1>4. HandlerInv
  BY NoBlockAssumption DEF Init, HandlerInv
<1>5. ShareInv
  BY EmptySlice DEF Init, ShareInv
<1>6. LogInv
  BY EmptySlice DEF Init, LogInv, Ordered
<1> QED BY <1>1, <1>2, <1>3, <1>4, <1>5, <1>6 DEF IInv

(* makeAndBroadcast: the new id is one that no share, message or snapshot  *)
(* mentions yet.                                                           *)
LEMMA MakeIInv ==
    ASSUME IInv, NEW B \in Booths, MakeAndBroadcast(B)
    PROVE  IInv'
<1> USE DEF IInv
<1>1. /\ logIndex \in Blocks
      /\ logIndex' = logIndex + 1
      /\ booth' = [booth EXCEPT ![logIndex] = B]
      /\ sigs' = [sigs EXCEPT ![logIndex] = << >>]
  BY OrderingAssumption DEF MakeAndBroadcast, TypeOK, Blocks, Incremented
<1>2. /\ vgrec' = vgrec /\ recovered' = recovered /\ sealed' = sealed
      /\ ordSnapshot' = ordSnapshot /\ oaRunning' = oaRunning
      /\ cmtSnapshot' = cmtSnapshot /\ cmtLock' = cmtLock
      /\ ordJob' = ordJob /\ crashed' = crashed
  BY DEF MakeAndBroadcast, validatorVars
<1>3. /\ msgs' \subseteq Messages
      /\ broadcastError' \in BOOLEAN
      /\ \A t, c, w : Msg(t, c, w) \in msgs' =>
           Msg(t, c, w) \in msgs \/ (t = "OPA" /\ c = logIndex /\ w \in Members(B))
  <2>1. msgs \subseteq Messages /\ broadcastError \in BOOLEAN
    BY DEF TypeOK
  <2>2. PICK b \in Blocks : b = logIndex
    BY <1>1
  <2>3. Broadcast("OPA", b, B, msgs)
    BY <2>2 DEF MakeAndBroadcast
  <2> QED BY <2>1, <2>2, <2>3, BroadcastEffect
<1>4. booth[logIndex] = NoBooth /\ B # NoBooth
  BY <1>1, OrderingAssumption DEF MadeInv, TypeOK
<1>5. TypeOK'
  <2>1. logIndex' \in 0 .. MaxBlocks
    BY <1>1, OrderingAssumption DEF Blocks
  <2>2. sigs' \in [Blocks -> Seq(Validators)] /\ booth' \in [Blocks -> Booths \cup {NoBooth}]
    BY <1>1, EmptySlice DEF TypeOK
  <2> QED BY <1>2, <1>3, <2>1, <2>2 DEF TypeOK
<1>6. MadeInv'
  BY <1>1, <1>4 DEF MadeInv, TypeOK, Blocks
<1>7. MsgInv'
  <2> SUFFICES ASSUME NEW b \in Blocks, NEW v \in Validators
               PROVE  /\ Msg("OPA", b, v) \in msgs' => /\ b < logIndex'
                                                       /\ v \in Members(booth'[b])
                                                       /\ b \notin ordSnapshot'[v]
                      /\ Msg("R-OPA", b, v) \in msgs' => /\ cmtSnapshot'[v][b] # "absent"
                                                         /\ v \notin Range(sigs'[b])
                      /\ Msg("OPB", b, v) \in msgs' => b \in sealed'
    BY DEF MsgInv
  <2>1. ASSUME Msg("OPA", b, v) \in msgs'
        PROVE  b < logIndex' /\ v \in Members(booth'[b]) /\ b \notin ordSnapshot'[v]
    <3>1. CASE b = logIndex
      BY <1>1, <1>2, <1>3, <2>1, <3>1 DEF MsgInv, HandlerInv, TypeOK, Blocks
    <3>2. CASE b # logIndex
      BY <1>1, <1>2, <1>3, <2>1, <3>2 DEF MsgInv, TypeOK, Blocks
    <3> QED BY <3>1, <3>2
  <2>2. ASSUME Msg("R-OPA", b, v) \in msgs'
        PROVE  cmtSnapshot'[v][b] # "absent" /\ v \notin Range(sigs'[b])
    BY <1>1, <1>2, <1>3, <2>2, EmptySlice DEF MsgInv, TypeOK
  <2>3. ASSUME Msg("OPB", b, v) \in msgs'
        PROVE  b \in sealed'
    BY <1>2, <1>3, <2>3 DEF MsgInv
  <2> QED BY <2>1, <2>2, <2>3
<1>8. HandlerInv'
  <2>1. \A b \in Blocks, v \in Validators :
            b \in ordSnapshot'[v] => b < logIndex' /\ v \in Members(booth'[b])
    BY <1>1, <1>2 DEF HandlerInv, TypeOK, Blocks
  <2> QED BY <1>2, <2>1 DEF HandlerInv
<1>9. ShareInv'
  <2> SUFFICES ASSUME NEW b \in Blocks
               PROVE  /\ IsInjective(sigs'[b])
                      /\ \A v \in Range(sigs'[b]) : cmtSnapshot'[v][b] # "absent"
                      /\ booth'[b] # NoBooth => Len(sigs'[b]) <= Threshold(booth'[b])
    BY DEF ShareInv
  <2>1. CASE b = logIndex
    <3>1. Threshold(B) \in Nat
      BY ThresholdType, BoothsAssumption
    <3> QED BY <1>1, <2>1, <3>1, EmptySlice DEF TypeOK
  <2>2. CASE b # logIndex
    BY <1>1, <1>2, <2>2 DEF ShareInv, TypeOK
  <2> QED BY <2>1, <2>2
<1>10. LogInv'
  <2> SUFFICES ASSUME NEW b \in Blocks
               PROVE  /\ Ordered(b) <=> /\ booth'[b] # NoBooth
                                        /\ Len(sigs'[b]) = Threshold(booth'[b])
                      /\ b \in recovered \cup sealed => Ordered(b)
                      /\ ~(b \in recovered /\ b \in sealed)
    BY <1>2 DEF LogInv, Ordered
  <2>1. CASE b = logIndex
    <3>1. Threshold(B) \in Nat /\ Threshold(B) >= 2
      BY ThresholdType, BoothsAssumption
    <3> QED BY <1>1, <1>4, <2>1, <3>1, EmptySlice DEF LogInv, TypeOK
  <2>2. CASE b # logIndex
    BY <1>1, <2>2 DEF LogInv, TypeOK
  <2> QED BY <2>1, <2>2
<1> QED BY <1>5, <1>6, <1>7, <1>8, <1>9, <1>10

(* What asyncHandleOBReply does with a share: it comes from a member that  *)
(* stored the block, and when it completes the count, recovery succeeds.   *)
LEMMA ReplyEffect ==
    ASSUME IInv, NEW b \in Blocks, NEW v \in Validators, AsyncHandleOBReply(b, v)
    PROVE  /\ booth[b] # NoBooth
           /\ cmtSnapshot[v][b] # "absent"
           /\ msgs' = msgs \ {Msg("R-OPA", b, v)}
           /\ \/ /\ sigs' = sigs
                 /\ vgrec' = vgrec
                 /\ recovered' = recovered
              \/ /\ ~Ordered(b)
                 /\ sigs' = [sigs EXCEPT ![b] = Append(sigs[b], v)]
                 /\ Append(sigs[b], v) \in Seq(Validators)
                 /\ IsInjective(Append(sigs[b], v))
                 /\ Range(Append(sigs[b], v)) = Range(sigs[b]) \cup {v}
                 /\ Len(Append(sigs[b], v)) <= Threshold(booth[b])
                 /\ \/ /\ Len(Append(sigs[b], v)) = Threshold(booth[b])
                       /\ vgrec' = Append(vgrec, b)
                       /\ recovered' = recovered \cup {b}
                    \/ /\ Len(Append(sigs[b], v)) # Threshold(booth[b])
                       /\ vgrec' = vgrec
                       /\ recovered' = recovered
<1> USE DEF IInv
<1> DEFINE agg == Append(sigs[b], v)
<1>1. /\ Msg("R-OPA", b, v) \in msgs
      /\ msgs' = msgs \ {Msg("R-OPA", b, v)}
  BY DEF AsyncHandleOBReply
<1>2. cmtSnapshot[v][b] # "absent" /\ v \notin Range(sigs[b])
  BY <1>1 DEF MsgInv
<1>3. booth[b] # NoBooth
  BY <1>2 DEF HandlerInv, MadeInv
<1>4. Threshold(booth[b]) \in Nat
  BY <1>3, MadeBooth
<1>5. CASE AlreadyOrdered(b)
  BY <1>1, <1>2, <1>3, <1>5 DEF AsyncHandleOBReply
<1>6. CASE ~AlreadyOrdered(b)
  <2>1. /\ sigs[b] \in Seq(Validators)
        /\ Len(sigs[b]) # Threshold(booth[b])
        /\ Len(sigs[b]) <= Threshold(booth[b])
        /\ IsInjective(sigs[b])
    BY <1>3, <1>6 DEF TypeOK, ShareInv, AlreadyOrdered
  <2>2. ~Ordered(b)
    BY <2>1 DEF LogInv
  <2>3. /\ agg \in Seq(Validators)
        /\ Len(agg) = Len(sigs[b]) + 1
        /\ Range(agg) = Range(sigs[b]) \cup {v}
    BY <2>1, RangeAppend
  <2>4. IsInjective(agg)
    BY <1>2, <2>1, AppendInjective
  <2>5. Len(agg) <= Threshold(booth[b])
    <3>1. Len(sigs[b]) \in Nat
      BY <2>1
    <3> QED BY <1>4, <2>1, <2>3, <3>1
  <2>6. Len(agg) = Threshold(booth[b]) => PenRecovery(agg, booth[b])
    <3>1. Cardinality(Range(agg)) = Len(agg)
      BY <2>3, <2>4, InjectiveCardinality
    <3> QED BY <1>4, <3>1 DEF PenRecovery
  <2>7. /\ sigs' = [sigs EXCEPT ![b] = agg]
        /\ vgrec' = IF Len(agg) = Threshold(booth[b]) /\ PenRecovery(agg, booth[b])
                    THEN Append(vgrec, b) ELSE vgrec
        /\ recovered' = IF Len(agg) = Threshold(booth[b]) /\ PenRecovery(agg, booth[b])
                        THEN recovered \cup {b} ELSE recovered
    BY <1>6 DEF AsyncHandleOBReply
  <2> HIDE DEF agg
  <2>8. \/ /\ Len(agg) = Threshold(booth[b])
           /\ vgrec' = Append(vgrec, b)
           /\ recovered' = recovered \cup {b}
        \/ /\ Len(agg) # Threshold(booth[b])
           /\ vgrec' = vgrec
           /\ recovered' = recovered
    BY <2>6, <2>7
  <2> QED BY <1>1, <1>2, <1>3, <2>2, <2>3, <2>4, <2>5, <2>7, <2>8 DEF agg
<1> QED BY <1>5, <1>6

(* asyncHandleOBReply: a counted share is a new one. *)
LEMMA ReplyIInv ==
    ASSUME IInv, NEW b \in Blocks, NEW v \in Validators, AsyncHandleOBReply(b, v)
    PROVE  IInv'
<1> USE DEF IInv
<1>1. /\ logIndex' = logIndex /\ booth' = booth /\ sealed' = sealed
      /\ broadcastError' = broadcastError
      /\ ordSnapshot' = ordSnapshot /\ oaRunning' = oaRunning
      /\ cmtSnapshot' = cmtSnapshot /\ cmtLock' = cmtLock
      /\ ordJob' = ordJob /\ crashed' = crashed
  BY DEF AsyncHandleOBReply, validatorVars
<1>2. /\ booth[b] # NoBooth
      /\ cmtSnapshot[v][b] # "absent"
      /\ msgs' = msgs \ {Msg("R-OPA", b, v)}
  BY ReplyEffect
<1>3. MadeInv'
  BY <1>1 DEF MadeInv
<1>4. HandlerInv'
  BY <1>1 DEF HandlerInv
<1>5. CASE sigs' = sigs /\ vgrec' = vgrec /\ recovered' = recovered
  <2>1. TypeOK'
    BY <1>1, <1>2, <1>5 DEF TypeOK
  <2>2. MsgInv'
    BY <1>1, <1>2, <1>5 DEF MsgInv
  <2>3. ShareInv' /\ LogInv'
    BY <1>1, <1>5 DEF ShareInv, LogInv, Ordered
  <2> QED BY <1>3, <1>4, <2>1, <2>2, <2>3
<1>6. CASE ~(sigs' = sigs /\ vgrec' = vgrec /\ recovered' = recovered)
  <2> DEFINE agg == Append(sigs[b], v)
  <2>1. /\ ~Ordered(b)
        /\ sigs' = [sigs EXCEPT ![b] = agg]
        /\ agg \in Seq(Validators)
        /\ IsInjective(agg)
        /\ Range(agg) = Range(sigs[b]) \cup {v}
        /\ Len(agg) <= Threshold(booth[b])
    BY <1>6, ReplyEffect
  <2>2. \/ /\ Len(agg) = Threshold(booth[b])
           /\ vgrec' = Append(vgrec, b)
           /\ recovered' = recovered \cup {b}
        \/ /\ Len(agg) # Threshold(booth[b])
           /\ vgrec' = vgrec
           /\ recovered' = recovered
    BY <1>6, ReplyEffect
  <2> HIDE DEF agg
  <2>3. /\ sigs'[b] = agg
        /\ \A c \in Blocks : c # b => sigs'[c] = sigs[c]
    BY <2>1 DEF TypeOK
  <2>4. vgrec \in Seq(Blocks)
    BY DEF TypeOK
  <2>5. /\ Append(vgrec, b) \in Seq(Blocks)
        /\ Range(Append(vgrec, b)) = Range(vgrec) \cup {b}
    BY <2>4, RangeAppend
  <2>6. TypeOK'
    <3>1. sigs' \in [Blocks -> Seq(Validators)]
      BY <2>1 DEF TypeOK
    <3>2. vgrec' \in Seq(Blocks) /\ recovered' \subseteq Blocks
      BY <2>2, <2>4, <2>5 DEF TypeOK
    <3> QED BY <1>1, <1>2, <3>1, <3>2 DEF TypeOK
  <2>7. MsgInv'
    <3> SUFFICES ASSUME NEW c \in Blocks, NEW w \in Validators,
                        Msg("R-OPA", c, w) \in msgs'
                 PROVE  w \notin Range(sigs'[c])
      BY <1>1, <1>2 DEF MsgInv
    <3>1. CASE c = b
      <4>1. w # v /\ w \notin Range(sigs[b])
        BY <1>2, <3>1 DEF MsgInv
      <4> QED BY <2>1, <2>3, <3>1, <4>1
    <3>2. CASE c # b
      BY <1>2, <2>3, <3>2 DEF MsgInv
    <3> QED BY <3>1, <3>2
  <2>8. ShareInv'
    BY <1>1, <1>2, <2>1, <2>3 DEF ShareInv
  <2>9. LogInv'
    <3> SUFFICES ASSUME NEW c \in Blocks
                 PROVE  /\ c \in Range(vgrec') <=> /\ booth[c] # NoBooth
                                                   /\ Len(sigs'[c]) = Threshold(booth[c])
                        /\ c \in recovered' \cup sealed => c \in Range(vgrec')
                        /\ ~(c \in recovered' /\ c \in sealed)
      BY <1>1 DEF LogInv, Ordered
    <3>1. CASE c = b
      <4>1. b \notin Range(vgrec) /\ b \notin recovered /\ b \notin sealed
        BY <2>1 DEF LogInv, Ordered
      <4> QED BY <1>2, <2>2, <2>3, <2>5, <3>1, <4>1
    <3>2. CASE c # b
      BY <2>2, <2>3, <2>5, <3>2 DEF LogInv, Ordered
    <3> QED BY <3>1, <3>2
  <2> QED BY <1>3, <1>4, <2>6, <2>7, <2>8, <2>9
<1> QED BY <1>5, <1>6

(* The rest of that handler: only a block of the log is sealed. *)
LEMMA SealIInv ==
    ASSUME IInv, NEW b \in Blocks, SealAndBroadcast(b)
    PROVE  IInv'
<1> USE DEF IInv
<1>1. /\ b \in recovered
      /\ recovered' = recovered \ {b}
      /\ sealed' = sealed \cup {b}
      /\ logIndex' = logIndex /\ booth' = booth /\ sigs' = sigs /\ vgrec' = vgrec
      /\ ordSnapshot' = ordSnapshot /\ oaRunning' = oaRunning
      /\ cmtSnapshot' = cmtSnapshot /\ cmtLock' = cmtLock
      /\ ordJob' = ordJob /\ crashed' = crashed
  BY DEF SealAndBroadcast, validatorVars
<1>2. /\ msgs' \subseteq Messages
      /\ broadcastError' \in BOOLEAN
      /\ \A t, c, w : Msg(t, c, w) \in msgs' =>
           Msg(t, c, w) \in msgs \/ (t = "OPB" /\ c = b)
  <2>1. msgs \subseteq Messages /\ broadcastError \in BOOLEAN
    BY DEF TypeOK
  <2>2. PICK B : B = booth[b]
    OBVIOUS
  <2>3. Broadcast("OPB", b, B, msgs)
    BY <2>2 DEF SealAndBroadcast
  <2> QED BY <2>1, <2>3, BroadcastEffect
<1>3. TypeOK'
  BY <1>1, <1>2 DEF TypeOK
<1>4. MadeInv'
  BY <1>1 DEF MadeInv
<1>5. MsgInv'
  BY <1>1, <1>2 DEF MsgInv
<1>6. HandlerInv'
  BY <1>1 DEF HandlerInv
<1>7. ShareInv'
  BY <1>1 DEF ShareInv
<1>8. LogInv'
  BY <1>1 DEF LogInv, Ordered
<1> QED BY <1>3, <1>4, <1>5, <1>6, <1>7, <1>8

(* validatingOAEntry under ordSnapshot's lock: the OPA's receiver is a     *)
(* member of the block's booth, and the OPA is used up.                    *)
LEMMA OAStoreIInv ==
    ASSUME IInv, NEW b \in Blocks, NEW v \in Validators, OAStore(v, b)
    PROVE  IInv'
<1> USE DEF IInv
<1>1. /\ Msg("OPA", b, v) \in msgs
      /\ msgs' = msgs \ {Msg("OPA", b, v)}
      /\ logIndex' = logIndex /\ booth' = booth /\ sigs' = sigs /\ vgrec' = vgrec
      /\ recovered' = recovered /\ sealed' = sealed
      /\ broadcastError' = broadcastError
      /\ cmtSnapshot' = cmtSnapshot /\ cmtLock' = cmtLock
      /\ ordJob' = ordJob /\ crashed' = crashed
  BY DEF OAStore, proposerVars
<1>2. b < logIndex /\ v \in Members(booth[b]) /\ b \notin ordSnapshot[v]
  BY <1>1 DEF MsgInv
<1>3. /\ ordSnapshot' = [ordSnapshot EXCEPT ![v] = @ \cup {b}]
      /\ oaRunning' = [oaRunning EXCEPT ![v] = @ \cup {b}]
  BY <1>2 DEF OAStore
<1>4. \A w \in Validators, c \in Blocks :
        /\ c \in ordSnapshot'[w] <=> c \in ordSnapshot[w] \/ (w = v /\ c = b)
        /\ c \in oaRunning'[w] <=> c \in oaRunning[w] \/ (w = v /\ c = b)
  BY <1>3 DEF TypeOK
<1>5. TypeOK'
  BY <1>1, <1>3 DEF TypeOK
<1>6. MadeInv'
  BY <1>1 DEF MadeInv
<1>7. MsgInv'
  <2>1. ASSUME NEW c \in Blocks, NEW w \in Validators, Msg("OPA", c, w) \in msgs'
        PROVE  c \notin ordSnapshot'[w]
    <3>1. ~(c = b /\ w = v)
      BY <1>1, <2>1
    <3> QED BY <1>1, <1>4, <2>1, <3>1 DEF MsgInv
  <2> QED BY <1>1, <2>1 DEF MsgInv
<1>8. HandlerInv'
  BY <1>1, <1>2, <1>4 DEF HandlerInv
<1>9. ShareInv' /\ LogInv'
  BY <1>1 DEF ShareInv, LogInv, Ordered
<1> QED BY <1>5, <1>6, <1>7, <1>8, <1>9

(* validatingOAEntry from cmtSnapshot's lock on: the share that is sent    *)
(* back was not counted before, because the block was absent until now.    *)
LEMMA OAFinishIInv ==
    ASSUME IInv, NEW b \in Blocks, NEW v \in Validators, OAFinish(v, b)
    PROVE  IInv'
<1> USE DEF IInv
<1>1. /\ b \in oaRunning[v]
      /\ oaRunning' = [oaRunning EXCEPT ![v] = @ \ {b}]
      /\ cmtSnapshot' = [cmtSnapshot EXCEPT ![v][b] = "unsigned"]
      /\ ordJob' = [ordJob EXCEPT ![v][b] = "full"]
      /\ msgs' \subseteq msgs \cup {Msg("R-OPA", b, v)}
      /\ logIndex' = logIndex /\ booth' = booth /\ sigs' = sigs /\ vgrec' = vgrec
      /\ recovered' = recovered /\ sealed' = sealed
      /\ broadcastError' = broadcastError
      /\ ordSnapshot' = ordSnapshot /\ cmtLock' = cmtLock /\ crashed' = crashed
  BY DEF OAFinish, proposerVars
<1>2. b \in ordSnapshot[v] /\ cmtSnapshot[v][b] = "absent"
  BY <1>1 DEF HandlerInv
<1>3. v \notin Range(sigs[b])
  BY <1>2 DEF ShareInv
<1>4. \A w \in Validators, c \in Blocks :
        /\ c \in oaRunning'[w] <=> c \in oaRunning[w] /\ ~(w = v /\ c = b)
        /\ cmtSnapshot'[w][c] = IF w = v /\ c = b THEN "unsigned" ELSE cmtSnapshot[w][c]
        /\ ordJob'[w][c] = IF w = v /\ c = b THEN "full" ELSE ordJob[w][c]
  BY <1>1 DEF TypeOK
<1>5. TypeOK'
  <2>1. msgs' \subseteq Messages
    BY <1>1, MsgType DEF TypeOK
  <2>2. /\ oaRunning' \in [Validators -> SUBSET Blocks]
        /\ cmtSnapshot' \in [Validators -> [Blocks -> {"absent", "unsigned", "signed"}]]
        /\ ordJob' \in [Validators -> [Blocks -> {"none", "empty", "full"}]]
    BY <1>1 DEF TypeOK
  <2> QED BY <1>1, <2>1, <2>2 DEF TypeOK
<1>6. MadeInv'
  BY <1>1 DEF MadeInv
<1>7. MsgInv'
  <2>1. \A t, c, w : Msg(t, c, w) \in msgs' =>
            Msg(t, c, w) \in msgs \/ (t = "R-OPA" /\ c = b /\ w = v)
    BY <1>1, MsgFields
  <2> QED BY <1>1, <1>3, <1>4, <2>1 DEF MsgInv
<1>8. HandlerInv'
  BY <1>1, <1>2, <1>4 DEF HandlerInv
<1>9. ShareInv'
  <2>1. \A c \in Blocks : Range(sigs[c]) \subseteq Validators
    BY DEF TypeOK, Range
  <2> QED BY <1>1, <1>4, <2>1 DEF ShareInv
<1>10. LogInv'
  BY <1>1 DEF LogInv, Ordered
<1> QED BY <1>5, <1>6, <1>7, <1>8, <1>9, <1>10

(* validatingOBEntry: it only ever gets to work on sealed blocks. *)
LEMMA OBLockIInv ==
    ASSUME IInv, NEW b \in Blocks, NEW v \in Validators, OBLock(v, b)
    PROVE  IInv'
<1> USE DEF IInv
<1>1. /\ Msg("OPB", b, v) \in msgs
      /\ msgs' = msgs \ {Msg("OPB", b, v)}
      /\ cmtLock' = [cmtLock EXCEPT ![v] = b]
      /\ \/ ordJob' = ordJob
         \/ ordJob' = [ordJob EXCEPT ![v][b] = "empty"]
      /\ logIndex' = logIndex /\ booth' = booth /\ sigs' = sigs /\ vgrec' = vgrec
      /\ recovered' = recovered /\ sealed' = sealed
      /\ broadcastError' = broadcastError
      /\ ordSnapshot' = ordSnapshot /\ oaRunning' = oaRunning
      /\ cmtSnapshot' = cmtSnapshot /\ crashed' = crashed
  BY DEF OBLock, proposerVars
<1>2. b \in sealed
  BY <1>1 DEF MsgInv
<1>3. \A w \in Validators, c \in Blocks :
        /\ cmtLock'[w] = c => cmtLock[w] = c \/ c = b
        /\ ordJob'[w][c] = "full" => ordJob[w][c] = "full"
  BY <1>1 DEF TypeOK
<1>4. TypeOK'
  <2>1. cmtLock' \in [Validators -> Blocks \cup {NoBlock}]
    BY <1>1 DEF TypeOK
  <2>2. ordJob' \in [Validators -> [Blocks -> {"none", "empty", "full"}]]
    <3>1. CASE ordJob' = ordJob
      BY <3>1 DEF TypeOK
    <3>2. CASE ordJob' = [ordJob EXCEPT ![v][b] = "empty"]
      BY <3>2 DEF TypeOK
    <3> QED BY <1>1, <3>1, <3>2
  <2> QED BY <1>1, <2>1, <2>2 DEF TypeOK
<1>5. MadeInv'
  BY <1>1 DEF MadeInv
<1>6. MsgInv'
  BY <1>1 DEF MsgInv
<1>7. HandlerInv'
  BY <1>1, <1>2, <1>3 DEF HandlerInv
<1>8. ShareInv' /\ LogInv'
  BY <1>1 DEF ShareInv, LogInv, Ordered
<1> QED BY <1>4, <1>5, <1>6, <1>7, <1>8

(* An OB handler that finishes found the block in cmtSnapshot: a token     *)
(* without the entry does not exist, so no wait on the channel ever ends.  *)
LEMMA OBFinishFindsBlock ==
    ASSUME IInv, NEW b \in Blocks, NEW v \in Validators, OBFinish(v, b)
    PROVE  cmtSnapshot[v][b] # "absent" /\ b \in sealed
BY DEF IInv, OBFinish, HandlerInv

LEMMA OBFinishIInv ==
    ASSUME IInv, NEW b \in Blocks, NEW v \in Validators, OBFinish(v, b)
    PROVE  IInv'
<1> USE DEF IInv
<1>1. cmtSnapshot[v][b] # "absent" /\ b \in sealed
  BY OBFinishFindsBlock
<1>2. /\ cmtSnapshot' = [cmtSnapshot EXCEPT ![v][b] = "signed"]
      /\ cmtLock' = [cmtLock EXCEPT ![v] = NoBlock]
      /\ ordJob' = ordJob
      /\ msgs' = msgs
      /\ logIndex' = logIndex /\ booth' = booth /\ sigs' = sigs /\ vgrec' = vgrec
      /\ recovered' = recovered /\ sealed' = sealed
      /\ broadcastError' = broadcastError
      /\ ordSnapshot' = ordSnapshot /\ oaRunning' = oaRunning /\ crashed' = crashed
  BY <1>1 DEF OBFinish, proposerVars
<1>3. \A w \in Validators, c \in Blocks :
        /\ cmtSnapshot'[w][c] = IF w = v /\ c = b THEN "signed" ELSE cmtSnapshot[w][c]
        /\ cmtLock'[w] = c => cmtLock[w] = c
  BY <1>2, NoBlockAssumption DEF TypeOK
<1>4. TypeOK'
  <2>1. /\ cmtSnapshot' \in [Validators -> [Blocks -> {"absent", "unsigned", "signed"}]]
        /\ cmtLock' \in [Validators -> Blocks \cup {NoBlock}]
    BY <1>2 DEF TypeOK
  <2> QED BY <1>2, <2>1 DEF TypeOK
<1>5. MadeInv'
  BY <1>2 DEF MadeInv
<1>6. MsgInv'
  BY <1>2, <1>3 DEF MsgInv
<1>7. HandlerInv'
  BY <1>1, <1>2, <1>3 DEF HandlerInv
<1>8. ShareInv'
  <2>1. \A c \in Blocks : Range(sigs[c]) \subseteq Validators
    BY DEF TypeOK, Range
  <2> QED BY <1>2, <1>3, <2>1 DEF ShareInv
<1>9. LogInv'
  BY <1>2 DEF LogInv, Ordered
<1> QED BY <1>4, <1>5, <1>6, <1>7, <1>8, <1>9

(* Steps that only consume a message or lose a process. *)
LEMMA QuietIInv ==
    ASSUME IInv, msgs' \subseteq msgs, crashed' \subseteq Validators,
           UNCHANGED <<proposerVars, validatorVars>>
    PROVE  IInv'
<1> USE DEF IInv
<1>1. /\ logIndex' = logIndex /\ booth' = booth /\ sigs' = sigs /\ vgrec' = vgrec
      /\ recovered' = recovered /\ sealed' = sealed
      /\ broadcastError' = broadcastError
      /\ ordSnapshot' = ordSnapshot /\ oaRunning' = oaRunning
      /\ cmtSnapshot' = cmtSnapshot /\ cmtLock' = cmtLock /\ ordJob' = ordJob
  BY DEF proposerVars, validatorVars
<1>2. TypeOK'
  BY <1>1 DEF TypeOK
<1>3. MadeInv' /\ MsgInv'
  BY <1>1 DEF MadeInv, MsgInv
<1>4. HandlerInv'
  BY <1>1 DEF HandlerInv
<1>5. ShareInv' /\ LogInv'
  BY <1>1 DEF ShareInv, LogInv, Ordered
<1> QED BY <1>2, <1>3, <1>4, <1>5

(* Every step of the proposer, of a validator or of its environment        *)
(* preserves the inductive invariant.                                      *)
LEMMA NextIInv == IInv /\ [Next]_vars => IInv'
<1> SUFFICES ASSUME IInv, [Next]_vars PROVE IInv'
  OBVIOUS
<1>1. ASSUME NEW B \in Booths, MakeAndBroadcast(B) PROVE IInv'
  BY <1>1, MakeIInv
<1>2. ASSUME NEW b \in Blocks, SealAndBroadcast(b) PROVE IInv'
  BY <1>2, SealIInv
<1>3. ASSUME NEW b \in Blocks, NEW v \in Validators, AsyncHandleOBReply(b, v) PROVE IInv'
  BY <1>3, ReplyIInv
<1>4. ASSUME NEW b \in Blocks, NEW v \in Validators, ValidatorStep(v, b) PROVE IInv'
  <2>1. CASE OAStore(v, b)
    BY <2>1, OAStoreIInv
  <2>2. CASE OAFinish(v, b)
    BY <2>2, OAFinishIInv
  <2>3. CASE OBIgnore(v, b)
    BY <2>3, QuietIInv DEF OBIgnore, IInv, TypeOK
  <2>4. CASE OBLock(v, b)
    BY <2>4, OBLockIInv
  <2>5. CASE OBPanic(v, b)
    BY <2>5, QuietIInv DEF OBPanic, IInv, TypeOK
  <2>6. CASE OBFinish(v, b)
    BY <2>6, OBFinishIInv
  <2> QED BY <1>4, <2>1, <2>2, <2>3, <2>4, <2>5, <2>6 DEF ValidatorStep
<1>5. ASSUME NEW v \in Validators, Crash(v) PROVE IInv'
  BY <1>5, QuietIInv DEF Crash, IInv, TypeOK
<1>6. CASE UNCHANGED vars
  BY <1>6, QuietIInv DEF vars, IInv, TypeOK
<1> QED BY <1>1, <1>2, <1>3, <1>4, <1>5, <1>6 DEF Next, ProposerNext

-----------------------------------------------------------------------------
(* The invariant holds in every reachable state. *)
THEOREM IInvAlways == Spec => []IInv
BY InitIInv, NextIInv, PTL DEF Spec

(* The types of the proposer's, the network's and the validators' state    *)
(* are kept by every handler.                                              *)
THEOREM TypeCorrect == Spec => []TypeOK
<1>1. IInv => TypeOK
  BY DEF IInv
<1> QED BY <1>1, IInvAlways, PTL

(* The distinct signers of a block are members of its booth that store it. *)
LEMMA SignersAreHolders ==
    ASSUME IInv, NEW b \in Blocks
    PROVE  /\ Range(sigs[b]) \subseteq Holders(b)
           /\ Holders(b) \subseteq Members(booth[b])
           /\ IsFiniteSet(Holders(b))
           /\ Cardinality(Range(sigs[b])) = Len(sigs[b])
<1> USE DEF IInv
<1>1. Range(sigs[b]) \subseteq Validators
  BY DEF TypeOK, Range
<1>2. Range(sigs[b]) \subseteq Holders(b)
  BY <1>1 DEF ShareInv, Holders
<1>3. Holders(b) \subseteq Members(booth[b])
  BY DEF HandlerInv, Holders
<1>4. IsFiniteSet(Holders(b))
  <2>1. Holders(b) \subseteq Validators
    BY DEF Holders
  <2> QED BY <2>1, ServersAssumption, FS_Subset
<1>5. sigs[b] \in Seq(Validators) /\ IsInjective(sigs[b])
  BY DEF TypeOK, ShareInv
<1> QED BY <1>2, <1>3, <1>4, <1>5, InjectiveCardinality

(* A block enters the log only when a threshold of distinct members of its *)
(* booth store it, and only a block of the log is ever certified at a      *)
(* validator: for any number of validators, booths, blocks and crashes.    *)
THEOREM CertificatesAreBacked == Spec => []CertificateBacked
<1>1. IInv => CertificateBacked
  <2> SUFFICES ASSUME IInv PROVE CertificateBacked
    OBVIOUS
  <2>1. ASSUME NEW b \in Blocks, Ordered(b)
        PROVE  Cardinality(Holders(b) \cap Members(booth[b])) >= Threshold(booth[b])
    <3>1. booth[b] # NoBooth /\ Len(sigs[b]) = Threshold(booth[b])
      BY <2>1 DEF IInv, LogInv
    <3>2. Holders(b) \cap Members(booth[b]) = Holders(b)
      BY SignersAreHolders
    <3>3. /\ IsFiniteSet(Holders(b))
          /\ Range(sigs[b]) \subseteq Holders(b)
          /\ Cardinality(Range(sigs[b])) = Len(sigs[b])
      BY SignersAreHolders
    <3>4. /\ Cardinality(Range(sigs[b])) <= Cardinality(Holders(b))
          /\ Cardinality(Holders(b)) \in Nat
      BY <3>3, FS_Subset, FS_CardinalityType
    <3>5. Threshold(booth[b]) \in Nat
      BY <3>1, MadeBooth DEF IInv
    <3> QED BY <3>1, <3>2, <3>3, <3>4, <3>5
  <2>2. ASSUME NEW v \in Validators, NEW b \in Blocks, cmtSnapshot[v][b] = "signed"
        PROVE  Ordered(b)
    BY <2>2 DEF IInv, HandlerInv, LogInv
  <2> QED BY <2>1, <2>2 DEF CertificateBacked
<1> QED BY <1>1, IInvAlways, PTL

(* The early return of asyncHandleOBReply on a full signature count never  *)
(* hides a block that is not in the log.                                   *)
THEOREM RecoveryNeverFails == Spec => []RecoverySucceeds
<1>1. IInv => RecoverySucceeds
  BY DEF IInv, LogInv, RecoverySucceeds, AlreadyOrdered
<1> QED BY <1>1, IInvAlways, PTL

(* validatingOBEntry never blocks for good at a validator whose share is   *)
(* counted.                                                                *)
THEOREM SignersNeverStall == Spec => []VotersNeverStall
<1>1. IInv => VotersNeverStall
  BY DEF IInv, ShareInv, VotersNeverStall, Stalled
<1> QED BY <1>1, IInvAlways, PTL
=============================================================================
