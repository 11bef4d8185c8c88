-------------------------- MODULE OrderingRefinement --------------------------
(***************************************************************************)
(* Ordering implements OrderedLog, for every value of the constants: each  *)
(* step of the proposer and of a validator is a step of the total order    *)
(* log, or leaves it alone.  The refinement mapping is the one of module   *)
(* Ordering (Log == INSTANCE OrderedLog WITH ...).                         *)
(***************************************************************************)
EXTENDS OrderingProofs

Certified(b) == {v \in Validators : cmtSnapshot[v][b] = "signed"}

(* A step that changes no snapshot of a validator, nor the log: the log    *)
(* stutters.                                                               *)
LEMMA LogStutter ==
    ASSUME UNCHANGED <<booth, cmtSnapshot, vgrec, sealed>>
    PROVE  UNCHANGED Log!logVars
BY DEF Log!logVars, Holders

(* The maps of holders and of certified validators, as the log sees them. *)
LEMMA HeldAfter ==
    ASSUME TypeOK, NEW b \in Blocks, NEW v \in Validators,
           NEW s \in {"unsigned", "signed"},
           cmtSnapshot' = [cmtSnapshot EXCEPT ![v][b] = s]
    PROVE  /\ \A c \in Blocks : Holders(c)' = IF c = b THEN Holders(b) \cup {v} ELSE Holders(c)
           /\ \A c \in Blocks :
                Certified(c)' = IF c = b THEN IF s = "signed" THEN Certified(b) \cup {v}
                                                               ELSE Certified(b) \ {v}
                                         ELSE Certified(c)
<1>1. \A w \in Validators, c \in Blocks :
        cmtSnapshot'[w][c] = IF w = v /\ c = b THEN s ELSE cmtSnapshot[w][c]
  BY DEF TypeOK
<1>2. ASSUME NEW c \in Blocks
      PROVE  Holders(c)' = IF c = b THEN Holders(b) \cup {v} ELSE Holders(c)
  BY <1>1 DEF Holders
<1>3. ASSUME NEW c \in Blocks
      PROVE  Certified(c)' = IF c = b THEN IF s = "signed" THEN Certified(b) \cup {v}
                                                            ELSE Certified(b) \ {v}
                                      ELSE Certified(c)
  BY <1>1 DEF Certified
<1> QED BY <1>2, <1>3

(* The instance's own copy of Cardinality counts like the original. *)
LEMMA SameCardinality ==
    ASSUME NEW S PROVE Log!Cardinality(S) = Cardinality(S)
BY DEF Cardinality, Log!Cardinality

-----------------------------------------------------------------------------
(* makeAndBroadcast proposes the next block. *)
LEMMA MakeProposes ==
    ASSUME IInv, NEW B \in Booths, MakeAndBroadcast(B)
    PROVE  Log!LogNext
<1>1. PICK b \in Blocks : b = logIndex
  BY OrderingAssumption DEF MakeAndBroadcast, IInv, TypeOK, Blocks
<1>2. booth[b] = NoBooth /\ \A c \in Blocks : c < b => booth[c] # NoBooth
  BY <1>1 DEF IInv, MadeInv, TypeOK
<1>3. /\ booth' = [booth EXCEPT ![b] = B]
      /\ vgrec' = vgrec /\ sealed' = sealed /\ cmtSnapshot' = cmtSnapshot
  BY <1>1 DEF MakeAndBroadcast, validatorVars
<1>4. Log!Propose(b, B)
  BY <1>2, <1>3 DEF Log!Propose, Log!Blocks, Blocks, Holders
<1> QED BY <1>4 DEF Log!LogNext, Log!Blocks, Blocks

(* The reply that completes a block's threshold orders it; another reply   *)
(* leaves the log alone.                                                   *)
LEMMA ReplyOrders ==
    ASSUME IInv, NEW b \in Blocks, NEW v \in Validators, AsyncHandleOBReply(b, v)
    PROVE  [Log!LogNext]_(Log!logVars)
<1>1. booth' = booth /\ sealed' = sealed /\ cmtSnapshot' = cmtSnapshot
  BY DEF AsyncHandleOBReply, validatorVars
<1>2. CASE vgrec' = vgrec
  BY <1>1, <1>2, LogStutter
<1>3. CASE vgrec' # vgrec
  <2> DEFINE agg == Append(sigs[b], v)
  <2>1. /\ booth[b] # NoBooth
        /\ ~Ordered(b)
        /\ cmtSnapshot[v][b] # "absent"
        /\ agg \in Seq(Validators)
        /\ IsInjective(agg)
        /\ Range(agg) = Range(sigs[b]) \cup {v}
        /\ Len(agg) = Threshold(booth[b])
        /\ vgrec' = Append(vgrec, b)
    BY <1>3, ReplyEffect
  <2> HIDE DEF agg
  <2>2. Cardinality(Range(agg)) = Threshold(booth[b])
    BY <2>1, InjectiveCardinality
  <2>3. Range(agg) \subseteq Holders(b) /\ IsFiniteSet(Holders(b))
    BY <2>1, SignersAreHolders DEF Holders
  <2>4. /\ Cardinality(Range(agg)) <= Cardinality(Holders(b))
        /\ Cardinality(Holders(b)) \in Nat
        /\ Threshold(booth[b]) \in Nat
    BY <2>1, <2>3, FS_Subset, FS_CardinalityType, MadeBooth DEF IInv
  <2>5. Cardinality(Holders(b)) >= Threshold(booth[b])
    BY <2>2, <2>4
  <2>6. Log!Order(b)
    BY <1>1, <2>1, <2>5, SameCardinality
       DEF Log!Order, Log!Ordered, Ordered, Log!Range, Range, Log!Blocks, Blocks, Holders,
           Log!Threshold, Threshold, Log!getThreshold, getThreshold
  <2> QED BY <2>6 DEF Log!LogNext, Log!Blocks, Blocks
<1> QED BY <1>2, <1>3

(* The rest of that handler seals the block. *)
LEMMA SealSeals ==
    ASSUME IInv, NEW b \in Blocks, SealAndBroadcast(b)
    PROVE  Log!LogNext
<1>1. Ordered(b) /\ b \notin sealed
  BY DEF SealAndBroadcast, IInv, LogInv
<1>2. Log!Seal(b)
  BY <1>1 DEF SealAndBroadcast, validatorVars, Log!Seal, Log!Ordered, Ordered, Log!Range, Range, Holders
<1> QED BY <1>2 DEF Log!LogNext, Log!Blocks, Blocks

(* Storing the snapshot makes the validator a holder. *)
LEMMA OAFinishHolds ==
    ASSUME IInv, NEW b \in Blocks, NEW v \in Validators, OAFinish(v, b)
    PROVE  Log!LogNext
<1>1. /\ booth[b] # NoBooth
      /\ v \in Members(booth[b])
      /\ cmtSnapshot[v][b] = "absent"
  BY DEF OAFinish, IInv, HandlerInv, MadeInv
<1>2. /\ booth' = booth /\ vgrec' = vgrec /\ sealed' = sealed
      /\ cmtSnapshot' = [cmtSnapshot EXCEPT ![v][b] = "unsigned"]
  BY DEF OAFinish, proposerVars
<1>3. /\ \A c \in Blocks : Holders(c)' = IF c = b THEN Holders(b) \cup {v} ELSE Holders(c)
      /\ \A c \in Blocks : Certified(c)' = IF c = b THEN Certified(b) \ {v} ELSE Certified(c)
  BY <1>2, HeldAfter DEF IInv
<1>4. v \notin Holders(b)
  BY <1>1 DEF Holders
<1>5. /\ [c \in Blocks |-> Holders(c)]' = [[c \in Blocks |-> Holders(c)] EXCEPT ![b] = @ \cup {v}]
      /\ [c \in Blocks |-> Certified(c)]' = [[c \in Blocks |-> Certified(c)] EXCEPT ![b] = @ \ {v}]
  BY <1>3
<1>6. Log!Hold(b, v)
  BY <1>1, <1>2, <1>4, <1>5
     DEF Log!Hold, Log!Blocks, Blocks, Log!Members, Members, Certified
<1> QED BY <1>6 DEF Log!LogNext, Log!Blocks, Blocks

(* Storing the threshold signature certifies the block at the validator. *)
LEMMA OBFinishCertifies ==
    ASSUME IInv, NEW b \in Blocks, NEW v \in Validators, OBFinish(v, b)
    PROVE  Log!LogNext
<1>1. cmtSnapshot[v][b] # "absent" /\ b \in sealed
  BY OBFinishFindsBlock
<1>2. /\ booth' = booth /\ vgrec' = vgrec /\ sealed' = sealed
      /\ cmtSnapshot' = [cmtSnapshot EXCEPT ![v][b] = "signed"]
  BY DEF OBFinish, proposerVars
<1>3. /\ \A c \in Blocks : Holders(c)' = IF c = b THEN Holders(b) \cup {v} ELSE Holders(c)
      /\ \A c \in Blocks : Certified(c)' = IF c = b THEN Certified(b) \cup {v} ELSE Certified(c)
  BY <1>2, HeldAfter DEF IInv
<1>4. v \in Holders(b)
  BY <1>1 DEF Holders
<1>5. /\ [c \in Blocks |-> Holders(c)]' = [c \in Blocks |-> Holders(c)]
      /\ [c \in Blocks |-> Certified(c)]' = [[c \in Blocks |-> Certified(c)] EXCEPT ![b] = @ \cup {v}]
  BY <1>3, <1>4
<1>6. Log!Certify(b, v)
  BY <1>1, <1>2, <1>4, <1>5 DEF Log!Certify, Log!Blocks, Blocks, Certified
<1> QED BY <1>6 DEF Log!LogNext, Log!Blocks, Blocks

-----------------------------------------------------------------------------
(* No block was proposed and nobody holds one. *)
LEMMA InitRefines == Init => Log!LogInit
BY DEF Init, Log!LogInit, Log!Blocks, Blocks, Holders

(* Every step is a step of the log or leaves it alone. *)
LEMMA StepRefines == IInv /\ [Next]_vars => [Log!LogNext]_(Log!logVars)
<1> SUFFICES ASSUME IInv, [Next]_vars PROVE [Log!LogNext]_(Log!logVars)
  OBVIOUS
<1>1. ASSUME NEW B \in Booths, MakeAndBroadcast(B) PROVE Log!LogNext
  BY <1>1, MakeProposes
<1>2. ASSUME NEW b \in Blocks, SealAndBroadcast(b) PROVE Log!LogNext
  BY <1>2, SealSeals
<1>3. ASSUME NEW b \in Blocks, NEW v \in Validators, AsyncHandleOBReply(b, v)
      PROVE  [Log!LogNext]_(Log!logVars)
  BY <1>3, ReplyOrders
<1>4. ASSUME NEW b \in Blocks, NEW v \in Validators, ValidatorStep(v, b)
      PROVE  [Log!LogNext]_(Log!logVars)
  <2>1. CASE OAStore(v, b)
    BY <2>1, LogStutter DEF OAStore, proposerVars
  <2>2. CASE OAFinish(v, b)
    BY <2>2, OAFinishHolds
  <2>3. CASE OBIgnore(v, b)
    BY <2>3, LogStutter DEF OBIgnore, proposerVars, validatorVars
  <2>4. CASE OBLock(v, b)
    BY <2>4, LogStutter DEF OBLock, proposerVars
  <2>5. CASE OBPanic(v, b)
    BY <2>5, LogStutter DEF OBPanic, proposerVars, validatorVars
  <2>6. CASE OBFinish(v, b)
    BY <2>6, OBFinishCertifies
  <2> QED BY <1>4, <2>1, <2>2, <2>3, <2>4, <2>5, <2>6 DEF ValidatorStep
<1>5. ASSUME NEW v \in Validators, Crash(v) PROVE [Log!LogNext]_(Log!logVars)
  BY <1>5, LogStutter DEF Crash, proposerVars, validatorVars
<1>6. CASE UNCHANGED vars
  BY <1>6, LogStutter DEF vars, proposerVars, validatorVars
<1> QED BY <1>1, <1>2, <1>3, <1>4, <1>5, <1>6 DEF Next, ProposerNext

(* The ordering phase implements the total order log that the consensus    *)
(* phase is specified over: no block enters the log twice, without a       *)
(* threshold of holders, or out of a booth that was not proposed.          *)
THEOREM OrderingImplementsLog == Spec => RefinesOrderedLog
<1>1. Spec => []IInv
  BY IInvAlways
<1> QED BY <1>1, InitRefines, StepRefines, PTL DEF Spec, RefinesOrderedLog, Log!LogSpec
=============================================================================
