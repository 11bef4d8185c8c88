---------------------------- MODULE BatchingProofs ----------------------------
(***************************************************************************)
(* Theorems about module Batching: for any command line and any number of  *)
(* workers no message is lost, duplicated or reordered on its way into the *)
(* blocks, and a block is never too large; for one worker the blocks are   *)
(* numbered in sequence and stored under their numbers.                    *)
(*                                                                         *)
(* The buffer is swapped for the block while the block is under way, and   *)
(* restored afterwards.  WInv says, for each point of makeAndBroadcast,    *)
(* where a worker's messages are; that nothing is ever left over (rest)    *)
(* follows from the back pressure on the input.  IndexInv bounds the block *)
(* ids by counting the blocks the workers can have cut.                    *)
(***************************************************************************)
EXTENDS Batching, SequenceTheorems, FiniteSetTheorems, TLAPS

Messages == Workers \X Nat
Labels == {"receive", "index", "increment", "ord", "cmt", "send"}

(* What w has taken from its queue and not broadcast yet. *)
Buffered(w) == IF pc[w] = "receive" THEN shuffle[w] ELSE local[w]

(* The state that all workers share with one another, as far as the        *)
(* workers' own progress needs it.                                         *)
CommonInv ==
    /\ flags \in CommandLines
    /\ sent \in Seq([id : Nat, batch : Seq(Messages)])
    /\ logIndex \in Nat
    /\ requestQueue \in [Workers -> Seq(Messages)]
    /\ shuffle \in [Workers -> Seq(Messages)]
    /\ rest \in [Workers -> Seq(Messages)]
    /\ local \in [Workers -> Seq(Messages)]
    /\ out \in [Workers -> Seq(Messages)]
    /\ blockId \in [Workers -> Nat]
    /\ pc \in [Workers -> Labels]
    /\ \A n \in 1 .. Len(sent) : Len(sent[n].batch) \in 1 .. BatchSize

(* Where the messages of a worker are. *)
WInv ==
    \A w \in Workers :
        /\ out[w] \o (Buffered(w) \o requestQueue[w]) = Input(w)
        /\ rest[w] = << >>
        /\ pc[w] = "send" => shuffle[w] = << >>
        /\ pc[w] = "receive" => /\ Len(shuffle[w]) <= BatchSize
                                /\ ~UsePeriodicOrdering => Len(shuffle[w]) < BatchSize
        /\ pc[w] # "receive" => /\ Len(local[w]) \in 1 .. BatchSize
                                /\ ~UsePeriodicOrdering => Len(local[w]) = BatchSize

BatchInv == CommonInv /\ WInv

-----------------------------------------------------------------------------
LEMMA FlagTypes == ASSUME flags \in CommandLines
                   PROVE  /\ UsePeriodicOrdering \in BOOLEAN /\ NumOfValidators \in Nat
                          /\ MsgLoad \in Nat /\ BatchSize \in Nat \ {0}
BY BatchingAssumption DEF UsePeriodicOrdering, NumOfValidators, MsgLoad, BatchSize

LEMMA InputType == ASSUME flags \in CommandLines, NEW w \in Workers
                   PROVE  /\ Input(w) \in Seq(Messages)
                          /\ w < NumOfValidators => Len(Input(w)) = MsgLoad
                          /\ ~(w < NumOfValidators) => Input(w) = << >>
<1>1. MsgLoad \in Nat
  BY FlagTypes
<1>2. [n \in 1 .. MsgLoad |-> <<w, n>>] \in Seq(Messages)
  BY <1>1, IsASeq DEF Messages
<1>3. Len([n \in 1 .. MsgLoad |-> <<w, n>>]) = MsgLoad
  BY <1>1, <1>2, LenProperties
<1> QED BY <1>2, <1>3, EmptySeq DEF Input

(* Taking the first queued message moves it to the end of the buffer. *)
LEMMA MoveHead ==
    ASSUME NEW S, NEW s \in Seq(S), NEW q \in Seq(S), q # << >>
    PROVE  Append(s, Head(q)) \o Tail(q) = s \o q
<1>1. Head(q) \in S /\ Tail(q) \in Seq(S)
  BY HeadTailProperties
<1>2. q = <<Head(q)>> \o Tail(q)
  <2>1. /\ Len(q) \in Nat \ {0} /\ Len(Tail(q)) = Len(q) - 1
        /\ \A i \in 1 .. Len(Tail(q)) : Tail(q)[i] = q[i + 1]
    BY HeadTailProperties, EmptySeq, LenProperties
  <2>2. <<Head(q)>> \in Seq(S) /\ Len(<<Head(q)>>) = 1 /\ <<Head(q)>>[1] = q[1]
    BY <1>1
  <2>3. /\ <<Head(q)>> \o Tail(q) \in Seq(S)
        /\ Len(<<Head(q)>> \o Tail(q)) = Len(q)
        /\ \A i \in 1 .. Len(q) : (<<Head(q)>> \o Tail(q))[i] = q[i]
    BY <1>1, <2>1, <2>2, ConcatProperties
  <2> QED BY <2>3, SeqEqual
<1>3. Append(s, Head(q)) = s \o <<Head(q)>>
  BY <1>1, AppendIsConcat
<1>4. <<Head(q)>> \in Seq(S)
  BY <1>1
<1>5. (s \o <<Head(q)>>) \o Tail(q) = s \o (<<Head(q)>> \o Tail(q))
  BY <1>1, <1>4, ConcatAssociative
<1> QED BY <1>2, <1>3, <1>5

(* Pieces of a worker's messages may be joined in any order of joining. *)
LEMMA JoinMessages ==
    \A s, t, u \in Seq(Messages) : (s \o t) \o u = s \o (t \o u)
BY ConcatAssociative

-----------------------------------------------------------------------------
LEMMA InitBatchInv == Init => BatchInv
<1> SUFFICES ASSUME Init PROVE BatchInv
  OBVIOUS
<1>1. << >> \in Seq(Messages) /\ << >> \in Seq([id : Nat, batch : Seq(Messages)])
  BY EmptySeq
<1>2. BatchSize \in Nat \ {0} /\ UsePeriodicOrdering \in BOOLEAN
  BY FlagTypes DEF Init
<1>3. ASSUME NEW w \in Workers
      PROVE  out[w] \o (Buffered(w) \o requestQueue[w]) = Input(w)
  <2>1. Input(w) \in Seq(Messages)
    BY InputType DEF Init
  <2>2. out[w] = << >> /\ Buffered(w) = << >> /\ requestQueue[w] = Input(w)
    BY DEF Init, Buffered
  <2>3. << >> \o Input(w) = Input(w)
    BY <2>1, ConcatEmptySeq
  <2> QED BY <2>2, <2>3
<1>4. CommonInv
  <2>1. requestQueue \in [Workers -> Seq(Messages)]
    BY InputType DEF Init
  <2> QED BY <1>1, <2>1 DEF Init, CommonInv, Labels
<1>5. \A w \in Workers : Len(shuffle[w]) = 0
  BY DEF Init
<1>6. WInv
  BY <1>2, <1>3, <1>5 DEF Init, WInv
<1> QED BY <1>4, <1>6 DEF BatchInv

(* A step of one worker leaves the others' messages where they are. *)
LEMMA OthersUnchanged ==
    ASSUME BatchInv, NEW w \in Workers, Step(w)
    PROVE  /\ \A v \in Workers \ {w} : /\ requestQueue'[v] = requestQueue[v]
                                       /\ shuffle'[v] = shuffle[v]
                                       /\ rest'[v] = rest[v]
                                       /\ local'[v] = local[v]
                                       /\ out'[v] = out[v]
                                       /\ pc'[v] = pc[v]
                                       /\ blockId'[v] = blockId[v]
           /\ flags' = flags
<1> USE DEF BatchInv, CommonInv, Goto
<1>1. CASE Receive(w)
  BY <1>1 DEF Receive
<1>2. CASE Tick(w)
  BY <1>2 DEF Tick
<1>3. CASE GetLogIndex(w)
  BY <1>3 DEF GetLogIndex
<1>4. CASE IncrementLogIndex(w)
  BY <1>4 DEF IncrementLogIndex
<1>5. CASE StoreOrdSnapshot(w)
  BY <1>5 DEF StoreOrdSnapshot
<1>6. CASE StoreCmtSnapshot(w)
  BY <1>6 DEF StoreCmtSnapshot
<1>7. CASE BroadcastOPA(w)
  BY <1>7 DEF BroadcastOPA
<1> QED BY <1>1, <1>2, <1>3, <1>4, <1>5, <1>6, <1>7 DEF Step

(* The invariant about a worker, for the worker that moves. *)
WorkerInv(w) ==
    /\ out[w] \o (Buffered(w) \o requestQueue[w]) = Input(w)
    /\ rest[w] = << >>
    /\ pc[w] = "send" => shuffle[w] = << >>
    /\ pc[w] = "receive" => /\ Len(shuffle[w]) <= BatchSize
                            /\ ~UsePeriodicOrdering => Len(shuffle[w]) < BatchSize
    /\ pc[w] # "receive" => /\ Len(local[w]) \in 1 .. BatchSize
                            /\ ~UsePeriodicOrdering => Len(local[w]) = BatchSize

LEMMA ReceiveInv ==
    ASSUME BatchInv, NEW w \in Workers, Receive(w)
    PROVE  CommonInv' /\ WorkerInv(w)'
<1> DEFINE entries == Append(shuffle[w], Head(requestQueue[w]))
<1>1. /\ pc[w] = "receive" /\ requestQueue[w] # << >>
      /\ ~UsePeriodicOrdering \/ Len(shuffle[w]) < BatchSize
      /\ requestQueue' = [requestQueue EXCEPT ![w] = Tail(@)]
      /\ shuffle' = [shuffle EXCEPT ![w] = entries]
      /\ IF ~UsePeriodicOrdering /\ Len(entries) >= BatchSize
         THEN /\ local' = [local EXCEPT ![w] = entries]
              /\ pc' = [pc EXCEPT ![w] = "index"]
         ELSE UNCHANGED <<local, pc>>
      /\ UNCHANGED <<flags, logIndex, sent, rest, blockId, out>>
  BY DEF Receive, AcceptsInput, ShouldCut, LocalEntries, Goto
<1>2. /\ shuffle[w] \in Seq(Messages) /\ requestQueue[w] \in Seq(Messages)
      /\ Len(shuffle[w]) \in Nat
  BY DEF BatchInv, CommonInv
<1>3. BatchSize \in Nat \ {0} /\ UsePeriodicOrdering \in BOOLEAN
  BY FlagTypes DEF BatchInv, CommonInv
<1>4. /\ entries \in Seq(Messages) /\ Tail(requestQueue[w]) \in Seq(Messages)
      /\ Len(entries) = Len(shuffle[w]) + 1
  BY <1>1, <1>2, HeadTailProperties, AppendProperties
<1>5. entries \o Tail(requestQueue[w]) = shuffle[w] \o requestQueue[w]
  BY <1>1, <1>2, MoveHead
<1> HIDE DEF entries
<1>6. /\ BatchSize' = BatchSize /\ UsePeriodicOrdering' = UsePeriodicOrdering
      /\ Input(w)' = Input(w)
  BY <1>1 DEF BatchSize, UsePeriodicOrdering, Input, NumOfValidators, MsgLoad
<1>7. CommonInv'
  BY <1>1, <1>4, <1>6 DEF BatchInv, CommonInv, Labels
<1>8. /\ requestQueue'[w] = Tail(requestQueue[w]) /\ shuffle'[w] = entries
      /\ Buffered(w)' = entries
      /\ pc'[w] # "receive" => local'[w] = entries
  BY <1>1 DEF Buffered, BatchInv, CommonInv
<1>9. out'[w] \o (Buffered(w)' \o requestQueue'[w]) = Input(w)'
  <2>1. out[w] \o (shuffle[w] \o requestQueue[w]) = Input(w)
    BY <1>1 DEF BatchInv, WInv, Buffered
  <2> QED BY <1>1, <1>5, <1>6, <1>8, <2>1
<1>10. Len(shuffle[w]) <= BatchSize /\ (~UsePeriodicOrdering => Len(shuffle[w]) < BatchSize)
  BY <1>1 DEF BatchInv, WInv
<1>11. /\ pc'[w] = "receive" => ~(~UsePeriodicOrdering /\ Len(entries) >= BatchSize)
       /\ pc'[w] # "receive" => ~UsePeriodicOrdering /\ Len(entries) >= BatchSize
       /\ pc'[w] # "send"
  BY <1>1 DEF BatchInv, CommonInv
<1>12. rest'[w] = << >>
  BY <1>1 DEF BatchInv, WInv
<1>13. /\ pc'[w] = "receive" => /\ Len(entries) <= BatchSize
                                /\ ~UsePeriodicOrdering => Len(entries) < BatchSize
       /\ pc'[w] # "receive" => Len(entries) = BatchSize
  BY <1>1, <1>2, <1>3, <1>4, <1>10, <1>11
<1>14. pc'[w] = "receive" => /\ Len(shuffle'[w]) <= BatchSize'
                             /\ ~UsePeriodicOrdering' => Len(shuffle'[w]) < BatchSize'
  BY <1>1, <1>8, <1>13 DEF BatchSize, UsePeriodicOrdering
<1>15. pc'[w] # "receive" => /\ Len(local'[w]) \in 1 .. BatchSize'
                             /\ ~UsePeriodicOrdering' => Len(local'[w]) = BatchSize'
  BY <1>3, <1>6, <1>8, <1>13
<1>16. pc'[w] # "send"
  BY <1>11
<1> QED BY <1>7, <1>9, <1>12, <1>14, <1>15, <1>16 DEF WorkerInv

LEMMA TickInv ==
    ASSUME BatchInv, NEW w \in Workers, Tick(w)
    PROVE  CommonInv' /\ WorkerInv(w)'
<1> DEFINE cnt == Len(shuffle[w])
           takeN == IF cnt < BatchSize THEN cnt ELSE BatchSize
<1>1. /\ UsePeriodicOrdering /\ pc[w] = "receive" /\ cnt # 0
      /\ rest' = [rest EXCEPT ![w] = SubSeq(shuffle[w], takeN + 1, cnt)]
      /\ shuffle' = [shuffle EXCEPT ![w] = SubSeq(shuffle[w], 1, takeN)]
      /\ local' = [local EXCEPT ![w] = SubSeq(shuffle[w], 1, takeN)]
      /\ pc' = [pc EXCEPT ![w] = "index"]
      /\ UNCHANGED <<flags, logIndex, sent, requestQueue, blockId, out>>
  BY DEF Tick, LocalEntries, Goto
<1>2. shuffle[w] \in Seq(Messages) /\ cnt \in Nat
  BY DEF BatchInv, CommonInv
<1>3. BatchSize \in Nat \ {0}
  BY FlagTypes DEF BatchInv, CommonInv
<1>4. cnt <= BatchSize
  BY <1>1 DEF BatchInv, WInv
<1>5. takeN = cnt
  BY <1>2, <1>3, <1>4
<1>6. SubSeq(shuffle[w], 1, takeN) = shuffle[w] /\ SubSeq(shuffle[w], takeN + 1, cnt) = << >>
  BY <1>2, <1>5, SubSeqFull, SubSeqEmpty
<1>7. << >> \in Seq(Messages)
  BY EmptySeq
<1>8. /\ BatchSize' = BatchSize /\ UsePeriodicOrdering' = UsePeriodicOrdering
      /\ Input(w)' = Input(w)
  BY <1>1 DEF BatchSize, UsePeriodicOrdering, Input, NumOfValidators, MsgLoad
<1>9. CommonInv'
  BY <1>1, <1>2, <1>6, <1>7, <1>8 DEF BatchInv, CommonInv, Labels
<1>10. /\ rest'[w] = << >> /\ local'[w] = shuffle[w] /\ pc'[w] = "index"
       /\ Buffered(w)' = shuffle[w]
  BY <1>1, <1>6 DEF Buffered, BatchInv, CommonInv
<1>11. out'[w] \o (Buffered(w)' \o requestQueue'[w]) = Input(w)'
  <2>1. out[w] \o (shuffle[w] \o requestQueue[w]) = Input(w)
    BY <1>1 DEF BatchInv, WInv, Buffered
  <2> QED BY <1>1, <1>8, <1>10, <2>1
<1> QED BY <1>1, <1>2, <1>3, <1>4, <1>8, <1>9, <1>10, <1>11
       DEF WorkerInv, BatchSize, UsePeriodicOrdering

(* The index and the snapshots: the worker's messages stay. *)
LEMMA StoreInv ==
    ASSUME BatchInv, NEW w \in Workers,
           \/ GetLogIndex(w)
           \/ IncrementLogIndex(w)
           \/ StoreOrdSnapshot(w)
           \/ StoreCmtSnapshot(w)
    PROVE  CommonInv' /\ WorkerInv(w)'
<1>1. /\ pc[w] \in {"index", "increment", "ord", "cmt"}
      /\ \E label \in Labels \ {"receive"} : /\ pc' = [pc EXCEPT ![w] = label]
                                             /\ label = "send" => shuffle'[w] = << >>
      /\ shuffle' = shuffle \/ shuffle' = [shuffle EXCEPT ![w] = << >>]
      /\ blockId' = blockId \/ blockId' = [blockId EXCEPT ![w] = logIndex]
      /\ logIndex' = logIndex \/ logIndex' = logIndex + 1
      /\ UNCHANGED <<flags, sent, requestQueue, rest, local, out>>
  BY DEF GetLogIndex, IncrementLogIndex, Incremented, StoreOrdSnapshot, StoreCmtSnapshot,
         Goto, Labels, BatchInv, CommonInv
<1>2. << >> \in Seq(Messages)
  BY EmptySeq
<1>3. /\ BatchSize' = BatchSize /\ UsePeriodicOrdering' = UsePeriodicOrdering
      /\ Input(w)' = Input(w)
  BY <1>1 DEF BatchSize, UsePeriodicOrdering, Input, NumOfValidators, MsgLoad
<1>4. CommonInv'
  <2>1. pc' \in [Workers -> Labels]
    BY <1>1 DEF BatchInv, CommonInv
  <2>2. shuffle' \in [Workers -> Seq(Messages)]
    BY <1>1, <1>2 DEF BatchInv, CommonInv
  <2>3. logIndex' \in Nat /\ blockId' \in [Workers -> Nat]
    BY <1>1 DEF BatchInv, CommonInv
  <2> QED BY <1>1, <1>3, <2>1, <2>2, <2>3 DEF BatchInv, CommonInv
<1>5. /\ pc'[w] # "receive" /\ Buffered(w)' = local[w] /\ Buffered(w) = local[w]
      /\ pc'[w] = "send" => shuffle'[w] = << >>
  BY <1>1 DEF Buffered, BatchInv, CommonInv
<1> QED BY <1>1, <1>3, <1>4, <1>5 DEF BatchInv, WInv, WorkerInv

LEMMA BroadcastInv ==
    ASSUME BatchInv, NEW w \in Workers, BroadcastOPA(w)
    PROVE  CommonInv' /\ WorkerInv(w)'
<1>1. /\ pc[w] = "send"
      /\ sent' = Append(sent, [id |-> blockId[w], batch |-> local[w]])
      /\ shuffle' = [shuffle EXCEPT ![w] = IF UsePeriodicOrdering THEN rest[w] ELSE @]
      /\ rest' = [rest EXCEPT ![w] = << >>]
      /\ local' = [local EXCEPT ![w] = << >>]
      /\ pc' = [pc EXCEPT ![w] = "receive"]
      /\ out' = [out EXCEPT ![w] = @ \o local[w]]
      /\ UNCHANGED <<flags, logIndex, requestQueue, blockId>>
  BY DEF BroadcastOPA, Goto
<1>2. /\ local[w] \in Seq(Messages) /\ out[w] \in Seq(Messages)
      /\ requestQueue[w] \in Seq(Messages) /\ << >> \in Seq(Messages)
      /\ out[w] \o local[w] \in Seq(Messages)
      /\ sent \in Seq([id : Nat, batch : Seq(Messages)])
      /\ [id |-> blockId[w], batch |-> local[w]] \in [id : Nat, batch : Seq(Messages)]
  BY ConcatProperties, EmptySeq DEF BatchInv, CommonInv
<1>3. /\ rest[w] = << >> /\ shuffle[w] = << >> /\ Len(local[w]) \in 1 .. BatchSize
      /\ out[w] \o (local[w] \o requestQueue[w]) = Input(w)
  BY <1>1 DEF BatchInv, WInv, Buffered
<1>4. BatchSize \in Nat \ {0} /\ UsePeriodicOrdering \in BOOLEAN
  BY FlagTypes DEF BatchInv, CommonInv
<1>5. /\ BatchSize' = BatchSize /\ UsePeriodicOrdering' = UsePeriodicOrdering
      /\ Input(w)' = Input(w)
  BY <1>1 DEF BatchSize, UsePeriodicOrdering, Input, NumOfValidators, MsgLoad
<1>6. CommonInv'
  <2>1. /\ sent' \in Seq([id : Nat, batch : Seq(Messages)])
        /\ \A n \in 1 .. Len(sent') : Len(sent'[n].batch) \in 1 .. BatchSize
    <3>1. /\ sent' \in Seq([id : Nat, batch : Seq(Messages)])
          /\ Len(sent') = Len(sent) + 1 /\ Len(sent) \in Nat
          /\ \A n \in 1 .. Len(sent) : sent'[n] = sent[n]
          /\ sent'[Len(sent) + 1].batch = local[w]
      BY <1>1, <1>2, AppendProperties
    <3>2. \A n \in 1 .. Len(sent') : n = Len(sent) + 1 \/ n \in 1 .. Len(sent)
      BY <3>1
    <3> QED BY <1>3, <3>1, <3>2 DEF BatchInv, CommonInv
  <2>2. /\ requestQueue' \in [Workers -> Seq(Messages)]
        /\ shuffle' \in [Workers -> Seq(Messages)]
        /\ rest' \in [Workers -> Seq(Messages)]
        /\ local' \in [Workers -> Seq(Messages)]
        /\ out' \in [Workers -> Seq(Messages)]
    BY <1>1, <1>2, <1>3 DEF BatchInv, CommonInv
  <2> QED BY <1>1, <1>5, <2>1, <2>2 DEF BatchInv, CommonInv, Labels
<1>7. /\ shuffle'[w] = << >> /\ rest'[w] = << >> /\ pc'[w] = "receive"
      /\ out'[w] = out[w] \o local[w] /\ Buffered(w)' = << >>
  BY <1>1, <1>3 DEF Buffered, BatchInv, CommonInv
<1>8. out'[w] \o (Buffered(w)' \o requestQueue'[w]) = Input(w)'
  <2>1. << >> \o requestQueue[w] = requestQueue[w]
    BY <1>2, ConcatEmptySeq
  <2>2. (out[w] \o local[w]) \o requestQueue[w] = out[w] \o (local[w] \o requestQueue[w])
    BY <1>2, JoinMessages
  <2> QED BY <1>1, <1>3, <1>5, <1>7, <2>1, <2>2
<1>9. Len(shuffle'[w]) = 0
  BY <1>7
<1>10. /\ Len(shuffle'[w]) <= BatchSize'
       /\ ~UsePeriodicOrdering' => Len(shuffle'[w]) < BatchSize'
  BY <1>4, <1>5, <1>9
<1> QED BY <1>6, <1>7, <1>8, <1>10 DEF WorkerInv

-----------------------------------------------------------------------------
LEMMA NextBatchInv == BatchInv /\ [Next]_vars => BatchInv'
<1> SUFFICES ASSUME BatchInv, [Next]_vars PROVE BatchInv'
  OBVIOUS
<1>1. ASSUME NEW w \in Workers, Step(w) PROVE BatchInv'
  <2>1. CommonInv' /\ WorkerInv(w)'
    BY <1>1, ReceiveInv, TickInv, StoreInv, BroadcastInv DEF Step
  <2>2. ASSUME NEW v \in Workers, v # w PROVE WorkerInv(v)'
    <3>1. WorkerInv(v)
      BY DEF BatchInv, WInv, WorkerInv
    <3>2. /\ requestQueue'[v] = requestQueue[v] /\ shuffle'[v] = shuffle[v]
          /\ rest'[v] = rest[v] /\ local'[v] = local[v]
          /\ out'[v] = out[v] /\ pc'[v] = pc[v] /\ flags' = flags
      BY <1>1, <2>2, OthersUnchanged
    <3> QED BY <3>1, <3>2 DEF WorkerInv, Buffered, Input, BatchSize, UsePeriodicOrdering,
                              NumOfValidators, MsgLoad
  <2>3. \A v \in Workers : WorkerInv(v)'
    BY <2>1, <2>2
  <2> QED BY <2>1, <2>3 DEF BatchInv, WInv, WorkerInv
<1>2. CASE UNCHANGED vars
  BY <1>2 DEF vars, workerVars, BatchInv, CommonInv, WInv, Buffered, Input, BatchSize,
              UsePeriodicOrdering, NumOfValidators, MsgLoad
<1> QED BY <1>1, <1>2 DEF Next

LEMMA BatchInvAlways == Spec => []BatchInv
BY InitBatchInv, NextBatchInv, PTL DEF Spec

-----------------------------------------------------------------------------
(* startOrderingPhaseA and makeAndBroadcast neither lose nor duplicate nor *)
(* reorder a worker's messages, in either mode, while several workers use  *)
(* the shared index and snapshots.                                         *)
THEOREM NoMessageLost == Spec => []MessagesConserved
<1>1. BatchInv => MessagesConserved
  <2> SUFFICES ASSUME BatchInv, NEW w \in Workers
               PROVE  out[w] \o (IF pc[w] = "receive" THEN shuffle[w] ELSE local[w] \o rest[w])
                             \o requestQueue[w] = Input(w)
    BY DEF MessagesConserved
  <2>1. /\ local[w] \in Seq(Messages) /\ shuffle[w] \in Seq(Messages)
        /\ out[w] \in Seq(Messages) /\ requestQueue[w] \in Seq(Messages)
    BY DEF BatchInv, CommonInv
  <2>2. rest[w] = << >> /\ out[w] \o (Buffered(w) \o requestQueue[w]) = Input(w)
    BY DEF BatchInv, WInv
  <2>3. local[w] \o rest[w] = local[w]
    BY <2>1, <2>2, ConcatEmptySeq
  <2>4. Buffered(w) \in Seq(Messages)
    BY <2>1 DEF Buffered
  <2>5. (out[w] \o Buffered(w)) \o requestQueue[w] = out[w] \o (Buffered(w) \o requestQueue[w])
    BY <2>1, <2>4, JoinMessages
  <2> QED BY <2>2, <2>3, <2>5 DEF Buffered
<1> QED BY BatchInvAlways, <1>1, PTL

(* No broadcast block is larger than -b messages or empty, and a tick of   *)
(* the periodic mode never has anything to leave over.                     *)
THEOREM BlocksFit == Spec => []BlocksBounded
<1>1. BatchInv => BlocksBounded
  BY DEF BatchInv, CommonInv, WInv, BlocksBounded
<1> QED BY BatchInvAlways, <1>1, PTL

-----------------------------------------------------------------------------
(* One worker: the index counts what was sent, with what is under way.     *)
Numbered ==
    /\ pc[0] \in {"receive", "index", "increment"} => logIndex = Len(sent)
    /\ pc[0] \in {"ord", "cmt", "send"} => logIndex = Len(sent) + 1
    /\ pc[0] \in {"increment", "ord", "cmt", "send"} => blockId[0] = Len(sent)
    /\ pc[0] \in {"cmt", "send"} => ordSnapshot[Len(sent)] = local[0]
    /\ pc[0] = "send" => cmtSnapshot[Len(sent)] = local[0]

(* What was sent is in both maps under its number. *)
Kept ==
    \A n \in 1 .. Len(sent) : /\ sent[n].id = n - 1
                              /\ ordSnapshot[n - 1] = sent[n].batch
                              /\ cmtSnapshot[n - 1] = sent[n].batch

(* How many messages are in the blocks that were sent. *)
Filled ==
    /\ UsePeriodicOrdering => Len(sent) <= Len(out[0])
    /\ ~UsePeriodicOrdering => Len(out[0]) = Len(sent) * BatchSize

SInv ==
    /\ DOMAIN ordSnapshot = BlockIds
    /\ DOMAIN cmtSnapshot = BlockIds
    /\ NumOfValidators = 1 => Kept /\ (0 \in Workers => Numbered /\ Filled)

(* With one worker, the others have no messages and never move. *)
LEMMA OnlyTheFirst ==
    ASSUME BatchInv, NumOfValidators = 1, NEW w \in Workers, Step(w)
    PROVE  w = 0
<1> SUFFICES ASSUME w # 0 PROVE FALSE
  OBVIOUS
<1>1. Input(w) = << >>
  BY BatchingAssumption DEF Input
<1>2. /\ out[w] \in Seq(Messages) /\ requestQueue[w] \in Seq(Messages)
      /\ shuffle[w] \in Seq(Messages) /\ local[w] \in Seq(Messages)
      /\ Buffered(w) \in Seq(Messages)
  BY DEF BatchInv, CommonInv, Buffered
<1>3. out[w] \o (Buffered(w) \o requestQueue[w]) = << >>
  BY <1>1 DEF BatchInv, WInv
<1>4. Len(Buffered(w)) = 0 /\ Len(requestQueue[w]) = 0
  <2> DEFINE unsentMessages == Buffered(w) \o requestQueue[w]
  <2>1. /\ unsentMessages \in Seq(Messages)
        /\ Len(unsentMessages) = Len(Buffered(w)) + Len(requestQueue[w])
    BY <1>2, ConcatProperties
  <2>2. Len(out[w] \o unsentMessages) = Len(out[w]) + Len(unsentMessages)
    BY <1>2, <2>1, ConcatProperties
  <2>3. Len(out[w] \o unsentMessages) = 0
    BY <1>3, EmptySeq
  <2>4. /\ Len(out[w]) \in Nat /\ Len(Buffered(w)) \in Nat
        /\ Len(requestQueue[w]) \in Nat
    BY <1>2, LenProperties
  <2> HIDE DEF unsentMessages
  <2> QED BY <2>1, <2>2, <2>3, <2>4
<1>5. pc[w] = "receive"
  <2>1. BatchSize \in Nat
    BY FlagTypes DEF BatchInv, CommonInv
  <2>2. pc[w] # "receive" => Len(local[w]) \in 1 .. BatchSize
    BY DEF BatchInv, WInv
  <2>3. pc[w] # "receive" => Len(local[w]) = 0
    BY <1>4 DEF Buffered
  <2> QED BY <2>1, <2>2, <2>3
<1>6. Len(shuffle[w]) = 0 /\ requestQueue[w] = << >>
  BY <1>2, <1>4, <1>5, EmptySeq DEF Buffered
<1> QED BY <1>5, <1>6 DEF Step, Receive, Tick, GetLogIndex, IncrementLogIndex,
                          StoreOrdSnapshot, StoreCmtSnapshot, BroadcastOPA

(* k blocks of size b fit into m messages only if k is at most m / b. *)
LEMMA QuotientBound ==
    ASSUME NEW k \in Nat, NEW b \in Nat \ {0}, NEW m \in Nat, k * b <= m
    PROVE  k <= m \div b
<1> DEFINE q == m \div b
<1>1. q \in Nat /\ m = (q * b) + (m % b) /\ m % b \in Nat /\ m % b < b
  OBVIOUS
<1> HIDE DEF q
<1>2. SUFFICES ASSUME k > q PROVE FALSE
  BY <1>1 DEF q
<1>3. k - (q + 1) \in Nat
  BY <1>1, <1>2
<1>4. (k - (q + 1)) * b \in Nat
  BY <1>3
<1>5. k * b = (k - (q + 1)) * b + q * b + b
  BY <1>1, <1>3
<1>6. k * b \in Nat /\ q * b \in Nat
  BY <1>1
<1> QED BY <1>1, <1>4, <1>5, <1>6

(* The block under way has a number of its own in the maps. *)
LEMMA RoomForBlock ==
    ASSUME BatchInv, SInv, NumOfValidators = 1, 0 \in Workers, pc[0] # "receive"
    PROVE  Len(sent) \in BlockIds
<1>1. /\ UsePeriodicOrdering \in BOOLEAN /\ MsgLoad \in Nat /\ BatchSize \in Nat \ {0}
      /\ Len(sent) \in Nat
  BY FlagTypes DEF BatchInv, CommonInv
<1>2. /\ out[0] \in Seq(Messages) /\ local[0] \in Seq(Messages)
      /\ requestQueue[0] \in Seq(Messages)
  BY DEF BatchInv, CommonInv
<1>3. Len(out[0]) + (Len(local[0]) + Len(requestQueue[0])) = MsgLoad
  <2>1. out[0] \o (local[0] \o requestQueue[0]) = Input(0)
    BY DEF BatchInv, WInv, Buffered
  <2>2. Len(Input(0)) = MsgLoad
    BY InputType DEF BatchInv, CommonInv
  <2>3. /\ local[0] \o requestQueue[0] \in Seq(Messages)
        /\ Len(local[0] \o requestQueue[0]) = Len(local[0]) + Len(requestQueue[0])
    BY <1>2, ConcatProperties
  <2>4. Len(out[0] \o (local[0] \o requestQueue[0]))
          = Len(out[0]) + Len(local[0] \o requestQueue[0])
    BY <1>2, <2>3, ConcatProperties
  <2> QED BY <2>1, <2>2, <2>3, <2>4
<1>4. Len(local[0]) \in Nat /\ Len(requestQueue[0]) \in Nat /\ Len(out[0]) \in Nat
  BY <1>2, LenProperties
<1>5. Len(local[0]) >= 1 /\ (~UsePeriodicOrdering => Len(local[0]) = BatchSize)
  <2>1. Len(local[0]) \in 1 .. BatchSize /\ (~UsePeriodicOrdering => Len(local[0]) = BatchSize)
    BY DEF BatchInv, WInv
  <2> QED BY <1>1, <2>1
<1>6. Len(out[0]) <= MsgLoad
  <2>1. \A i, j, k \in Nat : i <= i + (j + k)
    OBVIOUS
  <2> QED BY <1>3, <1>4, <2>1
<1>7. CASE UsePeriodicOrdering
  <2>1. Len(sent) <= MsgLoad
    <3>1. Len(sent) <= Len(out[0])
      BY <1>7 DEF SInv, Filled
    <3>2. \A i, j, k \in Nat : i <= j /\ j <= k => i <= k
      OBVIOUS
    <3> QED BY <1>1, <1>4, <1>6, <3>1, <3>2
  <2>2. BlockIds = 0 .. MsgLoad
    BY <1>1, <1>7 DEF BlockIds
  <2> QED BY <1>1, <2>1, <2>2
<1>8. CASE ~UsePeriodicOrdering
  <2>1. Len(out[0]) <= MsgLoad /\ Len(out[0]) = Len(sent) * BatchSize
    <3>1. Len(out[0]) = Len(sent) * BatchSize
      BY <1>8 DEF SInv, Filled
    <3> QED BY <1>6, <3>1
  <2>2. Len(sent) <= MsgLoad \div BatchSize
    BY <1>1, <2>1, QuotientBound
  <2>3. MsgLoad \div BatchSize \in Nat
    BY <1>1
  <2>4. BlockIds = 0 .. (MsgLoad \div BatchSize)
    BY <1>1, <1>8, <2>3 DEF BlockIds
  <2> QED BY <1>1, <2>2, <2>3, <2>4
<1> QED BY <1>7, <1>8

LEMMA InitSInv == Init => SInv
<1> SUFFICES ASSUME Init PROVE SInv
  OBVIOUS
<1>1. /\ Len(sent) = 0 /\ logIndex = 0
      /\ \A w \in Workers : pc[w] = "receive" /\ Len(out[w]) = 0
  BY DEF Init
<1>2. BatchSize \in Nat \ {0}
  BY FlagTypes DEF Init
<1>3. DOMAIN ordSnapshot = BlockIds /\ DOMAIN cmtSnapshot = BlockIds
  BY DEF Init
<1> QED BY <1>1, <1>2, <1>3 DEF SInv, Kept, Numbered, Filled

(* Nothing but the worker's own steps moves the index or the snapshots. *)
LEMMA StepSInv ==
    ASSUME BatchInv, SInv, NEW w \in Workers, Step(w)
    PROVE  SInv'
<1>1. flags' = flags
  BY OthersUnchanged
<1>2. /\ BatchSize' = BatchSize /\ UsePeriodicOrdering' = UsePeriodicOrdering
      /\ NumOfValidators' = NumOfValidators /\ BlockIds' = BlockIds
  BY <1>1 DEF BatchSize, UsePeriodicOrdering, NumOfValidators, BlockIds, MsgLoad
<1>3. DOMAIN ordSnapshot' = BlockIds' /\ DOMAIN cmtSnapshot' = BlockIds'
  BY <1>2 DEF SInv, Step, Receive, Tick, GetLogIndex, IncrementLogIndex,
              StoreOrdSnapshot, StoreCmtSnapshot, BroadcastOPA
<1> SUFFICES ASSUME NumOfValidators = 1
             PROVE  Kept' /\ Numbered' /\ Filled'
  BY <1>2, <1>3 DEF SInv
<1>4. w = 0 /\ 0 \in Workers
  BY OnlyTheFirst
<1>5. Kept /\ Numbered /\ Filled
  BY <1>4 DEF SInv
<1>6. /\ pc \in [Workers -> Labels] /\ blockId \in [Workers -> Nat]
      /\ local \in [Workers -> Seq(Messages)] /\ out \in [Workers -> Seq(Messages)]
      /\ logIndex \in Nat /\ Len(sent) \in Nat
  BY DEF BatchInv, CommonInv
<1>7. ASSUME UNCHANGED <<logIndex, ordSnapshot, cmtSnapshot, sent, blockId, out>>,
             pc[0] = "receive",
             pc' = pc \/ pc' = [pc EXCEPT ![0] = "index"]
      PROVE  Kept' /\ Numbered' /\ Filled'
  BY <1>2, <1>4, <1>5, <1>6, <1>7 DEF Kept, Numbered, Filled
<1>8. CASE Receive(0)
  BY <1>7, <1>8 DEF Receive, Goto
<1>9. CASE Tick(0)
  BY <1>7, <1>9 DEF Tick, Goto
<1>10. CASE GetLogIndex(0)
  BY <1>2, <1>4, <1>5, <1>6, <1>10 DEF GetLogIndex, Goto, Kept, Numbered, Filled
<1>11. CASE IncrementLogIndex(0)
  BY <1>2, <1>4, <1>5, <1>6, <1>11
     DEF IncrementLogIndex, Incremented, Goto, Kept, Numbered, Filled
<1>12. CASE StoreOrdSnapshot(0)
  <2>1. blockId[0] = Len(sent) /\ Len(sent) \in BlockIds
    BY <1>4, <1>5, <1>12, RoomForBlock DEF StoreOrdSnapshot, Numbered
  <2>2. /\ ordSnapshot'[Len(sent)] = local[0]
        /\ \A n \in 1 .. Len(sent) : ordSnapshot'[n - 1] = ordSnapshot[n - 1]
    BY <1>6, <1>12, <2>1 DEF StoreOrdSnapshot, SInv
  <2> QED BY <1>2, <1>4, <1>5, <1>6, <1>12, <2>2
          DEF StoreOrdSnapshot, Goto, Kept, Numbered, Filled
<1>13. CASE StoreCmtSnapshot(0)
  <2>1. blockId[0] = Len(sent) /\ Len(sent) \in BlockIds
    BY <1>4, <1>5, <1>13, RoomForBlock DEF StoreCmtSnapshot, Numbered
  <2>2. /\ cmtSnapshot'[Len(sent)] = local[0]
        /\ \A n \in 1 .. Len(sent) : cmtSnapshot'[n - 1] = cmtSnapshot[n - 1]
    BY <1>6, <1>13, <2>1 DEF StoreCmtSnapshot, SInv
  <2> QED BY <1>2, <1>4, <1>5, <1>6, <1>13, <2>2
          DEF StoreCmtSnapshot, Goto, Kept, Numbered, Filled
<1>14. CASE BroadcastOPA(0)
  <2>1. /\ pc[0] = "send"
        /\ sent' = Append(sent, [id |-> blockId[0], batch |-> local[0]])
        /\ pc'[0] = "receive" /\ out'[0] = out[0] \o local[0]
        /\ UNCHANGED <<logIndex, ordSnapshot, cmtSnapshot>>
    BY <1>4, <1>6, <1>14 DEF BroadcastOPA, Goto
  <2>2. /\ Len(sent') = Len(sent) + 1
        /\ \A n \in 1 .. Len(sent) : sent'[n] = sent[n]
        /\ sent'[Len(sent) + 1] = [id |-> Len(sent), batch |-> local[0]]
    BY <1>5, <2>1 DEF BatchInv, CommonInv, Numbered
  <2>3. Kept'
    BY <1>5, <1>6, <2>1, <2>2 DEF Kept, Numbered
  <2>4. Numbered'
    BY <1>5, <2>1, <2>2 DEF Numbered
  <2>5. /\ Len(out'[0]) = Len(out[0]) + Len(local[0])
        /\ Len(out[0]) \in Nat /\ Len(local[0]) \in Nat
    BY <1>4, <1>6, <2>1, ConcatProperties, LenProperties
  <2>6. /\ Len(local[0]) >= 1
        /\ ~UsePeriodicOrdering => Len(local[0]) = BatchSize
    BY <1>4, <2>1, <2>5, FlagTypes DEF BatchInv, WInv, CommonInv
  <2>7. BatchSize \in Nat
    BY FlagTypes DEF BatchInv, CommonInv
  <2>8. (Len(sent) + 1) * BatchSize = Len(sent) * BatchSize + BatchSize
    BY <1>6, <2>7
  <2>9. UsePeriodicOrdering => Len(sent') <= Len(out'[0])
    <3>1. UsePeriodicOrdering => Len(sent) <= Len(out[0])
      BY <1>5 DEF Filled
    <3> QED BY <1>6, <2>2, <2>5, <2>6, <3>1
  <2>10. ~UsePeriodicOrdering => Len(out'[0]) = Len(sent') * BatchSize
    <3>1. ~UsePeriodicOrdering => Len(out[0]) = Len(sent) * BatchSize
      BY <1>5 DEF Filled
    <3> QED BY <2>2, <2>5, <2>6, <2>8, <3>1
  <2>11. Filled'
    BY <1>2, <2>9, <2>10 DEF Filled
  <2> QED BY <2>3, <2>4, <2>11
<1> QED BY <1>4, <1>8, <1>9, <1>10, <1>11, <1>12, <1>13, <1>14 DEF Step

LEMMA SInvAlways == Spec => []SInv
<1>1. BatchInv /\ SInv /\ [Next]_vars => SInv'
  <2> SUFFICES ASSUME BatchInv, SInv, [Next]_vars PROVE SInv'
    OBVIOUS
  <2>1. CASE UNCHANGED vars
    BY <2>1 DEF vars, workerVars, SInv, Kept, Numbered, Filled, BatchSize, MsgLoad,
                UsePeriodicOrdering, NumOfValidators, BlockIds
  <2> QED BY <2>1, StepSInv DEF Next
<1> QED BY InitSInv, BatchInvAlways, <1>1, PTL DEF Spec

(* One worker's blocks get the ids 0, 1, 2, ..., although the index is     *)
(* read and advanced in two steps.                                         *)
THEOREM IdsInSequence == Spec => []SentInSequence
<1>1. SInv => SentInSequence
  BY DEF SInv, Kept, SentInSequence
<1> QED BY SInvAlways, <1>1, PTL

(* One worker's snapshots are, for good, the batches it broadcast.         *)
THEOREM SnapshotsKept == Spec => []SnapshotsMatchBroadcast
<1>1. SInv => SnapshotsMatchBroadcast
  BY DEF SInv, Kept, SnapshotsMatchBroadcast
<1> QED BY SInvAlways, <1>1, PTL

-----------------------------------------------------------------------------
(* Why there are enough block ids, for any number of workers.  Every       *)
(* advance of the index stands for a block its worker has cut: Claimed     *)
(* counts the messages in them, and Claims has one element for each block  *)
(* that many messages can make.  All workers' blocks together are no more  *)
(* than there are ids.                                                     *)
Claimed(w) == Len(out[w]) + (IF pc[w] \in {"ord", "cmt", "send"} THEN Len(local[w]) ELSE 0)

(* The least a block takes, and how many blocks a worker's messages make. *)
Unit == IF UsePeriodicOrdering THEN 1 ELSE BatchSize
Slots == IF UsePeriodicOrdering THEN MsgLoad ELSE MsgLoad \div BatchSize

Claims ==
    {c \in (0 .. NumOfValidators - 1) \X (1 .. Slots) :
        c[1] \in Workers /\ c[2] * Unit <= Claimed(c[1])}

(* The messages that there are, which the snapshots and buffers hold.      *)
StateType ==
    /\ ordSnapshot \in [BlockIds -> Batches]
    /\ cmtSnapshot \in [BlockIds -> Batches]
    /\ sent \in Seq([id : BlockIds, batch : Batches])
    /\ requestQueue \in [Workers -> Batches]
    /\ shuffle \in [Workers -> Batches]
    /\ rest \in [Workers -> Batches]
    /\ local \in [Workers -> Batches]
    /\ out \in [Workers -> Batches]
    /\ blockId \in [Workers -> BlockIds]

(* Blocks of the batch mode are full, so a worker claims whole units.      *)
IndexInv ==
    /\ logIndex <= Cardinality(Claims)
    /\ \A w \in Workers : \E k \in Nat : Claimed(w) = k * Unit

TInv == StateType /\ IndexInv

LEMMA UnitTypes == ASSUME flags \in CommandLines
                   PROVE  /\ Unit \in Nat \ {0} /\ Slots \in Nat
                          /\ NumOfValidators \in Nat /\ MsgLoad \in Nat
                          /\ BlockIds = 0 .. NumOfValidators * Slots
                          /\ NumOfValidators * Slots \in Nat
<1>1. /\ UsePeriodicOrdering \in BOOLEAN /\ NumOfValidators \in Nat
      /\ MsgLoad \in Nat /\ BatchSize \in Nat \ {0}
  BY FlagTypes
<1>2. MsgLoad \div BatchSize \in Nat
  BY <1>1
<1>3. Unit \in Nat \ {0} /\ Slots \in Nat
  BY <1>1, <1>2 DEF Unit, Slots
<1>4. NumOfValidators * Slots \in Nat
  BY <1>1, <1>3
<1> QED BY <1>1, <1>3, <1>4 DEF BlockIds, Slots

LEMMA ClaimsFinite == ASSUME flags \in CommandLines
                      PROVE  /\ IsFiniteSet(Claims) /\ Cardinality(Claims) \in Nat
                             /\ Cardinality(Claims) <= NumOfValidators * Slots
<1> DEFINE A == 0 .. NumOfValidators - 1
           B == 1 .. Slots
<1>1. NumOfValidators \in Nat /\ Slots \in Nat
  BY UnitTypes
<1>2. /\ IsFiniteSet(A) /\ Cardinality(A) = NumOfValidators
      /\ IsFiniteSet(B) /\ Cardinality(B) = Slots
  <2>1. IsFiniteSet(A) /\ Cardinality(A) = IF 0 > NumOfValidators - 1 THEN 0
                                           ELSE NumOfValidators - 1 - 0 + 1
    BY <1>1, FS_Interval
  <2>2. IsFiniteSet(B) /\ Cardinality(B) = IF 1 > Slots THEN 0 ELSE Slots - 1 + 1
    BY <1>1, FS_Interval
  <2> QED BY <1>1, <2>1, <2>2
<1> HIDE DEF A, B
<1>3. IsFiniteSet(A \X B) /\ Cardinality(A \X B) = NumOfValidators * Slots
  BY <1>2, FS_Product
<1>4. Claims \in SUBSET (A \X B)
  BY DEF Claims, A, B
<1> QED BY <1>3, <1>4, FS_Subset, FS_CardinalityType

LEMMA IndexInBlockIds == ASSUME flags \in CommandLines, logIndex \in Nat, IndexInv
                         PROVE  logIndex \in BlockIds
<1>1. /\ Cardinality(Claims) \in Nat /\ Cardinality(Claims) <= NumOfValidators * Slots
      /\ NumOfValidators * Slots \in Nat /\ BlockIds = 0 .. NumOfValidators * Slots
  BY ClaimsFinite, UnitTypes
<1>2. logIndex <= Cardinality(Claims)
  BY DEF IndexInv
<1>3. \A i, j, k \in Nat : i <= j /\ j <= k => i <= k
  OBVIOUS
<1>4. logIndex <= NumOfValidators * Slots
  BY <1>1, <1>2, <1>3
<1> QED BY <1>1, <1>4

(* How a worker's messages are spread while it makes a block.              *)
LEMMA UnderWay ==
    ASSUME BatchInv, NEW w \in Workers, pc[w] # "receive"
    PROVE  /\ w < NumOfValidators
           /\ Len(out[w]) \in Nat /\ Len(local[w]) \in Nat
           /\ Len(out[w]) + Len(local[w]) <= MsgLoad
           /\ Len(local[w]) >= Unit
           /\ ~UsePeriodicOrdering => Len(local[w]) = Unit
<1>1. /\ UsePeriodicOrdering \in BOOLEAN /\ MsgLoad \in Nat /\ BatchSize \in Nat \ {0}
      /\ NumOfValidators \in Nat
  BY FlagTypes DEF BatchInv, CommonInv
<1>2. /\ out[w] \in Seq(Messages) /\ local[w] \in Seq(Messages)
      /\ requestQueue[w] \in Seq(Messages)
  BY DEF BatchInv, CommonInv
<1>3. Len(Input(w)) = Len(out[w]) + (Len(local[w]) + Len(requestQueue[w]))
  <2>1. out[w] \o (local[w] \o requestQueue[w]) = Input(w)
    BY DEF BatchInv, WInv, Buffered
  <2>2. /\ local[w] \o requestQueue[w] \in Seq(Messages)
        /\ Len(local[w] \o requestQueue[w]) = Len(local[w]) + Len(requestQueue[w])
    BY <1>2, ConcatProperties
  <2>3. Len(out[w] \o (local[w] \o requestQueue[w]))
          = Len(out[w]) + Len(local[w] \o requestQueue[w])
    BY <1>2, <2>2, ConcatProperties
  <2> QED BY <2>1, <2>2, <2>3
<1>4. Len(local[w]) \in Nat /\ Len(requestQueue[w]) \in Nat /\ Len(out[w]) \in Nat
  BY <1>2, LenProperties
<1>5. Len(local[w]) \in 1 .. BatchSize /\ (~UsePeriodicOrdering => Len(local[w]) = BatchSize)
  BY DEF BatchInv, WInv
<1>6. w < NumOfValidators /\ Len(Input(w)) = MsgLoad
  <2>1. Len(Input(w)) # 0
    <3>1. \A i, j, k \in Nat : j >= 1 => i + (j + k) # 0
      OBVIOUS
    <3>2. Len(local[w]) >= 1
      BY <1>1, <1>5
    <3> QED BY <1>3, <1>4, <3>1, <3>2
  <2>2. Input(w) # << >>
    BY <2>1
  <2> QED BY <2>2, InputType DEF BatchInv, CommonInv
<1>7. Len(out[w]) + Len(local[w]) <= MsgLoad
  <2>1. \A i, j, k \in Nat : i + j <= i + (j + k)
    OBVIOUS
  <2> QED BY <1>3, <1>4, <1>6, <2>1
<1>8. Len(local[w]) >= Unit /\ (~UsePeriodicOrdering => Len(local[w]) = Unit)
  BY <1>1, <1>4, <1>5 DEF Unit
<1> QED BY <1>4, <1>6, <1>7, <1>8

LEMMA InitTInv == Init => TInv
<1> SUFFICES ASSUME Init PROVE TInv
  OBVIOUS
<1>1. /\ Unit \in Nat \ {0} /\ MsgLoad \in Nat /\ NumOfValidators * Slots \in Nat
      /\ BlockIds = 0 .. NumOfValidators * Slots
  BY UnitTypes DEF Init
<1>2. << >> \in Batches /\ << >> \in Seq([id : BlockIds, batch : Batches]) /\ 0 \in BlockIds
  BY <1>1, EmptySeq DEF Batches
<1>3. \A w \in Workers : Input(w) \in Batches
  <2> SUFFICES ASSUME NEW w \in Workers PROVE Input(w) \in Batches
    OBVIOUS
  <2>1. [n \in 1 .. MsgLoad |-> <<w, n>>] \in Seq(Workers \X (1 .. MsgLoad))
    BY <1>1, IsASeq
  <2> QED BY <1>2, <2>1 DEF Input, Batches
<1>4. StateType
  BY <1>2, <1>3 DEF Init, StateType, NoBatch
<1>5. Cardinality(Claims) \in Nat /\ logIndex = 0
  BY ClaimsFinite DEF Init
<1>6. \A w \in Workers : Claimed(w) = 0 * Unit
  BY <1>1 DEF Init, Claimed
<1>7. IndexInv
  BY <1>5, <1>6 DEF IndexInv
<1> QED BY <1>4, <1>7 DEF TInv

(* The types, worker by worker, of the one that moves.                     *)
LEMMA StepType ==
    ASSUME BatchInv, TInv, NEW w \in Workers, Step(w)
    PROVE  StateType'
<1>1. /\ flags' = flags /\ BlockIds' = BlockIds /\ Batches' = Batches
      /\ BatchSize \in Nat \ {0}
  BY OthersUnchanged, FlagTypes DEF BlockIds, Batches, NumOfValidators, MsgLoad, BatchSize,
     UsePeriodicOrdering, BatchInv, CommonInv
<1>2. /\ shuffle[w] \in Batches /\ local[w] \in Batches /\ requestQueue[w] \in Batches
      /\ out[w] \in Batches /\ rest[w] \in Batches
      /\ blockId[w] \in BlockIds /\ << >> \in Batches
  BY EmptySeq DEF TInv, StateType, Batches
<1>3. CASE Receive(w)
  <2> DEFINE entries == Append(shuffle[w], Head(requestQueue[w]))
  <2>1. entries \in Batches /\ Tail(requestQueue[w]) \in Batches
    BY <1>2, <1>3, HeadTailProperties, AppendProperties DEF Receive, Batches
  <2>2. /\ requestQueue' = [requestQueue EXCEPT ![w] = Tail(@)]
        /\ shuffle' = [shuffle EXCEPT ![w] = entries]
        /\ local' = local \/ local' = [local EXCEPT ![w] = entries]
        /\ UNCHANGED <<ordSnapshot, cmtSnapshot, sent, rest, blockId, out>>
    BY <1>3 DEF Receive, LocalEntries
  <2> HIDE DEF entries
  <2> QED BY <1>1, <2>1, <2>2 DEF TInv, StateType
<1>4. CASE Tick(w)
  <2> DEFINE cnt == Len(shuffle[w])
             takeN == IF cnt < BatchSize THEN cnt ELSE BatchSize
             batch == SubSeq(shuffle[w], 1, takeN)
             left == SubSeq(shuffle[w], takeN + 1, cnt)
  <2>1. /\ shuffle' = [shuffle EXCEPT ![w] = batch]
        /\ local' = [local EXCEPT ![w] = batch]
        /\ rest' = [rest EXCEPT ![w] = left]
        /\ UNCHANGED <<ordSnapshot, cmtSnapshot, sent, requestQueue, blockId, out>>
    BY <1>4 DEF Tick, LocalEntries
  <2>2. /\ cnt \in Nat /\ takeN \in 0 .. cnt
        /\ \A i \in 1 .. cnt : shuffle[w][i] \in Workers \X (1 .. MsgLoad)
    BY <1>1, <1>2, LenProperties DEF Batches
  <2> HIDE DEF cnt, takeN
  <2>3. batch \in Batches /\ left \in Batches
    BY <2>2, SubSeqProperties DEF Batches
  <2> HIDE DEF batch, left
  <2> QED BY <1>1, <2>1, <2>3 DEF TInv, StateType
<1>5. CASE GetLogIndex(w)
  <2>1. logIndex \in BlockIds
    BY IndexInBlockIds DEF BatchInv, CommonInv, TInv
  <2>2. blockId' \in [Workers -> BlockIds]
    BY <1>5, <2>1 DEF GetLogIndex, TInv, StateType
  <2> QED BY <1>1, <1>5, <2>2 DEF GetLogIndex, TInv, StateType
<1>6. CASE IncrementLogIndex(w)
  BY <1>1, <1>6 DEF IncrementLogIndex, TInv, StateType
<1>7. CASE StoreOrdSnapshot(w)
  BY <1>1, <1>2, <1>7 DEF StoreOrdSnapshot, TInv, StateType
<1>8. CASE StoreCmtSnapshot(w)
  BY <1>1, <1>2, <1>8 DEF StoreCmtSnapshot, TInv, StateType
<1>9. CASE BroadcastOPA(w)
  <2>1. out[w] \o local[w] \in Batches
    BY <1>2, ConcatProperties DEF Batches
  <2>2. [id |-> blockId[w], batch |-> local[w]] \in [id : BlockIds, batch : Batches]
    BY <1>2
  <2>3. sent' \in Seq([id : BlockIds, batch : Batches])
    BY <1>9, <2>2, AppendProperties DEF BroadcastOPA, TInv, StateType
  <2>4. /\ out' = [out EXCEPT ![w] = out[w] \o local[w]]
        /\ shuffle' = [shuffle EXCEPT ![w] = rest[w]] \/ shuffle' = shuffle
        /\ rest' = [rest EXCEPT ![w] = << >>]
        /\ local' = [local EXCEPT ![w] = << >>]
        /\ UNCHANGED <<ordSnapshot, cmtSnapshot, requestQueue, blockId>>
    BY <1>9 DEF BroadcastOPA, TInv, StateType
  <2> QED BY <1>1, <1>2, <2>1, <2>3, <2>4 DEF TInv, StateType
<1> QED BY <1>3, <1>4, <1>5, <1>6, <1>7, <1>8, <1>9 DEF Step

(* The index and the claims stand still while no block is counted.         *)
LEMMA ClaimsStay ==
    ASSUME BatchInv, TInv, flags' = flags, logIndex' = logIndex,
           \A v \in Workers : Claimed(v)' = Claimed(v)
    PROVE  IndexInv'
<1>1. Unit' = Unit /\ Slots' = Slots /\ NumOfValidators' = NumOfValidators
  BY DEF Unit, Slots, NumOfValidators, UsePeriodicOrdering, BatchSize, MsgLoad
<1>2. Claims' = Claims
  BY <1>1 DEF Claims
<1> QED BY <1>1, <1>2 DEF IndexInv, TInv

(* The advance of the index is covered by a claim that nobody has made.    *)
LEMMA OneMoreClaim ==
    ASSUME BatchInv, TInv, NEW w \in Workers, IncrementLogIndex(w)
    PROVE  IndexInv'
<1>1. /\ pc[w] = "increment" /\ pc' = [pc EXCEPT ![w] = "ord"]
      /\ logIndex' = logIndex + 1
      /\ flags' = flags /\ local' = local /\ out' = out
  BY DEF IncrementLogIndex, Incremented, Goto
<1>2. /\ Unit' = Unit /\ Slots' = Slots /\ NumOfValidators' = NumOfValidators
      /\ UsePeriodicOrdering' = UsePeriodicOrdering
  BY <1>1 DEF Unit, Slots, NumOfValidators, UsePeriodicOrdering, BatchSize, MsgLoad
<1>3. /\ Unit \in Nat \ {0} /\ Slots \in Nat /\ NumOfValidators \in Nat
      /\ MsgLoad \in Nat /\ logIndex \in Nat
      /\ UsePeriodicOrdering \in BOOLEAN /\ BatchSize \in Nat \ {0}
      /\ w \in Nat
  BY UnitTypes, FlagTypes, BatchingAssumption DEF BatchInv, CommonInv
<1>4. /\ \A v \in Workers \ {w} : Claimed(v)' = Claimed(v)
      /\ Claimed(w) = Len(out[w])
      /\ Claimed(w)' = Len(out[w]) + Len(local[w])
  <2>1. Len(out[w]) \in Nat
    BY <1>1, UnderWay
  <2> QED BY <1>1, <2>1 DEF Claimed, BatchInv, CommonInv
<1>5. /\ w < NumOfValidators /\ Claimed(w) \in Nat /\ Claimed(w)' \in Nat
      /\ Claimed(w)' <= MsgLoad /\ Claimed(w)' >= Claimed(w) + Unit
      /\ ~UsePeriodicOrdering => Claimed(w)' = Claimed(w) + Unit
  <2>1. /\ w < NumOfValidators
        /\ Len(out[w]) \in Nat /\ Len(local[w]) \in Nat
        /\ Len(out[w]) + Len(local[w]) <= MsgLoad /\ Len(local[w]) >= Unit
        /\ ~UsePeriodicOrdering => Len(local[w]) = Unit
    BY <1>1, UnderWay
  <2>2. ASSUME NEW a \in Nat, NEW b \in Nat, b >= Unit
        PROVE  a + b \in Nat /\ a + b >= a + Unit
    BY <1>3, <2>2
  <2> QED BY <1>4, <2>1, <2>2
<1>6. PICK k \in Nat : Claimed(w) = k * Unit
  BY DEF TInv, IndexInv
<1>7. (k + 1) * Unit = k * Unit + Unit /\ k * Unit \in Nat
  BY <1>3
<1>8. /\ (k + 1) * Unit <= Claimed(w)'
      /\ ~((k + 1) * Unit <= Claimed(w))
  BY <1>3, <1>5, <1>6, <1>7
<1>9. k + 1 <= Slots
  <2>1. (k + 1) * Unit <= MsgLoad
    BY <1>3, <1>5, <1>7, <1>8
  <2>2. CASE UsePeriodicOrdering
    BY <1>3, <2>1, <2>2 DEF Unit, Slots
  <2>3. CASE ~UsePeriodicOrdering
    BY <1>3, <2>1, <2>3, QuotientBound DEF Unit, Slots
  <2> QED BY <2>2, <2>3
<1>10. <<w, k + 1>> \in Claims' /\ <<w, k + 1>> \notin Claims
  BY <1>2, <1>3, <1>5, <1>8, <1>9 DEF Claims
<1>11. Claims \subseteq Claims'
  <2> SUFFICES ASSUME NEW v \in 0 .. NumOfValidators - 1, NEW n \in 1 .. Slots,
                      v \in Workers, n * Unit <= Claimed(v)
               PROVE  n * Unit <= Claimed(v)'
    BY <1>2 DEF Claims
  <2>1. n * Unit \in Nat
    BY <1>3
  <2>2. CASE v = w
    BY <1>3, <1>5, <2>1, <2>2
  <2>3. CASE v # w
    BY <1>4, <2>3
  <2> QED BY <2>2, <2>3
<1>12. IsFiniteSet(Claims) /\ Cardinality(Claims) \in Nat
  BY ClaimsFinite DEF BatchInv, CommonInv
<1>13. IsFiniteSet(Claims') /\ Cardinality(Claims') \in Nat
  <2>1. flags' \in CommandLines
    BY <1>1 DEF BatchInv, CommonInv
  <2>2. Claims' \in SUBSET ((0 .. NumOfValidators - 1) \X (1 .. Slots))
    BY <1>2 DEF Claims
  <2>3. IsFiniteSet((0 .. NumOfValidators - 1) \X (1 .. Slots))
    <3>1. IsFiniteSet(0 .. NumOfValidators - 1) /\ IsFiniteSet(1 .. Slots)
      BY <1>3, FS_Interval
    <3> QED BY <3>1, FS_Product
  <2> QED BY <2>2, <2>3, FS_Subset, FS_CardinalityType
<1>14. Cardinality(Claims) + 1 <= Cardinality(Claims')
  <2>1. Cardinality(Claims \cup {<<w, k + 1>>}) = Cardinality(Claims) + 1
    BY <1>10, <1>12, FS_AddElement
  <2>2. Claims \cup {<<w, k + 1>>} \in SUBSET Claims'
    BY <1>10, <1>11
  <2>3. Cardinality(Claims \cup {<<w, k + 1>>}) <= Cardinality(Claims')
    BY <1>13, <2>2, FS_Subset
  <2> QED BY <2>1, <2>3
<1>15. logIndex' <= Cardinality(Claims')
  <2>1. logIndex <= Cardinality(Claims)
    BY DEF TInv, IndexInv
  <2> QED BY <1>1, <1>3, <1>12, <1>13, <1>14, <2>1
<1>16. \A v \in Workers : \E j \in Nat : Claimed(v)' = j * Unit'
  <2> SUFFICES ASSUME NEW v \in Workers PROVE \E j \in Nat : Claimed(v)' = j * Unit
    BY <1>2
  <2>1. CASE v # w
    BY <1>4, <2>1 DEF TInv, IndexInv
  <2>2. CASE v = w /\ UsePeriodicOrdering
    <3>1. Unit = 1 /\ Claimed(w)' = Claimed(w)' * 1
      BY <1>5, <2>2 DEF Unit
    <3> QED BY <1>5, <2>2, <3>1
  <2>3. CASE v = w /\ ~UsePeriodicOrdering
    <3>1. Claimed(w)' = (k + 1) * Unit
      BY <1>5, <1>6, <1>7, <2>3
    <3> QED BY <2>3, <3>1
  <2> QED BY <1>3, <2>1, <2>2, <2>3
<1> QED BY <1>15, <1>16 DEF IndexInv

LEMMA StepIndex ==
    ASSUME BatchInv, TInv, NEW w \in Workers, Step(w)
    PROVE  IndexInv'
<1>1. /\ flags' = flags
      /\ \A v \in Workers \ {w} : Claimed(v)' = Claimed(v)
  BY OthersUnchanged DEF Claimed
<1>2. /\ pc \in [Workers -> Labels] /\ local \in [Workers -> Seq(Messages)]
      /\ out \in [Workers -> Seq(Messages)]
  BY DEF BatchInv, CommonInv
<1>3. CASE Receive(w) \/ Tick(w) \/ GetLogIndex(w)
  <2>1. /\ logIndex' = logIndex /\ out' = out
        /\ pc[w] \in {"receive", "index"} /\ pc'[w] \in {"receive", "index", "increment"}
    BY <1>2, <1>3 DEF Receive, Tick, GetLogIndex, Goto
  <2>2. Claimed(w)' = Claimed(w)
    BY <2>1 DEF Claimed
  <2> QED BY <1>1, <2>1, <2>2, ClaimsStay
<1>4. CASE IncrementLogIndex(w)
  BY <1>4, OneMoreClaim
<1>5. CASE StoreOrdSnapshot(w) \/ StoreCmtSnapshot(w)
  <2>1. /\ logIndex' = logIndex /\ out' = out /\ local' = local
        /\ pc[w] \in {"ord", "cmt"} /\ pc'[w] \in {"cmt", "send"}
    BY <1>2, <1>5 DEF StoreOrdSnapshot, StoreCmtSnapshot, Goto
  <2>2. Claimed(w)' = Claimed(w)
    BY <2>1 DEF Claimed
  <2> QED BY <1>1, <2>1, <2>2, ClaimsStay
<1>6. CASE BroadcastOPA(w)
  <2>1. /\ logIndex' = logIndex /\ out'[w] = out[w] \o local[w]
        /\ pc[w] = "send" /\ pc'[w] = "receive"
    BY <1>2, <1>6 DEF BroadcastOPA, Goto
  <2>2. Len(out[w] \o local[w]) = Len(out[w]) + Len(local[w])
    BY <1>2, ConcatProperties
  <2>3. Len(out[w]) \in Nat /\ Len(local[w]) \in Nat
    BY <1>2, LenProperties
  <2>4. Claimed(w)' = Claimed(w)
    BY <2>1, <2>2, <2>3 DEF Claimed
  <2> QED BY <1>1, <2>1, <2>4, ClaimsStay
<1> QED BY <1>3, <1>4, <1>5, <1>6 DEF Step

(* makeAndBroadcast never runs out of the block ids that the workers'      *)
(* messages call for, whatever number of workers reads and advances the    *)
(* shared index in whatever order.                                         *)
THEOREM BatchingTypeCorrect == Spec => []TypeOK
<1>1. BatchInv /\ TInv /\ [Next]_vars => TInv'
  <2> SUFFICES ASSUME BatchInv, TInv, [Next]_vars PROVE TInv'
    OBVIOUS
  <2>1. CASE UNCHANGED vars
    <3>1. StateType'
      BY <2>1 DEF vars, workerVars, TInv, StateType, BlockIds, Batches, NumOfValidators,
                  MsgLoad, BatchSize, UsePeriodicOrdering
    <3>2. flags' = flags /\ logIndex' = logIndex /\ \A v \in Workers : Claimed(v)' = Claimed(v)
      BY <2>1 DEF vars, workerVars, Claimed
    <3> QED BY <3>1, <3>2, ClaimsStay DEF TInv
  <2> QED BY <2>1, StepType, StepIndex DEF Next, TInv
<1>2. BatchInv /\ TInv => TypeOK
  BY IndexInBlockIds DEF BatchInv, CommonInv, TInv, StateType, TypeOK, Labels
<1> QED BY InitTInv, BatchInvAlways, <1>1, <1>2, PTL DEF Spec
=============================================================================
