------------------------------- MODULE Batching -------------------------------
(***************************************************************************)
(* How the ordering workers turn queued messages into blocks:              *)
(* startOrderingPhaseA of vordering.go in its two modes (a block whenever  *)
(* BatchSize messages are there; or at most one block per tick), with the  *)
(* closure makeAndBroadcast, and txGenerator, which fills one queue per    *)
(* worker before the workers start.                                        *)
(*                                                                         *)
(* The workers (-w) share state.logIndex and the two snapshot maps.  The   *)
(* index is loaded and, after the booth was looked up, incremented: two    *)
(* atomic operations, so makeAndBroadcast is split there and at each lock  *)
(* of a map.  A worker's own buffer is seen by nobody else.  Marshalling a *)
(* map of plain structs cannot fail, so the early return for it is absent. *)
(*                                                                         *)
(* The mode, the number of workers and the sizes are flags of the command  *)
(* line: Init chooses a command line, which then stays as it is.           *)
(***************************************************************************)
EXTENDS Integers, Sequences, SequencesExt

CONSTANTS Workers,        \* the worker threads there can be: 0, 1, ...
          CommandLines    \* the flags the program is started with

ASSUME BatchingAssumption ==
    /\ Workers \subseteq Nat
    /\ CommandLines \subseteq [UsePeriodicOrdering : BOOLEAN,   \* -ordering-periodic
                              NumOfValidators : Nat,           \* -w
                              MsgLoad : Nat,                   \* -ml
                              BatchSize : Nat \ {0}]           \* -b

VARIABLES flags,         \* the command line
          logIndex,      \* state.logIndex
          ordSnapshot,   \* [block id -> batch], the proposer's maps
          cmtSnapshot,
          sent,          \* OPA broadcasts so far, in order
          requestQueue,  \* requestQueue[w]: messages not received yet
          shuffle,       \* shuffle[w]: the buffer, entries 0 .. counter-1
          rest,          \* rest[w]: what the tick leaves over
          local,         \* local[w]: localEntries of makeAndBroadcast
          blockId,       \* blockId[w]: newBlockId of makeAndBroadcast
          pc,
          out            \* out[w]: history, the messages w has broadcast

workerVars == <<requestQueue, shuffle, rest, local, blockId, pc>>
vars == <<flags, logIndex, ordSnapshot, cmtSnapshot, sent, workerVars, out>>

UsePeriodicOrdering == flags.UsePeriodicOrdering
NumOfValidators == flags.NumOfValidators
MsgLoad == flags.MsgLoad
BatchSize == flags.BatchSize

(* txGenerator: the messages of worker w, in queue order. *)
Input(w) == IF w < NumOfValidators THEN [n \in 1 .. MsgLoad |-> <<w, n>>] ELSE << >>

(* Ids for full blocks; a tick may make every message a block of its own. *)
BlockIds ==
    0 .. NumOfValidators * (IF UsePeriodicOrdering THEN MsgLoad ELSE MsgLoad \div BatchSize)
Batches == Seq(Workers \X (1 .. MsgLoad))
NoBatch == << >>

TypeOK ==
    /\ flags \in CommandLines
    /\ logIndex \in BlockIds
    /\ {ordSnapshot, cmtSnapshot} \subseteq [BlockIds -> Batches]
    /\ sent \in Seq([id : BlockIds, batch : Batches])
    /\ {requestQueue, shuffle, rest, local, out} \subseteq [Workers -> Batches]
    /\ blockId \in [Workers -> BlockIds]
    /\ pc \in [Workers -> {"receive", "index", "increment", "ord", "cmt", "send"}]

Init ==
    /\ flags \in CommandLines
    /\ logIndex = 0
    /\ ordSnapshot = [b \in BlockIds |-> NoBatch]
    /\ cmtSnapshot = [b \in BlockIds |-> NoBatch]
    /\ sent = << >>
    /\ requestQueue = [w \in Workers |-> Input(w)]
    /\ shuffle = [w \in Workers |-> << >>]
    /\ rest = [w \in Workers |-> << >>]
    /\ local = [w \in Workers |-> << >>]
    /\ blockId = [w \in Workers |-> 0]
    /\ pc = [w \in Workers |-> "receive"]
    /\ out = [w \in Workers |-> << >>]

Goto(w, label) == pc' = [pc EXCEPT ![w] = label]

-----------------------------------------------------------------------------
(* Mutant: the copy misses the last entry. *)
Mut_LocalEntries(entries) == SubSeq(entries, 1, Len(entries) - 1)

(* The copy makeAndBroadcast takes of the buffer. *)
LocalEntries(entries) == entries

(* Mutant: the input is only stopped when the buffer is over full. *)
Mut_AcceptsInput(entries) == ~UsePeriodicOrdering \/ Len(entries) <= BatchSize

(* Back pressure: in periodic mode a full buffer stops the input until the *)
(* next tick.                                                              *)
AcceptsInput(entries) == ~UsePeriodicOrdering \/ Len(entries) < BatchSize

(* Mutant: a batch is cut one message too late. *)
Mut_ShouldCut(entries) == ~UsePeriodicOrdering /\ Len(entries) > BatchSize

(* In batch mode a full buffer is made into a block at once. *)
ShouldCut(entries) == ~UsePeriodicOrdering /\ Len(entries) >= BatchSize

Receive(w) ==
    LET entries == Append(shuffle[w], Head(requestQueue[w]))
    IN  /\ pc[w] = "receive"
        /\ requestQueue[w] # << >>
        /\ AcceptsInput(shuffle[w])
        /\ requestQueue' = [requestQueue EXCEPT ![w] = Tail(@)]
        /\ shuffle' = [shuffle EXCEPT ![w] = entries]
        /\ IF ShouldCut(entries)
           THEN /\ local' = [local EXCEPT ![w] = LocalEntries(entries)]
                /\ Goto(w, "index")
           ELSE UNCHANGED <<local, pc>>
        /\ UNCHANGED <<flags, logIndex, ordSnapshot, cmtSnapshot, sent, rest, blockId, out>>

(* A tick with an empty buffer does nothing; otherwise the first entries,  *)
(* at most BatchSize, become the buffer and the others wait in rest.       *)
Tick(w) ==
    LET cnt == Len(shuffle[w])
        takeN == IF cnt < BatchSize THEN cnt ELSE BatchSize
        batch == SubSeq(shuffle[w], 1, takeN)
    IN  /\ UsePeriodicOrdering
        /\ pc[w] = "receive"
        /\ cnt # 0
        /\ rest' = [rest EXCEPT ![w] = SubSeq(shuffle[w], takeN + 1, cnt)]
        /\ shuffle' = [shuffle EXCEPT ![w] = batch]
        /\ local' = [local EXCEPT ![w] = LocalEntries(batch)]
        /\ Goto(w, "index")
        /\ UNCHANGED <<flags, logIndex, ordSnapshot, cmtSnapshot, sent, requestQueue,
                       blockId, out>>

-----------------------------------------------------------------------------
(* makeAndBroadcast, after the copy.                                       *)

GetLogIndex(w) ==
    /\ pc[w] = "index"
    /\ blockId' = [blockId EXCEPT ![w] = logIndex]
    /\ Goto(w, "increment")
    /\ UNCHANGED <<flags, logIndex, ordSnapshot, cmtSnapshot, sent, requestQueue,
                   shuffle, rest, local, out>>

(* Mutants: the increment is forgotten; the index is advanced twice. *)
Mut_Incremented(index) == index
Mut_IncrementedTwice(index) == index + 2

Incremented(index) == index + 1

(* getBoothID has been called in between. *)
IncrementLogIndex(w) ==
    /\ pc[w] = "increment"
    /\ logIndex' = Incremented(logIndex)
    /\ Goto(w, "ord")
    /\ UNCHANGED <<flags, ordSnapshot, cmtSnapshot, sent, requestQueue, shuffle,
                   rest, local, blockId, out>>

StoreOrdSnapshot(w) ==
    /\ pc[w] = "ord"
    /\ ordSnapshot' = [ordSnapshot EXCEPT ![blockId[w]] = local[w]]
    /\ Goto(w, "cmt")
    /\ UNCHANGED <<flags, logIndex, cmtSnapshot, sent, requestQueue, shuffle, rest,
                   local, blockId, out>>

(* The buffer is cleared as soon as both snapshots are stored. *)
StoreCmtSnapshot(w) ==
    /\ pc[w] = "cmt"
    /\ cmtSnapshot' = [cmtSnapshot EXCEPT ![blockId[w]] = local[w]]
    /\ shuffle' = [shuffle EXCEPT ![w] = << >>]
    /\ Goto(w, "send")
    /\ UNCHANGED <<flags, logIndex, ordSnapshot, sent, requestQueue, rest, local,
                   blockId, out>>

(* The broadcast; in periodic mode the left over entries then go back. *)
BroadcastOPA(w) ==
    /\ pc[w] = "send"
    /\ sent' = Append(sent, [id |-> blockId[w], batch |-> local[w]])
    /\ shuffle' = [shuffle EXCEPT ![w] = IF UsePeriodicOrdering THEN rest[w] ELSE @]
    /\ rest' = [rest EXCEPT ![w] = << >>]
    /\ local' = [local EXCEPT ![w] = << >>]
    /\ Goto(w, "receive")
    /\ out' = [out EXCEPT ![w] = @ \o local[w]]
    /\ UNCHANGED <<flags, logIndex, ordSnapshot, cmtSnapshot, requestQueue, blockId>>

-----------------------------------------------------------------------------
Step(w) ==
    \/ Receive(w)
    \/ Tick(w)
    \/ GetLogIndex(w)
    \/ IncrementLogIndex(w)
    \/ StoreOrdSnapshot(w)
    \/ StoreCmtSnapshot(w)
    \/ BroadcastOPA(w)

Next == \E w \in Workers : Step(w)

Spec == Init /\ [][Next]_vars

(* A worker is a goroutine that only ever waits for its queue or ticker,   *)
(* and the ticker ticks.                                                   *)
FairSpec == Spec /\ \A w \in Workers : WF_vars(Receive(w)) /\ WF_vars(Step(w))

-----------------------------------------------------------------------------
(* No message is lost, duplicated or reordered on its way from a worker's  *)
(* queue into the blocks it broadcasts, in either mode and at any moment   *)
(* of makeAndBroadcast, while the buffer is swapped, cleared and restored. *)
MessagesConserved ==
    \A w \in Workers :
        LET buffered == IF pc[w] = "receive" THEN shuffle[w] ELSE local[w] \o rest[w]
        IN  out[w] \o buffered \o requestQueue[w] = Input(w)

(* A broadcast block is never larger than BatchSize, and in periodic mode  *)
(* the buffer never holds more than one block: rest stays empty.           *)
BlocksBounded ==
    /\ \A n \in 1 .. Len(sent) : Len(sent[n].batch) \in 1 .. BatchSize
    /\ \A w \in Workers : rest[w] = << >>

(* One worker's blocks are broadcast under the ids 0, 1, 2, ...; several   *)
(* workers that load the index before they advance it share ids.           *)
SentInSequence ==
    NumOfValidators = 1 => \A n \in 1 .. Len(sent) : sent[n].id = n - 1

(* Replies and the consensus loop find, under a broadcast block's id, the  *)
(* very batch that was broadcast, in both snapshot maps (with one worker). *)
SnapshotsMatchBroadcast ==
    NumOfValidators = 1 => \A n \in 1 .. Len(sent) :
        /\ ordSnapshot[sent[n].id] = sent[n].batch
        /\ cmtSnapshot[sent[n].id] = sent[n].batch

(* Every queue is emptied; in periodic mode everything is broadcast, in    *)
(* batch mode everything but an incomplete last batch.                     *)
QueuesDrained ==
    <>[](\A w \in Workers :
            /\ requestQueue[w] = << >>
            /\ w < NumOfValidators =>
                  Len(out[w]) = IF UsePeriodicOrdering THEN MsgLoad
                                ELSE MsgLoad - (MsgLoad % BatchSize))
=============================================================================
