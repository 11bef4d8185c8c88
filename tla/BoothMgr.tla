------------------------------- MODULE BoothMgr -------------------------------
(***************************************************************************)
(* The membership management unit's registry of booths, getBoothID and     *)
(* checkExactMatchInBooMgr of mmu.go, and the key generator it runs for a  *)
(* new booth (keyGen/generator.go), whose files tsigs.go reads.  A booth's *)
(* ID is its position in booMgr.b; booMgr.index finds it again from a hash *)
(* of its indices.  The ordering worker and the consensus loop look booths *)
(* up concurrently.  booMgr's lock is held from the lookup to the end of   *)
(* the generator, which is a process of its own and may fail at any step.  *)
(*                                                                         *)
(* The hash is taken over the indices printed in decimal one after the     *)
(* other with nothing between them, so what it identifies is the sequence  *)
(* of digits (SHA-256 itself is taken to be collision free).               *)
(*                                                                         *)
(* ./keys/<ServerID>/<id> outlives the proposer, whose next run numbers    *)
(* its booths from 0 again; it is started after the generator has ended.   *)
(* Key files are represented by how many keys, one a line, are in them.    *)
(***************************************************************************)
EXTENDS Integers, Sequences, SequencesExt

CONSTANTS Patterns,     \* the vehicles in range, over time
          ServerID,     \* the proposer
          NumOfConn,    \* -c: servers, with ids from 0
          Callers,      \* goroutines that call getBoothID
          NoLookup,     \* this caller has not looked up a booth yet
          Idle,         \* no generator runs
          FailAfter,    \* bound: files after which createPrivateShare may fail
          MaxRuns       \* bound: how often the proposer is started

ASSUME PatternsAssumption ==
    /\ NumOfConn \in 1 .. 100
    /\ ServerID \in 0 .. NumOfConn - 1
    /\ \A P \in Patterns : P \subseteq (0 .. NumOfConn - 1) \ {ServerID}
    /\ FailAfter \subseteq 0 .. NumOfConn - 1
    /\ MaxRuns \in Nat \ {0}

Servers == 0 .. NumOfConn - 1
Indices == {P \cup {ServerID} : P \in Patterns}
Steps == {"started", "emptied", "public", "ended"}
Generators == [caller : Callers, indices : Indices, id : Nat, step : Steps]

ASSUME IdleAssumption == Idle \notin Generators

VARIABLES b,          \* booMgr.b: the booths, as sets of indices
          index,      \* booMgr.index: set of [key, id]
          generator,  \* the generator that runs, for whom and how far it is
          failed,     \* ids of this run whose generator ended with an error
          keys,       \* the folders: keys[id].pub, keys[id].pri[server]
          chosen,     \* chosen[c]: what c looked up last, and the answer
          run         \* how often the proposer was started

registry == <<b, index>>
vars == <<registry, generator, failed, keys, chosen, run>>

(* fmt.Sprintf("%d", v), for ids of at most two digits. *)
Digits(n) == IF n < 10 THEN <<n>> ELSE <<n \div 10, n % 10>>

(* Mutant: the booth's size stands for its members. *)
Mut_GenerateBoothHash(indices) == <<Cardinality(indices)>>

(* generateBoothHash of the sorted indices. *)
GenerateBoothHash(indices) ==
    LET sorted == SelectSeq([n \in 1 .. NumOfConn |-> n - 1], LAMBDA n : n \in indices)
    IN  FlattenSeq([n \in 1 .. Len(sorted) |-> Digits(sorted[n])])

Hashes == {GenerateBoothHash(I) : I \in Indices}

(* getBoothID goes on only with three vehicles or more. *)
Usable(P) == Cardinality(P) > 2

(* getThreshold, with which every server reads a booth's keys. *)
GetThreshold(indices) == (Cardinality(indices) \div 3) * 2

Ids == 0 .. Cardinality({P \in Patterns : Usable(P)}) - 1

TypeOK ==
    /\ b \in Seq(Indices)
    /\ index \subseteq [key : Hashes, id : Ids]
    /\ generator \in Generators \cup {Idle}
    /\ generator # Idle => generator.id \in Ids
    /\ failed \subseteq Ids
    /\ DOMAIN keys \subseteq Ids
    /\ \A id \in DOMAIN keys : /\ keys[id].pub \in {0} \cup {GetThreshold(I) : I \in Indices}
                               /\ keys[id].pri \in [Servers -> 0 .. 1]
    /\ chosen \in [Callers -> [indices : Indices, id : Ids] \cup {NoLookup}]
    /\ run \in 1 .. MaxRuns

Init ==
    /\ b = << >>
    /\ index = {}
    /\ generator = Idle
    /\ failed = {}
    /\ keys = << >>
    /\ chosen = [c \in Callers |-> NoLookup]
    /\ run = 1

-----------------------------------------------------------------------------
(* getBoothID.                                                             *)

(* Mutant: the lock is not held while the generator runs. *)
Mut_LockFree == TRUE

(* booMgr.Lock(): its holder waits for the generator. *)
LockFree == generator = Idle

Answer(c, indices, id) ==
    chosen' = [chosen EXCEPT ![c] = [indices |-> indices, id |-> id]]

(* The booth is in the index. *)
FoundBooth(c, P) ==
    LET indices == P \cup {ServerID}
    IN  /\ LockFree
        /\ Usable(P)
        /\ \E e \in index : /\ e.key = GenerateBoothHash(indices)
                            /\ Answer(c, indices, e.id)
        /\ UNCHANGED <<registry, generator, failed, keys, run>>

(* Mutant: ids start at one. *)
Mut_NewID == Len(b) + 1

NewID == Len(b)

(* Mutant: the new booth becomes the first. *)
Mut_Appended(booths, indices) == <<indices>> \o booths

Appended(booths, indices) == Append(booths, indices)

(* It is not: the booth is appended and the generator is started. *)
NewBooth(c, P) ==
    LET indices == P \cup {ServerID}
        key == GenerateBoothHash(indices)
    IN  /\ LockFree
        /\ Usable(P)
        /\ \A e \in index : e.key # key
        /\ b' = Appended(b, indices)
        /\ index' = index \cup {[key |-> key, id |-> NewID]}
        /\ generator' = [caller |-> c, indices |-> indices, id |-> NewID, step |-> "started"]
        /\ UNCHANGED <<failed, keys, chosen, run>>

(* cmd.Output returns; an error of the generator is printed and nothing    *)
(* else.  The lock is released with the answer.                            *)
Generated ==
    /\ generator # Idle
    /\ generator.step = "ended"
    /\ Answer(generator.caller, generator.indices, generator.id)
    /\ generator' = Idle
    /\ UNCHANGED <<registry, failed, keys, run>>

-----------------------------------------------------------------------------
(* The key generator, run with -t=threshold -n=NumOfConn -b=id.            *)

NoKeys == [pub |-> 0, pri |-> [s \in Servers |-> 0]]

(* keys with the folder of id written anew. *)
Stored(id, folder) ==
    [n \in DOMAIN keys \cup {id} |-> IF n = id THEN folder ELSE keys[n]]

(* Mutant: the folder is created, but not removed first. *)
Mut_Emptied(id) == IF id \in DOMAIN keys THEN keys[id] ELSE NoKeys

(* os.RemoveAll and os.MkdirAll. *)
Emptied(id) == NoKeys

(* generateBoothKey's threshold, from the size of the booth. *)
KeyThreshold(indices) == (Cardinality(indices) \div 3) * 2

(* Go on with the next step, having written this folder. *)
Write(from, folder, to) ==
    /\ generator # Idle
    /\ generator.step = from
    /\ keys' = Stored(generator.id, folder)
    /\ generator' = [generator EXCEPT !.step = to]
    /\ UNCHANGED <<registry, failed, chosen, run>>

MakeFolder == Write("started", Emptied(generator.id), "emptied")

(* createPubPoly appends a line for each coefficient. *)
CreatePubPoly ==
    Write("emptied", [keys[generator.id] EXCEPT
                         !.pub = @ + KeyThreshold(generator.indices)], "public")

(* createPrivateShare appends a line to the file of each of the first n    *)
(* servers.                                                                *)
Shares(folder, n) ==
    [folder EXCEPT !.pri = [s \in Servers |-> IF s < n THEN @[s] + 1 ELSE @[s]]]

CreatePrivateShares ==
    Write("public", Shares(keys[generator.id], NumOfConn), "ended")

(* The generator cannot be run, or panics at one of its steps. *)
GeneratorFails ==
    /\ generator # Idle
    /\ generator.step # "ended"
    /\ \/ UNCHANGED keys
       \/ /\ generator.step = "public"
          /\ \E n \in FailAfter :
                keys' = Stored(generator.id, Shares(keys[generator.id], n))
    /\ generator' = [generator EXCEPT !.step = "ended"]
    /\ failed' = failed \cup {generator.id}
    /\ UNCHANGED <<registry, chosen, run>>

(* The proposer is started again: its booths are gone, the folders are not. *)
Restart ==
    /\ generator = Idle
    /\ run < MaxRuns
    /\ run' = run + 1
    /\ b' = << >>
    /\ index' = {}
    /\ failed' = {}
    /\ chosen' = [c \in Callers |-> NoLookup]
    /\ UNCHANGED <<generator, keys>>

Next ==
    \/ \E c \in Callers, P \in Patterns : FoundBooth(c, P) \/ NewBooth(c, P)
    \/ MakeFolder
    \/ CreatePubPoly
    \/ CreatePrivateShares
    \/ GeneratorFails
    \/ Generated
    \/ Restart

Spec == Init /\ [][Next]_vars

-----------------------------------------------------------------------------
(* The readers of the keys: fetchPubPoly accepts a file of exactly t lines, *)
(* fetchPriShare one of exactly one; otherwise fetchKeysByBoothId panics.  *)
FetchPubPoly(t, id) == id \in DOMAIN keys /\ keys[id].pub = t
FetchPriShare(server, id) == id \in DOMAIN keys /\ keys[id].pri[server] = 1
FetchKeysByBoothId(t, server, id) == FetchPubPoly(t, id) /\ FetchPriShare(server, id)

-----------------------------------------------------------------------------
(* No two booths of this instance hash alike. *)
NoCollision ==
    \A I, J \in Indices : GenerateBoothHash(I) = GenerateBoothHash(J) => I = J

(* The id getBoothID returns stands for exactly the vehicles in range: the *)
(* booth a worker then takes from booMgr.b is the one it asked for, and    *)
(* equal patterns get equal ids whichever goroutine asks.                  *)
ExactMatch ==
    /\ \A c \in Callers : chosen[c] # NoLookup =>
          /\ chosen[c].id + 1 \in 1 .. Len(b)
          /\ b[chosen[c].id + 1] = chosen[c].indices
    /\ \A c, d \in Callers : chosen[c] # NoLookup /\ chosen[d] # NoLookup =>
          (chosen[c].indices = chosen[d].indices <=> chosen[c].id = chosen[d].id)

(* Within a run an id keeps its booth, and its keys once its generator has *)
(* ended: a block that carries the id means the same to everyone, however  *)
(* long it is under way.                                                   *)
IdsKeepTheirBooth ==
    [][run' = run =>
         /\ Len(b') >= Len(b)
         /\ \A n \in 1 .. Len(b) :
              /\ b'[n] = b[n]
              /\ \/ generator # Idle /\ generator.id + 1 = n
                 \/ n - 1 \in DOMAIN keys' <=> n - 1 \in DOMAIN keys
              /\ \/ generator # Idle /\ generator.id + 1 = n
                 \/ n - 1 \in DOMAIN keys => keys'[n - 1] = keys[n - 1]]_vars

(* When getBoothID returns an id, every server of its booth can read its   *)
(* keys with the threshold they all compute from the booth, whatever an    *)
(* earlier run or a concurrent lookup has left in the folder; unless the   *)
(* generator failed for it.                                                *)
KeysBeforeUse ==
    \A c \in Callers : chosen[c] # NoLookup =>
        LET id == chosen[c].id
        IN  \/ id \in failed
            \/ \A s \in b[id + 1] :
                  FetchKeysByBoothId(GetThreshold(b[id + 1]), s, id)
=============================================================================
