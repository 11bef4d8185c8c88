---------------------------- MODULE BoothMgrProofs ----------------------------
(***************************************************************************)
(* Theorems about the registry of booths and its keys, for any patterns,   *)
(* any number of callers and runs, and any hash.                           *)
(*                                                                         *)
(* RInv says where an id may come from: it is a position of booMgr.b, and  *)
(* the one the generator works on is the last, which nobody was given yet. *)
(* KInv follows the generator through its steps.  XInv, that the index is  *)
(* right about the booths, needs that no two booths of the instance hash   *)
(* alike; the keys do not.  BInv bounds the number of ids: a booth is only *)
(* registered if none with its hash is.                                    *)
(***************************************************************************)
EXTENDS BoothMgr, FiniteSetTheorems, TLAPS

(* Ids are positions; the generator works on the last, under the lock. *)
RInv ==
    /\ b \in Seq(Indices)
    /\ index \subseteq [key : Hashes, id : Nat]
    /\ \A e \in index : e.id + 1 \in 1 .. Len(b)
    /\ DOMAIN chosen = Callers
    /\ \A c \in Callers : chosen[c] # NoLookup =>
          chosen[c].id \in Nat /\ chosen[c].id + 1 \in 1 .. Len(b)
    /\ run \in Nat
    /\ generator \in Generators \cup {Idle}
    /\ generator # Idle =>
          /\ generator.id + 1 = Len(b)
          /\ b[Len(b)] = generator.indices
          /\ \A c \in Callers : chosen[c] # NoLookup => chosen[c].id # generator.id

(* What the generator leaves in the folder of a booth with threshold t. *)
Keys(t, n) == [pub |-> t, pri |-> [s \in Servers |-> n]]

(* The folder of the n-th booth is complete. *)
Complete(n) == n - 1 \in DOMAIN keys /\ keys[n - 1] = Keys(GetThreshold(b[n]), 1)

(* Folders are complete but for the one the generator works on, which is   *)
(* as complete as its step says.                                           *)
KInv ==
    /\ \A n \in 1 .. Len(b) : \/ generator # Idle /\ n = Len(b)
                              \/ n - 1 \in failed
                              \/ Complete(n)
    /\ generator # Idle =>
          /\ generator.step = "emptied" =>
                generator.id \in DOMAIN keys /\ keys[generator.id] = Keys(0, 0)
          /\ generator.step = "public" =>
                /\ generator.id \in DOMAIN keys
                /\ keys[generator.id] = Keys(GetThreshold(generator.indices), 0)
          /\ generator.step = "ended" => generator.id \in failed \/ Complete(Len(b))

(* booMgr.b and booMgr.index say the same, every booth has an entry, none  *)
(* is listed twice, and what was looked up last is what was asked for.     *)
XInv ==
    /\ \A e \in index : e.key = GenerateBoothHash(b[e.id + 1])
    /\ \A n \in 1 .. Len(b) : \E e \in index : e.id + 1 = n
    /\ \A n, m \in 1 .. Len(b) : b[n] = b[m] => n = m
    /\ \A c \in Callers : chosen[c] # NoLookup => b[chosen[c].id + 1] = chosen[c].indices

-----------------------------------------------------------------------------
(* Booths are finite, so their thresholds are numbers. *)
LEMMA ThresholdNat == \A I \in Indices : GetThreshold(I) \in Nat
<1> SUFFICES ASSUME NEW I \in Indices PROVE GetThreshold(I) \in Nat
  OBVIOUS
<1>1. IsFiniteSet(0 .. NumOfConn - 1)
  BY FS_Interval, PatternsAssumption
<1>2. I \subseteq 0 .. NumOfConn - 1
  BY PatternsAssumption DEF Indices
<1>3. Cardinality(I) \in Nat
  BY <1>1, <1>2, FS_Subset, FS_CardinalityType
<1> QED BY <1>3 DEF GetThreshold

(* The answer goes to the caller, and to nobody else. *)
LEMMA AnswerEffect ==
    ASSUME DOMAIN chosen = Callers, NEW c \in Callers, NEW I, NEW id, Answer(c, I, id)
    PROVE  /\ DOMAIN chosen' = Callers
           /\ \A d \in Callers : chosen'[d] = IF d = c THEN [indices |-> I, id |-> id]
                                                       ELSE chosen[d]
BY DEF Answer

(* The registry grows by one booth. *)
LEMMA NewBoothEffect ==
    ASSUME RInv, NEW c \in Callers, NEW P \in Patterns, NewBooth(c, P)
    PROVE  \E I \in Indices :
             /\ generator = Idle
             /\ \A e \in index : e.key # GenerateBoothHash(I)
             /\ b' = Append(b, I)
             /\ b' \in Seq(Indices) /\ Len(b) \in Nat /\ Len(b') = Len(b) + 1
             /\ \A n \in 1 .. Len(b) : b'[n] = b[n]
             /\ b'[Len(b) + 1] = I
             /\ index' = index \cup {[key |-> GenerateBoothHash(I), id |-> Len(b)]}
             /\ generator' = [caller |-> c, indices |-> I, id |-> Len(b), step |-> "started"]
             /\ generator' \in Generators
             /\ UNCHANGED <<failed, keys, chosen, run>>
<1>1. PICK I \in Indices : I = P \cup {ServerID}
  BY DEF Indices
<1>2. /\ generator = Idle
      /\ \A e \in index : e.key # GenerateBoothHash(I)
      /\ b' = Append(b, I)
      /\ index' = index \cup {[key |-> GenerateBoothHash(I), id |-> Len(b)]}
      /\ generator' = [caller |-> c, indices |-> I, id |-> Len(b), step |-> "started"]
      /\ UNCHANGED <<failed, keys, chosen, run>>
  BY <1>1 DEF NewBooth, LockFree, Appended, NewID
<1>3. b \in Seq(Indices) /\ Len(b) \in Nat
  BY DEF RInv
<1>4. /\ b' \in Seq(Indices) /\ Len(b') = Len(b) + 1
      /\ \A n \in 1 .. Len(b) : b'[n] = b[n]
      /\ b'[Len(b) + 1] = I
  BY <1>2, <1>3
<1>5. generator' \in Generators
  BY <1>2, <1>3 DEF Generators, Steps
<1> QED BY <1>2, <1>3, <1>4, <1>5

(* The generator's own steps: they change its folder and its step only. *)
GeneratorStep == MakeFolder \/ CreatePubPoly \/ CreatePrivateShares \/ GeneratorFails

LEMMA GeneratorEffect ==
    ASSUME RInv, GeneratorStep
    PROVE  /\ generator # Idle /\ generator' # Idle /\ generator' \in Generators
           /\ generator'.caller = generator.caller /\ generator'.id = generator.id
           /\ generator'.indices = generator.indices
           /\ DOMAIN keys \subseteq DOMAIN keys'
           /\ DOMAIN keys' \subseteq DOMAIN keys \cup {generator.id}
           /\ \A n \in DOMAIN keys : n # generator.id => keys'[n] = keys[n]
           /\ failed \subseteq failed'
           /\ UNCHANGED <<registry, chosen, run>>
<1>1. generator # Idle /\ generator \in Generators
  BY DEF RInv, GeneratorStep, MakeFolder, CreatePubPoly, CreatePrivateShares, Write,
         GeneratorFails
<1>2. \E step \in Steps : generator' = [generator EXCEPT !.step = step]
  BY DEF GeneratorStep, MakeFolder, CreatePubPoly, CreatePrivateShares, Write,
         GeneratorFails, Steps
<1>3. /\ generator' \in Generators
      /\ generator'.caller = generator.caller /\ generator'.id = generator.id
      /\ generator'.indices = generator.indices
  BY <1>1, <1>2 DEF Generators
<1>4. \/ UNCHANGED keys
      \/ \E folder : keys' = Stored(generator.id, folder)
  BY DEF GeneratorStep, MakeFolder, CreatePubPoly, CreatePrivateShares, Write, GeneratorFails
<1>5. /\ DOMAIN keys \subseteq DOMAIN keys'
      /\ DOMAIN keys' \subseteq DOMAIN keys \cup {generator.id}
      /\ \A n \in DOMAIN keys : n # generator.id => keys'[n] = keys[n]
  BY <1>4 DEF Stored
<1>6. failed \subseteq failed' /\ UNCHANGED <<registry, chosen, run>>
  BY DEF GeneratorStep, MakeFolder, CreatePubPoly, CreatePrivateShares, Write, GeneratorFails
<1> QED BY <1>1, <1>3, <1>5, <1>6, IdleAssumption

-----------------------------------------------------------------------------
LEMMA InitRInv == Init => RInv /\ KInv /\ XInv
<1> SUFFICES ASSUME Init PROVE RInv /\ KInv /\ XInv
  OBVIOUS
<1>1. b \in Seq(Indices) /\ Len(b) = 0
  BY DEF Init
<1> QED BY <1>1 DEF Init, RInv, KInv, XInv

(* Ids remain positions, whoever moves. *)
LEMMA NextRInv == RInv /\ [Next]_vars => RInv'
<1> SUFFICES ASSUME RInv, [Next]_vars PROVE RInv'
  OBVIOUS
<1>1. ASSUME NEW c \in Callers, NEW P \in Patterns, FoundBooth(c, P) PROVE RInv'
  <2>1. PICK e \in index : Answer(c, P \cup {ServerID}, e.id)
    BY <1>1 DEF FoundBooth
  <2>2. e.id \in Nat /\ e.id + 1 \in 1 .. Len(b)
    BY DEF RInv
  <2>3. /\ DOMAIN chosen' = Callers
        /\ \A d \in Callers : chosen'[d] = IF d = c THEN [indices |-> P \cup {ServerID}, id |-> e.id]
                                                    ELSE chosen[d]
    BY <2>1, AnswerEffect DEF RInv
  <2>4. UNCHANGED <<b, index, generator, run>> /\ generator = Idle
    BY <1>1 DEF FoundBooth, LockFree, registry
  <2> QED BY <2>2, <2>3, <2>4 DEF RInv
<1>2. ASSUME NEW c \in Callers, NEW P \in Patterns, NewBooth(c, P) PROVE RInv'
  <2>1. PICK I \in Indices :
             /\ b' = Append(b, I)
             /\ b' \in Seq(Indices) /\ Len(b) \in Nat /\ Len(b') = Len(b) + 1
             /\ b'[Len(b) + 1] = I
             /\ index' = index \cup {[key |-> GenerateBoothHash(I), id |-> Len(b)]}
             /\ generator' = [caller |-> c, indices |-> I, id |-> Len(b), step |-> "started"]
             /\ generator' \in Generators
             /\ UNCHANGED <<chosen, run>>
    BY <1>2, NewBoothEffect
  <2>2. [key |-> GenerateBoothHash(I), id |-> Len(b)] \in [key : Hashes, id : Nat]
    BY <2>1 DEF Hashes
  <2>3. \A e \in index' : e \in [key : Hashes, id : Nat] /\ e.id + 1 \in 1 .. Len(b')
    BY <2>1, <2>2 DEF RInv
  <2>4. \A d \in Callers : chosen[d] # NoLookup =>
            /\ chosen[d].id \in Nat /\ chosen[d].id + 1 \in 1 .. Len(b')
            /\ chosen[d].id # Len(b)
    BY <2>1 DEF RInv
  <2> QED BY <2>1, <2>3, <2>4 DEF RInv
<1>3. ASSUME GeneratorStep PROVE RInv'
  BY <1>3, GeneratorEffect DEF RInv, registry
<1>4. CASE Generated
  <2>1. /\ generator \in Generators /\ generator.id + 1 = Len(b)
        /\ Answer(generator.caller, generator.indices, generator.id)
        /\ generator' = Idle /\ UNCHANGED <<b, index, run>>
    BY <1>4 DEF Generated, RInv, registry
  <2>2. generator.id \in Nat /\ generator.id + 1 \in 1 .. Len(b) /\ generator.caller \in Callers
    BY <2>1 DEF RInv, Generators
  <2>3. /\ DOMAIN chosen' = Callers
        /\ \A d \in Callers : chosen'[d] =
              IF d = generator.caller
              THEN [indices |-> generator.indices, id |-> generator.id] ELSE chosen[d]
    BY <2>1, <2>2, AnswerEffect DEF RInv
  <2> QED BY <2>1, <2>2, <2>3 DEF RInv
<1>5. CASE Restart
  <2>1. b' \in Seq(Indices)
    BY <1>5 DEF Restart
  <2> QED BY <1>5, <2>1 DEF Restart, RInv
<1>6. CASE UNCHANGED vars
  BY <1>6 DEF vars, registry, RInv
<1> QED BY <1>1, <1>2, <1>3, <1>4, <1>5, <1>6 DEF Next, GeneratorStep

LEMMA RInvAlways == Spec => []RInv
BY InitRInv, NextRInv, PTL DEF Spec

-----------------------------------------------------------------------------
(* The folders while the generator works. *)
LEMMA GeneratorKInv == ASSUME RInv, KInv, GeneratorStep PROVE KInv'
<1> DEFINE id == generator.id
           t == GetThreshold(generator.indices)
<1>1. /\ generator # Idle /\ generator' # Idle /\ generator \in Generators
      /\ generator'.id = id /\ generator'.indices = generator.indices
      /\ DOMAIN keys \subseteq DOMAIN keys'
      /\ \A n \in DOMAIN keys : n # id => keys'[n] = keys[n]
      /\ failed \subseteq failed'
      /\ UNCHANGED <<b, index, chosen, run>>
  BY GeneratorEffect DEF registry, RInv
<1>2. id + 1 = Len(b) /\ Len(b) \in Nat /\ id \in Nat /\ b[Len(b)] = generator.indices
  BY <1>1 DEF RInv, Generators
<1>3. ASSUME NEW n \in 1 .. Len(b), n # Len(b)
      PROVE  n - 1 \in failed' \/ Complete(n)'
  <2>1. n - 1 # id
    BY <1>2, <1>3
  <2>2. n - 1 \in failed \/ Complete(n)
    BY <1>3 DEF KInv
  <2> QED BY <1>1, <2>1, <2>2 DEF Complete
<1>4. t \in Nat
  BY <1>1, ThresholdNat DEF Generators
<1>5. CASE MakeFolder
  <2>1. generator'.step = "emptied"
    BY <1>1, <1>5 DEF MakeFolder, Write, Generators
  <2>2. id \in DOMAIN keys' /\ keys'[id] = Keys(0, 0)
    BY <1>5 DEF MakeFolder, Write, Stored, Emptied, NoKeys, Keys
  <2> QED BY <1>1, <1>3, <2>1, <2>2 DEF KInv
<1>6. CASE CreatePubPoly
  <2>1. generator'.step = "public" /\ generator.step = "emptied"
    BY <1>1, <1>6 DEF CreatePubPoly, Write, Generators
  <2>2. keys[id] = Keys(0, 0)
    BY <1>1, <2>1 DEF KInv
  <2>3. KeyThreshold(generator.indices) = t
    BY DEF KeyThreshold, GetThreshold
  <2>4. [keys[id] EXCEPT !.pub = @ + KeyThreshold(generator.indices)] = Keys(t, 0)
    BY <1>4, <2>2, <2>3 DEF Keys
  <2>5. id \in DOMAIN keys' /\ keys'[id] = Keys(t, 0)
    BY <1>6, <2>4 DEF CreatePubPoly, Write, Stored
  <2> QED BY <1>1, <1>3, <2>1, <2>5 DEF KInv
<1>7. CASE CreatePrivateShares
  <2>1. generator'.step = "ended" /\ generator.step = "public"
    BY <1>1, <1>7 DEF CreatePrivateShares, Write, Generators
  <2>2. keys[id] = Keys(t, 0)
    BY <1>1, <2>1 DEF KInv
  <2>3. Shares(keys[id], NumOfConn) = Keys(t, 1)
    <3>1. \A s \in Servers : s < NumOfConn
      BY PatternsAssumption DEF Servers
    <3>2. [s \in Servers |-> IF s < NumOfConn THEN Keys(t, 0).pri[s] + 1 ELSE Keys(t, 0).pri[s]]
             = [s \in Servers |-> 1]
      BY <3>1 DEF Keys
    <3> QED BY <2>2, <3>2 DEF Shares, Keys
  <2>4. id \in DOMAIN keys' /\ keys'[id] = Keys(t, 1)
    BY <1>7, <2>3 DEF CreatePrivateShares, Write, Stored
  <2>5. Complete(Len(b))'
    <3>1. Len(b) - 1 = id
      BY <1>2
    <3> QED BY <1>1, <1>2, <2>4, <3>1 DEF Complete
  <2> QED BY <1>1, <1>3, <2>1, <2>5 DEF KInv
<1>8. CASE GeneratorFails
  <2>1. generator'.step = "ended" /\ id \in failed'
    BY <1>1, <1>8 DEF GeneratorFails, Generators
  <2> QED BY <1>1, <1>3, <2>1 DEF KInv
<1> QED BY <1>5, <1>6, <1>7, <1>8 DEF GeneratorStep

LEMMA NextKInv == RInv /\ KInv /\ [Next]_vars => KInv'
<1> SUFFICES ASSUME RInv, KInv, [Next]_vars PROVE KInv'
  OBVIOUS
<1>1. ASSUME NEW c \in Callers, NEW P \in Patterns, FoundBooth(c, P) PROVE KInv'
  BY <1>1 DEF FoundBooth, KInv, Complete, registry
<1>2. ASSUME NEW c \in Callers, NEW P \in Patterns, NewBooth(c, P) PROVE KInv'
  <2>1. PICK I \in Indices :
             /\ generator = Idle
             /\ Len(b) \in Nat /\ Len(b') = Len(b) + 1
             /\ \A n \in 1 .. Len(b) : b'[n] = b[n]
             /\ generator' = [caller |-> c, indices |-> I, id |-> Len(b), step |-> "started"]
             /\ generator' \in Generators
             /\ UNCHANGED <<failed, keys>>
    BY <1>2, NewBoothEffect
  <2>2. ASSUME NEW n \in 1 .. Len(b'), n # Len(b')
        PROVE  n - 1 \in failed \/ Complete(n)'
    <3>1. n \in 1 .. Len(b)
      BY <2>1, <2>2
    <3> QED BY <2>1, <3>1 DEF KInv, Complete
  <2> QED BY <2>1, <2>2, IdleAssumption DEF KInv
<1>3. ASSUME GeneratorStep PROVE KInv'
  BY <1>3, GeneratorKInv
<1>4. CASE Generated
  <2>1. /\ generator # Idle /\ generator.step = "ended" /\ generator' = Idle
        /\ UNCHANGED <<b, keys, failed>>
    BY <1>4 DEF Generated, registry
  <2>2. Len(b) - 1 \in failed \/ Complete(Len(b))
    <3>1. generator.id + 1 = Len(b) /\ generator.id \in Nat
      BY <2>1 DEF RInv, Generators
    <3> QED BY <2>1, <3>1 DEF KInv
  <2> QED BY <2>1, <2>2 DEF KInv, Complete
<1>5. CASE Restart
  <2>1. Len(b') = 0 /\ generator' = Idle
    BY <1>5 DEF Restart
  <2> QED BY <2>1 DEF KInv
<1>6. CASE UNCHANGED vars
  BY <1>6 DEF vars, registry, KInv, Complete
<1> QED BY <1>1, <1>2, <1>3, <1>4, <1>5, <1>6 DEF Next, GeneratorStep

(* Whoever is given an id by getBoothID finds complete keys for its booth, *)
(* unless the generator reported an error: the lock of booMgr is held      *)
(* until they are written, and what a run before left is removed first.    *)
THEOREM KeysCompleteBeforeUse == Spec => []KeysBeforeUse
<1>1. RInv /\ KInv => KeysBeforeUse
  <2> SUFFICES ASSUME RInv, KInv, NEW c \in Callers, chosen[c] # NoLookup,
                      chosen[c].id \notin failed, NEW s \in b[chosen[c].id + 1]
               PROVE  FetchKeysByBoothId(GetThreshold(b[chosen[c].id + 1]), s, chosen[c].id)
    BY DEF KeysBeforeUse
  <2> DEFINE n == chosen[c].id + 1
  <2>1. n \in 1 .. Len(b) /\ n - 1 = chosen[c].id /\ b[n] \in Indices
    BY DEF RInv
  <2>2. ~(generator # Idle /\ n = Len(b))
    BY <2>1 DEF RInv, Generators
  <2>3. Complete(n)
    BY <2>1, <2>2 DEF KInv
  <2>4. s \in Servers
    BY <2>1, PatternsAssumption DEF Indices, Servers
  <2> QED BY <2>1, <2>3, <2>4 DEF Complete, Keys, FetchKeysByBoothId, FetchPubPoly, FetchPriShare
<1>2. Spec => [](RInv /\ KInv)
  <2>1. Init => RInv /\ KInv
    BY InitRInv
  <2>2. RInv /\ KInv /\ [Next]_vars => (RInv /\ KInv)'
    BY NextRInv, NextKInv
  <2> QED BY <2>1, <2>2, PTL DEF Spec
<1> QED BY <1>1, <1>2, PTL

-----------------------------------------------------------------------------
(* Without collisions the index is right. *)
LEMMA NextXInv == ASSUME NoCollision PROVE RInv /\ XInv /\ [Next]_vars => XInv'
<1> SUFFICES ASSUME RInv, XInv, [Next]_vars PROVE XInv'
  OBVIOUS
<1>1. ASSUME NEW c \in Callers, NEW P \in Patterns, FoundBooth(c, P) PROVE XInv'
  <2> DEFINE I == P \cup {ServerID}
  <2>1. I \in Indices
    BY DEF Indices
  <2> HIDE DEF I
  <2>2. PICK e \in index : e.key = GenerateBoothHash(I) /\ Answer(c, I, e.id)
    BY <1>1 DEF FoundBooth, I
  <2>3. UNCHANGED <<b, index>>
    BY <1>1 DEF FoundBooth, registry
  <2>4. e.id + 1 \in 1 .. Len(b) /\ e.key = GenerateBoothHash(b[e.id + 1])
    BY DEF RInv, XInv
  <2>5. b[e.id + 1] \in Indices
    BY <2>4 DEF RInv
  <2>6. b[e.id + 1] = I
    BY <2>1, <2>2, <2>4, <2>5 DEF NoCollision
  <2>7. \A d \in Callers : chosen'[d] = IF d = c THEN [indices |-> I, id |-> e.id] ELSE chosen[d]
    BY <2>2, AnswerEffect DEF RInv
  <2> QED BY <2>3, <2>6, <2>7 DEF XInv
<1>2. ASSUME NEW c \in Callers, NEW P \in Patterns, NewBooth(c, P) PROVE XInv'
  <2>1. PICK I \in Indices :
             /\ \A e \in index : e.key # GenerateBoothHash(I)
             /\ Len(b) \in Nat /\ Len(b') = Len(b) + 1
             /\ \A n \in 1 .. Len(b) : b'[n] = b[n]
             /\ b'[Len(b) + 1] = I
             /\ index' = index \cup {[key |-> GenerateBoothHash(I), id |-> Len(b)]}
             /\ UNCHANGED chosen
    BY <1>2, NewBoothEffect
  <2>2. \A n \in 1 .. Len(b) : b[n] # I
    <3> SUFFICES ASSUME NEW n \in 1 .. Len(b), b[n] = I PROVE FALSE
      OBVIOUS
    <3>1. PICK e \in index : e.id + 1 = n
      BY DEF XInv
    <3>2. e.key = GenerateBoothHash(I)
      BY <3>1 DEF XInv
    <3> QED BY <2>1, <3>2
  <2>3. ASSUME NEW e \in index' PROVE e.key = GenerateBoothHash(b'[e.id + 1])
    <3>1. CASE e \in index
      <4>1. e.id + 1 \in 1 .. Len(b) /\ e.key = GenerateBoothHash(b[e.id + 1])
        BY <3>1 DEF RInv, XInv
      <4>2. b'[e.id + 1] = b[e.id + 1]
        BY <2>1, <4>1
      <4> QED BY <4>1, <4>2
    <3>2. CASE e \notin index
      <4>1. e.key = GenerateBoothHash(I) /\ e.id = Len(b)
        BY <2>1, <2>3, <3>2
      <4> QED BY <2>1, <4>1
    <3> QED BY <3>1, <3>2
  <2>4. ASSUME NEW n \in 1 .. Len(b') PROVE \E e \in index' : e.id + 1 = n
    <3>1. CASE n \in 1 .. Len(b)
      BY <2>1, <3>1 DEF XInv
    <3>2. CASE n \notin 1 .. Len(b)
      <4>1. n = Len(b) + 1
        BY <2>1, <3>2
      <4> DEFINE new == [key |-> GenerateBoothHash(I), id |-> Len(b)]
      <4>2. new \in index' /\ new.id + 1 = n
        BY <2>1, <4>1
      <4> QED BY <4>2
    <3> QED BY <3>1, <3>2
  <2>5. ASSUME NEW n \in 1 .. Len(b'), NEW m \in 1 .. Len(b'), b'[n] = b'[m]
        PROVE  n = m
    BY <2>1, <2>2, <2>5 DEF XInv
  <2>6. \A d \in Callers : chosen'[d] # NoLookup => b'[chosen'[d].id + 1] = chosen'[d].indices
    BY <2>1 DEF RInv, XInv
  <2> QED BY <2>3, <2>4, <2>5, <2>6 DEF XInv
<1>3. ASSUME GeneratorStep PROVE XInv'
  BY <1>3, GeneratorEffect DEF XInv, registry
<1>4. CASE Generated
  <2>1. /\ generator \in Generators /\ generator.id + 1 = Len(b)
        /\ b[Len(b)] = generator.indices
        /\ Answer(generator.caller, generator.indices, generator.id)
        /\ UNCHANGED <<b, index>>
    BY <1>4 DEF Generated, RInv, registry
  <2>2. generator.caller \in Callers
    BY <2>1 DEF Generators
  <2>3. \A d \in Callers : chosen'[d] =
              IF d = generator.caller
              THEN [indices |-> generator.indices, id |-> generator.id] ELSE chosen[d]
    BY <2>1, <2>2, AnswerEffect DEF RInv
  <2> QED BY <2>1, <2>3 DEF XInv
<1>5. CASE Restart
  <2>1. /\ Len(b') = 0 /\ index' = {}
        /\ \A c \in Callers : chosen'[c] = NoLookup
    BY <1>5 DEF Restart
  <2> QED BY <2>1 DEF XInv
<1>6. CASE UNCHANGED vars
  BY <1>6 DEF vars, registry, XInv
<1> QED BY <1>1, <1>2, <1>3, <1>4, <1>5, <1>6 DEF Next, GeneratorStep

(* The id that getBoothID returns stands for exactly the vehicles in range *)
(* at the call, and callers get equal ids exactly for equal vehicles,      *)
(* provided that the undelimited ids of no two booths print alike.         *)
THEOREM BoothsMatchExactly == ASSUME NoCollision PROVE Spec => []ExactMatch
<1>1. RInv /\ XInv => ExactMatch
  <2> SUFFICES ASSUME RInv, XInv PROVE ExactMatch
    OBVIOUS
  <2>1. \A n, m \in 1 .. Len(b) : b[n] = b[m] => n = m
    BY DEF XInv
  <2>2. \A c \in Callers : chosen[c] # NoLookup =>
            /\ chosen[c].id \in Nat
            /\ chosen[c].id + 1 \in 1 .. Len(b)
            /\ b[chosen[c].id + 1] = chosen[c].indices
    BY DEF RInv, XInv
  <2> QED BY <2>1, <2>2 DEF ExactMatch
<1>2. Spec => [](RInv /\ XInv)
  <2>1. Init => RInv /\ XInv
    BY InitRInv
  <2>2. RInv /\ XInv /\ [Next]_vars => (RInv /\ XInv)'
    BY NextRInv, NextXInv
  <2> QED BY <2>1, <2>2, PTL DEF Spec
<1> QED BY <1>1, <1>2, PTL

-----------------------------------------------------------------------------
(* A step of a run only appends to booMgr.b, and only the generator's own  *)
(* folder changes.                                                         *)
LEMMA StepKeepsIds == RInv /\ [Next]_vars =>
    [run' = run =>
       /\ Len(b') >= Len(b)
       /\ \A n \in 1 .. Len(b) :
            /\ b'[n] = b[n]
            /\ \/ generator # Idle /\ generator.id + 1 = n
               \/ n - 1 \in DOMAIN keys' <=> n - 1 \in DOMAIN keys
            /\ \/ generator # Idle /\ generator.id + 1 = n
               \/ n - 1 \in DOMAIN keys => keys'[n - 1] = keys[n - 1]]_vars
<1> SUFFICES ASSUME RInv, Next, run' = run
             PROVE  /\ Len(b') >= Len(b)
                    /\ \A n \in 1 .. Len(b) :
                         /\ b'[n] = b[n]
                         /\ \/ generator # Idle /\ generator.id + 1 = n
                            \/ n - 1 \in DOMAIN keys' <=> n - 1 \in DOMAIN keys
                         /\ \/ generator # Idle /\ generator.id + 1 = n
                            \/ n - 1 \in DOMAIN keys => keys'[n - 1] = keys[n - 1]
  OBVIOUS
<1>1. Len(b) \in Nat
  BY DEF RInv
<1>2. CASE UNCHANGED <<b, keys>>
  BY <1>1, <1>2
<1>3. ASSUME NEW c \in Callers, NEW P \in Patterns, NewBooth(c, P)
      PROVE  /\ Len(b') >= Len(b) /\ \A n \in 1 .. Len(b) : b'[n] = b[n]
             /\ UNCHANGED keys
  BY <1>3, NewBoothEffect
<1>4. CASE GeneratorStep
  <2>1. /\ generator # Idle /\ generator \in Generators
        /\ DOMAIN keys \subseteq DOMAIN keys'
        /\ DOMAIN keys' \subseteq DOMAIN keys \cup {generator.id}
        /\ \A n \in DOMAIN keys : n # generator.id => keys'[n] = keys[n]
        /\ b' = b
    BY <1>4, GeneratorEffect DEF registry, RInv
  <2>2. \A n \in 1 .. Len(b) : generator.id + 1 # n => n - 1 # generator.id
    BY <1>1, <2>1 DEF Generators
  <2> QED BY <1>1, <2>1, <2>2
<1>5. ~Restart
  BY DEF Restart, RInv
<1>6. (\E c \in Callers, P \in Patterns : FoundBooth(c, P)) \/ Generated => UNCHANGED <<b, keys>>
  BY DEF FoundBooth, Generated, registry
<1> QED BY <1>2, <1>3, <1>4, <1>5, <1>6 DEF Next, GeneratorStep

(* Within a run getBoothID never renumbers a booth, and never touches keys *)
(* that were written for one, with collisions or without.                  *)
THEOREM IdsNeverReassigned == Spec => IdsKeepTheirBooth
<1>1. Spec => []RInv
  BY RInvAlways
<1> QED BY <1>1, StepKeepsIds, PTL DEF Spec, IdsKeepTheirBooth

-----------------------------------------------------------------------------
(* How many ids a run can use: every booth was made for a pattern, and no  *)
(* two for the same one, as they would hash alike.                         *)
UsablePatterns == {P \in Patterns : Usable(P)}

BInv ==
    /\ \A n \in 1 .. Len(b) : \E P \in UsablePatterns : b[n] = P \cup {ServerID}
    /\ \A n \in 1 .. Len(b) : \E e \in index : e.key = GenerateBoothHash(b[n])
    /\ \A n, m \in 1 .. Len(b) : GenerateBoothHash(b[n]) = GenerateBoothHash(b[m]) => n = m

(* The contents of a folder: all coefficients or none, one share or none. *)
FolderType(folder) ==
    /\ folder.pub \in {0} \cup {GetThreshold(I) : I \in Indices}
    /\ folder.pri \in [Servers -> 0 .. 1]

TInv ==
    /\ failed \subseteq Ids
    /\ DOMAIN keys \subseteq Ids
    /\ \A id \in DOMAIN keys : FolderType(keys[id])
    /\ chosen \in [Callers -> [indices : Indices, id : Nat] \cup {NoLookup}]
    /\ run \in 1 .. MaxRuns

LEMMA PatternsFinite ==
    /\ IsFiniteSet(UsablePatterns) /\ Cardinality(UsablePatterns) \in Nat
    /\ Ids = 0 .. Cardinality(UsablePatterns) - 1
<1>1. IsFiniteSet(0 .. NumOfConn - 1)
  BY FS_Interval, PatternsAssumption
<1>2. IsFiniteSet(SUBSET (0 .. NumOfConn - 1))
  BY <1>1, FS_SUBSET
<1>3. UsablePatterns \subseteq SUBSET (0 .. NumOfConn - 1)
  BY PatternsAssumption DEF UsablePatterns
<1> QED BY <1>2, <1>3, FS_Subset, FS_CardinalityType DEF Ids, UsablePatterns

(* Two booths of one pattern would have the same hash. *)
LEMMA RegistryBounded ==
    ASSUME RInv, BInv PROVE Len(b) <= Cardinality(UsablePatterns)
<1> DEFINE pattern == [n \in 1 .. Len(b) |-> b[n] \ {ServerID}]
<1>1. Len(b) \in Nat
  BY DEF RInv
<1>2. ASSUME NEW n \in 1 .. Len(b)
      PROVE  pattern[n] \in UsablePatterns /\ b[n] = pattern[n] \cup {ServerID}
  <2>1. PICK P \in UsablePatterns : b[n] = P \cup {ServerID}
    BY DEF BInv
  <2>2. ServerID \notin P
    BY PatternsAssumption DEF UsablePatterns
  <2>3. b[n] \ {ServerID} = P
    BY <2>1, <2>2
  <2> QED BY <2>1, <2>3
<1>3. ASSUME NEW n \in 1 .. Len(b), NEW m \in 1 .. Len(b), pattern[n] = pattern[m]
      PROVE  n = m
  <2>1. b[n] = b[m]
    BY <1>2, <1>3
  <2> QED BY <2>1 DEF BInv
<1>4. pattern \in Injection(1 .. Len(b), UsablePatterns)
  <2>1. pattern \in [1 .. Len(b) -> UsablePatterns] /\ DOMAIN pattern = 1 .. Len(b)
    BY <1>2
  <2> HIDE DEF pattern
  <2>2. IsInjective(pattern)
    BY <1>3, <2>1 DEF IsInjective
  <2> QED BY <2>1, <2>2 DEF Injection
<1>5. Cardinality(1 .. Len(b)) = Len(b)
  BY <1>1, FS_Interval
<1>6. Cardinality(1 .. Len(b)) <= Cardinality(UsablePatterns)
  BY <1>4, PatternsFinite, FS_Injection
<1> QED BY <1>5, <1>6

(* Positions are ids. *)
LEMMA PositionsAreIds ==
    ASSUME RInv, BInv, NEW id \in Nat, id + 1 \in 1 .. Len(b) PROVE id \in Ids
<1>1. Len(b) \in Nat
  BY DEF RInv
<1> QED BY <1>1, RegistryBounded, PatternsFinite

LEMMA NextBInv == RInv /\ BInv /\ [Next]_vars => BInv'
<1> SUFFICES ASSUME RInv, BInv, [Next]_vars PROVE BInv'
  OBVIOUS
<1>1. ASSUME NEW c \in Callers, NEW P \in Patterns, NewBooth(c, P) PROVE BInv'
  <2>1. PICK I : I = P \cup {ServerID}
    OBVIOUS
  <2>2. /\ Usable(P)
        /\ \A e \in index : e.key # GenerateBoothHash(I)
        /\ b' = Append(b, I)
        /\ index' = index \cup {[key |-> GenerateBoothHash(I), id |-> Len(b)]}
    BY <1>1, <2>1 DEF NewBooth, Appended, NewID
  <2>3. b \in Seq(Indices) /\ I \in Indices /\ Len(b) \in Nat
    BY <2>1 DEF RInv, Indices
  <2>4. /\ Len(b') = Len(b) + 1 /\ b'[Len(b) + 1] = I
        /\ \A n \in 1 .. Len(b) : b'[n] = b[n]
    BY <2>2, <2>3
  <2>5. P \in UsablePatterns
    BY <2>2 DEF UsablePatterns
  <2>6. ASSUME NEW n \in 1 .. Len(b')
        PROVE  /\ \E Q \in UsablePatterns : b'[n] = Q \cup {ServerID}
               /\ \E e \in index' : e.key = GenerateBoothHash(b'[n])
    <3>1. CASE n \in 1 .. Len(b)
      BY <2>2, <2>4, <3>1 DEF BInv
    <3>2. CASE n \notin 1 .. Len(b)
      <4>1. n = Len(b) + 1 /\ b'[n] = I
        BY <2>3, <2>4, <3>2
      <4>2. [key |-> GenerateBoothHash(I), id |-> Len(b)] \in index'
        BY <2>2
      <4> QED BY <2>1, <2>5, <4>1, <4>2
    <3> QED BY <3>1, <3>2
  <2>7. \A n \in 1 .. Len(b) : GenerateBoothHash(b[n]) # GenerateBoothHash(I)
    BY <2>2 DEF BInv
  <2>8. ASSUME NEW n \in 1 .. Len(b'), NEW m \in 1 .. Len(b'),
               GenerateBoothHash(b'[n]) = GenerateBoothHash(b'[m])
        PROVE  n = m
    <3>1. \A k \in 1 .. Len(b') : k \in 1 .. Len(b) \/ (k = Len(b) + 1 /\ b'[k] = I)
      BY <2>3, <2>4
    <3> QED BY <2>4, <2>7, <2>8, <3>1 DEF BInv
  <2> QED BY <2>6, <2>8 DEF BInv
<1>2. ASSUME UNCHANGED registry PROVE BInv'
  BY <1>2 DEF BInv, registry
<1>3. CASE Restart
  BY <1>3 DEF Restart, BInv
<1>4. CASE GeneratorStep
  BY <1>2, <1>4, GeneratorEffect
<1> QED BY <1>1, <1>2, <1>3, <1>4 DEF Next, GeneratorStep, FoundBooth, Generated, vars

(* What the generator writes. *)
LEMMA GeneratorTInv == ASSUME RInv, KInv, BInv, TInv, GeneratorStep PROVE TInv'
<1> PICK id : id = generator.id
  OBVIOUS
<1>1. /\ generator # Idle /\ generator \in Generators
      /\ DOMAIN keys' \subseteq DOMAIN keys \cup {id}
      /\ \A n \in DOMAIN keys : n # id => keys'[n] = keys[n]
      /\ UNCHANGED <<b, index, chosen, run>>
  BY GeneratorEffect DEF registry, RInv
<1>2. id \in Ids
  <2>1. id \in Nat /\ id + 1 = Len(b) /\ Len(b) \in Nat
    BY <1>1 DEF RInv, Generators
  <2> QED BY <2>1, PositionsAreIds
<1>3. failed' \subseteq Ids
  BY <1>2 DEF GeneratorStep, MakeFolder, CreatePubPoly, CreatePrivateShares, Write,
              GeneratorFails, TInv
<1>4. FolderType(Keys(0, 0)) /\ FolderType(Keys(GetThreshold(generator.indices), 0))
  BY <1>1 DEF FolderType, Keys, Generators
<1>5. ASSUME generator.step = "public", NEW n
      PROVE  FolderType(Shares(keys[id], n))
  <2>1. keys[id] = Keys(GetThreshold(generator.indices), 0)
    BY <1>1, <1>5 DEF KInv
  <2>2. /\ Shares(keys[id], n).pub = GetThreshold(generator.indices)
        /\ Shares(keys[id], n).pri = [s \in Servers |-> IF s < n THEN 0 + 1 ELSE 0]
    BY <2>1 DEF Shares, Keys
  <2> QED BY <1>4, <2>2 DEF FolderType, Keys
<1>6. \/ UNCHANGED keys
      \/ \E folder : FolderType(folder) /\ keys' = Stored(id, folder)
  <2>1. CASE MakeFolder
    BY <1>4, <2>1 DEF MakeFolder, Write, Emptied, NoKeys, Keys
  <2>2. CASE CreatePubPoly
    <3>1. keys[id] = Keys(0, 0) /\ GetThreshold(generator.indices) \in Nat
      BY <1>1, <2>2, ThresholdNat DEF CreatePubPoly, Write, KInv, Generators
    <3>2. KeyThreshold(generator.indices) = GetThreshold(generator.indices)
      BY DEF KeyThreshold, GetThreshold
    <3>3. [keys[id] EXCEPT !.pub = @ + KeyThreshold(generator.indices)]
             = Keys(GetThreshold(generator.indices), 0)
      BY <3>1, <3>2 DEF Keys
    <3> QED BY <1>4, <2>2, <3>3 DEF CreatePubPoly, Write
  <2>3. CASE CreatePrivateShares
    BY <1>5, <2>3 DEF CreatePrivateShares, Write
  <2>4. CASE GeneratorFails
    BY <1>5, <2>4 DEF GeneratorFails
  <2> QED BY <2>1, <2>2, <2>3, <2>4 DEF GeneratorStep
<1>7. ASSUME NEW n \in DOMAIN keys' PROVE n \in Ids /\ FolderType(keys'[n])
  BY <1>1, <1>2, <1>6 DEF TInv, Stored
<1> QED BY <1>1, <1>3, <1>7 DEF TInv, FolderType

LEMMA NextTInv == RInv /\ KInv /\ BInv /\ TInv /\ [Next]_vars => TInv'
<1> SUFFICES ASSUME RInv, KInv, BInv, TInv, [Next]_vars PROVE TInv'
  OBVIOUS
<1>1. ASSUME NEW c \in Callers, NEW P \in Patterns, FoundBooth(c, P) PROVE TInv'
  <2>1. PICK e \in index : Answer(c, P \cup {ServerID}, e.id)
    BY <1>1 DEF FoundBooth
  <2>2. e.id \in Nat /\ P \cup {ServerID} \in Indices
    BY DEF RInv, Indices
  <2> QED BY <1>1, <2>1, <2>2 DEF FoundBooth, Answer, TInv, FolderType
<1>2. ASSUME NEW c \in Callers, NEW P \in Patterns, NewBooth(c, P) PROVE TInv'
  BY <1>2 DEF NewBooth, TInv, FolderType
<1>3. CASE GeneratorStep
  BY <1>3, GeneratorTInv
<1>4. CASE Generated
  <2>1. generator \in Generators
    BY <1>4 DEF Generated, RInv
  <2> QED BY <1>4, <2>1 DEF Generated, Answer, TInv, FolderType, Generators
<1>5. CASE Restart
  BY <1>5, PatternsAssumption DEF Restart, TInv, FolderType
<1>6. CASE UNCHANGED vars
  BY <1>6 DEF vars, TInv, FolderType
<1> QED BY <1>1, <1>2, <1>3, <1>4, <1>5, <1>6 DEF Next, GeneratorStep

(* The registry, the folders and the answers keep their types; getBoothID  *)
(* never makes more booths than there are patterns of three vehicles or    *)
(* more, in any run, and what is in a key file is nothing or complete for  *)
(* a booth's threshold, whatever the generator has written over.           *)
THEOREM BoothMgrTypeCorrect == Spec => []TypeOK
<1>1. Init => BInv /\ TInv
  BY PatternsAssumption DEF Init, BInv, TInv
<1>2. Spec => [](RInv /\ KInv /\ BInv /\ TInv)
  <2>1. Init => RInv /\ KInv /\ BInv /\ TInv
    BY InitRInv, <1>1
  <2>2. RInv /\ KInv /\ BInv /\ TInv /\ [Next]_vars => (RInv /\ KInv /\ BInv /\ TInv)'
    BY NextRInv, NextKInv, NextBInv, NextTInv
  <2> QED BY <2>1, <2>2, PTL DEF Spec
<1>3. RInv /\ KInv /\ BInv /\ TInv => TypeOK
  <2> SUFFICES ASSUME RInv, KInv, BInv, TInv PROVE TypeOK
    OBVIOUS
  <2>1. index \subseteq [key : Hashes, id : Ids]
    <3> SUFFICES ASSUME NEW e \in index PROVE e \in [key : Hashes, id : Ids]
      OBVIOUS
    <3>1. e \in [key : Hashes, id : Nat] /\ e.id + 1 \in 1 .. Len(b)
      BY DEF RInv
    <3>2. e.id \in Ids
      BY <3>1, PositionsAreIds
    <3> QED BY <3>1, <3>2
  <2>2. generator # Idle => generator.id \in Ids
    <3>1. Len(b) \in Nat
      BY DEF RInv
    <3> QED BY <3>1, PositionsAreIds DEF RInv, Generators
  <2>3. chosen \in [Callers -> [indices : Indices, id : Ids] \cup {NoLookup}]
    <3>1. ASSUME NEW c \in Callers, chosen[c] # NoLookup
          PROVE  chosen[c] \in [indices : Indices, id : Ids]
      <4>1. chosen[c] \in [indices : Indices, id : Nat] /\ chosen[c].id + 1 \in 1 .. Len(b)
        BY <3>1 DEF RInv, TInv
      <4>2. chosen[c].id \in Ids
        BY <4>1, PositionsAreIds
      <4> QED BY <4>1, <4>2
    <3> QED BY <3>1 DEF TInv
  <2> QED BY <2>1, <2>2, <2>3 DEF TypeOK, RInv, TInv, FolderType
<1> QED BY <1>2, <1>3, PTL
=============================================================================
