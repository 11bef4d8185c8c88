----------------------------- MODULE StartupProofs -----------------------------
(***************************************************************************)
(* Theorems about module Startup, for any servers, phases, clocks and      *)
(* numbers of attempts.                                                    *)
(*                                                                         *)
(* The listeners only count: NInv says what they have counted when a       *)
(* proposer goes on.  The first wait is over when, in each phase, as many  *)
(* servers were accepted as there are validators, whoever they are; the    *)
(* second when as many more were as there are other proposers.  Together   *)
(* these are all the other servers, so a proposer that is ready has a      *)
(* connection with everybody, though maybe not with the right handler.     *)
(* That is why start times agree.  FInv follows who can dial the first     *)
(* proposer of the list before all validators have.                        *)
(***************************************************************************)
EXTENDS Startup, FiniteSetTheorems, SequenceTheorems, TLAPS

(* The main goroutine has gone on to dial, or has ended since. *)
Past(s) == pc[s] \notin {"off", "accepting"}

(* A server's connections are those of its dials so far. *)
DialInv ==
    \A s \in Servers :
        /\ ~Past(s) => dialNo[s] = 1
        /\ s \in Validators => pc[s] # "accepting"
        /\ dialNo[s] <= Dials(s) + 1
        /\ \A p \in Proposers, ph \in PhaseSet : conn[p][ph][s] # "none" =>
              \E n \in 1 .. dialNo[s] - 1 : p = DialledProposer(s, n) /\ ph = DialledPhase(n)

(* The backlog of a listener is the queued connections, each once. *)
Queues(p, ph) ==
    /\ IsInjective(backlog[p][ph])
    /\ ToSet(backlog[p][ph]) = Accepted(p, ph, "queued")

QueueInv == \A p \in Proposers, ph \in PhaseSet : Queues(p, ph)

(* What a listener has accepted in each of its states. *)
Fewer(p, ph) ==
    \/ Cardinality(Accepted(p, ph, "validator")) < Cardinality(Validators)
    \/ Validators = {}

Listens(p, ph) ==
    /\ pc[p] = "off" => vListener[p][ph] = "none"
    /\ Past(p) => vListener[p][ph] \in {"closing", "closed"}
    /\ pListener[p][ph] = "none" <=> ~Past(p)
    /\ vListener[p][ph] = "none" => \A s \in Servers : conn[p][ph][s] = "none"
    /\ vListener[p][ph] = "open" =>
          /\ \A s \in Servers : conn[p][ph][s] \in {"none", "queued", "validator"}
          /\ Fewer(p, ph)
    /\ vListener[p][ph] \in {"closing", "closed"} =>
          /\ Cardinality(Accepted(p, ph, "validator")) = Cardinality(Validators)
          /\ Validators # {}
    /\ pListener[p][ph] = "open" => vListener[p][ph] = "closed"
    /\ Accepted(p, ph, "proposer") # {} => pListener[p][ph] = "open"

ListenInv == \A p \in Proposers, ph \in PhaseSet : Listens(p, ph)

(* The phases that have not signalled the wait group yet. *)
OpenPhases(p) == {ph \in PhaseSet : vListener[p][ph] \in {"none", "open"}}
Complete(p, ph) ==
    /\ pListener[p][ph] = "open"
    /\ Cardinality(Accepted(p, ph, "proposer")) >= Len(ProposerList) - 1
Incomplete(p) == {ph \in PhaseSet : ~Complete(p, ph)}

(* The wait group counts them. *)
Counts(p) ==
    /\ pc[p] = "accepting" => wg[p] = Cardinality(OpenPhases(p))
    /\ Past(p) => wg[p] = Cardinality(Incomplete(p))

CountInv == \A p \in Proposers : Counts(p)

NInv == TypeOK /\ DialInv /\ QueueInv /\ ListenInv /\ CountInv

-----------------------------------------------------------------------------
(* A proposer that has set its start time has a connection with everybody. *)
ReadyInv ==
    \A p \in Proposers : pc[p] \in {"syncing", "started"} =>
        \A ph \in PhaseSet, s \in Servers \ {p} : Registered(p, ph, s)

(* Some proposer, one that was ready last, is not behind the time, and     *)
(* everybody it has sent its time to is not, or will not be.               *)
Latest(p) ==
    /\ startTime[p] >= now
    /\ pc[p] = "started" => \A s \in Servers \ {p} :
          \/ startTime[s] >= now
          \/ \E m \in times : m.to = s /\ m.time >= now

TimeInv ==
    /\ \A s \in Servers : startTime[s] <= now + MaxSkew
    /\ \A m \in times : m.time <= now + MaxSkew
    /\ \/ now = 0
       \/ \E p \in Proposers : pc[p] \in {"syncing", "started", "ended"} /\ Latest(p)

-----------------------------------------------------------------------------
NobodyGaveUp == \A s \in Servers : ~GaveUp(s)

first == ProposerList[1]

(* Whoever the first proposer takes for a validator is one.  As long as it *)
(* accepts validators, other proposers come after all of them in its       *)
(* backlogs, because they only dial when all validators have.              *)
Unmixed(ph) ==
    /\ Accepted(first, ph, "validator") \cap Proposers = {}
    /\ vListener[first][ph] \in {"none", "open"} =>
          /\ (\E q \in Proposers \ {first} : Past(q)) =>
                \A v \in Validators : conn[first][ph][v] # "none"
          /\ \A i, j \in DOMAIN backlog[first][ph] :
                i < j /\ backlog[first][ph][j] \in Validators =>
                    backlog[first][ph][i] \in Validators

FInv == NobodyGaveUp => \A ph \in PhaseSet : Unmixed(ph)

-----------------------------------------------------------------------------
(* The dials of a server.                                                  *)

(* Distinct elements: a sequence is as long as it has elements. *)
LEMMA SeqCardinality ==
    ASSUME NEW S, NEW s \in Seq(S), IsInjective(s)
    PROVE  IsFiniteSet(ToSet(s)) /\ Cardinality(ToSet(s)) = Len(s)
<1> DEFINE D == 1 .. Len(s)
<1>1. Len(s) \in Nat /\ DOMAIN s = D /\ s \in [D -> ToSet(s)]
  BY DEF ToSet
<1>2. s \in Bijection(D, ToSet(s))
  BY <1>1 DEF Bijection, Injection, Surjection, IsInjective, ToSet
<1>3. IsFiniteSet(D) /\ Cardinality(D) = Len(s)
  BY <1>1, FS_Interval
<1>4. ExistsBijection(D, ToSet(s))
  BY <1>2 DEF ExistsBijection
<1> QED BY <1>3, <1>4, FS_Bijection

LEMMA ConstantFacts ==
    /\ IsFiniteSet(Proposers) /\ Cardinality(Proposers) = Len(ProposerList)
    /\ IsFiniteSet(PhaseSet) /\ Cardinality(PhaseSet) = NOP
    /\ Len(ProposerList) \in Nat \ {0} /\ NOP \in Nat \ {0}
    /\ IsFiniteSet(Validators) /\ Cardinality(Validators) \in Nat
    /\ IsFiniteSet(Servers)
    /\ first \in Proposers /\ OPA \in PhaseSet /\ TIME \in PhaseSet
<1>1. ProposerList \in Seq(Proposers) /\ Phases \in Seq(PhaseSet)
  BY StartupAssumption
<1>2. /\ IsFiniteSet(Proposers) /\ Cardinality(Proposers) = Len(ProposerList)
      /\ IsFiniteSet(PhaseSet) /\ Cardinality(PhaseSet) = NOP
  BY <1>1, StartupAssumption, SeqCardinality DEF Proposers, PhaseSet, NOP
<1>3. Len(ProposerList) \in Nat \ {0} /\ NOP \in Nat \ {0}
  BY <1>1, StartupAssumption DEF Proposers, PhaseSet, NOP, ToSet
<1>4. first \in Proposers /\ OPA \in PhaseSet /\ TIME \in PhaseSet
  BY <1>1, <1>3, StartupAssumption DEF first, OPA, NOP, Proposers, PhaseSet, ToSet
<1>5. IsFiniteSet(Validators) /\ Cardinality(Validators) \in Nat /\ IsFiniteSet(Servers)
  BY <1>2, StartupAssumption, FS_CardinalityType, FS_Union DEF Servers
<1> QED BY <1>2, <1>3, <1>4, <1>5

LEMMA RemoveAtFacts ==
    ASSUME NEW S, NEW s \in Seq(S), NEW k \in 1 .. Len(s)
    PROVE  /\ RemoveAt(s, k) \in Seq(S)
           /\ Len(RemoveAt(s, k)) = Len(s) - 1
           /\ \A i \in 1 .. Len(s) - 1 :
                RemoveAt(s, k)[i] = IF i < k THEN s[i] ELSE s[i + 1]
<1> DEFINE front == SubSeq(s, 1, k - 1)
           back == SubSeq(s, k + 1, Len(s))
<1>1. /\ front \in Seq(S) /\ Len(front) = k - 1
      /\ \A i \in 1 .. k - 1 : front[i] = s[i]
  OBVIOUS
<1>2. /\ back \in Seq(S) /\ Len(back) = Len(s) - k
      /\ \A i \in 1 .. Len(s) - k : back[i] = s[i + k]
  OBVIOUS
<1> HIDE DEF front, back
<1>3. /\ front \o back \in Seq(S) /\ Len(front \o back) = Len(s) - 1
      /\ \A i \in 1 .. Len(s) - 1 :
            (front \o back)[i] = IF i < k THEN s[i] ELSE s[i + 1]
  <2>1. /\ front \o back \in Seq(S) /\ Len(front \o back) = Len(front) + Len(back)
        /\ \A i \in 1 .. Len(front) + Len(back) :
              (front \o back)[i] = IF i <= Len(front) THEN front[i] ELSE back[i - Len(front)]
    BY <1>1, <1>2, ConcatProperties
  <2>2. Len(front) + Len(back) = Len(s) - 1
    BY <1>1, <1>2
  <2>3. ASSUME NEW i \in 1 .. Len(s) - 1
        PROVE  (front \o back)[i] = IF i < k THEN s[i] ELSE s[i + 1]
    <3>1. CASE i < k
      BY <1>1, <2>1, <2>2, <3>1
    <3>2. CASE ~(i < k)
      <4>1. i - (k - 1) \in 1 .. Len(s) - k /\ (i - (k - 1)) + k = i + 1
        BY <3>2
      <4>2. back[i - (k - 1)] = s[i + 1]
        BY <1>2, <4>1
      <4> QED BY <1>1, <2>1, <2>2, <3>2, <4>2
    <3> QED BY <3>1, <3>2
  <2> QED BY <2>1, <2>2, <2>3
<1> QED BY <1>3 DEF RemoveAt, front, back

(* Every server but the first proposer dials that one first, nobody dials  *)
(* itself, and nobody is dialled twice.                                    *)
LEMMA CoordinatorsFacts ==
    ASSUME NEW s \in Servers
    PROVE  /\ Coordinators(s) \in Seq(Proposers \ {s})
           /\ IsInjective(Coordinators(s))
           /\ Len(Coordinators(s)) <= Len(ProposerList)
           /\ s # first => Coordinators(s) # << >> /\ Coordinators(s)[1] = first
<1>1. /\ ProposerList \in Seq(Proposers) /\ IsInjective(ProposerList)
      /\ Len(ProposerList) \in Nat \ {0}
  BY StartupAssumption, ConstantFacts
<1>2. CASE s \in Proposers
  <2>1. PICK k \in 1 .. Len(ProposerList) : ProposerList[k] = s
    BY <1>1, <1>2 DEF Proposers, ToSet
  <2>2. SelectInSeq(ProposerList, LAMBDA v : v = s) = k
    <3> DEFINE I == {i \in 1 .. Len(ProposerList) : ProposerList[i] = s}
    <3>1. I = {k}
      BY <1>1, <2>1 DEF IsInjective
    <3>2. Min({k}) = k
      BY <2>1 DEF Min
    <3>3. SelectInSeq(ProposerList, LAMBDA v : v = s) = IF I # {} THEN Min(I) ELSE 0
      BY DEF SelectInSeq
    <3> QED BY <3>1, <3>2, <3>3
  <2>3. Coordinators(s) = RemoveAt(ProposerList, k)
    BY <2>1, <2>2 DEF Coordinators, RemoveFirst
  <2>4. /\ Coordinators(s) \in Seq(Proposers)
        /\ Len(Coordinators(s)) = Len(ProposerList) - 1
        /\ \A i \in 1 .. Len(ProposerList) - 1 :
             Coordinators(s)[i] = IF i < k THEN ProposerList[i] ELSE ProposerList[i + 1]
    BY <1>1, <2>1, <2>3, RemoveAtFacts
  <2>5. \A i \in 1 .. Len(Coordinators(s)) : Coordinators(s)[i] # s
    BY <1>1, <2>1, <2>4 DEF IsInjective
  <2>6. IsInjective(Coordinators(s))
    BY <1>1, <2>4 DEF IsInjective
  <2>7. s # first => Coordinators(s) # << >> /\ Coordinators(s)[1] = first
    BY <1>1, <2>1, <2>4 DEF first
  <2> QED BY <2>4, <2>5, <2>6, <2>7
<1>3. CASE s \notin Proposers
  <2>1. Coordinators(s) = ProposerList
    BY <1>1, <1>3 DEF Coordinators, RemoveFirst, Proposers, ToSet
  <2> QED BY <1>1, <1>3, <2>1 DEF first
<1> QED BY <1>2, <1>3

LEMMA DivMod ==
    ASSUME NEW k \in Nat, NEW N \in Nat \ {0}
    PROVE  /\ k = N * (k \div N) + (k % N)
           /\ k \div N \in Nat /\ k % N \in 0 .. N - 1
OBVIOUS

(* The n-th dial is one of a proposer, in one of the phases. *)
LEMMA DialFacts ==
    ASSUME NEW s \in Servers
    PROVE  /\ Dials(s) \in Nat /\ Dials(s) <= Len(ProposerList) * NOP
           /\ \A n \in 1 .. Dials(s) : /\ DialledProposer(s, n) \in Proposers \ {s}
                                       /\ DialledPhase(n) \in PhaseSet
           /\ \A n, m \in 1 .. Dials(s) :
                 DialledProposer(s, n) = DialledProposer(s, m)
                 /\ DialledPhase(n) = DialledPhase(m) => n = m
           /\ s # first => /\ NOP <= Dials(s)
                           /\ \A n \in 1 .. NOP : DialledProposer(s, n) = first
                           /\ \A ph \in PhaseSet : \E n \in 1 .. NOP : DialledPhase(n) = ph
<1> DEFINE C == Coordinators(s)
           q(n) == (n - 1) \div NOP
           r(n) == (n - 1) % NOP
<1>1. /\ NOP \in Nat \ {0} /\ C \in Seq(Proposers \ {s}) /\ IsInjective(C)
      /\ Phases \in Seq(PhaseSet) /\ IsInjective(Phases) /\ NOP = Len(Phases)
      /\ s # first => C # << >> /\ C[1] = first
  BY ConstantFacts, CoordinatorsFacts, StartupAssumption DEF NOP
<1>2. Len(C) \in Nat /\ Dials(s) = Len(C) * NOP /\ Dials(s) \in Nat
  BY <1>1 DEF Dials
<1>9. Dials(s) <= Len(ProposerList) * NOP
  <2>1. Len(C) <= Len(ProposerList) /\ Len(ProposerList) \in Nat
    BY CoordinatorsFacts, ConstantFacts
  <2>2. PICK d \in Nat : Len(ProposerList) = Len(C) + d
    <3>1. Len(ProposerList) - Len(C) \in Nat
      BY <1>2, <2>1
    <3>2. Len(ProposerList) = Len(C) + (Len(ProposerList) - Len(C))
      BY <1>2, <2>1
    <3> QED BY <3>1, <3>2
  <2>3. (Len(C) + d) * NOP = Len(C) * NOP + d * NOP /\ d * NOP \in Nat
    BY <1>1, <1>2
  <2> QED BY <1>1, <1>2, <2>2, <2>3
<1>3. \A n \in Nat \ {0} : /\ n - 1 = NOP * q(n) + r(n)
                           /\ q(n) \in Nat /\ r(n) \in 0 .. NOP - 1
  <2>1. SUFFICES ASSUME NEW n \in Nat \ {0}
                 PROVE  /\ n - 1 = NOP * q(n) + r(n)
                        /\ q(n) \in Nat /\ r(n) \in 0 .. NOP - 1
    OBVIOUS
  <2>2. n - 1 \in Nat
    OBVIOUS
  <2> QED BY <1>1, <2>2, DivMod
<1>4. ASSUME NEW n \in 1 .. Dials(s)
      PROVE  q(n) + 1 \in 1 .. Len(C) /\ r(n) + 1 \in 1 .. Len(Phases)
  <2>1. n \in Nat \ {0} /\ n - 1 = NOP * q(n) + r(n) /\ q(n) \in Nat /\ r(n) \in 0 .. NOP - 1
    BY <1>2, <1>3
  <2> HIDE DEF q, r, C
  <2>2. NOP * q(n) < NOP * Len(C)
    BY <1>1, <1>2, <2>1
  <2>3. q(n) < Len(C)
    <3>1. SUFFICES ASSUME q(n) >= Len(C) PROVE FALSE
      BY <1>2, <2>1
    <3>2. PICK d \in Nat : q(n) = Len(C) + d
      <4>1. q(n) - Len(C) \in Nat /\ q(n) = Len(C) + (q(n) - Len(C))
        BY <1>2, <2>1, <3>1
      <4> QED BY <4>1
    <3>3. NOP * (Len(C) + d) = NOP * Len(C) + NOP * d /\ NOP * d \in Nat
      BY <1>1, <1>2
    <3> QED BY <1>1, <1>2, <2>1, <2>2, <3>2, <3>3
  <2> QED BY <1>1, <1>2, <2>1, <2>3
<1>5. \A n \in 1 .. Dials(s) : /\ DialledProposer(s, n) = C[q(n) + 1]
                               /\ DialledPhase(n) = Phases[r(n) + 1]
  BY DEF DialledProposer, DialledPhase
<1> HIDE DEF C, q, r
<1>6. \A n \in 1 .. Dials(s) : /\ DialledProposer(s, n) \in Proposers \ {s}
                               /\ DialledPhase(n) \in PhaseSet
  BY <1>1, <1>4, <1>5
<1>7. ASSUME NEW n \in 1 .. Dials(s), NEW m \in 1 .. Dials(s),
             DialledProposer(s, n) = DialledProposer(s, m), DialledPhase(n) = DialledPhase(m)
      PROVE  n = m
  <2>1. q(n) = q(m) /\ r(n) = r(m)
    <3>1. q(n) + 1 = q(m) + 1
      BY <1>1, <1>4, <1>5, <1>7 DEF IsInjective
    <3>2. r(n) + 1 = r(m) + 1
      BY <1>1, <1>4, <1>5, <1>7 DEF IsInjective
    <3>3. q(n) \in Nat /\ q(m) \in Nat /\ r(n) \in Nat /\ r(m) \in Nat
      BY <1>1, <1>2, <1>3
    <3> QED BY <3>1, <3>2, <3>3
  <2>2. n - 1 = NOP * q(n) + r(n) /\ m - 1 = NOP * q(m) + r(m)
    BY <1>2, <1>3
  <2> QED BY <1>2, <2>1, <2>2
<1>8. ASSUME s # first
      PROVE  /\ NOP <= Dials(s)
             /\ \A n \in 1 .. NOP : DialledProposer(s, n) = first
             /\ \A ph \in PhaseSet : \E n \in 1 .. NOP : DialledPhase(n) = ph
  <2>1. Len(C) \in Nat \ {0}
    BY <1>1, <1>8
  <2>2. NOP <= Dials(s)
    <3>1. PICK d \in Nat : Len(C) = 1 + d
      <4>1. Len(C) - 1 \in Nat /\ Len(C) = 1 + (Len(C) - 1)
        BY <2>1
      <4> QED BY <4>1
    <3>2. (1 + d) * NOP = NOP + d * NOP /\ d * NOP \in Nat
      BY <1>1
    <3> QED BY <1>1, <1>2, <3>1, <3>2
  <2>3. ASSUME NEW n \in 1 .. NOP PROVE q(n) = 0 /\ r(n) = n - 1
    <3>1. n - 1 \in 0 .. NOP - 1
      BY <1>1
    <3>2. (n - 1) \div NOP = 0 /\ (n - 1) % NOP = n - 1
      BY <1>1, <3>1
    <3> QED BY <3>2 DEF q, r
  <2>4. \A n \in 1 .. NOP : /\ n \in 1 .. Dials(s)
                            /\ DialledProposer(s, n) = first
                            /\ DialledPhase(n) = Phases[n]
    <3>1. ASSUME NEW n \in 1 .. NOP
          PROVE  /\ n \in 1 .. Dials(s)
                 /\ DialledProposer(s, n) = first
                 /\ DialledPhase(n) = Phases[n]
      <4>1. n \in 1 .. Dials(s)
        BY <1>1, <1>2, <2>2
      <4>2. q(n) + 1 = 1 /\ r(n) + 1 = n
        BY <1>1, <2>3
      <4> QED BY <1>1, <1>5, <1>8, <4>1, <4>2
    <3> QED BY <3>1
  <2>5. \A ph \in PhaseSet : \E n \in 1 .. NOP : Phases[n] = ph
    BY <1>1 DEF PhaseSet, ToSet
  <2> QED BY <2>2, <2>4, <2>5
<1> QED BY <1>2, <1>6, <1>7, <1>8, <1>9

-----------------------------------------------------------------------------
(* Backlogs are queues of different servers. *)
LEMMA QueueAppend ==
    ASSUME NEW S, NEW q \in Seq(S), IsInjective(q), NEW x \in S, x \notin ToSet(q)
    PROVE  /\ Append(q, x) \in Seq(S)
           /\ IsInjective(Append(q, x))
           /\ ToSet(Append(q, x)) = ToSet(q) \cup {x}
<1>1. /\ Append(q, x) \in Seq(S) /\ Len(q) \in Nat
      /\ DOMAIN q = 1 .. Len(q) /\ DOMAIN Append(q, x) = 1 .. Len(q) + 1
      /\ \A i \in 1 .. Len(q) : Append(q, x)[i] = q[i]
      /\ Append(q, x)[Len(q) + 1] = x
  OBVIOUS
<1>2. \A i \in 1 .. Len(q) : q[i] # x
  BY <1>1 DEF ToSet
<1>3. IsInjective(Append(q, x))
  BY <1>1, <1>2 DEF IsInjective
<1>4. ASSUME NEW y \in ToSet(Append(q, x)) PROVE y \in ToSet(q) \cup {x}
  BY <1>1 DEF ToSet
<1>5. ASSUME NEW y \in ToSet(q) \cup {x} PROVE y \in ToSet(Append(q, x))
  <2>1. CASE y = x
    BY <1>1, <2>1 DEF ToSet
  <2>2. CASE y \in ToSet(q)
    BY <1>1, <2>2 DEF ToSet
  <2> QED BY <1>5, <2>1, <2>2
<1> QED BY <1>1, <1>3, <1>4, <1>5

LEMMA QueueTail ==
    ASSUME NEW S, NEW q \in Seq(S), IsInjective(q), q # << >>
    PROVE  /\ Head(q) \in S /\ Head(q) \in ToSet(q) /\ Head(q) = q[1] /\ 1 \in DOMAIN q
           /\ Tail(q) \in Seq(S)
           /\ IsInjective(Tail(q))
           /\ ToSet(Tail(q)) = ToSet(q) \ {Head(q)}
           /\ DOMAIN Tail(q) = 1 .. Len(q) - 1 /\ DOMAIN q = 1 .. Len(q) /\ Len(q) \in Nat
           /\ \A i \in DOMAIN Tail(q) : Tail(q)[i] = q[i + 1]
<1>1. /\ Len(q) \in Nat \ {0} /\ DOMAIN q = 1 .. Len(q)
      /\ Tail(q) \in Seq(S) /\ DOMAIN Tail(q) = 1 .. Len(q) - 1
      /\ \A i \in 1 .. Len(q) - 1 : Tail(q)[i] = q[i + 1]
      /\ Head(q) = q[1] /\ q[1] \in S
  OBVIOUS
<1>2. Head(q) \in ToSet(q)
  BY <1>1 DEF ToSet
<1>3. IsInjective(Tail(q))
  BY <1>1 DEF IsInjective
<1>4. ASSUME NEW y \in ToSet(Tail(q)) PROVE y \in ToSet(q) \ {Head(q)}
  <2>1. PICK i \in 1 .. Len(q) - 1 : y = q[i + 1]
    BY <1>1 DEF ToSet
  <2>2. i + 1 \in DOMAIN q /\ 1 \in DOMAIN q /\ i + 1 # 1
    BY <1>1
  <2>3. q[i + 1] # q[1]
    BY <2>2 DEF IsInjective
  <2> QED BY <1>1, <2>1, <2>2, <2>3 DEF ToSet
<1>5. ASSUME NEW y \in ToSet(q) \ {Head(q)} PROVE y \in ToSet(Tail(q))
  <2>1. PICK i \in 1 .. Len(q) : y = q[i] /\ i # 1
    BY <1>1 DEF ToSet
  <2>2. i - 1 \in 1 .. Len(q) - 1 /\ (i - 1) + 1 = i
    BY <2>1
  <2> QED BY <1>1, <2>1, <2>2 DEF ToSet
<1> QED BY <1>1, <1>2, <1>3, <1>4, <1>5

LEMMA AcceptedFinite ==
    \A p, ph, kind : /\ Accepted(p, ph, kind) \subseteq Servers
                     /\ IsFiniteSet(Accepted(p, ph, kind))
                     /\ Cardinality(Accepted(p, ph, kind)) \in Nat
<1>1. \A p, ph, kind : Accepted(p, ph, kind) \subseteq Servers
  BY DEF Accepted
<1> QED BY <1>1, ConstantFacts, FS_Subset, FS_CardinalityType

LEMMA PhaseCount ==
    \A S \in SUBSET PhaseSet : /\ IsFiniteSet(S) /\ Cardinality(S) \in 0 .. NOP
                               /\ Cardinality(S) = 0 <=> S = {}
<1> SUFFICES ASSUME NEW S \in SUBSET PhaseSet
             PROVE  /\ IsFiniteSet(S) /\ Cardinality(S) \in 0 .. NOP
                    /\ Cardinality(S) = 0 <=> S = {}
  OBVIOUS
<1>1. IsFiniteSet(S) /\ Cardinality(S) <= Cardinality(PhaseSet)
  BY ConstantFacts, FS_Subset
<1>2. Cardinality(S) \in Nat /\ (Cardinality(S) = 0 <=> S = {})
  BY <1>1, FS_CardinalityType, FS_EmptySet
<1> QED BY <1>1, <1>2, ConstantFacts

(* Whoever has a connection has dialled it, and nobody dials itself. *)
LEMMA Connected ==
    ASSUME NInv, NEW p \in Proposers, NEW ph \in PhaseSet, NEW s \in Servers,
           conn[p][ph][s] # "none"
    PROVE  /\ s # p /\ Past(s)
           /\ \E n \in 1 .. Dials(s) : /\ n < dialNo[s]
                                       /\ p = DialledProposer(s, n) /\ ph = DialledPhase(n)
<1>1. PICK n \in 1 .. dialNo[s] - 1 : p = DialledProposer(s, n) /\ ph = DialledPhase(n)
  BY DEF NInv, DialInv
<1>2. dialNo[s] \in Nat /\ dialNo[s] <= Dials(s) + 1 /\ Dials(s) \in Nat
  BY DialFacts DEF NInv, TypeOK, DialInv
<1>3. n \in 1 .. Dials(s) /\ n < dialNo[s]
  BY <1>2
<1>4. s # p
  BY <1>1, <1>3, DialFacts
<1>5. Past(s)
  BY <1>3 DEF NInv, DialInv
<1> QED BY <1>1, <1>3, <1>4, <1>5

(* A dial that has not been made yet has left no connection. *)
LEMMA NotDialled ==
    ASSUME NInv, NEW s \in Servers, dialNo[s] <= Dials(s)
    PROVE  /\ DialledProposer(s, dialNo[s]) \in Proposers \ {s}
           /\ DialledPhase(dialNo[s]) \in PhaseSet
           /\ dialNo[s] \in Nat /\ dialNo[s] \in 1 .. Dials(s)
           /\ conn[DialledProposer(s, dialNo[s])][DialledPhase(dialNo[s])][s] = "none"
<1>1. dialNo[s] \in Nat \ {0} /\ Dials(s) \in Nat
  BY DialFacts DEF NInv, TypeOK
<1>2. dialNo[s] \in 1 .. Dials(s)
  BY <1>1
<1>3. /\ DialledProposer(s, dialNo[s]) \in Proposers \ {s}
      /\ DialledPhase(dialNo[s]) \in PhaseSet
  BY <1>2, DialFacts
<1>4. conn[DialledProposer(s, dialNo[s])][DialledPhase(dialNo[s])][s] = "none"
  <2>1. SUFFICES ASSUME conn[DialledProposer(s, dialNo[s])][DialledPhase(dialNo[s])][s] # "none"
                 PROVE  FALSE
    OBVIOUS
  <2>2. PICK n \in 1 .. Dials(s) : /\ n < dialNo[s]
                                   /\ DialledProposer(s, dialNo[s]) = DialledProposer(s, n)
                                   /\ DialledPhase(dialNo[s]) = DialledPhase(n)
    BY <1>3, <2>1, Connected
  <2>3. n = dialNo[s]
    BY <1>2, <2>2, DialFacts
  <2> QED BY <1>1, <2>2, <2>3
<1> QED BY <1>1, <1>2, <1>3, <1>4

(* A listener is not concerned by what others do. *)
LEMMA SameAccepted ==
    ASSUME NEW p, NEW ph, NEW kind, \A s \in Servers : conn'[p][ph][s] = conn[p][ph][s]
    PROVE  Accepted(p, ph, kind)' = Accepted(p, ph, kind)
BY DEF Accepted

LEMMA SameListens ==
    ASSUME NInv, NEW p \in Proposers, NEW ph \in PhaseSet,
           Past(p)' <=> Past(p), pc'[p] = "off" => pc[p] = "off",
           vListener'[p][ph] = vListener[p][ph], pListener'[p][ph] = pListener[p][ph],
           \A s \in Servers : conn'[p][ph][s] = conn[p][ph][s]
    PROVE  Listens(p, ph)'
<1>1. Listens(p, ph)
  BY DEF NInv, ListenInv
<1>2. \A kind : Accepted(p, ph, kind)' = Accepted(p, ph, kind)
  BY SameAccepted
<1> QED BY <1>1, <1>2 DEF Listens, Fewer

LEMMA SameCounts ==
    ASSUME NInv, NEW p \in Proposers,
           Past(p)' <=> Past(p), pc'[p] = "accepting" => pc[p] = "accepting",
           wg'[p] = wg[p], vListener'[p] = vListener[p], pListener'[p] = pListener[p],
           \A ph \in PhaseSet, s \in Servers : conn'[p][ph][s] = conn[p][ph][s]
    PROVE  Counts(p)'
<1>1. Counts(p)
  BY DEF NInv, CountInv
<1>2. \A ph \in PhaseSet : Accepted(p, ph, "proposer")' = Accepted(p, ph, "proposer")
  BY SameAccepted
<1>3. OpenPhases(p)' = OpenPhases(p) /\ Incomplete(p)' = Incomplete(p)
  BY <1>2 DEF OpenPhases, Incomplete, Complete
<1> QED BY <1>1, <1>3 DEF Counts

LEMMA SameQueues ==
    ASSUME NInv, NEW p \in Proposers, NEW ph \in PhaseSet,
           backlog'[p][ph] = backlog[p][ph],
           \A s \in Servers : conn'[p][ph][s] = conn[p][ph][s]
    PROVE  Queues(p, ph)'
BY SameAccepted DEF NInv, QueueInv, Queues

-----------------------------------------------------------------------------
LEMMA InitNInv == Init => NInv
<1> SUFFICES ASSUME Init PROVE NInv
  OBVIOUS
<1>1. TypeOK
  <2>1. 1 \in 1 .. Len(ProposerList) * NOP + 1
    <3>1. Len(ProposerList) * NOP \in Nat
      BY ConstantFacts
    <3> QED BY <3>1
  <2>2. << >> \in Seq(Servers) /\ 0 \in 0 .. NOP /\ 0 \in 0 .. maxTry - 1
    BY ConstantFacts, StartupAssumption
  <2>3. 0 \in 0 .. MaxClock /\ 0 \in 0 .. MaxClock + MaxSkew
    BY StartupAssumption
  <2> QED BY <2>1, <2>2, <2>3 DEF Init, TypeOK
<1>2. DialInv
  BY DialFacts, StartupAssumption DEF Init, DialInv, Past
<1>3. QueueInv
  <2>1. IsInjective(<< >>) /\ ToSet(<< >>) = {}
    BY DEF IsInjective, ToSet
  <2> QED BY <2>1 DEF Init, QueueInv, Queues, Accepted, Servers
<1>4. ListenInv
  BY DEF Init, ListenInv, Listens, Accepted, Past, Servers
<1>5. CountInv
  BY DEF Init, CountInv, Counts, Past, Servers
<1> QED BY <1>1, <1>2, <1>3, <1>4, <1>5 DEF NInv

(* Steps that leave the connections alone. *)
LEMMA LaterNInv ==
    ASSUME NInv, TypeOK',
           UNCHANGED <<dialNo, vListener, pListener, backlog, conn, wg>>,
           \A s \in Servers : /\ pc'[s] = "off" <=> pc[s] = "off"
                              /\ pc'[s] = "accepting" <=> pc[s] = "accepting"
    PROVE  NInv'
<1>1. \A s \in Servers : Past(s)' <=> Past(s)
  BY DEF Past
<1>2. \A p, ph, kind : Accepted(p, ph, kind)' = Accepted(p, ph, kind)
  BY DEF Accepted
<1>3. DialInv'
  BY <1>1 DEF NInv, DialInv
<1>4. QueueInv'
  BY SameQueues DEF QueueInv
<1>5. ListenInv'
  BY <1>1, SameListens DEF ListenInv, Servers
<1>6. CountInv'
  BY <1>1, SameCounts DEF CountInv, Servers
<1> QED BY <1>3, <1>4, <1>5, <1>6 DEF NInv

(* A connection is taken from the backlog and registered; no other one is  *)
(* touched.                                                                *)
Takes(p, ph, kind, s) ==
    /\ s = Head(backlog[p][ph]) /\ backlog[p][ph] # << >>
    /\ conn[p][ph][s] = "queued" /\ conn'[p][ph][s] = kind
    /\ \A q \in Proposers, h \in PhaseSet, x \in Servers :
          q # p \/ h # ph \/ x # s => conn'[q][h][x] = conn[q][h][x]
    /\ backlog'[p][ph] = Tail(backlog[p][ph])
    /\ \A q \in Proposers, h \in PhaseSet :
          q # p \/ h # ph => backlog'[q][h] = backlog[q][h]
    /\ backlog' \in [Proposers -> [PhaseSet -> Seq(Servers)]]
    /\ conn' \in [Proposers -> [PhaseSet -> [Servers ->
                     {"none", "queued", "validator", "proposer", "reset"}]]]
    /\ s \notin Accepted(p, ph, kind)
    /\ Accepted(p, ph, kind)' = Accepted(p, ph, kind) \cup {s}
    /\ \A k : k # kind /\ k # "queued" => Accepted(p, ph, k)' = Accepted(p, ph, k)
    /\ QueueInv'

LEMMA AcceptEffect ==
    ASSUME NInv, NEW p \in Proposers, NEW ph \in PhaseSet,
           NEW kind \in {"validator", "proposer"}, Accept(p, ph, kind)
    PROVE  \E s \in Servers \ {p} : Takes(p, ph, kind, s)
<1> DEFINE s == Head(backlog[p][ph])
<1>1. /\ backlog \in [Proposers -> [PhaseSet -> Seq(Servers)]]
      /\ conn \in [Proposers -> [PhaseSet -> [Servers ->
                      {"none", "queued", "validator", "proposer", "reset"}]]]
      /\ backlog[p][ph] \in Seq(Servers) /\ IsInjective(backlog[p][ph])
      /\ ToSet(backlog[p][ph]) = Accepted(p, ph, "queued")
      /\ backlog[p][ph] # << >>
      /\ backlog' = [backlog EXCEPT ![p][ph] = Tail(@)]
      /\ conn' = [conn EXCEPT ![p][ph][s] = kind]
  BY DEF NInv, TypeOK, QueueInv, Queues, Accept
<1>2. /\ s \in Servers /\ s \in Accepted(p, ph, "queued")
      /\ Tail(backlog[p][ph]) \in Seq(Servers)
      /\ IsInjective(Tail(backlog[p][ph]))
      /\ ToSet(Tail(backlog[p][ph])) = Accepted(p, ph, "queued") \ {s}
  BY <1>1, QueueTail
<1> HIDE DEF s
<1>3. conn[p][ph][s] = "queued" /\ s # p
  BY <1>2, Connected DEF Accepted
<1>4. /\ conn'[p][ph][s] = kind
      /\ \A q \in Proposers, h \in PhaseSet, x \in Servers :
            q # p \/ h # ph \/ x # s => conn'[q][h][x] = conn[q][h][x]
      /\ conn' \in [Proposers -> [PhaseSet -> [Servers ->
                       {"none", "queued", "validator", "proposer", "reset"}]]]
  BY <1>1, <1>2
<1>5. /\ backlog'[p][ph] = Tail(backlog[p][ph])
      /\ \A q \in Proposers, h \in PhaseSet :
            q # p \/ h # ph => backlog'[q][h] = backlog[q][h]
      /\ backlog' \in [Proposers -> [PhaseSet -> Seq(Servers)]]
  BY <1>1, <1>2
<1>6. /\ s \notin Accepted(p, ph, kind)
      /\ Accepted(p, ph, kind)' = Accepted(p, ph, kind) \cup {s}
      /\ Accepted(p, ph, "queued")' = Accepted(p, ph, "queued") \ {s}
      /\ \A k : k # kind /\ k # "queued" => Accepted(p, ph, k)' = Accepted(p, ph, k)
  <2>1. \A x \in Servers : conn'[p][ph][x] = IF x = s THEN kind ELSE conn[p][ph][x]
    BY <1>4
  <2>2. \A k, x : /\ x \in Accepted(p, ph, k)' <=> x \in Servers /\ conn'[p][ph][x] = k
                  /\ x \in Accepted(p, ph, k) <=> x \in Servers /\ conn[p][ph][x] = k
    BY DEF Accepted
  <2>3. s \in Servers /\ kind # "queued"
    BY <1>2
  <2>4. s \notin Accepted(p, ph, kind)
    BY <1>3, <2>2, <2>3
  <2>5. Accepted(p, ph, kind)' = Accepted(p, ph, kind) \cup {s}
    BY <2>1, <2>2, <2>3
  <2>6. Accepted(p, ph, "queued")' = Accepted(p, ph, "queued") \ {s}
    BY <2>1, <2>2, <2>3
  <2>7. ASSUME NEW k, k # kind, k # "queued"
        PROVE  Accepted(p, ph, k)' = Accepted(p, ph, k)
    BY <1>3, <2>1, <2>2, <2>3, <2>7
  <2> QED BY <2>4, <2>5, <2>6, <2>7
<1>8. QueueInv'
  <2> SUFFICES ASSUME NEW q \in Proposers, NEW h \in PhaseSet PROVE Queues(q, h)'
    BY DEF QueueInv
  <2>1. CASE q = p /\ h = ph
    BY <1>2, <1>5, <1>6, <2>1 DEF Queues
  <2>2. CASE q # p \/ h # ph
    BY <1>4, <1>5, <2>2, SameQueues
  <2> QED BY <2>1, <2>2
<1>9. s = Head(backlog[p][ph])
  BY DEF s
<1>10. Takes(p, ph, kind, s)
  BY <1>1, <1>3, <1>4, <1>5, <1>6, <1>8, <1>9 DEF Takes
<1> QED BY <1>2, <1>3, <1>10

(* What a server has dialled does not depend on what becomes of it. *)
LEMMA SameDials ==
    ASSUME NInv, UNCHANGED <<pc, dialNo>>,
           \A p \in Proposers, ph \in PhaseSet, s \in Servers :
              conn'[p][ph][s] # "none" => conn[p][ph][s] # "none"
    PROVE  DialInv'
BY DEF NInv, DialInv, Past

LEMMA StartNInv ==
    ASSUME NInv, NEW s \in Servers, StartServer(s)
    PROVE  NInv'
<1>1. /\ pc[s] = "off" /\ pc \in [Servers -> {"off", "accepting", "dialing", "receiving",
                                              "syncing", "started", "ended"}]
      /\ pc' = [pc EXCEPT ![s] = IF s \in Proposers THEN "accepting" ELSE "dialing"]
      /\ wg' = IF s \in Proposers THEN [wg EXCEPT ![s] = NOP] ELSE wg
      /\ UNCHANGED <<dialNo, tries, backlog, conn, vListener, pListener, timeVars>>
  BY DEF StartServer, NInv, TypeOK
<1>2. /\ \A x \in Servers \ {s} : pc'[x] = pc[x]
      /\ s \in Proposers => pc'[s] = "accepting" /\ wg'[s] = NOP
      /\ s \notin Proposers => pc'[s] = "dialing" /\ wg' = wg
      /\ \A p \in Proposers : p # s => wg'[p] = wg[p]
  BY <1>1 DEF NInv, TypeOK
<1>3. TypeOK'
  <2>1. wg' \in [Proposers -> 0 .. NOP]
    BY <1>1, ConstantFacts DEF NInv, TypeOK
  <2> QED BY <1>1, <2>1 DEF NInv, TypeOK, timeVars
<1>4. /\ pc'[s] # "off"
      /\ \A x \in Servers : Past(x)' <=> (Past(x) \/ (x = s /\ s \notin Proposers))
      /\ \A x \in Proposers : (Past(x)' <=> Past(x)) /\ (pc'[x] = "off" => pc[x] = "off")
  BY <1>1, <1>2 DEF Past, Servers
<1>5. \A p, ph, kind : Accepted(p, ph, kind)' = Accepted(p, ph, kind)
  BY <1>1 DEF Accepted
<1>6. DialInv'
  <2>1. \A x \in Validators : x \in Servers /\ x \notin Proposers
    BY StartupAssumption DEF Servers
  <2>2. \A x \in Servers : x \in Validators => pc'[x] # "accepting"
    BY <1>2, <2>1 DEF NInv, DialInv
  <2>3. \A x \in Servers : ~Past(x)' => dialNo[x] = 1
    BY <1>4 DEF NInv, DialInv
  <2> QED BY <1>1, <2>2, <2>3 DEF NInv, DialInv
<1>7. QueueInv'
  BY <1>1, SameQueues DEF QueueInv
<1>8. ListenInv'
  BY <1>1, <1>4, SameListens DEF ListenInv
<1>9. CountInv'
  <2> SUFFICES ASSUME NEW p \in Proposers PROVE Counts(p)'
    BY DEF CountInv
  <2>1. CASE p # s
    BY <1>1, <1>2, <1>4, <2>1, SameCounts DEF Servers
  <2>2. CASE p = s
    <3>1. OpenPhases(s)' = PhaseSet
      BY <1>1, <2>2 DEF NInv, ListenInv, Listens, OpenPhases
    <3> QED BY <1>1, <1>2, <1>4, <2>2, <3>1, ConstantFacts DEF Counts, Past
  <2> QED BY <2>1, <2>2
<1> QED BY <1>3, <1>6, <1>7, <1>8, <1>9 DEF NInv

LEMMA OpenForValidatorsNInv ==
    ASSUME NInv, NEW p \in Proposers, NEW ph \in PhaseSet, OpenForValidators(p, ph)
    PROVE  NInv'
<1>1. /\ pc[p] = "accepting" /\ vListener[p][ph] = "none"
      /\ vListener' = [vListener EXCEPT ![p][ph] = "open"]
      /\ UNCHANGED <<pc, dialNo, tries, backlog, conn, pListener, wg, timeVars>>
  BY DEF OpenForValidators
<1>2. /\ vListener' \in [Proposers -> [PhaseSet -> {"none", "open", "closing", "closed"}]]
      /\ vListener'[p][ph] = "open"
      /\ \A q \in Proposers, h \in PhaseSet :
            q # p \/ h # ph => vListener'[q][h] = vListener[q][h]
  BY <1>1 DEF NInv, TypeOK
<1>3. TypeOK'
  BY <1>1, <1>2 DEF NInv, TypeOK, timeVars
<1>4. \A q, h, kind : Accepted(q, h, kind)' = Accepted(q, h, kind)
  BY <1>1 DEF Accepted
<1>5. DialInv' /\ QueueInv'
  BY <1>1, SameDials, SameQueues DEF QueueInv
<1>6. ListenInv'
  <2> SUFFICES ASSUME NEW q \in Proposers, NEW h \in PhaseSet PROVE Listens(q, h)'
    BY DEF ListenInv
  <2>1. CASE q # p \/ h # ph
    BY <1>1, <1>2, <2>1, SameListens DEF Past
  <2>2. CASE q = p /\ h = ph
    <3>1. Listens(p, ph)
      BY DEF NInv, ListenInv
    <3>2. \A s \in Servers : conn[p][ph][s] = "none"
      BY <1>1, <3>1 DEF Listens
    <3>3. Accepted(p, ph, "validator") = {} /\ Accepted(p, ph, "proposer") = {}
      BY <3>2 DEF Accepted
    <3>4. Fewer(p, ph)
      <4>1. CASE Validators = {}
        BY <4>1 DEF Fewer
      <4>2. CASE Validators # {}
        <5>1. Cardinality(Validators) # 0 /\ Cardinality({}) = 0
          BY <4>2, ConstantFacts, FS_EmptySet
        <5>2. Cardinality(Accepted(p, ph, "validator")) = 0
          BY <3>3, <5>1
        <5> QED BY <5>1, <5>2, ConstantFacts DEF Fewer
      <4> QED BY <4>1, <4>2
    <3>5. Fewer(p, ph)'
      BY <1>4, <3>4 DEF Fewer
    <3>6. pListener[p][ph] = "none" /\ ~Past(p) /\ ~Past(p)'
      BY <1>1, <3>1 DEF Listens, Past
    <3> QED BY <1>1, <1>2, <1>4, <2>2, <3>2, <3>3, <3>5, <3>6 DEF Listens
  <2> QED BY <2>1, <2>2
<1>7. CountInv'
  <2> SUFFICES ASSUME NEW q \in Proposers PROVE Counts(q)'
    BY DEF CountInv
  <2>1. OpenPhases(q)' = OpenPhases(q)
    BY <1>1, <1>2 DEF OpenPhases
  <2>2. Incomplete(q)' = Incomplete(q)
    BY <1>1, <1>4 DEF Incomplete, Complete
  <2> QED BY <1>1, <2>1, <2>2 DEF NInv, CountInv, Counts, Past
<1> QED BY <1>3, <1>5, <1>6, <1>7 DEF NInv

(* One phase less to wait for. *)
LEMMA OnePhaseLess ==
    ASSUME NEW S \in SUBSET PhaseSet, NEW ph \in S
    PROVE  /\ Cardinality(S \ {ph}) = Cardinality(S) - 1
           /\ Cardinality(S) \in 1 .. NOP /\ Cardinality(S) - 1 \in 0 .. NOP
<1>1. IsFiniteSet(S) /\ Cardinality(S) \in 0 .. NOP /\ Cardinality(S) # 0
  BY PhaseCount
<1>2. Cardinality(S \ {ph}) = Cardinality(S) - 1
  BY <1>1, FS_RemoveElement
<1>3. NOP \in Nat
  BY ConstantFacts
<1> QED BY <1>1, <1>2, <1>3

LEMMA AcceptValidatorNInv ==
    ASSUME NInv, NEW p \in Proposers, NEW ph \in PhaseSet, AcceptValidator(p, ph)
    PROVE  NInv'
<1> DEFINE A == Accepted(p, ph, "validator")
           last == Cardinality(A) + 1 = Cardinality(Validators)
<1>1. /\ Alive(p) /\ vListener[p][ph] = "open" /\ Accept(p, ph, "validator")
      /\ last => /\ wg' = [wg EXCEPT ![p] = @ - 1]
                 /\ vListener' = [vListener EXCEPT ![p][ph] = "closing"]
      /\ ~last => UNCHANGED <<wg, vListener>>
      /\ UNCHANGED <<pc, dialNo, tries, pListener, timeVars>>
  BY DEF AcceptValidator
<1>2. PICK s \in Servers \ {p} : Takes(p, ph, "validator", s)
  BY <1>1, AcceptEffect
<1>12. /\ conn[p][ph][s] = "queued" /\ conn'[p][ph][s] = "validator"
       /\ \A q \in Proposers, h \in PhaseSet, x \in Servers :
             q # p \/ h # ph \/ x # s => conn'[q][h][x] = conn[q][h][x]
       /\ backlog' \in [Proposers -> [PhaseSet -> Seq(Servers)]]
       /\ conn' \in [Proposers -> [PhaseSet -> [Servers ->
                        {"none", "queued", "validator", "proposer", "reset"}]]]
       /\ s \notin A /\ A' = A \cup {s}
       /\ Accepted(p, ph, "proposer")' = Accepted(p, ph, "proposer")
       /\ QueueInv'
  BY <1>2 DEF Takes
<1>3. Listens(p, ph) /\ Counts(p)
  BY DEF NInv, ListenInv, CountInv
<1>4. pc[p] = "accepting" /\ ~Past(p) /\ ~Past(p)'
  BY <1>1, <1>3 DEF Listens, Past, Alive
<1>5. Cardinality(A) \in Nat /\ Cardinality(A') = Cardinality(A) + 1
  BY <1>12, AcceptedFinite, FS_AddElement
<1> HIDE DEF A, last
<1>6. ph \in OpenPhases(p) /\ OpenPhases(p) \in SUBSET PhaseSet
      /\ wg[p] = Cardinality(OpenPhases(p))
  BY <1>1, <1>3, <1>4 DEF OpenPhases, Counts
<1>7. /\ vListener' \in [Proposers -> [PhaseSet -> {"none", "open", "closing", "closed"}]]
      /\ vListener'[p][ph] = IF last THEN "closing" ELSE "open"
      /\ \A q \in Proposers, h \in PhaseSet :
            q # p \/ h # ph => vListener'[q][h] = vListener[q][h]
      /\ \A q \in Proposers : q # p => vListener'[q] = vListener[q] /\ wg'[q] = wg[q]
      /\ wg' \in [Proposers -> 0 .. NOP]
      /\ wg'[p] = IF last THEN wg[p] - 1 ELSE wg[p]
  <2>1. wg[p] - 1 \in 0 .. NOP
    BY <1>6, OnePhaseLess
  <2>4. vListener \in [Proposers -> [PhaseSet -> {"none", "open", "closing", "closed"}]]
        /\ wg \in [Proposers -> 0 .. NOP]
    BY DEF NInv, TypeOK
  <2>2. CASE last
    <3>1. wg' = [wg EXCEPT ![p] = wg[p] - 1]
      BY <1>1, <2>2
    <3>2. vListener' = [vListener EXCEPT ![p][ph] = "closing"]
      BY <1>1, <2>2
    <3>3. /\ wg' \in [Proposers -> 0 .. NOP] /\ wg'[p] = wg[p] - 1
          /\ \A q \in Proposers : q # p => wg'[q] = wg[q]
      BY <2>1, <2>4, <3>1
    <3>4. /\ vListener' \in [Proposers -> [PhaseSet -> {"none", "open", "closing", "closed"}]]
          /\ vListener'[p][ph] = "closing"
          /\ \A q \in Proposers, h \in PhaseSet :
                q # p \/ h # ph => vListener'[q][h] = vListener[q][h]
          /\ \A q \in Proposers : q # p => vListener'[q] = vListener[q]
      BY <2>4, <3>2
    <3> QED BY <2>2, <3>3, <3>4
  <2>3. CASE ~last
    BY <1>1, <2>3, <2>4
  <2> QED BY <2>2, <2>3
<1>8. TypeOK'
  BY <1>1, <1>12, <1>7 DEF NInv, TypeOK, timeVars
<1>9. DialInv'
  BY <1>1, <1>12, SameDials
<1>10. ListenInv'
  <2> SUFFICES ASSUME NEW q \in Proposers, NEW h \in PhaseSet PROVE Listens(q, h)'
    BY DEF ListenInv
  <2>1. CASE q # p \/ h # ph
    BY <1>1, <1>12, <1>7, <2>1, SameListens DEF Past
  <2>2. CASE q = p /\ h = ph
    <3>1. \A x \in Servers : conn'[p][ph][x] \in {"none", "queued", "validator"}
      BY <1>1, <1>12, <1>3 DEF Listens
    <3>2. pListener'[p][ph] = "none" /\ Accepted(p, ph, "proposer")' = {}
      BY <1>1, <1>12, <1>3, <1>4 DEF Listens
    <3>3. last => Cardinality(A') = Cardinality(Validators) /\ Validators # {}
      <4>1. Validators = {} => Cardinality(Validators) = 0
        BY FS_EmptySet
      <4> QED BY <1>5, <4>1 DEF last
    <3>4. ~last => Fewer(p, ph)'
      BY <1>3, <1>1, <1>5, ConstantFacts DEF Listens, Fewer, last, A
    <3> QED BY <1>1, <1>4, <1>7, <2>2, <3>1, <3>2, <3>3, <3>4 DEF Listens, A
  <2> QED BY <2>1, <2>2
<1>11. CountInv'
  <2> SUFFICES ASSUME NEW q \in Proposers PROVE Counts(q)'
    BY DEF CountInv
  <2>1. CASE q # p
    BY <1>1, <1>12, <1>7, <2>1, SameCounts DEF Past
  <2>2. CASE q = p
    <3>1. OpenPhases(p)' = IF last THEN OpenPhases(p) \ {ph} ELSE OpenPhases(p)
      BY <1>1, <1>7 DEF OpenPhases
    <3>2. wg'[p] = Cardinality(OpenPhases(p)')
      BY <1>6, <1>7, <3>1, OnePhaseLess
    <3> QED BY <1>4, <2>2, <3>2 DEF Counts
  <2> QED BY <2>1, <2>2
<1> QED BY <1>12, <1>8, <1>9, <1>10, <1>11 DEF NInv

(* A listener that is closed has an empty backlog, and keeps what it has   *)
(* registered.                                                             *)
LEMMA ResetEffect ==
    ASSUME NEW p \in Proposers, NEW ph \in PhaseSet,
           conn'[p][ph] = Reset(p, ph), backlog'[p][ph] = << >>
    PROVE  /\ Queues(p, ph)'
           /\ \A s \in Servers :
                /\ conn'[p][ph][s] = IF conn[p][ph][s] = "queued" THEN "reset"
                                                               ELSE conn[p][ph][s]
                /\ conn'[p][ph][s] = "none" <=> conn[p][ph][s] = "none"
           /\ \A k \in {"validator", "proposer"} :
                Accepted(p, ph, k)' = Accepted(p, ph, k)
<1>1. \A s \in Servers :
         /\ conn'[p][ph][s] = IF conn[p][ph][s] = "queued" THEN "reset" ELSE conn[p][ph][s]
         /\ conn'[p][ph][s] = "none" <=> conn[p][ph][s] = "none"
  BY DEF Reset
<1>2. Queues(p, ph)'
  <2>1. IsInjective(<< >>) /\ ToSet(<< >>) = {}
    BY DEF IsInjective, ToSet
  <2>2. Accepted(p, ph, "queued")' = {}
    BY <1>1 DEF Accepted
  <2> QED BY <2>1, <2>2 DEF Queues
<1>3. ASSUME NEW k \in {"validator", "proposer"}
      PROVE  Accepted(p, ph, k)' = Accepted(p, ph, k)
  <2>1. \A s \in Servers : conn'[p][ph][s] = k <=> conn[p][ph][s] = k
    BY <1>1
  <2> QED BY <2>1 DEF Accepted
<1> QED BY <1>1, <1>2, <1>3

LEMMA ResetType ==
    ASSUME NInv, NEW p \in Proposers, NEW ph \in PhaseSet
    PROVE  Reset(p, ph) \in [Servers ->
                {"none", "queued", "validator", "proposer", "reset"}]
<1>1. conn[p][ph] \in [Servers -> {"none", "queued", "validator", "proposer", "reset"}]
  BY DEF NInv, TypeOK
<1> QED BY <1>1 DEF Reset

LEMMA CloseNInv ==
    ASSUME NInv, NEW p \in Proposers, NEW ph \in PhaseSet, CloseTCPListener(p, ph)
    PROVE  NInv'
<1>1. /\ vListener[p][ph] = "closing"
      /\ vListener' = [vListener EXCEPT ![p][ph] = "closed"]
      /\ backlog' = [backlog EXCEPT ![p][ph] = << >>]
      /\ conn' = [conn EXCEPT ![p][ph] = Reset(p, ph)]
      /\ UNCHANGED <<pc, dialNo, tries, pListener, wg, timeVars>>
  BY DEF CloseTCPListener
<1>2. /\ vListener' \in [Proposers -> [PhaseSet -> {"none", "open", "closing", "closed"}]]
      /\ vListener'[p][ph] = "closed"
      /\ \A q \in Proposers, h \in PhaseSet :
            q # p \/ h # ph => vListener'[q][h] = vListener[q][h]
  BY <1>1 DEF NInv, TypeOK
<1>3. /\ backlog' \in [Proposers -> [PhaseSet -> Seq(Servers)]]
      /\ backlog'[p][ph] = << >>
      /\ \A q \in Proposers, h \in PhaseSet :
            q # p \/ h # ph => backlog'[q][h] = backlog[q][h]
  BY <1>1 DEF NInv, TypeOK
<1>4. /\ conn' \in [Proposers -> [PhaseSet -> [Servers ->
                        {"none", "queued", "validator", "proposer", "reset"}]]]
      /\ conn'[p][ph] = Reset(p, ph)
      /\ \A q \in Proposers, h \in PhaseSet :
            q # p \/ h # ph => conn'[q][h] = conn[q][h]
  BY <1>1, ResetType DEF NInv, TypeOK
<1>5. /\ Queues(p, ph)'
      /\ \A s \in Servers : conn'[p][ph][s] = "none" <=> conn[p][ph][s] = "none"
      /\ Accepted(p, ph, "validator")' = Accepted(p, ph, "validator")
      /\ Accepted(p, ph, "proposer")' = Accepted(p, ph, "proposer")
  BY <1>3, <1>4, ResetEffect
<1>6. TypeOK'
  BY <1>1, <1>2, <1>3, <1>4 DEF NInv, TypeOK, timeVars
<1>7. DialInv'
  BY <1>1, <1>4, <1>5, SameDials
<1>8. QueueInv'
  BY <1>3, <1>4, <1>5, SameQueues DEF QueueInv
<1>9. ListenInv'
  <2> SUFFICES ASSUME NEW q \in Proposers, NEW h \in PhaseSet PROVE Listens(q, h)'
    BY DEF ListenInv
  <2>1. CASE q # p \/ h # ph
    BY <1>1, <1>2, <1>4, <2>1, SameListens DEF Past
  <2>2. CASE q = p /\ h = ph
    BY <1>1, <1>2, <1>5, <2>2 DEF NInv, ListenInv, Listens, Past
  <2> QED BY <2>1, <2>2
<1>10. CountInv'
  <2> SUFFICES ASSUME NEW q \in Proposers PROVE Counts(q)'
    BY DEF CountInv
  <2>1. OpenPhases(q)' = OpenPhases(q)
    BY <1>1, <1>2 DEF OpenPhases
  <2>2. ASSUME NEW h \in PhaseSet
        PROVE  Accepted(q, h, "proposer")' = Accepted(q, h, "proposer")
    <3>1. CASE q = p /\ h = ph
      BY <1>5, <3>1
    <3>2. CASE ~(q = p /\ h = ph)
      <4>1. conn'[q][h] = conn[q][h]
        BY <1>4, <3>2
      <4> QED BY <4>1 DEF Accepted
    <3> QED BY <3>1, <3>2
  <2>3. Incomplete(q)' = Incomplete(q)
    BY <1>1, <2>2 DEF Incomplete, Complete
  <2> QED BY <1>1, <2>1, <2>3 DEF NInv, CountInv, Counts, Past
<1> QED BY <1>6, <1>7, <1>8, <1>9, <1>10 DEF NInv

LEMMA ValidatorsDoneNInv ==
    ASSUME NInv, NEW p \in Proposers, ValidatorsDone(p)
    PROVE  NInv'
<1>1. /\ pc[p] = "accepting" /\ wg[p] = 0
      /\ pc' = [pc EXCEPT ![p] = "dialing"]
      /\ wg' = [wg EXCEPT ![p] = NOP]
      /\ pListener' = [pListener EXCEPT ![p] = [ph \in PhaseSet |-> "starting"]]
      /\ UNCHANGED <<dialNo, tries, backlog, conn, vListener, timeVars>>
  BY DEF ValidatorsDone
<1>2. p \in Servers /\ ~Past(p) /\ Past(p)'
  BY <1>1 DEF Past, Servers, NInv, TypeOK
<1>3. /\ \A x \in Servers : x # p => pc'[x] = pc[x] /\ (Past(x)' <=> Past(x))
      /\ \A q \in Proposers : q # p => wg'[q] = wg[q] /\ pListener'[q] = pListener[q]
      /\ \A ph \in PhaseSet : pListener'[p][ph] = "starting"
      /\ pc'[p] = "dialing" /\ wg'[p] = NOP
  BY <1>1, <1>2 DEF NInv, TypeOK, Past
<1>4. TypeOK'
  <2>1. NOP \in 0 .. NOP
    BY ConstantFacts
  <2> QED BY <1>1, <2>1 DEF NInv, TypeOK, timeVars
<1>5. DialInv'
  BY <1>1, <1>2, <1>3 DEF NInv, DialInv
<1>6. QueueInv'
  BY <1>1, SameQueues DEF QueueInv
<1>7. \A q, h, k : Accepted(q, h, k)' = Accepted(q, h, k)
  BY <1>1 DEF Accepted
<1>8. OpenPhases(p) = {}
  <2>1. Cardinality(OpenPhases(p)) = 0 /\ OpenPhases(p) \in SUBSET PhaseSet
    BY <1>1 DEF NInv, CountInv, Counts, OpenPhases
  <2> QED BY <2>1, PhaseCount
<1>9. \A ph \in PhaseSet : /\ vListener[p][ph] \in {"closing", "closed"}
                            /\ Accepted(p, ph, "proposer") = {}
  BY <1>2, <1>8 DEF NInv, TypeOK, OpenPhases, ListenInv, Listens
<1>10. ListenInv'
  <2> SUFFICES ASSUME NEW q \in Proposers, NEW h \in PhaseSet PROVE Listens(q, h)'
    BY DEF ListenInv
  <2>1. CASE q # p
    BY <1>1, <1>3, <2>1, SameListens DEF Servers
  <2>2. CASE q = p
    <3>1. Listens(p, h)
      BY DEF NInv, ListenInv
    <3> QED BY <1>1, <1>2, <1>3, <1>7, <1>9, <2>2, <3>1 DEF Listens
  <2> QED BY <2>1, <2>2
<1>11. CountInv'
  <2> SUFFICES ASSUME NEW q \in Proposers PROVE Counts(q)'
    BY DEF CountInv
  <2>1. CASE q # p
    BY <1>1, <1>3, <2>1, SameCounts DEF Servers
  <2>2. CASE q = p
    <3>1. Incomplete(p)' = PhaseSet
      BY <1>3 DEF Incomplete, Complete
    <3> QED BY <1>2, <1>3, <2>2, <3>1, ConstantFacts DEF Counts
  <2> QED BY <2>1, <2>2
<1> QED BY <1>4, <1>5, <1>6, <1>10, <1>11 DEF NInv

(* The phases a proposer waits for, when one listener has changed. *)
LEMMA CompleteEffect ==
    ASSUME NInv, NEW p \in Proposers, NEW ph \in PhaseSet, Past(p), pc' = pc,
           \A h \in PhaseSet : h # ph => (Complete(p, h)' <=> Complete(p, h)),
           Complete(p, ph) => Complete(p, ph)',
           wg'[p] = IF Complete(p, ph)' /\ ~Complete(p, ph) THEN wg[p] - 1 ELSE wg[p]
    PROVE  Counts(p)' /\ wg'[p] \in 0 .. NOP
<1>1. wg[p] = Cardinality(Incomplete(p)) /\ Incomplete(p) \in SUBSET PhaseSet
  BY DEF NInv, CountInv, Counts, Incomplete
<1>2. pc'[p] # "accepting" /\ Past(p)'
  BY DEF Past
<1>3. CASE Complete(p, ph)' /\ ~Complete(p, ph)
  <2>1. ph \in Incomplete(p) /\ Incomplete(p)' = Incomplete(p) \ {ph}
    BY <1>3 DEF Incomplete
  <2> QED BY <1>1, <1>2, <1>3, <2>1, OnePhaseLess DEF Counts
<1>4. CASE ~(Complete(p, ph)' /\ ~Complete(p, ph))
  <2>1. Incomplete(p)' = Incomplete(p)
    BY <1>4 DEF Incomplete
  <2> QED BY <1>1, <1>2, <1>4, <2>1, PhaseCount DEF Counts
<1> QED BY <1>3, <1>4

LEMMA OpenForProposersNInv ==
    ASSUME NInv, NEW p \in Proposers, NEW ph \in PhaseSet, OpenForProposers(p, ph)
    PROVE  NInv'
<1> DEFINE state == IF vListener[p][ph] = "closing" THEN "failed" ELSE "open"
           signal == state = "open" /\ OthersAccepted(0)
<1>1. /\ pListener[p][ph] = "starting"
      /\ pListener' = [pListener EXCEPT ![p][ph] = state]
      /\ wg' = IF signal THEN [wg EXCEPT ![p] = @ - 1] ELSE wg
      /\ UNCHANGED <<pc, dialNo, tries, backlog, conn, vListener, timeVars>>
  BY DEF OpenForProposers
<1>2. Listens(p, ph)
  BY DEF NInv, ListenInv
<1>3. /\ Past(p) /\ vListener[p][ph] \in {"closing", "closed"}
      /\ Accepted(p, ph, "proposer") = {}
  BY <1>1, <1>2 DEF Listens
<1>4. state \in {"failed", "open"} /\ (state = "open" => vListener[p][ph] = "closed")
  BY <1>3
<1> HIDE DEF state
<1>5. /\ pListener' \in [Proposers -> [PhaseSet -> {"none", "starting", "open", "failed"}]]
      /\ pListener'[p][ph] = state
      /\ \A q \in Proposers, h \in PhaseSet :
            q # p \/ h # ph => pListener'[q][h] = pListener[q][h]
      /\ \A q \in Proposers : q # p => pListener'[q] = pListener[q]
  BY <1>1, <1>4 DEF NInv, TypeOK
<1>6. /\ \A q \in Proposers : q # p => wg'[q] = wg[q]
      /\ wg'[p] = IF signal THEN wg[p] - 1 ELSE wg[p]
  BY <1>1 DEF NInv, TypeOK
<1>7. \A q, h, k : Accepted(q, h, k)' = Accepted(q, h, k)
  BY <1>1 DEF Accepted
<1>8. Counts(p)' /\ wg'[p] \in 0 .. NOP
  <2>1. \A h \in PhaseSet : h # ph => (Complete(p, h)' <=> Complete(p, h))
    BY <1>5, <1>7 DEF Complete
  <2>2. ~Complete(p, ph)
    BY <1>1 DEF Complete
  <2>3. Complete(p, ph)' <=> signal
    <3>1. Cardinality(Accepted(p, ph, "proposer")') = 0
      BY <1>3, <1>7, FS_EmptySet
    <3>2. 0 >= Len(ProposerList) - 1 <=> 0 = Len(ProposerList) - 1
      BY ConstantFacts
    <3> QED BY <1>5, <3>1, <3>2 DEF Complete, OthersAccepted
  <2> QED BY <1>1, <1>3, <1>6, <2>1, <2>2, <2>3, CompleteEffect
<1> HIDE DEF signal
<1>9. TypeOK'
  <2>1. wg' \in [Proposers -> 0 .. NOP]
    <3>1. \A q \in Proposers : wg'[q] \in 0 .. NOP
      BY <1>6, <1>8 DEF NInv, TypeOK
    <3>2. wg' = [q \in Proposers |-> wg'[q]]
      BY <1>1 DEF NInv, TypeOK
    <3> QED BY <3>1, <3>2
  <2> QED BY <1>1, <1>5, <2>1 DEF NInv, TypeOK, timeVars
<1>10. DialInv' /\ QueueInv'
  BY <1>1, SameDials, SameQueues DEF QueueInv
<1>11. ListenInv'
  <2> SUFFICES ASSUME NEW q \in Proposers, NEW h \in PhaseSet PROVE Listens(q, h)'
    BY DEF ListenInv
  <2>1. CASE q # p \/ h # ph
    BY <1>1, <1>5, <2>1, SameListens DEF Past
  <2>2. CASE q = p /\ h = ph
    BY <1>1, <1>2, <1>3, <1>4, <1>5, <1>7, <2>2 DEF Listens, Past
  <2> QED BY <2>1, <2>2
<1>12. CountInv'
  <2> SUFFICES ASSUME NEW q \in Proposers PROVE Counts(q)'
    BY DEF CountInv
  <2>1. CASE q # p
    BY <1>1, <1>5, <1>6, <2>1, SameCounts DEF Past
  <2> QED BY <1>8, <2>1
<1> QED BY <1>9, <1>10, <1>11, <1>12 DEF NInv

LEMMA AcceptProposerNInv ==
    ASSUME NInv, NEW p \in Proposers, NEW ph \in PhaseSet, AcceptProposer(p, ph)
    PROVE  NInv'
<1> DEFINE A == Accepted(p, ph, "proposer")
           signal == OthersAccepted(Cardinality(A) + 1)
<1>1. /\ pListener[p][ph] = "open" /\ Accept(p, ph, "proposer")
      /\ wg' = IF signal THEN [wg EXCEPT ![p] = @ - 1] ELSE wg
      /\ UNCHANGED <<pc, dialNo, tries, vListener, pListener, timeVars>>
  BY DEF AcceptProposer
<1>2. PICK s \in Servers \ {p} : Takes(p, ph, "proposer", s)
  BY <1>1, AcceptEffect
<1>3. /\ conn[p][ph][s] = "queued" /\ conn'[p][ph][s] = "proposer"
      /\ \A q \in Proposers, h \in PhaseSet, x \in Servers :
            q # p \/ h # ph \/ x # s => conn'[q][h][x] = conn[q][h][x]
      /\ backlog' \in [Proposers -> [PhaseSet -> Seq(Servers)]]
      /\ conn' \in [Proposers -> [PhaseSet -> [Servers ->
                       {"none", "queued", "validator", "proposer", "reset"}]]]
      /\ s \notin A /\ A' = A \cup {s}
      /\ Accepted(p, ph, "validator")' = Accepted(p, ph, "validator")
      /\ QueueInv'
  BY <1>2 DEF Takes
<1>4. Listens(p, ph)
  BY DEF NInv, ListenInv
<1>5. Past(p) /\ vListener[p][ph] = "closed"
  BY <1>1, <1>4 DEF Listens
<1>6. Cardinality(A) \in Nat /\ Cardinality(A') = Cardinality(A) + 1
  BY <1>3, AcceptedFinite, FS_AddElement
<1>7. /\ \A q \in Proposers : q # p => wg'[q] = wg[q]
      /\ wg'[p] = IF signal THEN wg[p] - 1 ELSE wg[p]
  BY <1>1 DEF NInv, TypeOK
<1>8. Counts(p)' /\ wg'[p] \in 0 .. NOP
  <2>1. \A h \in PhaseSet : h # ph => (Complete(p, h)' <=> Complete(p, h))
    <3>1. \A h \in PhaseSet : h # ph => Accepted(p, h, "proposer")' = Accepted(p, h, "proposer")
      BY <1>3, SameAccepted
    <3> QED BY <1>1, <3>1 DEF Complete
  <2>2. /\ Complete(p, ph) <=> Cardinality(A) >= Len(ProposerList) - 1
        /\ Complete(p, ph)' <=> Cardinality(A) + 1 >= Len(ProposerList) - 1
    BY <1>1, <1>6 DEF Complete
  <2>3. signal <=> Complete(p, ph)' /\ ~Complete(p, ph)
    BY <1>6, <2>2, ConstantFacts DEF OthersAccepted
  <2>4. Complete(p, ph) => Complete(p, ph)'
    BY <1>6, <2>2, ConstantFacts
  <2> HIDE DEF signal
  <2> QED BY <1>1, <1>5, <1>7, <2>1, <2>3, <2>4, CompleteEffect
<1> HIDE DEF signal, A
<1>9. TypeOK'
  <2>1. wg' \in [Proposers -> 0 .. NOP]
    <3>1. \A q \in Proposers : wg'[q] \in 0 .. NOP
      BY <1>7, <1>8 DEF NInv, TypeOK
    <3>2. wg' = [q \in Proposers |-> wg'[q]]
      BY <1>1 DEF NInv, TypeOK
    <3> QED BY <3>1, <3>2
  <2> QED BY <1>1, <1>3, <2>1 DEF NInv, TypeOK, timeVars
<1>10. DialInv'
  BY <1>1, <1>3, SameDials
<1>11. ListenInv'
  <2> SUFFICES ASSUME NEW q \in Proposers, NEW h \in PhaseSet PROVE Listens(q, h)'
    BY DEF ListenInv
  <2>1. CASE q # p \/ h # ph
    BY <1>1, <1>3, <2>1, SameListens DEF Past
  <2>2. CASE q = p /\ h = ph
    BY <1>1, <1>3, <1>4, <1>5, <2>2 DEF Listens, Past
  <2> QED BY <2>1, <2>2
<1>12. CountInv'
  <2> SUFFICES ASSUME NEW q \in Proposers PROVE Counts(q)'
    BY DEF CountInv
  <2>1. CASE q # p
    BY <1>1, <1>3, <1>7, <2>1, SameCounts DEF Past
  <2> QED BY <1>8, <2>1
<1> QED BY <1>3, <1>9, <1>10, <1>11, <1>12 DEF NInv

(* A connection made keeps the dial among the past ones. *)
LEMMA DialTypes ==
    ASSUME NInv, NEW s \in Servers, Dialling(s)
    PROVE  /\ Past(s) /\ dialNo[s] \in Nat
           /\ dialNo[s] + 1 \in 1 .. Len(ProposerList) * NOP + 1
           /\ dialNo[s] + 1 <= Dials(s) + 1
<1>1. /\ Past(s) /\ dialNo[s] <= Dials(s)
      /\ dialNo[s] \in 1 .. Len(ProposerList) * NOP + 1
  BY DEF Dialling, Past, NInv, TypeOK
<1>2. Dials(s) \in Nat /\ Dials(s) <= Len(ProposerList) * NOP
  BY DialFacts
<1>3. Len(ProposerList) * NOP \in Nat
  BY ConstantFacts
<1> DEFINE bound == Len(ProposerList) * NOP
<1> HIDE DEF bound
<1> QED BY <1>1, <1>2, <1>3 DEF bound

LEMMA DialNInv ==
    ASSUME NInv, NEW s \in Servers, Dial(s)
    PROVE  NInv'
<1>0. PICK p \in Proposers \ {s}, ph \in PhaseSet :
        /\ p = DialledProposer(s, dialNo[s]) /\ ph = DialledPhase(dialNo[s])
        /\ conn[p][ph][s] = "none"
  BY NotDialled DEF Dial, Dialling
<1>1. /\ Dialling(s) /\ Listening(p, ph)
      /\ backlog' = [backlog EXCEPT ![p][ph] = Append(@, s)]
      /\ conn' = [conn EXCEPT ![p][ph][s] = "queued"]
      /\ dialNo' = [dialNo EXCEPT ![s] = @ + 1]
      /\ tries' = [tries EXCEPT ![s] = 0]
      /\ UNCHANGED <<pc, listenVars, timeVars>>
  BY <1>0 DEF Dial
<1>2. p \in Proposers \ {s} /\ ph \in PhaseSet /\ conn[p][ph][s] = "none"
  BY <1>0
<1>3. dialNo[s] \in 1 .. dialNo[s] + 1 - 1
  BY <1>1, DialTypes DEF NInv, TypeOK
<1>4. \E n \in 1 .. dialNo[s] + 1 - 1 : p = DialledProposer(s, n) /\ ph = DialledPhase(n)
  BY <1>0, <1>3
<1>5. /\ conn' \in [Proposers -> [PhaseSet -> [Servers ->
                       {"none", "queued", "validator", "proposer", "reset"}]]]
      /\ conn'[p][ph][s] = "queued"
      /\ \A q \in Proposers, h \in PhaseSet, x \in Servers :
            q # p \/ h # ph \/ x # s => conn'[q][h][x] = conn[q][h][x]
  BY <1>1, <1>2 DEF NInv, TypeOK
<1>6. /\ backlog' \in [Proposers -> [PhaseSet -> Seq(Servers)]]
      /\ backlog'[p][ph] = Append(backlog[p][ph], s)
      /\ \A q \in Proposers, h \in PhaseSet :
            q # p \/ h # ph => backlog'[q][h] = backlog[q][h]
  BY <1>1, <1>2 DEF NInv, TypeOK
<1>7. /\ dialNo' \in [Servers -> 1 .. Len(ProposerList) * NOP + 1]
      /\ dialNo'[s] = dialNo[s] + 1
      /\ \A x \in Servers : x # s => dialNo'[x] = dialNo[x]
  BY <1>1, DialTypes DEF NInv, TypeOK
<1>8. TypeOK'
  <2>1. tries' \in [Servers -> 0 .. maxTry - 1]
    BY <1>1, StartupAssumption DEF NInv, TypeOK
  <2> QED BY <1>1, <1>5, <1>6, <1>7, <2>1 DEF NInv, TypeOK, listenVars, timeVars
<1>9. DialInv'
  <2>1. Past(s) /\ dialNo'[s] <= Dials(s) + 1
    BY <1>1, <1>7, DialTypes
  <2>2. ASSUME NEW x \in Servers, NEW q \in Proposers, NEW h \in PhaseSet,
               conn'[q][h][x] # "none"
        PROVE  \E n \in 1 .. dialNo'[x] - 1 : q = DialledProposer(x, n) /\ h = DialledPhase(n)
    <3>1. CASE q = p /\ h = ph /\ x = s
      <4>1. dialNo'[x] - 1 = dialNo[s] + 1 - 1
        <5>1. dialNo'[s] = dialNo[s] + 1
          BY <1>7
        <5>2. dialNo[s] \in Nat
          BY <1>1, DialTypes
        <5> QED BY <3>1, <5>1, <5>2
      <4> QED BY <1>4, <3>1, <4>1
    <3>2. CASE q # p \/ h # ph \/ x # s
      <4>0. conn[q][h][x] # "none"
        BY <1>5, <2>2, <3>2
      <4>1. PICK n \in 1 .. dialNo[x] - 1 : q = DialledProposer(x, n) /\ h = DialledPhase(n)
        BY <4>0 DEF NInv, DialInv
      <4>2. n \in 1 .. dialNo'[x] - 1
        <5>1. dialNo'[x] \in {dialNo[x], dialNo[x] + 1} /\ dialNo[x] \in Nat
          BY <1>7 DEF NInv, TypeOK
        <5> QED BY <5>1
      <4> QED BY <4>1, <4>2
    <3> QED BY <3>1, <3>2
  <2> QED BY <1>1, <1>7, <2>1, <2>2 DEF NInv, DialInv, Past
<1>10. /\ Accepted(p, ph, "queued")' = Accepted(p, ph, "queued") \cup {s}
       /\ s \notin Accepted(p, ph, "queued")
       /\ Accepted(p, ph, "validator")' = Accepted(p, ph, "validator")
       /\ Accepted(p, ph, "proposer")' = Accepted(p, ph, "proposer")
  <2>1. \A x \in Servers : conn'[p][ph][x] = IF x = s THEN "queued" ELSE conn[p][ph][x]
    BY <1>2, <1>5
  <2>2. \A k, x : /\ x \in Accepted(p, ph, k)' <=> x \in Servers /\ conn'[p][ph][x] = k
                  /\ x \in Accepted(p, ph, k) <=> x \in Servers /\ conn[p][ph][x] = k
    BY DEF Accepted
  <2>3. s \notin Accepted(p, ph, "queued")
    BY <1>2, <2>2
  <2>4. Accepted(p, ph, "queued")' = Accepted(p, ph, "queued") \cup {s}
    BY <2>1, <2>2
  <2>5. ASSUME NEW k \in {"validator", "proposer"}
        PROVE  Accepted(p, ph, k)' = Accepted(p, ph, k)
    <3>1. \A x \in Servers : conn'[p][ph][x] = k <=> conn[p][ph][x] = k
      BY <1>2, <2>1
    <3> QED BY <3>1 DEF Accepted
  <2>6. /\ Accepted(p, ph, "validator")' = Accepted(p, ph, "validator")
        /\ Accepted(p, ph, "proposer")' = Accepted(p, ph, "proposer")
    BY <2>5
  <2> QED BY <2>3, <2>4, <2>6
<1>11. QueueInv'
  <2> SUFFICES ASSUME NEW q \in Proposers, NEW h \in PhaseSet PROVE Queues(q, h)'
    BY DEF QueueInv
  <2>1. CASE q = p /\ h = ph
    <3>1. /\ backlog[p][ph] \in Seq(Servers) /\ IsInjective(backlog[p][ph])
          /\ ToSet(backlog[p][ph]) = Accepted(p, ph, "queued")
      BY <1>2 DEF NInv, TypeOK, QueueInv, Queues
    <3>2. /\ IsInjective(Append(backlog[p][ph], s))
          /\ ToSet(Append(backlog[p][ph], s)) = ToSet(backlog[p][ph]) \cup {s}
      BY <1>10, <3>1, QueueAppend
    <3> QED BY <1>6, <1>10, <2>1, <3>1, <3>2 DEF Queues
  <2>2. CASE q # p \/ h # ph
    BY <1>5, <1>6, <2>2, SameQueues
  <2> QED BY <2>1, <2>2
<1>12. ListenInv'
  <2> SUFFICES ASSUME NEW q \in Proposers, NEW h \in PhaseSet PROVE Listens(q, h)'
    BY DEF ListenInv
  <2>1. CASE q # p \/ h # ph
    BY <1>1, <1>5, <2>1, SameListens DEF Past, listenVars
  <2>2. CASE q = p /\ h = ph
    <3>1. Listens(p, ph)
      BY <1>2 DEF NInv, ListenInv
    <3>2. vListener[p][ph] # "none"
      BY <1>1, <3>1 DEF Listening, Listens
    <3>3. \A x \in Servers : conn'[p][ph][x] \in {conn[p][ph][x], "queued"}
      BY <1>2, <1>5
    <3> QED BY <1>1, <1>10, <2>2, <3>1, <3>2, <3>3 DEF Listens, Fewer, Past, listenVars
  <2> QED BY <2>1, <2>2
<1>13. CountInv'
  <2> SUFFICES ASSUME NEW q \in Proposers PROVE Counts(q)'
    BY DEF CountInv
  <2>1. OpenPhases(q)' = OpenPhases(q)
    BY <1>1 DEF OpenPhases, listenVars
  <2>2. \A h \in PhaseSet : Accepted(q, h, "proposer")' = Accepted(q, h, "proposer")
    BY <1>5, <1>10, SameAccepted
  <2>3. Incomplete(q)' = Incomplete(q)
    BY <1>1, <2>2 DEF Incomplete, Complete, listenVars
  <2> QED BY <1>1, <2>1, <2>3 DEF NInv, CountInv, Counts, Past, listenVars
<1> QED BY <1>8, <1>9, <1>11, <1>12, <1>13 DEF NInv

LEMMA RefusedNInv ==
    ASSUME NInv, NEW s \in Servers, Refused(s)
    PROVE  NInv'
<1>1. /\ Dialling(s)
      /\ \/ tries[s] + 1 < maxTry /\ tries' = [tries EXCEPT ![s] = @ + 1] /\ UNCHANGED dialNo
         \/ tries' = [tries EXCEPT ![s] = 0] /\ dialNo' = [dialNo EXCEPT ![s] = @ + 1]
      /\ UNCHANGED <<pc, backlog, conn, listenVars, timeVars>>
  BY DEF Refused
<1>2. tries' \in [Servers -> 0 .. maxTry - 1]
  <2>1. tries \in [Servers -> 0 .. maxTry - 1] /\ maxTry \in Nat \ {0}
    BY StartupAssumption DEF NInv, TypeOK
  <2>2. tries[s] + 1 < maxTry => tries[s] + 1 \in 0 .. maxTry - 1
    BY <2>1
  <2> QED BY <1>1, <2>1, <2>2
<1>3. /\ dialNo' \in [Servers -> 1 .. Len(ProposerList) * NOP + 1]
      /\ dialNo'[s] \in {dialNo[s], dialNo[s] + 1} /\ dialNo'[s] <= Dials(s) + 1
      /\ \A x \in Servers : x # s => dialNo'[x] = dialNo[x]
  BY <1>1, DialTypes DEF NInv, TypeOK, DialInv
<1>4. TypeOK'
  BY <1>1, <1>2, <1>3 DEF NInv, TypeOK, listenVars, timeVars
<1>5. DialInv'
  <2>1. \A x \in Servers : Past(x)' <=> Past(x)
    BY <1>1 DEF Past
  <2>2. Past(s)
    BY <1>1, DialTypes
  <2>3. \A x \in Servers : 1 .. dialNo[x] - 1 \subseteq 1 .. dialNo'[x] - 1
    <3>1. \A x \in Servers : dialNo'[x] \in {dialNo[x], dialNo[x] + 1} /\ dialNo[x] \in Nat
      BY <1>3 DEF NInv, TypeOK
    <3> QED BY <3>1
  <2>4. \A x \in Servers : /\ ~Past(x)' => dialNo'[x] = 1
                           /\ x \in Validators => pc'[x] # "accepting"
                           /\ dialNo'[x] <= Dials(x) + 1
    BY <1>1, <1>3, <2>1, <2>2 DEF NInv, DialInv
  <2>5. ASSUME NEW x \in Servers, NEW q \in Proposers, NEW h \in PhaseSet,
               conn'[q][h][x] # "none"
        PROVE  \E n \in 1 .. dialNo'[x] - 1 : q = DialledProposer(x, n) /\ h = DialledPhase(n)
    <3>1. PICK n \in 1 .. dialNo[x] - 1 : q = DialledProposer(x, n) /\ h = DialledPhase(n)
      BY <1>1, <2>5 DEF NInv, DialInv
    <3> QED BY <2>3, <3>1
  <2> QED BY <2>4, <2>5 DEF DialInv
<1>6. QueueInv' /\ ListenInv' /\ CountInv'
  BY <1>1, SameQueues, SameListens, SameCounts
     DEF QueueInv, ListenInv, CountInv, Past, listenVars
<1> QED BY <1>4, <1>5, <1>6 DEF NInv

LEMMA EndNInv ==
    ASSUME NInv, NEW s \in Servers, Past(s), End(s)
    PROVE  NInv'
<1>1. /\ pc' = [pc EXCEPT ![s] = "ended"]
      /\ UNCHANGED <<dialNo, tries, listenVars, timeVars>>
      /\ s \in Proposers =>
            /\ backlog' = [backlog EXCEPT ![s] = [ph \in PhaseSet |-> << >>]]
            /\ conn' = [conn EXCEPT ![s] = [ph \in PhaseSet |-> Reset(s, ph)]]
      /\ s \notin Proposers => UNCHANGED <<backlog, conn>>
  BY DEF End
<1>2. \A x \in Servers : /\ Past(x)' <=> Past(x)
                         /\ pc'[x] = "off" => pc[x] = "off"
                         /\ pc'[x] = "accepting" => pc[x] = "accepting"
                         /\ x # s => pc'[x] = pc[x]
  BY <1>1 DEF Past, NInv, TypeOK
<1>3. /\ backlog' \in [Proposers -> [PhaseSet -> Seq(Servers)]]
      /\ conn' \in [Proposers -> [PhaseSet -> [Servers ->
                       {"none", "queued", "validator", "proposer", "reset"}]]]
      /\ \A q \in Proposers : q # s => backlog'[q] = backlog[q] /\ conn'[q] = conn[q]
      /\ s \in Proposers => \A ph \in PhaseSet :
            backlog'[s][ph] = << >> /\ conn'[s][ph] = Reset(s, ph)
  <2>1. CASE s \in Proposers
    <3> DEFINE none == [ph \in PhaseSet |-> << >>]
               reset == [ph \in PhaseSet |-> Reset(s, ph)]
    <3>1. /\ none \in [PhaseSet -> Seq(Servers)] /\ \A ph \in PhaseSet : none[ph] = << >>
          /\ reset \in [PhaseSet -> [Servers ->
                            {"none", "queued", "validator", "proposer", "reset"}]]
          /\ \A ph \in PhaseSet : reset[ph] = Reset(s, ph)
      BY <2>1, ResetType
    <3>2. backlog' = [backlog EXCEPT ![s] = none] /\ conn' = [conn EXCEPT ![s] = reset]
      BY <1>1, <2>1
    <3>4. /\ backlog \in [Proposers -> [PhaseSet -> Seq(Servers)]]
          /\ conn \in [Proposers -> [PhaseSet -> [Servers ->
                          {"none", "queued", "validator", "proposer", "reset"}]]]
      BY DEF NInv, TypeOK
    <3> HIDE DEF none, reset
    <3>3. /\ backlog' \in [Proposers -> [PhaseSet -> Seq(Servers)]]
          /\ \A q \in Proposers : q # s => backlog'[q] = backlog[q]
          /\ backlog'[s] = none
      BY <2>1, <3>1, <3>2, <3>4
    <3>5. /\ conn' \in [Proposers -> [PhaseSet -> [Servers ->
                           {"none", "queued", "validator", "proposer", "reset"}]]]
          /\ \A q \in Proposers : q # s => conn'[q] = conn[q]
          /\ conn'[s] = reset
      BY <2>1, <3>1, <3>2, <3>4
    <3> QED BY <3>1, <3>3, <3>5
  <2>2. CASE s \notin Proposers
    BY <1>1, <2>2 DEF NInv, TypeOK
  <2> QED BY <2>1, <2>2
<1>4. ASSUME s \in Proposers, NEW ph \in PhaseSet
      PROVE  /\ Queues(s, ph)'
             /\ \A x \in Servers :
                  /\ conn'[s][ph][x] = IF conn[s][ph][x] = "queued" THEN "reset"
                                                                 ELSE conn[s][ph][x]
                  /\ conn'[s][ph][x] = "none" <=> conn[s][ph][x] = "none"
             /\ \A k \in {"validator", "proposer"} :
                  Accepted(s, ph, k)' = Accepted(s, ph, k)
  BY <1>3, <1>4, ResetEffect
<1>5. TypeOK'
  BY <1>1, <1>3 DEF NInv, TypeOK, listenVars, timeVars
<1>6. DialInv'
  <2>1. \A q \in Proposers, h \in PhaseSet, x \in Servers :
           conn'[q][h][x] # "none" => conn[q][h][x] # "none"
    BY <1>3, <1>4
  <2>2. \A x \in Validators : x \in Servers
    BY DEF Servers
  <2> QED BY <1>1, <1>2, <2>1, <2>2 DEF NInv, DialInv
<1>7. QueueInv'
  <2> SUFFICES ASSUME NEW q \in Proposers, NEW h \in PhaseSet PROVE Queues(q, h)'
    BY DEF QueueInv
  <2>1. CASE q # s
    BY <1>3, <2>1, SameQueues
  <2> QED BY <1>4, <2>1
<1>8. ListenInv'
  <2> SUFFICES ASSUME NEW q \in Proposers, NEW h \in PhaseSet PROVE Listens(q, h)'
    BY DEF ListenInv
  <2>1. CASE q # s
    BY <1>1, <1>2, <1>3, <2>1, SameListens DEF listenVars, Servers
  <2>2. CASE q = s
    <3>1. Listens(s, h) /\ vListener[s][h] \in {"closing", "closed"}
      BY <2>2 DEF NInv, ListenInv, Listens
    <3> QED BY <1>1, <1>2, <1>4, <2>2, <3>1 DEF Listens, listenVars
  <2> QED BY <2>1, <2>2
<1>9. CountInv'
  <2> SUFFICES ASSUME NEW q \in Proposers PROVE Counts(q)'
    BY DEF CountInv
  <2>1. OpenPhases(q)' = OpenPhases(q)
    BY <1>1 DEF OpenPhases, listenVars
  <2>2. \A h \in PhaseSet : Accepted(q, h, "proposer")' = Accepted(q, h, "proposer")
    <3>1. CASE q # s
      BY <1>3, <3>1, SameAccepted
    <3> QED BY <1>4, <3>1
  <2>3. Incomplete(q)' = Incomplete(q)
    BY <1>1, <2>2 DEF Incomplete, Complete, listenVars
  <2> QED BY <1>1, <1>2, <2>1, <2>3 DEF NInv, CountInv, Counts, listenVars, Servers
<1> QED BY <1>5, <1>6, <1>7, <1>8, <1>9 DEF NInv

(* Clocks, times and messages stay within their bounds. *)
LEMMA TimeTypes ==
    ASSUME TypeOK
    PROVE  /\ \A p : SetStartTime(p) =>
                /\ now' \in 0 .. MaxClock /\ now' >= now
                /\ startTime' \in [Servers -> 0 .. MaxClock + MaxSkew]
                /\ startTime'[p] >= now' /\ startTime'[p] <= now' + MaxSkew
                /\ \A x \in Servers : x # p => startTime'[x] = startTime[x]
           /\ \A p : HandleProposerTIMEConns(p) => times' \subseteq Messages
           /\ \A m : ReceiveTime(m) =>
                /\ m \in Messages
                /\ startTime' \in [Servers -> 0 .. MaxClock + MaxSkew]
                /\ startTime'[m.to] = IF startTime[m.to] < m.time THEN m.time
                                                              ELSE startTime[m.to]
                /\ \A x \in Servers : x # m.to => startTime'[x] = startTime[x]
<1>1. /\ now \in 0 .. MaxClock /\ startTime \in [Servers -> 0 .. MaxClock + MaxSkew]
      /\ times \subseteq Messages /\ MaxClock \in Nat /\ MaxSkew \in Nat
  BY StartupAssumption DEF TypeOK
<1>2. ASSUME NEW p, SetStartTime(p)
      PROVE  /\ now' \in 0 .. MaxClock /\ now' >= now
             /\ startTime' \in [Servers -> 0 .. MaxClock + MaxSkew]
             /\ startTime'[p] >= now' /\ startTime'[p] <= now' + MaxSkew
             /\ \A x \in Servers : x # p => startTime'[x] = startTime[x]
  <2>1. PICK t \in now .. MaxClock, skew \in 0 .. MaxSkew :
           now' = t /\ startTime' = [startTime EXCEPT ![p] = t + skew]
    BY <1>2 DEF SetStartTime
  <2>2. t \in 0 .. MaxClock /\ t >= now /\ t + skew \in 0 .. MaxClock + MaxSkew
        /\ t + skew >= t /\ t + skew <= t + MaxSkew
    BY <1>1
  <2>3. p \in Servers
    BY <1>2 DEF SetStartTime, Servers
  <2> QED BY <1>1, <2>1, <2>2, <2>3
<1>3. ASSUME NEW p, HandleProposerTIMEConns(p)
      PROVE  times' \subseteq Messages
  BY <1>1, <1>3 DEF HandleProposerTIMEConns, Messages, Servers
<1>4. ASSUME NEW m, ReceiveTime(m)
      PROVE  /\ m \in Messages
             /\ startTime' \in [Servers -> 0 .. MaxClock + MaxSkew]
             /\ startTime'[m.to] = IF startTime[m.to] < m.time THEN m.time
                                                           ELSE startTime[m.to]
             /\ \A x \in Servers : x # m.to => startTime'[x] = startTime[x]
  BY <1>1, <1>4 DEF ReceiveTime, SyncSimulationStartTIme, Messages
<1> QED BY <1>2, <1>3, <1>4

(* DialsDone without a dial given up: the server receives. *)
Received(s) ==
    /\ pc[s] = "dialing" /\ dialNo[s] > Dials(s) /\ ~GaveUp(s)
    /\ pc' = [pc EXCEPT ![s] = "receiving"]
    /\ UNCHANGED <<dialNo, tries, backlog, conn, listenVars, timeVars>>

(* The steps after the dials, the end excepted. *)
Later ==
    \/ \E s \in Servers : Received(s) \/ SetStartTime(s) \/ HandleProposerTIMEConns(s)
    \/ \E m \in times : ReceiveTime(m)
    \/ UNCHANGED vars

LEMMA LaterStep ==
    ASSUME NInv, Later PROVE NInv'
<1>1. ASSUME NEW s \in Servers, Received(s)
      PROVE  NInv'
  <2>1. TypeOK'
    BY <1>1 DEF NInv, TypeOK, Received, listenVars, timeVars
  <2> QED BY <1>1, <2>1, LaterNInv DEF Received, listenVars, NInv, TypeOK
<1>2. ASSUME NEW s \in Servers, SetStartTime(s)
      PROVE  NInv'
  <2>1. TypeOK'
    BY <1>2, TimeTypes DEF NInv, TypeOK, SetStartTime, listenVars
  <2> QED BY <1>2, <2>1, LaterNInv DEF SetStartTime, listenVars, NInv, TypeOK
<1>3. ASSUME NEW s \in Servers, HandleProposerTIMEConns(s)
      PROVE  NInv'
  <2>1. TypeOK'
    BY <1>3, TimeTypes DEF NInv, TypeOK, HandleProposerTIMEConns, listenVars
  <2> QED BY <1>3, <2>1, LaterNInv DEF HandleProposerTIMEConns, listenVars, NInv, TypeOK
<1>4. ASSUME NEW m \in times, ReceiveTime(m)
      PROVE  NInv'
  <2>1. TypeOK'
    BY <1>4, TimeTypes DEF NInv, TypeOK, ReceiveTime, listenVars
  <2> QED BY <1>4, <2>1, LaterNInv DEF ReceiveTime, listenVars
<1>5. ASSUME UNCHANGED vars PROVE NInv'
  <2>1. TypeOK'
    BY <1>5 DEF NInv, TypeOK, vars, listenVars, timeVars
  <2> QED BY <1>5, <2>1, LaterNInv DEF vars, listenVars
<1> QED BY <1>1, <1>2, <1>3, <1>4, <1>5 DEF Later

(* A step of the system is one of the listeners, a dial, or a later one. *)
LEMMA StepCases ==
    ASSUME NInv, [Next]_vars
    PROVE  \/ \E s \in Servers : \/ StartServer(s)
                                \/ Dial(s)
                                \/ Refused(s)
                                \/ (Past(s) /\ End(s))
           \/ \E p \in Proposers : ValidatorsDone(p)
           \/ \E p \in Proposers, ph \in PhaseSet : ListenerStep(p, ph)
           \/ Later
<1>1. \A s \in Servers : DialsDone(s) => (Past(s) /\ End(s)) \/ Received(s)
  BY DEF DialsDone, Received, Past
<1>2. \A s \in Servers : LosesProposer(s) => Past(s) /\ End(s)
  BY DEF LosesProposer, Receiving, Past
<1>3. \A p \in Proposers : Finish(p) => Past(p) /\ End(p) /\ p \in Servers
  BY DEF Finish, Past, Servers
<1> QED BY <1>1, <1>2, <1>3 DEF Next, Progress, ServerStep, Later

LEMMA NextNInv == NInv /\ [Next]_vars => NInv'
<1> SUFFICES ASSUME NInv, [Next]_vars PROVE NInv'
  OBVIOUS
<1>1. ASSUME NEW p \in Proposers, NEW ph \in PhaseSet, ListenerStep(p, ph)
      PROVE  NInv'
  BY <1>1, OpenForValidatorsNInv, AcceptValidatorNInv, CloseNInv, OpenForProposersNInv,
     AcceptProposerNInv DEF ListenerStep
<1> QED BY <1>1, StepCases, StartNInv, DialNInv, RefusedNInv, EndNInv, ValidatorsDoneNInv,
           LaterStep

(* Every variable keeps its type: no wait group is signalled below zero    *)
(* (which would panic), no dial is made beyond the last.                   *)
THEOREM StartupTypeCorrect == Spec => []TypeOK
<1>1. Spec => []NInv
  BY InitNInv, NextNInv, PTL DEF Spec
<1> QED BY <1>1, PTL DEF NInv

-----------------------------------------------------------------------------
(* A connection is queued once, by its dial, and then registered or reset, *)
(* for good.                                                               *)
DialsNow(p, ph, s) ==
    Dial(s) /\ p = DialledProposer(s, dialNo[s]) /\ ph = DialledPhase(dialNo[s])

LEMMA ConnStep ==
    ASSUME NInv, [Next]_vars, NEW p \in Proposers, NEW ph \in PhaseSet, NEW s \in Servers
    PROVE  \/ conn'[p][ph][s] = conn[p][ph][s]
           \/ conn[p][ph][s] = "none" /\ conn'[p][ph][s] = "queued" /\ DialsNow(p, ph, s)
           \/ conn[p][ph][s] = "queued" /\ conn'[p][ph][s] \in {"validator", "proposer", "reset"}
<1> DEFINE Moved == \/ conn'[p][ph][s] = conn[p][ph][s]
                    \/ /\ conn[p][ph][s] = "none" /\ conn'[p][ph][s] = "queued"
                       /\ DialsNow(p, ph, s)
                    \/ /\ conn[p][ph][s] = "queued"
                       /\ conn'[p][ph][s] \in {"validator", "proposer", "reset"}
<1>1. ASSUME NEW x \in Servers, Dial(x) PROVE Moved
  <2>1. PICK q \in Proposers, h \in PhaseSet :
          /\ q = DialledProposer(x, dialNo[x]) /\ h = DialledPhase(dialNo[x])
          /\ conn[q][h][x] = "none" /\ conn' = [conn EXCEPT ![q][h][x] = "queued"]
    BY <1>1, NotDialled DEF Dial, Dialling
  <2>2. CASE p = q /\ ph = h /\ s = x
    BY <1>1, <2>1, <2>2 DEF NInv, TypeOK, DialsNow
  <2>3. CASE ~(p = q /\ ph = h /\ s = x)
    BY <2>1, <2>3 DEF NInv, TypeOK
  <2> QED BY <2>2, <2>3
<1>2. ASSUME NEW x \in Servers, End(x) PROVE Moved
  <2>1. CASE x \in Proposers /\ p = x
    <3>1. conn'[p][ph] = Reset(p, ph)
      BY <1>2, <2>1 DEF End, NInv, TypeOK
    <3> QED BY <3>1 DEF Reset
  <2>2. CASE ~(x \in Proposers /\ p = x)
    BY <1>2, <2>2 DEF End, NInv, TypeOK
  <2> QED BY <2>1, <2>2
<1>3. ASSUME NEW q \in Proposers, NEW h \in PhaseSet, ListenerStep(q, h) PROVE Moved
  <2>1. ASSUME NEW kind \in {"validator", "proposer"}, Accept(q, h, kind) PROVE Moved
    <3>1. PICK x \in Servers \ {q} : Takes(q, h, kind, x)
      BY <2>1, AcceptEffect
    <3> QED BY <3>1 DEF Takes
  <2>2. ASSUME CloseTCPListener(q, h) PROVE Moved
    <3>1. CASE p = q /\ ph = h
      <4>1. conn'[p][ph] = Reset(p, ph)
        BY <2>2, <3>1 DEF CloseTCPListener, NInv, TypeOK
      <4> QED BY <4>1 DEF Reset
    <3>2. CASE p # q \/ ph # h
      BY <2>2, <3>2 DEF CloseTCPListener, NInv, TypeOK
    <3> QED BY <3>1, <3>2
  <2> QED BY <1>3, <2>1, <2>2
          DEF ListenerStep, AcceptValidator, AcceptProposer, OpenForValidators, OpenForProposers
<1>4. (\E x \in Servers : StartServer(x) \/ Refused(x)) \/ Later => Moved
  BY DEF StartServer, Refused, Later, Received, SetStartTime, HandleProposerTIMEConns,
         ReceiveTime, vars
<1>5. (\E q \in Proposers : ValidatorsDone(q)) => Moved
  BY DEF ValidatorsDone
<1> QED BY <1>1, <1>2, <1>3, <1>4, <1>5, StepCases

(* All other servers have been accepted when a proposer's waits are over.  *)
LEMMA EverybodyAccepted ==
    ASSUME NInv, NEW p \in Proposers, Past(p), wg[p] = 0,
           NEW ph \in PhaseSet, NEW s \in Servers \ {p}
    PROVE  Registered(p, ph, s)
<1> DEFINE V == Accepted(p, ph, "validator")
           P == Accepted(p, ph, "proposer")
           others == Servers \ {p}
<1>1. Complete(p, ph)
  <2>1. Cardinality(Incomplete(p)) = 0 /\ Incomplete(p) \in SUBSET PhaseSet
    BY DEF NInv, CountInv, Counts, Incomplete
  <2>2. Incomplete(p) = {}
    BY <2>1, PhaseCount
  <2> QED BY <2>2 DEF Incomplete
<1>2. Cardinality(V) = Cardinality(Validators) /\ Cardinality(P) >= Len(ProposerList) - 1
  BY <1>1 DEF Complete, NInv, ListenInv, Listens
<1>3. V \subseteq others /\ P \subseteq others /\ V \cap P = {}
  BY Connected DEF Accepted
<1>4. /\ IsFiniteSet(V) /\ Cardinality(V) \in Nat
      /\ IsFiniteSet(P) /\ Cardinality(P) \in Nat
  BY AcceptedFinite
<1>5. IsFiniteSet(others) /\ Cardinality(others) = Cardinality(Validators) + Len(ProposerList) - 1
  <2>1. Servers = Proposers \cup Validators /\ Proposers \cap Validators = {}
    BY StartupAssumption DEF Servers
  <2>2. Cardinality(Servers) = Cardinality(Proposers) + Cardinality(Validators)
    <3>1. Cardinality(Proposers \cap Validators) = 0
      BY <2>1, FS_EmptySet
    <3>2. Cardinality(Servers) = Cardinality(Proposers) + Cardinality(Validators)
                                 - Cardinality(Proposers \cap Validators)
      BY <2>1, ConstantFacts, FS_Union
    <3> QED BY <3>1, <3>2, ConstantFacts
  <2>3. p \in Servers /\ IsFiniteSet(Servers)
    BY ConstantFacts DEF Servers
  <2>4. IsFiniteSet(others) /\ Cardinality(others) = Cardinality(Servers) - 1
    BY <2>3, FS_RemoveElement
  <2> QED BY <2>2, <2>4, ConstantFacts
<1> HIDE DEF V, P, others
<1>6. /\ IsFiniteSet(V \cup P)
      /\ Cardinality(V \cup P) = Cardinality(V) + Cardinality(P)
  <2>1. Cardinality(V \cap P) = 0
    BY <1>3, FS_EmptySet
  <2>2. /\ IsFiniteSet(V \cup P)
        /\ Cardinality(V \cup P) = Cardinality(V) + Cardinality(P) - Cardinality(V \cap P)
    BY <1>4, FS_Union
  <2> QED BY <1>4, <2>1, <2>2
<1>7. V \cup P = others
  <2>1. V \cup P \subseteq others
    BY <1>3
  <2>2. Cardinality(V \cup P) >= Cardinality(others)
    BY <1>2, <1>4, <1>5, <1>6, ConstantFacts
  <2>3. /\ Cardinality(V \cup P) <= Cardinality(others)
        /\ Cardinality(V \cup P) = Cardinality(others) => V \cup P = others
    BY <1>5, <2>1, FS_Subset
  <2>4. Cardinality(V \cup P) \in Nat /\ Cardinality(others) \in Nat
    BY <1>5, <1>6, FS_CardinalityType
  <2> QED BY <2>2, <2>3, <2>4
<1>8. s \in V \cup P
  BY <1>7 DEF others
<1> QED BY <1>8 DEF V, P, Accepted, Registered

LEMMA ReadyStep == NInv /\ ReadyInv /\ [Next]_vars => ReadyInv'
<1> SUFFICES ASSUME NInv, ReadyInv, [Next]_vars,
                    NEW p \in Proposers, pc'[p] \in {"syncing", "started"},
                    NEW ph \in PhaseSet, NEW s \in Servers \ {p}
             PROVE  Registered(p, ph, s)'
  BY DEF ReadyInv
<1>1. Registered(p, ph, s) => Registered(p, ph, s)'
  BY ConnStep DEF Registered
<1>2. CASE pc[p] \in {"syncing", "started"}
  BY <1>1, <1>2 DEF ReadyInv
<1>3. CASE pc[p] \notin {"syncing", "started"}
  <2>1. pc[p] = "receiving" /\ wg[p] = 0
    <3>1. p \in Servers /\ pc \in [Servers -> {"off", "accepting", "dialing", "receiving",
                                              "syncing", "started", "ended"}]
      BY DEF Servers, NInv, TypeOK
    <3> QED BY <1>3, <3>1, StepCases
            DEF StartServer, Dial, Refused, End, ValidatorsDone, ListenerStep, Later,
                OpenForValidators, AcceptValidator, CloseTCPListener, OpenForProposers,
                AcceptProposer, Received, SetStartTime, HandleProposerTIMEConns, ReceiveTime, vars
  <2>2. Past(p)
    BY <2>1 DEF Past
  <2> QED BY <1>1, <2>1, <2>2, EverybodyAccepted
<1> QED BY <1>2, <1>3

(* Steps before the time is sent, and ends. *)
LEMMA QuietTime ==
    ASSUME NInv, TimeInv, UNCHANGED timeVars,
           \A p \in Proposers :
              /\ pc[p] \in {"syncing", "started", "ended"} =>
                    pc'[p] \in {"syncing", "started", "ended"}
              /\ pc'[p] = "started" => pc[p] = "started"
    PROVE  TimeInv'
BY DEF TimeInv, Latest, timeVars

LEMMA TimeStep == NInv /\ ReadyInv /\ TimeInv /\ [Next]_vars => TimeInv'
<1> SUFFICES ASSUME NInv, ReadyInv, TimeInv, [Next]_vars PROVE TimeInv'
  OBVIOUS
<1> USE DEF Latest
<1>1. /\ now \in Nat /\ MaxSkew \in Nat
      /\ \A s \in Servers : startTime[s] \in Nat
      /\ pc \in [Servers -> {"off", "accepting", "dialing", "receiving",
                             "syncing", "started", "ended"}]
      /\ times \subseteq Messages /\ \A m \in Messages : m.time \in Nat /\ m.to \in Servers
      /\ TypeOK /\ Proposers \subseteq Servers
  <2>1. \A m \in Messages : m.time \in Nat /\ m.to \in Servers
    BY StartupAssumption DEF Messages
  <2>2. \A s \in Servers : startTime[s] \in Nat
    <3>1. startTime \in [Servers -> 0 .. MaxClock + MaxSkew]
      BY DEF NInv, TypeOK
    <3> QED BY <3>1, StartupAssumption
  <2>3. now \in Nat /\ MaxSkew \in Nat
    BY StartupAssumption DEF NInv, TypeOK
  <2>4. /\ pc \in [Servers -> {"off", "accepting", "dialing", "receiving",
                               "syncing", "started", "ended"}]
        /\ times \subseteq Messages /\ TypeOK
    BY DEF NInv, TypeOK
  <2> QED BY <2>1, <2>2, <2>3, <2>4 DEF Servers
<1>2. ASSUME NEW p \in Servers, SetStartTime(p) PROVE TimeInv'
  <2>1. /\ now' \in 0 .. MaxClock /\ now' >= now
        /\ startTime'[p] >= now' /\ startTime'[p] <= now' + MaxSkew
        /\ \A x \in Servers : x # p => startTime'[x] = startTime[x]
        /\ p \in Proposers /\ pc'[p] = "syncing" /\ times' = times
    BY <1>1, <1>2, TimeTypes DEF SetStartTime
  <2>2. \A s \in Servers : startTime'[s] <= now' + MaxSkew
    BY <1>1, <2>1 DEF TimeInv
  <2>3. \A m \in times' : m.time <= now' + MaxSkew
    BY <1>1, <2>1 DEF TimeInv
  <2>4. pc'[p] \in {"syncing", "started", "ended"} /\ Latest(p)'
    BY <2>1
  <2> HIDE DEF Latest
  <2> QED BY <2>1, <2>2, <2>3, <2>4 DEF TimeInv
<1>3. ASSUME NEW p \in Servers, HandleProposerTIMEConns(p) PROVE TimeInv'
  <2>1. /\ p \in Proposers /\ pc[p] = "syncing" /\ pc' = [pc EXCEPT ![p] = "started"]
        /\ times' = times \cup {[from |-> p, to |-> s, time |-> startTime[p]] :
                                   s \in {x \in Servers : Registered(p, TIME, x)}}
        /\ now' = now /\ startTime' = startTime
    BY <1>3 DEF HandleProposerTIMEConns
  <2>2. \A s \in Servers \ {p} :
           \E m \in times' : m.to = s /\ m.time = startTime[p]
    <3>1. SUFFICES ASSUME NEW s \in Servers \ {p}
                   PROVE  \E m \in times' : m.to = s /\ m.time = startTime[p]
      OBVIOUS
    <3>2. Registered(p, TIME, s)
      BY <2>1, ConstantFacts DEF ReadyInv
    <3>3. [from |-> p, to |-> s, time |-> startTime[p]] \in times'
      BY <2>1, <3>2
    <3> QED BY <3>3
  <2>3. \A m \in times' : m.time <= now' + MaxSkew
    <3>1. \A m \in times' : m \in times \/ m.time = startTime[p]
      BY <2>1
    <3> QED BY <1>1, <2>1, <3>1 DEF TimeInv
  <2>4. ASSUME NEW q \in Proposers, pc[q] \in {"syncing", "started", "ended"}, Latest(q)
        PROVE  pc'[q] \in {"syncing", "started", "ended"} /\ Latest(q)'
    <3>1. CASE q = p
      BY <1>1, <2>1, <2>2, <2>4, <3>1
    <3>2. CASE q # p
      BY <1>1, <2>1, <2>4, <3>2
    <3> QED BY <3>1, <3>2
  <2> HIDE DEF Latest
  <2> QED BY <2>1, <2>3, <2>4 DEF TimeInv
<1>4. ASSUME NEW m \in times, ReceiveTime(m) PROVE TimeInv'
  <2>1. /\ m \in Messages /\ times' = times \ {m} /\ now' = now /\ pc' = pc
        /\ startTime'[m.to] = IF startTime[m.to] < m.time THEN m.time ELSE startTime[m.to]
        /\ \A x \in Servers : x # m.to => startTime'[x] = startTime[x]
    BY <1>1, <1>4, TimeTypes DEF ReceiveTime
  <2>2. m.time <= now + MaxSkew
    BY DEF TimeInv
  <2>3. \A s \in Servers : /\ startTime'[s] <= now' + MaxSkew
                           /\ startTime'[s] >= startTime[s]
                           /\ startTime'[s] \in Nat
    BY <1>1, <2>1, <2>2 DEF TimeInv
  <2>4. startTime'[m.to] >= m.time
    BY <1>1, <2>1
  <2>5. ASSUME NEW q \in Proposers, Latest(q) PROVE Latest(q)'
    <3>1. startTime'[q] >= now'
      BY <1>1, <2>1, <2>3, <2>5
    <3>2. ASSUME pc'[q] = "started", NEW s \in Servers \ {q}
          PROVE  startTime'[s] >= now' \/ \E x \in times' : x.to = s /\ x.time >= now'
      <4>1. CASE startTime[s] >= now
        BY <1>1, <2>1, <2>3, <4>1
      <4>2. CASE \E x \in times : x.to = s /\ x.time >= now
        <5>1. PICK x \in times : x.to = s /\ x.time >= now
          BY <4>2
        <5>2. CASE x = m
          BY <1>1, <2>1, <2>3, <2>4, <5>1, <5>2
        <5>3. CASE x # m
          BY <2>1, <5>1, <5>3
        <5> QED BY <5>2, <5>3
      <4> QED BY <2>1, <2>5, <3>2, <4>1, <4>2
    <3> QED BY <3>1, <3>2
  <2> HIDE DEF Latest
  <2> QED BY <2>1, <2>3, <2>5 DEF TimeInv
<1> HIDE DEF Latest
<1>5. ASSUME NEW s \in Servers, UNCHANGED timeVars,
             \/ pc[s] = "off" /\ pc' = [pc EXCEPT ![s] = "accepting"]
             \/ pc[s] \in {"off", "accepting"} /\ pc' = [pc EXCEPT ![s] = "dialing"]
             \/ pc[s] = "dialing" /\ pc' = [pc EXCEPT ![s] = "receiving"]
             \/ pc' = [pc EXCEPT ![s] = "ended"]
      PROVE  TimeInv'
  <2>1. ASSUME NEW p \in Proposers
        PROVE  /\ pc[p] \in {"syncing", "started", "ended"} =>
                    pc'[p] \in {"syncing", "started", "ended"}
               /\ pc'[p] = "started" => pc[p] = "started"
    <3>1. CASE p # s
      BY <1>1, <1>5, <3>1
    <3>2. CASE p = s
      BY <1>1, <1>5, <3>2
    <3> QED BY <3>1, <3>2
  <2> QED BY <1>5, <2>1, QuietTime
<1>6. ASSUME NEW p \in Proposers, NEW ph \in PhaseSet, ListenerStep(p, ph) PROVE TimeInv'
  <2>1. UNCHANGED pc /\ UNCHANGED timeVars
    BY <1>6 DEF ListenerStep, OpenForValidators, AcceptValidator, CloseTCPListener,
                OpenForProposers, AcceptProposer
  <2> QED BY <2>1, QuietTime
<1>7. ASSUME NEW s \in Servers, StartServer(s) \/ Dial(s) \/ Refused(s) \/ End(s) \/ Received(s)
      PROVE  TimeInv'
  <2>1. CASE StartServer(s)
    BY <1>5, <2>1 DEF StartServer
  <2>2. CASE Dial(s) \/ Refused(s)
    BY <2>2, QuietTime DEF Dial, Refused
  <2>3. CASE End(s)
    BY <1>5, <2>3 DEF End
  <2>4. CASE Received(s)
    BY <1>5, <2>4 DEF Received
  <2> QED BY <1>7, <2>1, <2>2, <2>3, <2>4
<1>8. ASSUME NEW p \in Proposers, ValidatorsDone(p) PROVE TimeInv'
  BY <1>1, <1>5, <1>8 DEF ValidatorsDone
<1>9. ASSUME UNCHANGED vars PROVE TimeInv'
  BY <1>9, QuietTime DEF vars
<1> QED BY <1>2, <1>3, <1>4, <1>6, <1>7, <1>8, <1>9, StepCases DEF Later

SInv == NInv /\ ReadyInv /\ TimeInv

LEMMA InitSInv == Init => SInv
<1>1. Init => ReadyInv /\ TimeInv
  BY StartupAssumption DEF Init, ReadyInv, TimeInv, Servers
<1> QED BY <1>1, InitNInv DEF SInv

LEMMA NextSInv == SInv /\ [Next]_vars => SInv'
BY NextNInv, ReadyStep, TimeStep DEF SInv

LEMMA SInvTimes == SInv => StartTimesAgree
<1> SUFFICES ASSUME SInv, times = {}, \A p \in Proposers : pc[p] = "started",
                    NEW s \in Servers, NEW r \in Servers
             PROVE  startTime[s] <= startTime[r] + MaxSkew
  BY DEF StartTimesAgree
<1>1. /\ now \in Nat /\ MaxSkew \in Nat /\ startTime[s] \in Nat /\ startTime[r] \in Nat
  BY StartupAssumption DEF SInv, NInv, TypeOK
<1>2. startTime[s] <= now + MaxSkew
  BY DEF SInv, TimeInv
<1>3. startTime[r] >= now
  BY <1>1 DEF SInv, TimeInv, Latest
<1> QED BY <1>1, <1>2, <1>3

(* When all proposers are ready and no TIME message is under way, no two   *)
(* servers' start times are further apart than the clocks: the proposer    *)
(* that was ready last has sent everybody a time that is not behind that   *)
(* moment, and no time ever set or sent is further ahead of it than a      *)
(* clock can be.                                                           *)
THEOREM TimesAgree == Spec => []StartTimesAgree
<1>1. Spec => []SInv
  BY InitSInv, NextSInv, PTL DEF Spec
<1> QED BY <1>1, SInvTimes, PTL

-----------------------------------------------------------------------------
(* A dial given up is never made up for. *)
LEMMA GaveUpStays ==
    ASSUME NInv, [Next]_vars, NobodyGaveUp' PROVE NobodyGaveUp
<1> SUFFICES ASSUME NEW s \in Servers, GaveUp(s) PROVE GaveUp(s)'
  BY DEF NobodyGaveUp
<1>1. PICK n \in 1 .. dialNo[s] - 1 :
        conn[DialledProposer(s, n)][DialledPhase(n)][s] = "none"
  BY DEF GaveUp
<1>2. /\ dialNo[s] \in Nat /\ Dials(s) \in Nat /\ dialNo[s] <= Dials(s) + 1
      /\ dialNo \in [Servers -> 1 .. Len(ProposerList) * NOP + 1]
  BY DialFacts DEF NInv, DialInv, TypeOK
<1>3. n \in 1 .. Dials(s) /\ n < dialNo[s]
  BY <1>2
<1>4. DialledProposer(s, n) \in Proposers /\ DialledPhase(n) \in PhaseSet
  BY <1>3, DialFacts
<1>5. dialNo'[s] \in {dialNo[s], dialNo[s] + 1}
  BY <1>2, StepCases
     DEF StartServer, Dial, Refused, End, ValidatorsDone, ListenerStep, Later,
         OpenForValidators, AcceptValidator, CloseTCPListener, OpenForProposers,
         AcceptProposer, Received, SetStartTime, HandleProposerTIMEConns, ReceiveTime, vars
<1>6. n \in 1 .. dialNo'[s] - 1
  BY <1>2, <1>5
<1>7. conn'[DialledProposer(s, n)][DialledPhase(n)][s] = "none"
  <2>1. SUFFICES ASSUME conn'[DialledProposer(s, n)][DialledPhase(n)][s] # "none"
                 PROVE  FALSE
    OBVIOUS
  <2>2. DialsNow(DialledProposer(s, n), DialledPhase(n), s)
    BY <1>1, <1>4, <2>1, ConnStep
  <2>3. dialNo[s] \in 1 .. Dials(s)
    BY <2>2, NotDialled DEF DialsNow, Dial, Dialling
  <2>4. n = dialNo[s]
    BY <1>3, <2>2, <2>3, DialFacts DEF DialsNow
  <2> QED BY <1>2, <1>3, <2>4
<1> QED BY <1>6, <1>7 DEF GaveUp

LEMMA InitFInv == Init => FInv
<1> SUFFICES ASSUME Init, NEW ph \in PhaseSet PROVE Unmixed(ph)
  BY DEF FInv
<1>1. first \in Proposers
  BY ConstantFacts
<1>2. /\ Accepted(first, ph, "validator") = {} /\ backlog[first][ph] = << >>
      /\ \A q \in Proposers : ~Past(q)
  BY <1>1 DEF Init, Accepted, Past, Servers
<1> QED BY <1>2 DEF Unmixed

(* Steps that do not concern the first proposer, *)
LEMMA SameUnmixed ==
    ASSUME NEW ph \in PhaseSet, Unmixed(ph),
           Accepted(first, ph, "validator")' = Accepted(first, ph, "validator"),
           backlog'[first][ph] = backlog[first][ph],
           vListener'[first][ph] \in {"none", "open"} => vListener[first][ph] \in {"none", "open"},
           \A v \in Validators : conn[first][ph][v] # "none" => conn'[first][ph][v] # "none",
           \A q \in Proposers : Past(q)' => Past(q)
    PROVE  Unmixed(ph)'
BY DEF Unmixed

(* and those after it has closed its listener. *)
LEMMA ClosedUnmixed ==
    ASSUME NEW ph \in PhaseSet, Unmixed(ph),
           Accepted(first, ph, "validator")' = Accepted(first, ph, "validator"),
           vListener'[first][ph] \in {"closing", "closed"}
    PROVE  Unmixed(ph)'
BY DEF Unmixed

LEMMA AcceptUnmixed ==
    ASSUME NInv, NEW ph \in PhaseSet, Unmixed(ph), AcceptValidator(first, ph)
    PROVE  Unmixed(ph)'
<1> DEFINE A == Accepted(first, ph, "validator")
           B == backlog[first][ph]
<1>0. first \in Proposers
  BY ConstantFacts
<1>1. /\ Alive(first) /\ vListener[first][ph] = "open" /\ Accept(first, ph, "validator")
      /\ pc' = pc
  BY DEF AcceptValidator
<1>2. PICK s \in Servers \ {first} : Takes(first, ph, "validator", s)
  BY <1>0, <1>1, AcceptEffect
<1>3. /\ s = Head(B) /\ B # << >> /\ conn[first][ph][s] = "queued"
      /\ backlog'[first][ph] = Tail(B) /\ A' = A \cup {s}
      /\ \A x \in Servers : conn'[first][ph][x] = IF x = s THEN "validator"
                                                          ELSE conn[first][ph][x]
  BY <1>0, <1>2 DEF Takes
<1>4. /\ B \in Seq(Servers) /\ IsInjective(B) /\ ToSet(B) = Accepted(first, ph, "queued")
      /\ Listens(first, ph)
  BY <1>0 DEF NInv, TypeOK, QueueInv, Queues, ListenInv
<1>5. /\ s = B[1] /\ 1 \in DOMAIN B /\ DOMAIN B = 1 .. Len(B) /\ Len(B) \in Nat
      /\ DOMAIN Tail(B) = 1 .. Len(B) - 1
      /\ \A i \in DOMAIN Tail(B) : Tail(B)[i] = B[i + 1]
  BY <1>3, <1>4, QueueTail
<1>6. \A i, j \in DOMAIN B : i < j /\ B[j] \in Validators => B[i] \in Validators
  BY <1>1 DEF Unmixed
<1>7. s \in Validators
  <2>1. SUFFICES ASSUME s \notin Validators PROVE FALSE
    OBVIOUS
  <2>2. s \in Proposers \ {first} /\ Past(s)
    BY <1>0, <1>3, <2>1, Connected DEF Servers
  <2>3. \A v \in Validators : conn[first][ph][v] # "none"
    BY <1>1, <2>2 DEF Unmixed
  <2>4. \A v \in Validators : conn[first][ph][v] # "queued"
    <3>1. SUFFICES ASSUME NEW v \in Validators, v \in ToSet(B) PROVE FALSE
      BY <1>4 DEF Accepted, Servers
    <3>2. PICK j \in DOMAIN B : B[j] = v
      BY <3>1 DEF ToSet
    <3>3. j # 1 /\ 1 < j
      BY <1>5, <2>1, <3>2
    <3> QED BY <1>5, <1>6, <2>1, <3>2, <3>3
  <2>5. \A v \in Validators : v \in A
    <3>1. \A v \in Validators : v \in Servers
      BY DEF Servers
    <3> QED BY <1>1, <1>4, <2>3, <2>4, <3>1 DEF Accepted, Listens
  <2>6. Cardinality(Validators) <= Cardinality(A)
    BY <2>5, AcceptedFinite, FS_Subset
  <2>7. Validators = {}
    BY <1>1, <1>4, <2>6, AcceptedFinite, ConstantFacts DEF Listens, Fewer
  <2>8. Validators # {}
    BY <2>2, ConstantFacts DEF NInv, ListenInv, Listens
  <2> QED BY <2>7, <2>8
<1>8. s \notin Proposers
  BY <1>7, StartupAssumption
<1>9. A' \cap Proposers = {}
  BY <1>3, <1>8 DEF Unmixed
<1>10. (\E q \in Proposers \ {first} : Past(q)') =>
          \A v \in Validators : conn'[first][ph][v] # "none"
  <2>1. \A q \in Proposers : Past(q)' <=> Past(q)
    BY <1>1 DEF Past
  <2>2. \A v \in Validators : v \in Servers
    BY DEF Servers
  <2> QED BY <1>1, <1>3, <2>1, <2>2 DEF Unmixed
<1>11. ASSUME NEW i \in DOMAIN Tail(B), NEW j \in DOMAIN Tail(B), i < j, Tail(B)[j] \in Validators
       PROVE  Tail(B)[i] \in Validators
  <2>1. i + 1 \in DOMAIN B /\ j + 1 \in DOMAIN B /\ i + 1 < j + 1
    BY <1>5, <1>11
  <2> QED BY <1>5, <1>6, <1>11, <2>1
<1> QED BY <1>3, <1>9, <1>10, <1>11 DEF Unmixed

LEMMA ValidatorsDoneUnmixed ==
    ASSUME NInv, NobodyGaveUp, NEW ph \in PhaseSet, Unmixed(ph),
           NEW p \in Proposers, ValidatorsDone(p)
    PROVE  Unmixed(ph)'
<1>1. /\ pc[p] = "accepting" /\ wg[p] = 0
      /\ pc' = [pc EXCEPT ![p] = "dialing"]
      /\ backlog' = backlog /\ conn' = conn /\ vListener' = vListener
      /\ first \in Proposers /\ p \in Servers
  BY ConstantFacts DEF ValidatorsDone, Servers
<1>2. Accepted(first, ph, "validator")' = Accepted(first, ph, "validator")
  BY <1>1 DEF Accepted
<1>3. \A h \in PhaseSet : vListener[p][h] \in {"closing", "closed"}
  <2>1. Cardinality(OpenPhases(p)) = 0 /\ OpenPhases(p) \in SUBSET PhaseSet
    BY <1>1 DEF NInv, CountInv, Counts, OpenPhases
  <2>2. OpenPhases(p) = {}
    BY <2>1, PhaseCount
  <2> QED BY <2>2 DEF OpenPhases, NInv, TypeOK
<1>4. CASE vListener[first][ph] \in {"closing", "closed"}
  BY <1>1, <1>2, <1>4, ClosedUnmixed
<1>5. CASE vListener[first][ph] \in {"none", "open"}
  <2>1. p # first /\ ~Past(first)
    BY <1>1, <1>3, <1>5 DEF NInv, ListenInv, Listens
  <2>2. \A v \in Validators : conn[first][ph][v] # "none"
    <3>1. CASE \E q \in Proposers \ {first} : Past(q)
      BY <1>5, <3>1 DEF Unmixed
    <3>2. CASE ~\E q \in Proposers : Past(q)
      <4> DEFINE A == Accepted(p, ph, "validator")
      <4>1. A \subseteq Validators
        BY <3>2, Connected DEF Accepted, Servers
      <4>2. Cardinality(A) = Cardinality(Validators)
        BY <1>3 DEF NInv, ListenInv, Listens
      <4>3. A = Validators
        BY <4>1, <4>2, ConstantFacts, FS_Subset
      <4>4. ASSUME NEW v \in Validators PROVE conn[first][ph][v] # "none"
        <5>1. v \in Servers /\ v # first /\ conn[p][ph][v] = "validator"
          BY <1>1, <4>3, StartupAssumption DEF Accepted, Servers
        <5>2. PICK n \in 1 .. Dials(v) : n < dialNo[v] /\ p = DialledProposer(v, n)
          BY <5>1, Connected
        <5>3. PICK k \in 1 .. NOP : DialledPhase(k) = ph /\ DialledProposer(v, k) = first
          BY <5>1, DialFacts
        <5>4. NOP \in Nat /\ Dials(v) \in Nat /\ dialNo[v] \in Nat
          BY <5>1, DialFacts, ConstantFacts DEF NInv, TypeOK
        <5>5. n \notin 1 .. NOP
          BY <2>1, <5>1, <5>2, DialFacts
        <5>6. k \in 1 .. dialNo[v] - 1
          BY <5>2, <5>4, <5>5
        <5> QED BY <5>1, <5>3, <5>6 DEF NobodyGaveUp, GaveUp
      <4> QED BY <4>4
    <3> QED BY <2>1, <3>1, <3>2
  <2> QED BY <1>1, <1>2, <2>2 DEF Unmixed
<1> QED BY <1>1, <1>4, <1>5 DEF NInv, TypeOK

LEMMA DialUnmixed ==
    ASSUME NInv, NEW ph \in PhaseSet, Unmixed(ph), NEW s \in Servers, Dial(s)
    PROVE  Unmixed(ph)'
<1>0. PICK p \in Proposers \ {s}, h \in PhaseSet :
        /\ conn[p][h][s] = "none"
        /\ backlog' = [backlog EXCEPT ![p][h] = Append(@, s)]
        /\ conn' = [conn EXCEPT ![p][h][s] = "queued"]
  BY NotDialled DEF Dial, Dialling
<1>1. /\ first \in Proposers /\ pc' = pc /\ vListener' = vListener
      /\ \A q \in Proposers : Past(q)' <=> Past(q)
  BY ConstantFacts DEF Dial, Past, listenVars
<1>2. /\ \A x \in Servers : conn'[first][ph][x] = "validator" <=> conn[first][ph][x] = "validator"
      /\ \A x \in Validators : conn[first][ph][x] # "none" => conn'[first][ph][x] # "none"
  <2>1. conn[p][h] \in [Servers -> {"none", "queued", "validator", "proposer", "reset"}]
    BY <1>0 DEF NInv, TypeOK
  <2>2. conn'[p][h] = [conn[p][h] EXCEPT ![s] = "queued"]
    BY <1>0 DEF NInv, TypeOK
  <2>3. \A x \in Servers : /\ conn'[p][h][x] = "validator" <=> conn[p][h][x] = "validator"
                           /\ conn[p][h][x] # "none" => conn'[p][h][x] # "none"
    BY <1>0, <2>1, <2>2
  <2>4. ~(p = first /\ h = ph) => conn'[first][ph] = conn[first][ph]
    BY <1>0, <1>1 DEF NInv, TypeOK
  <2>5. Validators \subseteq Servers
    BY DEF Servers
  <2>6. CASE p = first /\ h = ph
    <3>1. \A x \in Servers : /\ conn'[first][ph][x] = "validator" <=> conn[first][ph][x] = "validator"
                             /\ conn[first][ph][x] # "none" => conn'[first][ph][x] # "none"
      BY <2>3, <2>6
    <3> QED BY <2>5, <3>1
  <2>7. CASE ~(p = first /\ h = ph)
    <3>1. conn'[first][ph] = conn[first][ph]
      BY <2>4, <2>7
    <3> QED BY <3>1
  <2> QED BY <2>6, <2>7
<1>3. Accepted(first, ph, "validator")' = Accepted(first, ph, "validator")
  BY <1>2 DEF Accepted
<1>4. CASE ~(p = first /\ h = ph)
  <2>1. backlog'[first][ph] = backlog[first][ph]
    BY <1>0, <1>1, <1>4 DEF NInv, TypeOK
  <2> QED BY <1>1, <1>2, <1>3, <2>1, SameUnmixed
<1>5. CASE p = first /\ h = ph
  <2> DEFINE B == backlog[first][ph]
  <2>1. /\ B \in Seq(Servers) /\ ToSet(B) = Accepted(first, ph, "queued")
        /\ backlog'[first][ph] = Append(B, s)
    BY <1>0, <1>1, <1>5 DEF NInv, TypeOK, QueueInv, Queues
  <2>2. /\ DOMAIN B = 1 .. Len(B) /\ Len(B) \in Nat
        /\ DOMAIN Append(B, s) = 1 .. Len(B) + 1
        /\ \A i \in 1 .. Len(B) : Append(B, s)[i] = B[i] /\ B[i] \in Servers
        /\ Append(B, s)[Len(B) + 1] = s
    BY <2>1
  <2>3. ASSUME vListener[first][ph] \in {"none", "open"},
               NEW i \in 1 .. Len(B) + 1, NEW j \in 1 .. Len(B) + 1, i < j,
               Append(B, s)[j] \in Validators
        PROVE  Append(B, s)[i] \in Validators
    <3>1. i \in 1 .. Len(B) /\ Append(B, s)[i] = B[i] /\ B[i] \in Servers
      BY <2>2, <2>3
    <3>2. CASE j \in 1 .. Len(B)
      BY <2>2, <2>3, <3>1, <3>2 DEF Unmixed
    <3>3. CASE j = Len(B) + 1
      <4>1. SUFFICES ASSUME B[i] \notin Validators PROVE FALSE
        BY <3>1
      <4>2. conn[first][ph][B[i]] # "none"
        BY <2>1, <2>2, <3>1 DEF ToSet, Accepted
      <4>3. B[i] \in Proposers \ {first} /\ Past(B[i])
        BY <1>1, <3>1, <4>1, <4>2, Connected DEF Servers
      <4>4. s \in Validators
        BY <2>2, <2>3, <3>3
      <4> QED BY <1>0, <1>5, <2>3, <4>3, <4>4 DEF Unmixed
    <3> QED BY <2>2, <3>2, <3>3
  <2> HIDE DEF B
  <2> QED BY <1>1, <1>2, <1>3, <2>1, <2>2, <2>3 DEF Unmixed
<1> QED BY <1>4, <1>5

LEMMA FStep == NInv /\ FInv /\ [Next]_vars => FInv'
<1> SUFFICES ASSUME NInv, FInv, [Next]_vars, NobodyGaveUp', NEW ph \in PhaseSet
             PROVE  Unmixed(ph)'
  BY DEF FInv
<1>1. NobodyGaveUp /\ Unmixed(ph)
  BY GaveUpStays DEF FInv
<1>2. first \in Proposers /\ Listens(first, ph) /\ Proposers \subseteq Servers
  BY ConstantFacts DEF NInv, ListenInv, Servers
<1>3. \A v \in Validators : conn[first][ph][v] # "none" => conn'[first][ph][v] # "none"
  BY <1>2, ConnStep DEF Servers
<1>4. ASSUME UNCHANGED <<backlog, conn>>,
             vListener'[first][ph] \in {"none", "open"} => vListener[first][ph] \in {"none", "open"},
             \A q \in Proposers : Past(q)' => Past(q)
      PROVE  Unmixed(ph)'
  <2>1. Accepted(first, ph, "validator")' = Accepted(first, ph, "validator")
    BY <1>4 DEF Accepted
  <2> QED BY <1>1, <1>3, <1>4, <2>1, SameUnmixed
<1>5. ASSUME NEW p \in Proposers, NEW h \in PhaseSet, ~(p = first /\ h = ph),
             ListenerStep(p, h)
      PROVE  Unmixed(ph)'
  <2>1. pc' = pc /\ \A q \in Proposers : Past(q)' <=> Past(q)
    BY <1>5 DEF ListenerStep, OpenForValidators, AcceptValidator, CloseTCPListener,
                OpenForProposers, AcceptProposer, Past
  <2>2. /\ vListener'[first][ph] = vListener[first][ph]
        /\ backlog'[first][ph] = backlog[first][ph]
    <3>1. vListener'[first][ph] = vListener[first][ph]
      <4>1. \/ vListener' = vListener
            \/ \E l \in {"open", "closing", "closed"} :
                  vListener' = [vListener EXCEPT ![p][h] = l]
        BY <1>5 DEF ListenerStep, OpenForValidators, AcceptValidator, CloseTCPListener,
                    OpenForProposers, AcceptProposer
      <4>2. vListener \in [Proposers -> [PhaseSet -> {"none", "open", "closing", "closed"}]]
        BY DEF NInv, TypeOK
      <4>3. ASSUME NEW l, vListener' = [vListener EXCEPT ![p][h] = l]
            PROVE  vListener'[first][ph] = vListener[first][ph]
        BY <1>2, <1>5, <4>2, <4>3
      <4> QED BY <4>1, <4>3
    <3>2. backlog'[first][ph] = backlog[first][ph]
      <4>1. \/ backlog' = backlog
            \/ \E b \in {Tail(backlog[p][h]), << >>} :
                  backlog' = [backlog EXCEPT ![p][h] = b]
        BY <1>5 DEF ListenerStep, OpenForValidators, AcceptValidator, CloseTCPListener,
                    OpenForProposers, AcceptProposer, Accept
      <4>2. backlog \in [Proposers -> [PhaseSet -> Seq(Servers)]]
        BY DEF NInv, TypeOK
      <4>3. ASSUME NEW b, backlog' = [backlog EXCEPT ![p][h] = b]
            PROVE  backlog'[first][ph] = backlog[first][ph]
        BY <1>2, <1>5, <4>2, <4>3
      <4> QED BY <4>1, <4>3
    <3> QED BY <3>1, <3>2
  <2>3. \A s \in Servers : conn'[first][ph][s] = conn[first][ph][s]
    <3>1. ASSUME NEW kind \in {"validator", "proposer"}, Accept(p, h, kind), NEW s \in Servers
          PROVE  conn'[first][ph][s] = conn[first][ph][s]
      BY <1>2, <1>5, <3>1, AcceptEffect DEF Takes
    <3>2. ASSUME CloseTCPListener(p, h), NEW s \in Servers
          PROVE  conn'[first][ph][s] = conn[first][ph][s]
      BY <1>2, <1>5, <3>2 DEF CloseTCPListener, NInv, TypeOK
    <3> QED BY <1>5, <3>1, <3>2
            DEF ListenerStep, AcceptValidator, AcceptProposer, OpenForValidators, OpenForProposers
  <2>4. Accepted(first, ph, "validator")' = Accepted(first, ph, "validator")
    BY <2>3, SameAccepted
  <2> QED BY <1>1, <1>3, <2>1, <2>2, <2>4, SameUnmixed
<1>6. ASSUME ListenerStep(first, ph)
      PROVE  Unmixed(ph)'
  <2>1. CASE OpenForValidators(first, ph)
    BY <1>4, <2>1 DEF OpenForValidators, Past
  <2>2. CASE AcceptValidator(first, ph)
    BY <1>1, <2>2, AcceptUnmixed
  <2>3. CASE CloseTCPListener(first, ph)
    <3>1. /\ vListener'[first][ph] = "closed"
          /\ conn'[first][ph] = Reset(first, ph) /\ backlog'[first][ph] = << >>
      BY <1>2, <2>3 DEF CloseTCPListener, NInv, TypeOK
    <3>2. Accepted(first, ph, "validator")' = Accepted(first, ph, "validator")
      BY <1>2, <3>1, ResetEffect
    <3> QED BY <1>1, <3>1, <3>2, ClosedUnmixed
  <2>4. CASE OpenForProposers(first, ph)
    BY <1>4, <2>4 DEF OpenForProposers, Past
  <2>5. CASE AcceptProposer(first, ph)
    <3>1. PICK s \in Servers \ {first} : Takes(first, ph, "proposer", s)
      BY <1>2, <2>5, AcceptEffect DEF AcceptProposer
    <3>2. Accepted(first, ph, "validator")' = Accepted(first, ph, "validator")
      BY <3>1 DEF Takes
    <3>3. vListener'[first][ph] = "closed"
      BY <1>2, <2>5 DEF AcceptProposer, Listens
    <3> QED BY <1>1, <3>2, <3>3, ClosedUnmixed
  <2> QED BY <1>6, <2>1, <2>2, <2>3, <2>4, <2>5 DEF ListenerStep
<1>7. ASSUME NEW s \in Servers, Past(s), End(s)
      PROVE  Unmixed(ph)'
  <2>1. CASE s = first
    <3>1. /\ vListener'[first][ph] = vListener[first][ph]
          /\ conn'[first][ph] = Reset(first, ph) /\ backlog'[first][ph] = << >>
      BY <1>2, <1>7, <2>1 DEF End, NInv, TypeOK, listenVars
    <3>2. Accepted(first, ph, "validator")' = Accepted(first, ph, "validator")
      BY <1>2, <3>1, ResetEffect
    <3> QED BY <1>1, <1>2, <1>7, <2>1, <3>1, <3>2, ClosedUnmixed DEF Listens
  <2>2. CASE s # first
    <3>1. /\ vListener' = vListener
          /\ conn'[first] = conn[first] /\ backlog'[first] = backlog[first]
      BY <1>2, <1>7, <2>2 DEF End, NInv, TypeOK, listenVars
    <3>2. \A q \in Proposers : Past(q)' => Past(q)
      BY <1>2, <1>7 DEF End, NInv, TypeOK, Past
    <3>3. Accepted(first, ph, "validator")' = Accepted(first, ph, "validator")
      BY <3>1, SameAccepted
    <3> QED BY <1>1, <1>3, <3>1, <3>2, <3>3, SameUnmixed
  <2> QED BY <2>1, <2>2
<1>8. ASSUME NEW s \in Servers, StartServer(s) PROVE Unmixed(ph)'
  <2>1. \A q \in Proposers : Past(q)' => Past(q)
    BY <1>2, <1>8 DEF StartServer, Past, NInv, TypeOK
  <2> QED BY <1>4, <1>8, <2>1 DEF StartServer
<1>9. ASSUME NEW s \in Servers, Refused(s) PROVE Unmixed(ph)'
  BY <1>4, <1>9 DEF Refused, Past, listenVars
<1>10. ASSUME Later PROVE Unmixed(ph)'
  <2>1. UNCHANGED <<backlog, conn, vListener>>
    BY <1>10 DEF Later, Received, SetStartTime, HandleProposerTIMEConns, ReceiveTime,
                 listenVars, vars
  <2>2. \A q \in Proposers : Past(q)' => Past(q)
    BY <1>2, <1>10 DEF Later, Received, SetStartTime, HandleProposerTIMEConns, ReceiveTime,
                 vars, Past, NInv, TypeOK
  <2> QED BY <1>4, <2>1, <2>2
<1> QED BY <1>1, <1>5, <1>6, <1>7, <1>8, <1>9, <1>10, StepCases, DialUnmixed,
           ValidatorsDoneUnmixed

LEMMA FInvComplete == FInv => FirstProposerComplete
BY DEF FInv, Unmixed, NobodyGaveUp, FirstProposerComplete, Miscounted, first

(* The first proposer of the list takes no other proposer for a validator  *)
(* unless somebody gave up dialling it, whatever order the servers are     *)
(* started in: whoever dials it as a proposer has waited for validators    *)
(* that dialled it before, and the backlogs are queues.                    *)
THEOREM FirstIsComplete == Spec => []FirstProposerComplete
<1>1. Init => NInv /\ FInv
  BY InitNInv, InitFInv
<1>2. NInv /\ FInv /\ [Next]_vars => (NInv /\ FInv)'
  BY NextNInv, FStep
<1>3. Spec => [](NInv /\ FInv)
  BY <1>1, <1>2, PTL DEF Spec
<1> QED BY <1>3, FInvComplete, PTL
=============================================================================
