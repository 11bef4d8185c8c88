----------------------------- MODULE ShareLemmas -----------------------------
(***************************************************************************)
(* Facts about the slices in which the proposer collects signature shares  *)
(* (blockSnapshot.sigs and vgTxMeta.sigs): sequences of signers, extended  *)
(* by append, that count as a quorum when they reach the threshold.        *)
(***************************************************************************)
EXTENDS Quorums, FiniteSetTheorems, TLAPS

(* append adds its argument to the signers, and nothing else. *)
LEMMA RangeAppend ==
    ASSUME NEW S, NEW s \in Seq(S), NEW x \in S
    PROVE  /\ Append(s, x) \in Seq(S)
           /\ Len(Append(s, x)) = Len(s) + 1
           /\ Range(Append(s, x)) = Range(s) \cup {x}
<1>1. /\ Append(s, x) \in Seq(S)
      /\ Len(Append(s, x)) = Len(s) + 1
      /\ DOMAIN s = 1 .. Len(s) /\ Len(s) \in Nat
      /\ DOMAIN Append(s, x) = 1 .. Len(s) + 1
      /\ \A i \in 1 .. Len(s) : Append(s, x)[i] = s[i]
      /\ Append(s, x)[Len(s) + 1] = x
  OBVIOUS
<1>2. ASSUME NEW y \in Range(Append(s, x))
      PROVE  y \in Range(s) \cup {x}
  BY <1>1 DEF Range
<1>3. ASSUME NEW y \in Range(s) \cup {x}
      PROVE  y \in Range(Append(s, x))
  <2>1. CASE y = x
    BY <1>1, <2>1 DEF Range
  <2>2. CASE y \in Range(s)
    BY <1>1, <2>2 DEF Range
  <2> QED BY <1>3, <2>1, <2>2
<1> QED BY <1>1, <1>2, <1>3

(* A signer that is not in the slice yet keeps the signers distinct. *)
LEMMA AppendInjective ==
    ASSUME NEW S, NEW s \in Seq(S), NEW x \in S,
           IsInjective(s), x \notin Range(s)
    PROVE  IsInjective(Append(s, x))
<1>1. /\ DOMAIN s = 1 .. Len(s) /\ Len(s) \in Nat
      /\ DOMAIN Append(s, x) = 1 .. Len(s) + 1
      /\ \A i \in 1 .. Len(s) : Append(s, x)[i] = s[i]
      /\ Append(s, x)[Len(s) + 1] = x
  OBVIOUS
<1>2. \A i \in 1 .. Len(s) : s[i] # x
  BY <1>1 DEF Range
<1> QED BY <1>1, <1>2 DEF IsInjective

(* Distinct signers: the length of the slice is the number of signers. *)
LEMMA InjectiveCardinality ==
    ASSUME NEW S, NEW s \in Seq(S), IsInjective(s)
    PROVE  /\ IsFiniteSet(Range(s))
           /\ Cardinality(Range(s)) = Len(s)
<1> DEFINE D == 1 .. Len(s)
<1>1. /\ Len(s) \in Nat
      /\ DOMAIN s = D
      /\ s \in [D -> Range(s)]
  BY DEF Range
<1>2. s \in Bijection(D, Range(s))
  BY <1>1 DEF Bijection, Injection, Surjection, IsInjective, Range
<1>3. IsFiniteSet(D) /\ Cardinality(D) = Len(s)
  BY <1>1, FS_Interval
<1>4. ExistsBijection(D, Range(s))
  BY <1>2 DEF ExistsBijection
<1> QED BY <1>3, <1>4, FS_Bijection

(* A booth is the proposer and three validators or more. *)
LEMMA BoothSize ==
    ASSUME NEW B, IsBooth(B)
    PROVE  /\ IsFiniteSet(B) /\ IsFiniteSet(Members(B))
           /\ Cardinality(Members(B)) \in Nat /\ Cardinality(Members(B)) > 2
           /\ Cardinality(B) = Cardinality(Members(B)) + 1
<1>1. IsFiniteSet(Members(B))
  BY ServersAssumption, FS_Subset DEF IsBooth
<1>2. B = Members(B) \cup {Proposer} /\ Proposer \notin Members(B)
  BY DEF IsBooth, Members
<1>3. /\ IsFiniteSet(B)
      /\ Cardinality(B) = Cardinality(Members(B)) + 1
  BY <1>1, <1>2, FS_AddElement
<1>4. Cardinality(Members(B)) \in Nat /\ Cardinality(Members(B)) > 2
  BY <1>1, FS_CardinalityType DEF IsBooth
<1> QED BY <1>1, <1>3, <1>4

(* A booth is finite and its threshold is a number: two thirds of at least *)
(* four members, rounded down by Go's division, is two or more.            *)
LEMMA ThresholdType ==
    ASSUME NEW B, IsBooth(B)
    PROVE  /\ IsFiniteSet(B)
           /\ Threshold(B) \in Nat
           /\ Threshold(B) >= 2
BY BoothSize DEF Threshold, getThreshold

(* Two thirds, rounded down, of a booth's servers, asked of the validators *)
(* among them only: any two such quorums have a signer in common, but for  *)
(* the booth of five, where two of the four validators are enough.         *)
THEOREM QuorumsIntersect ==
    ASSUME NEW B, IsBooth(B), Cardinality(B) # 5,
           NEW Q1 \in SUBSET Members(B), Cardinality(Q1) >= Threshold(B),
           NEW Q2 \in SUBSET Members(B), Cardinality(Q2) >= Threshold(B)
    PROVE  Q1 \cap Q2 # {}
<1> DEFINE both == Q1 \cup Q2
<1>1. IsFiniteSet(Members(B))
  BY BoothSize
<1>2. /\ IsFiniteSet(Q1) /\ IsFiniteSet(Q2)
      /\ Cardinality(Q1) \in Nat /\ Cardinality(Q2) \in Nat
      /\ Cardinality(both) \in Nat
      /\ Cardinality(both) <= Cardinality(Members(B))
  BY <1>1, FS_Subset, FS_CardinalityType
<1>3. Cardinality(both) = Cardinality(Q1) + Cardinality(Q2) - Cardinality(Q1 \cap Q2)
  BY <1>2, FS_Union
<1>4. 2 * Threshold(B) > Cardinality(Members(B)) /\ Threshold(B) \in Nat
  BY BoothSize, ThresholdType DEF Threshold, getThreshold
<1>5. SUFFICES ASSUME Q1 \cap Q2 = {} PROVE FALSE
  OBVIOUS
<1>6. Cardinality(Q1 \cap Q2) = 0
  BY <1>5, FS_EmptySet
<1>7. Cardinality(Members(B)) \in Nat
  BY BoothSize
<1> HIDE DEF both
<1> QED BY <1>2, <1>3, <1>4, <1>6, <1>7

(* A third of a booth's servers, f of 3f + 1, may miss the message (as a   *)
(* comment in validatingOBEntry has it): the threshold is reached without  *)
(* them.                                                                   *)
THEOREM ThresholdReachable ==
    ASSUME NEW B, IsBooth(B)
    PROVE  Threshold(B) <= Cardinality(Members(B)) - (Cardinality(B) - 1) \div 3
BY BoothSize DEF Threshold, getThreshold
=============================================================================
