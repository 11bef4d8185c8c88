----------------------------- MODULE DetoursProofs -----------------------------
(***************************************************************************)
(* A share is credited once and to its signer, for any proposers,          *)
(* validators and traces, whatever has gone wrong at start-up: at most one *)
(* message about a validator is under way, because every hop passes a      *)
(* message to at most one next node and keeps no copy.                     *)
(*                                                                         *)
(* What is proved of start-up holds here too: a hop changes none of its    *)
(* variables.                                                              *)
(***************************************************************************)
EXTENDS Detours, StartupProofs

Credit == [share : Validators, sender : Validators]

Shares == {handled[n].share : n \in 1 .. Len(handled)}

(* A share that was not handed on yet is in its signer's connection. *)
SignedBySender(S) == \A m \in S : m.kind = "reply" /\ ~m.wrapped => m.from = m.validator

(* Each validator's entry is unsent, under way once (as entry or share),   *)
(* credited once, or gone.                                                 *)
DInv ==
    /\ handled \in Seq(Credit)
    /\ unsent \subseteq Validators
    /\ \A m \in transit : m.validator \in Validators \ (unsent \cup Shares)
    /\ \A m, n \in transit : m.validator = n.validator => m = n
    /\ SignedBySender(transit)
    /\ unsent \cap Shares = {}
    /\ SharesCreditedOnce

(* What a hop may put into the connections in the place of a message about *)
(* v: at most one message, about v.                                        *)
OneHop(v, S) ==
    /\ \A m \in S : m.validator = v
    /\ \A m, n \in S : m = n
    /\ SignedBySender(S)

-----------------------------------------------------------------------------
(* checkComPathToValidator answers with one node. *)
LEMMA EntryHop ==
    ASSUME NEW p, NEW v, NEW t
    PROVE  OneHop(v, TowardsValidator(p, v, t))
<1>1. \A x, y \in CheckComPathToValidator(p, v, t) : x = y
  BY DEF CheckComPathToValidator, Detour
<1> QED BY <1>1 DEF OneHop, SignedBySender, TowardsValidator, Item

(* So does checkComPathToProposer, and the validator sends from itself. *)
LEMMA ReplyHop ==
    ASSUME NEW v, NEW from, NEW t
    PROVE  OneHop(v, TowardsProposer(v, from, t))
<1> DEFINE nextNode == IF Main \in InRange(v, t) THEN {from} ELSE Detour(v, t)
<1>1. \A x, y \in nextNode : x = y
  BY DEF Detour
<1>2. TowardsProposer(v, from, t) =
        {Item("reply", v, FALSE, v, q) : q \in {x \in nextNode : Registered(x, OPB, v)}}
  BY DEF TowardsProposer
<1> DEFINE S == TowardsProposer(v, from, t)
<1>3. \A m \in S : \E q \in nextNode : m = Item("reply", v, FALSE, v, q)
  BY <1>2
<1> HIDE DEF nextNode, S
<1>4. \A m \in S : m.validator = v /\ m.from = v
  BY <1>3 DEF Item
<1>5. \A m, n \in S : m = n
  BY <1>1, <1>3
<1>6. OneHop(v, S)
  BY <1>4, <1>5 DEF OneHop, SignedBySender
<1> QED BY <1>6 DEF S

(* A hop leaves every validator's share where it was, or brings it nearer. *)
LEMMA HopDInv ==
    ASSUME DInv, NEW m \in transit, NEW S, OneHop(m.validator, S),
           transit' = (transit \ {m}) \cup S,
           UNCHANGED <<unsent, handled>>
    PROVE  DInv'
<1>1. \A n \in transit' : n.validator \in Validators \ (unsent \cup Shares)
  BY DEF DInv, OneHop
<1>2. \A n, o \in transit' : n.validator = o.validator => n = o
  BY DEF DInv, OneHop
<1>3. SignedBySender(transit')
  BY DEF DInv, OneHop, SignedBySender
<1>4. Shares' = Shares /\ SharesCreditedOnce'
  BY DEF DInv, Shares, SharesCreditedOnce
<1> QED BY <1>1, <1>2, <1>3, <1>4 DEF DInv, SignedBySender

(* A share that is taken is nowhere else, neither before nor after. *)
LEMMA CreditDInv ==
    ASSUME DInv, NEW m \in transit,
           transit' = transit \ {m},
           Handled(m.validator, m.validator),
           UNCHANGED unsent
    PROVE  DInv'
<1> DEFINE v == m.validator
           credit == [share |-> v, sender |-> v]
<1>1. v \in Validators /\ v \notin unsent /\ v \notin Shares
  BY DEF DInv
<1>2. /\ handled \in Seq(Credit) /\ credit \in Credit /\ Len(handled) \in Nat
      /\ handled' = Append(handled, credit)
  BY <1>1 DEF DInv, Credit, Handled
<1>3. /\ handled' \in Seq(Credit) /\ Len(handled') = Len(handled) + 1
      /\ \A n \in 1 .. Len(handled) : handled'[n] = handled[n]
      /\ handled'[Len(handled) + 1] = credit
      /\ DOMAIN handled = 1 .. Len(handled)
      /\ DOMAIN handled' = 1 .. Len(handled) + 1
  BY <1>2
<1>4. Shares' = Shares \cup {v}
  <2>1. \A n \in 1 .. Len(handled) + 1 :
          handled'[n].share = IF n = Len(handled) + 1 THEN v ELSE handled[n].share
    BY <1>2, <1>3
  <2> QED BY <1>2, <1>3, <2>1 DEF Shares
<1>5. SharesCreditedOnce'
  <2>1. \A n \in 1 .. Len(handled') : handled'[n].sender = handled'[n].share
    BY <1>2, <1>3 DEF DInv, SharesCreditedOnce
  <2>2. \A n \in 1 .. Len(handled) : handled[n] # credit
    BY <1>1 DEF Shares
  <2>3. IsInjective(handled')
    BY <1>2, <1>3, <2>2 DEF DInv, SharesCreditedOnce, IsInjective
  <2> QED BY <2>1, <2>3 DEF SharesCreditedOnce
<1>6. \A n \in transit' : n.validator \in Validators \ (unsent' \cup Shares')
  BY <1>4 DEF DInv
<1>7. SignedBySender(transit') /\ \A n, o \in transit' : n.validator = o.validator => n = o
  BY DEF DInv, SignedBySender
<1> QED BY <1>1, <1>3, <1>4, <1>5, <1>6, <1>7 DEF DInv, SignedBySender

(* The broadcast sends each validator one entry. *)
LEMMA SendDInv ==
    ASSUME DInv, NEW v \in Validators, SendEntry(v)
    PROVE  DInv'
<1>1. PICK t : transit' = transit \cup TowardsValidator(Main, v, t)
  BY DEF SendEntry
<1>2. v \in unsent /\ unsent' = unsent \ {v} /\ handled' = handled
  BY DEF SendEntry
<1>3. OneHop(v, TowardsValidator(Main, v, t))
  BY EntryHop
<1>4. Shares' = Shares /\ SharesCreditedOnce'
  BY <1>2 DEF DInv, Shares, SharesCreditedOnce
<1>5. \A n \in transit' : n.validator \in Validators \ (unsent' \cup Shares)
  BY <1>1, <1>2, <1>3 DEF DInv, OneHop
<1>6. \A n, o \in transit' : n.validator = o.validator => n = o
  BY <1>1, <1>2, <1>3 DEF DInv, OneHop
<1>7. SignedBySender(transit')
  BY <1>1, <1>3 DEF DInv, OneHop, SignedBySender
<1> QED BY <1>2, <1>4, <1>5, <1>6, <1>7 DEF DInv, SignedBySender

LEMMA DeliverDInv ==
    ASSUME DInv, NEW m \in transit, Deliver(m)
    PROVE  DInv'
<1>1. CASE RelayEntry(m)
  <2>1. PICK t : transit' = (transit \ {m}) \cup
                   (IF pc[m.to] = "started" THEN TowardsValidator(m.to, m.validator, t)
                                            ELSE {})
    BY <1>1 DEF RelayEntry
  <2>2. OneHop(m.validator, TowardsValidator(m.to, m.validator, t)) /\ OneHop(m.validator, {})
    BY EntryHop DEF OneHop, SignedBySender
  <2>3. UNCHANGED <<unsent, handled>>
    BY <1>1 DEF RelayEntry
  <2>4. CASE pc[m.to] = "started"
    BY <2>1, <2>2, <2>3, <2>4, HopDInv
  <2>5. CASE pc[m.to] # "started"
    BY <2>1, <2>2, <2>3, <2>5, HopDInv
  <2> QED BY <2>4, <2>5
<1>2. CASE AnswerEntry(m)
  <2>1. PICK t : transit' = (transit \ {m}) \cup TowardsProposer(m.validator, m.from, t)
    BY <1>2 DEF AnswerEntry
  <2>2. UNCHANGED <<unsent, handled>>
    BY <1>2 DEF AnswerEntry
  <2> QED BY <2>1, <2>2, ReplyHop, HopDInv
<1>3. CASE HandleReply(m)
  BY <1>3, CreditDInv DEF HandleReply, DInv, SignedBySender
<1>4. CASE HandOnReply(m)
  <2> DEFINE S == {Item("reply", m.validator, TRUE, m.to, q) :
                     q \in {x \in {Main} : Registered(x, OPB, m.to)}}
  <2>1. OneHop(m.validator, S)
    <3>1. \A n \in S : n = Item("reply", m.validator, TRUE, m.to, Main)
      OBVIOUS
    <3> HIDE DEF S
    <3>2. \A n \in S : n.validator = m.validator /\ n.wrapped = TRUE
      BY <3>1 DEF Item
    <3>3. \A n, o \in S : n = o
      BY <3>1
    <3> QED BY <3>2, <3>3 DEF OneHop, SignedBySender
  <2>2. transit' = (transit \ {m}) \cup S /\ UNCHANGED <<unsent, handled>>
    BY <1>4 DEF HandOnReply
  <2> HIDE DEF S
  <2> QED BY <2>1, <2>2, HopDInv
<1>5. CASE HandleProposerReply(m)
  BY <1>5, CreditDInv DEF HandleProposerReply
<1>6. CASE DecodeFails(m)
  <2>1. transit' = (transit \ {m}) \cup {} /\ UNCHANGED <<unsent, handled>>
    BY <1>6 DEF DecodeFails
  <2>2. OneHop(m.validator, {})
    BY DEF OneHop, SignedBySender
  <2> QED BY <2>1, <2>2, HopDInv
<1> QED BY <1>1, <1>2, <1>3, <1>4, <1>5, <1>6 DEF Deliver

-----------------------------------------------------------------------------
LEMMA InitDInv == DetoursInit => DInv
<1> SUFFICES ASSUME DetoursInit PROVE DInv
  OBVIOUS
<1>1. handled = << >> /\ transit = {} /\ unsent = Validators
  BY DEF DetoursInit
<1>2. Len(handled) = 0 /\ handled \in Seq(Credit) /\ DOMAIN handled = {}
  BY <1>1
<1>3. Shares = {}
  BY <1>2 DEF Shares
<1> QED BY <1>1, <1>2, <1>3 DEF DInv, SignedBySender, SharesCreditedOnce, IsInjective

LEMMA NextDInv == DInv /\ [DetoursNext]_allVars => DInv'
<1> SUFFICES ASSUME DInv, [DetoursNext]_allVars PROVE DInv'
  OBVIOUS
<1>1. ASSUME UNCHANGED <<unsent, transit, handled>> PROVE DInv'
  BY <1>1 DEF DInv, Shares, SignedBySender, SharesCreditedOnce
<1>2. CASE Next /\ UNCHANGED detourVars
  BY <1>1, <1>2 DEF detourVars
<1>3. ASSUME NEW v \in Validators, SendEntry(v) PROVE DInv'
  BY <1>3, SendDInv
<1>4. ASSUME NEW m \in transit, Deliver(m) PROVE DInv'
  BY <1>4, DeliverDInv
<1>5. CASE Tick
  BY <1>1, <1>5 DEF Tick
<1>6. CASE UNCHANGED allVars
  BY <1>1, <1>6 DEF allVars, detourVars
<1> QED BY <1>2, <1>3, <1>4, <1>5, <1>6 DEF DetoursNext

(* The main proposer's count of signatures never takes a share twice, nor  *)
(* a proposer that handed it on for its signer, whatever way it has come.  *)
THEOREM SharesCounted == DetoursSpec => []SharesCreditedOnce
<1>1. DInv => SharesCreditedOnce
  BY DEF DInv
<1> QED BY InitDInv, NextDInv, <1>1, PTL DEF DetoursSpec

-----------------------------------------------------------------------------
(* A look-up is within the trace, and names proposers. *)
LEMMA Lookup ==
    ASSUME NEW t \in TimeKeys, NEW v \in Validators
    PROVE  InRange(v, t) \subseteq Proposers /\ Detour(v, t) \subseteq Proposers
<1>1. MaxTime \in Nat \ {0} /\ MaxLag \in Nat
      /\ Contacts \in Seq([Validators -> Seq(Proposers)])
  BY DetoursAssumption DEF MaxTime
<1>2. PICK u \in 1 .. MaxTime + MaxLag : t = IF u > MaxTime THEN MaxTime ELSE u
  BY DEF TimeKeys
<1>3. t \in 1 .. MaxTime
  BY <1>1, <1>2
<1>4. Contacts[t][v] \in Seq(Proposers)
  BY <1>1, <1>3 DEF MaxTime
<1> QED BY <1>4 DEF InRange, Detour, ToSet

LEMMA EntryType ==
    ASSUME NEW p \in Servers, NEW v \in Validators, NEW t \in TimeKeys
    PROVE  TowardsValidator(p, v, t) \subseteq Transit
<1>1. \A q \in CheckComPathToValidator(p, v, t) : q \in Servers
  BY Lookup DEF CheckComPathToValidator, Servers
<1>2. SUFFICES ASSUME NEW m \in TowardsValidator(p, v, t) PROVE m \in Transit
  OBVIOUS
<1>3. PICK q \in CheckComPathToValidator(p, v, t) : m = Item("entry", v, q # v, p, q)
  BY DEF TowardsValidator
<1> QED BY <1>1, <1>3 DEF Item, Transit

LEMMA ReplyType ==
    ASSUME NEW from \in Servers, NEW v \in Validators, NEW t \in TimeKeys
    PROVE  TowardsProposer(v, from, t) \subseteq Transit
<1> DEFINE nextNode == IF Main \in InRange(v, t) THEN {from} ELSE Detour(v, t)
<1>1. nextNode \subseteq Servers /\ v \in Servers
  BY Lookup DEF Servers
<1>2. TowardsProposer(v, from, t) =
        {Item("reply", v, FALSE, v, q) : q \in {x \in nextNode : Registered(x, OPB, v)}}
  BY DEF TowardsProposer
<1> HIDE DEF nextNode
<1>3. SUFFICES ASSUME NEW m \in TowardsProposer(v, from, t) PROVE m \in Transit
  OBVIOUS
<1>4. PICK q \in nextNode : m = Item("reply", v, FALSE, v, q)
  BY <1>2
<1> QED BY <1>1, <1>4 DEF Item, Transit

(* The steps of start-up are those that the other components leave alone.  *)
LEMMA StartupStep == [DetoursNext]_allVars => [Next]_vars
BY DEF DetoursNext, SendEntry, Deliver, RelayEntry, AnswerEntry, HandleReply, HandOnReply,
       HandleProposerReply, DecodeFails, Tick, allVars

HopTypes ==
    /\ time \in 1 .. MaxTime + MaxLag
    /\ transit \subseteq Transit

LEMMA NextHopTypes ==
    ASSUME HopTypes, DInv, [DetoursNext]_allVars
    PROVE  HopTypes'
<1>1. MaxTime \in Nat /\ MaxLag \in Nat /\ Main \in Servers
  BY DetoursAssumption, StartupAssumption DEF MaxTime, Main, Servers
<1>2. transit \subseteq Transit /\ time \in 1 .. MaxTime + MaxLag
  BY DEF HopTypes
<1>3. ASSUME NEW v \in Validators, SendEntry(v) PROVE HopTypes'
  BY <1>1, <1>2, <1>3, EntryType DEF SendEntry, HopTypes
<1>4. ASSUME NEW m \in transit, Deliver(m) PROVE HopTypes'
  <2>1. m.validator \in Validators /\ m.from \in Servers /\ m.to \in Servers
    BY <1>2 DEF Transit
  <2>2. CASE RelayEntry(m)
    <3>1. PICK t \in TimeKeys :
            transit' = (transit \ {m}) \cup
                         (IF pc[m.to] = "started" THEN TowardsValidator(m.to, m.validator, t)
                                                  ELSE {})
      BY <2>2 DEF RelayEntry
    <3>2. TowardsValidator(m.to, m.validator, t) \subseteq Transit
      BY <2>1, EntryType
    <3>3. transit' \subseteq Transit
      BY <1>2, <3>1, <3>2
    <3> QED BY <1>2, <2>2, <3>3 DEF RelayEntry, HopTypes
  <2>3. CASE AnswerEntry(m)
    BY <1>2, <2>1, <2>3, ReplyType DEF AnswerEntry, HopTypes
  <2>4. CASE HandOnReply(m)
    <3>1. Item("reply", m.validator, TRUE, m.to, Main) \in Transit
      BY <1>1, <2>1 DEF Item, Transit
    <3>2. transit' \subseteq transit \cup {Item("reply", m.validator, TRUE, m.to, Main)}
      BY <2>4 DEF HandOnReply
    <3>3. transit' \subseteq Transit
      BY <1>2, <3>1, <3>2
    <3> QED BY <1>2, <2>4, <3>3 DEF HandOnReply, HopTypes
  <2>5. CASE HandleReply(m) \/ HandleProposerReply(m) \/ DecodeFails(m)
    BY <1>2, <2>5 DEF HandleReply, HandleProposerReply, DecodeFails, HopTypes
  <2> QED BY <1>4, <2>2, <2>3, <2>4, <2>5 DEF Deliver
<1>5. CASE Tick
  BY <1>1, <1>2, <1>5 DEF Tick, HopTypes
<1>6. ASSUME UNCHANGED detourVars PROVE HopTypes'
  BY <1>2, <1>6 DEF detourVars, HopTypes
<1> QED BY <1>3, <1>4, <1>5, <1>6 DEF DetoursNext, allVars

(* A message between servers is always one of the kinds the handlers know, *)
(* about a validator and between servers, and no look-up in the trace is   *)
(* past its end.                                                           *)
THEOREM DetoursTypeCorrect == DetoursSpec => []DetoursTypeOK
<1> DEFINE AllInv == NInv /\ DInv /\ HopTypes
<1>1. DetoursInit => AllInv
  <2>1. DetoursInit => HopTypes
    BY DetoursAssumption DEF DetoursInit, HopTypes, MaxTime
  <2> QED BY <2>1, InitNInv, InitDInv DEF DetoursInit
<1>2. AllInv /\ [DetoursNext]_allVars => AllInv'
  BY StartupStep, NextNInv, NextDInv, NextHopTypes
<1>3. AllInv => DetoursTypeOK
  <2>1. ASSUME DInv PROVE handled \in Seq([share : Validators, sender : Servers])
    <3>1. Credit \subseteq [share : Validators, sender : Servers]
      BY DEF Credit, Servers
    <3>2. PICK n \in Nat : handled \in [1 .. n -> Credit]
      BY <2>1, SeqDef DEF DInv
    <3>3. handled \in [1 .. n -> [share : Validators, sender : Servers]]
      BY <3>1, <3>2
    <3> QED BY <3>3, SeqDef
  <2> QED BY <2>1 DEF DetoursTypeOK, HopTypes, NInv, DInv
<1> HIDE DEF AllInv
<1> QED BY <1>1, <1>2, <1>3, PTL DEF DetoursSpec

(* What is proved of start-up, in the system that goes on from there. *)
THEOREM DetoursTimesAgree == DetoursSpec => []StartTimesAgree
<1>1. DetoursInit => SInv
  BY InitSInv DEF DetoursInit
<1>2. SInv /\ [DetoursNext]_allVars => SInv'
  BY StartupStep, NextSInv
<1> QED BY <1>1, <1>2, SInvTimes, PTL DEF DetoursSpec

(* Likewise: the first proposer takes no other one for a validator. *)
THEOREM DetoursFirstComplete == DetoursSpec => []FirstProposerComplete
<1>1. DetoursInit => NInv /\ FInv
  BY InitNInv, InitFInv DEF DetoursInit
<1>2. NInv /\ FInv /\ [DetoursNext]_allVars => (NInv /\ FInv)'
  BY StartupStep, NextNInv, FStep
<1>3. NInv /\ FInv => FirstProposerComplete
  BY FInvComplete
<1> QED BY <1>1, <1>2, <1>3, PTL DEF DetoursSpec
=============================================================================
