-------------------------------- MODULE Detours --------------------------------
(***************************************************************************)
(* Start-up composed with what the connections are then used for when the  *)
(* validators move: one block of the main proposer on its way to each      *)
(* validator and the share on its way back, each over whichever proposer   *)
(* is in radio range (EvaluateComPossibilityFlag).                         *)
(*                                                                         *)
(*   main --entry--> validator            in range of main                 *)
(*   main --entry--> proposer ... --entry--> validator      a detour       *)
(*   validator --reply--> proposer --reply--> main                         *)
(*                                                                         *)
(* Proposers are wired to each other.  Between them a message travels in a *)
(* BetweenProposerMsg.  What a server does with it depends on which accept *)
(* loop took the connection: a handler for validators cannot decode what   *)
(* a proposer sends, and the other way round.                              *)
(*                                                                         *)
(* The contacts are a trace that is looked up with the time of the moment. *)
(* The 100 s that a proposer waits before ordering (InitialSyncBufferTime) *)
(* are long enough for start-up to have come to rest.                      *)
(***************************************************************************)
EXTENDS Startup

CONSTANTS OPB,               \* the phase the shares are sent back in
          Contacts,          \* Contacts[t][v]: proposers in range of v at t
          AllowBypassRoute,  \* -abr
          MaxLag             \* bound: how old a looked up time key may be

MaxTime == Len(Contacts)

ASSUME DetoursAssumption ==
    /\ OPB \in PhaseSet
    /\ Contacts \in Seq([Validators -> Seq(Proposers)]) /\ Contacts # << >>
    /\ AllowBypassRoute \in BOOLEAN
    /\ MaxLag \in Nat

VARIABLES time,      \* the time of the trace
          unsent,    \* validators the block was not broadcast to yet
          transit,   \* messages in the connections
          handled    \* replies the main proposer has taken, in order

detourVars == <<time, unsent, transit, handled>>
allVars == <<vars, detourVars>>

Transit == [kind : {"entry", "reply"}, validator : Validators, wrapped : BOOLEAN,
            from : Servers, to : Servers]

DetoursTypeOK ==
    /\ TypeOK
    /\ time \in 1 .. MaxTime + MaxLag
    /\ unsent \subseteq Validators
    /\ transit \subseteq Transit
    /\ handled \in Seq([share : Validators, sender : Servers])

DetoursInit ==
    /\ Init
    /\ time = 1
    /\ unsent = Validators
    /\ transit = {}
    /\ handled = << >>

Main == MainProposerId

(* getNowTimeKey: the servers' clocks and start times differ a little.     *)
(* After the last entry of the trace nothing moves any more.               *)
TimeKeys == {IF t > MaxTime THEN MaxTime ELSE t :
                t \in {time - lag : lag \in 0 .. MaxLag} \cap (1 .. MaxTime + MaxLag)}

InRange(v, t) == ToSet(Contacts[t][v])

(* The proposer a detour to or from v goes over: the first in range. *)
Detour(v, t) ==
    {x \in ToSet(Contacts[t][v]) : AllowBypassRoute /\ x = Head(Contacts[t][v])}

(* Mutant: only the main proposer looks for detours. *)
Mut_CheckComPathToValidator(p, v, t) ==
    IF p \in InRange(v, t) THEN {v} ELSE IF p = Main THEN Detour(v, t) ELSE {}

(* checkComPathToValidator on proposer p: the next node, if there is one. *)
CheckComPathToValidator(p, v, t) == IF p \in InRange(v, t) THEN {v} ELSE Detour(v, t)

Item(kind, v, wrapped, from, to) ==
    [kind |-> kind, validator |-> v, wrapped |-> wrapped, from |-> from, to |-> to]

(* The write of broadcastToBoothWithComCheck and relayBetweenProposerMessage *)
(* that follows: none if the next node is not registered.                  *)
TowardsValidator(p, v, t) ==
    {Item("entry", v, q # v, p, q) :
        q \in {x \in CheckComPathToValidator(p, v, t) : Registered(p, OPA, x)}}

(* broadcastToBoothWithComCheck, one turn of its loop. *)
SendEntry(v) ==
    /\ pc[Main] = "started"
    /\ ~ENABLED Progress
    /\ v \in unsent
    /\ unsent' = unsent \ {v}
    /\ \E t \in TimeKeys : transit' = transit \cup TowardsValidator(Main, v, t)
    /\ UNCHANGED <<vars, time, handled>>

(* relayBetweenProposerMessage.  A proposer that has not got as far as     *)
(* loading the trace has nobody in range.                                  *)
RelayEntry(m) ==
    /\ m.kind = "entry" /\ m.wrapped
    /\ Receiving(m.to)
    /\ \E t \in TimeKeys :
          transit' = (transit \ {m}) \cup
                        (IF pc[m.to] = "started" THEN TowardsValidator(m.to, m.validator, t)
                                                 ELSE {})
    /\ UNCHANGED <<vars, time, unsent, handled>>

(* checkComPathToProposer and dialSendBackWithComCheck: if the block's     *)
(* proposer is in range, the reply takes the connection the entry came on, *)
(* whosever it is; otherwise that to the first proposer in range.          *)
TowardsProposer(v, from, t) ==
    LET nextNode == IF Main \in InRange(v, t) THEN {from} ELSE Detour(v, t)
    IN  {Item("reply", v, FALSE, v, q) : q \in {x \in nextNode : Registered(x, OPB, v)}}

(* receivingOADialMessages and validatingOAEntry. *)
AnswerEntry(m) ==
    /\ m.kind = "entry" /\ ~m.wrapped
    /\ Receiving(m.to)
    /\ \E t \in TimeKeys :
          transit' = (transit \ {m}) \cup TowardsProposer(m.validator, m.from, t)
    /\ UNCHANGED <<vars, time, unsent, handled>>

(* Which handler reads the connection, by who was accepted. *)
Handler(p, s) == conn[p][OPB][s]

Handled(v, sender) == handled' = Append(handled, [share |-> v, sender |-> sender])

(* handleOPBConns on the main proposer. *)
HandleReply(m) ==
    /\ m.kind = "reply" /\ ~m.wrapped
    /\ m.to = Main /\ Alive(Main)
    /\ Handler(Main, m.validator) = "validator"
    /\ transit' = transit \ {m}
    /\ Handled(m.validator, m.from)
    /\ UNCHANGED <<vars, time, unsent>>

(* handleOPBConns on another proposer: the reply is handed on, with the    *)
(* validator the connection belongs to as its sender.                      *)
HandOnReply(m) ==
    /\ m.kind = "reply" /\ ~m.wrapped
    /\ m.to # Main /\ Alive(m.to)
    /\ Handler(m.to, m.validator) = "validator"
    /\ transit' = (transit \ {m}) \cup
                    {Item("reply", m.validator, TRUE, m.to, q) :
                        q \in {x \in {Main} : Registered(x, OPB, m.to)}}
    /\ UNCHANGED <<vars, time, unsent, handled>>

(* Mutant: the connection's own server is taken for the sender. *)
Mut_HandleProposerReply(m) ==
    /\ m.kind = "reply" /\ m.wrapped
    /\ Alive(Main)
    /\ Handler(Main, m.from) = "proposer"
    /\ transit' = transit \ {m}
    /\ Handled(m.validator, m.from)
    /\ UNCHANGED <<vars, time, unsent>>

(* handleProposerOPBConns: the sender is the one named in the message. *)
HandleProposerReply(m) ==
    /\ m.kind = "reply" /\ m.wrapped
    /\ Alive(Main)
    /\ Handler(Main, m.from) = "proposer"
    /\ transit' = transit \ {m}
    /\ Handled(m.validator, m.validator)
    /\ UNCHANGED <<vars, time, unsent>>

(* The handler of the connection expects the other type of message. *)
DecodeFails(m) ==
    /\ m.kind = "reply"
    /\ Alive(m.to)
    /\ Handler(m.to, m.from) = IF m.wrapped THEN "validator" ELSE "proposer"
    /\ transit' = transit \ {m}
    /\ UNCHANGED <<vars, time, unsent, handled>>

(* The vehicles move. *)
Tick ==
    /\ pc[Main] = "started"
    /\ ~ENABLED Progress
    /\ time < MaxTime + MaxLag
    /\ time' = time + 1
    /\ UNCHANGED <<vars, unsent, transit, handled>>

Deliver(m) ==
    \/ RelayEntry(m)
    \/ AnswerEntry(m)
    \/ HandleReply(m)
    \/ HandOnReply(m)
    \/ HandleProposerReply(m)
    \/ DecodeFails(m)

DetoursNext ==
    \/ Next /\ UNCHANGED detourVars
    \/ \E v \in Validators : SendEntry(v)
    \/ \E m \in transit : Deliver(m)
    \/ Tick

DetoursSpec == DetoursInit /\ [][DetoursNext]_allVars

(* The servers are all started, while a goroutine can go on one does, and  *)
(* time passes.  That is enough, because nothing goes on for ever: dials   *)
(* are numbered, attempts counted, connections accepted once, and messages *)
(* are only passed to and fro while the vehicles move.                     *)
DetoursFairSpec ==
    /\ DetoursSpec
    /\ WF_allVars(\/ Progress /\ UNCHANGED detourVars
                  \/ \E v \in Validators : SendEntry(v)
                  \/ \E m \in transit : Deliver(m))
    /\ WF_allVars(Tick)

-----------------------------------------------------------------------------
(* A share reaches asyncHandleOBReply at most once and as its signer's,    *)
(* whatever way it has come: the signature count relies on it.             *)
SharesCreditedOnce ==
    /\ \A n \in 1 .. Len(handled) : handled[n].sender = handled[n].share
    /\ IsInjective(handled)

(* A validator that is always in range of some proposer gets its share to  *)
(* the main proposer, however it moves while messages are under way, if    *)
(* all connections were set up as they should (and the main proposer does  *)
(* not end before).                                                        *)
DetoursDeliver ==
    <>(\/ Excuse
       \/ pc[Main] = "ended"
       \/ \A v \in Validators :
             AllowBypassRoute /\ (\A t \in 1 .. MaxTime : Contacts[t][v] # << >>) =>
                 v \in {handled[n].share : n \in 1 .. Len(handled)})
=============================================================================
