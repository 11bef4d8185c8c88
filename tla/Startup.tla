-------------------------------- MODULE Startup --------------------------------
(***************************************************************************)
(* How the servers find each other, agree on when the simulation starts,   *)
(* and end: runAsProposer and the listeners of connsprop.go, runAsValidator*)
(* and the dials of connsvldr.go, connRegistration of handlers.go, and the *)
(* wait group vgInst of main.go.                                           *)
(*                                                                         *)
(* Every server dials every proposer, one phase after the other.  A        *)
(* proposer first opens one listener per phase for the validators; when    *)
(* the expected number of connections has come in, the listeners are       *)
(* closed, opened again for the other proposers, and the proposer dials    *)
(* these itself.  Listeners count connections, not kinds of servers.       *)
(*                                                                         *)
(* A dial succeeds as soon as somebody listens: the kernel completes it    *)
(* and queues the connection until AcceptTCP takes it.  Closing a listener *)
(* resets what is still queued.  The sleeps (10 s before the proposers     *)
(* dial, 1 s between attempts) order nothing, and are left out; so is      *)
(* broadcastError, which module Ordering has.                              *)
(***************************************************************************)
EXTENDS Integers, Sequences, FiniteSets, SequencesExt

CONSTANTS ProposerList,    \* -pl: the proposers, in the order all dial them
          Validators,      \* the other servers
          MainProposerId,  \* -mainp
          Phases,          \* the phases' names in order, the first is OPA
          TIME,            \* the phase of the time synchronisation
          maxTry,          \* attempts per dial (10 in the code)
          MaxClock,        \* bound: the time at which proposers get ready
          MaxSkew          \* bound: how far clocks are ahead of the slowest

Proposers == ToSet(ProposerList)
Servers == Proposers \cup Validators
PhaseSet == ToSet(Phases)
OPA == Phases[1]
NOP == Len(Phases)

ASSUME StartupAssumption ==
    /\ ProposerList \in Seq(Proposers) /\ Phases \in Seq(PhaseSet)
    /\ IsInjective(ProposerList) /\ IsInjective(Phases)
    /\ Proposers \cap Validators = {} /\ IsFiniteSet(Validators)
    /\ MainProposerId \in Proposers
    /\ TIME \in PhaseSet
    /\ maxTry \in Nat \ {0}
    /\ MaxClock \in Nat /\ MaxSkew \in Nat

VARIABLES
    pc,        \* pc[s]: how far the server's main goroutine is
    dialNo,    \* dialNo[s]: number of the dial under way
    tries,     \* tries[s]: its attempts that were refused
    vListener, \* vListener[p][ph]: acceptValidatorConns
    pListener, \* pListener[p][ph]: acceptProposerConns
    backlog,   \* backlog[p][ph]: servers whose connection is not accepted yet
    conn,      \* conn[p][ph][s]: what became of s's dial
    wg,        \* wg[p]: runAsProposer's wait group
    now,       \* the time
    startTime, \* startTime[s]: simulationStartTime.time
    times      \* TIME messages in the connections

listenVars == <<vListener, pListener, wg>>
timeVars == <<now, startTime, times>>
vars == <<pc, dialNo, tries, backlog, conn, listenVars, timeVars>>

Messages == [from : Proposers, to : Servers, time : 0 .. MaxClock + MaxSkew]

TypeOK ==
    /\ pc \in [Servers -> {"off", "accepting", "dialing", "receiving",
                           "syncing", "started", "ended"}]
    /\ dialNo \in [Servers -> 1 .. Len(ProposerList) * NOP + 1]
    /\ tries \in [Servers -> 0 .. maxTry - 1]
    /\ vListener \in [Proposers -> [PhaseSet -> {"none", "open", "closing", "closed"}]]
    /\ pListener \in [Proposers -> [PhaseSet -> {"none", "starting", "open", "failed"}]]
    /\ backlog \in [Proposers -> [PhaseSet -> Seq(Servers)]]
    /\ conn \in [Proposers -> [PhaseSet -> [Servers ->
                    {"none", "queued", "validator", "proposer", "reset"}]]]
    /\ wg \in [Proposers -> 0 .. NOP]
    /\ now \in 0 .. MaxClock
    /\ startTime \in [Servers -> 0 .. MaxClock + MaxSkew]
    /\ times \subseteq Messages

Init ==
    /\ pc = [s \in Servers |-> "off"]
    /\ dialNo = [s \in Servers |-> 1]
    /\ tries = [s \in Servers |-> 0]
    /\ vListener = [p \in Proposers |-> [ph \in PhaseSet |-> "none"]]
    /\ pListener = [p \in Proposers |-> [ph \in PhaseSet |-> "none"]]
    /\ backlog = [p \in Proposers |-> [ph \in PhaseSet |-> << >>]]
    /\ conn = [p \in Proposers |-> [ph \in PhaseSet |-> [s \in Servers |-> "none"]]]
    /\ wg = [p \in Proposers |-> 0]
    /\ now = 0
    /\ startTime = [s \in Servers |-> 0]
    /\ times = {}

Alive(s) == pc[s] \notin {"off", "ended"}

-----------------------------------------------------------------------------
(* main and takingInitRoles: the server is started by hand, at any time.   *)
(* A proposer's wait group expects one listener per phase.                 *)
StartServer(s) ==
    /\ pc[s] = "off"
    /\ pc' = [pc EXCEPT ![s] = IF s \in Proposers THEN "accepting" ELSE "dialing"]
    /\ wg' = IF s \in Proposers THEN [wg EXCEPT ![s] = NOP] ELSE wg
    /\ UNCHANGED <<dialNo, tries, backlog, conn, vListener, pListener, timeVars>>

Accepted(p, ph, kind) == {s \in Servers : conn[p][ph][s] = kind}

(* The first connection of the backlog is registered in concierge. *)
Accept(p, ph, kind) ==
    /\ backlog[p][ph] # << >>
    /\ backlog' = [backlog EXCEPT ![p][ph] = Tail(@)]
    /\ conn' = [conn EXCEPT ![p][ph][Head(backlog[p][ph])] = kind]

(* acceptValidatorConns: ListenTCP. *)
OpenForValidators(p, ph) ==
    /\ pc[p] = "accepting"
    /\ vListener[p][ph] = "none"
    /\ vListener' = [vListener EXCEPT ![p][ph] = "open"]
    /\ UNCHANGED <<pc, dialNo, tries, backlog, conn, pListener, wg, timeVars>>

(* acceptValidatorConns: AcceptTCP, connRegistration, the count.  Whoever  *)
(* dialled counts.  The last one expected signals the wait group; closing  *)
(* the listener is a step of its own (a deferred call).                    *)
AcceptValidator(p, ph) ==
    /\ Alive(p)
    /\ vListener[p][ph] = "open"
    /\ Accept(p, ph, "validator")
    /\ IF Cardinality(Accepted(p, ph, "validator")) + 1 = Cardinality(Validators)
       THEN /\ wg' = [wg EXCEPT ![p] = @ - 1]
            /\ vListener' = [vListener EXCEPT ![p][ph] = "closing"]
       ELSE UNCHANGED <<wg, vListener>>
    /\ UNCHANGED <<pc, dialNo, tries, pListener, timeVars>>

(* Connections that nobody will accept any more are reset. *)
Reset(p, ph) == [s \in Servers |-> IF conn[p][ph][s] = "queued" THEN "reset"
                                                                ELSE conn[p][ph][s]]

(* closeTCPListener *)
CloseTCPListener(p, ph) ==
    /\ Alive(p)
    /\ vListener[p][ph] = "closing"
    /\ vListener' = [vListener EXCEPT ![p][ph] = "closed"]
    /\ backlog' = [backlog EXCEPT ![p][ph] = << >>]
    /\ conn' = [conn EXCEPT ![p][ph] = Reset(p, ph)]
    /\ UNCHANGED <<pc, dialNo, tries, pListener, wg, timeVars>>

(* runAsProposer after its first wg.Wait: the listeners for the proposers. *)
ValidatorsDone(p) ==
    /\ pc[p] = "accepting"
    /\ wg[p] = 0
    /\ pc' = [pc EXCEPT ![p] = "dialing"]
    /\ wg' = [wg EXCEPT ![p] = NOP]
    /\ pListener' = [pListener EXCEPT ![p] = [ph \in PhaseSet |-> "starting"]]
    /\ UNCHANGED <<dialNo, tries, backlog, conn, vListener, timeVars>>

(* Mutants: the proposer waits for itself; it signals early and again. *)
Mut_OthersAccepted(count) == count = Len(ProposerList)
Mut_OthersAcceptedTwice(count) == count <= Len(ProposerList) - 1

OthersAccepted(count) == count = Len(ProposerList) - 1

(* acceptProposerConns: ListenTCP, which fails while the first listener of *)
(* the same address is still open; then nobody signals the wait group.     *)
OpenForProposers(p, ph) ==
    /\ Alive(p)
    /\ pListener[p][ph] = "starting"
    /\ IF vListener[p][ph] = "closing"
       THEN /\ pListener' = [pListener EXCEPT ![p][ph] = "failed"]
            /\ UNCHANGED wg
       ELSE /\ pListener' = [pListener EXCEPT ![p][ph] = "open"]
            /\ wg' = IF OthersAccepted(0) THEN [wg EXCEPT ![p] = @ - 1] ELSE wg
    /\ UNCHANGED <<pc, dialNo, tries, backlog, conn, vListener, timeVars>>

(* acceptProposerConns: AcceptTCP, connRegistration, the count.  It goes   *)
(* on accepting for good.                                                  *)
AcceptProposer(p, ph) ==
    /\ Alive(p)
    /\ pListener[p][ph] = "open"
    /\ Accept(p, ph, "proposer")
    /\ wg' = IF OthersAccepted(Cardinality(Accepted(p, ph, "proposer")) + 1)
             THEN [wg EXCEPT ![p] = @ - 1] ELSE wg
    /\ UNCHANGED <<pc, dialNo, tries, vListener, pListener, timeVars>>

-----------------------------------------------------------------------------
(* Mutant: the last proposer of the list is dialled first. *)
Mut_Coordinators(s) == Reverse(RemoveFirst(ProposerList, s))

(* The proposers a server dials, itself excepted. *)
Coordinators(s) == RemoveFirst(ProposerList, s)

(* registerDialConn per proposer and phase: the n-th dial of server s. *)
Dials(s) == Len(Coordinators(s)) * NOP
DialledProposer(s, n) == Coordinators(s)[((n - 1) \div NOP) + 1]
DialledPhase(n) == Phases[((n - 1) % NOP) + 1]

Dialling(s) == pc[s] = "dialing" /\ dialNo[s] <= Dials(s)

Listening(p, ph) ==
    Alive(p) /\ (vListener[p][ph] \in {"open", "closing"} \/ pListener[p][ph] = "open")

(* establishDialConn and registerDialConn when somebody listens. *)
Dial(s) ==
    /\ Dialling(s)
    /\ LET p == DialledProposer(s, dialNo[s])
           ph == DialledPhase(dialNo[s])
       IN  /\ Listening(p, ph)
           /\ backlog' = [backlog EXCEPT ![p][ph] = Append(@, s)]
           /\ conn' = [conn EXCEPT ![p][ph][s] = "queued"]
    /\ dialNo' = [dialNo EXCEPT ![s] = @ + 1]
    /\ tries' = [tries EXCEPT ![s] = 0]
    /\ UNCHANGED <<pc, listenVars, timeVars>>

(* Nobody does: another attempt, or the next dial after maxTry of them. *)
Refused(s) ==
    /\ Dialling(s)
    /\ ~Listening(DialledProposer(s, dialNo[s]), DialledPhase(dialNo[s]))
    /\ IF tries[s] + 1 < maxTry
       THEN /\ tries' = [tries EXCEPT ![s] = @ + 1]
            /\ UNCHANGED dialNo
       ELSE /\ tries' = [tries EXCEPT ![s] = 0]
            /\ dialNo' = [dialNo EXCEPT ![s] = @ + 1]
    /\ UNCHANGED <<pc, backlog, conn, listenVars, timeVars>>

GaveUp(s) ==
    \E n \in 1 .. dialNo[s] - 1 : conn[DialledProposer(s, n)][DialledPhase(n)][s] = "none"

(* What is queued at a server that ends is reset. *)
End(s) ==
    /\ pc' = [pc EXCEPT ![s] = "ended"]
    /\ IF s \in Proposers
       THEN /\ backlog' = [backlog EXCEPT ![s] = [ph \in PhaseSet |-> << >>]]
            /\ conn' = [conn EXCEPT ![s] = [ph \in PhaseSet |-> Reset(s, ph)]]
       ELSE UNCHANGED <<backlog, conn>>
    /\ UNCHANGED <<dialNo, tries, listenVars, timeVars>>

(* All dials are over: one receiving goroutine per connection.  Without a  *)
(* connection it has no decoder, and its panic ends the process.           *)
DialsDone(s) ==
    /\ pc[s] = "dialing"
    /\ dialNo[s] > Dials(s)
    /\ IF GaveUp(s)
       THEN End(s)
       ELSE /\ pc' = [pc EXCEPT ![s] = "receiving"]
            /\ UNCHANGED <<dialNo, tries, backlog, conn, listenVars, timeVars>>

-----------------------------------------------------------------------------
(* The second wg.Wait is over: the time of the proposer's own clock, which *)
(* is skewed, becomes the start time, whatever others have sent before.    *)
SetStartTime(p) ==
    /\ p \in Proposers
    /\ pc[p] = "receiving"
    /\ wg[p] = 0
    /\ pc' = [pc EXCEPT ![p] = "syncing"]
    /\ \E t \in now .. MaxClock, skew \in 0 .. MaxSkew :
          /\ now' = t
          /\ startTime' = [startTime EXCEPT ![p] = t + skew]
    /\ UNCHANGED <<dialNo, tries, backlog, conn, listenVars, times>>

(* concierge.n[phase][s] # nil *)
Registered(p, ph, s) == conn[p][ph][s] \in {"validator", "proposer"}

(* Mutant: the time is sent to the validators only. *)
Mut_HandleProposerTIMEConns(p) ==
    /\ p \in Proposers
    /\ pc[p] = "syncing"
    /\ pc' = [pc EXCEPT ![p] = "started"]
    /\ times' = times \cup {[from |-> p, to |-> s, time |-> startTime[p]] :
                               s \in Accepted(p, TIME, "validator")}
    /\ UNCHANGED <<dialNo, tries, backlog, conn, listenVars, now, startTime>>

(* handleProposerTIMEConns: broadcastToAll in phase TIME. *)
HandleProposerTIMEConns(p) ==
    /\ p \in Proposers
    /\ pc[p] = "syncing"
    /\ pc' = [pc EXCEPT ![p] = "started"]
    /\ times' = times \cup {[from |-> p, to |-> s, time |-> startTime[p]] :
                               s \in {x \in Servers : Registered(p, TIME, x)}}
    /\ UNCHANGED <<dialNo, tries, backlog, conn, listenVars, now, startTime>>

Receiving(s) == pc[s] \in {"receiving", "syncing", "started"}

(* Mutant: the last message wins. *)
Mut_SyncSimulationStartTIme(time, t) == t

(* syncSimulationStartTIme *)
SyncSimulationStartTIme(time, t) == IF time < t THEN t ELSE time

(* receivingTIMEDialMessages; each message in a goroutine of its own. *)
ReceiveTime(m) ==
    /\ m \in times
    /\ Receiving(m.to)
    /\ times' = times \ {m}
    /\ startTime' = [startTime EXCEPT ![m.to] = SyncSimulationStartTIme(@, m.time)]
    /\ UNCHANGED <<pc, dialNo, tries, backlog, conn, listenVars, now>>

-----------------------------------------------------------------------------
(* startConsensusPhaseA on the main proposer: no more work, vgInst.Done. *)
Finish(p) ==
    /\ p = MainProposerId
    /\ pc[p] = "started"
    /\ End(p)

(* Mutant: only validators end with a proposer. *)
Mut_LosesProposer(s) ==
    /\ s \in Validators
    /\ Receiving(s)
    /\ \E p \in Proposers : pc[p] = "ended" /\ Registered(p, OPA, s)
    /\ End(s)

(* receivingOADialMessages and relayBetweenProposerMessage read EOF from   *)
(* an ended proposer: vgInst.Done.  A connection that was reset gives      *)
(* another error, and the loop goes on.                                    *)
LosesProposer(s) ==
    /\ Receiving(s)
    /\ \E p \in Proposers : pc[p] = "ended" /\ Registered(p, OPA, s)
    /\ End(s)

-----------------------------------------------------------------------------
ServerStep(s) ==
    \/ StartServer(s)
    \/ Dial(s)
    \/ Refused(s)
    \/ DialsDone(s)
    \/ SetStartTime(s)
    \/ HandleProposerTIMEConns(s)

ListenerStep(p, ph) ==
    \/ OpenForValidators(p, ph)
    \/ AcceptValidator(p, ph)
    \/ CloseTCPListener(p, ph)
    \/ OpenForProposers(p, ph)
    \/ AcceptProposer(p, ph)

Progress ==
    \/ \E s \in Servers : ServerStep(s) \/ LosesProposer(s)
    \/ \E p \in Proposers : ValidatorsDone(p)
    \/ \E p \in Proposers, ph \in PhaseSet : ListenerStep(p, ph)
    \/ \E m \in times : ReceiveTime(m)

Next == Progress \/ \E p \in Proposers : Finish(p)

Spec == Init /\ [][Next]_vars

-----------------------------------------------------------------------------
(* A proposer was accepted in a validator's place, and the validator will  *)
(* be missing.                                                             *)
Miscounted(p) == \E ph \in PhaseSet : Accepted(p, ph, "validator") \cap Proposers # {}

(* The first proposer of the list counts no other proposer as a validator, *)
(* unless somebody gave up dialling it: whoever dials it early has waited  *)
(* for validators that dialled it before.                                  *)
FirstProposerComplete ==
    LET first == ProposerList[1]
    IN  Miscounted(first) => \E s \in Servers : GaveUp(s)

(* Once the TIME messages are read, all servers' start times differ by no  *)
(* more than the clocks do, although a proposer overwrites what it was     *)
(* sent before it was ready itself, and although a server may have been    *)
(* counted as what it is not.                                              *)
StartTimesAgree ==
    times = {} /\ (\A p \in Proposers : pc[p] = "started") =>
        \A s, r \in Servers : startTime[s] <= startTime[r] + MaxSkew

(* What can keep the servers from starting together. *)
Excuse ==
    \/ \E s \in Servers : GaveUp(s)
    \/ \E p \in Proposers : Miscounted(p)
    \/ \E p \in Proposers, ph \in PhaseSet : \/ pListener[p][ph] = "failed"
                                             \/ Accepted(p, ph, "reset") # {}

(* Everybody starts, unless a dial is given up, a proposer is taken for a  *)
(* validator, or a listener meets the one before it that is still being    *)
(* closed (or the main proposer has finished before the others got there). *)
AllStart ==
    <>(\/ Excuse
       \/ pc[MainProposerId] = "ended"
       \/ \A s \in Servers : pc[s] = IF s \in Proposers THEN "started" ELSE "receiving")

(* The end of the main proposer ends every server connected to it, at the  *)
(* latest when that has made all its dials.                                *)
EndSpreads ==
    pc[MainProposerId] = "ended" ~>
        \A s \in Servers : Registered(MainProposerId, OPA, s) => pc[s] = "ended"
=============================================================================
