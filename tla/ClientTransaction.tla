-------------------------- MODULE ClientTransaction --------------------------
(***************************************************************************)
(* The client half of resip/stack/TransactionState.cxx: one request of the *)
(* transaction user (an INVITE or another method), the CANCEL transaction  *)
(* that an INVITE may spawn, their timers, the DNS results the request may *)
(* be sent to and the transports that may fail to send it.                 *)
(*                                                                         *)
(* The stack thread takes one message at a time off mStateMacFifo, so each *)
(* action below is one call of TransactionState::process.  The network is  *)
(* open: a response of any class may arrive at any moment after something  *)
(* was sent, any number of times and in any order, or never.  Time is      *)
(* abstracted: an armed timer fires at some later moment.                  *)
(***************************************************************************)
EXTENDS Naturals, FiniteSets

CONSTANTS
  Targets,     \* number of DNS results of the request
  Ways,        \* how the request may find its way: by DNS, by a resolver whose
               \* next result may still be pending at a failover, or on a flow
  MaxCancels   \* bound on how often the transaction user asks to cancel a
               \* request that goes one of the ways

ASSUME ClientAssumption ==
  /\ Targets \in Nat \ {0}
  /\ MaxCancels \in [Ways -> Nat]
  /\ Ways \subseteq {"dns", "slowDns", "flow"}

VARIABLES
  tx,       \* mClientTransactionMap: the state of each transaction identifier
  timers,   \* how many timers of each kind TransactionController::mTimers holds
  out,      \* messages handed to a transport whose fate is not known yet
  way,      \* "none" before the request, then how it was routed
  left,     \* DNS results not tried yet
  heard,    \* what the transaction user was told of each transaction
  asked,    \* how often the transaction user asked to cancel the INVITE
  cancelTo  \* the target the last CANCEL was sent to, 0 when none was

vars == <<tx, timers, out, way, left, heard, asked, cancelTo>>

\* A CANCEL has the identifier of its INVITE with "cancel" appended.
Tids == {"request", "cancel"}

TimerKinds == {"A", "B", "D", "CleanUp", "StaleClient", "E1", "E2", "F", "K"}

Machines == {"None", "ClientInvite", "ClientNonInvite", "ClientStale"}

States == {"Calling", "Trying", "Proceeding", "Completed", "Terminated"}

\* A TransactionState: machine "None" is an identifier that is not in the map,
\* target 0 an unknown transport, acked that mMsgToRetransmit is the ACK.
Transaction ==
  [machine : Machines, mState : States, mIsAbandoned : BOOLEAN,
   mIsReliable : BOOLEAN, mWaitingForDnsResult : BOOLEAN,
   target : 0 .. Targets, acked : BOOLEAN]

New(machine, state) ==
  [machine |-> machine, mState |-> state, mIsAbandoned |-> FALSE,
   mIsReliable |-> TRUE, mWaitingForDnsResult |-> FALSE,
   target |-> 0, acked |-> FALSE]

NoTx == New("None", "Terminated")

NothingHeard == [finals |-> 0, ok |-> FALSE, over |-> 0]

Init ==
  /\ tx = [t \in Tids |-> NoTx]
  /\ timers = [t \in Tids |-> [k \in TimerKinds |-> 0]]
  /\ out = {}
  /\ way = "none"
  /\ left = Targets
  /\ heard = [t \in Tids |-> NothingHeard]
  /\ asked = 0
  /\ cancelTo = 0

-----------------------------------------------------------------------------
(* Helpers *)

Arm(tm, t, k) == [tm EXCEPT ![t][k] = @ + 1]

Consume(tm, t, k) == [tm EXCEPT ![t][k] = @ - 1]

\* Counts stop at two: one more than any transaction may reach.
Up(n) == IF n < 2 THEN n + 1 ELSE n

sendToTU(h, t) == [h EXCEPT ![t].finals = Up(@)]

terminateClientTransaction(h, t) == [h EXCEPT ![t].over = Up(@)]

\* The retransmission timer starts when the transport turns out unreliable
\* and was taken for a reliable one before.
processReliability(tm, t, r, reliable) ==
  IF ~reliable /\ r.mIsReliable /\ r.machine # "ClientStale"
  THEN Arm(tm, t, IF r.machine = "ClientInvite" THEN "A" ELSE "E1")
  ELSE tm

\* What the request's transaction resends: the ACK once there is one.
mMsgToRetransmit(r) ==
  IF r.acked THEN "ACK" ELSE IF r.machine = "ClientNonInvite" THEN "OTHER" ELSE "INVITE"

\* A final answer made by the stack itself ends the transaction.
Give408Or503(t) ==
  /\ tx' = [tx EXCEPT ![t] = NoTx]
  /\ heard' = terminateClientTransaction(sendToTU(heard, t), t)

-----------------------------------------------------------------------------
(* Requests of the transaction user *)

FirstState(method) == IF method = "INVITE" THEN "Calling" ELSE "Trying"

Machine(method) == IF method = "INVITE" THEN "ClientInvite" ELSE "ClientNonInvite"

LifeTimer(method) == IF method = "INVITE" THEN "B" ELSE "F"

\* The destination of the request needs a DNS query.
RequestByDns(method) ==
  /\ way = "none"
  /\ way' \in Ways \ {"flow"}
  /\ tx' = [tx EXCEPT !["request"] =
               [New(Machine(method), FirstState(method))
                  EXCEPT !.mWaitingForDnsResult = TRUE]]
  /\ timers' = Arm(timers, "request", LifeTimer(method))
  /\ UNCHANGED <<out, left, heard, asked, cancelTo>>

\* The destination carries a flow key: it is sent without a DNS query.
RequestOnFlow(method, reliable) ==
  /\ way = "none" /\ "flow" \in Ways
  /\ way' = "flow"
  /\ LET r == New(Machine(method), FirstState(method))
     IN /\ tx' = [tx EXCEPT !["request"] =
                     [r EXCEPT !.target = 1, !.mIsReliable = reliable]]
        /\ timers' = processReliability(
                        Arm(timers, "request", LifeTimer(method)),
                        "request", r, reliable)
  /\ out' = {method}
  /\ UNCHANGED <<left, heard, asked, cancelTo>>

\* A CANCEL transaction of its own, to the target of the INVITE.  One that is
\* still in the map is deleted by TransactionMap::add.
handleInternalCancel(invite, tm) ==
  /\ tx' = [tx EXCEPT !["request"] = invite,
               !["cancel"] = [New("ClientNonInvite", "Trying")
                                EXCEPT !.target = invite.target,
                                       !.mIsReliable = invite.mIsReliable]]
  /\ timers' = Arm(Arm(processReliability(tm, "cancel",
                                          New("ClientNonInvite", "Trying"),
                                          invite.mIsReliable),
                       "cancel", "F"),
                   "request", "CleanUp")
  /\ out' = out \cup {"CANCEL"}
  /\ cancelTo' = invite.target
  /\ heard' = [heard EXCEPT !["cancel"] = NothingHeard]

mayCancel == way # "none" /\ asked < MaxCancels[way]

\* SipStack::cancelClientInviteTransaction, the way of the proxy, which calls it
\* once for a target.
CancelClientInviteTransaction ==
  /\ asked = 0 /\ mayCancel
  /\ asked' = asked + 1
  /\ LET r == tx["request"]
     IN /\ r.machine = "ClientInvite"
        /\ \/ /\ r.mState = "Proceeding"
              /\ handleInternalCancel(r, timers)
           \/ /\ r.mState = "Calling"
              /\ tx' = [tx EXCEPT !["request"].mIsAbandoned = TRUE]
              /\ UNCHANGED <<timers, out, heard, cancelTo>>
  /\ UNCHANGED <<way, left>>

\* A CANCEL request sent by the transaction user, the way of DUM.  One that is
\* still in the map gets it, also when its INVITE is gone.
CancelRequest ==
  /\ mayCancel
  /\ asked' = asked + 1
  /\ \/ /\ tx["cancel"].machine # "None"
        /\ timers' = Arm(timers, "cancel", "F")
        /\ out' = out \cup {"CANCEL"}
        /\ UNCHANGED <<tx, heard, cancelTo>>
     \/ LET r == tx["request"]
        IN /\ tx["cancel"].machine = "None" /\ r.machine \in {"ClientInvite", "ClientStale"}
           /\ \/ /\ r.mState = "Calling"
                 /\ tx' = [tx EXCEPT !["request"].mIsAbandoned = TRUE]
                 /\ UNCHANGED <<timers, out, heard, cancelTo>>
              \/ /\ r.mState = "Completed"
                 /\ UNCHANGED <<tx, timers, out, heard, cancelTo>>
              \/ /\ r.mState = "Proceeding"
                 /\ handleInternalCancel(r, timers)
  /\ UNCHANGED <<way, left>>

-----------------------------------------------------------------------------
(* Responses from the wire *)

ProvisionalToNonInvite(t) ==
  LET r == tx[t] IN
  /\ r.machine = "ClientNonInvite" /\ r.target > 0
  /\ r.mState \in {"Trying", "Proceeding"}
  /\ tx' = [tx EXCEPT ![t].mState = "Proceeding"]
  /\ timers' = IF ~r.mIsReliable /\ r.mState = "Trying"
               THEN Arm(timers, t, "E2") ELSE timers
  /\ UNCHANGED <<out, way, left, heard, asked, cancelTo>>

\* Mutant: a retransmitted final response is passed up as well.
everyFinal(r) == TRUE

\* Does a final response reach the transaction user, or is it a
\* retransmission of the one it has?
firstFinal(r) == r.mState \in {"Trying", "Calling", "Proceeding"}

FinalToNonInvite(t) ==
  LET r == tx[t]
      told == IF firstFinal(r) THEN sendToTU(heard, t) ELSE heard
  IN
  /\ r.machine = "ClientNonInvite" /\ r.target > 0
  /\ \/ /\ r.mIsReliable
        /\ tx' = [tx EXCEPT ![t] = NoTx]
        /\ heard' = terminateClientTransaction(told, t)
        /\ UNCHANGED timers
     \/ /\ ~r.mIsReliable
        /\ tx' = [tx EXCEPT ![t].mState = "Completed"]
        /\ heard' = told
        /\ timers' = IF r.mState # "Completed" THEN Arm(timers, t, "K") ELSE timers
  /\ UNCHANGED <<out, way, left, asked, cancelTo>>

\* Mutant: the promise to cancel is forgotten.
forgotten(r) == FALSE

\* The promise to cancel made in Calling is kept on the first provisional.
abandoned(r) == r.mIsAbandoned

ProvisionalToInvite ==
  LET r == tx["request"] IN
  /\ r.machine = "ClientInvite" /\ r.target > 0
  /\ r.mState \in {"Calling", "Proceeding"}
  /\ \/ /\ abandoned(r)
        /\ handleInternalCancel([r EXCEPT !.mState = "Proceeding",
                                          !.mIsAbandoned = FALSE], timers)
     \/ /\ ~abandoned(r)
        /\ tx' = [tx EXCEPT !["request"].mState = "Proceeding"]
        /\ UNCHANGED <<timers, out, heard, cancelTo>>
  /\ UNCHANGED <<way, left, asked>>

\* Mutant: the machine stays the one that takes failures for answers.
notStale(r) == [r EXCEPT !.mIsAbandoned = FALSE]

\* From now on the transaction only passes 2xx responses up.
stale(r) == [r EXCEPT !.machine = "ClientStale", !.mIsAbandoned = FALSE]

SuccessToInvite ==
  /\ tx["request"].machine = "ClientInvite" /\ tx["request"].target > 0
  /\ tx' = [tx EXCEPT !["request"] = stale(@)]
  /\ heard' = [heard EXCEPT !["request"].ok = TRUE]
  /\ timers' = Arm(timers, "request", "StaleClient")
  /\ UNCHANGED <<out, way, left, asked, cancelTo>>

\* Mutant: the ACK is sent but the INVITE is kept for retransmission.
keepsInvite(r) == [r EXCEPT !.mState = "Completed", !.mIsAbandoned = FALSE]

\* The ACK takes the place of the INVITE.
completed(r) ==
  [r EXCEPT !.mState = "Completed", !.mIsAbandoned = FALSE, !.acked = TRUE]

FailureToInvite ==
  LET r == tx["request"] IN
  /\ r.machine = "ClientInvite" /\ r.target > 0
  /\ out' = out \cup {"ACK"}
  /\ \/ /\ r.mIsReliable
        /\ Give408Or503("request")
        /\ UNCHANGED timers
     \/ /\ ~r.mIsReliable /\ firstFinal(r)
        /\ tx' = [tx EXCEPT !["request"] = completed(@)]
        /\ heard' = sendToTU(heard, "request")
        /\ timers' = Arm(timers, "request", "D")
     \/ /\ ~r.mIsReliable /\ r.mState = "Completed"
        /\ tx' = [tx EXCEPT !["request"].mIsAbandoned = FALSE]
        /\ UNCHANGED <<timers, heard>>
  /\ UNCHANGED <<way, left, asked, cancelTo>>

-----------------------------------------------------------------------------
(* Timers.  A timer whose transaction is gone, or is past the state the timer *)
(* is for, is consumed without effect: timers are never taken back.           *)

\* The machine that handles a timer.
machineOf(k) ==
  CASE k \in {"A", "B", "D", "CleanUp"} -> "ClientInvite"
    [] k = "StaleClient"               -> "ClientStale"
    [] k \in {"E1", "E2", "F", "K"}     -> "ClientNonInvite"

\* Mutant: the timers that end an answered transaction wait for a state a 2xx
\* does not lead to.
onlyCompleted(k) ==
  CASE k \in {"A", "B"}       -> {"Calling"}
    [] k \in {"E2", "CleanUp"} -> {"Proceeding"}
    [] k \in {"E1", "F"}       -> {"Trying", "Proceeding"}
    [] k \in {"D", "K", "StaleClient"} -> {"Completed"}

\* The states in which the handler acts on a timer.
statesOf(k) ==
  CASE k \in {"A", "B"}        -> {"Calling"}
    [] k = "E1"                -> {"Trying"}
    [] k \in {"E2", "CleanUp"}  -> {"Proceeding"}
    [] k = "F"                 -> {"Trying", "Proceeding"}
    [] k \in {"D", "K", "StaleClient"} -> States

reacts(t, k) == tx[t].machine = machineOf(k) /\ tx[t].mState \in statesOf(k)

\* Timers A, E1 and E2 resend the request and are added again.
Retransmit(t, k) ==
  /\ k \in {"A", "E1", "E2"} /\ timers[t][k] > 0 /\ reacts(t, k)
  /\ timers' = timers
  /\ out' = IF tx[t].target = 0 THEN out
            ELSE out \cup {IF t = "cancel" THEN "CANCEL" ELSE mMsgToRetransmit(tx[t])}
  /\ UNCHANGED <<tx, way, left, heard, asked, cancelTo>>

\* Timers B, F and CleanUp: no final response came, the answer is a 408.
Expire(t, k) ==
  /\ k \in {"B", "F", "CleanUp"} /\ timers[t][k] > 0 /\ reacts(t, k)
  /\ timers' = Consume(timers, t, k)
  /\ Give408Or503(t)
  /\ UNCHANGED <<out, way, left, asked, cancelTo>>

\* Timers D, K and StaleClient: no more retransmissions are expected.
Retire(t, k) ==
  /\ k \in {"D", "K", "StaleClient"} /\ timers[t][k] > 0 /\ reacts(t, k)
  /\ timers' = Consume(timers, t, k)
  /\ tx' = [tx EXCEPT ![t] = NoTx]
  /\ heard' = terminateClientTransaction(heard, t)
  /\ UNCHANGED <<out, way, left, asked, cancelTo>>

Ignore(t, k) ==
  /\ timers[t][k] > 0 /\ ~reacts(t, k)
  /\ timers' = Consume(timers, t, k)
  /\ UNCHANGED <<tx, out, way, left, heard, asked, cancelTo>>

-----------------------------------------------------------------------------
(* DNS results and transports *)

\* The next DNS result is taken and the request sent to it.
SendToNext(r, reliable) ==
  /\ left > 0
  /\ left' = left - 1
  /\ tx' = [tx EXCEPT !["request"] =
               [r EXCEPT !.target = Targets - left + 1, !.mIsReliable = reliable]]
  /\ timers' = processReliability(timers, "request", r, reliable)
  /\ out' = out \cup {mMsgToRetransmit(r)}
  /\ UNCHANGED heard

\* No DNS result is left, or the first lookup had none.
processNoDnsResults ==
  /\ left = 0 \/ tx["request"].target = 0
  /\ tx["request"].acked = FALSE
  /\ Give408Or503("request")
  /\ UNCHANGED <<timers, left, out>>

\* handle(): the DNS answer a transaction waits for.
DnsAnswer ==
  LET r == tx["request"] IN
  /\ r.machine # "None" /\ r.mWaitingForDnsResult
  /\ \/ \E reliable \in BOOLEAN :
          SendToNext([r EXCEPT !.mWaitingForDnsResult = FALSE], reliable)
     \/ processNoDnsResults
     \/ /\ left = 0 /\ r.acked
        /\ tx' = [tx EXCEPT !["request"].mWaitingForDnsResult = FALSE]
        /\ UNCHANGED <<timers, left, out, heard>>
  /\ UNCHANGED <<way, asked, cancelTo>>

Delivered(m) ==
  /\ m \in out
  /\ out' = out \ {m}
  /\ UNCHANGED <<tx, timers, way, left, heard, asked, cancelTo>>

shouldFailover(r) ==
  r.machine \in {"ClientInvite", "ClientNonInvite"} /\ r.mState # "Completed"

\* The INVITE goes to an endpoint that knows nothing of it.
revert(r) ==
  IF r.machine = "ClientInvite" /\ r.mState = "Proceeding"
  THEN [r EXCEPT !.mState = "Calling"] ELSE r

\* A transport gives up on a message.  The failure carries the transaction
\* identifier of the message's Via, which for a CANCEL is that of its INVITE.
TransportFailure(m) ==
  LET r == tx["request"] IN
  /\ m \in out
  /\ \/ /\ ~shouldFailover(r)
        /\ out' = out \ {m}
        /\ UNCHANGED <<tx, timers, left, heard>>
     \/ /\ shouldFailover(r) /\ way = "flow"
        /\ tx' = [tx EXCEPT !["request"] = revert(r)]
        /\ out' = out \ {m}
        /\ UNCHANGED <<timers, left, heard>>
     \/ /\ shouldFailover(r) /\ way # "flow"
        /\ \/ \E reliable \in BOOLEAN : SendToNext(revert(r), reliable)
           \/ /\ left = 0
              /\ Give408Or503("request")
              /\ out' = out \ {m}
              /\ UNCHANGED <<timers, left>>
           \/ /\ way = "slowDns"
              /\ tx' = [tx EXCEPT !["request"] =
                           [revert(r) EXCEPT !.mWaitingForDnsResult = TRUE]]
              /\ out' = out \ {m}
              /\ UNCHANGED <<timers, left, heard>>
  /\ UNCHANGED <<way, asked, cancelTo>>

-----------------------------------------------------------------------------
User ==
  \/ \E method \in {"INVITE", "OTHER"} :
       \/ RequestByDns(method)
       \/ \E reliable \in BOOLEAN : RequestOnFlow(method, reliable)
  \/ CancelClientInviteTransaction
  \/ CancelRequest

Wire ==
  \/ \E t \in Tids : ProvisionalToNonInvite(t) \/ FinalToNonInvite(t)
  \/ ProvisionalToInvite
  \/ SuccessToInvite
  \/ FailureToInvite

Timer(t, k) == Retransmit(t, k) \/ Expire(t, k) \/ Retire(t, k) \/ Ignore(t, k)

Transport == \E m \in {"INVITE", "CANCEL", "ACK", "OTHER"} :
               Delivered(m) \/ TransportFailure(m)

Next ==
  \/ User
  \/ Wire
  \/ \E t \in Tids, k \in TimerKinds : Timer(t, k)
  \/ DnsAnswer
  \/ Transport

Spec == Init /\ [][Next]_vars

\* Timers fire (TransactionController::process runs mTimers.process in every
\* turn of the stack thread): of the timers of a transaction that fire once, some
\* one does.  The resolver answers or gives up.
Fairness ==
  /\ \A t \in Tids : WF_vars(\E k \in TimerKinds \ {"A", "E1", "E2"} : Timer(t, k))
  /\ WF_vars(DnsAnswer)

FairSpec == Spec /\ Fairness

-----------------------------------------------------------------------------
(* Properties *)

\* What the variables hold.
TypeOK ==
  /\ tx \in [Tids -> Transaction]
  /\ timers \in [Tids -> [TimerKinds -> Nat]]
  /\ out \subseteq {"INVITE", "CANCEL", "ACK", "OTHER"}
  /\ way \in {"none"} \cup Ways
  /\ left \in 0 .. Targets
  /\ heard \in [Tids -> [finals : 0 .. 2, ok : BOOLEAN, over : 0 .. 2]]
  /\ asked \in Nat
  /\ cancelTo \in 0 .. Targets

\* Whatever responses, timers and transport failures race, the transaction user
\* is told of at most one final response other than a 2xx, and of the end of a
\* transaction at most once and not before a final response.  A resolver that
\* answers after the final response breaks it: handle() (line 1817) does not ask
\* for the state and answers a second time.
OneFinal ==
  way # "slowDns" => \A t \in Tids :
    /\ heard[t].finals <= 1
    /\ heard[t].over <= 1
    /\ heard[t].over = 1 => heard[t].finals = 1 \/ heard[t].ok

\* After a 2xx the transaction user of an INVITE hears of no failure: no
\* retransmission, timer or transport failure reaches it, nor a DNS answer in time.
NoFailureAfterSuccess ==
  [][heard["request"].ok /\ way # "slowDns" =>
       heard'["request"].finals = heard["request"].finals]_vars

\* The asserts on mMsgToRetransmit (lines 919 and 989): an INVITE transaction
\* resends an ACK when it is completed, and its INVITE before.
ResendsTheRightMessage ==
  tx["request"].machine = "ClientInvite" =>
    (tx["request"].acked <=> tx["request"].mState = "Completed")

\* A request on an unreliable transport is resent until it is answered: the
\* timer that resends it in its state is armed.  After a failover, or a failure
\* on a flow, the request may be back in Calling with timer A already gone.
KeepsResending ==
  \A t \in Tids :
    LET r == tx[t] IN
    r.target = 1 /\ way = "dns" /\ ~r.mIsReliable =>
      /\ r.machine = "ClientInvite" /\ r.mState = "Calling" => timers[t]["A"] > 0
      /\ r.machine = "ClientNonInvite" /\ r.mState = "Trying" => timers[t]["E1"] > 0
      /\ r.machine = "ClientNonInvite" /\ r.mState = "Proceeding" => timers[t]["E2"] > 0

\* State, message and timers of each transaction fit together.
TransactionOK == TypeOK /\ ResendsTheRightMessage /\ KeepsResending

\* SipStack::cancelClientInviteTransaction frees the transaction user of
\* tracking whether a 1xx came: once the endpoint that has the INVITE has sent
\* a provisional response, a cancelled INVITE has been cancelled there.  (A
\* CANCEL that cannot be sent counts as a failure of its INVITE, which then goes
\* to the next DNS result, where nothing cancels it.)
CancelFollowsInvite ==
  LET r == tx["request"] IN
  r.target = 1 /\ asked > 0 /\ r.machine = "ClientInvite" /\ r.mState = "Proceeding" =>
    cancelTo = r.target

\* A non-INVITE transaction, a CANCEL included, ends even if no response comes.
NonInviteEnds ==
  \A t \in Tids :
    tx[t].machine = "ClientNonInvite" ~> tx[t].machine # "ClientNonInvite"

\* An INVITE whose final response was passed up does not stay in the map.
AnsweredEnds ==
  heard["request"].finals > 0 \/ heard["request"].ok ~> tx["request"].machine = "None"

\* An INVITE the transaction user cancelled ends, whether or not a 487 comes:
\* TimerCleanUp is there for it.  It may instead have moved on to another DNS
\* result; and on a flow a CANCEL that cannot be sent takes it back to Calling,
\* where no timer ends it.
CancelledEnds ==
  asked > 0 /\ way = "dns" ~> tx["request"].machine = "None" \/ tx["request"].target > 1

\* Every transaction ends that can: the non-INVITE, the answered and the cancelled.
TransactionEnds == NonInviteEnds /\ AnsweredEnds /\ CancelledEnds

=============================================================================
