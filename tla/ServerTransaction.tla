-------------------------- MODULE ServerTransaction --------------------------
(***************************************************************************)
(* The server half of resip/stack/TransactionState.cxx: the transactions   *)
(* made for one request from the wire (an INVITE or another method) and    *)
(* for the CANCEL of it.  A request that finds no transaction makes a new  *)
(* one, so a copy that arrives late gives the identifier a second life;    *)
(* the timers of the first one are still in the queue then.                *)
(*                                                                         *)
(* Each action is one call of TransactionState::process.  The network is   *)
(* open: requests, CANCELs and ACKs come at any moment and any number of   *)
(* times.  The transaction user answers when it likes, and as often as it  *)
(* likes.                                                                  *)
(***************************************************************************)
EXTENDS Naturals, FiniteSets

CONSTANTS
  MaxNew,    \* bound on how often an identifier gets a new transaction
  Overload   \* may the queue of the transaction user be over its limit?

ASSUME ServerAssumption == MaxNew \in Nat \ {0} /\ Overload \in BOOLEAN

VARIABLES
  tx,       \* mServerTransactionMap
  timers,   \* how many timers of each kind TransactionController::mTimers holds
  peer,     \* the method of the request, "none" before it, and the transport
  given,    \* how often the transaction user was given the request
  answer,   \* the final answer of the transaction user to the last one
  wire,     \* the last response put on the wire for the identifier
  over      \* was the transaction user told that the transaction ended?

vars == <<tx, timers, peer, given, answer, wire, over>>

Tids == {"request", "cancel"}

TimerKinds == {"Trying", "G", "H", "I", "J", "StaleServer"}

Machines == {"None", "ServerInvite", "ServerNonInvite", "ServerStale"}

States == {"Trying", "Proceeding", "Completed", "Confirmed", "Terminated"}

Finals == {"2xx", "failure", "500", "503"}

\* A TransactionState: machine "None" is an identifier that is not in the map;
\* mMsgToRetransmit is the response a retransmitted request is answered with.
Transaction ==
  [machine : Machines, mState : States, mIsReliable : BOOLEAN,
   mAckIsValid : BOOLEAN, mMsgToRetransmit : {"none", "1xx"} \cup Finals]

New(machine, reliable) ==
  [machine |-> machine, mState |-> "Trying", mIsReliable |-> reliable,
   mAckIsValid |-> FALSE, mMsgToRetransmit |-> "1xx"]

NoTx == [machine |-> "None", mState |-> "Terminated", mIsReliable |-> TRUE,
         mAckIsValid |-> FALSE, mMsgToRetransmit |-> "none"]

Init ==
  /\ tx = [t \in Tids |-> NoTx]
  /\ timers = [t \in Tids |-> [k \in TimerKinds |-> 0]]
  /\ peer = [method |-> "none", reliable |-> TRUE]
  /\ given = [t \in Tids |-> 0]
  /\ answer = [t \in Tids |-> "none"]
  /\ wire = [t \in Tids |-> "none"]
  /\ over = [t \in Tids |-> FALSE]

-----------------------------------------------------------------------------
(* Helpers *)

Arm(tm, t, k) == [tm EXCEPT ![t][k] = @ + 1]

Consume(tm, t, k) == [tm EXCEPT ![t][k] = @ - 1]

sendToWire(t, response) == wire' = [wire EXCEPT ![t] = response]

unanswered(t) == tx[t].mState \in {"Trying", "Proceeding"}

\* The transaction is deleted and the transaction user told.
terminateServerTransaction(t) ==
  /\ tx' = [tx EXCEPT ![t] = NoTx]
  /\ over' = [over EXCEPT ![t] = TRUE]

\* Mutant: a retransmission is taken for a new request.
everyRequestIsNew(t) == TRUE

\* No transaction with the identifier; the second conjunct is the bound.
isNew(t) == tx[t].machine = "None" /\ given[t] < MaxNew

\* A transaction for a request, the 100 that TimerTrying may send, the request
\* passed to the transaction user.
Create(t, machine, reliable) ==
  /\ tx' = [tx EXCEPT ![t] = New(machine, reliable)]
  /\ timers' = Arm(timers, t, "Trying")
  /\ given' = [given EXCEPT ![t] = @ + 1]
  /\ answer' = [answer EXCEPT ![t] = "none"]
  /\ wire' = [wire EXCEPT ![t] = "none"]
  /\ over' = [over EXCEPT ![t] = FALSE]

-----------------------------------------------------------------------------
(* Messages from the wire *)

\* The first copy of the request, or one that comes after its transaction
\* ended: only an unreliable transport repeats a message.
NewRequest(method, reliable) ==
  /\ isNew("request")
  /\ given["request"] > 0 => peer = [method |-> method, reliable |-> FALSE]
  /\ peer' = [method |-> method, reliable |-> reliable]
  /\ Create("request",
            IF method = "INVITE" THEN "ServerInvite" ELSE "ServerNonInvite",
            reliable)

\* makeCancelTransaction takes the transport from mTarget, which a server
\* transaction never sets: the CANCEL transaction always counts as reliable.
NewCancel ==
  /\ isNew("cancel") /\ tx["request"].machine # "None"
  /\ given["cancel"] > 0 => ~peer.reliable
  /\ Create("cancel", "ServerNonInvite", TRUE)
  /\ UNCHANGED peer

\* A retransmitted request is answered with the last response.  One for a stale
\* transaction is dropped: the transaction user resends its 2xx.
Retransmission(t) ==
  /\ tx[t].machine \in {"ServerInvite", "ServerNonInvite"}
  /\ tx[t].mState \in {"Proceeding", "Completed"}
  /\ sendToWire(t, tx[t].mMsgToRetransmit)
  /\ UNCHANGED <<tx, timers, peer, given, answer, over>>

\* The queue of the transaction user is over its limit: any request is turned
\* down before its transaction is looked up.
TUOverloaded(t) ==
  /\ Overload
  /\ sendToWire(t, "503")
  /\ UNCHANGED <<tx, timers, peer, given, answer, over>>

\* Mutant: an ACK that comes before the failure is taken for its ACK.
anyAck(r) == r.machine = "ServerInvite"

\* An ACK goes to the transaction once a failure was sent; before, it is
\* passed to the transaction user as the ACK of a 2xx.
ackIsOurs(r) == r.machine = "ServerInvite" /\ r.mAckIsValid /\ r.mState = "Completed"

Ack ==
  /\ ackIsOurs(tx["request"])
  /\ \/ /\ tx["request"].mIsReliable
        /\ terminateServerTransaction("request")
        /\ UNCHANGED timers
     \/ /\ ~tx["request"].mIsReliable
        /\ tx' = [tx EXCEPT !["request"].mState = "Confirmed"]
        /\ timers' = Arm(timers, "request", "I")
        /\ UNCHANGED over
  /\ UNCHANGED <<peer, given, answer, wire>>

-----------------------------------------------------------------------------
(* The transaction user *)

\* Mutant: a provisional response is sent after the final one.
evenWhenAnswered(t) == TRUE

\* The states in which a provisional response is sent.
acceptsProvisional(t) == unanswered(t)

Provisional(t) ==
  /\ tx[t].machine \in {"ServerInvite", "ServerNonInvite"} /\ acceptsProvisional(t)
  /\ tx' = [tx EXCEPT ![t].mState = "Proceeding", ![t].mMsgToRetransmit = "1xx"]
  /\ sendToWire(t, "1xx")
  /\ UNCHANGED <<timers, peer, given, answer, over>>

\* The states in which a final response is the first one.
acceptsFinal(t) == unanswered(t)

\* What the transaction user said: its first answer is what counts.
said(t, a) == answer' = [answer EXCEPT ![t] = IF @ = "none" THEN a ELSE @]

\* The transaction only remembers where the request came from.
stale(r) == [r EXCEPT !.machine = "ServerStale"]

Success ==
  /\ tx["request"].machine = "ServerInvite" /\ acceptsFinal("request")
  /\ tx' = [tx EXCEPT !["request"] = stale(@)]
  /\ timers' = Arm(timers, "request", "StaleServer")
  /\ sendToWire("request", "2xx")
  /\ said("request", "2xx")
  /\ UNCHANGED <<peer, given, over>>

Responses == {"1xx", "2xx", "failure"}

\* A stale transaction sends whatever the transaction user still says, and
\* keeps nothing of it.
StaleResponse(response) ==
  /\ tx["request"].machine = "ServerStale"
  /\ sendToWire("request", response)
  /\ UNCHANGED <<tx, timers, peer, given, answer, over>>

\* Mutant: no TimerG is started.
withoutTimerG(t, response) ==
  /\ tx' = [tx EXCEPT ![t].mState = "Completed", ![t].mAckIsValid = TRUE,
                      ![t].mMsgToRetransmit = response]
  /\ timers' = Arm(timers, t, "H")

\* A failure waits for its ACK, and is resent until then if it may be lost.
awaitAck(t, response) ==
  /\ tx' = [tx EXCEPT ![t].mState = "Completed", ![t].mAckIsValid = TRUE,
                      ![t].mMsgToRetransmit = response]
  /\ timers' = LET tm == Arm(timers, t, "H")
               IN IF tx[t].mIsReliable THEN tm ELSE Arm(tm, t, "G")

Failure ==
  /\ tx["request"].machine = "ServerInvite" /\ acceptsFinal("request")
  /\ awaitAck("request", "failure")
  /\ sendToWire("request", "failure")
  /\ said("request", "failure")
  /\ UNCHANGED <<peer, given, over>>

\* A final response to another method: kept for retransmissions until TimerJ
\* on an unreliable transport, the end of the transaction otherwise.
absorb(t, response) ==
  /\ sendToWire(t, response)
  /\ \/ /\ tx[t].mIsReliable
        /\ terminateServerTransaction(t)
        /\ UNCHANGED timers
     \/ /\ ~tx[t].mIsReliable /\ acceptsFinal(t)
        /\ tx' = [tx EXCEPT ![t].mState = "Completed", ![t].mMsgToRetransmit = response]
        /\ timers' = Arm(timers, t, "J")
        /\ UNCHANGED over

Final(t) ==
  /\ tx[t].machine = "ServerNonInvite"
  /\ absorb(t, "failure")
  /\ said(t, "failure")
  /\ UNCHANGED <<peer, given>>

\* SipStack::abandonServerTransaction: an exception left the proxy without an
\* answer.  The 100 at hand becomes a 500.
AbandonServerTransaction ==
  /\ unanswered("request")
  /\ \/ /\ tx["request"].machine = "ServerInvite"
        /\ awaitAck("request", "500")
        /\ sendToWire("request", "500")
        /\ UNCHANGED over
     \/ /\ tx["request"].machine = "ServerNonInvite"
        /\ absorb("request", "500")
  /\ said("request", "abandoned")
  /\ UNCHANGED <<peer, given>>

-----------------------------------------------------------------------------
(* Timers *)

\* TimerTrying: the transaction user has been silent for long.
Send100(t) ==
  /\ tx[t].machine \in {"ServerInvite", "ServerNonInvite"} /\ tx[t].mState = "Trying"
  /\ timers[t]["Trying"] > 0
  /\ timers' = Consume(timers, t, "Trying")
  /\ tx' = [tx EXCEPT ![t].mState = "Proceeding"]
  /\ sendToWire(t, "1xx")
  /\ UNCHANGED <<peer, given, answer, over>>

\* TimerG resends the failure and is added again.
ResendFailure ==
  /\ tx["request"].machine = "ServerInvite" /\ tx["request"].mState = "Completed"
  /\ timers["request"]["G"] > 0
  /\ sendToWire("request", tx["request"].mMsgToRetransmit)
  /\ UNCHANGED <<tx, timers, peer, given, answer, over>>

\* Mutant: the timer of a stale transaction waits for an ACK.
staleAwaitsAck(t, k) ==
  CASE k \in {"H", "I"}  -> tx[t].machine = "ServerInvite"
    [] k = "J"           -> tx[t].machine = "ServerNonInvite" /\ tx[t].mState = "Completed"
    [] k = "StaleServer" -> tx[t].machine = "ServerStale" /\ tx[t].mState = "Confirmed"
    [] OTHER             -> FALSE

\* The tests of the handlers that end a transaction: timers H and I test none.
ends(t, k) ==
  CASE k \in {"H", "I"}  -> tx[t].machine = "ServerInvite"
    [] k = "J"           -> tx[t].machine = "ServerNonInvite" /\ tx[t].mState = "Completed"
    [] k = "StaleServer" -> tx[t].machine = "ServerStale"
    [] OTHER             -> FALSE

End(t, k) ==
  /\ timers[t][k] > 0 /\ ends(t, k)
  /\ timers' = Consume(timers, t, k)
  /\ terminateServerTransaction(t)
  /\ UNCHANGED <<peer, given, answer, wire>>

\* No transaction, or one that is past the state the timer is for.
Ignore(t, k) ==
  /\ timers[t][k] > 0 /\ ~ends(t, k)
  /\ k = "Trying" => tx[t].mState # "Trying" \/ tx[t].machine = "ServerStale"
  /\ k = "G" => ~(tx[t].machine = "ServerInvite" /\ tx[t].mState = "Completed")
  /\ timers' = Consume(timers, t, k)
  /\ UNCHANGED <<tx, peer, given, answer, wire, over>>

-----------------------------------------------------------------------------
Wire ==
  \/ \E method \in {"INVITE", "OTHER"}, reliable \in BOOLEAN : NewRequest(method, reliable)
  \/ NewCancel
  \/ \E t \in Tids : Retransmission(t) \/ TUOverloaded(t)
  \/ Ack

User ==
  \/ \E t \in Tids : Provisional(t) \/ Final(t)
  \/ Success
  \/ \E response \in Responses : StaleResponse(response)
  \/ Failure
  \/ AbandonServerTransaction

Timer(t, k) == End(t, k) \/ Ignore(t, k)

Next ==
  \/ Wire
  \/ User
  \/ \E t \in Tids : Send100(t) \/ \E k \in TimerKinds : Timer(t, k)
  \/ ResendFailure

Spec == Init /\ [][Next]_vars

\* Timers fire: TransactionController::process runs mTimers.process in every
\* turn of the stack thread.
Fairness == \A k \in TimerKinds : WF_vars(Timer("request", k))

FairSpec == Spec /\ Fairness

-----------------------------------------------------------------------------
(* Properties *)

\* What the variables hold.
TypeOK ==
  /\ tx \in [Tids -> Transaction]
  /\ timers \in [Tids -> [TimerKinds -> Nat]]
  /\ peer \in [method : {"none", "INVITE", "OTHER"}, reliable : BOOLEAN]
  /\ given \in [Tids -> 0 .. MaxNew]
  /\ answer \in [Tids -> {"none", "2xx", "failure", "abandoned"}]
  /\ wire \in [Tids -> {"none", "1xx"} \cup Finals]
  /\ over \in [Tids -> BOOLEAN]

\* The response that an answer of the transaction user puts on the wire.
responseOf(a) == IF a = "abandoned" THEN "500" ELSE a

\* Once the transaction user has answered, no response but that answer goes out
\* until the identifier is given to a new request, whatever is retransmitted,
\* whichever timer fires and whatever the user still says.  Two things are let
\* through: the 503 of an overloaded transaction user, for which no transaction
\* is asked, and what the user says after its own 2xx, which processServerStale
\* (line 1605) sends as it is, a 1xx or a failure too.
OneAnswer ==
  [][\A t \in Tids :
       answer[t] # "none" /\ given'[t] = given[t] =>
         \/ wire'[t] \in {wire[t], responseOf(answer[t]), "503"}
         \/ t = "request" /\ \E response \in Responses : StaleResponse(response)]_vars

\* A transaction does not end under the transaction user: it is told of the end
\* only after it answered or gave the request up.  Timers H and I do not test the
\* state they end, so this is true of the first life of an identifier only: a
\* copy of an INVITE that comes after the end may be ended by the first timer H.
EndsAnswered == \A t \in Tids : over[t] /\ given[t] = 1 => answer[t] # "none"

\* A failure that may get lost is resent until its ACK comes.
KeepsResending ==
  LET r == tx["request"] IN
  r.machine = "ServerInvite" /\ r.mState = "Completed" /\ ~r.mIsReliable =>
    timers["request"]["G"] > 0

\* processServerStale (line 1591): "We should never fall into this block" - an
\* ACK never reaches a stale transaction, because its ACK is not a valid one.
StaleAckIsForTheUser ==
  tx["request"].machine = "ServerStale" => ~tx["request"].mAckIsValid

\* processServerInvite (line 1459): "programming error if any other timer fires".
\* No timer of an earlier transaction of the identifier trips the assert.
NoUnexpectedTimer ==
  tx["request"].machine = "ServerInvite" =>
    timers["request"]["J"] = 0 /\ timers["request"]["StaleServer"] = 0

\* State, timers and the ACK that is expected fit together.
TransactionOK == TypeOK /\ KeepsResending /\ StaleAckIsForTheUser /\ NoUnexpectedTimer

\* An answered or abandoned transaction ends, ACK or no ACK.
AnsweredEnds ==
  answer["request"] # "none" /\ tx["request"].machine # "None"
    ~> tx["request"].machine = "None"

=============================================================================
