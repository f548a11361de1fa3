# A TLA+ verification project for the call-control server

The repository is reSIProcate 1.4.1 turned into a call-control server for video
surveillance ("megaeyes"). One process runs a SIP proxy and registrar (`repro`), a
back-to-back user agent (`b2bua`) that sits between the clients that want to watch a
camera and the camera, and a small HTTP gateway. This directory holds TLA+ models of
its own logic, TLC configurations that check them, and TLAPS proofs.

## 1. Inventory

Threads (started in `repro/repro.cxx`): the stack, the proxy, the proxy's DUM, the web
administration, the megaeyes web server, and the B2BUA with a DUM of its own; the main
thread waits for a signal and then stops them one after the other.

| part | state | operations | talks to | what is hard |
|---|---|---|---|---|
| `B2BCall` | call state (28 values), legs, routes, clearing reason, times | `checkProgress` and its `do...` steps, DUM callbacks, `onStopping` | DUM sessions, media manager, call handle | long chains of conditional state changes; pointers to legs that go away |
| `B2BCallManager`, `TaskManager` | calls by destination, `stopping`, `mustStopCalls`, task list | open, join, sweep, delete, `stop` | B2BUA thread and main thread | `stop` runs in another thread without a lock |
| `MyInviteSessionHandler`, `MyDialogSetHandler`, `MyAppDialog` | back pointer from a dialog to its call | DUM callbacks and destructors | DUM to `B2BCall` | a dialog is destroyed some messages after it ended |
| `MediaManager`, `MediaProxy`, `RtpProxyUtil` | a proxy per leg, relay in use or not | set and get SDP | `B2BCall`, media relay | exceptions in the middle of a handler |
| DUM invite sessions (`resip/dum`) | session state per dialog, dialog sets | provide offer or answer, accept, reject, end, dispatch | stack, handlers | crossing requests; methods that assert in a wrong state |
| HTTP gateway (`MegaWebServer`, `MegaHttpConnection`, pager handler) | 100 connection slots, `msgmap`, `resultmap` | accept, read, SIP MESSAGE, result, 30 s limit | web thread and DUM thread | reuse of a slot while its SIP request is pending; unlocked maps |
| alarm subscriptions (`MegaSubscriptionHandler`, DUM `ServerSubscription`) | forward and inverted map, timers, dialogs that wait for destruction | subscribe, refresh, terminate, time out, notify | DUM, the pager handler that reports alarms | ids of ended subscriptions; requests for a dialog that is being destroyed |
| `repro` proxy (`RequestContext`, `ResponseContext`, target handlers) | targets pending, active and terminated; best response; transaction count | fork, cancel, time out, choose the best response | stack, request chain | answers, CANCEL, timer C and fork timers in any order |
| stack transactions (`TransactionState`, `TransactionController`) | a state machine per transaction, timers that only carry its id | RFC 3261 section 17, DNS failover, CANCEL, stale transactions | transports, DNS, transaction users | retransmissions, failures and DNS answers that come late |
| established INVITE sessions (`InviteSession`) | state, current and proposed SDP, timers | offer, answer, reject, refresh, end | far end, application | glare, 200 and ACK repetition, hanging up while something is due |
| registrar, stores, web administration | databases | add, remove, query | proxy | locks |
| `rutil` | queues, locks, timers | | everyone | conditions and lost wake-ups |

Not part of the server: `reTurn`, `reflow`, `resip/recon`, `p2p`, `presSvr`, `apps`,
`deprecated`. `PROJECT.json` lists each component with its status, and every hazard with
the line where it bites and the properties that cover it.

What makes the B2BUA correct: a call always comes to an end and takes its sessions with
it; nobody is connected to a camera that has not answered; the time limit on dialling
never hits an answered call; a shutdown reaches every call; the reason recorded for a
call is the first one; no handler touches a leg that is gone.

What makes the others correct. *Gateway*: an answer that is due is never lost, a slot in
use is never taken. *Alarms*: an alarm reaches every live subscriber and never meets an
ended one, and subscriptions do end. *Proxy*: one answer to the caller, the best one; no branch is
forgotten; the context is freed. *Transactions*: the transaction user hears one outcome,
what is repeated is the right message, everything ends. *Sessions*: both ends agree on the
media, an application hears what became of its offer, no assertion fails, both ends terminate.

## 2. Modules

    DumSession      sessions of the dialog usage manager, as the B2BUA sees them
       |            (resip/dum: ServerInviteSession, ClientInviteSession, DialogSet)
    B2BCall         one call: record, permission table, do... steps, callbacks
       |            (b2bua/B2BCall.cxx, MediaManager.cxx, MediaProxy.cxx)
    B2BUA           the actions: messages, the loop, the clock, stop(); properties
       |  \         (B2BCallManager, TaskManager, MyInviteSessionHandler, ...)
       |   CallLifecycle   abstract specification of a call
    MCB2BUA         small instances          B2BUAProofs   theorems

**Sessions.** `DumSession` gives each method that the B2BUA calls on a session as a function
on the session states in which the code accepts it. Outside the domain DUM throws
`DialogUsage::Exception` (the `...Throws` sets) or reaches `assert(0)`.

**A call** is a record (`Record`), and every method of `B2BCall` is an operator from
record to record, under its own name. `setCallState` lets a change through only if
`Permitted` (the table of `isCallStatePermitted`) contains it and otherwise, as the code
does, ignores it without telling its caller. The field `bad` becomes TRUE where the code
runs into an assertion, a NULL or a freed pointer, or an exception that nobody catches; the
model then goes on as a build without assertions would.

**Actions.** A message of a peer is one action: it changes the session and runs the whole
callback. The queue task (`phase = "dum"`) takes messages until the loop goes on to the
sweep, which it does only when no DestroyUsage message is left (`Drained`). The sweep
(`SweepStart`, `CheckCall` for each call, `SweepEnd`) runs `checkProgress` with whatever
the call handle answers and deletes completed calls. `StopDum`, `StopCallsFirst` and
`StopCallsSecond` are the assignments that `TaskManager::stop` makes in the main thread, each
a step of its own that can fall between any two steps of the loop. The compiler and the
i686 target keep the order of the two stores of `B2BCallManager::stop`; the model does too.

**Assumptions about the environment.** All calls go to one destination. Early media comes
only after an INVITE with an offer. The camera's INVITE does not fork. The number of
provisional responses of a call is bounded (`MaxRings`). The `authorizeCall` interface
may give any answer, more than `DefaultAuthorizationManager` does. Ending a session,
its dialog and its dialog set by DestroyUsage is one step. Not modelled because the
code cannot reach it: `onMediaTimeout` (its task is never registered), `onFailure` and the
state `DialFailed` (DUM of this version never reports GeneralFailure), `onHangup(NULL)`.

**The HTTP gateway** has a module of its own, `MegaWeb` (with `MCMegaWeb`). The web thread goes
round: `Select`, `Accept` or `NoAccept`, then for each slot `SkipSlot` or one of the `Process...`
steps, which are what `MegaHttpConnection::process` can do with it; reading and the test of the
result are separate steps because a SIP answer may come between them. The thread of DUM runs
`ResponseArrives`, `StoreResult` and `FinishResult`: test, store the data, set `end`. The variable
`asker` and the fields `tx` and `req` record for the properties whose answer is where. A
connection is a client that connects once (`Client`); every parse of its bytes may send a SIP
request, throw, or find the request incomplete. Accesses to the shared maps are atomic in
the model; in the code they have no lock.

**Alarms.** `AlarmSubscription` has the maps of `MegaSubscriptionHandler` and the parts of
DUM that decide when a subscription lives: `Subscribe`, `Poll` and `Reject` (a first SUBSCRIBE),
`Refresh`, `Unsubscribe`, `Timeout`, `NotifyAnswered`, and the destruction of a dialog and its
dialog set, which is a message of its own (`DestroyDialog`, `DestroyDialogSet`). `Alarm` is the
pager handler that looks up the inverted map and notifies. The variable `stale` records that a handle of
an ended subscription was used.

**The proxy.** `ForkingProxy` is one request context from the request chain to its deletion:
`Request`, `UserInfo` (an asynchronous chain step comes back), `Provisional`, `Final`, `Redirect`,
`Late2xx`, `Cancel`, `FireTimerC`, `FireForkControl` and the two `...Terminated` events. The maps of
`ResponseContext` are the field that says in which map a target is, next to the status that the target
itself has, so that a disagreement can be seen. The target handlers (`SimpleTargetHandler`,
`QValueTargetHandler`) run inside the actions, as the target chain does in the code.

**Transactions.** `ClientTransaction` and `ServerTransaction` have an action per call of
`TransactionState::process`: by the transaction user, the wire, a timer, a transport failure or
a DNS answer. Time is abstract: an armed timer fires at some later moment, and outlives its
transaction, as it does in the code. `SipTransaction` INSTANCEs both over a network that
loses, repeats and reorders, and shows that they implement `RequestReply`: the far user has one
delivery of the request in hand at a time and answers each once; no delivery ends before one was
answered; the near end learns one outcome, an answer that the far user gave or one that a stack
made up. A copy that comes after the transaction ended is delivered again, as the code keeps no
memory of it (`Give` after `End`); and after a 2xx the far user may still send a failure (`Retract`).

**Sessions.** In `InviteSession` one end of an established dialog is a record and each method an
operator on it. `InviteDialog` joins two ends, their applications, transactions that wait
for a final response, and a network that delivers in any order and loses what no transaction
repeats (a 2xx of INVITE, an ACK).

**Setups.** The options of the proxy (`config` in `ForkingProxy`), of the two applications and
their network (`setup` in `InviteDialog`) and the way of a request (`way` in `ClientTransaction`) are
variables chosen once, so that one run covers them all. Where the code keeps a
promise only under some of them, the property or its part says so first (`AllHeard`,
`NoStray`, `Patient`, `TimersRun`), and section 3 says what happens otherwise.

**Abstract specification.** `CallLifecycle` says what a user sees of a call: its status only
moves forward; it becomes Connected only when its camera picks up; a caller is served
only by a camera that has picked up; all are released when the call is deleted; no call is
opened after a shutdown; a shutdown finishes the calls in one step, except those that are being
refused already. `ImplementsLifecycle` is that specification under the mapping at the
end of `B2BUA`.

## 3. Runs

| run | instance | checks |
|---|---|---|
| `call` | one call, one caller with an offer, up to 2 routes, up to 3 provisional responses, both failure codes, shutdown at any time | `TypeOK`, `NeverMisused`, `AnswerAgrees`, `NoCallWithoutCaller`, `CallEnds` |
| `stop` | two calls, every answer of the authorization interface, no or one route, shutdown at any time | `StopReachesEveryCall`, `StopDrains`, `CallEnds` |
| `join` | one call, two callers, delayed offers, a relay that may be full, re-INVITEs from both sides, early BYEs, lost ACKs | `CallsRest`, `NoSessionLeftBehind`, `ReasonStable`, `ImplementsLifecycle` |
| `gateway` | three HTTP connections, two slots, two SIP requests, failing accepts | `TypeOK`, `NoAnswerLost`, `ConnectionEnds` |
| `alarm` | two subscriptions in one or two dialogs, devices named up to twice, one NOTIFY and one refresh at a time | `TypeOK`, `SubscriptionsSound`, `AlarmReachesAll`, `EverySubscriptionEnds` |
| `fork` | an INVITE or another request, up to four targets (two of them the same contact), nine setups of the proxy | `ContextConsistent`, `OneFailure`, `ForwardsBest`, `AnswerStopsBranches`, `NoLateStart`, `RequestEnds` |
| `client` | a request with two DNS results, with a slow resolver, or on a flow; its CANCEL, on a flow asked for twice | `TransactionOK`, `OneFinal`, `CancelFollowsInvite`, `NoFailureAfterSuccess`, `TransactionEnds` |
| `server` | a request and its CANCEL, an identifier that is used twice, an overloaded transaction user | `TransactionOK`, `EndsAnswered`, `OneAnswer`, `AnsweredEnds` |
| `pair` | client and server with a network between them, one destination found by DNS, an identifier with two lives | `ImplementsRequestReply` |
| `session` | both ends modify the session once, or one end twice: by re-INVITE, by UPDATE and refresh, with rejections, or while hanging up | `SessionsSound`, `SdpAgrees`, `OfferReported`, `AnswerStillComing`, `BothEnd` |
| `delayed` | caller without an offer | violates `AnsweredIsNotDialing` |
| `reuse` | two connections, one slot | violates `AnswerToAsker` |

Some properties are conjunctions of parts that are defined and explained under their own names
before them. `AnswerAgrees`: `AnsweredIsNotDialing`, and a reason that says "answered" only in a call that was.
`SubscriptionsSound`: `NoStaleHandle`, `MapsAgree`, `NeverDestroyedSilently`, `TimerArmed`.
`ContextConsistent` of the proxy: the types, `StatusMatchesMap`, `CountMatchesMaps`, `ActiveIsOwed`, `TimerCArmed`,
`OneGroupAtATime`, `NoBadBaboon`. `TransactionOK` of the client: the types, `ResendsTheRightMessage`,
`KeepsResending`; of the server: the types, `KeepsResending`, `StaleAckIsForTheUser`, `NoUnexpectedTimer`.
`TransactionEnds`: `NonInviteEnds`, `AnsweredEnds`, `CancelledEnds`. `SessionsSound`: the types and
`NeverAsserts`. `ConnectionEnds` includes that a slot in use is never taken (`SlotKept`).

The two violations are findings. In the delayed-offer sequence documented at the top
of `B2BCall.cxx`, `doCallAnswered` asks for a state change that the table denies, so the
answered call is still "dialling" and the 15 s limit ends it. And the answer to a closed HTTP
connection's request is written to the next user of its slot.

**Where the properties stop.** The models contain the following behaviour too. A property
that it would refute says first where it holds; each item names the instance or guard.

- *B2BUA.* `NeverMisused` and `NoCallWithoutCaller` are checked with one caller who offers
  (`call`). With two, callers that leave in one batch of messages leave a call without
  callers, because "only one A leg" is tested before the leg that left first is removed; with
  early BYEs, joining callers, a full relay or re-INVITEs, `aFirstLegAppDialog` is used after it
  is freed and session methods are called in states where DUM asserts. A camera's answer to a relayed re-INVITE
  is not passed on to the caller (`onAnswerA`). The properties of `join` hold nevertheless.
- *Gateway.* A second parse that resets the result between the storing of the data and
  of `end` makes the connection write an answer made from nothing. In a full table the search
  for a slot never ends, and an accept that keeps failing keeps the connections from being
  polled; `ConnectionEnds` speaks of a server that goes on polling.
- *Alarms.* `onRefresh` is empty, so a refreshing SUBSCRIBE is never answered. A refused NOTIFY is
  dispatched to all subscriptions of its dialog and ends each of them.
- *Proxy.* After a CANCEL the answer of the user database adds a 403 to the 487 that was sent;
  a response whose Via was stripped only ends its target, and when none is left an empty best
  response is forwarded; a 2xx of a target that has terminated leaves the others ringing
  (`ResponseContext.cxx:893`); a redirect that is followed starts new targets after a CANCEL.
- *Client transactions.* When the resolver answers after the final response, `handle(DnsResult*)`
  passes up a second one. A CANCEL that cannot be sent counts as the failure of its INVITE, which
  goes back to Calling: it is sent to the next DNS result, where nothing cancels it, or
  waits on its flow, where no timer ends it. Resending timers are not armed again after a failover.
- *Server transactions.* TimerH of a transaction can end a second one with the same id before it is
  answered. `makeCancelTransaction` takes every transport for reliable, so a CANCEL repeated by UDP is
  delivered twice. An overloaded transaction user makes the stack answer a retransmission
  with 503 although the first copy is being served. After a 2xx the stale transaction sends
  whatever its user still says (`StaleResponse`, `TransactionState.cxx:1605`), a 1xx or a failure
  too: `OneAnswer` lets that through. A copy of a request that comes after the end of its
  transaction is given to the user again.
- *Sessions.* Once an end gives up waiting for an ACK or an answer, its peer may still owe an
  answer, and the next request meets an assertion; an application that ignores `onStaleReInviteTimeout`
  runs into `dispatchOthers` when the late answer comes. An ACK ends the repetition of the 200, and an
  ACK with a body any wait for an answer, whatever its CSeq: when the ACK of one re-INVITE is
  repeated after the next re-INVITE was answered, that answer may be lost for good, the ends may
  disagree on the media and an assert may fail. `misled` records this, and `SdpAgrees`,
  `AnswerStillComing` and `NeverAsserts` exclude it (`AcksInTurn`). `NeverAsserts` also excludes
  setups that reject offers and ask for offers: `reject` leaves the rejected offer in
  `mProposedRemoteSdp`, and if the next re-INVITE asks for an offer, `provideOffer` asserts it to be
  gone (`InviteSession.cxx:402`; TLC finds this with the setup `Again` and `Rejects`). A 422 turns
  the application's offer into a session refresh, of which it is never told. An ACK that arrives after the session made an offer of its own does not stop the
  repetition of the 200. The session timer calls `end`, which asserts when a hang-up is waiting
  already (`InviteSession.cxx:649`), so `NeverAsserts` also excludes setups in which applications
  hang up and session timers run out.

**Bounds.** Calls meet only in the sweep, in `stop` and in the search for a call to join, so
two of them show every interaction. Two callers are needed for one to leave while another
stays; with two routes a refusal can be followed by another attempt and by the end of the
list. Three provisional responses let a call go through 180 and early media in any order
and once again. Two slots and three connections let the round robin wrap, the table fill and a slot be
used again while another stays in use. Two handles (`MaxHandle`) let a subscription end while another of the
same dialog or device lives, and one id (`EventId`) be used by both. Four targets are two
parallel branches, a second group and one contact that occurs twice (with fork timers, three contacts all
accept or all refuse); `MaxSerial` (updates of timer C) and
`MaxSent` (provisional responses) of 2 let an old timer event meet a newer timer. Two DNS results are a
failover and the end of the list; counts stop at two, one above what a property allows.
Two lives of an identifier (`MaxNew`) let copies, responses and timers of the first meet the second.
`MaxMods` bounds the CSeq of an end at 3: one modification of its application and two repetitions after 491 or
422, or two modifications of one end (`MaxAsks`), the least for messages of an earlier one to meet a later one. `join` uses symmetry over the callers and checks no liveness.

**Fairness.** *B2BUA*: weak fairness of the loop, of the queue's DestroyUsage messages, of the clock
for each call, of the timeout that completes the queue task, and of the second half of
`stop()` once it has begun. The code is a busy loop in a thread of its own, so each of them
does happen. That the loop reaches the sweep rests on the queue becoming empty from
time to time. Callers, cameras and the start of a shutdown are under no fairness:
`CallEnds` and `StopDrains` hold if the peers never say anything again.
*Gateway*: the web thread, the callback once it has begun, and the clock of each
connection: both threads loop with a time limit on every wait. Clients and SIP answers are not fair.
*Alarms*: the timer of a subscription and the DestroyUsage messages in the queue of DUM.
*Proxy*: the events the stack owes to the proxy: a client transaction ends in a
final response (or the stack's own 408) and then in TransactionTerminated, the current timer C goes
off, the user database answers. An INVITE that rings, the fork timers, provisional responses and CANCEL are not fair.
These conditions are written with `[]<>` over the effect of a handler, because its guard may
be true for different targets in turn.
*Transactions*: `TransactionController::process` fires the timers on each turn of the stack
thread, and the resolver answers or gives up; the retransmission timers (A, E1, E2), the
network, transports and transaction user are not fair. *Sessions*: the timers WaitForAck and
StaleReInvite, and the delivery of a BYE, which its transaction repeats.

Deadlock is checked for the B2BUA and the gateway. The other models follow one request, the
subscriptions of a bounded number of handles, or a bounded number of modifications, and stop
when these are over.

Each property of a passing run is refuted by a mutant of the code (`PROJECT.json`,
`mutants`); the mutated forms stand before the definitions they replace.

## 4. Proofs

`B2BUAProofs` proves for every set of calls and callers and every value of the other constants:

- `TypeCorrect`: `Spec => []TypeOK`
- `Rests`: `Spec => []CallsRest`
- `StopReaches`: `Spec => []StopReachesEveryCall`
- `ReasonKept`: `Spec => ReasonStable`
- `AnswersAgree`: `Spec => []AnswerAgrees`, under the three hypotheses explained below

*Assumptions*: `LegAssumption` (`NoLeg` is not a caller) and `ConstantsAssumption` (types of the
constants). *Inductive invariant*: `IndInv`, the conjunction of `TypeOK`, `AllSound`, `StopOrder`
and `StopReachesEveryCall`. `AllSound` says of each call that it rests in a polled state and that a
dialling call has a route left; without the second part `doSelectAlternateRoute` could step past the
end of the routes and leave the type. `StopOrder` says that the flags are set in their order;
without it a call could be opened after the request is consumed.

*Argument.* A callback is a composition of small changes to a record. `Keeps(c, d)` is what each of
them may do: the record stays sound, a live call stays live, an ending call ends, a clearing reason
stays. `Keeps` is transitive, and a lemma per handler shows it. `checkProgress` passes through
states in which a call may not rest, so its lemmas use `Outcome`, which also allows the final state;
`Swept` is what a whole sweep of one call may do. `NextMoves` lifts both to `CallMoves`: in any
step, each call is swept, kept or, unless `stopping`, opened. `NextInv` and the theorems follow.

*`AnswersAgree`* assumes that INVITEs carry offers (`OfferKinds`), that no caller sends a BYE before
the final response (`EarlyBye`) and that the relay has ports (no `fail` in `SdpKinds`). TLC refutes
`AnswerAgrees` when any one of them is dropped; the run `delayed` is the first. What it covers is any
number of calls and callers, callers that join, re-INVITEs of both sides, lost ACKs, every answer of
the authorization and a shutdown at any time. *Inductive invariant*: `IndInv`, `AllAgree` and
`Quiet`. `AllAgree` says `Agrees` of each call: the SDP of the first caller is known; the camera's
answer is awaited only with an offer out and in a state whose table entry permits CallAccepted
(`Awaiting`) or after the answer; a session that is up, of a caller or of the camera, is one of a call
with a connectTime; a call has a connectTime if it is in a connected state, and only if it is in one or
in a finishing one; a reason that says "answered" is one of a call with a connectTime; and an early
answer has left the camera's SDP. `Quiet` says that
while a sweep runs no caller's `DestroyUsage` is queued in a call with an early answer: the sweep
hands that answer on, and a caller's session that is about to be deleted refuses it by an exception,
which leaves the call in a state where the camera's 200 is not permitted. A sweep starts only from a
drained queue, which gives `Quiet`; each `do...` step a sweep takes keeps `Steady`, which is `Agrees`
in a state other than that of the early answer. TLC found the three to hold of one call with two
callers, re-INVITEs and lost ACKs before they were proved.

The same module proves, again for every set of calls and callers:

- `LeavesNoSession`: `Spec => []NoSessionLeftBehind`
- `CallsKeepLifecycle`: `Spec => ImplementsLifecycle`

*Inductive invariant*: `IndInv` and `AllFit`, which says `Fits` of each call. A session that is
under way belongs to a leg of the call, so that `doCallStop`, which walks the legs, reaches it; a
dialog that points to the call belongs to one of its legs, so that the destructor finds it; the
camera's session has its dialog set (`doCallStop` ends it through that); before dialling there is no
camera's session; in the states that follow an answer the camera has picked up (this is where the
status Connected comes from); an offer to the camera in mid-call is only out in a connected or
finishing call, whose status its answer cannot change; and a call that is final, deleted or not
there is `Closed`, which is the property itself. Before it was proved, TLC found `Fits` to hold on
the instances of `call`, `stop` and `join`.

*Argument.* `CallLifecycle` sees the status, the callers served and whether the camera has picked
up. Four transitive relations say what a piece of a handler may do to these: `Turns` (the status
goes ahead, nobody comes or leaves), `Advances` (parties may leave), `Rises` and `Grows` (callers
may be connected, the status going up or staying). Each setter, method and `do...` step has a lemma
in one of them, built on `PermittedAhead`: the table of `isCallStatePermitted` never leads back, and
into the connected states only through CallAccepted. `Follows` is what an action may do to a live
call, `Opens` what it does to a slot; `FollowsMapped` and `OpensMapped` turn them into `Advance`,
`Serve`, `PickUp` and `Open`; `SweepStartMapped` turns the consumption of the stop request into
`FinishAll`. The proof showed that `FinishAll` had been too strong: with three calls, one that waits
in AuthorizationFail is not touched by `onStopping` while the others are finished, which two calls
did not show. `FinishAll` now lets such a call keep its status, as the code does.

`AlarmSubscriptionProofs` proves for any number of subscriptions, dialogs, devices and event ids:

- `AlarmTypeCorrect`: `Spec => []TypeOK`
- `AlarmNeverStale`: `Spec => []NoStaleHandle`
- `AlarmMapsAgree`: `Spec => []MapsAgree`
- `AlarmNeverDestroyedSilently`: `Spec => []NeverDestroyedSilently`
- `AlarmTimerArmed`: `Spec => []TimerArmed`
- `AlarmSubscriptionsSound`: `Spec => []SubscriptionsSound`, from the four before
- `AlarmReaches`: `Spec => AlarmReachesAll`

*Inductive invariant*: `IInv`, the conjunction of `TypeOK`, `MapsAgree`, `~stale`, `LiveInDialog` (a
live subscription belongs to a live dialog and has the timer number of its first SUBSCRIBE, since no
refresh is accepted), `Fresh` (a handle not given yet has neither timer number nor NOTIFY),
`NeverDestroyedSilently` and `TimerArmed`. `NoStaleHandle` needs `MapsAgree`, which an action could
break for a subscription whose dialog goes without its end being reported; hence `LiveInDialog` and
`NeverDestroyedSilently`. `Fresh` makes a new subscription start from nothing. One lemma per action
shows what it does to `IInv`; `AlarmReachesAll` follows from `MapsAgree` in the state before the
alarm.

`ServerTransactionProofs` proves for any number of lives of an identifier (`MaxNew`), with or
without an overloaded transaction user:

- `TypeCorrect`: `Spec => []TypeOK`
- `TransactionSound`: `Spec => []TransactionOK`
- `EndsOnlyAnswered`: `Spec => []EndsAnswered`
- `AnsweredOnce`: `Spec => OneAnswer`

*Assumption*: `ServerAssumption` (at least one life; types). *Inductive invariant*: `IInv`.
`MachineFits` and `StateFits` tie the machine, its state and the fields it keeps together; without
them an ACK could find a stale transaction. `StaleTimed` counts the StaleServer timers: exactly one
while its transaction lives, so the assertion of `processServerInvite` is not tripped by one of an
earlier life. `FirstLife` says that no timer that ends an answered transaction is there before the
answer; `EndsAnswered` needs it because timers H and I test no state. `KeepsResending` is kept as it
is. `AnswerFits` (a transaction that still accepts a response has no answer yet, and a completed one
keeps the answer that its user gave) gives `OneAnswer`: whoever may send something then either resends
that answer, or is the user behind a stale transaction or the 503 of overload, which the property names.

`ClientTransactionProofs` proves for any number of DNS results (`Targets`), any ways and any number
of CANCELs:

- `TransactionSound`: `Spec => []TransactionOK`
- `ToldOnce`: `Spec => []OneFinal`
- `CancelReaches`: `Spec => []CancelFollowsInvite`
- `SuccessIsFinal`: `Spec => NoFailureAfterSuccess`

*Assumption*: `ClientAssumption`. *Inductive invariant*: `IInv`, the parts of the properties with
`Fresh` (nothing before the request), `MachineFits`, `Targeted` (DNS results are taken in order;
before the first nothing was sent), `DnsInTime` (a DNS answer is awaited only then, unless the
resolver is slow: this is what keeps a late answer from being heard as a second failure),
`CancelFits` (who owes a CANCEL, and that one goes to an endpoint the INVITE went to), `RetireTimed`
(timers that end an answered transaction come with the answer; for a CANCEL, whose identifier is
used again, none is left) and `HeardFits` (what the user heard fits the state).

`ForkingProxyProofs` proves for every set of targets and setups of the proxy, any queues, contacts,
redirections and bounds:

- `TypesKept`: `Spec => []TypeOK`
- `BranchesTracked`: `Spec => [](StatusMatchesMap /\ CountMatchesMaps /\ ActiveIsOwed /\ TimerCArmed)`
- `BaboonsAreGood`: `Spec => []NoBadBaboon`
- `GroupsInTurn`: `Spec => []OneGroupAtATime`
- `ContextKept`: `Spec => []ContextConsistent`, from the four before
- `AnsweredOnce`: `Spec => []OneFailure`
- `BestIsForwarded`: `Spec => []ForwardsBest`
- `NoBranchIsLeft`: `Spec => []AnswerStopsBranches`
- `NothingStartsLate`: `Spec => NoLateStart`

*Assumption*: `ConfigAssumption` (the targets are finitely many; responses of branches and of the
authorization are final; types). The premises under which a part is claimed stand in the parts themselves:
`TimerC` and no stray 2xx in `TimerCArmed`, that no branch answers 500 in `NoBadBaboon`,
`mWaitForTerminate` and parallel branches of equal q in `OneGroupAtATime`, `AllHeard` without `AsyncAuth`
in `OneFailure`, no stray 2xx in `AnswerStopsBranches`. *Inductive invariant*
(theorem `Invariance`): `IInv`, which says `Whole` of the context. `Tracked` and `Open` tie the map, the
status, the client transaction and the owed response of each target together; `Counted` adds them up, so
that the context is deleted with its last transaction and not before. `Stopped` and `Answered` say that the final
response leaves no branch to itself, and that a 2xx of an open branch has been forwarded. `Weighed` is what
`ForwardsBest` needs before anything is sent: `mBestPriority` is the rank of a best response heard, and
`mBestResponse`, which later ones of equal rank overwrite, stands for it (a 300 for several redirections,
one challenge for several); `Forwarded` is that property of what was sent. `Upstream` keeps
the order of what was sent. `Ended` says that a CANCEL has left no candidates, which `NoLateStart` needs.
`Quiet` says that an unanswered request with no active branch has no candidate and no response to give,
which is why the 500 is not reached. `Armed` is `TimerCArmed`.

*Argument.* The handlers are chains of small changes of the context, many of them folds over queues of
targets. `FoldExists` unrolls a fold into the sequence of its results (`Runs`), and `Induction`, proved
by least counterexample, shows that a relation which each step keeps is kept by all of them; so
no induction theorem of the library is needed. `Proceeds` and `Starts` say what the target
handlers may do (begin candidates, cancel branches, never revive one), `Narrows` what the handling of
a response may do, `Follows` what any action may do. `Mid` is the part of `Whole` that holds inside an action; `Due`
says before the target chain, and `Done` after it, what there is to give when nothing is active.

`GroupsInTurn` has a second invariant on top of `IInv`. `Grouped` says of the queues of
`QValueTargetHandler`: a queue whose targets have client transactions comes before all others that still have targets,
and no target is in two (`Ordered`); each candidate or active target is in a queue (`Queued`); and
between actions no target that has failed is left in one (`Cleared`). Without these the loop over the
queues, which stops at the first group that starts something, could begin a group while an earlier one
is under way. Inside that loop `Seen` says what has been passed so far: nothing active yet (`Idle`), or one group and
nothing after it (`Busy`). TLC found `Grouped` to hold on the instance of `fork` before it was proved.

`SipTransactionProofs` proves `PairImplementsPromise`: `Spec => ImplementsRequestReply`, for any
number of DNS results, any ways, any number of lives of the identifier (`MaxNew`), with or without
overload, under `SipAssumption` only. *Inductive invariant*: `Typed`, `Fresh`, `Answered`
(the state of the server's transaction tells what the far user said to this delivery; until some
delivery was answered timers H and I, which test no state, are not armed, so none can end) and `Carried`
(every failure or 2xx in the network is one that user gave, the stack's 503 aside). Two summaries,
`ClientEffect` and `ServerEffect`, say what a step of one side may change of what the other side
sees; each action is shown to be within its summary, and each summary to be a step of `RequestReply`
or a stutter.

`MegaWebProofs` proves for any number of slots, clients and SIP requests, under `MegaWebAssumption`:

- `TypeCorrect`: `Spec => []TypeOK`
- `AnswerNeverLost`: `Spec => []NoAnswerLost`
- `SlotNeverOverwritten`: `Spec => SlotKept`, the safety half of `ConnectionEnds`

*Inductive invariant*: `TypeOK`, `NoAnswerLost`, `PendingSent` (a pending request has been sent, so
the id of a new one is not among them) and `Asked` (the last request of a slot is registered in
`msgmap` under that slot, which has an entry in `resultmap`): without `Asked` the answer that the
callback of the other thread looks up might belong nowhere.

`InviteDialogProofs` proves for every set of setups (both ends, any bounds, every timeout and loss):

- `TypeCorrect`: `Spec => []TypeOK`
- `OffersReported`: `Spec => []OfferReported`
- `AnswersStillComing`: `Spec => []AnswerStillComing`
- `Agreement`: `Spec => [](IInv /\ JInv)`
- `AssertsHold`: `Spec => []SessionsSound`
- `MediaAgreement`: `Spec => [](IInv /\ JInv /\ KInv)`
- `DescriptionsAgree`: `Spec => []SdpAgrees`

*Assumption*: `DialogAssumption`. *Inductive invariant*: `IInv`, whose main part is `DialogFits` of
the two ends, the network and the open requests. `EndsFit` ties the state of an end to the request it
sent last, to the descriptions it has proposed and to the ACKs it keeps; without session refreshes it
contains `Reported`: a callback is owed only in the states that lead to one. `NetFits` says that
requests and ACKs on their way come from their sender: an ACK for an INVITE is never there while its
sender still waits for the answer to that INVITE. `AnswersFit` says that what an end received and
answered, its peer has sent. `Repeats` says that who has answered the re-INVITE that its peer still waits
for goes on repeating the 200, unless it gives up waiting or mistakes an ACK. It needs `NetFits`: an ACK
with the right CSeq cannot come early, so an ACK that ends the repetition too early is one of another
re-INVITE, and `misled` says so.

*Argument.* `Follows(s, t)` is what any handler may make of a session s: the result is well-formed, its
CSeq does not go back, it asks only under a new CSeq or goes on asking. `Goes`, `Answers`, `Hears`
and `Waited` add what the handler does to the repeated 200. Each method and each state's dispatcher has
a lemma in one of them; `StepKeeps` shows once that a step of one end within them keeps
`DialogFits` at the other end and in the network, and each action is an instance of it. The
hypotheses of `OfferReported` (no session refreshes) and `AnswerStillComing` (`Patient`,
`AcksInTurn`) stand in the properties themselves, and section 3 gives the behaviour behind them.

*No assert fails.* Whether a session may be driven into an assert depends on its peer: a re-INVITE
that meets a session whose answer is due in an ACK, or a response that nobody waits for, ends in
`dispatchOthers`, and an answer without an offer under way in `setCurrentLocalSdp`. `NeverAsserts` is therefore kept by a second invariant,
`JInv`, on top of `IInv`. `Sound(s)` says of one end that it keeps the request it decides on,
the request it sent, and the 200 it repeats, each of the method its state asks for. `Agreed(s, p, ...)` says of an
end and its peer what became of the end's last request: it is on its way only while it is awaited (`Mannered`), or it
lies with the peer's application (`Decides`), or it has one outcome and is in neither place any more
(`Concluded`); the 200 of a re-INVITE is the last one that the peer keeps, and the end has its ACK or is in
a state that will make it. `Due`: who will answer in an ACK faces a peer that waits for that ACK and asks
nothing. Each handler is of one of eight kinds (`Calm`, `Closes`, `Requests`, `Acks`, `Gets`,
`Declines`, `TakesUp`, `Responds`), and eight lemmas show that a step of each kind keeps `Agreed` in both
directions (`Paired`). `JInv` needs only that no end gives up or mistakes an ACK (`Patient`,
`AcksInTurn`); that no assert has failed (`Unhurt`) it says of the setups of `NeverAsserts` (`Careful`), in
which applications do not both reject offers and ask for them, and no session timer runs out where one hangs up.

*The descriptions agree.* `SdpAgrees` speaks of two ends at rest; on the way there each end replaces
its descriptions at another time, so a third invariant, `KInv`, on top of `JInv` says what makes up
for the difference. `Settles`: an end is ending, or the descriptions match, or the 200 that answers the
offer of an end is still to be taken (`Crossed`), or the ACK that does so (`Returned`). `Told` says
what these messages carry: what an end has proposed is the description in its request or 200
(`Worded`), the 200 that accepts an offer carries what the peer has taken as its own, beside that offer
(`TakenOver`), the ACK with the answer what its sender has taken (`AnswersBack`), the offer to be
answered in an ACK is the one in the repeated 200 (`Invited`), and an UPDATE that waits for its answer has its
transaction (`InFlight`), without which its 200 would be dropped. `Exclusive`: the two ends are never
both owed such an end of a negotiation. That the 200 taken is the only one for its request comes from
`Concluded` of `JInv`, that the ACK is the right one from `AcksInTurn`. A lemma for each handler
says which of seven things it does to the descriptions (`Hearing`: it quits, stays, drops a
proposal, gets an offer, answers a refresh, proposes again, concludes), and one for each of these that `Media`, the
conjunction of the above in both directions, is kept.

**What stays with TLC.** *Liveness* (`CallEnds`, `StopDrains`, `EverySubscriptionEnds`,
`RequestEnds`, `TransactionEnds`, `AnsweredEnds`, `BothEnd`, and the part of `ConnectionEnds` that
is not `SlotKept`), because it needs fairness. *`NeverMisused`, `NoCallWithoutCaller`*: section 3
says how two callers, lost ACKs or re-INVITEs break them, so they hold of the instance `call` and not
for all values of the constants. The `violation` runs need no
proof.

## 5. Plan

1. *Done*: `DumSession`, `B2BCall`, `B2BUA`, `CallLifecycle`; `MegaWeb`; `AlarmSubscription`;
   `ForkingProxy`; `ClientTransaction`, `ServerTransaction`, `SipTransaction`, `RequestReply`;
   `InviteSession`, `InviteDialog`.
2. *Done*: the proofs of section 4.
3. A proof that comes next: `NoCallWithoutCaller` for any number of calls with one caller each.
4. Modules that would come next: the initial INVITE between two ends (the 200 that crosses a CANCEL,
   `DialogSet.cxx:908`, PRACK, early UPDATE), which `DumSession` abstracts; registrations, client
   subscriptions and publications of DUM; `RWMutex` and `TimeLimitFifo` of `rutil`; the order of the
   whole shutdown.

**Not modelled.** Message parsing, transports, DNS itself, SDP rewriting, CDR files, web pages and databases
have no control worth a model here, or their data is the point of them. The walk of `stop()` over the call and task
lists in the main thread, and the maps of the gateway that two threads change without a lock, are data
races whose damage to the containers no model of their contents describes. NULL bodies
(a 200 to a MESSAGE or a SUBSCRIBE without a body is dereferenced) are left out, as are requests that the
process would send to itself. In the proxy: ACK contexts, outbound flow failover, exceptions
in the target chain, Via and Record-Route. In the transactions: the stateless machine, keepalives,
lists of bad servers, requests answered without a transaction (a CANCEL that matches none gets a 481).
In sessions: provisional responses to re-INVITEs (in WaitingToTerminate the code hangs up on any
response to an INVITE, a 1xx too, `InviteSession.cxx:1825`), PRACK, INFO, MESSAGE, REFER, encryption
levels, `CanDiscardAck`. `PROJECT.json` gives the list for each component.
