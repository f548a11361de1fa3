------------------------------- MODULE B2BUA -------------------------------
(***************************************************************************)
(* The B2BUA thread and the thread that stops it.  The task loop           *)
(* (TaskManager::start) alternates between two tasks: it drains the dialog *)
(* usage manager's queue (DialogUsageManagerRecurringTask), whose messages *)
(* invoke the callbacks of the calls, and then sweeps over all calls       *)
(* (B2BCallManager::doTaskProcessing), advancing each one and deleting the *)
(* finished ones.  TaskManager::stop runs in the main thread and sets the  *)
(* flags that the loop polls.                                              *)
(*                                                                         *)
(* All calls of the model go to one destination: a later caller joins a    *)
(* call whose media is relayed (C2V2T) and opens a new call otherwise.     *)
(***************************************************************************)
EXTENDS B2BCall

CONSTANTS
  Call,          \* call slots; each is used once
  OfferKinds,    \* does a caller's INVITE carry an offer?
  SdpKinds,      \* outcomes of processing an SDP body
  AuthResults,   \* answers of the authorization manager
  RouteCounts,   \* numbers of routes it may return
  HangupAnswers, \* answers of CallHandle::mustHangup
  RejectCodes,   \* failure codes of the camera
  MaxRings,      \* bound on provisional responses per call
  Reinvites,     \* who may send a re-INVITE: a subset of {"A", "B"}
  EarlyBye,      \* may a caller send BYE before its call is answered?
  AckLoss        \* may the ACK of a caller's 2xx be lost?

ASSUME ConstantsAssumption ==
  /\ OfferKinds \subseteq BOOLEAN
  /\ SdpKinds \subseteq SdpOutcome
  /\ AuthResults \subseteq AuthResult
  /\ RouteCounts \subseteq Nat
  /\ HangupAnswers \subseteq BOOLEAN
  /\ RejectCodes \subseteq FailureCode
  /\ MaxRings \in Nat
  /\ EarlyBye \in BOOLEAN
  /\ AckLoss \in BOOLEAN

VARIABLES
  call,       \* the calls
  phase,      \* "dum" or "sweep": the task the loop is in; "done": it returned
  todo,       \* calls that the current sweep has not visited
  dumDone,    \* the queue task has completed and left the loop
  mgrDone,    \* the call task has completed and left the loop
  stopPc,     \* progress of TaskManager::stop
  stopping,   \* B2BCallManager::stopping
  mustStopCalls

vars == <<call, phase, todo, dumDone, mgrDone, stopPc, stopping, mustStopCalls>>
loopVars == <<phase, todo, dumDone, mgrDone>>
stopVars == <<stopPc, stopping, mustStopCalls>>

LiveCalls == {k \in Call : Live(call[k])}

Init ==
  /\ call = [k \in Call |-> NoCall]
  /\ phase = "dum"
  /\ todo = {}
  /\ dumDone = FALSE
  /\ mgrDone = FALSE
  /\ stopPc = "running"
  /\ stopping = FALSE
  /\ mustStopCalls = FALSE

-----------------------------------------------------------------------------
(* Messages that the dialog usage manager delivers while it drains its     *)
(* queue.                                                                  *)

\* A message for call k turns its record into c.
Deliver(k, c) ==
  /\ phase = "dum" /\ ~ dumDone
  /\ call' = [call EXCEPT ![k] = c]
  /\ UNCHANGED <<loopVars, stopVars>>

\* Mutant: the stop request is not looked at.
newSessionWhileStopping(k, l, offer, m) ==
  /\ call[k].st = "None"
  /\ \A j \in LiveCalls : call[j].trans # "C2V2T"
  /\ LET c == B2BCallNew(l)
     IN  Deliver(k, IF offer
                      THEN onOfferFirst([c EXCEPT !.uas[l] = "Offer"], m)
                      ELSE [c EXCEPT !.uas[l] = "NoOffer"])

\* onNewSession for a caller that opens a call, with its onOffer or
\* onOfferRequired.  While stopping every INVITE is answered with 503.
NewSession(k, l, offer, m) ==
  /\ ~ stopping
  /\ call[k].st = "None"
  /\ \A j \in LiveCalls : call[j].trans # "C2V2T"
  /\ LET c == B2BCallNew(l)
     IN  Deliver(k, IF offer
                      THEN onOfferFirst([c EXCEPT !.uas[l] = "Offer"], m)
                      ELSE [c EXCEPT !.uas[l] = "NoOffer"])

\* onNewSession for a caller that joins a relayed call.
JoinSession(k, l, offer, m) ==
  /\ ~ stopping
  /\ Live(call[k])
  /\ call[k].trans = "C2V2T"
  /\ call[k].uas[l] = "Idle"
  /\ LET c == addALegAppDialog(call[k], l)
     IN  Deliver(k, IF offer
                      THEN onOfferJoiner([c EXCEPT !.uas[l] = "Offer"], l, m)
                      ELSE onOfferRequired([c EXCEPT !.uas[l] = "NoOffer"], l))

\* CANCEL before the final response; after the 2xx it changes nothing.
CallerCancels(k, l) ==
  /\ Live(call[k])
  /\ call[k].uas[l] \in EarlyUas
  /\ Deliver(k, onCancel([call[k] EXCEPT !.uas[l] = "Dying"], l))

\* BYE.  A session that waits for the answer to its offer treats it as an
\* unknown request and the call does not hear of it.
CallerHangsUp(k, l) ==
  /\ Live(call[k])
  /\ \/ call[k].uas[l] \in UpUas
     \/ EarlyBye /\ call[k].uas[l] \in EarlyUas
  /\ LET c == [call[k] EXCEPT !.uas[l] = "Dying"]
     IN  Deliver(k, IF call[k].uas[l] = "WaitAnswer" THEN c ELSE onHangupA(c, l))

\* The ACK of a caller's 2xx: it may release a queued offer or carry the answer.
CallerAcks(k, l, m) ==
  /\ Live(call[k])
  /\ \/ /\ call[k].uas[l] = "Accepted"
        /\ Deliver(k, [call[k] EXCEPT !.uas[l] = "Connected"])
     \/ /\ call[k].uas[l] = "WaitOffer"
        /\ Deliver(k, [call[k] EXCEPT !.uas[l] = "Reoffered"])
     \/ /\ call[k].uas[l] = "WaitAnswer"
        /\ Deliver(k, onAnswerA([call[k] EXCEPT !.uas[l] = "Connected"], l, m))

\* No ACK in time: the session hangs up by itself with reason LocalBye, which
\* MyInviteSessionHandler::onTerminated does not pass on.
AckTimeout(k, l) ==
  /\ AckLoss
  /\ Live(call[k])
  /\ call[k].uas[l] \in {"Accepted", "WaitAnswer"}
  /\ Deliver(k, [call[k] EXCEPT !.uas[l] = "Ended"])

\* The answer to a BYE that the session itself sent.
CallerByeAnswered(k, l) ==
  /\ Live(call[k])
  /\ call[k].uas[l] = "Ended"
  /\ Deliver(k, [call[k] EXCEPT !.uas[l] = "Dying"])

\* A caller's re-INVITE, and its answer to one that the camera started.
CallerReinvites(k, l, m) ==
  /\ "A" \in Reinvites
  /\ Live(call[k])
  /\ call[k].uas[l] = "Connected"
  /\ LET c == [call[k] EXCEPT !.uas[l] = "Reinvited"]
     IN  Deliver(k, IF l = c.first THEN onOfferFirst(c, m) ELSE onOfferJoiner(c, l, m))

CallerAnswersReinvite(k, l, m) ==
  /\ Live(call[k])
  /\ call[k].uas[l] = "Reoffered"
  /\ Deliver(k, onAnswerA([call[k] EXCEPT !.uas[l] = "Connected"], l, m))

\* DestroyUsage of a finished A leg reaches ~MyAppDialog.
DestroyCaller(k, l) ==
  /\ Live(call[k])
  /\ call[k].uas[l] = "Dying"
  /\ Deliver(k, releaseAppDialog([call[k] EXCEPT !.uas[l] = "Gone"], l))

-----------------------------------------------------------------------------
\* A provisional response of the camera that creates no dialog.
CameraTrying(k) ==
  /\ Live(call[k])
  /\ call[k].uac \in {"Calling", "Trying"}
  /\ call[k].rings < MaxRings
  /\ Deliver(k, doDialReceived180([call[k] EXCEPT !.uac = "Trying", !.rings = @ + 1]))

\* createAppDialog: the B leg's dialog registers with its call.
withDialog(c, s) == [c EXCEPT !.uac = s, !.bleg = TRUE]

\* 180 with a dialog.
CameraRings(k) ==
  /\ Live(call[k])
  /\ call[k].uac \in PendingUac
  /\ call[k].rings < MaxRings
  /\ Deliver(k, onRinging([withDialog(call[k], "Early") EXCEPT !.rings = @ + 1]))

\* 18x with an answer to our offer; a 180 also counts as ringing.
CameraEarlyMedia(k, ringing, m) ==
  /\ Live(call[k])
  /\ call[k].uac \in PendingUac
  /\ call[k].offered
  /\ call[k].rings < MaxRings
  /\ LET c == [withDialog(call[k], "Early") EXCEPT !.rings = @ + 1]
     IN  Deliver(k, onEarlyMedia(IF ringing THEN onRinging(c) ELSE c, m))

\* 2xx: the answer to our offer, or the camera's own offer.
CameraAnswers(k, m) ==
  /\ Live(call[k])
  /\ call[k].uac \in PendingUac
  /\ IF call[k].offered
       THEN Deliver(k, onAnswerB(withDialog(call[k], "Connected"), m))
       ELSE Deliver(k, onOfferB(withDialog(call[k], "Answered"), m))

\* A failure response, also the stack's own 408 and 503.
CameraRejects(k, code) ==
  /\ Live(call[k])
  /\ call[k].uac \in PendingUac
  /\ Deliver(k, onRejected(withDialog(call[k], "Dying"), code))

CameraHangsUp(k) ==
  /\ Live(call[k])
  /\ call[k].uac \in UpUac
  /\ Deliver(k, onHangupB([call[k] EXCEPT !.uac = "Dying"]))

CameraReinvites(k, m) ==
  /\ "B" \in Reinvites
  /\ Live(call[k])
  /\ call[k].uac = "Connected"
  /\ Deliver(k, onOfferB([call[k] EXCEPT !.uac = "Reinvited"], m))

CameraAnswersReinvite(k, m) ==
  /\ Live(call[k])
  /\ call[k].uac = "Reoffered"
  /\ Deliver(k, onAnswerB([call[k] EXCEPT !.uac = "Connected"], m))

\* The camera answers our BYE or CANCEL.
CameraEnded(k) ==
  /\ Live(call[k])
  /\ call[k].uac = "Ending"
  /\ Deliver(k, [call[k] EXCEPT !.uac = "Dying"])

DestroyCamera(k) ==
  /\ Live(call[k])
  /\ call[k].uac = "Dying"
  /\ Deliver(k, releaseAppDialogSet([call[k] EXCEPT !.uac = "Gone"]))

-----------------------------------------------------------------------------
(* The loop.                                                               *)

\* The queue task returns only when its queue is empty, so every DestroyUsage
\* posted before has been executed.
Drained ==
  \A k \in LiveCalls : /\ call[k].uac # "Dying"
                       /\ \A l \in Leg : call[k].uas[l] # "Dying"

\* Fifteen seconds have passed since the call's startTime.
TimePasses(k) ==
  /\ phase # "done"
  /\ call[k].st \in DialingState
  /\ ~ call[k].late
  /\ call' = [call EXCEPT ![k].late = TRUE]
  /\ UNCHANGED <<loopVars, stopVars>>

\* STOP_TIMEOUT has passed since TaskManager::stop reached the queue task.
DumComplete ==
  /\ phase = "dum" /\ ~ dumDone
  /\ Drained
  /\ stopPc # "running"
  /\ dumDone' = TRUE
  /\ UNCHANGED <<call, phase, todo, mgrDone, stopVars>>

\* doTaskProcessing up to its second loop.
SweepStart ==
  /\ phase = "dum"
  /\ ~ mgrDone
  /\ dumDone \/ Drained
  /\ call' = [k \in Call |-> IF mustStopCalls /\ Live(call[k])
                               THEN onStopping(call[k]) ELSE call[k]]
  /\ mustStopCalls' = FALSE
  /\ phase' = "sweep"
  /\ todo' = LiveCalls
  /\ UNCHANGED <<dumDone, mgrDone, stopPc, stopping>>

CheckCall(k, auth, n, mustHangup) ==
  /\ phase = "sweep"
  /\ k \in todo
  /\ auth = "noHandle" => call[k].st = "NewCall"
  /\ \E c \in {sweepCall(call[k], auth, n, mustHangup)} : call' = [call EXCEPT ![k] = c]
  /\ todo' = todo \ {k}
  /\ UNCHANGED <<phase, dumDone, mgrDone, stopVars>>

\* Mutant: the request flag, already consumed, is tested.
sweepEndOnRequest ==
  /\ phase = "sweep"
  /\ todo = {}
  /\ mgrDone' = (mustStopCalls /\ LiveCalls = {})
  /\ phase' = "dum"
  /\ UNCHANGED <<call, todo, dumDone, stopVars>>

SweepEnd ==
  /\ phase = "sweep"
  /\ todo = {}
  /\ mgrDone' = (stopping /\ LiveCalls = {})
  /\ phase' = "dum"
  /\ UNCHANGED <<call, todo, dumDone, stopVars>>

\* TaskManager::start returns when no task is left.
LoopReturns ==
  /\ phase = "dum" /\ dumDone /\ mgrDone
  /\ phase' = "done"
  /\ UNCHANGED <<call, todo, dumDone, mgrDone, stopVars>>

-----------------------------------------------------------------------------
(* TaskManager::stop in the main thread: the queue task first, then the    *)
(* two assignments of B2BCallManager::stop, in the order of the code.      *)

StopDum ==
  /\ stopPc = "running"
  /\ stopPc' = "dumStopped"
  /\ UNCHANGED <<call, loopVars, stopping, mustStopCalls>>

StopCallsFirst ==
  /\ stopPc = "dumStopped"
  /\ stopPc' = "half"
  /\ stopping' = TRUE
  /\ UNCHANGED <<call, loopVars, mustStopCalls>>

StopCallsSecond ==
  /\ stopPc = "half"
  /\ stopPc' = "stopped"
  /\ mustStopCalls' = TRUE
  /\ UNCHANGED <<call, loopVars, stopping>>

-----------------------------------------------------------------------------
CallerMessage ==
  \E k \in Call, l \in Leg :
    \/ \E offer \in OfferKinds, m \in SdpKinds :
         NewSession(k, l, offer, m) \/ JoinSession(k, l, offer, m)
    \/ CallerCancels(k, l)
    \/ CallerHangsUp(k, l)
    \/ \E m \in SdpKinds : \/ CallerAcks(k, l, m)
                           \/ CallerReinvites(k, l, m)
                           \/ CallerAnswersReinvite(k, l, m)
    \/ AckTimeout(k, l)
    \/ CallerByeAnswered(k, l)

CameraMessage ==
  \E k \in Call :
    \/ CameraTrying(k)
    \/ CameraRings(k)
    \/ \E ringing \in BOOLEAN, m \in SdpKinds : CameraEarlyMedia(k, ringing, m)
    \/ \E m \in SdpKinds : \/ CameraAnswers(k, m)
                           \/ CameraReinvites(k, m)
                           \/ CameraAnswersReinvite(k, m)
    \/ \E code \in RejectCodes : CameraRejects(k, code)
    \/ CameraHangsUp(k)
    \/ CameraEnded(k)

Destroy == \E k \in Call : DestroyCamera(k) \/ \E l \in Leg : DestroyCaller(k, l)

Check(k) == \E auth \in AuthResults, n \in RouteCounts, h \in HangupAnswers :
              CheckCall(k, auth, n, h)

Loop == SweepStart \/ SweepEnd \/ LoopReturns \/ \E k \in Call : Check(k)

Stop == StopDum \/ StopCallsFirst \/ StopCallsSecond

\* The loop has returned: nothing happens any more.
Terminated == phase = "done" /\ UNCHANGED vars

Next ==
  \/ CallerMessage
  \/ CameraMessage
  \/ Destroy
  \/ \E k \in Call : TimePasses(k)
  \/ DumComplete
  \/ Loop
  \/ Stop
  \/ Terminated

Spec == Init /\ [][Next]_vars

\* The loop, the clock and the queue make progress; so does stop() once called.
Fairness ==
  /\ WF_vars(Loop)
  /\ WF_vars(Destroy)
  /\ WF_vars(DumComplete)
  /\ \A k \in Call : WF_vars(TimePasses(k))
  /\ WF_vars(StopCallsFirst \/ StopCallsSecond)

FairSpec == Spec /\ Fairness
-----------------------------------------------------------------------------
(* Properties.                                                             *)

\* Every variable has its type (B2BCall.hxx, B2BCallManager.hxx, TaskManager.hxx).
TypeOK ==
  /\ call \in [Call -> Record]
  /\ phase \in {"dum", "sweep", "done"}
  /\ todo \in SUBSET Call
  /\ dumDone \in BOOLEAN
  /\ mgrDone \in BOOLEAN
  /\ stopPc \in {"running", "dumStopped", "half", "stopped"}
  /\ stopping \in BOOLEAN
  /\ mustStopCalls \in BOOLEAN

\* Once the sweep has consumed the stop request no call is left that the
\* request did not reach: every call that still exists is on its way out.
\* Neither a denied state change nor a call opened between the two assignments
\* of B2BCallManager::stop may escape.
StopReachesEveryCall ==
  stopPc = "stopped" /\ ~ mustStopCalls =>
    \A k \in LiveCalls : call[k].st \in EndingState

\* No call waits between two sweeps in a state that its own handler should
\* have left: those states have no CallStop transition or are not polled
\* (ReadyToDial, SelectAlternateRoute, DialAborted, CallStopFinal and others).
RestingState ==
  {"NewCall", "AuthorizationPending", "AuthorizationFail", "DialInProgress",
   "DialRejected", "DialReceived180", "DialReceivedEarlyAnswer",
   "DialEarlyMediaProxyFail", "CallAccepted", "CallAcceptedMediaProxyFail",
   "CallActive", "CallerCancel", "CallStop"} \cup HangupState
CallsRest == \A k \in LiveCalls : call[k].st \in RestingState

\* A deleted call has hung up: no caller is left ringing or connected, the
\* camera's INVITE is cancelled, refused or ended (doCallStop), and no dialog
\* still points to the call (the destructor leaves the A legs alone, "NTD", and
\* relies on doCallStop).
NoSessionLeftBehind ==
  \A k \in Call : call[k].st = "Deleted" =>
    /\ \A l \in Leg : call[k].uas[l] \in {"Idle"} \cup OverUas
    /\ call[k].uac \in {"None"} \cup OverUac
    /\ call[k].back = {}

\* No handler uses a session in a state where the dialog usage manager asserts,
\* or a leg that is gone.
NeverMisused == \A k \in Call : ~ call[k].bad

\* connectTime is set only in calls that are connected or finishing: an
\* answered call is no longer subject to the 15 s dialling limit.
AnsweredIsNotDialing ==
  \A k \in LiveCalls : call[k].connected =>
    getStatus(call[k].st) \in {"Connected", "Finishing"}

\* State, connectTime and clearing reason agree on whether a call was answered:
\* besides the state, a reason from the Answered group is only given to calls
\* that were, although an answer may cross a cancel or the time limit.
AnswerAgrees ==
  /\ AnsweredIsNotDialing
  /\ \A k \in LiveCalls : call[k].reason \in AnsweredReason => call[k].connected

\* A call whose last caller is gone is on its way out (onCancel, onHangup).
NoCallWithoutCaller ==
  \A k \in LiveCalls : call[k].legs = {} => call[k].st \in EndingState

\* The first clearing reason of a call is never replaced.
ReasonStable ==
  [][\A k \in LiveCalls : call[k].reason # "Unset" /\ Live(call[k])'
        => call'[k].reason = call[k].reason]_vars

\* The calls implement CallLifecycle.
Lifecycle == INSTANCE CallLifecycle WITH
  status    <- [k \in Call |-> getStatus(call[k].st)],
  served    <- [k \in Call |-> {l \in Leg : call[k].uas[l] \in UpUas}],
  picked    <- [k \in Call |-> call[k].uac \in UpUac],
  accepting <- ~ stopping
ImplementsLifecycle == Lifecycle!Spec

\* Dialling ends, by an answer, a refusal, a cancel or the 15 s limit, and a call
\* that is finishing is deleted, even if its peers never say anything again.
CallEnds ==
  \A k \in Call :
    /\ call[k].st \in DialingState ~> call[k].st \notin DialingState
    /\ call[k].st \in EndingState ~> call[k].st = "Deleted"

\* After stop() the loop deletes every call and returns.
StopDrains == stopPc = "stopped" ~> phase = "done"
=============================================================================
