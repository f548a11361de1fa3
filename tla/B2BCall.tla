------------------------------ MODULE B2BCall ------------------------------
(***************************************************************************)
(* One call of the back-to-back user agent (b2bua/B2BCall): the call state *)
(* machine, the A legs (callers) it serves, the B leg (the camera) it      *)
(* dials, and every handler that the task loop or the dialog usage manager *)
(* invokes on it.  A handler is an operator from call record to call       *)
(* record; module B2BUA runs the handlers.                                 *)
(***************************************************************************)
EXTENDS DumSession, Naturals

CONSTANTS
  Leg,      \* the A legs a call may have
  NoLeg     \* aFirstLegAppDialog before a call exists

ASSUME LegAssumption == NoLeg \notin Leg

PreDialState == {"NewCall", "AuthorizationPending", "AuthorizationSuccess",
                 "AuthorizationFail", "MediaProxySuccess", "MediaProxyFail"}
DialingState == {"ReadyToDial", "DialInProgress", "DialFailed", "DialRejected",
                 "SelectAlternateRoute", "DialAborted", "DialReceived180",
                 "DialReceivedEarlyAnswer", "DialEarlyMediaProxySuccess",
                 "DialEarlyMediaProxyFail"}
ConnectedState == {"CallAccepted", "CallAcceptedMediaProxySuccess",
                   "CallAcceptedMediaProxyFail", "CallActive"}
HangupState == {"CallerHangup", "CalleeHangup", "LocalHangup"}
FinishingState == {"CallerCancel", "CallStop", "CallStopMediaProxySuccess",
                   "CallStopMediaProxyFail", "CallStopFinal"} \cup HangupState
CallState == PreDialState \cup DialingState \cup ConnectedState \cup FinishingState

\* None: the slot has no call yet.  Deleted: the B2BCall object was freed.
LiveState == CallState
Absent == {"None", "Deleted"}

getStatus(s) ==
  CASE s \in PreDialState   -> "PreDial"
    [] s \in DialingState   -> "Dialing"
    [] s \in ConnectedState -> "Connected"
    [] s \in FinishingState -> "Finishing"
    [] OTHER -> s

ClearingReason == {"Unset", "InvalidDestination", "AuthError", "NoAnswerCancel",
                   "NoAnswerError", "RejectBusy", "RejectOther",
                   "AnsweredALegHangup", "AnsweredBLegHangup", "AnsweredLimit",
                   "AnsweredError"}
AnsweredReason == {"AnsweredALegHangup", "AnsweredBLegHangup", "AnsweredLimit",
                   "AnsweredError"}

\* What a dialling attempt was refused with; none is failureStatusCode = -1.
FailureCode == {"none", "busy", "other"}

\* The answers of the CallHandle interface to authorizeCall and getAuthResult.
AuthResult == {"noHandle", "pending", "permitted", "denied"}

\* What MediaProxy::updateSdp meets: a private address behind NAT forces the
\* media through the relay, and the relay may have no port left (it throws).
SdpOutcome == [nat : BOOLEAN, fail : BOOLEAN]

\* The B2BCall object with the sessions it drives.
Record ==
  [st      : CallState \cup Absent,
   first   : Leg \cup {NoLeg},       \* aFirstLegAppDialog, never reset
   legs    : SUBSET Leg,             \* keys of aLegAppDialogs
   back    : SUBSET Leg,             \* A legs whose AppDialog points to the call
   uas     : [Leg -> UasState],
   bset    : BOOLEAN,                \* bLegAppDialogSet # NULL
   bleg    : BOOLEAN,                \* bLegAppDialog # NULL
   uac     : UacState,
   offered : BOOLEAN,                \* the B leg's INVITE carried an offer
   asdp    : SUBSET Leg,             \* keys of MediaManager::aLegProxys
   bsdp    : BOOLEAN,                \* MediaManager::bLegProxy # NULL
   trans   : {"Unset", "C2T", "C2V2T"},
   rtp     : BOOLEAN,                \* MediaManager::rtpProxyUtil # NULL
   routes  : Nat,                    \* routes from callRoute to the end
   code    : FailureCode,            \* failureStatusCode
   connected : BOOLEAN,              \* connectTime # 0
   reason  : ClearingReason,         \* fullClearingReason
   early   : BOOLEAN,                \* earlyAnswerSent
   late    : BOOLEAN,                \* more than 15 s since startTime
   rings   : Nat,                    \* provisional responses of the B leg so far
   bad     : BOOLEAN]                \* a handler ran into assert(0), a NULL or a
                                     \* freed object, or an uncaught exception

NoCall ==
  [st |-> "None", first |-> NoLeg, legs |-> {}, back |-> {},
   uas |-> [l \in Leg |-> "Idle"], bset |-> FALSE, bleg |-> FALSE,
   uac |-> "None", offered |-> FALSE, asdp |-> {}, bsdp |-> FALSE,
   trans |-> "Unset", rtp |-> FALSE, routes |-> 0, code |-> "none",
   connected |-> FALSE, reason |-> "Unset", early |-> FALSE, late |-> FALSE,
   rings |-> 0, bad |-> FALSE]

Live(c) == c.st \in LiveState

-----------------------------------------------------------------------------
\* isCallStatePermitted: the state changes that setCallState lets through, while
\* the call is dialling, from its acceptance to its end, and before it dials.
DialPermits(s) ==
  CASE s = "ReadyToDial" -> {"CallerCancel", "DialInProgress"}
    [] s = "DialInProgress" ->
         {"CallerCancel", "DialFailed", "DialRejected", "DialInProgress",
          "DialReceived180", "DialReceivedEarlyAnswer", "CallAccepted", "CallStop"}
    [] s = "DialFailed" -> {"CallerCancel", "SelectAlternateRoute", "CallStop"}
    [] s = "DialRejected" ->
         {"CallerCancel", "SelectAlternateRoute", "DialAborted", "CallStop"}
    [] s = "SelectAlternateRoute" -> {"CallerCancel", "ReadyToDial", "DialAborted"}
    [] s = "DialReceived180" ->
         {"CallerCancel", "DialInProgress", "DialFailed", "DialRejected",
          "DialReceivedEarlyAnswer", "CallAccepted", "CallStop"}
    [] s = "DialReceivedEarlyAnswer" ->
         {"CallerCancel", "DialInProgress", "DialFailed", "DialRejected",
          "DialEarlyMediaProxySuccess", "DialEarlyMediaProxyFail",
          "CallAccepted", "CallStop"}
    [] s = "DialEarlyMediaProxySuccess" ->
         {"CallerCancel", "DialInProgress", "DialFailed", "DialRejected",
          "CallAccepted", "CallStop"}
    [] OTHER -> {"CallStop"}    \* DialAborted, DialEarlyMediaProxyFail

AnsweredPermits(s) ==
  CASE s = "CallAccepted" ->
         {"CallerCancel", "CallAcceptedMediaProxySuccess",
          "CallAcceptedMediaProxyFail", "CallActive", "CallStop"} \cup HangupState
    [] s = "CallAcceptedMediaProxySuccess" ->
         {"CallerCancel", "CallActive", "CallStop"} \cup HangupState
    [] s = "CallActive" -> {"CallerCancel", "CallStop"} \cup HangupState
    [] s = "CallStop" ->
         {"CallStopMediaProxySuccess", "CallStopMediaProxyFail", "CallStopFinal"}
    [] s \in {"CallStopMediaProxySuccess", "CallStopMediaProxyFail"} ->
         {"CallStopFinal"}
    [] s \in {"CallAcceptedMediaProxyFail"} \cup HangupState -> {"CallStop"}
    [] OTHER -> {}

Permitted(s) ==
  CASE s = "NewCall" -> {"CallerCancel", "AuthorizationPending", "CallStop"}
    [] s = "AuthorizationPending" ->
         {"AuthorizationSuccess", "AuthorizationFail", "CallerCancel", "CallStop"}
    [] s = "AuthorizationSuccess" ->
         {"CallerCancel", "MediaProxySuccess", "MediaProxyFail", "CallStop"}
    [] s = "MediaProxySuccess" -> {"CallerCancel", "ReadyToDial", "CallStop"}
    [] s \in {"CallerCancel", "AuthorizationFail", "MediaProxyFail"} -> {"CallStop"}
    [] s \in DialingState -> DialPermits(s)
    [] OTHER -> AnsweredPermits(s)

\* A change that is not permitted is logged and ignored.
setCallState(c, s) == [c EXCEPT !.st = IF s \in Permitted(@) THEN s ELSE @]

\* Mutant: the last clearing reason wins.
replaceReason(c, r) == [c EXCEPT !.reason = r]

\* The first clearing reason stays.
setClearingReason(c, r) == [c EXCEPT !.reason = IF @ = "Unset" THEN r ELSE @]

setClearingReasonMediaFail(c) ==
  setClearingReason(c, IF c.connected THEN "AnsweredError" ELSE "NoAnswerError")

-----------------------------------------------------------------------------
\* Calling a session method m on A leg l, or on the B leg through its dialog.
\* Outside m's domain the code asserts or follows a dangling pointer; the
\* record remembers it and the call goes on as in a build without assertions.
CallLeg(c, l, m) ==
  [c EXCEPT !.uas[l] = IF @ \in DOMAIN m THEN m[@] ELSE @,
            !.bad = @ \/ c.uas[l] \notin DOMAIN m]

CallFirst(c, m) == CallLeg(c, c.first, m)

CallBLeg(c, m) ==
  IF c.bleg /\ c.uac \in DOMAIN m
    THEN [c EXCEPT !.uac = m[@]]
    ELSE [c EXCEPT !.bad = TRUE]

\* Reading aFirstLegAppDialog without calling its session.
TouchFirst(c) == [c EXCEPT !.bad = @ \/ c.uas[c.first] = "Gone"]

\* MediaManager: the transport a new SDP leads to (NAT always wins, otherwise
\* the first SDP fixes it), and whether the relay refuses it.
transType(c, m) ==
  IF m.nat THEN "C2V2T" ELSE IF c.trans = "Unset" THEN "C2T" ELSE c.trans

sdpThrows(c, m) == transType(c, m) = "C2V2T" /\ m.fail

\* aLegProxys gets its entry before updateSdp can throw.
setALegSdp(c, l, m) ==
  [c EXCEPT !.asdp = @ \cup {l}, !.trans = transType(c, m),
            !.rtp = @ \/ transType(c, m) = "C2V2T"]

\* Only an A leg's SDP creates rtpProxyUtil; the B leg dereferences it.
setBLegSdp(c, m) ==
  [c EXCEPT !.bsdp = TRUE, !.trans = transType(c, m),
            !.bad = @ \/ (transType(c, m) = "C2V2T" /\ ~ c.rtp)]

-----------------------------------------------------------------------------
(* The steps of checkProgress, one operator per do... method.              *)

\* Mutant: the camera is not hung up.
stopCallersOnly(c) ==
  LET d == [c EXCEPT
              !.back = @ \ c.legs,
              !.uas = [l \in Leg |-> IF l \in c.legs /\ c.uas[l] \in DOMAIN Uas_end
                                       THEN Uas_end[c.uas[l]] ELSE c.uas[l]]]
  IN  setCallState(d, "CallStopFinal")

\* Hang up every A leg and the B leg, and forget them.
doCallStop(c) ==
  LET d == [c EXCEPT
              !.back = @ \ c.legs,
              !.uas = [l \in Leg |-> IF l \in c.legs /\ c.uas[l] \in DOMAIN Uas_end
                                       THEN Uas_end[c.uas[l]] ELSE c.uas[l]],
              !.uac = IF c.bset THEN Uac_end[@] ELSE @]
  IN  setCallState(d, "CallStopFinal")

doHangup(c) == doCallStop(setCallState(c, "CallStop"))

\* A new MyAppDialogSet for the current route; the INVITE carries the first
\* caller's SDP when there is one.
doReadyToDial(c) ==
  LET d == TouchFirst([c EXCEPT !.bset = TRUE, !.uac = "Calling",
                                !.offered = c.first \in c.asdp])
  IN  setCallState(d, "DialInProgress")

doMediaProxySuccess(c) == doReadyToDial(setCallState(c, "ReadyToDial"))

doMediaProxyFail(c) == setCallState(setClearingReason(c, "AuthError"), "CallStop")

\* Mutant: the media proxy step is left to a later sweep.
authorizeOnly(c, n) ==
  setCallState([c EXCEPT !.routes = n], "MediaProxySuccess")

\* n is the number of routes that the call handle returns.
doAuthorizationSuccess(c, n) ==
  LET d == [c EXCEPT !.routes = n]
  IN  IF n = 0
        THEN setCallState(CallFirst(setClearingReason(d, "InvalidDestination"),
                                    Uas_reject), "CallStop")
        ELSE doMediaProxySuccess(setCallState(d, "MediaProxySuccess"))

\* Mutant: the refused call is not stopped.
refuseOnly(c) == CallFirst(setClearingReason(c, "AuthError"), Uas_reject)

doAuthorizationFail(c) ==
  setCallState(CallFirst(setClearingReason(c, "AuthError"), Uas_reject), "CallStop")

doAuthorizationPending(c, auth, n) ==
  CASE auth = "pending"   -> c
    [] auth = "permitted" ->
         doAuthorizationSuccess(setCallState(c, "AuthorizationSuccess"), n)
    [] OTHER -> setCallState(c, "AuthorizationFail")

doNewCall(c, auth, n) ==
  LET d == TouchFirst(c)
  IN  IF auth = "noHandle"
        THEN setCallState(d, "CallStop")
        ELSE doAuthorizationPending(setCallState(d, "AuthorizationPending"), auth, n)

doCallerCancel(c) ==
  LET d == setClearingReason(c, "NoAnswerCancel")
  IN  setCallState(IF d.bset THEN [d EXCEPT !.uac = Uac_end[@]] ELSE d, "CallStop")

\* Mutant: dialling has no time limit.
dialOn(c) == c

doDialInProgress(c) == IF c.late THEN setCallState(c, "CallStop") ELSE c

doDialAborted(c) ==
  LET d == CallFirst(setClearingReason(c, IF c.code = "none" THEN "AuthError"
                                                             ELSE "RejectOther"),
                     Uas_reject)
  IN  doCallStop(setCallState(d, "CallStop"))

\* Mutant: the end of the route list is not tested.
redialForEver(c) ==
  doReadyToDial(setCallState([c EXCEPT !.routes = @ - 1], "ReadyToDial"))

doSelectAlternateRoute(c) ==
  LET d == [c EXCEPT !.routes = @ - 1]
  IN  IF d.routes = 0
        THEN doDialAborted(setCallState(d, "DialAborted"))
        ELSE doReadyToDial(setCallState(d, "ReadyToDial"))

\* End the refused B leg and cut it loose before the next route.
dropBLeg(c) ==
  [c EXCEPT !.uac = IF c.bset THEN Uac_end[@] ELSE @, !.bset = FALSE, !.bleg = FALSE]

doDialFailed(c) ==
  doSelectAlternateRoute(
    setCallState([dropBLeg(c) EXCEPT !.code = "none"], "SelectAlternateRoute"))

doDialRejected(c) ==
  CASE c.code = "none" ->
         doSelectAlternateRoute(setCallState(c, "SelectAlternateRoute"))
    [] c.code = "busy" ->
         doDialAborted(setCallState(setClearingReason(c, "RejectBusy"), "DialAborted"))
    [] OTHER ->
         doSelectAlternateRoute(setCallState(dropBLeg(c), "SelectAlternateRoute"))

\* Mutant: the caller is told even when the state change was refused.
ringAlways(c) == CallFirst(setCallState(c, "DialInProgress"), Uas_provisional)

\* Also called straight from MyDialogSetHandler::onNonDialogCreatingProvisional.
doDialReceived180(c) ==
  IF "DialInProgress" \in Permitted(c.st)
    THEN CallFirst(setCallState(c, "DialInProgress"), Uas_provisional)
    ELSE c

doDialEarlyMediaProxySuccess(c) ==
  setCallState([CallFirst(c, Uas_provisional) EXCEPT !.early = TRUE], "DialInProgress")

doDialEarlyMediaProxyFail(c) ==
  setCallState(CallFirst(setClearingReason(c, "AuthError"), Uas_reject), "CallStop")

\* getBLegSdp and provideAnswer may throw; both are caught.
answerThrows(c) == ~ c.bsdp \/ c.uas[c.first] \in UasAnswerThrows

doDialReceivedEarlyAnswer(c) ==
  IF c.early
    THEN setCallState(c, "DialInProgress")
  ELSE IF answerThrows(c)
    THEN setCallState(setClearingReason(TouchFirst(c), "AuthError"),
                      "DialEarlyMediaProxyFail")
  ELSE doDialEarlyMediaProxySuccess(
         setCallState(CallFirst(c, Uas_provideAnswer), "DialEarlyMediaProxySuccess"))

doCallAcceptedMediaProxySuccess(c) ==
  setCallState([CallFirst(c, Uas_accept) EXCEPT !.connected = TRUE], "CallActive")

doCallAcceptedMediaProxyFail(c) ==
  setCallState(CallFirst(setClearingReason(c, "AnsweredError"), Uas_reject), "CallStop")

doCallAccepted(c) ==
  IF ~ c.early /\ answerThrows(c)
    THEN setCallState(setClearingReason(TouchFirst(c), "AnsweredError"),
                      "CallAcceptedMediaProxyFail")
    ELSE doCallAcceptedMediaProxySuccess(
           setCallState(IF c.early THEN c ELSE CallFirst(c, Uas_provideAnswer),
                        "CallAcceptedMediaProxySuccess"))

doCallActive(c, mustHangup) ==
  IF mustHangup
    THEN setCallState(setClearingReason(c, "AnsweredLimit"), "LocalHangup")
    ELSE c

\* checkProgress: auth, n and mustHangup are what the call handle answers.
checkProgress(c, auth, n, mustHangup) ==
  CASE c.st = "NewCall"                    -> doNewCall(c, auth, n)
    [] c.st = "CallerCancel"               -> doCallerCancel(c)
    [] c.st = "AuthorizationPending"       -> doAuthorizationPending(c, auth, n)
    [] c.st = "AuthorizationSuccess"       -> doAuthorizationSuccess(c, n)
    [] c.st = "AuthorizationFail"          -> doAuthorizationFail(c)
    [] c.st = "MediaProxySuccess"          -> doMediaProxySuccess(c)
    [] c.st = "MediaProxyFail"             -> doMediaProxyFail(c)
    [] c.st = "ReadyToDial"                -> doReadyToDial(c)
    [] c.st = "DialInProgress"             -> doDialInProgress(c)
    [] c.st = "DialFailed"                 -> doDialFailed(c)
    [] c.st = "DialRejected"               -> doDialRejected(c)
    [] c.st = "SelectAlternateRoute"       -> doSelectAlternateRoute(c)
    [] c.st = "DialAborted"                -> doDialAborted(c)
    [] c.st = "DialReceived180"            -> doDialReceived180(c)
    [] c.st = "DialReceivedEarlyAnswer"    -> doDialReceivedEarlyAnswer(c)
    [] c.st = "DialEarlyMediaProxySuccess" -> doDialEarlyMediaProxySuccess(c)
    [] c.st = "DialEarlyMediaProxyFail"    -> doDialEarlyMediaProxyFail(c)
    [] c.st = "CallAccepted"               -> doCallAccepted(c)
    [] c.st = "CallAcceptedMediaProxySuccess" -> doCallAcceptedMediaProxySuccess(c)
    [] c.st = "CallAcceptedMediaProxyFail" -> doCallAcceptedMediaProxyFail(c)
    [] c.st = "CallActive"                 -> doCallActive(c, mustHangup)
    [] c.st \in HangupState                -> doHangup(c)
    [] c.st = "CallStop"                   -> doCallStop(c)
    [] c.st \in {"CallStopMediaProxySuccess", "CallStopMediaProxyFail"} ->
         setCallState(c, "CallStopFinal")
    [] OTHER -> c

\* The B2BCall object is freed; only the sessions it started live on.
deleted(c) ==
  [NoCall EXCEPT !.st = "Deleted", !.uas = c.uas, !.back = c.back, !.uac = c.uac,
                 !.bad = c.bad]

\* checkProgress followed by the isComplete test of doTaskProcessing.
sweepCall(c, auth, n, mustHangup) ==
  LET d == checkProgress(c, auth, n, mustHangup)
  IN  IF d.st = "CallStopFinal" THEN deleted(d) ELSE d

-----------------------------------------------------------------------------
(* The callbacks of the dialog usage manager (MyInviteSessionHandler,      *)
(* MyDialogSetHandler, MyAppDialog).                                       *)

\* The constructor, for the first caller l.
B2BCallNew(l) ==
  [NoCall EXCEPT !.st = "NewCall", !.first = l, !.legs = {l}, !.back = {l}]

addALegAppDialog(c, l) == [c EXCEPT !.legs = @ \cup {l}, !.back = @ \cup {l}]

\* An offer from the first caller, in its INVITE or in a re-INVITE that is
\* relayed to the camera of a call in progress.
onOfferFirst(c, m) ==
  LET d == setALegSdp(c, c.first, m)
  IN  IF sdpThrows(c, m)
        THEN setCallState(setClearingReasonMediaFail(d), "CallStop")
      ELSE IF d.bleg /\ d.legs = {d.first} /\ d.st = "CallActive"
        THEN CallBLeg(d, Uac_provideOffer)
      ELSE d

\* Mutant: the caller is answered whatever the state of the call.
joinAnyTime(c, l, m) ==
  LET d == setALegSdp(c, l, m)
  IN  IF sdpThrows(c, m) \/ ~ d.bsdp
        THEN d
        ELSE CallLeg(CallLeg(d, l, Uas_provideAnswer), l, Uas_accept)

\* An offer from a caller that joined later: answered at once, but only in a
\* call in progress.  An exception of the relay is swallowed.
onOfferJoiner(c, l, m) ==
  IF c.st # "CallActive"
    THEN c
    ELSE LET d == setALegSdp(c, l, m)
         IN  IF sdpThrows(c, m) \/ ~ d.bsdp
               THEN d
               ELSE CallLeg(CallLeg(d, l, Uas_provideAnswer), l, Uas_accept)

\* onOfferRequired: a later caller without an offer is sent the camera's.
onOfferRequired(c, l) ==
  IF l # c.first /\ c.st = "CallActive"
    THEN CallLeg(CallLeg(c, l, Uas_provideOffer), l, Uas_accept)
    ELSE c

doCallOffered(c) ==
  IF c.uas[c.first] \in UasOfferThrows
    THEN setCallState(setClearingReason(c, "AnsweredError"), "CallAcceptedMediaProxyFail")
    ELSE CallFirst(CallFirst(c, Uas_provideOffer), Uas_accept)

\* An offer from the camera, in its 2xx or in a re-INVITE.
onOfferB(c, m) ==
  LET d == setBLegSdp(c, m)
  IN  IF sdpThrows(c, m)
        THEN setCallState(setClearingReasonMediaFail(d), "CallStop")
        ELSE doCallOffered(d)

\* Mutant: connectTime is not set.
answerNotTimed(c, m) == setBLegSdp(setCallState(c, "CallAccepted"), m)

\* The camera's answer.  connectTime is set whether or not the state changes.
onAnswerB(c, m) ==
  LET d == [setCallState(c, "CallAccepted") EXCEPT !.connected = TRUE]
      e == setBLegSdp(d, m)
  IN  IF c.st = "CallActive"
        THEN [setBLegSdp(c, m) EXCEPT !.bad = @ \/ sdpThrows(c, m)]
      ELSE IF sdpThrows(c, m)
        THEN setCallState(setClearingReasonMediaFail(e), "CallStop")
      ELSE e

doCallAnswered(c) ==
  setCallState([CallBLeg(c, Uac_provideAnswer) EXCEPT !.connected = TRUE], "CallActive")

\* A caller's answer to an offer of the camera.  No exception is caught here.
onAnswerA(c, l, m) ==
  LET d == [setALegSdp(c, l, m) EXCEPT !.bad = @ \/ sdpThrows(c, m) \/ ~ c.bleg]
  IN  CASE c.st # "CallActive" -> doCallAnswered(d)
        [] c.st = "CallActive" /\ l = c.first -> CallBLeg(d, Uac_provideAnswer)
        [] OTHER -> d

onRinging(c) == setCallState(c, "DialReceived180")

onEarlyMedia(c, m) ==
  LET d == setCallState(c, "DialReceivedEarlyAnswer")
      e == setBLegSdp(d, m)
  IN  IF sdpThrows(d, m)
        THEN setClearingReason(setCallState(e, "DialEarlyMediaProxyFail"), "NoAnswerError")
        ELSE e

onRejected(c, code) ==
  IF "DialRejected" \in Permitted(c.st)
    THEN [setCallState(c, "DialRejected") EXCEPT !.code = code]
    ELSE c

\* Mutant: the leg is taken to have left the map already.
cancelAfterLast(c, l) == IF c.legs = {} THEN setCallState(c, "CallerCancel") ELSE c

\* aLegAppDialogs.size() = 1 is legs = {l}: the leg is still in the map.
onCancel(c, l) == IF c.legs = {l} THEN setCallState(c, "CallerCancel") ELSE c

onHangupA(c, l) ==
  IF c.legs = {l}
    THEN setCallState(setClearingReason(c, "AnsweredALegHangup"), "CallerHangup")
    ELSE c

onHangupB(c) ==
  setCallState(setClearingReason(c, "AnsweredBLegHangup"), "CalleeHangup")

\* States in which a stop request finds the call already on its way out.
EndingState == {"CallerCancel", "AuthorizationFail", "MediaProxyFail",
                "DialEarlyMediaProxyFail", "CallAcceptedMediaProxyFail", "CallStop",
                "CallStopMediaProxySuccess", "CallStopMediaProxyFail",
                "CallStopFinal"} \cup HangupState

onStopping(c) == IF c.st \in EndingState THEN c ELSE setCallState(c, "CallStop")

\* ~MyAppDialog of an A leg, ~MyAppDialog and ~MyAppDialogSet of the B leg.
releaseAppDialog(c, l) ==
  IF l \in c.back THEN [c EXCEPT !.legs = @ \ {l}, !.back = @ \ {l}] ELSE c

releaseAppDialogSet(c) == [c EXCEPT !.bset = FALSE, !.bleg = FALSE]
=============================================================================
