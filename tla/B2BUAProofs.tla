---------------------------- MODULE B2BUAProofs ----------------------------
(***************************************************************************)
(* Theorems about module B2BUA, for every number of calls and callers and  *)
(* every choice of the other constants.                                    *)
(*                                                                         *)
(* The inductive invariant says of each call that its record is well       *)
(* typed, that it rests in a state that the loop polls, and that a call    *)
(* that is dialling has a route left; and of the shutdown that its flags   *)
(* are set in the order of B2BCallManager::stop.  What one handler does to *)
(* one call is summarised by Keeps, which is transitive: a handler is a    *)
(* chain of small changes, each of which Keeps the call.                   *)
(*                                                                         *)
(* AnswerAgrees needs more: that sessions, connectTime, reason and state   *)
(* agree on whether a call was answered (Agrees), and that no caller's     *)
(* DestroyUsage is queued when a sweep hands on an early answer (Quiet).   *)
(***************************************************************************)
EXTENDS B2BUA, TLAPS

\* A call between two handlers.
Sound(c) ==
  /\ c \in Record
  /\ Live(c) => c.st \in RestingState
  /\ c.st \in DialingState => c.routes # 0

\* A change of one call that no handler may go beyond: the call stays sound, an
\* ending call stays ending, and a clearing reason stays.
Keeps(c, d) ==
  /\ Sound(d)
  /\ Live(c) => Live(d)
  /\ c.st \in EndingState => d.st \in EndingState
  /\ c.reason # "Unset" => d.reason = c.reason

-----------------------------------------------------------------------------
(* The transition table.                                                   *)

\* A call that is on its way out stays on its way out.
LEMMA PermittedEnding ==
  ASSUME NEW s \in EndingState, NEW t \in Permitted(s)
  PROVE  t \in EndingState
BY DEF EndingState, Permitted, DialPermits, AnsweredPermits, DialingState, HangupState

\* Resting calls start to dial only from a dialling state.
LEMMA PermittedDialing ==
  ASSUME NEW s \in RestingState, s \notin DialingState, NEW t \in Permitted(s)
  PROVE  t \notin DialingState
BY DEF RestingState, Permitted, DialPermits, AnsweredPermits, HangupState, DialingState

\* Every resting call can be stopped.
LEMMA PermittedStop ==
  ASSUME NEW s \in RestingState, s \notin EndingState
  PROVE  "CallStop" \in Permitted(s)
BY DEF RestingState, EndingState, Permitted, DialPermits, AnsweredPermits, DialingState, HangupState

LEMMA RestingIsLive == RestingState \subseteq CallState
BY DEF RestingState, CallState, PreDialState, DialingState, ConnectedState,
       FinishingState, HangupState

LEMMA EndingIsLive == EndingState \subseteq CallState
BY DEF EndingState, CallState, PreDialState, DialingState, ConnectedState,
       FinishingState, HangupState

LEMMA AbsentIsNotLive == Absent \cap CallState = {}
BY DEF Absent, CallState, PreDialState, DialingState, ConnectedState,
       FinishingState, HangupState

\* A call that does not exist goes nowhere.
LEMMA AbsentPermits == ASSUME NEW s \in Absent PROVE Permitted(s) = {}
BY DEF Absent, Permitted, DialPermits, AnsweredPermits, DialingState, HangupState

-----------------------------------------------------------------------------
(* The small changes that handlers are made of.                            *)

LEMMA KeepsSelf == ASSUME NEW c, Sound(c) PROVE Keeps(c, c)
BY DEF Keeps

LEMMA KeepsTrans ==
  ASSUME NEW c, NEW d, NEW e, Keeps(c, d), Keeps(d, e)
  PROVE  Keeps(c, e)
BY DEF Keeps

\* A change that touches neither the state nor the routes nor the reason.
LEMMA KeepsData ==
  ASSUME NEW c, Sound(c), NEW d \in Record,
         d.st = c.st, d.routes = c.routes, d.reason = c.reason
  PROVE  Keeps(c, d)
BY DEF Keeps, Sound, Live

LEMMA KeepsState ==
  ASSUME NEW c, Sound(c), NEW s \in RestingState
  PROVE  Keeps(c, setCallState(c, s))
<1> DEFINE d == setCallState(c, s)
<1>1. /\ d \in Record
      /\ d.st = IF s \in Permitted(c.st) THEN s ELSE c.st
      /\ d.routes = c.routes
      /\ d.reason = c.reason
  BY RestingIsLive DEF Sound, setCallState, Record
<1>2. c.st \in DialingState \/ d.st \notin DialingState
  <2>1. CASE Live(c)
    BY <1>1, <2>1, PermittedDialing DEF Sound
  <2>2. CASE ~ Live(c)
    BY <1>1, <2>2, AbsentPermits DEF Sound, Live, LiveState, Record
  <2> QED BY <2>1, <2>2
<1>3. IF Live(c) THEN Live(d) /\ d.st \in RestingState ELSE d.st = c.st
  BY <1>1, RestingIsLive, AbsentPermits DEF Sound, Live, LiveState, Record
<1>4. c.st \in EndingState => d.st \in EndingState
  BY <1>1, PermittedEnding
<1> QED BY <1>1, <1>2, <1>3, <1>4 DEF Keeps, Sound, Live

LEMMA KeepsReason ==
  ASSUME NEW c, Sound(c), NEW r \in ClearingReason
  PROVE  Keeps(c, setClearingReason(c, r))
<1> DEFINE d == setClearingReason(c, r)
<1>1. /\ d \in Record
      /\ d.st = c.st
      /\ d.routes = c.routes
      /\ d.reason = IF c.reason = "Unset" THEN r ELSE c.reason
  BY DEF Sound, setClearingReason, Record
<1> QED BY <1>1 DEF Keeps, Sound, Live

LEMMA KeepsMediaFail ==
  ASSUME NEW c, Sound(c)
  PROVE  Keeps(c, setClearingReasonMediaFail(c))
BY KeepsReason DEF setClearingReasonMediaFail, ClearingReason

\* The methods of the sessions lead from session states to session states.
UasMethod(m) == /\ DOMAIN m \subseteq UasState
                /\ \A s \in DOMAIN m : m[s] \in UasState
UacMethod(m) == /\ DOMAIN m \subseteq UacState
                /\ \A s \in DOMAIN m : m[s] \in UacState

LEMMA UasMethods ==
  /\ UasMethod(Uas_provisional)
  /\ UasMethod(Uas_reject)
  /\ UasMethod(Uas_provideAnswer)
  /\ UasMethod(Uas_provideOffer)
  /\ UasMethod(Uas_accept)
  /\ UasMethod(Uas_end)
<1> USE DEF UasMethod, UasState, EarlyUas, UpUas, OverUas
<1>1. UasMethod(Uas_provisional)   BY DEF Uas_provisional
<1>2. UasMethod(Uas_reject)        BY DEF Uas_reject
<1>3. UasMethod(Uas_provideAnswer) BY DEF Uas_provideAnswer
<1>4. UasMethod(Uas_provideOffer)  BY DEF Uas_provideOffer
<1>5. UasMethod(Uas_accept)        BY DEF Uas_accept
<1>6. UasMethod(Uas_end)           BY DEF Uas_end
<1> QED BY <1>1, <1>2, <1>3, <1>4, <1>5, <1>6

LEMMA UacMethods ==
  /\ UacMethod(Uac_provideOffer)
  /\ UacMethod(Uac_provideAnswer)
  /\ DOMAIN Uac_end = UacState
  /\ \A s \in UacState : Uac_end[s] \in UacState
<1> USE DEF UacMethod, UacState, PendingUac, UpUac, OverUac
<1>1. UacMethod(Uac_provideOffer)  BY DEF Uac_provideOffer
<1>2. UacMethod(Uac_provideAnswer) BY DEF Uac_provideAnswer
<1>3. DOMAIN Uac_end = UacState /\ \A s \in UacState : Uac_end[s] \in UacState
  BY DEF Uac_end
<1> QED BY <1>1, <1>2, <1>3

LEMMA KeepsLeg ==
  ASSUME NEW c, Sound(c), NEW l, NEW m, UasMethod(m)
  PROVE  Keeps(c, CallLeg(c, l, m))
<1> DEFINE d == CallLeg(c, l, m)
<1>1. d \in Record /\ d.st = c.st /\ d.routes = c.routes /\ d.reason = c.reason
  BY ZenonT(60) DEF Sound, CallLeg, Record, UasMethod
<1> QED BY <1>1, KeepsData

LEMMA KeepsFirst ==
  ASSUME NEW c, Sound(c), NEW m, UasMethod(m)
  PROVE  Keeps(c, CallFirst(c, m))
BY KeepsLeg DEF CallFirst

LEMMA KeepsBLeg ==
  ASSUME NEW c, Sound(c), NEW m, UacMethod(m)
  PROVE  Keeps(c, CallBLeg(c, m))
<1> DEFINE d == CallBLeg(c, m)
<1>1. d \in Record /\ d.st = c.st /\ d.routes = c.routes /\ d.reason = c.reason
  BY DEF Sound, CallBLeg, Record, UacMethod
<1> QED BY <1>1, KeepsData

LEMMA KeepsTouch == ASSUME NEW c, Sound(c) PROVE Keeps(c, TouchFirst(c))
<1> DEFINE d == TouchFirst(c)
<1>1. d \in Record /\ d.st = c.st /\ d.routes = c.routes /\ d.reason = c.reason
  BY DEF Sound, TouchFirst, Record
<1> QED BY <1>1, KeepsData

LEMMA TransType ==
  ASSUME NEW c \in Record, NEW m
  PROVE  transType(c, m) \in {"Unset", "C2T", "C2V2T"}
BY DEF transType, Record

LEMMA KeepsASdp ==
  ASSUME NEW c, Sound(c), NEW l \in Leg, NEW m
  PROVE  Keeps(c, setALegSdp(c, l, m))
<1> DEFINE d == setALegSdp(c, l, m)
<1>1. d \in Record /\ d.st = c.st /\ d.routes = c.routes /\ d.reason = c.reason
  BY TransType DEF Sound, setALegSdp, Record
<1> QED BY <1>1, KeepsData

LEMMA KeepsBSdp ==
  ASSUME NEW c, Sound(c), NEW m
  PROVE  Keeps(c, setBLegSdp(c, m))
<1> DEFINE d == setBLegSdp(c, m)
<1>1. d \in Record /\ d.st = c.st /\ d.routes = c.routes /\ d.reason = c.reason
  BY ZenonT(60), TransType DEF Sound, setBLegSdp, Record
<1> QED BY <1>1, KeepsData

-----------------------------------------------------------------------------
(* The callbacks of the dialog usage manager.                              *)

LEMMA KeepsSound == ASSUME NEW c, NEW d, Keeps(c, d) PROVE Sound(d)
BY DEF Keeps

LEMMA Targets ==
  {"CallerCancel", "CallStop", "DialReceived180", "DialReceivedEarlyAnswer",
   "DialEarlyMediaProxyFail", "DialRejected", "DialInProgress", "CallAccepted",
   "CallActive", "CallAcceptedMediaProxyFail", "CallerHangup", "CalleeHangup",
   "LocalHangup", "AuthorizationFail"} \subseteq RestingState
BY DEF RestingState, HangupState

LEMMA KeepsOfferFirst ==
  ASSUME NEW c, Sound(c), c.first \in Leg, NEW m
  PROVE  Keeps(c, onOfferFirst(c, m))
<1> DEFINE d == setALegSdp(c, c.first, m)
<1>1. Keeps(c, d) /\ Sound(d)
  BY KeepsASdp, KeepsSound
<1>2. Keeps(c, setCallState(setClearingReasonMediaFail(d), "CallStop"))
  <2>1. Keeps(d, setClearingReasonMediaFail(d))
    BY <1>1, KeepsMediaFail
  <2>2. Keeps(setClearingReasonMediaFail(d),
              setCallState(setClearingReasonMediaFail(d), "CallStop"))
    BY <2>1, KeepsSound, KeepsState, Targets
  <2> QED BY <1>1, <2>1, <2>2, KeepsTrans
<1>3. Keeps(c, CallBLeg(d, Uac_provideOffer))
  BY <1>1, KeepsBLeg, UacMethods, KeepsTrans
<1> HIDE DEF d
<1> QED BY <1>1, <1>2, <1>3 DEF onOfferFirst, d

LEMMA KeepsOfferJoiner ==
  ASSUME NEW c, Sound(c), NEW l \in Leg, NEW m
  PROVE  Keeps(c, onOfferJoiner(c, l, m))
<1> DEFINE d == setALegSdp(c, l, m)
           e == CallLeg(d, l, Uas_provideAnswer)
<1>1. Keeps(c, d) /\ Sound(d)
  BY KeepsASdp, KeepsSound
<1>2. Keeps(d, e) /\ Sound(e)
  BY <1>1, KeepsLeg, UasMethods, KeepsSound
<1>3. Keeps(e, CallLeg(e, l, Uas_accept))
  BY <1>2, KeepsLeg, UasMethods
<1>4. Keeps(c, CallLeg(e, l, Uas_accept))
  BY <1>1, <1>2, <1>3, KeepsTrans
<1> QED BY <1>1, <1>4, KeepsSelf DEF onOfferJoiner

LEMMA KeepsOfferRequired ==
  ASSUME NEW c, Sound(c), NEW l \in Leg
  PROVE  Keeps(c, onOfferRequired(c, l))
<1> DEFINE d == CallLeg(c, l, Uas_provideOffer)
<1>1. Keeps(c, d) /\ Sound(d)
  BY KeepsLeg, UasMethods, KeepsSound
<1>2. Keeps(c, CallLeg(d, l, Uas_accept))
  BY <1>1, KeepsLeg, UasMethods, KeepsTrans
<1> QED BY <1>2, KeepsSelf DEF onOfferRequired

LEMMA KeepsCallOffered ==
  ASSUME NEW c, Sound(c)
  PROVE  Keeps(c, doCallOffered(c))
<1> DEFINE d == CallFirst(c, Uas_provideOffer)
           r == setClearingReason(c, "AnsweredError")
<1>1. Keeps(c, d) /\ Sound(d)
  BY KeepsFirst, UasMethods, KeepsSound
<1>2. Keeps(c, CallFirst(d, Uas_accept))
  BY <1>1, KeepsFirst, UasMethods, KeepsTrans
<1>3. Keeps(c, r) /\ Sound(r)
  BY KeepsReason, KeepsSound DEF ClearingReason
<1>4. Keeps(c, setCallState(r, "CallAcceptedMediaProxyFail"))
  BY <1>3, KeepsState, Targets, KeepsTrans
<1> QED BY <1>2, <1>4 DEF doCallOffered

LEMMA KeepsOfferB ==
  ASSUME NEW c, Sound(c), NEW m
  PROVE  Keeps(c, onOfferB(c, m))
<1> DEFINE d == setBLegSdp(c, m)
           r == setClearingReasonMediaFail(d)
<1>1. Keeps(c, d) /\ Sound(d)
  BY KeepsBSdp, KeepsSound
<1>2. Keeps(d, r) /\ Sound(r)
  BY <1>1, KeepsMediaFail, KeepsSound
<1>3. Keeps(r, setCallState(r, "CallStop"))
  BY <1>2, KeepsState, Targets
<1>4. Keeps(c, setCallState(r, "CallStop"))
  BY <1>1, <1>2, <1>3, KeepsTrans
<1>5. Keeps(c, doCallOffered(d))
  BY <1>1, KeepsCallOffered, KeepsTrans
<1> QED BY <1>4, <1>5 DEF onOfferB

\* connectTime is no part of what a handler has to keep.
LEMMA KeepsConnect ==
  ASSUME NEW c, Sound(c)
  PROVE  Keeps(c, [c EXCEPT !.connected = TRUE])
<1> DEFINE d == [c EXCEPT !.connected = TRUE]
<1>1. d \in Record /\ d.st = c.st /\ d.routes = c.routes /\ d.reason = c.reason
  BY DEF Sound, Record
<1> QED BY <1>1, KeepsData

\* Neither is the misuse flag.
LEMMA KeepsBad ==
  ASSUME NEW c, Sound(c), NEW b \in BOOLEAN
  PROVE  Keeps(c, [c EXCEPT !.bad = @ \/ b])
<1> DEFINE d == [c EXCEPT !.bad = @ \/ b]
<1>1. d \in Record /\ d.st = c.st /\ d.routes = c.routes /\ d.reason = c.reason
  BY DEF Sound, Record
<1> QED BY <1>1, KeepsData

LEMMA KeepsAnswerB ==
  ASSUME NEW c, Sound(c), NEW m
  PROVE  Keeps(c, onAnswerB(c, m))
<1> DEFINE a == setCallState(c, "CallAccepted")
           d == [a EXCEPT !.connected = TRUE]
           e == setBLegSdp(d, m)
           r == setClearingReasonMediaFail(e)
           b == setBLegSdp(c, m)
<1>1. Keeps(c, a) /\ Sound(a)
  BY KeepsState, Targets, KeepsSound
<1>2. Keeps(a, d) /\ Sound(d)
  BY <1>1, KeepsConnect, KeepsSound
<1>3. Keeps(d, e) /\ Sound(e)
  <2> HIDE DEF d
  <2> QED BY <1>2, KeepsBSdp, KeepsSound
<1>4. Keeps(e, r) /\ Sound(r)
  BY <1>3, KeepsMediaFail, KeepsSound
<1>5. Keeps(r, setCallState(r, "CallStop"))
  BY <1>4, KeepsState, Targets
<1>6. Keeps(c, e)
  BY <1>1, <1>2, <1>3, KeepsTrans
<1>7. Keeps(c, setCallState(r, "CallStop"))
  BY <1>4, <1>5, <1>6, KeepsTrans
<1>8. Keeps(c, [b EXCEPT !.bad = @ \/ sdpThrows(c, m)])
  <2>1. Keeps(c, b) /\ Sound(b)
    BY KeepsBSdp, KeepsSound
  <2>2. sdpThrows(c, m) \in BOOLEAN
    BY DEF sdpThrows
  <2> HIDE DEF b
  <2>3. Keeps(b, [b EXCEPT !.bad = @ \/ sdpThrows(c, m)])
    BY <2>1, <2>2, KeepsBad
  <2> QED BY <2>1, <2>3, KeepsTrans
<1> QED BY <1>6, <1>7, <1>8 DEF onAnswerB

LEMMA KeepsCallAnswered ==
  ASSUME NEW c, Sound(c)
  PROVE  Keeps(c, doCallAnswered(c))
<1> DEFINE b == CallBLeg(c, Uac_provideAnswer)
           d == [b EXCEPT !.connected = TRUE]
<1>1. Keeps(c, b) /\ Sound(b)
  BY KeepsBLeg, UacMethods, KeepsSound
<1>2. Keeps(b, d) /\ Sound(d)
  <2> HIDE DEF b
  <2> QED BY <1>1, KeepsConnect, KeepsSound
<1>3. Keeps(d, setCallState(d, "CallActive"))
  <2> HIDE DEF d
  <2> QED BY <1>2, KeepsState, Targets
<1> QED BY <1>1, <1>2, <1>3, KeepsTrans DEF doCallAnswered

LEMMA KeepsAnswerA ==
  ASSUME NEW c, Sound(c), NEW l \in Leg, NEW m
  PROVE  Keeps(c, onAnswerA(c, l, m))
<1> DEFINE a == setALegSdp(c, l, m)
           d == [a EXCEPT !.bad = @ \/ sdpThrows(c, m) \/ ~ c.bleg]
<1>1. Keeps(c, a) /\ Sound(a)
  BY KeepsASdp, KeepsSound
<1>2. Keeps(a, d) /\ Sound(d)
  <2> HIDE DEF a
  <2>1. /\ d \in Record
        /\ d.st = a.st /\ d.routes = a.routes /\ d.reason = a.reason
    BY ZenonT(60), <1>1 DEF Sound, Record
  <2> QED BY <1>1, <2>1, KeepsData, KeepsSound
<1>3. Keeps(c, d)
  BY <1>1, <1>2, KeepsTrans
<1> HIDE DEF d
<1>4. Keeps(c, doCallAnswered(d))
  BY <1>2, <1>3, KeepsCallAnswered, KeepsTrans
<1>5. Keeps(c, CallBLeg(d, Uac_provideAnswer))
  BY <1>2, <1>3, KeepsBLeg, UacMethods, KeepsTrans
<1> QED BY <1>3, <1>4, <1>5 DEF onAnswerA, d

LEMMA KeepsReceived180 ==
  ASSUME NEW c, Sound(c)
  PROVE  Keeps(c, doDialReceived180(c))
<1> DEFINE d == setCallState(c, "DialInProgress")
<1>1. Keeps(c, d) /\ Sound(d)
  BY KeepsState, Targets, KeepsSound
<1>2. Keeps(d, CallFirst(d, Uas_provisional))
  BY <1>1, KeepsFirst, UasMethods
<1> QED BY <1>1, <1>2, KeepsTrans, KeepsSelf DEF doDialReceived180

LEMMA KeepsRinging ==
  ASSUME NEW c, Sound(c)
  PROVE  Keeps(c, onRinging(c))
BY KeepsState, Targets DEF onRinging

LEMMA KeepsEarlyMedia ==
  ASSUME NEW c, Sound(c), NEW m
  PROVE  Keeps(c, onEarlyMedia(c, m))
<1> DEFINE d == setCallState(c, "DialReceivedEarlyAnswer")
           e == setBLegSdp(d, m)
           f == setCallState(e, "DialEarlyMediaProxyFail")
<1>1. Keeps(c, d) /\ Sound(d)
  BY KeepsState, Targets, KeepsSound
<1>2. Keeps(d, e) /\ Sound(e)
  BY <1>1, KeepsBSdp, KeepsSound
<1>3. Keeps(e, f) /\ Sound(f)
  BY <1>2, KeepsState, Targets, KeepsSound
<1>4. Keeps(f, setClearingReason(f, "NoAnswerError"))
  BY <1>3, KeepsReason DEF ClearingReason
<1> QED BY <1>1, <1>2, <1>3, <1>4, KeepsTrans DEF onEarlyMedia

LEMMA KeepsRejected ==
  ASSUME NEW c, Sound(c), NEW code \in FailureCode
  PROVE  Keeps(c, onRejected(c, code))
<1> DEFINE d == setCallState(c, "DialRejected")
           e == [d EXCEPT !.code = code]
<1>1. Keeps(c, d) /\ Sound(d)
  BY KeepsState, Targets, KeepsSound
<1>2. Keeps(d, e)
  <2> HIDE DEF d
  <2>1. /\ e \in Record
        /\ e.st = d.st /\ e.routes = d.routes /\ e.reason = d.reason
    BY <1>1 DEF Sound, Record
  <2> QED BY <1>1, <2>1, KeepsData
<1> QED BY <1>1, <1>2, KeepsTrans, KeepsSelf DEF onRejected

LEMMA KeepsCancel ==
  ASSUME NEW c, Sound(c), NEW l
  PROVE  Keeps(c, onCancel(c, l))
BY KeepsState, Targets, KeepsSelf DEF onCancel

LEMMA KeepsHangupA ==
  ASSUME NEW c, Sound(c), NEW l
  PROVE  Keeps(c, onHangupA(c, l))
<1> DEFINE d == setClearingReason(c, "AnsweredALegHangup")
<1>1. Keeps(c, d) /\ Sound(d)
  BY KeepsReason, KeepsSound DEF ClearingReason
<1>2. Keeps(d, setCallState(d, "CallerHangup"))
  BY <1>1, KeepsState, Targets
<1> QED BY <1>1, <1>2, KeepsTrans, KeepsSelf DEF onHangupA

LEMMA KeepsHangupB ==
  ASSUME NEW c, Sound(c)
  PROVE  Keeps(c, onHangupB(c))
<1> DEFINE d == setClearingReason(c, "AnsweredBLegHangup")
<1>1. Keeps(c, d) /\ Sound(d)
  BY KeepsReason, KeepsSound DEF ClearingReason
<1>2. Keeps(d, setCallState(d, "CalleeHangup"))
  BY <1>1, KeepsState, Targets
<1> QED BY <1>1, <1>2, KeepsTrans DEF onHangupB

\* A stop request puts every live call on its way out.
LEMMA KeepsStopping ==
  ASSUME NEW c, Sound(c)
  PROVE  /\ Keeps(c, onStopping(c))
         /\ Live(c) => onStopping(c).st \in EndingState
<1>1. Keeps(c, onStopping(c))
  BY KeepsState, Targets, KeepsSelf DEF onStopping
<1>2. ASSUME Live(c), c.st \notin EndingState
      PROVE  onStopping(c).st = "CallStop"
  BY <1>2, PermittedStop DEF Sound, onStopping, setCallState, Record
<1>3. "CallStop" \in EndingState
  BY DEF EndingState
<1> QED BY <1>1, <1>2, <1>3 DEF onStopping

LEMMA KeepsRelease ==
  ASSUME NEW c, Sound(c), NEW l \in Leg
  PROVE  Keeps(c, releaseAppDialog(c, l)) /\ Keeps(c, releaseAppDialogSet(c))
<1> DEFINE d == releaseAppDialog(c, l)
           e == releaseAppDialogSet(c)
<1>1. d \in Record /\ d.st = c.st /\ d.routes = c.routes /\ d.reason = c.reason
  <2> DEFINE x == c.legs \ {l}
             y == c.back \ {l}
             f == [c EXCEPT !.legs = x, !.back = y]
  <2>1. x \in SUBSET Leg /\ y \in SUBSET Leg
    BY DEF Sound, Record
  <2>2. d = IF l \in c.back THEN f ELSE c
    BY DEF releaseAppDialog
  <2>3. f \in Record /\ f.st = c.st /\ f.routes = c.routes /\ f.reason = c.reason
    <3> HIDE DEF x, y
    <3> QED BY <2>1 DEF Sound, Record
  <2> HIDE DEF f
  <2> QED BY <2>2, <2>3 DEF Sound
<1>2. e \in Record /\ e.st = c.st /\ e.routes = c.routes /\ e.reason = c.reason
  BY DEF Sound, releaseAppDialogSet, Record
<1> QED BY <1>1, <1>2, KeepsData

-----------------------------------------------------------------------------
(* checkProgress.  Inside a sweep a call passes through states in which it *)
(* never rests; there only its type, its reason and its routes are known.  *)

\* What sweepCall makes of a call.
Swept(c, d) ==
  /\ Sound(d)
  /\ Live(d) /\ c.st \in EndingState => d.st \in EndingState
  /\ Live(d) /\ c.reason # "Unset" => d.reason = c.reason

\* The end of a call: in CallStop, doCallStop leads to CallStopFinal.
LEMMA StopFinal ==
  ASSUME NEW c \in Record, c.st = "CallStop"
  PROVE  doCallStop(c) \in Record /\ doCallStop(c).st = "CallStopFinal"
<1> DEFINE u == [l \in Leg |-> IF l \in c.legs /\ c.uas[l] \in DOMAIN Uas_end
                                 THEN Uas_end[c.uas[l]] ELSE c.uas[l]]
           v == IF c.bset THEN Uac_end[c.uac] ELSE c.uac
           b == c.back \ c.legs
           d == [c EXCEPT !.back = b, !.uas = u, !.uac = v]
<1>1. u \in [Leg -> UasState]
  BY UasMethods DEF Record, UasMethod
<1>2. v \in UacState
  BY UacMethods DEF Record
<1>3. b \in SUBSET Leg
  BY DEF Record
<1>4. d \in Record /\ d.st = "CallStop"
  <2> HIDE DEF u, v, b
  <2> QED BY <1>1, <1>2, <1>3 DEF Record
<1>5. doCallStop(c) = setCallState(d, "CallStopFinal")
  BY DEF doCallStop
<1>6. "CallStopFinal" \in Permitted("CallStop") /\ "CallStopFinal" \in CallState
  BY DEF Permitted, DialPermits, AnsweredPermits, DialingState, HangupState, CallState, FinishingState
<1> HIDE DEF d
<1> QED BY <1>4, <1>5, <1>6 DEF setCallState, Record

LEMMA DeletedSound ==
  ASSUME NEW c \in Record
  PROVE  deleted(c) \in Record /\ deleted(c).st = "Deleted"
<1>1. NoCall \in Record
  BY DEF NoCall, Record, Absent, UasState, UacState, FailureCode, ClearingReason
<1>2. "Deleted" \in Absent
  BY DEF Absent
<1> QED BY <1>1, <1>2 DEF deleted, Record

\* A call that has reached CallStopFinal is deleted by the same sweep.
LEMMA SweptFinal ==
  ASSUME NEW c, NEW d \in Record, d.st = "CallStopFinal"
  PROVE  Swept(c, deleted(d))
<1>1. deleted(d) \in Record /\ deleted(d).st = "Deleted"
  BY DeletedSound
<1>2. "Deleted" \notin CallState
  BY DEF CallState, PreDialState, DialingState, ConnectedState, FinishingState,
         HangupState
<1>3. "Deleted" \notin DialingState
  BY <1>2 DEF CallState
<1> QED BY <1>1, <1>2, <1>3 DEF Swept, Sound, Live, LiveState

LEMMA SweptKeeps ==
  ASSUME NEW c, NEW d, Keeps(c, d)
  PROVE  Swept(c, d)
BY DEF Keeps, Swept

\* One step of a chain: the change is permitted.
LEMMA PassState ==
  ASSUME NEW c \in Record, NEW s \in CallState, s \in Permitted(c.st)
  PROVE  /\ setCallState(c, s) \in Record
         /\ setCallState(c, s).st = s
         /\ setCallState(c, s).routes = c.routes
         /\ setCallState(c, s).reason = c.reason
BY DEF setCallState, Record

LEMMA PassTouch ==
  ASSUME NEW c \in Record
  PROVE  /\ TouchFirst(c) \in Record
         /\ TouchFirst(c).st = c.st
         /\ TouchFirst(c).routes = c.routes
         /\ TouchFirst(c).reason = c.reason
BY DEF TouchFirst, Record

LEMMA PassFirst ==
  ASSUME NEW c \in Record, NEW m, UasMethod(m)
  PROVE  /\ CallFirst(c, m) \in Record
         /\ CallFirst(c, m).st = c.st
         /\ CallFirst(c, m).routes = c.routes
         /\ CallFirst(c, m).reason = c.reason
BY ZenonT(60) DEF CallFirst, CallLeg, Record, UasMethod

LEMMA PassReason ==
  ASSUME NEW c \in Record, NEW r \in ClearingReason
  PROVE  /\ setClearingReason(c, r) \in Record
         /\ setClearingReason(c, r).st = c.st
         /\ setClearingReason(c, r).routes = c.routes
         /\ c.reason # "Unset" => setClearingReason(c, r).reason = c.reason
BY DEF setClearingReason, Record

\* What checkProgress makes of a call: it is kept or it is finished.
Outcome(c, d) ==
  \/ Keeps(c, d)
  \/ d \in Record /\ d.st = "CallStopFinal"

\* A chain that started in c and has come to e goes on.
LEMMA PassOutcome ==
  ASSUME NEW c, NEW e, NEW d, c.st \notin EndingState, Live(e),
         c.reason # "Unset" => e.reason = c.reason,
         Outcome(e, d)
  PROVE  Outcome(c, d)
BY DEF Outcome, Keeps

LEMMA OutReadyToDial ==
  ASSUME NEW c \in Record, c.st = "ReadyToDial", c.routes # 0
  PROVE  Outcome(c, doReadyToDial(c))
<1> DEFINE o == c.first \in c.asdp
           b == [c EXCEPT !.bset = TRUE, !.uac = "Calling", !.offered = o]
           d == TouchFirst(b)
           e == setCallState(d, "DialInProgress")
<1>1. "Calling" \in UacState /\ o \in BOOLEAN
  BY DEF UacState, PendingUac
<1>2. b \in Record /\ b.st = c.st /\ b.routes = c.routes /\ b.reason = c.reason
  <2> HIDE DEF o
  <2> QED BY <1>1 DEF Record
<1>3. d \in Record /\ d.st = c.st /\ d.routes = c.routes /\ d.reason = c.reason
  <2> HIDE DEF b
  <2> QED BY <1>2, PassTouch
<1>4. "DialInProgress" \in Permitted("ReadyToDial")
  BY DEF Permitted, DialPermits, AnsweredPermits, DialingState, HangupState
<1>5. /\ e \in Record /\ e.st = "DialInProgress"
      /\ e.routes = c.routes /\ e.reason = c.reason
  <2> HIDE DEF d
  <2> QED BY <1>3, <1>4, Targets, RestingIsLive, PassState
<1>6. c.st \notin EndingState
  BY DEF EndingState, HangupState
<1>7. Keeps(c, e)
  <2> HIDE DEF e
  <2> QED BY <1>5, <1>6, Targets, RestingIsLive DEF Keeps, Sound, Live, LiveState
<1>8. e = doReadyToDial(c)
  BY DEF doReadyToDial
<1> QED BY <1>7, <1>8 DEF Outcome

LEMMA OutMediaProxySuccess ==
  ASSUME NEW c \in Record, c.st = "MediaProxySuccess", c.routes # 0
  PROVE  Outcome(c, doMediaProxySuccess(c))
<1> DEFINE d == setCallState(c, "ReadyToDial")
<1>1. "ReadyToDial" \in Permitted("MediaProxySuccess") /\ "ReadyToDial" \in CallState
  BY DEF Permitted, DialPermits, AnsweredPermits, HangupState, CallState, DialingState
<1>2. /\ d \in Record /\ d.st = "ReadyToDial"
      /\ d.routes = c.routes /\ d.reason = c.reason
  BY <1>1, PassState
<1>3. c.st \notin EndingState
  BY DEF EndingState, HangupState
<1> HIDE DEF d
<1>4. Outcome(c, doReadyToDial(d))
  BY <1>1, <1>2, <1>3, OutReadyToDial, PassOutcome DEF Live, LiveState
<1> QED BY <1>4 DEF doMediaProxySuccess, d

LEMMA OutAuthorizationSuccess ==
  ASSUME NEW c \in Record, c.st = "AuthorizationSuccess", NEW n \in Nat
  PROVE  Outcome(c, doAuthorizationSuccess(c, n))
<1> DEFINE d == [c EXCEPT !.routes = n]
           r == setClearingReason(d, "InvalidDestination")
           f == CallFirst(r, Uas_reject)
           e == setCallState(f, "CallStop")
           p == setCallState(d, "MediaProxySuccess")
<1>1. d \in Record /\ d.st = c.st /\ d.routes = n /\ d.reason = c.reason
  BY DEF Record
<1>2. /\ "CallStop" \in Permitted("AuthorizationSuccess")
      /\ "MediaProxySuccess" \in Permitted("AuthorizationSuccess")
      /\ "MediaProxySuccess" \in CallState
      /\ c.st \notin EndingState
      /\ c.st \notin DialingState
      /\ "CallStop" \notin DialingState
  BY DEF Permitted, DialPermits, AnsweredPermits, CallState, PreDialState, EndingState, HangupState, DialingState
<1> HIDE DEF d
<1>3. r \in Record /\ r.st = c.st /\ (c.reason # "Unset" => r.reason = c.reason)
  BY <1>1, PassReason DEF ClearingReason
<1> HIDE DEF r
<1>4. f \in Record /\ f.st = c.st /\ f.reason = r.reason
  BY <1>3, PassFirst, UasMethods
<1> HIDE DEF f
<1>5. e \in Record /\ e.st = "CallStop" /\ e.reason = f.reason
  BY <1>2, <1>4, Targets, RestingIsLive, PassState
<1> HIDE DEF e
<1>6. Outcome(c, e)
  BY <1>2, <1>3, <1>4, <1>5, Targets, RestingIsLive
  DEF Outcome, Keeps, Sound, Live, LiveState
<1>7. p \in Record /\ p.st = "MediaProxySuccess" /\ p.routes = n /\ p.reason = c.reason
  BY <1>1, <1>2, PassState
<1> HIDE DEF p
<1>8. ASSUME n # 0 PROVE Outcome(c, doMediaProxySuccess(p))
  BY <1>2, <1>7, <1>8, OutMediaProxySuccess, PassOutcome DEF Live, LiveState
<1> QED BY <1>6, <1>8 DEF doAuthorizationSuccess, d, r, f, e, p

LEMMA OutAuthorizationPending ==
  ASSUME NEW c, Sound(c), c.st = "AuthorizationPending", NEW auth, NEW n \in Nat
  PROVE  Outcome(c, doAuthorizationPending(c, auth, n))
<1> DEFINE d == setCallState(c, "AuthorizationSuccess")
<1>1. /\ "AuthorizationSuccess" \in Permitted("AuthorizationPending")
      /\ "AuthorizationSuccess" \in CallState
      /\ c.st \notin EndingState
  BY DEF Permitted, DialPermits, AnsweredPermits, DialingState, CallState, PreDialState, EndingState, HangupState
<1>2. d \in Record /\ d.st = "AuthorizationSuccess" /\ d.reason = c.reason
  BY <1>1, PassState DEF Sound
<1> HIDE DEF d
<1>3. Outcome(c, doAuthorizationSuccess(d, n))
  BY <1>1, <1>2, OutAuthorizationSuccess, PassOutcome DEF Live, LiveState
<1>4. Keeps(c, setCallState(c, "AuthorizationFail"))
  BY KeepsState, Targets
<1>5. Keeps(c, c)
  BY KeepsSelf
<1> QED BY <1>3, <1>4, <1>5 DEF doAuthorizationPending, Outcome, d

LEMMA OutNewCall ==
  ASSUME NEW c, Sound(c), c.st = "NewCall", NEW auth, NEW n \in Nat
  PROVE  Outcome(c, doNewCall(c, auth, n))
<1> DEFINE d == TouchFirst(c)
           e == setCallState(d, "AuthorizationPending")
<1>1. Keeps(c, d) /\ Sound(d)
  BY KeepsTouch, KeepsSound
<1>2. Keeps(c, setCallState(d, "CallStop"))
  BY <1>1, KeepsState, Targets, KeepsTrans
<1>3. /\ "AuthorizationPending" \in Permitted("NewCall")
      /\ "AuthorizationPending" \in RestingState
      /\ c.st \notin EndingState
  BY DEF Permitted, DialPermits, AnsweredPermits, DialingState, RestingState, EndingState, HangupState
<1>4. Keeps(c, e) /\ Sound(e) /\ e.st = "AuthorizationPending"
  <2>1. d.st = "NewCall"
    BY PassTouch DEF Sound
  <2>2. Keeps(d, e) /\ e.st = "AuthorizationPending"
    BY <1>1, <1>3, <2>1, KeepsState, RestingIsLive, PassState DEF Sound
  <2> QED BY <1>1, <2>2, KeepsTrans, KeepsSound
<1> HIDE DEF e, d
<1>5. Outcome(c, doAuthorizationPending(e, auth, n))
  BY <1>3, <1>4, RestingIsLive, OutAuthorizationPending, PassOutcome
  DEF Keeps, Live, LiveState
<1> QED BY <1>2, <1>5 DEF doNewCall, Outcome, d, e

LEMMA OutDialAborted ==
  ASSUME NEW c \in Record, c.st = "DialAborted", NEW x
  PROVE  Outcome(x, doDialAborted(c))
<1> DEFINE q == IF c.code = "none" THEN "AuthError" ELSE "RejectOther"
           r == setClearingReason(c, q)
           d == CallFirst(r, Uas_reject)
           e == setCallState(d, "CallStop")
<1>1. "CallStop" \in Permitted("DialAborted")
  BY DEF Permitted, DialPermits, AnsweredPermits, DialingState, HangupState
<1>2. r \in Record /\ r.st = c.st
  BY PassReason DEF ClearingReason
<1> HIDE DEF r
<1>3. d \in Record /\ d.st = c.st
  BY <1>2, PassFirst, UasMethods
<1> HIDE DEF d
<1>4. e \in Record /\ e.st = "CallStop"
  BY <1>1, <1>3, Targets, RestingIsLive, PassState
<1> HIDE DEF e
<1>5. doCallStop(e) \in Record /\ doCallStop(e).st = "CallStopFinal"
  BY <1>4, StopFinal
<1> QED BY <1>5 DEF doDialAborted, Outcome, r, d, e

LEMMA OutSelectAlternateRoute ==
  ASSUME NEW c \in Record, c.st = "SelectAlternateRoute", c.routes # 0
  PROVE  Outcome(c, doSelectAlternateRoute(c))
<1> DEFINE n == c.routes - 1
           d == [c EXCEPT !.routes = n]
           a == setCallState(d, "DialAborted")
           e == setCallState(d, "ReadyToDial")
<1>1. n \in Nat
  BY DEF Record
<1>2. d \in Record /\ d.st = c.st /\ d.routes = n /\ d.reason = c.reason
  <2> HIDE DEF n
  <2> QED BY <1>1 DEF Record
<1>3. /\ "DialAborted" \in Permitted("SelectAlternateRoute")
      /\ "ReadyToDial" \in Permitted("SelectAlternateRoute")
      /\ {"DialAborted", "ReadyToDial"} \subseteq CallState
      /\ c.st \notin EndingState
  BY DEF Permitted, DialPermits, AnsweredPermits, HangupState, CallState, DialingState, EndingState
<1>4. doSelectAlternateRoute(c) =
        IF d.routes = 0 THEN doDialAborted(a) ELSE doReadyToDial(e)
  BY DEF doSelectAlternateRoute
<1> HIDE DEF d, n
<1>5. a \in Record /\ a.st = "DialAborted"
  BY <1>2, <1>3, PassState
<1>6. e \in Record /\ e.st = "ReadyToDial" /\ e.routes = n /\ e.reason = c.reason
  BY <1>2, <1>3, PassState
<1> HIDE DEF a, e
<1>7. Outcome(c, doDialAborted(a))
  BY <1>5, OutDialAborted
<1>8. n # 0 => Outcome(c, doReadyToDial(e))
  BY <1>3, <1>6, OutReadyToDial, PassOutcome DEF Live, LiveState
<1> QED BY <1>2, <1>4, <1>7, <1>8

\* A refused route: the next one is dialled or the call is given up.
LEMMA OutDialRejected ==
  ASSUME NEW c, Sound(c), c.st = "DialRejected"
  PROVE  Outcome(c, doDialRejected(c))
<1> DEFINE v == IF c.bset THEN Uac_end[c.uac] ELSE c.uac
           b == [c EXCEPT !.uac = v, !.bset = FALSE, !.bleg = FALSE]
           r == setClearingReason(c, "RejectBusy")
           s1 == setCallState(c, "SelectAlternateRoute")
           s2 == setCallState(b, "SelectAlternateRoute")
           a == setCallState(r, "DialAborted")
<1>1. c \in Record /\ c.routes # 0
  BY DEF Sound, DialingState
<1>2. /\ "SelectAlternateRoute" \in Permitted("DialRejected")
      /\ "DialAborted" \in Permitted("DialRejected")
      /\ {"SelectAlternateRoute", "DialAborted"} \subseteq CallState
      /\ c.st \notin EndingState
  BY DEF Permitted, DialPermits, AnsweredPermits, HangupState, CallState, DialingState, EndingState
<1>3. v \in UacState
  BY <1>1, UacMethods DEF Record
<1>4. b \in Record /\ b.st = c.st /\ b.routes = c.routes /\ b.reason = c.reason
  <2> HIDE DEF v
  <2> QED BY <1>1, <1>3 DEF Record
<1>5. b = dropBLeg(c)
  BY DEF dropBLeg
<1> HIDE DEF b
<1>6. /\ s1 \in Record /\ s1.st = "SelectAlternateRoute"
      /\ s1.routes = c.routes /\ s1.reason = c.reason
  BY <1>1, <1>2, PassState
<1>7. /\ s2 \in Record /\ s2.st = "SelectAlternateRoute"
      /\ s2.routes = c.routes /\ s2.reason = c.reason
  BY <1>2, <1>4, PassState
<1>8. r \in Record /\ r.st = c.st
  BY <1>1, PassReason DEF ClearingReason
<1> HIDE DEF s1, s2, r
<1>9. a \in Record /\ a.st = "DialAborted"
  BY <1>2, <1>8, PassState
<1> HIDE DEF a
<1>10. Outcome(c, doSelectAlternateRoute(s1)) /\ Outcome(c, doSelectAlternateRoute(s2))
  BY <1>1, <1>2, <1>6, <1>7, OutSelectAlternateRoute, PassOutcome DEF Live, LiveState
<1>11. Outcome(c, doDialAborted(a))
  BY <1>9, OutDialAborted
<1> QED BY <1>5, <1>10, <1>11 DEF doDialRejected, s1, s2, r, a

LEMMA OutCallerCancel ==
  ASSUME NEW c, Sound(c)
  PROVE  Keeps(c, doCallerCancel(c))
<1> DEFINE d == setClearingReason(c, "NoAnswerCancel")
           e == [d EXCEPT !.uac = Uac_end[@]]
           f == IF d.bset THEN e ELSE d
<1>1. Keeps(c, d) /\ Sound(d)
  BY KeepsReason, KeepsSound DEF ClearingReason
<1> HIDE DEF d
<1>2. Keeps(d, e)
  <2>1. Uac_end[d.uac] \in UacState
    BY <1>1, UacMethods DEF Sound, Record
  <2>2. e \in Record /\ e.st = d.st /\ e.routes = d.routes /\ e.reason = d.reason
    BY <1>1, <2>1 DEF Sound, Record
  <2> QED BY <1>1, <2>2, KeepsData
<1>3. Keeps(c, f) /\ Sound(f)
  <2> HIDE DEF e
  <2> QED BY <1>1, <1>2, KeepsTrans, KeepsSound
<1>4. doCallerCancel(c) = setCallState(f, "CallStop")
  BY DEF doCallerCancel, d
<1> HIDE DEF f
<1> QED BY <1>3, <1>4, KeepsState, Targets, KeepsTrans

\* The failures that reject the first caller and stop the call.
LEMMA OutRejectAndStop ==
  ASSUME NEW c, Sound(c), NEW r \in ClearingReason
  PROVE  Keeps(c, setCallState(CallFirst(setClearingReason(c, r), Uas_reject), "CallStop"))
<1> DEFINE d == setClearingReason(c, r)
           e == CallFirst(d, Uas_reject)
<1>1. Keeps(c, d) /\ Sound(d)
  BY KeepsReason, KeepsSound
<1>2. Keeps(d, e) /\ Sound(e)
  BY <1>1, KeepsFirst, UasMethods, KeepsSound
<1>3. Keeps(e, setCallState(e, "CallStop"))
  BY <1>2, KeepsState, Targets
<1> QED BY <1>1, <1>2, <1>3, KeepsTrans

LEMMA OutEarlyMediaProxySuccess ==
  ASSUME NEW c \in Record, c.st = "DialEarlyMediaProxySuccess", c.routes # 0
  PROVE  Outcome(c, doDialEarlyMediaProxySuccess(c))
<1> DEFINE d == CallFirst(c, Uas_provisional)
           e == [d EXCEPT !.early = TRUE]
           f == setCallState(e, "DialInProgress")
<1>1. d \in Record /\ d.st = c.st /\ d.routes = c.routes /\ d.reason = c.reason
  BY PassFirst, UasMethods
<1> HIDE DEF d
<1>2. e \in Record /\ e.st = c.st /\ e.routes = c.routes /\ e.reason = c.reason
  BY <1>1 DEF Record
<1> HIDE DEF e
<1>3. /\ "DialInProgress" \in Permitted("DialEarlyMediaProxySuccess")
      /\ c.st \notin EndingState
  BY DEF Permitted, DialPermits, AnsweredPermits, DialingState, HangupState, EndingState
<1>4. /\ f \in Record /\ f.st = "DialInProgress"
      /\ f.routes = c.routes /\ f.reason = c.reason
  BY <1>2, <1>3, Targets, RestingIsLive, PassState
<1> HIDE DEF f
<1>5. Keeps(c, f)
  BY <1>3, <1>4, Targets, RestingIsLive DEF Keeps, Sound, Live, LiveState
<1> QED BY <1>5 DEF doDialEarlyMediaProxySuccess, Outcome, d, e, f

LEMMA OutReceivedEarlyAnswer ==
  ASSUME NEW c, Sound(c), c.st = "DialReceivedEarlyAnswer"
  PROVE  Outcome(c, doDialReceivedEarlyAnswer(c))
<1> DEFINE t == TouchFirst(c)
           r == setClearingReason(t, "AuthError")
           d == CallFirst(c, Uas_provideAnswer)
           e == setCallState(d, "DialEarlyMediaProxySuccess")
<1>1. Keeps(c, setCallState(c, "DialInProgress"))
  BY KeepsState, Targets
<1>2. Keeps(c, setCallState(r, "DialEarlyMediaProxyFail"))
  <2>1. Keeps(c, t) /\ Sound(t)
    BY KeepsTouch, KeepsSound
  <2> HIDE DEF t
  <2>2. Keeps(t, r) /\ Sound(r)
    BY <2>1, KeepsReason, KeepsSound DEF ClearingReason
  <2>3. Keeps(r, setCallState(r, "DialEarlyMediaProxyFail"))
    BY <2>2, KeepsState, Targets
  <2> QED BY <2>1, <2>2, <2>3, KeepsTrans
<1>3. c \in Record /\ c.routes # 0
  BY DEF Sound, DialingState
<1>4. d \in Record /\ d.st = c.st /\ d.routes = c.routes /\ d.reason = c.reason
  BY <1>3, PassFirst, UasMethods
<1> HIDE DEF d
<1>5. /\ "DialEarlyMediaProxySuccess" \in Permitted("DialReceivedEarlyAnswer")
      /\ "DialEarlyMediaProxySuccess" \in CallState
      /\ c.st \notin EndingState
  BY DEF Permitted, DialPermits, AnsweredPermits, HangupState, EndingState, CallState, DialingState
<1>6. /\ e \in Record /\ e.st = "DialEarlyMediaProxySuccess"
      /\ e.routes = c.routes /\ e.reason = c.reason
  BY <1>4, <1>5, PassState
<1> HIDE DEF e
<1>7. Outcome(c, doDialEarlyMediaProxySuccess(e))
  BY <1>3, <1>5, <1>6, OutEarlyMediaProxySuccess, PassOutcome DEF Live, LiveState
<1> QED BY <1>1, <1>2, <1>7 DEF doDialReceivedEarlyAnswer, Outcome, t, r, d, e

LEMMA OutCallAccepted ==
  ASSUME NEW c, Sound(c), c.st = "CallAccepted"
  PROVE  Outcome(c, doCallAccepted(c))
<1> DEFINE t == TouchFirst(c)
           r == setClearingReason(t, "AnsweredError")
           d == IF c.early THEN c ELSE CallFirst(c, Uas_provideAnswer)
           e == setCallState(d, "CallAcceptedMediaProxySuccess")
           f == CallFirst(e, Uas_accept)
           g == [f EXCEPT !.connected = TRUE]
           h == setCallState(g, "CallActive")
<1>1. Keeps(c, setCallState(r, "CallAcceptedMediaProxyFail"))
  <2>1. Keeps(c, t) /\ Sound(t)
    BY KeepsTouch, KeepsSound
  <2> HIDE DEF t
  <2>2. Keeps(t, r) /\ Sound(r)
    BY <2>1, KeepsReason, KeepsSound DEF ClearingReason
  <2>3. Keeps(r, setCallState(r, "CallAcceptedMediaProxyFail"))
    BY <2>2, KeepsState, Targets
  <2> QED BY <2>1, <2>2, <2>3, KeepsTrans
<1>2. d \in Record /\ d.st = "CallAccepted" /\ d.reason = c.reason
  BY PassFirst, UasMethods DEF Sound
<1>3. /\ "CallAcceptedMediaProxySuccess" \in Permitted("CallAccepted")
      /\ "CallAcceptedMediaProxySuccess" \in CallState
      /\ "CallActive" \in Permitted("CallAcceptedMediaProxySuccess")
      /\ "CallActive" \notin DialingState
      /\ c.st \notin EndingState
  BY DEF Permitted, DialPermits, AnsweredPermits, HangupState, EndingState, CallState, ConnectedState, DialingState
<1> HIDE DEF d
<1>4. /\ e \in Record /\ e.st = "CallAcceptedMediaProxySuccess"
      /\ e.reason = c.reason
  BY <1>2, <1>3, PassState
<1> HIDE DEF e
<1>5. f \in Record /\ f.st = e.st /\ f.reason = c.reason
  BY <1>4, PassFirst, UasMethods
<1> HIDE DEF f
<1>6. g \in Record /\ g.st = e.st /\ g.reason = c.reason
  BY <1>5 DEF Record
<1> HIDE DEF g
<1>7. h \in Record /\ h.st = "CallActive" /\ h.reason = c.reason
  BY <1>3, <1>4, <1>6, Targets, RestingIsLive, PassState
<1>8. Keeps(c, h)
  <2> HIDE DEF h
  <2> QED BY <1>3, <1>7, Targets, RestingIsLive DEF Keeps, Sound, Live, LiveState
<1>9. doCallAcceptedMediaProxySuccess(e) = h
  BY DEF doCallAcceptedMediaProxySuccess, f, g
<1> HIDE DEF h
<1> QED BY <1>1, <1>8, <1>9 DEF doCallAccepted, Outcome, t, r, d, e

LEMMA OutCallActive ==
  ASSUME NEW c, Sound(c), NEW mustHangup
  PROVE  Keeps(c, doCallActive(c, mustHangup))
<1> DEFINE d == setClearingReason(c, "AnsweredLimit")
<1>1. Keeps(c, d) /\ Sound(d)
  BY KeepsReason, KeepsSound DEF ClearingReason
<1>2. Keeps(c, setCallState(d, "LocalHangup"))
  BY <1>1, KeepsState, Targets, KeepsTrans
<1> QED BY <1>2, KeepsSelf DEF doCallActive

LEMMA OutHangup ==
  ASSUME NEW c \in Record, c.st \in HangupState
  PROVE  Outcome(c, doHangup(c))
<1> DEFINE d == setCallState(c, "CallStop")
<1>1. "CallStop" \in Permitted(c.st)
  BY DEF Permitted, DialPermits, AnsweredPermits, DialingState, HangupState
<1>2. d \in Record /\ d.st = "CallStop"
  BY <1>1, Targets, RestingIsLive, PassState
<1> HIDE DEF d
<1>3. doCallStop(d) \in Record /\ doCallStop(d).st = "CallStopFinal"
  BY <1>2, StopFinal
<1> QED BY <1>3 DEF doHangup, Outcome, d

\* checkProgress on a live call, one case per resting state.
LEMMA OutCheckProgress ==
  ASSUME NEW c, Sound(c), Live(c), NEW auth, NEW n \in Nat, NEW mustHangup
  PROVE  Outcome(c, checkProgress(c, auth, n, mustHangup))
<1> DEFINE d == checkProgress(c, auth, n, mustHangup)
<1>1. c \in Record /\ c.st \in RestingState
  BY DEF Sound
<1>2. CASE c.st = "NewCall"
  <2>1. d = doNewCall(c, auth, n)
    BY <1>2 DEF checkProgress, HangupState
  <2> HIDE DEF d
  <2>2. Outcome(c, d)
    BY <1>2, <2>1, OutNewCall
  <2> QED BY <2>2 DEF d
<1>3. CASE c.st = "AuthorizationPending"
  <2>1. d = doAuthorizationPending(c, auth, n)
    BY <1>3 DEF checkProgress, HangupState
  <2> HIDE DEF d
  <2>2. Outcome(c, d)
    BY <1>3, <2>1, OutAuthorizationPending
  <2> QED BY <2>2 DEF d
<1>4. CASE c.st = "AuthorizationFail"
  <2>1. d = doAuthorizationFail(c)
    BY <1>4 DEF checkProgress, HangupState
  <2>2. Keeps(c, doAuthorizationFail(c))
    BY OutRejectAndStop DEF doAuthorizationFail, ClearingReason
  <2> HIDE DEF d
  <2>3. Outcome(c, d)
    BY <2>1, <2>2 DEF Outcome
  <2> QED BY <2>3 DEF d
<1>5. CASE c.st = "DialInProgress"
  <2>1. d = doDialInProgress(c)
    BY <1>5 DEF checkProgress, HangupState
  <2>2. Keeps(c, doDialInProgress(c))
    BY KeepsState, Targets, KeepsSelf DEF doDialInProgress
  <2> HIDE DEF d
  <2>3. Outcome(c, d)
    BY <2>1, <2>2 DEF Outcome
  <2> QED BY <2>3 DEF d
<1>6. CASE c.st = "DialRejected"
  <2>1. d = doDialRejected(c)
    BY <1>6 DEF checkProgress, HangupState
  <2> HIDE DEF d
  <2>2. Outcome(c, d)
    BY <1>6, <2>1, OutDialRejected
  <2> QED BY <2>2 DEF d
<1>7. CASE c.st = "DialReceived180"
  <2>1. d = doDialReceived180(c)
    BY <1>7 DEF checkProgress, HangupState
  <2>2. Keeps(c, doDialReceived180(c))
    BY KeepsReceived180
  <2> HIDE DEF d
  <2>3. Outcome(c, d)
    BY <2>1, <2>2 DEF Outcome
  <2> QED BY <2>3 DEF d
<1>8. CASE c.st = "DialReceivedEarlyAnswer"
  <2>1. d = doDialReceivedEarlyAnswer(c)
    BY <1>8 DEF checkProgress, HangupState
  <2> HIDE DEF d
  <2>2. Outcome(c, d)
    BY <1>8, <2>1, OutReceivedEarlyAnswer
  <2> QED BY <2>2 DEF d
<1>9. CASE c.st = "DialEarlyMediaProxyFail"
  <2>1. d = doDialEarlyMediaProxyFail(c)
    BY <1>9 DEF checkProgress, HangupState
  <2>2. Keeps(c, doDialEarlyMediaProxyFail(c))
    BY OutRejectAndStop DEF doDialEarlyMediaProxyFail, ClearingReason
  <2> HIDE DEF d
  <2>3. Outcome(c, d)
    BY <2>1, <2>2 DEF Outcome
  <2> QED BY <2>3 DEF d
<1>10. CASE c.st = "CallAccepted"
  <2>1. d = doCallAccepted(c)
    BY <1>10 DEF checkProgress, HangupState
  <2> HIDE DEF d
  <2>2. Outcome(c, d)
    BY <1>10, <2>1, OutCallAccepted
  <2> QED BY <2>2 DEF d
<1>11. CASE c.st = "CallAcceptedMediaProxyFail"
  <2>1. d = doCallAcceptedMediaProxyFail(c)
    BY <1>11 DEF checkProgress, HangupState
  <2>2. Keeps(c, doCallAcceptedMediaProxyFail(c))
    BY OutRejectAndStop DEF doCallAcceptedMediaProxyFail, ClearingReason
  <2> HIDE DEF d
  <2>3. Outcome(c, d)
    BY <2>1, <2>2 DEF Outcome
  <2> QED BY <2>3 DEF d
<1>12. CASE c.st = "CallActive"
  <2>1. d = doCallActive(c, mustHangup)
    BY <1>12 DEF checkProgress, HangupState
  <2>2. Keeps(c, doCallActive(c, mustHangup))
    BY OutCallActive
  <2> HIDE DEF d
  <2>3. Outcome(c, d)
    BY <2>1, <2>2 DEF Outcome
  <2> QED BY <2>3 DEF d
<1>13. CASE c.st = "CallerCancel"
  <2>1. d = doCallerCancel(c)
    BY <1>13 DEF checkProgress, HangupState
  <2>2. Keeps(c, doCallerCancel(c))
    BY OutCallerCancel
  <2> HIDE DEF d
  <2>3. Outcome(c, d)
    BY <2>1, <2>2 DEF Outcome
  <2> QED BY <2>3 DEF d
<1>14. CASE c.st = "CallStop"
  <2>1. d = doCallStop(c)
    BY <1>14 DEF checkProgress, HangupState
  <2>2. doCallStop(c) \in Record /\ doCallStop(c).st = "CallStopFinal"
    BY <1>1, <1>14, StopFinal
  <2> HIDE DEF d
  <2>3. Outcome(c, d)
    BY <2>1, <2>2 DEF Outcome
  <2> QED BY <2>3 DEF d
<1>15. CASE c.st \in HangupState
  <2>1. d = doHangup(c)
    BY <1>15 DEF checkProgress, HangupState
  <2> QED BY <1>1, <1>15, <2>1, OutHangup
<1> QED
  BY <1>1, <1>2, <1>3, <1>4, <1>5, <1>6, <1>7, <1>8, <1>9, <1>10, <1>11, <1>12,
     <1>13, <1>14, <1>15
  DEF RestingState

LEMMA SweptSweepCall ==
  ASSUME NEW c, Sound(c), Live(c), NEW auth, NEW n \in Nat, NEW mustHangup
  PROVE  Swept(c, sweepCall(c, auth, n, mustHangup))
<1> DEFINE d == checkProgress(c, auth, n, mustHangup)
<1>1. Outcome(c, d)
  BY OutCheckProgress
<1>2. sweepCall(c, auth, n, mustHangup) = IF d.st = "CallStopFinal" THEN deleted(d) ELSE d
  BY DEF sweepCall
<1> HIDE DEF d
<1>3. Outcome(c, d) /\ d.st = "CallStopFinal" => Swept(c, deleted(d))
  BY SweptFinal, KeepsSound DEF Outcome, Sound
<1>4. Outcome(c, d) /\ d.st # "CallStopFinal" => Swept(c, d)
  BY SweptKeeps DEF Outcome
<1> QED BY <1>1, <1>2, <1>3, <1>4

-----------------------------------------------------------------------------
(* The actions.                                                            *)

\* What the sessions themselves change before the handler runs.
LEMMA KeepsUas ==
  ASSUME NEW c, Sound(c), NEW l, NEW s \in UasState
  PROVE  Keeps(c, [c EXCEPT !.uas[l] = s])
<1> DEFINE d == [c EXCEPT !.uas[l] = s]
<1>1. d \in Record /\ d.st = c.st /\ d.routes = c.routes /\ d.reason = c.reason
  BY DEF Sound, Record
<1> QED BY <1>1, KeepsData

LEMMA KeepsUac ==
  ASSUME NEW c, Sound(c), NEW s \in UacState
  PROVE  Keeps(c, [c EXCEPT !.uac = s])
<1> DEFINE d == [c EXCEPT !.uac = s]
<1>1. d \in Record /\ d.st = c.st /\ d.routes = c.routes /\ d.reason = c.reason
  BY DEF Sound, Record
<1> QED BY <1>1, KeepsData

LEMMA KeepsDialog ==
  ASSUME NEW c, Sound(c), NEW s \in UacState
  PROVE  Keeps(c, withDialog(c, s))
<1> DEFINE d == withDialog(c, s)
<1>1. d \in Record /\ d.st = c.st /\ d.routes = c.routes /\ d.reason = c.reason
  BY DEF Sound, Record, withDialog
<1> QED BY <1>1, KeepsData

LEMMA KeepsRings ==
  ASSUME NEW c, Sound(c)
  PROVE  Keeps(c, [c EXCEPT !.rings = @ + 1])
<1> DEFINE d == [c EXCEPT !.rings = @ + 1]
<1>1. d \in Record /\ d.st = c.st /\ d.routes = c.routes /\ d.reason = c.reason
  BY DEF Sound, Record
<1> QED BY <1>1, KeepsData

LEMMA KeepsTrying ==
  ASSUME NEW c, Sound(c)
  PROVE  Keeps(c, [c EXCEPT !.uac = "Trying", !.rings = @ + 1])
<1> DEFINE n == c.rings + 1
           d == [c EXCEPT !.uac = "Trying", !.rings = n]
<1>1. "Trying" \in UacState /\ n \in Nat
  BY DEF UacState, PendingUac, Sound, Record
<1>2. d \in Record /\ d.st = c.st /\ d.routes = c.routes /\ d.reason = c.reason
  <2> HIDE DEF n
  <2> QED BY <1>1 DEF Sound, Record
<1> QED BY <1>2, KeepsData

LEMMA KeepsNewLeg ==
  ASSUME NEW c, Sound(c), NEW l \in Leg
  PROVE  Keeps(c, addALegAppDialog(c, l))
<1> DEFINE x == c.legs \cup {l}
           y == c.back \cup {l}
           d == [c EXCEPT !.legs = x, !.back = y]
<1>1. x \in SUBSET Leg /\ y \in SUBSET Leg
  BY DEF Sound, Record
<1>2. d = addALegAppDialog(c, l)
  BY DEF addALegAppDialog
<1>3. d \in Record /\ d.st = c.st /\ d.routes = c.routes /\ d.reason = c.reason
  <2> HIDE DEF x, y
  <2> QED BY <1>1 DEF Sound, Record
<1> HIDE DEF d
<1> QED BY <1>2, <1>3, KeepsData

LEMMA NewSound ==
  ASSUME NEW l \in Leg
  PROVE  Sound(B2BCallNew(l)) /\ B2BCallNew(l).first = l
<1> DEFINE c == B2BCallNew(l)
<1>1. NoCall \in Record
  BY DEF NoCall, Record, Absent, UasState, UacState, FailureCode, ClearingReason
<1>2. "NewCall" \in RestingState /\ "NewCall" \notin DialingState
  BY DEF RestingState, DialingState
<1> DEFINE x == {l}
           d == [NoCall EXCEPT !.st = "NewCall", !.first = l, !.legs = x, !.back = x]
<1>3. x \in SUBSET Leg
  OBVIOUS
<1>4. d = c
  BY DEF B2BCallNew
<1>5. d \in Record /\ d.st = "NewCall" /\ d.first = l
  <2> HIDE DEF x
  <2> QED BY <1>1, <1>2, <1>3, RestingIsLive DEF Record
<1> HIDE DEF d
<1> QED BY <1>2, <1>4, <1>5 DEF Sound

\* The states of sessions that the actions name.
LEMMA SessionNames ==
  /\ {"Offer", "NoOffer", "Dying", "Gone", "Ended", "Connected", "Reoffered",
      "Reinvited"} \subseteq UasState
  /\ {"Early", "Connected", "Answered", "Dying", "Gone", "Reinvited"} \subseteq UacState
BY DEF UasState, EarlyUas, UpUas, OverUas, UacState, PendingUac, UpUac, OverUac

-----------------------------------------------------------------------------
AllSound == call \in [Call -> Record] /\ \A k \in Call : Sound(call[k])

\* The flags of B2BCallManager::stop are set in this order.
StopOrder ==
  /\ stopPc \in {"half", "stopped"} => stopping
  /\ mustStopCalls => stopPc = "stopped"

\* The inductive invariant.
IndInv == TypeOK /\ AllSound /\ StopOrder /\ StopReachesEveryCall

\* What any step does to call k: it opens it, or sweeps it, or leaves it sound.
CallMoves(k) ==
  \/ Swept(call[k], call'[k]) /\ (Live(call'[k]) => Live(call[k]))
  \/ ~ stopping /\ call[k].st = "None" /\ Sound(call'[k])

LEMMA SweptSelf == ASSUME NEW c, Sound(c) PROVE Swept(c, c)
BY DEF Swept

\* A message that keeps its call.
LEMMA DeliverMoves ==
  ASSUME AllSound, NEW k \in Call, Live(call[k]), NEW c, Keeps(call[k], c), Deliver(k, c)
  PROVE  call' \in [Call -> Record] /\ \A j \in Call : CallMoves(j)
<1>1. c \in Record /\ Swept(call[k], c)
  BY SweptKeeps DEF Keeps, Sound
<1>2. call' = [call EXCEPT ![k] = c]
  BY DEF Deliver
<1>3. \A j \in Call : Swept(call[j], call[j])
  BY SweptSelf DEF AllSound
<1> QED BY <1>1, <1>2, <1>3 DEF AllSound, CallMoves

LEMMA MovesNewSession ==
  ASSUME AllSound, NEW k \in Call, NEW l \in Leg, NEW offer, NEW m,
         NewSession(k, l, offer, m)
  PROVE  call' \in [Call -> Record] /\ \A j \in Call : CallMoves(j)
<1> DEFINE b == B2BCallNew(l)
           c == [b EXCEPT !.uas[l] = "Offer"]
           d == [b EXCEPT !.uas[l] = "NoOffer"]
           e == IF offer THEN onOfferFirst(c, m) ELSE d
<1>1. Sound(b) /\ b.first = l
  BY NewSound
<1> HIDE DEF b
<1>2. Sound(c) /\ Sound(d)
  BY <1>1, KeepsUas, KeepsSound, SessionNames
<1>3. c.first = l
  BY <1>1 DEF Sound, Record
<1> HIDE DEF c, d
<1>4. Sound(e)
  BY <1>2, <1>3, KeepsOfferFirst, KeepsSound
<1>5. ~ stopping /\ call[k].st = "None" /\ call' = [call EXCEPT ![k] = e]
  BY DEF NewSession, Deliver, b, c, d
<1> HIDE DEF e
<1>6. \A j \in Call : Swept(call[j], call[j])
  BY SweptSelf DEF AllSound
<1> QED BY <1>4, <1>5, <1>6 DEF AllSound, Sound, CallMoves

LEMMA MovesJoinSession ==
  ASSUME AllSound, NEW k \in Call, NEW l \in Leg, NEW offer, NEW m,
         JoinSession(k, l, offer, m)
  PROVE  call' \in [Call -> Record] /\ \A j \in Call : CallMoves(j)
<1> DEFINE b == addALegAppDialog(call[k], l)
           c == [b EXCEPT !.uas[l] = "Offer"]
           d == [b EXCEPT !.uas[l] = "NoOffer"]
           e == IF offer THEN onOfferJoiner(c, l, m) ELSE onOfferRequired(d, l)
<1>1. Keeps(call[k], b) /\ Sound(b)
  BY KeepsNewLeg, KeepsSound DEF AllSound
<1> HIDE DEF b
<1>2. Keeps(b, c) /\ Keeps(b, d) /\ Sound(c) /\ Sound(d)
  BY <1>1, KeepsUas, KeepsSound, SessionNames
<1> HIDE DEF c, d
<1>3. Keeps(call[k], c) /\ Keeps(call[k], d)
  BY <1>1, <1>2, KeepsTrans
<1>4. Keeps(call[k], onOfferJoiner(c, l, m)) /\ Keeps(call[k], onOfferRequired(d, l))
  BY <1>2, <1>3, KeepsOfferJoiner, KeepsOfferRequired, KeepsTrans
<1>5. Keeps(call[k], e) /\ Deliver(k, e)
  BY <1>4 DEF JoinSession, b, c, d
<1>6. Live(call[k])
  BY DEF JoinSession
<1> HIDE DEF e
<1> QED BY <1>5, <1>6, DeliverMoves

\* The messages that change a caller's session and then run a handler.
LEMMA MovesCaller ==
  ASSUME AllSound, NEW k \in Call, NEW l \in Leg,
         \/ CallerCancels(k, l)
         \/ CallerHangsUp(k, l)
         \/ \E m \in SdpKinds : \/ CallerAcks(k, l, m)
                                \/ CallerReinvites(k, l, m)
                                \/ CallerAnswersReinvite(k, l, m)
         \/ AckTimeout(k, l)
         \/ CallerByeAnswered(k, l)
         \/ DestroyCaller(k, l)
  PROVE  call' \in [Call -> Record] /\ \A j \in Call : CallMoves(j)
<1> DEFINE c == call[k]
           w(s) == [c EXCEPT !.uas[l] = s]
<1>1. Sound(c)
  BY DEF AllSound
<1>2. \A s \in UasState : Keeps(c, w(s)) /\ Sound(w(s))
  BY <1>1, KeepsUas, KeepsSound
<1>3. SUFFICES \E d : Keeps(c, d) /\ Deliver(k, d)
  <2>1. Live(c)
    BY DEF CallerCancels, CallerHangsUp, CallerAcks, CallerReinvites,
           CallerAnswersReinvite, AckTimeout, CallerByeAnswered, DestroyCaller
  <2> QED BY <2>1, DeliverMoves
<1>4. CASE CallerCancels(k, l)
  <2>1. Keeps(c, onCancel(w("Dying"), l))
    <3> HIDE DEF w
    <3> QED BY <1>2, SessionNames, KeepsCancel, KeepsTrans
  <2>2. Deliver(k, onCancel(w("Dying"), l))
    BY <1>4 DEF CallerCancels
  <2> QED BY <2>1, <2>2
<1>5. CASE CallerHangsUp(k, l)
  <2> DEFINE d == IF c.uas[l] = "WaitAnswer" THEN w("Dying") ELSE onHangupA(w("Dying"), l)
  <2>1. Keeps(c, d)
    <3> HIDE DEF w
    <3> QED BY <1>2, SessionNames, KeepsHangupA, KeepsTrans
  <2>2. Deliver(k, d)
    BY <1>5 DEF CallerHangsUp
  <2> HIDE DEF d
  <2> QED BY <2>1, <2>2
<1>6. ASSUME NEW m \in SdpKinds, CallerAcks(k, l, m)
      PROVE  \E d : Keeps(c, d) /\ Deliver(k, d)
  <2>1. Keeps(c, w("Connected")) /\ Keeps(c, w("Reoffered"))
    BY <1>2, SessionNames
  <2>2. Keeps(c, onAnswerA(w("Connected"), l, m))
    <3> HIDE DEF w
    <3> QED BY <1>2, SessionNames, KeepsAnswerA, KeepsTrans
  <2>3. \/ Deliver(k, w("Connected"))
        \/ Deliver(k, w("Reoffered"))
        \/ Deliver(k, onAnswerA(w("Connected"), l, m))
    BY <1>6 DEF CallerAcks
  <2> HIDE DEF w
  <2> QED BY <2>1, <2>2, <2>3
<1>7. ASSUME NEW m \in SdpKinds, CallerReinvites(k, l, m)
      PROVE  \E d : Keeps(c, d) /\ Deliver(k, d)
  <2> DEFINE e == w("Reinvited")
             d == IF l = e.first THEN onOfferFirst(e, m) ELSE onOfferJoiner(e, l, m)
  <2>1. Deliver(k, d)
    BY <1>7 DEF CallerReinvites
  <2>2. Keeps(c, e) /\ Sound(e)
    BY <1>2, SessionNames
  <2> HIDE DEF e
  <2>3. Keeps(c, d)
    BY <2>2, KeepsOfferFirst, KeepsOfferJoiner, KeepsTrans
  <2> HIDE DEF d
  <2> QED BY <2>1, <2>3
<1>8. ASSUME NEW m \in SdpKinds, CallerAnswersReinvite(k, l, m)
      PROVE  \E d : Keeps(c, d) /\ Deliver(k, d)
  <2>1. Keeps(c, onAnswerA(w("Connected"), l, m))
    <3> HIDE DEF w
    <3> QED BY <1>2, SessionNames, KeepsAnswerA, KeepsTrans
  <2>2. Deliver(k, onAnswerA(w("Connected"), l, m))
    BY <1>8 DEF CallerAnswersReinvite
  <2> QED BY <2>1, <2>2
<1>9. CASE AckTimeout(k, l) \/ CallerByeAnswered(k, l)
  <2>1. Keeps(c, w("Ended")) /\ Keeps(c, w("Dying"))
    BY <1>2, SessionNames
  <2>2. Deliver(k, w("Ended")) \/ Deliver(k, w("Dying"))
    BY <1>9 DEF AckTimeout, CallerByeAnswered
  <2> HIDE DEF w
  <2> QED BY <2>1, <2>2
<1>10. CASE DestroyCaller(k, l)
  <2>1. Keeps(c, releaseAppDialog(w("Gone"), l))
    <3> HIDE DEF w
    <3> QED BY <1>2, SessionNames, KeepsRelease, KeepsTrans
  <2>2. Deliver(k, releaseAppDialog(w("Gone"), l))
    BY <1>10 DEF DestroyCaller
  <2> QED BY <2>1, <2>2
<1> QED BY <1>4, <1>5, <1>6, <1>7, <1>8, <1>9, <1>10

LEMMA MovesCamera ==
  ASSUME AllSound, NEW k \in Call,
         \/ CameraTrying(k)
         \/ CameraRings(k)
         \/ \E ringing \in BOOLEAN, m \in SdpKinds : CameraEarlyMedia(k, ringing, m)
         \/ \E m \in SdpKinds : \/ CameraAnswers(k, m)
                                \/ CameraReinvites(k, m)
                                \/ CameraAnswersReinvite(k, m)
         \/ \E code \in RejectCodes : CameraRejects(k, code)
         \/ CameraHangsUp(k)
         \/ CameraEnded(k)
         \/ DestroyCamera(k)
  PROVE  call' \in [Call -> Record] /\ \A j \in Call : CallMoves(j)
<1> DEFINE c == call[k]
           u(s) == [c EXCEPT !.uac = s]
           v(s) == withDialog(c, s)
           early == [v("Early") EXCEPT !.rings = @ + 1]
<1>1. Sound(c)
  BY DEF AllSound
<1>2. \A s \in UacState : Keeps(c, u(s)) /\ Sound(u(s))
  BY <1>1, KeepsUac, KeepsSound
<1>3. \A s \in UacState : Keeps(c, v(s)) /\ Sound(v(s))
  BY <1>1, KeepsDialog, KeepsSound
<1>4. Keeps(c, early) /\ Sound(early)
  <2> HIDE DEF v
  <2>1. Keeps(c, v("Early")) /\ Sound(v("Early"))
    BY <1>3, SessionNames
  <2>2. Keeps(v("Early"), early)
    BY <2>1, KeepsRings
  <2> QED BY <2>1, <2>2, KeepsTrans, KeepsSound
<1>5. SUFFICES \E d : Keeps(c, d) /\ Deliver(k, d)
  <2>1. Live(c)
    BY DEF CameraTrying, CameraRings, CameraEarlyMedia, CameraAnswers, CameraReinvites,
           CameraAnswersReinvite, CameraRejects, CameraHangsUp, CameraEnded, DestroyCamera
  <2> QED BY <2>1, DeliverMoves
<1>6. CASE CameraTrying(k)
  <2> DEFINE d == [c EXCEPT !.uac = "Trying", !.rings = @ + 1]
  <2>1. Deliver(k, doDialReceived180(d))
    BY <1>6 DEF CameraTrying
  <2>2. Keeps(c, d) /\ Sound(d)
    BY <1>1, KeepsTrying, KeepsSound
  <2> HIDE DEF d
  <2>3. Keeps(c, doDialReceived180(d))
    BY <2>2, KeepsReceived180, KeepsTrans
  <2> QED BY <2>1, <2>3
<1>7. CASE CameraRings(k)
  <2>1. Deliver(k, onRinging(early))
    BY <1>7 DEF CameraRings
  <2> HIDE DEF early
  <2>2. Keeps(c, onRinging(early))
    BY <1>4, KeepsRinging, KeepsTrans
  <2> QED BY <2>1, <2>2
<1>8. ASSUME NEW ringing \in BOOLEAN, NEW m \in SdpKinds, CameraEarlyMedia(k, ringing, m)
      PROVE  \E d : Keeps(c, d) /\ Deliver(k, d)
  <2> DEFINE e == IF ringing THEN onRinging(early) ELSE early
  <2>1. Deliver(k, onEarlyMedia(e, m))
    BY <1>8 DEF CameraEarlyMedia
  <2> HIDE DEF early
  <2>2. Keeps(c, e) /\ Sound(e)
    BY <1>4, KeepsRinging, KeepsTrans, KeepsSound
  <2> HIDE DEF e
  <2>3. Keeps(c, onEarlyMedia(e, m))
    BY <2>2, KeepsEarlyMedia, KeepsTrans
  <2> QED BY <2>1, <2>3
<1>9. ASSUME NEW m \in SdpKinds, CameraAnswers(k, m)
      PROVE  \E d : Keeps(c, d) /\ Deliver(k, d)
  <2>1. \/ Deliver(k, onAnswerB(v("Connected"), m))
        \/ Deliver(k, onOfferB(v("Answered"), m))
    BY <1>9 DEF CameraAnswers
  <2> HIDE DEF v
  <2>2. /\ Keeps(c, onAnswerB(v("Connected"), m))
        /\ Keeps(c, onOfferB(v("Answered"), m))
    BY <1>3, SessionNames, KeepsAnswerB, KeepsOfferB, KeepsTrans
  <2> QED BY <2>1, <2>2
<1>10. ASSUME NEW m \in SdpKinds, CameraReinvites(k, m) \/ CameraAnswersReinvite(k, m)
       PROVE  \E d : Keeps(c, d) /\ Deliver(k, d)
  <2>1. \/ Deliver(k, onOfferB(u("Reinvited"), m))
        \/ Deliver(k, onAnswerB(u("Connected"), m))
    BY <1>10 DEF CameraReinvites, CameraAnswersReinvite
  <2> HIDE DEF u
  <2>2. /\ Keeps(c, onOfferB(u("Reinvited"), m))
        /\ Keeps(c, onAnswerB(u("Connected"), m))
    BY <1>2, SessionNames, KeepsAnswerB, KeepsOfferB, KeepsTrans
  <2> QED BY <2>1, <2>2
<1>11. ASSUME NEW code \in RejectCodes, CameraRejects(k, code)
       PROVE  \E d : Keeps(c, d) /\ Deliver(k, d)
  <2>1. Deliver(k, onRejected(v("Dying"), code))
    BY <1>11 DEF CameraRejects
  <2>2. code \in FailureCode
    BY ConstantsAssumption
  <2> HIDE DEF v
  <2>3. Keeps(c, onRejected(v("Dying"), code))
    BY <1>3, <2>2, SessionNames, KeepsRejected, KeepsTrans
  <2> QED BY <2>1, <2>3
<1>12. CASE CameraHangsUp(k)
  <2>1. Deliver(k, onHangupB(u("Dying")))
    BY <1>12 DEF CameraHangsUp
  <2> HIDE DEF u
  <2>2. Keeps(c, onHangupB(u("Dying")))
    BY <1>2, SessionNames, KeepsHangupB, KeepsTrans
  <2> QED BY <2>1, <2>2
<1>13. CASE CameraEnded(k)
  <2>1. Deliver(k, u("Dying"))
    BY <1>13 DEF CameraEnded
  <2> HIDE DEF u
  <2> QED BY <1>2, <2>1, SessionNames
<1>14. CASE DestroyCamera(k)
  <2>1. Deliver(k, releaseAppDialogSet(u("Gone")))
    BY <1>14 DEF DestroyCamera
  <2>2. Keeps(u("Gone"), releaseAppDialogSet(u("Gone")))
    <3> DEFINE b == u("Gone")
               e == releaseAppDialogSet(b)
    <3>1. Sound(b)
      BY <1>2, SessionNames
    <3> HIDE DEF b
    <3>2. e \in Record /\ e.st = b.st /\ e.routes = b.routes /\ e.reason = b.reason
      BY <3>1 DEF Sound, releaseAppDialogSet, Record
    <3> HIDE DEF e
    <3>3. Keeps(b, e)
      BY <3>1, <3>2, KeepsData
    <3> QED BY <3>3 DEF b, e
  <2> HIDE DEF u
  <2>3. Keeps(c, releaseAppDialogSet(u("Gone")))
    BY <1>2, <2>2, SessionNames, KeepsTrans
  <2> QED BY <2>1, <2>3
<1> QED BY <1>6, <1>7, <1>8, <1>9, <1>10, <1>11, <1>12, <1>13, <1>14

\* The clock and the loop.
LEMMA MovesTime ==
  ASSUME AllSound, NEW k \in Call, TimePasses(k)
  PROVE  call' \in [Call -> Record] /\ \A j \in Call : CallMoves(j)
<1> DEFINE c == call[k]
           d == [c EXCEPT !.late = TRUE]
<1>1. Sound(c)
  BY DEF AllSound
<1>2. d \in Record /\ d.st = c.st /\ d.routes = c.routes /\ d.reason = c.reason
  BY <1>1 DEF Sound, Record
<1>3. Swept(c, d)
  BY <1>1, <1>2, KeepsData, SweptKeeps
<1>4. call' = [call EXCEPT ![k] = d]
  BY DEF TimePasses
<1>5. \A j \in Call : Swept(call[j], call[j])
  BY SweptSelf DEF AllSound
<1>6. Live(d) => Live(c)
  BY <1>2 DEF Live
<1> HIDE DEF d
<1> QED BY <1>2, <1>3, <1>4, <1>5, <1>6 DEF AllSound, CallMoves

LEMMA MovesSweepStart ==
  ASSUME AllSound, SweepStart
  PROVE  /\ call' \in [Call -> Record] /\ \A j \in Call : CallMoves(j)
         /\ mustStopCalls => \A k \in Call : Live(call'[k]) => call'[k].st \in EndingState
<1>1. call' = [k \in Call |-> IF mustStopCalls /\ Live(call[k])
                                THEN onStopping(call[k]) ELSE call[k]]
  BY DEF SweepStart
<1>2. \A k \in Call : /\ Keeps(call[k], onStopping(call[k]))
                      /\ Live(call[k]) => onStopping(call[k]).st \in EndingState
  BY KeepsStopping DEF AllSound
<1>3. \A k \in Call : /\ Swept(call[k], onStopping(call[k]))
                      /\ onStopping(call[k]) \in Record
  BY <1>2, SweptKeeps DEF Keeps, Sound
<1>4. \A k \in Call : Swept(call[k], call[k])
  BY SweptSelf DEF AllSound
<1> QED BY <1>1, <1>2, <1>3, <1>4 DEF AllSound, CallMoves

\* A slot that holds no call is left alone.
LEMMA CheckAbsent ==
  ASSUME NEW c, Sound(c), ~ Live(c), NEW auth, NEW n, NEW mustHangup
  PROVE  sweepCall(c, auth, n, mustHangup) = c
<1>1. c.st \in Absent
  BY DEF Sound, Record, LiveState, Live, Absent
<1>2. checkProgress(c, auth, n, mustHangup) = c
  BY <1>1 DEF checkProgress, Absent, HangupState
<1> QED BY <1>1, <1>2 DEF sweepCall, Absent

LEMMA MovesCheckCall ==
  ASSUME AllSound, NEW k \in Call, Check(k)
  PROVE  call' \in [Call -> Record] /\ \A j \in Call : CallMoves(j)
<1>1. PICK auth \in AuthResults, n \in RouteCounts, h \in HangupAnswers :
        CheckCall(k, auth, n, h)
  BY DEF Check
<1> DEFINE d == sweepCall(call[k], auth, n, h)
<1>2. call' = [call EXCEPT ![k] = d]
  BY <1>1 DEF CheckCall
<1>3. n \in Nat
  BY ConstantsAssumption
<1>4. Swept(call[k], d) /\ (Live(d) => Live(call[k]))
  <2>1. CASE Live(call[k])
    BY <1>3, <2>1, SweptSweepCall DEF AllSound
  <2>2. CASE ~ Live(call[k])
    <3>1. d = call[k]
      BY <2>2, CheckAbsent DEF AllSound
    <3> HIDE DEF d
    <3> QED BY <3>1, SweptSelf DEF AllSound
  <2> QED BY <2>1, <2>2
<1>5. \A j \in Call : Swept(call[j], call[j])
  BY SweptSelf DEF AllSound
<1> HIDE DEF d
<1> QED BY <1>2, <1>4, <1>5 DEF AllSound, CallMoves, Swept, Sound

\* Every step of the specification moves every call in this way.
LEMMA NextMoves ==
  ASSUME AllSound, [Next]_vars
  PROVE  call' \in [Call -> Record] /\ \A j \in Call : CallMoves(j)
<1> USE DEF CallMoves
<1>1. CASE call' = call
  <2>1. \A j \in Call : Swept(call[j], call[j])
    BY SweptSelf DEF AllSound
  <2> QED BY <1>1, <2>1 DEF AllSound
<1> HIDE DEF CallMoves
<1>2. CASE CallerMessage
  <2>1. PICK k \in Call, l \in Leg :
          \/ \E offer \in OfferKinds, m \in SdpKinds :
               NewSession(k, l, offer, m) \/ JoinSession(k, l, offer, m)
          \/ CallerCancels(k, l)
          \/ CallerHangsUp(k, l)
          \/ \E m \in SdpKinds : \/ CallerAcks(k, l, m)
                                 \/ CallerReinvites(k, l, m)
                                 \/ CallerAnswersReinvite(k, l, m)
          \/ AckTimeout(k, l)
          \/ CallerByeAnswered(k, l)
    BY <1>2 DEF CallerMessage
  <2>2. CASE \E offer \in OfferKinds, m \in SdpKinds :
               NewSession(k, l, offer, m) \/ JoinSession(k, l, offer, m)
    BY <2>2, MovesNewSession, MovesJoinSession
  <2> QED BY <2>1, <2>2, MovesCaller
<1>3. CASE CameraMessage
  BY <1>3, MovesCamera DEF CameraMessage
<1>4. CASE Destroy
  BY <1>4, MovesCaller, MovesCamera DEF Destroy
<1>5. CASE \E k \in Call : TimePasses(k)
  BY <1>5, MovesTime
<1>6. CASE SweepStart
  BY <1>6, MovesSweepStart
<1>7. CASE \E k \in Call : Check(k)
  BY <1>7, MovesCheckCall
<1>8. CASE DumComplete \/ SweepEnd \/ LoopReturns \/ Stop \/ Terminated
  BY <1>1, <1>8 DEF DumComplete, SweepEnd, LoopReturns, Stop, StopDum,
       StopCallsFirst, StopCallsSecond, Terminated, vars
<1>9. CASE UNCHANGED vars
  BY <1>1, <1>9 DEF vars
<1> QED BY <1>2, <1>3, <1>4, <1>5, <1>6, <1>7, <1>8, <1>9 DEF Next, Loop

-----------------------------------------------------------------------------
(* The inductive invariant.                                                *)

LEMMA InitInv == Init => IndInv
<1> SUFFICES ASSUME Init PROVE IndInv
  OBVIOUS
<1>1. NoCall \in Record /\ NoCall.st = "None"
  BY DEF NoCall, Record, Absent, UasState, UacState, ClearingReason, FailureCode
<1>2. "None" \notin CallState
  BY AbsentIsNotLive DEF Absent
<1>3. Sound(NoCall)
  BY <1>1, <1>2 DEF Sound, Live, LiveState, CallState
<1>4. \A k \in Call : call[k] = NoCall
  BY DEF Init
<1>5. AllSound
  BY <1>1, <1>3 DEF Init, AllSound
<1>6. TypeOK
  BY <1>1 DEF Init, TypeOK
<1> QED BY <1>5, <1>6 DEF IndInv, Init, StopOrder, StopReachesEveryCall

\* A step that leaves the stop flags alone lets no call escape: a call that is
\* on its way out stays so, and no call is opened after stopping is set.
LEMMA StopKept ==
  ASSUME StopOrder, StopReachesEveryCall, \A j \in Call : CallMoves(j),
         stopPc' = stopPc, mustStopCalls' = mustStopCalls
  PROVE  StopReachesEveryCall'
<1> SUFFICES ASSUME stopPc = "stopped", ~ mustStopCalls, NEW k \in Call, Live(call'[k])
             PROVE  call'[k].st \in EndingState
  BY DEF StopReachesEveryCall, LiveCalls, Live
<1>1. stopping
  BY DEF StopOrder
<1>2. Swept(call[k], call'[k]) /\ Live(call[k])
  BY <1>1 DEF CallMoves
<1>3. call[k].st \in EndingState
  BY <1>2 DEF StopReachesEveryCall, LiveCalls
<1> QED BY <1>2, <1>3 DEF Swept

LEMMA NextInv == IndInv /\ [Next]_vars => IndInv'
<1> SUFFICES ASSUME IndInv, [Next]_vars PROVE IndInv'
  OBVIOUS
<1> USE DEF IndInv
<1>1. call' \in [Call -> Record] /\ \A j \in Call : CallMoves(j)
  BY NextMoves
<1>2. AllSound'
  BY <1>1 DEF AllSound, CallMoves, Swept
<1>3. CASE \/ CallerMessage \/ CameraMessage \/ Destroy
           \/ \E k \in Call : TimePasses(k)
           \/ UNCHANGED vars \/ Terminated
  <2>1. UNCHANGED <<phase, todo, dumDone, mgrDone, stopPc, stopping, mustStopCalls>>
    <3>1. ASSUME NEW k \in Call, NEW d, Deliver(k, d)
          PROVE  UNCHANGED <<phase, todo, dumDone, mgrDone, stopPc, stopping, mustStopCalls>>
      BY <3>1 DEF Deliver, loopVars, stopVars
    <3>2. CASE CallerMessage
      <4>1. \A k \in Call, l \in Leg : \A offer \in OfferKinds, m \in SdpKinds :
              NewSession(k, l, offer, m) \/ JoinSession(k, l, offer, m)
                => \E d : Deliver(k, d)
        BY ZenonT(60) DEF NewSession, JoinSession
      <4>2. \A k \in Call, l \in Leg :
              (\/ CallerCancels(k, l)
               \/ CallerHangsUp(k, l)
               \/ AckTimeout(k, l)
               \/ CallerByeAnswered(k, l))
                => \E d : Deliver(k, d)
        BY Zenon DEF CallerCancels, CallerHangsUp, AckTimeout, CallerByeAnswered
      <4>3. \A k \in Call, l \in Leg : \A m \in SdpKinds :
              (\/ CallerAcks(k, l, m)
               \/ CallerReinvites(k, l, m)
               \/ CallerAnswersReinvite(k, l, m))
                => \E d : Deliver(k, d)
        BY ZenonT(60) DEF CallerAcks, CallerReinvites, CallerAnswersReinvite
      <4>4. \E k \in Call : \E d : Deliver(k, d)
        BY <3>2, <4>1, <4>2, <4>3, Zenon DEF CallerMessage
      <4> QED BY <3>1, <4>4
    <3>3. CASE CameraMessage
      BY <3>1, <3>3, Zenon DEF CameraMessage, CameraTrying, CameraRings, CameraEarlyMedia,
           CameraAnswers, CameraReinvites, CameraAnswersReinvite, CameraRejects,
           CameraHangsUp, CameraEnded
    <3>4. CASE Destroy
      BY <3>1, <3>4 DEF Destroy, DestroyCamera, DestroyCaller
    <3>5. CASE (\E k \in Call : TimePasses(k)) \/ UNCHANGED vars \/ Terminated
      BY <3>5 DEF TimePasses, Terminated, vars, loopVars, stopVars
    <3> QED BY <1>3, <3>2, <3>3, <3>4, <3>5
  <2>2. TypeOK' /\ StopOrder'
    BY <1>1, <2>1 DEF TypeOK, StopOrder
  <2>3. StopReachesEveryCall'
    BY <1>1, <2>1, StopKept
  <2> QED BY <1>2, <2>2, <2>3
<1>4. CASE SweepStart
  <2>1. TypeOK' /\ StopOrder'
    BY <1>1, <1>4 DEF SweepStart, TypeOK, StopOrder, LiveCalls
  <2>2. CASE mustStopCalls
    <3>1. \A k \in Call : Live(call'[k]) => call'[k].st \in EndingState
      BY <1>4, <2>2, MovesSweepStart
    <3> QED BY <1>2, <2>1, <3>1 DEF StopReachesEveryCall, LiveCalls, Live
  <2>3. CASE ~ mustStopCalls
    <3>1. stopPc' = stopPc /\ mustStopCalls' = mustStopCalls
      BY <1>4, <2>3 DEF SweepStart, TypeOK
    <3>2. StopReachesEveryCall'
      BY <1>1, <2>3, <3>1, StopKept
    <3> QED BY <1>2, <2>1, <3>2
  <2> QED BY <2>2, <2>3 DEF TypeOK
<1>5. CASE (\E k \in Call : Check(k)) \/ DumComplete \/ SweepEnd \/ LoopReturns
  <2>1. UNCHANGED <<stopPc, stopping, mustStopCalls>>
    BY <1>5 DEF Check, CheckCall, DumComplete, SweepEnd, LoopReturns, stopVars
  <2>2. TypeOK'
    <3>1. CASE \E k \in Call : Check(k)
      <4>1. todo' \subseteq todo /\ UNCHANGED <<phase, dumDone, mgrDone>>
        BY <3>1 DEF Check, CheckCall
      <4> QED BY <1>1, <2>1, <4>1 DEF TypeOK
    <3>2. CASE DumComplete
      BY <1>1, <2>1, <3>2 DEF DumComplete, TypeOK
    <3>3. CASE SweepEnd
      BY <1>1, <2>1, <3>3 DEF SweepEnd, TypeOK
    <3>4. CASE LoopReturns
      BY <1>1, <2>1, <3>4 DEF LoopReturns, TypeOK
    <3> QED BY <1>5, <3>1, <3>2, <3>3, <3>4
  <2>3. StopOrder'
    BY <2>1 DEF StopOrder
  <2>4. StopReachesEveryCall'
    BY <1>1, <2>1, StopKept
  <2> QED BY <1>2, <2>2, <2>3, <2>4
<1>6. CASE StopDum \/ StopCallsFirst \/ StopCallsSecond
  <2>1. UNCHANGED <<phase, todo, dumDone, mgrDone>>
    BY <1>6 DEF StopDum, StopCallsFirst, StopCallsSecond, loopVars
  <2>2. CASE StopDum
    <3>1. TypeOK'
      BY <1>1, <2>1, <2>2 DEF StopDum, TypeOK
    <3>2. StopOrder' /\ StopReachesEveryCall'
      BY <2>2 DEF StopDum, StopOrder, StopReachesEveryCall
    <3> QED BY <1>2, <3>1, <3>2
  <2>3. CASE StopCallsFirst
    <3>1. TypeOK'
      BY <1>1, <2>1, <2>3 DEF StopCallsFirst, TypeOK
    <3>2. StopOrder' /\ StopReachesEveryCall'
      BY <2>3 DEF StopCallsFirst, StopOrder, StopReachesEveryCall
    <3> QED BY <1>2, <3>1, <3>2
  <2>4. CASE StopCallsSecond
    <3>1. TypeOK'
      BY <1>1, <2>1, <2>4 DEF StopCallsSecond, TypeOK
    <3>2. StopOrder' /\ StopReachesEveryCall'
      BY <2>4 DEF StopCallsSecond, StopOrder, StopReachesEveryCall
    <3> QED BY <1>2, <3>1, <3>2
  <2> QED BY <1>6, <2>2, <2>3, <2>4
<1> QED BY <1>3, <1>4, <1>5, <1>6 DEF Next, Loop, Stop

LEMMA Inductive == Spec => []IndInv
BY InitInv, NextInv, PTL DEF Spec

-----------------------------------------------------------------------------
(* AnswerAgrees.                                                           *)

\* The dialling states in which the camera's answer is awaited; each of them
\* permits CallAccepted.
Awaiting == {"DialInProgress", "DialReceived180", "DialReceivedEarlyAnswer",
             "DialEarlyMediaProxySuccess"}

AnsweredState == ConnectedState \cup FinishingState

\* State, connectTime, clearing reason and callers' sessions of one call agree on
\* whether it was answered.
Noted(c) ==
  /\ c \in Record
  /\ c.first \in c.asdp
  /\ \A l \in Leg : c.uas[l] \in UpUas \cup {"Ended"} => c.connected
  /\ c.connected => c.st \in AnsweredState
  /\ c.st \in ConnectedState => c.connected
  /\ c.reason \in AnsweredReason => c.connected
  /\ c.st = "DialReceivedEarlyAnswer" => c.bsdp

\* So does the camera's session, and the call is ready for its answer.
Agrees(c) ==
  /\ Noted(c)
  /\ c.uac \in PendingUac => c.offered /\ c.st \in Awaiting \cup AnsweredState
  /\ c.uac \in UpUac => c.connected

\* The groups of states, and where the transition table leads from them.
LEMMA AnswerStates ==
  /\ Awaiting \subseteq DialingState
  /\ AnsweredState \subseteq CallState
  /\ AnsweredState \cap (PreDialState \cup DialingState) = {}
  /\ ConnectedState \cap (PreDialState \cup DialingState \cup FinishingState) = {}
BY DEF Awaiting, AnsweredState, CallState, PreDialState, DialingState, ConnectedState,
       FinishingState, HangupState

\* What the transition table lets through from these groups.
LEMMA AnswerTable ==
  /\ \A s \in AnsweredState : Permitted(s) \subseteq AnsweredState
  /\ \A s \in Awaiting : "CallAccepted" \in Permitted(s)
<1>1. \A s \in AnsweredState : Permitted(s) \subseteq AnsweredState
  BY DEF AnsweredState, ConnectedState, FinishingState, HangupState, Permitted,
         DialPermits, AnsweredPermits, DialingState
<1>2. \A s \in Awaiting : "CallAccepted" \in Permitted(s)
  BY DEF Awaiting, Permitted, DialPermits, DialingState
<1> QED BY <1>1, <1>2

\* The groups of session states are disjoint.
LEMMA AnswerSessions ==
  /\ PendingUac \cap UpUac = {}
  /\ ({"None"} \cup OverUac) \cap (PendingUac \cup UpUac) = {}
  /\ {"Idle", "WaitHangup", "Dying", "Gone"} \cap (UpUas \cup {"Ended"}) = {}
  /\ EarlyUas \cap (UpUas \cup {"Ended"}) = {}
BY DEF PendingUac, UpUac, OverUac, UpUas, EarlyUas

\* A change that lifts no session beyond what the call has noted.
LEMMA AgreesData ==
  ASSUME NEW c, Agrees(c), NEW d \in Record,
         d.st = c.st, d.first = c.first, d.connected = c.connected, d.reason = c.reason,
         c.asdp \subseteq d.asdp, c.bsdp => d.bsdp,
         \/ d.uac = c.uac /\ d.offered = c.offered
         \/ d.uac \notin PendingUac \cup UpUac
         \/ d.uac \in UpUac /\ c.connected,
         \A l \in Leg : d.uas[l] \in UpUas \cup {"Ended"} =>
                          c.uas[l] \in UpUas \cup {"Ended"} \/ c.connected
  PROVE  Agrees(d)
BY AnswerSessions DEF Agrees, Noted

\* A change of state keeps the agreement if a connected state is entered only by an
\* answered call, and a state that awaits no answer only once the camera is gone.
LEMMA AgreesState ==
  ASSUME NEW c, Agrees(c), NEW s \in CallState,
         s \in ConnectedState => c.connected,
         s = "DialReceivedEarlyAnswer" => c.bsdp,
         s \notin Awaiting \cup AnsweredState => c.uac \notin PendingUac
  PROVE  Agrees(setCallState(c, s))
<1> DEFINE d == setCallState(c, s)
<1>1. /\ d \in Record
      /\ d.st = IF s \in Permitted(c.st) THEN s ELSE c.st
      /\ d.first = c.first /\ d.connected = c.connected /\ d.reason = c.reason
      /\ d.asdp = c.asdp /\ d.bsdp = c.bsdp /\ d.uas = c.uas
      /\ d.uac = c.uac /\ d.offered = c.offered
  BY DEF Agrees, Noted, setCallState, Record
<1> HIDE DEF d
<1>2. c.connected => d.st \in AnsweredState
  BY <1>1, AnswerTable DEF Agrees, Noted
<1>3. Noted(d)
  BY <1>1, <1>2 DEF Agrees, Noted
<1>4. Agrees(d)
  BY <1>1, <1>3 DEF Agrees
<1> QED BY <1>4 DEF d

\* An Answered reason is given only to a call that was answered.
LEMMA AgreesReason ==
  ASSUME NEW c, Agrees(c), NEW r \in ClearingReason, r \in AnsweredReason => c.connected
  PROVE  /\ Agrees(setClearingReason(c, r))
         /\ setClearingReason(c, r).st = c.st
         /\ setClearingReason(c, r).connected = c.connected
         /\ setClearingReason(c, r).uac = c.uac
         /\ setClearingReason(c, r).uas = c.uas
<1> DEFINE d == setClearingReason(c, r)
<1>1. /\ d \in Record
      /\ d.reason = IF c.reason = "Unset" THEN r ELSE c.reason
      /\ d.first = c.first /\ d.connected = c.connected /\ d.st = c.st
      /\ d.asdp = c.asdp /\ d.bsdp = c.bsdp /\ d.uas = c.uas
      /\ d.uac = c.uac /\ d.offered = c.offered
  BY DEF Agrees, Noted, setClearingReason, Record
<1> HIDE DEF d
<1>2. Agrees(d)
  BY <1>1 DEF Agrees, Noted
<1> QED BY <1>1, <1>2 DEF d

\* The methods of a caller's session connect it, or leave it as little connected
\* as it was.
Quieter(m) ==
  \A s \in DOMAIN m : m[s] \in UpUas \cup {"Ended"} => s \in UpUas \cup {"Ended"}

\* These methods connect nobody.
LEMMA QuieterMethods ==
  /\ Quieter(Uas_provisional) /\ Quieter(Uas_reject)
  /\ Quieter(Uas_provideAnswer) /\ Quieter(Uas_end)
<1> USE DEF Quieter, EarlyUas, UpUas, OverUas
<1>1. Quieter(Uas_provisional)   BY DEF Uas_provisional
<1>2. Quieter(Uas_reject)        BY DEF Uas_reject
<1>3. Quieter(Uas_provideAnswer) BY DEF Uas_provideAnswer
<1>4. Quieter(Uas_end)           BY DEF Uas_end
<1> QED BY <1>1, <1>2, <1>3, <1>4

\* Asking a caller's session to do something.
LEMMA AgreesLeg ==
  ASSUME NEW c, Agrees(c), NEW l, NEW m, UasMethod(m), Quieter(m) \/ c.connected
  PROVE  /\ Agrees(CallLeg(c, l, m))
         /\ CallLeg(c, l, m).st = c.st
         /\ CallLeg(c, l, m).connected = c.connected
         /\ CallLeg(c, l, m).uac = c.uac
         /\ CallLeg(c, l, m).first = c.first
         /\ CallLeg(c, l, m).bsdp = c.bsdp
<1> DEFINE d == CallLeg(c, l, m)
<1>1. /\ d \in Record
      /\ d.st = c.st /\ d.first = c.first /\ d.connected = c.connected
      /\ d.reason = c.reason /\ d.asdp = c.asdp /\ d.bsdp = c.bsdp
      /\ d.uac = c.uac /\ d.offered = c.offered
      /\ \A j \in Leg : d.uas[j] =
           IF j = l /\ c.uas[l] \in DOMAIN m THEN m[c.uas[l]] ELSE c.uas[j]
  BY ZenonT(60) DEF Agrees, Noted, CallLeg, Record, UasMethod
<1> HIDE DEF d
<1>2. Agrees(d)
  BY <1>1, AgreesData DEF Quieter
<1> QED BY <1>1, <1>2 DEF d

\* Asking the camera's session to do something.
LEMMA AgreesBLeg ==
  ASSUME NEW c, Agrees(c), NEW m, UacMethod(m), DOMAIN m \subseteq UpUac,
         \A s \in DOMAIN m : m[s] \in UpUac
  PROVE  /\ Agrees(CallBLeg(c, m))
         /\ CallBLeg(c, m).st = c.st
         /\ CallBLeg(c, m).connected = c.connected
<1> DEFINE d == CallBLeg(c, m)
<1>1. /\ d \in Record
      /\ d.st = c.st /\ d.first = c.first /\ d.connected = c.connected
      /\ d.reason = c.reason /\ d.asdp = c.asdp /\ d.bsdp = c.bsdp
      /\ d.offered = c.offered /\ d.uas = c.uas
      /\ d.uac = c.uac \/ (c.uac \in DOMAIN m /\ d.uac = m[c.uac])
  BY DEF Agrees, Noted, CallBLeg, Record, UacMethod
<1> HIDE DEF d
<1>2. d.uac = c.uac \/ (d.uac \in UpUac /\ c.connected)
  BY <1>1 DEF Agrees
<1>3. Agrees(d)
  BY <1>1, <1>2, AgreesData
<1> QED BY <1>1, <1>3 DEF d

\* Looking at the first caller.
LEMMA AgreesTouch ==
  ASSUME NEW c, Agrees(c)
  PROVE  /\ Agrees(TouchFirst(c))
         /\ TouchFirst(c).st = c.st
         /\ TouchFirst(c).connected = c.connected
         /\ TouchFirst(c).uac = c.uac
<1> DEFINE d == TouchFirst(c)
<1>1. /\ d \in Record
      /\ d.st = c.st /\ d.first = c.first /\ d.connected = c.connected
      /\ d.reason = c.reason /\ d.asdp = c.asdp /\ d.bsdp = c.bsdp
      /\ d.uac = c.uac /\ d.offered = c.offered /\ d.uas = c.uas
  BY DEF Agrees, Noted, TouchFirst, Record
<1> HIDE DEF d
<1>2. Agrees(d)
  BY <1>1, AgreesData
<1> QED BY <1>1, <1>2 DEF d

\* Taking a caller's SDP.
LEMMA AgreesASdp ==
  ASSUME NEW c, Agrees(c), NEW l \in Leg, NEW m
  PROVE  /\ Agrees(setALegSdp(c, l, m))
         /\ setALegSdp(c, l, m).st = c.st
         /\ setALegSdp(c, l, m).connected = c.connected
         /\ setALegSdp(c, l, m).uas = c.uas
<1> DEFINE d == setALegSdp(c, l, m)
<1>1. /\ d \in Record
      /\ d.st = c.st /\ d.first = c.first /\ d.connected = c.connected
      /\ d.reason = c.reason /\ d.asdp = c.asdp \cup {l} /\ d.bsdp = c.bsdp
      /\ d.uac = c.uac /\ d.offered = c.offered /\ d.uas = c.uas
  BY TransType DEF Agrees, Noted, setALegSdp, Record
<1> HIDE DEF d
<1>2. Agrees(d)
  BY <1>1, AgreesData
<1> QED BY <1>1, <1>2 DEF d

\* Taking the camera's SDP.
LEMMA AgreesBSdp ==
  ASSUME NEW c, Agrees(c), NEW m
  PROVE  /\ Agrees(setBLegSdp(c, m))
         /\ setBLegSdp(c, m).st = c.st
         /\ setBLegSdp(c, m).connected = c.connected
<1> DEFINE d == setBLegSdp(c, m)
<1>1. /\ d \in Record
      /\ d.st = c.st /\ d.first = c.first /\ d.connected = c.connected
      /\ d.reason = c.reason /\ d.asdp = c.asdp /\ d.bsdp = TRUE
      /\ d.uac = c.uac /\ d.offered = c.offered /\ d.uas = c.uas
  BY ZenonT(60), TransType DEF Agrees, Noted, setBLegSdp, Record
<1> HIDE DEF d
<1>2. Agrees(d)
  BY <1>1, AgreesData
<1> QED BY <1>1, <1>2 DEF d

\* Neither the misuse flag nor any other record of the call's routes and timers
\* matters.
LEMMA AgreesBad ==
  ASSUME NEW c, Agrees(c), NEW b \in BOOLEAN
  PROVE  /\ Agrees([c EXCEPT !.bad = @ \/ b])
         /\ [c EXCEPT !.bad = @ \/ b].st = c.st
         /\ [c EXCEPT !.bad = @ \/ b].connected = c.connected
<1> DEFINE d == [c EXCEPT !.bad = @ \/ b]
<1>1. /\ d \in Record
      /\ d.st = c.st /\ d.first = c.first /\ d.connected = c.connected
      /\ d.reason = c.reason /\ d.asdp = c.asdp /\ d.bsdp = c.bsdp
      /\ d.uac = c.uac /\ d.offered = c.offered /\ d.uas = c.uas
  BY DEF Agrees, Noted, Record
<1> HIDE DEF d
<1>2. Agrees(d)
  BY <1>1, AgreesData
<1> QED BY <1>1, <1>2 DEF d

-----------------------------------------------------------------------------
(* The callbacks keep a call in agreement, if no relay throws.             *)

\* The relay has a port for the media that m leads to.
LEMMA NoThrow == ASSUME NEW c, NEW m, ~ m.fail PROVE sdpThrows(c, m) = FALSE
BY DEF sdpThrows

\* The states that handlers name, by group.
LEMMA CallStateNames ==
  /\ {"CallerCancel", "CallStop", "CallStopFinal", "CallerHangup", "CalleeHangup",
      "LocalHangup"} \subseteq FinishingState
  /\ {"CallAccepted", "CallActive", "CallAcceptedMediaProxyFail",
      "CallAcceptedMediaProxySuccess"} \subseteq ConnectedState
  /\ ConnectedState \cup FinishingState = AnsweredState
  /\ {"DialRejected", "SelectAlternateRoute", "DialAborted", "DialEarlyMediaProxyFail",
      "ReadyToDial", "DialFailed"} \cap (Awaiting \cup AnsweredState) = {}
  /\ DialingState \cup PreDialState \cup AnsweredState = CallState
BY DEF FinishingState, ConnectedState, AnsweredState, HangupState, Awaiting, CallState,
       DialingState, PreDialState

\* onOffer of the first caller.
LEMMA AgreesOfferFirst ==
  ASSUME NEW c, Agrees(c), c.first \in Leg, NEW m, ~ m.fail
  PROVE  Agrees(onOfferFirst(c, m))
<1> DEFINE d == setALegSdp(c, c.first, m)
<1>1. Agrees(d)
  BY AgreesASdp
<1> HIDE DEF d
<1>2. UacMethod(Uac_provideOffer) /\ DOMAIN Uac_provideOffer \subseteq UpUac
      /\ \A s \in DOMAIN Uac_provideOffer : Uac_provideOffer[s] \in UpUac
  BY UacMethods DEF Uac_provideOffer, UpUac
<1>3. Agrees(CallBLeg(d, Uac_provideOffer))
  BY <1>1, <1>2, AgreesBLeg
<1> QED BY <1>1, <1>3, NoThrow DEF onOfferFirst, d

\* onOffer of a caller who joined: answered only in a call in progress.
LEMMA AgreesOfferJoiner ==
  ASSUME NEW c, Agrees(c), NEW l \in Leg, NEW m
  PROVE  Agrees(onOfferJoiner(c, l, m))
<1> DEFINE d == setALegSdp(c, l, m)
           e == CallLeg(d, l, Uas_provideAnswer)
<1>1. CASE c.st # "CallActive"
  BY <1>1 DEF onOfferJoiner
<1>2. CASE c.st = "CallActive"
  <2>1. c.connected
    BY <1>2, CallStateNames DEF Agrees, Noted
  <2>2. Agrees(d) /\ d.connected
    BY <2>1, AgreesASdp
  <2> HIDE DEF d
  <2>3. Agrees(e) /\ e.connected
    BY <2>2, AgreesLeg, UasMethods
  <2> HIDE DEF e
  <2>4. Agrees(CallLeg(e, l, Uas_accept))
    BY <2>3, AgreesLeg, UasMethods
  <2> QED BY <1>2, <2>2, <2>4 DEF onOfferJoiner, d, e
<1> QED BY <1>1, <1>2

\* onOfferRequired, likewise.
LEMMA AgreesOfferRequired ==
  ASSUME NEW c, Agrees(c), NEW l \in Leg
  PROVE  Agrees(onOfferRequired(c, l))
<1> DEFINE e == CallLeg(c, l, Uas_provideOffer)
<1>1. CASE ~ (l # c.first /\ c.st = "CallActive")
  BY <1>1 DEF onOfferRequired
<1>2. CASE l # c.first /\ c.st = "CallActive"
  <2>1. c.connected
    BY <1>2, CallStateNames DEF Agrees, Noted
  <2>2. Agrees(e) /\ e.connected
    BY <2>1, AgreesLeg, UasMethods
  <2> HIDE DEF e
  <2>3. Agrees(CallLeg(e, l, Uas_accept))
    BY <2>2, AgreesLeg, UasMethods
  <2> QED BY <1>2, <2>3 DEF onOfferRequired, e
<1> QED BY <1>1, <1>2

\* An offer of the camera is a re-INVITE: the call was answered before.
LEMMA AgreesOfferB ==
  ASSUME NEW c, Agrees(c), c.connected, NEW m, ~ m.fail
  PROVE  Agrees(onOfferB(c, m))
<1> DEFINE d == setBLegSdp(c, m)
           r == setClearingReason(d, "AnsweredError")
           e == CallFirst(d, Uas_provideOffer)
<1>1. Agrees(d) /\ d.connected
  BY AgreesBSdp
<1> HIDE DEF d
<1>2. Agrees(r) /\ r.connected
  BY <1>1, AgreesReason DEF ClearingReason
<1> HIDE DEF r
<1>3. Agrees(setCallState(r, "CallAcceptedMediaProxyFail"))
  BY <1>2, AgreesState, CallStateNames, AnswerStates
<1>4. Agrees(e) /\ e.connected
  BY <1>1, AgreesLeg, UasMethods DEF CallFirst
<1> HIDE DEF e
<1>5. Agrees(CallFirst(e, Uas_accept))
  BY <1>4, AgreesLeg, UasMethods DEF CallFirst
<1>6. Agrees(doCallOffered(d))
  BY <1>3, <1>5 DEF doCallOffered, r, e
<1> QED BY <1>6, NoThrow DEF onOfferB, d

\* The camera answers: its session is up, and what was noted before is completed
\* by connectTime and CallAccepted.
LEMMA AgreesAnswerB ==
  ASSUME NEW c, Noted(c), c.uac \in UpUac, c.st \in Awaiting \cup AnsweredState,
         NEW m, ~ m.fail
  PROVE  Agrees(onAnswerB(c, m))
<1> DEFINE a == setCallState(c, "CallAccepted")
           d == [a EXCEPT !.connected = TRUE]
           e == setBLegSdp(d, m)
           b == setBLegSdp(c, m)
<1>1. CASE c.st = "CallActive"
  <2>1. Agrees(c)
    BY <1>1, AnswerSessions, CallStateNames DEF Agrees, Noted
  <2>2. Agrees(b)
    BY <2>1, AgreesBSdp
  <2> HIDE DEF b
  <2>3. Agrees([b EXCEPT !.bad = @ \/ FALSE])
    BY <2>2, AgreesBad
  <2> QED BY <1>1, <2>3, NoThrow DEF onAnswerB, b
<1>2. CASE c.st # "CallActive"
  <2>1. "CallAccepted" \in CallState /\ "CallAccepted" \in ConnectedState
    BY AnswerStates, CallStateNames
  <2>2. /\ a \in Record
        /\ a.st = IF "CallAccepted" \in Permitted(c.st) THEN "CallAccepted" ELSE c.st
        /\ a.first = c.first /\ a.reason = c.reason /\ a.asdp = c.asdp /\ a.bsdp = c.bsdp
        /\ a.uac = c.uac /\ a.uas = c.uas /\ a.offered = c.offered
    BY <2>1 DEF Noted, setCallState, Record
  <2>3. a.st \in AnsweredState
    BY <2>1, <2>2, AnswerTable, CallStateNames
  <2> HIDE DEF a
  <2>4. /\ d \in Record /\ d.st = a.st /\ d.connected
        /\ d.first = a.first /\ d.reason = a.reason /\ d.asdp = a.asdp /\ d.bsdp = a.bsdp
        /\ d.uac = a.uac /\ d.uas = a.uas /\ d.offered = a.offered
    BY <2>2 DEF Record
  <2> HIDE DEF d
  <2>5. "DialReceivedEarlyAnswer" \notin AnsweredState
    BY AnswerStates DEF DialingState
  <2>6. Agrees(d)
    BY <2>2, <2>3, <2>4, <2>5, AnswerSessions DEF Agrees, Noted
  <2>7. Agrees(e)
    BY <2>6, AgreesBSdp
  <2> QED BY <1>2, <2>7, NoThrow DEF onAnswerB, a, d, e
<1> QED BY <1>1, <1>2

\* A caller's answer to the camera comes in a call that was answered.
LEMMA AgreesAnswerA ==
  ASSUME NEW c, Agrees(c), c.connected, NEW l \in Leg, NEW m, ~ m.fail
  PROVE  Agrees(onAnswerA(c, l, m))
<1> DEFINE a == setALegSdp(c, l, m)
           x == sdpThrows(c, m) \/ ~ c.bleg
           d == [a EXCEPT !.bad = @ \/ x]
           e == CallBLeg(d, Uac_provideAnswer)
           f == [e EXCEPT !.connected = TRUE]
<1>1. Agrees(a) /\ a.connected
  BY AgreesASdp
<1> HIDE DEF a
<1>2. x \in BOOLEAN
  BY DEF Agrees, Noted, Record
<1> HIDE DEF x
<1>3. Agrees(d) /\ d.connected
  BY <1>1, <1>2, AgreesBad
<1> HIDE DEF d
<1>4. UacMethod(Uac_provideAnswer) /\ DOMAIN Uac_provideAnswer \subseteq UpUac
      /\ \A s \in DOMAIN Uac_provideAnswer : Uac_provideAnswer[s] \in UpUac
  BY UacMethods DEF Uac_provideAnswer, UpUac
<1>5. Agrees(e) /\ e.connected
  BY <1>3, <1>4, AgreesBLeg
<1> HIDE DEF e
<1>6. /\ f \in Record
      /\ f.st = e.st /\ f.first = e.first /\ f.connected
      /\ f.reason = e.reason /\ f.asdp = e.asdp /\ f.bsdp = e.bsdp
      /\ f.uac = e.uac /\ f.offered = e.offered /\ f.uas = e.uas
  BY ZenonT(60), <1>5 DEF Agrees, Noted, Record
<1>7. e.connected \in BOOLEAN /\ f.connected \in BOOLEAN
  BY <1>5, <1>6 DEF Agrees, Noted, Record
<1>8. f.connected = e.connected
  BY <1>5, <1>6, <1>7
<1> HIDE DEF f
<1>9. Agrees(f) /\ f.connected
  BY <1>5, <1>6, <1>8, AgreesData
<1>10. Agrees(setCallState(f, "CallActive"))
  BY <1>9, AgreesState, CallStateNames, AnswerStates
<1>11. onAnswerA(c, l, m) \in {d, e, setCallState(f, "CallActive")}
  BY DEF onAnswerA, doCallAnswered, a, d, e, f, x
<1> QED BY <1>3, <1>5, <1>10, <1>11

\* A provisional response, from the queue or from the sweep.
LEMMA AgreesReceived180 ==
  ASSUME NEW c, Agrees(c)
  PROVE  /\ Agrees(doDialReceived180(c))
         /\ doDialReceived180(c).st \in {c.st, "DialInProgress"}
<1> DEFINE d == setCallState(c, "DialInProgress")
<1>1. "DialInProgress" \in CallState /\ "DialInProgress" \in Awaiting
      /\ "DialInProgress" \notin ConnectedState
  BY AnswerStates DEF Awaiting, CallState
<1>2. Agrees(d)
  BY <1>1, AgreesState
<1>3. "DialInProgress" \in Permitted(c.st) => d.st = "DialInProgress"
  BY DEF setCallState, Agrees, Noted, Record
<1> HIDE DEF d
<1>4. Agrees(CallFirst(d, Uas_provisional)) /\ CallFirst(d, Uas_provisional).st = d.st
  BY <1>2, AgreesLeg, UasMethods, QuieterMethods DEF CallFirst
<1> QED BY <1>3, <1>4 DEF doDialReceived180, d

\* onRinging.
LEMMA AgreesRinging == ASSUME NEW c, Agrees(c) PROVE Agrees(onRinging(c))
<1>1. "DialReceived180" \in CallState /\ "DialReceived180" \in Awaiting
      /\ "DialReceived180" \notin ConnectedState
  BY AnswerStates DEF Awaiting, CallState
<1> QED BY <1>1, AgreesState DEF onRinging

\* onEarlyMedia notes the camera's SDP with the new state.
LEMMA AgreesEarlyMedia ==
  ASSUME NEW c, Agrees(c), NEW m, ~ m.fail
  PROVE  Agrees(onEarlyMedia(c, m))
<1> DEFINE d == setCallState(c, "DialReceivedEarlyAnswer")
           e == setBLegSdp(d, m)
<1>1. "DialReceivedEarlyAnswer" \in CallState /\ "DialReceivedEarlyAnswer" \in Awaiting
      /\ "DialReceivedEarlyAnswer" \notin AnsweredState
  BY AnswerStates DEF Awaiting, CallState
<1>2. /\ d \in Record
      /\ d.st = IF "DialReceivedEarlyAnswer" \in Permitted(c.st)
                  THEN "DialReceivedEarlyAnswer" ELSE c.st
      /\ d.first = c.first /\ d.connected = c.connected /\ d.reason = c.reason
      /\ d.asdp = c.asdp /\ d.uas = c.uas /\ d.uac = c.uac /\ d.offered = c.offered
  BY <1>1 DEF Agrees, Noted, setCallState, Record
<1> HIDE DEF d
<1>3. /\ e \in Record /\ e.st = d.st /\ e.bsdp
      /\ e.first = d.first /\ e.connected = d.connected /\ e.reason = d.reason
      /\ e.asdp = d.asdp /\ e.uas = d.uas /\ e.uac = d.uac /\ e.offered = d.offered
  BY ZenonT(60), <1>2, TransType DEF setBLegSdp, Record
<1> HIDE DEF e
<1>4. c.connected => e.st \in AnsweredState
  BY <1>2, <1>3, AnswerTable DEF Agrees, Noted
<1>5. Noted(e)
  BY <1>1, <1>2, <1>3, <1>4, CallStateNames DEF Agrees, Noted
<1>6. Agrees(e)
  BY <1>1, <1>2, <1>3, <1>5 DEF Agrees
<1> QED BY <1>6, NoThrow DEF onEarlyMedia, d, e

\* A refused call no longer waits for the camera.
LEMMA AgreesRejected ==
  ASSUME NEW c, Agrees(c), c.uac = "Dying", NEW code \in FailureCode
  PROVE  Agrees(onRejected(c, code))
<1> DEFINE d == setCallState(c, "DialRejected")
           e == [d EXCEPT !.code = code]
<1>1. "DialRejected" \in CallState /\ "DialRejected" \notin Awaiting \cup AnsweredState
  BY CallStateNames DEF CallState, DialingState
<1>2. Agrees(d)
  BY <1>1, AgreesState, CallStateNames, AnswerSessions DEF OverUac
<1> HIDE DEF d
<1>3. /\ e \in Record
      /\ e.st = d.st /\ e.first = d.first /\ e.connected = d.connected
      /\ e.reason = d.reason /\ e.asdp = d.asdp /\ e.bsdp = d.bsdp
      /\ e.uac = d.uac /\ e.offered = d.offered /\ e.uas = d.uas
  BY <1>2 DEF Agrees, Noted, Record
<1> HIDE DEF e
<1>4. Agrees(e)
  BY <1>2, <1>3, AgreesData
<1> QED BY <1>4 DEF onRejected, d, e

\* Every call can be told to finish.
LEMMA AgreesFinish ==
  ASSUME NEW c, Agrees(c), NEW s \in FinishingState
  PROVE  /\ Agrees(setCallState(c, s))
         /\ setCallState(c, s).st \in {c.st, s}
         /\ setCallState(c, s).connected = c.connected
<1>1. s \in CallState /\ s \in AnsweredState /\ s \notin ConnectedState
      /\ s # "DialReceivedEarlyAnswer"
  BY AnswerStates, CallStateNames DEF Awaiting
<1>2. Agrees(setCallState(c, s))
  BY <1>1, AgreesState
<1> QED BY <1>2 DEF setCallState, Agrees, Noted, Record

\* onCancel.
LEMMA AgreesCancel == ASSUME NEW c, Agrees(c), NEW l PROVE Agrees(onCancel(c, l))
BY AgreesFinish, CallStateNames DEF onCancel

\* Hanging up happens in answered calls.
LEMMA AgreesHangup ==
  ASSUME NEW c, Agrees(c), c.connected, NEW l
  PROVE  Agrees(onHangupA(c, l)) /\ Agrees(onHangupB(c))
<1>1. ASSUME NEW r \in ClearingReason, NEW s \in HangupState
      PROVE  Agrees(setCallState(setClearingReason(c, r), s))
  <2>1. Agrees(setClearingReason(c, r))
    BY AgreesReason
  <2>2. s \in FinishingState
    BY DEF FinishingState
  <2> QED BY <2>1, <2>2, AgreesFinish
<1>2. {"AnsweredALegHangup", "AnsweredBLegHangup"} \subseteq ClearingReason
      /\ {"CallerHangup", "CalleeHangup"} \subseteq HangupState
  BY DEF ClearingReason, HangupState
<1> QED BY <1>1, <1>2 DEF onHangupA, onHangupB

\* onStopping moves the call to CallStop or leaves it.
LEMMA AgreesStopping ==
  ASSUME NEW c, Agrees(c)
  PROVE  Agrees(onStopping(c)) /\ onStopping(c).st \in {c.st, "CallStop"}
         /\ onStopping(c).uas = c.uas
<1>1. setCallState(c, "CallStop").uas = c.uas
  BY DEF setCallState, Agrees, Noted, Record
<1> QED BY <1>1, AgreesFinish, CallStateNames DEF onStopping

\* The destructors of the dialogs.
LEMMA AgreesRelease ==
  ASSUME NEW c, Agrees(c), NEW l \in Leg
  PROVE  Agrees(releaseAppDialog(c, l)) /\ Agrees(releaseAppDialogSet(c))
<1> DEFINE x == c.legs \ {l}
           y == c.back \ {l}
           d == [c EXCEPT !.legs = x, !.back = y]
           e == [c EXCEPT !.bset = FALSE, !.bleg = FALSE]
<1>1. x \in SUBSET Leg /\ y \in SUBSET Leg
  BY DEF Agrees, Noted, Record
<1>2. releaseAppDialog(c, l) \in {c, d} /\ releaseAppDialogSet(c) = e
  BY DEF releaseAppDialog, releaseAppDialogSet
<1> HIDE DEF x, y
<1>3. /\ d \in Record
      /\ d.st = c.st /\ d.first = c.first /\ d.connected = c.connected
      /\ d.reason = c.reason /\ d.asdp = c.asdp /\ d.bsdp = c.bsdp
      /\ d.uac = c.uac /\ d.offered = c.offered /\ d.uas = c.uas
  BY <1>1 DEF Agrees, Noted, Record
<1>4. /\ e \in Record
      /\ e.st = c.st /\ e.first = c.first /\ e.connected = c.connected
      /\ e.reason = c.reason /\ e.asdp = c.asdp /\ e.bsdp = c.bsdp
      /\ e.uac = c.uac /\ e.offered = c.offered /\ e.uas = c.uas
  BY DEF Agrees, Noted, Record
<1> HIDE DEF d, e
<1> QED BY <1>2, <1>3, <1>4, AgreesData

-----------------------------------------------------------------------------
(* A sweep keeps a call in agreement.  It leaves no call in                *)
(* DialReceivedEarlyAnswer.                                                *)

Steady(c) == Agrees(c) /\ c.st # "DialReceivedEarlyAnswer"

\* Finishing.
LEMMA SteadyFinish ==
  ASSUME NEW c, Steady(c), NEW s \in FinishingState
  PROVE  Steady(setCallState(c, s))
<1>1. "DialReceivedEarlyAnswer" \notin FinishingState
  BY AnswerStates, CallStateNames DEF DialingState
<1> QED BY <1>1, AgreesFinish DEF Steady

\* Noting a clearing reason.
LEMMA SteadyReason ==
  ASSUME NEW c, Steady(c), NEW r \in ClearingReason, r \in AnsweredReason => c.connected
  PROVE  Steady(setClearingReason(c, r)) /\ setClearingReason(c, r).st = c.st
         /\ setClearingReason(c, r).connected = c.connected
         /\ setClearingReason(c, r).uac = c.uac
BY AgreesReason DEF Steady

\* Asking the first caller's session to do something.
LEMMA SteadyFirst ==
  ASSUME NEW c, Steady(c), NEW m, UasMethod(m), Quieter(m) \/ c.connected
  PROVE  Steady(CallFirst(c, m)) /\ CallFirst(c, m).st = c.st
         /\ CallFirst(c, m).connected = c.connected
         /\ CallFirst(c, m).uac = c.uac
BY AgreesLeg DEF Steady, CallFirst

\* A step of a chain: the change is permitted, and its target awaits no camera.
LEMMA SteadyStep ==
  ASSUME NEW c, Steady(c), NEW s \in CallState, s \in Permitted(c.st),
         s \in ConnectedState => c.connected,
         s # "DialReceivedEarlyAnswer",
         s \notin Awaiting \cup AnsweredState => c.uac \notin PendingUac
  PROVE  Steady(setCallState(c, s)) /\ setCallState(c, s).st = s
         /\ setCallState(c, s).uac = c.uac
         /\ setCallState(c, s).connected = c.connected
<1>1. Agrees(setCallState(c, s))
  BY AgreesState DEF Steady
<1> QED BY <1>1 DEF setCallState, Steady, Agrees, Noted, Record

\* Reject the caller and stop.
LEMMA SteadyRejectAndStop ==
  ASSUME NEW c, Steady(c), NEW r \in ClearingReason, r \in AnsweredReason => c.connected
  PROVE  /\ Steady(CallFirst(setClearingReason(c, r), Uas_reject))
         /\ Steady(setCallState(CallFirst(setClearingReason(c, r), Uas_reject), "CallStop"))
<1> DEFINE d == setClearingReason(c, r)
           e == CallFirst(d, Uas_reject)
<1>1. Steady(d)
  BY SteadyReason
<1> HIDE DEF d
<1>2. Steady(e)
  BY <1>1, SteadyFirst, UasMethods, QuieterMethods
<1> HIDE DEF e
<1>3. Steady(setCallState(e, "CallStop"))
  BY <1>2, SteadyFinish, CallStateNames
<1> QED BY <1>2, <1>3 DEF d, e

\* A hung-up session is not up, and hanging up lifts none.
LEMMA UacEnd ==
  /\ \A s \in UacState : Uac_end[s] \notin PendingUac \cup UpUac
  /\ \A s \in UacState : Uac_end[s] \in UacState
BY DEF Uac_end, UacState, PendingUac, UpUac, OverUac

\* doCallStop hangs everybody up.
LEMMA SteadyCallStop == ASSUME NEW c, Steady(c) PROVE Steady(doCallStop(c))
<1> DEFINE u == [l \in Leg |-> IF l \in c.legs /\ c.uas[l] \in DOMAIN Uas_end
                                 THEN Uas_end[c.uas[l]] ELSE c.uas[l]]
           v == IF c.bset THEN Uac_end[c.uac] ELSE c.uac
           b == c.back \ c.legs
           d == [c EXCEPT !.back = b, !.uas = u, !.uac = v]
<1>1. c \in Record
  BY DEF Steady, Agrees, Noted
<1>2. u \in [Leg -> UasState]
  BY <1>1, UasMethods DEF Record, UasMethod
<1>3. \A l \in Leg : u[l] \in UpUas \cup {"Ended"} =>
        c.uas[l] \in UpUas \cup {"Ended"} \/ c.connected
  <2> SUFFICES ASSUME NEW l \in Leg, u[l] \in UpUas \cup {"Ended"}
               PROVE  c.uas[l] \in UpUas \cup {"Ended"}
    OBVIOUS
  <2>1. u[l] = IF l \in c.legs /\ c.uas[l] \in DOMAIN Uas_end
                 THEN Uas_end[c.uas[l]] ELSE c.uas[l]
    OBVIOUS
  <2> HIDE DEF u
  <2> QED BY <2>1, QuieterMethods DEF Quieter
<1>4. v \in UacState /\ (v = c.uac \/ v \notin PendingUac \cup UpUac)
  BY <1>1, UacEnd DEF Record
<1>5. b \in SUBSET Leg
  BY <1>1 DEF Record
<1> HIDE DEF u, v, b
<1>6. /\ d \in Record
      /\ d.st = c.st /\ d.first = c.first /\ d.connected = c.connected
      /\ d.reason = c.reason /\ d.asdp = c.asdp /\ d.bsdp = c.bsdp
      /\ d.uac = v /\ d.offered = c.offered /\ d.uas = u
  BY <1>1, <1>2, <1>4, <1>5 DEF Record
<1>7. doCallStop(c) = setCallState(d, "CallStopFinal")
  BY DEF doCallStop, u, v, b
<1> HIDE DEF d
<1>8. Steady(d)
  BY <1>3, <1>4, <1>6, AgreesData DEF Steady
<1> QED BY <1>7, <1>8, SteadyFinish, CallStateNames

\* doHangup, for the three ways to hang up.
LEMMA SteadyHangup == ASSUME NEW c, Steady(c) PROVE Steady(doHangup(c))
BY SteadyFinish, SteadyCallStop, CallStateNames DEF doHangup

\* Hanging up the camera, and forgetting it or not.
LEMMA SteadyDrop ==
  ASSUME NEW c, Steady(c)
  PROVE  /\ Steady(dropBLeg(c)) /\ dropBLeg(c).st = c.st
         /\ c.uac \notin PendingUac => dropBLeg(c).uac \notin PendingUac
         /\ Steady([c EXCEPT !.uac = Uac_end[@]]) /\ [c EXCEPT !.uac = Uac_end[@]].st = c.st
<1> DEFINE v == IF c.bset THEN Uac_end[c.uac] ELSE c.uac
           w == Uac_end[c.uac]
           d == [c EXCEPT !.uac = v, !.bset = FALSE, !.bleg = FALSE]
           e == [c EXCEPT !.uac = w]
<1>1. c \in Record
  BY DEF Steady, Agrees, Noted
<1>2. /\ v \in UacState /\ (v = c.uac \/ v \notin PendingUac \cup UpUac)
      /\ w \in UacState /\ w \notin PendingUac \cup UpUac
  BY <1>1, UacEnd DEF Record
<1>3. dropBLeg(c) = d /\ [c EXCEPT !.uac = Uac_end[@]] = e
  BY DEF dropBLeg
<1> HIDE DEF v, w
<1>4. /\ d \in Record
      /\ d.st = c.st /\ d.first = c.first /\ d.connected = c.connected
      /\ d.reason = c.reason /\ d.asdp = c.asdp /\ d.bsdp = c.bsdp
      /\ d.uac = v /\ d.offered = c.offered /\ d.uas = c.uas
  BY <1>1, <1>2 DEF Record
<1>5. /\ e \in Record
      /\ e.st = c.st /\ e.first = c.first /\ e.connected = c.connected
      /\ e.reason = c.reason /\ e.asdp = c.asdp /\ e.bsdp = c.bsdp
      /\ e.uac = w /\ e.offered = c.offered /\ e.uas = c.uas
  BY <1>1, <1>2 DEF Record
<1> HIDE DEF d, e
<1>6. Steady(d) /\ Steady(e)
  BY <1>2, <1>4, <1>5, AgreesData DEF Steady
<1> QED BY <1>2, <1>3, <1>4, <1>5, <1>6

\* doCallerCancel ends the camera's session.
LEMMA SteadyCallerCancel == ASSUME NEW c, Steady(c) PROVE Steady(doCallerCancel(c))
<1> DEFINE d == setClearingReason(c, "NoAnswerCancel")
           e == IF d.bset THEN [d EXCEPT !.uac = Uac_end[@]] ELSE d
<1>1. "NoAnswerCancel" \in ClearingReason /\ "NoAnswerCancel" \notin AnsweredReason
  BY DEF ClearingReason, AnsweredReason
<1>2. Steady(d)
  BY <1>1, SteadyReason
<1> HIDE DEF d
<1>3. Steady(e)
  BY <1>2, SteadyDrop
<1> HIDE DEF e
<1>4. Steady(setCallState(e, "CallStop"))
  BY <1>3, SteadyFinish, CallStateNames
<1> QED BY <1>4 DEF doCallerCancel, d, e

\* The INVITE to the camera carries the first caller's offer.
LEMMA SteadyReadyToDial ==
  ASSUME NEW c, Steady(c), c.st = "ReadyToDial"
  PROVE  Steady(doReadyToDial(c))
<1> DEFINE o == c.first \in c.asdp
           b == [c EXCEPT !.bset = TRUE, !.uac = "Calling", !.offered = o]
           d == TouchFirst(b)
           e == setCallState(d, "DialInProgress")
<1>1. c \in Record /\ o = TRUE
  BY DEF Steady, Agrees, Noted
<1> HIDE DEF o
<1>2. "Calling" \in UacState /\ "Calling" \notin UpUac
  BY DEF UacState, PendingUac, UpUac, OverUac
<1>3. "DialInProgress" \in Permitted("ReadyToDial") /\ "DialInProgress" \in CallState
      /\ "DialInProgress" \in Awaiting /\ "DialInProgress" \notin ConnectedState
      /\ "ReadyToDial" \notin AnsweredState
  BY CallStateNames, AnswerStates
     DEF Permitted, DialPermits, DialingState, Awaiting, CallState
<1>4. /\ b \in Record
      /\ b.st = c.st /\ b.first = c.first /\ b.connected = c.connected
      /\ b.reason = c.reason /\ b.asdp = c.asdp /\ b.bsdp = c.bsdp
      /\ b.uac = "Calling" /\ b.offered /\ b.uas = c.uas
  BY <1>1, <1>2 DEF Record
<1> HIDE DEF b
<1>5. /\ d \in Record
      /\ d.st = c.st /\ d.first = c.first /\ d.connected = c.connected
      /\ d.reason = c.reason /\ d.asdp = c.asdp /\ d.bsdp = c.bsdp
      /\ d.uac = "Calling" /\ d.offered /\ d.uas = c.uas
  BY <1>4 DEF TouchFirst, Record
<1> HIDE DEF d
<1>6. /\ e \in Record
      /\ e.st = "DialInProgress" /\ e.first = c.first /\ e.connected = c.connected
      /\ e.reason = c.reason /\ e.asdp = c.asdp /\ e.bsdp = c.bsdp
      /\ e.uac = "Calling" /\ e.offered /\ e.uas = c.uas
  BY <1>3, <1>5 DEF setCallState, Record
<1> HIDE DEF e
<1>7. Steady(e)
  BY <1>2, <1>3, <1>6 DEF Steady, Agrees, Noted
<1> QED BY <1>7 DEF doReadyToDial, b, d, e, o

\* A change of state that need not be permitted.
LEMMA SteadyTo ==
  ASSUME NEW c, Steady(c), NEW s \in CallState,
         s \in ConnectedState => c.connected,
         s # "DialReceivedEarlyAnswer",
         s \notin Awaiting \cup AnsweredState => c.uac \notin PendingUac
  PROVE  Steady(setCallState(c, s))
         /\ setCallState(c, s).uac = c.uac
         /\ setCallState(c, s).connected = c.connected
<1>1. Agrees(setCallState(c, s))
  BY AgreesState DEF Steady
<1> QED BY <1>1 DEF setCallState, Steady, Agrees, Noted, Record

\* Looking at the first caller.
LEMMA SteadyTouch ==
  ASSUME NEW c, Steady(c)
  PROVE  Steady(TouchFirst(c)) /\ TouchFirst(c).st = c.st
         /\ TouchFirst(c).connected = c.connected
         /\ TouchFirst(c).uac = c.uac
BY AgreesTouch DEF Steady

\* Routes, failure code and flags of the early answer are no part of it.
LEMMA SteadyNotes ==
  ASSUME NEW c, Steady(c), NEW n \in Nat, NEW code \in FailureCode
  PROVE  /\ Steady([c EXCEPT !.routes = n]) /\ [c EXCEPT !.routes = n].st = c.st
         /\ [c EXCEPT !.routes = n].uac = c.uac
         /\ Steady([c EXCEPT !.early = TRUE]) /\ [c EXCEPT !.early = TRUE].st = c.st
         /\ c.connected => /\ Steady([c EXCEPT !.connected = TRUE])
                           /\ [c EXCEPT !.connected = TRUE].connected
<1>1. c \in Record
  BY DEF Steady, Agrees, Noted
<1>2. Steady([c EXCEPT !.routes = n]) /\ [c EXCEPT !.routes = n].st = c.st
      /\ [c EXCEPT !.routes = n].uac = c.uac
  <2> DEFINE d == [c EXCEPT !.routes = n]
  <2>1. /\ d \in Record
        /\ d.st = c.st /\ d.first = c.first /\ d.connected = c.connected
        /\ d.reason = c.reason /\ d.asdp = c.asdp /\ d.bsdp = c.bsdp
        /\ d.uac = c.uac /\ d.offered = c.offered /\ d.uas = c.uas
    BY <1>1 DEF Record
  <2> HIDE DEF d
  <2>2. Steady(d)
    BY <2>1, AgreesData DEF Steady
  <2> QED BY <2>1, <2>2 DEF d
<1>3. Steady([c EXCEPT !.early = TRUE]) /\ [c EXCEPT !.early = TRUE].st = c.st
  <2> DEFINE d == [c EXCEPT !.early = TRUE]
  <2>1. /\ d \in Record
        /\ d.st = c.st /\ d.first = c.first /\ d.connected = c.connected
        /\ d.reason = c.reason /\ d.asdp = c.asdp /\ d.bsdp = c.bsdp
        /\ d.uac = c.uac /\ d.offered = c.offered /\ d.uas = c.uas
    BY <1>1 DEF Record
  <2> HIDE DEF d
  <2>2. Steady(d)
    BY <2>1, AgreesData DEF Steady
  <2> QED BY <2>1, <2>2 DEF d
<1>4. ASSUME c.connected
      PROVE  Steady([c EXCEPT !.connected = TRUE]) /\ [c EXCEPT !.connected = TRUE].connected
  <2> DEFINE d == [c EXCEPT !.connected = TRUE]
  <2>1. /\ d \in Record /\ d.connected
        /\ d.st = c.st /\ d.first = c.first
        /\ d.reason = c.reason /\ d.asdp = c.asdp /\ d.bsdp = c.bsdp
        /\ d.uac = c.uac /\ d.offered = c.offered /\ d.uas = c.uas
    BY <1>1 DEF Record
  <2>2. c.connected = TRUE /\ d.connected = TRUE
    BY <1>1, <1>4, <2>1 DEF Record
  <2> HIDE DEF d
  <2>3. Steady(d)
    BY <2>1, <2>2, AgreesData DEF Steady
  <2> QED BY <2>1, <2>3 DEF d
<1> QED BY <1>2, <1>3, <1>4

\* A call that has not dialled, or whose camera refused, awaits no camera.
LEMMA NotPending ==
  ASSUME NEW c, Agrees(c),
         c.st \in PreDialState \cup {"ReadyToDial", "DialRejected", "SelectAlternateRoute",
                                     "DialAborted", "DialEarlyMediaProxyFail"}
  PROVE  c.uac \notin PendingUac
<1>1. c.st \notin Awaiting \cup AnsweredState
  BY AnswerStates, CallStateNames DEF PreDialState, DialingState
<1> QED BY <1>1 DEF Agrees

\* doMediaProxySuccess goes on to dial.
LEMMA SteadyMediaProxySuccess ==
  ASSUME NEW c, Steady(c), c.st = "MediaProxySuccess"
  PROVE  Steady(doMediaProxySuccess(c))
<1>1. c.uac \notin PendingUac
  BY NotPending DEF Steady, PreDialState
<1>2. "ReadyToDial" \in Permitted("MediaProxySuccess") /\ "ReadyToDial" \in CallState
      /\ "ReadyToDial" \notin ConnectedState
  BY CallStateNames DEF Permitted, CallState, DialingState
<1>3. Steady(setCallState(c, "ReadyToDial"))
      /\ setCallState(c, "ReadyToDial").st = "ReadyToDial"
  BY <1>1, <1>2, SteadyStep
<1> QED BY <1>3, SteadyReadyToDial DEF doMediaProxySuccess

\* doAuthorizationSuccess: no route, or on to the media proxy.
LEMMA SteadyAuthorizationSuccess ==
  ASSUME NEW c, Steady(c), c.st = "AuthorizationSuccess", NEW n \in Nat
  PROVE  Steady(doAuthorizationSuccess(c, n))
<1> DEFINE d == [c EXCEPT !.routes = n]
           e == setCallState(d, "MediaProxySuccess")
<1>1. Steady(d) /\ d.st = c.st
  BY SteadyNotes DEF FailureCode
<1> HIDE DEF d
<1>2. "InvalidDestination" \in ClearingReason /\ "InvalidDestination" \notin AnsweredReason
  BY DEF ClearingReason, AnsweredReason
<1>3. Steady(setCallState(CallFirst(setClearingReason(d, "InvalidDestination"), Uas_reject),
                          "CallStop"))
  BY <1>1, <1>2, SteadyRejectAndStop
<1>4. d.uac \notin PendingUac
  BY <1>1, NotPending DEF Steady, PreDialState
<1>5. "MediaProxySuccess" \in Permitted("AuthorizationSuccess")
      /\ "MediaProxySuccess" \in CallState /\ "MediaProxySuccess" \notin ConnectedState
  BY AnswerStates DEF Permitted, CallState, PreDialState, DialingState
<1>6. Steady(e) /\ e.st = "MediaProxySuccess"
  BY <1>1, <1>4, <1>5, SteadyStep
<1> HIDE DEF e
<1>7. Steady(doMediaProxySuccess(e))
  BY <1>6, SteadyMediaProxySuccess
<1> QED BY <1>3, <1>7 DEF doAuthorizationSuccess, d, e

\* doAuthorizationPending, by the answer of the call handle.
LEMMA SteadyAuthorizationPending ==
  ASSUME NEW c, Steady(c), c.st = "AuthorizationPending", NEW auth, NEW n \in Nat
  PROVE  Steady(doAuthorizationPending(c, auth, n))
<1> DEFINE a == setCallState(c, "AuthorizationSuccess")
           b == setCallState(c, "AuthorizationFail")
<1>1. c.uac \notin PendingUac
  BY NotPending DEF Steady, PreDialState
<1>2. {"AuthorizationSuccess", "AuthorizationFail"}
        \subseteq Permitted("AuthorizationPending")
  BY DEF Permitted, DialingState
<1>3. {"AuthorizationSuccess", "AuthorizationFail"} \subseteq CallState \ ConnectedState
  BY AnswerStates DEF CallState, PreDialState
<1>4. Steady(a) /\ a.st = "AuthorizationSuccess" /\ Steady(b)
  BY <1>1, <1>2, <1>3, SteadyStep
<1> HIDE DEF a, b
<1>5. Steady(doAuthorizationSuccess(a, n))
  BY <1>4, SteadyAuthorizationSuccess
<1> QED BY <1>4, <1>5 DEF doAuthorizationPending, a, b

\* doNewCall.
LEMMA SteadyNewCall ==
  ASSUME NEW c, Steady(c), c.st = "NewCall", NEW auth, NEW n \in Nat
  PROVE  Steady(doNewCall(c, auth, n))
<1> DEFINE d == TouchFirst(c)
           e == setCallState(d, "AuthorizationPending")
<1>1. Steady(d) /\ d.st = "NewCall"
  BY SteadyTouch
<1> HIDE DEF d
<1>2. Steady(setCallState(d, "CallStop"))
  BY <1>1, SteadyFinish, CallStateNames
<1>3. d.uac \notin PendingUac
  BY <1>1, NotPending DEF Steady, PreDialState
<1>4. "AuthorizationPending" \in Permitted("NewCall")
      /\ "AuthorizationPending" \in CallState \ ConnectedState
  BY AnswerStates DEF Permitted, CallState, PreDialState, DialingState
<1>5. Steady(e) /\ e.st = "AuthorizationPending"
  BY <1>1, <1>3, <1>4, SteadyStep
<1> HIDE DEF e
<1>6. Steady(doAuthorizationPending(e, auth, n))
  BY <1>5, SteadyAuthorizationPending
<1> QED BY <1>2, <1>6 DEF doNewCall, d, e

\* doDialAborted rejects the caller and stops.
LEMMA SteadyDialAborted == ASSUME NEW c, Steady(c) PROVE Steady(doDialAborted(c))
<1> DEFINE r == IF c.code = "none" THEN "AuthError" ELSE "RejectOther"
           d == CallFirst(setClearingReason(c, r), Uas_reject)
<1>1. r \in ClearingReason /\ r \notin AnsweredReason
  BY DEF ClearingReason, AnsweredReason
<1> HIDE DEF r
<1>2. Steady(setCallState(d, "CallStop"))
  BY <1>1, SteadyRejectAndStop
<1> HIDE DEF d
<1>3. Steady(doCallStop(setCallState(d, "CallStop")))
  BY <1>2, SteadyCallStop
<1> QED BY <1>3 DEF doDialAborted, d, r

\* doSelectAlternateRoute: the next route, or the end of the list.
LEMMA SteadySelectAlternateRoute ==
  ASSUME NEW c, Steady(c), c.st = "SelectAlternateRoute", c.routes # 0
  PROVE  Steady(doSelectAlternateRoute(c))
<1> DEFINE n == c.routes - 1
           d == [c EXCEPT !.routes = n]
           a == setCallState(d, "DialAborted")
           b == setCallState(d, "ReadyToDial")
<1>1. n \in Nat
  BY DEF Steady, Agrees, Noted, Record
<1> HIDE DEF n
<1>2. Steady(d) /\ d.st = c.st
  BY <1>1, SteadyNotes DEF FailureCode
<1> HIDE DEF d
<1>3. d.uac \notin PendingUac
  BY <1>2, NotPending DEF Steady
<1>4. {"ReadyToDial", "DialAborted"} \subseteq Permitted("SelectAlternateRoute")
  BY DEF Permitted, DialPermits, DialingState
<1>5. {"ReadyToDial", "DialAborted"} \subseteq CallState \ ConnectedState
  BY AnswerStates DEF CallState, DialingState
<1>6. Steady(a) /\ Steady(b) /\ b.st = "ReadyToDial"
  BY <1>2, <1>3, <1>4, <1>5, SteadyStep
<1> HIDE DEF a, b
<1>7. Steady(doDialAborted(a)) /\ Steady(doReadyToDial(b))
  BY <1>6, SteadyDialAborted, SteadyReadyToDial
<1> QED BY <1>7 DEF doSelectAlternateRoute, n, d, a, b

\* doDialRejected, by the failure code.
LEMMA SteadyDialRejected ==
  ASSUME NEW c, Steady(c), c.st = "DialRejected", c.routes # 0
  PROVE  Steady(doDialRejected(c))
<1> DEFINE a == setCallState(c, "SelectAlternateRoute")
           r == setClearingReason(c, "RejectBusy")
           b == setCallState(r, "DialAborted")
           d == dropBLeg(c)
           e == setCallState(d, "SelectAlternateRoute")
<1>1. c.uac \notin PendingUac
  BY NotPending DEF Steady
<1>2. {"SelectAlternateRoute", "DialAborted"} \subseteq Permitted("DialRejected")
  BY DEF Permitted, DialPermits, DialingState
<1>3. {"SelectAlternateRoute", "DialAborted"} \subseteq CallState \ ConnectedState
  BY AnswerStates DEF CallState, DialingState
<1>4. Steady(d) /\ d.st = c.st /\ d.uac \notin PendingUac /\ d.routes = c.routes
  <2>1. d.routes = c.routes
    BY DEF dropBLeg, Steady, Agrees, Noted, Record
  <2> HIDE DEF d
  <2>2. Steady(d) /\ d.st = c.st /\ d.uac \notin PendingUac
    BY <1>1, SteadyDrop DEF d
  <2> QED BY <2>1, <2>2
<1> HIDE DEF d
<1>5. \A x : setCallState(x, "SelectAlternateRoute").routes = x.routes \/ x \notin Record
  BY DEF setCallState, Record
<1>6. Steady(a) /\ a.st = "SelectAlternateRoute" /\ a.routes = c.routes
  BY <1>1, <1>2, <1>3, <1>5, SteadyStep DEF Steady, Agrees, Noted
<1>7. Steady(e) /\ e.st = "SelectAlternateRoute" /\ e.routes = c.routes
  BY <1>2, <1>3, <1>4, <1>5, SteadyStep DEF Steady, Agrees, Noted
<1>8. "RejectBusy" \in ClearingReason /\ "RejectBusy" \notin AnsweredReason
  BY DEF ClearingReason, AnsweredReason
<1>9. Steady(r) /\ r.st = c.st /\ r.uac \notin PendingUac
  BY <1>1, <1>8, SteadyReason
<1> HIDE DEF r
<1>10. Steady(b)
  BY <1>2, <1>3, <1>9, SteadyStep
<1> HIDE DEF a, b, e
<1>11. Steady(doSelectAlternateRoute(a)) /\ Steady(doSelectAlternateRoute(e))
       /\ Steady(doDialAborted(b))
  BY <1>6, <1>7, <1>10, SteadySelectAlternateRoute, SteadyDialAborted
<1> QED BY <1>11 DEF doDialRejected, a, b, d, e, r

\* Between two deliveries no caller of the call has a DestroyUsage queued, so the
\* early answer of the camera can be handed on.
LEMMA SteadyReceivedEarlyAnswer ==
  ASSUME NEW c, Agrees(c), c.st = "DialReceivedEarlyAnswer", c.uas[c.first] # "Dying"
  PROVE  Steady(doDialReceivedEarlyAnswer(c))
<1> DEFINE a == CallFirst(c, Uas_provideAnswer)
           b == setCallState(a, "DialEarlyMediaProxySuccess")
           d == CallFirst(b, Uas_provisional)
           e == [d EXCEPT !.early = TRUE]
<1>1. "DialReceivedEarlyAnswer" \notin AnsweredState
  BY AnswerStates DEF DialingState
<1>2. ~ answerThrows(c)
  <2>1. c.first \in Leg /\ ~ c.connected
    BY <1>1 DEF Agrees, Noted, Record
  <2>2. c.uas[c.first] \notin UpUas \cup {"Ended"}
    BY <2>1 DEF Agrees, Noted
  <2>3. UasAnswerThrows \subseteq UpUas \cup {"Ended", "Dying"}
    BY DEF UasAnswerThrows, UpUas
  <2>4. c.bsdp
    BY DEF Agrees, Noted
  <2> QED BY <2>2, <2>3, <2>4 DEF answerThrows
<1>3. /\ {"DialInProgress", "DialEarlyMediaProxySuccess"}
           \subseteq Permitted("DialReceivedEarlyAnswer")
      /\ {"DialInProgress", "DialEarlyMediaProxySuccess"}
           \subseteq (CallState \cap Awaiting) \ ConnectedState
  <2>1. {"DialInProgress", "DialEarlyMediaProxySuccess"}
           \subseteq Permitted("DialReceivedEarlyAnswer")
    BY DEF Permitted, DialPermits, DialingState
  <2>2. {"DialInProgress", "DialEarlyMediaProxySuccess"}
           \subseteq (CallState \cap Awaiting) \ ConnectedState
    BY AnswerStates DEF Awaiting, CallState
  <2> QED BY <2>1, <2>2
<1>4. ASSUME NEW x, Agrees(x), x.st = "DialReceivedEarlyAnswer",
             NEW s \in {"DialInProgress", "DialEarlyMediaProxySuccess"}
      PROVE  Steady(setCallState(x, s))
  <2>1. Agrees(setCallState(x, s))
    BY <1>3, <1>4, AgreesState
  <2>2. setCallState(x, s).st = s
    BY <1>3, <1>4 DEF setCallState, Agrees, Noted, Record
  <2> QED BY <2>1, <2>2 DEF Steady
<1>5. Agrees(a) /\ a.st = c.st
  BY AgreesLeg, UasMethods, QuieterMethods DEF CallFirst
<1> HIDE DEF a
<1>6. Steady(b)
  BY <1>4, <1>5
<1> HIDE DEF b
<1>7. Steady(d)
  BY <1>6, SteadyFirst, UasMethods, QuieterMethods
<1> HIDE DEF d
<1>8. Steady(e)
  BY <1>7, SteadyNotes DEF FailureCode
<1> HIDE DEF e
<1>9. Steady(setCallState(e, "DialInProgress"))
  BY <1>3, <1>8, SteadyTo
<1>10. Steady(setCallState(c, "DialInProgress"))
  BY <1>4
<1> QED BY <1>2, <1>9, <1>10 DEF doDialReceivedEarlyAnswer, doDialEarlyMediaProxySuccess,
          a, b, d, e

\* An accepted call was answered.
LEMMA SteadyCallAccepted ==
  ASSUME NEW c, Steady(c), c.connected
  PROVE  Steady(doCallAccepted(c)) /\ Steady(doCallAcceptedMediaProxyFail(c))
<1> DEFINE t == TouchFirst(c)
           r == setClearingReason(t, "AnsweredError")
           a == IF c.early THEN c ELSE CallFirst(c, Uas_provideAnswer)
           b == setCallState(a, "CallAcceptedMediaProxySuccess")
           d == CallFirst(b, Uas_accept)
           e == [d EXCEPT !.connected = TRUE]
<1>1. /\ {"CallAcceptedMediaProxyFail", "CallAcceptedMediaProxySuccess", "CallActive"}
           \subseteq CallState \cap AnsweredState
      /\ "DialReceivedEarlyAnswer" \notin AnsweredState
      /\ "AnsweredError" \in ClearingReason
  BY AnswerStates, CallStateNames DEF DialingState, ClearingReason
<1>2. Steady(doCallAcceptedMediaProxyFail(c))
  BY <1>1, SteadyRejectAndStop DEF doCallAcceptedMediaProxyFail
<1>3. Steady(setCallState(r, "CallAcceptedMediaProxyFail"))
  <2>1. Steady(t) /\ t.connected
    BY SteadyTouch
  <2> HIDE DEF t
  <2>2. Steady(r) /\ r.connected
    BY <1>1, <2>1, SteadyReason
  <2> HIDE DEF r
  <2> QED BY <1>1, <2>2, SteadyTo
<1>4. Steady(a) /\ a.connected
  BY SteadyFirst, UasMethods, QuieterMethods
<1> HIDE DEF a
<1>5. Steady(b) /\ b.connected
  BY <1>1, <1>4, SteadyTo
<1> HIDE DEF b
<1>6. Steady(d) /\ d.connected
  BY <1>5, SteadyFirst, UasMethods
<1> HIDE DEF d
<1>7. Steady(e) /\ e.connected
  BY <1>6, SteadyNotes DEF FailureCode
<1> HIDE DEF e
<1>8. Steady(setCallState(e, "CallActive"))
  BY <1>1, <1>7, SteadyTo
<1> QED BY <1>2, <1>3, <1>8
        DEF doCallAccepted, doCallAcceptedMediaProxySuccess, t, r, a, b, d, e

\* doCallActive: the time limit of an answered call.
LEMMA SteadyCallActive ==
  ASSUME NEW c, Steady(c), c.connected, NEW mustHangup
  PROVE  Steady(doCallActive(c, mustHangup))
<1>1. "AnsweredLimit" \in ClearingReason
  BY DEF ClearingReason
<1>2. Steady(setClearingReason(c, "AnsweredLimit"))
  BY <1>1, SteadyReason
<1> QED BY <1>2, SteadyFinish, CallStateNames DEF doCallActive

\* One call in one sweep.
LEMMA SteadyProgress ==
  ASSUME NEW c, Sound(c), Agrees(c), Live(c),
         c.st = "DialReceivedEarlyAnswer" => c.uas[c.first] # "Dying",
         NEW auth, NEW n \in Nat, NEW mustHangup
  PROVE  Steady(checkProgress(c, auth, n, mustHangup))
<1> DEFINE d == checkProgress(c, auth, n, mustHangup)
<1>1. c.st \in RestingState
  BY DEF Sound
<1>2. CASE c.st = "DialReceivedEarlyAnswer"
  <2>1. d = doDialReceivedEarlyAnswer(c)
    BY <1>2 DEF checkProgress, HangupState
  <2> HIDE DEF d
  <2> QED BY <1>2, <2>1, SteadyReceivedEarlyAnswer DEF d
<1> SUFFICES ASSUME c.st # "DialReceivedEarlyAnswer" PROVE Steady(d)
  BY <1>2
<1>3. Steady(c)
  BY DEF Steady
<1>4. "AuthError" \in ClearingReason /\ "AuthError" \notin AnsweredReason
  BY DEF ClearingReason, AnsweredReason
<1>5. CASE c.st = "NewCall"
  <2>1. d = doNewCall(c, auth, n)
    BY <1>5 DEF checkProgress, HangupState
  <2> QED BY <1>3, <1>5, <2>1, SteadyNewCall
<1>6. CASE c.st = "AuthorizationPending"
  <2>1. d = doAuthorizationPending(c, auth, n)
    BY <1>6 DEF checkProgress, HangupState
  <2> QED BY <1>3, <1>6, <2>1, SteadyAuthorizationPending
<1>7. CASE c.st \in {"AuthorizationFail", "DialEarlyMediaProxyFail"}
  <2>1. d = doAuthorizationFail(c) \/ d = doDialEarlyMediaProxyFail(c)
    BY <1>7 DEF checkProgress, HangupState
  <2>2. Steady(doAuthorizationFail(c)) /\ Steady(doDialEarlyMediaProxyFail(c))
    BY <1>3, <1>4, SteadyRejectAndStop DEF doAuthorizationFail, doDialEarlyMediaProxyFail
  <2> HIDE DEF d
  <2> QED BY <2>1, <2>2 DEF d
<1>8. CASE c.st = "DialInProgress"
  <2>1. d = doDialInProgress(c)
    BY <1>8 DEF checkProgress, HangupState
  <2> QED BY <1>3, <2>1, SteadyFinish, CallStateNames DEF doDialInProgress
<1>9. CASE c.st = "DialRejected"
  <2>1. d = doDialRejected(c) /\ c.routes # 0
    BY <1>9 DEF checkProgress, HangupState, Sound, DialingState
  <2> QED BY <1>3, <1>9, <2>1, SteadyDialRejected
<1>10. CASE c.st = "DialReceived180"
  <2>1. d = doDialReceived180(c)
    BY <1>10 DEF checkProgress, HangupState
  <2> QED BY <1>3, <1>10, <2>1, AgreesReceived180 DEF Steady
<1>11. CASE c.st = "CallAccepted"
  <2>1. d = doCallAccepted(c)
    BY <1>11 DEF checkProgress, HangupState
  <2>2. c.connected
    BY <1>11, CallStateNames DEF Agrees, Noted
  <2> QED BY <1>3, <2>1, <2>2, SteadyCallAccepted
<1>12. CASE c.st = "CallAcceptedMediaProxyFail"
  <2>1. d = doCallAcceptedMediaProxyFail(c)
    BY <1>12 DEF checkProgress, HangupState
  <2>2. c.connected
    BY <1>12, CallStateNames DEF Agrees, Noted
  <2> QED BY <1>3, <2>1, <2>2, SteadyCallAccepted
<1>13. CASE c.st = "CallActive"
  <2>1. d = doCallActive(c, mustHangup)
    BY <1>13 DEF checkProgress, HangupState
  <2>2. c.connected
    BY <1>13, CallStateNames DEF Agrees, Noted
  <2> QED BY <1>3, <2>1, <2>2, SteadyCallActive
<1>14. CASE c.st = "CallerCancel"
  <2>1. d = doCallerCancel(c)
    BY <1>14 DEF checkProgress, HangupState
  <2> QED BY <1>3, <2>1, SteadyCallerCancel
<1>15. CASE c.st = "CallStop"
  <2>1. d = doCallStop(c)
    BY <1>15 DEF checkProgress, HangupState
  <2> QED BY <1>3, <2>1, SteadyCallStop
<1>16. CASE c.st \in HangupState
  <2>1. d = doHangup(c)
    BY <1>16 DEF checkProgress, HangupState
  <2> QED BY <1>3, <2>1, SteadyHangup
<1> HIDE DEF d
<1> QED BY <1>1, <1>5, <1>6, <1>7, <1>8, <1>9, <1>10, <1>11, <1>12, <1>13, <1>14,
           <1>15, <1>16 DEF RestingState

\* sweepCall frees the call or leaves it in agreement.
LEMMA SteadySweep ==
  ASSUME NEW c, Sound(c), Agrees(c), Live(c),
         c.st = "DialReceivedEarlyAnswer" => c.uas[c.first] # "Dying",
         NEW auth, NEW n \in Nat, NEW mustHangup
  PROVE  \/ Steady(sweepCall(c, auth, n, mustHangup))
         \/ sweepCall(c, auth, n, mustHangup).st = "Deleted"
<1> DEFINE d == checkProgress(c, auth, n, mustHangup)
<1>1. Steady(d)
  BY SteadyProgress
<1> HIDE DEF d
<1>2. deleted(d).st = "Deleted"
  BY <1>1, DeletedSound DEF Steady, Agrees, Noted
<1> QED BY <1>1, <1>2 DEF sweepCall, d

-----------------------------------------------------------------------------
(* The messages.                                                           *)

\* A caller's session changes.
LEMMA AgreesUas ==
  ASSUME NEW c, Agrees(c), NEW l \in Leg, NEW s \in UasState,
         s \in UpUas \cup {"Ended"} => c.connected
  PROVE  /\ Agrees([c EXCEPT !.uas[l] = s])
         /\ [c EXCEPT !.uas[l] = s].connected = c.connected
         /\ [c EXCEPT !.uas[l] = s].first = c.first
<1> DEFINE d == [c EXCEPT !.uas[l] = s]
<1>1. /\ d \in Record
      /\ d.st = c.st /\ d.first = c.first /\ d.connected = c.connected
      /\ d.reason = c.reason /\ d.asdp = c.asdp /\ d.bsdp = c.bsdp
      /\ d.uac = c.uac /\ d.offered = c.offered
      /\ \A j \in Leg : d.uas[j] = IF j = l THEN s ELSE c.uas[j]
  BY DEF Agrees, Noted, Record
<1> HIDE DEF d
<1>2. Agrees(d)
  BY <1>1, AgreesData
<1> QED BY <1>1, <1>2 DEF d

\* The camera's session changes, with a dialog or without.
LEMMA AgreesUac ==
  ASSUME NEW c, Agrees(c), NEW s \in UacState,
         \/ s \in PendingUac /\ c.uac \in PendingUac
         \/ s \notin PendingUac \cup UpUac
         \/ s \in UpUac /\ c.connected
  PROVE  /\ Agrees([c EXCEPT !.uac = s])
         /\ [c EXCEPT !.uac = s].connected = c.connected
         /\ [c EXCEPT !.uac = s].uac = s
         /\ [c EXCEPT !.uac = s].st = c.st
         /\ Agrees(withDialog(c, s)) /\ withDialog(c, s).uac = s
<1> DEFINE d == [c EXCEPT !.uac = s]
           e == withDialog(c, s)
<1>1. /\ d \in Record
      /\ d.st = c.st /\ d.first = c.first /\ d.connected = c.connected
      /\ d.reason = c.reason /\ d.asdp = c.asdp /\ d.bsdp = c.bsdp
      /\ d.uac = s /\ d.offered = c.offered /\ d.uas = c.uas
  BY DEF Agrees, Noted, Record
<1>2. /\ e \in Record
      /\ e.st = c.st /\ e.first = c.first /\ e.connected = c.connected
      /\ e.reason = c.reason /\ e.asdp = c.asdp /\ e.bsdp = c.bsdp
      /\ e.uac = s /\ e.offered = c.offered /\ e.uas = c.uas
  BY DEF Agrees, Noted, Record, withDialog
<1> HIDE DEF d, e
<1>3. Agrees(d) /\ Agrees(e)
  BY <1>1, <1>2, AnswerSessions DEF Agrees, Noted
<1> QED BY <1>1, <1>2, <1>3 DEF d, e

\* Counting a provisional response.
LEMMA AgreesRings ==
  ASSUME NEW c, Agrees(c)
  PROVE  Agrees([c EXCEPT !.rings = @ + 1])
<1> DEFINE n == c.rings + 1
           d == [c EXCEPT !.rings = n]
<1>1. n \in Nat
  BY DEF Agrees, Noted, Record
<1> HIDE DEF n
<1>2. /\ d \in Record
      /\ d.st = c.st /\ d.first = c.first /\ d.connected = c.connected
      /\ d.reason = c.reason /\ d.asdp = c.asdp /\ d.bsdp = c.bsdp
      /\ d.uac = c.uac /\ d.offered = c.offered /\ d.uas = c.uas
  BY <1>1 DEF Agrees, Noted, Record
<1> HIDE DEF d
<1>3. Agrees(d)
  BY <1>2, AgreesData
<1> QED BY <1>3 DEF d, n

\* A provisional response without a dialog.
LEMMA AgreesTrying ==
  ASSUME NEW c, Agrees(c), c.uac \in PendingUac
  PROVE  Agrees([c EXCEPT !.uac = "Trying", !.rings = @ + 1])
<1> DEFINE n == c.rings + 1
           d == [c EXCEPT !.uac = "Trying", !.rings = n]
<1>1. n \in Nat /\ "Trying" \in UacState /\ "Trying" \in PendingUac /\ "Trying" \notin UpUac
  BY DEF Agrees, Noted, Record, UacState, PendingUac, UpUac
<1> HIDE DEF n
<1>2. /\ d \in Record
      /\ d.st = c.st /\ d.first = c.first /\ d.connected = c.connected
      /\ d.reason = c.reason /\ d.asdp = c.asdp /\ d.bsdp = c.bsdp
      /\ d.uac = "Trying" /\ d.offered = c.offered /\ d.uas = c.uas
  BY <1>1 DEF Agrees, Noted, Record
<1> HIDE DEF d
<1>3. Agrees(d)
  BY <1>1, <1>2 DEF Agrees, Noted
<1> QED BY <1>3 DEF d, n

\* A new call with its first caller's offer.
LEMMA AgreesNew ==
  ASSUME NEW l \in Leg, NEW m, ~ m.fail
  PROVE  Agrees(onOfferFirst([B2BCallNew(l) EXCEPT !.uas[l] = "Offer"], m))
<1> DEFINE b == B2BCallNew(l)
           c == [b EXCEPT !.uas[l] = "Offer"]
           d == setALegSdp(c, l, m)
<1>1. /\ b \in Record /\ b.first = l /\ b.st = "NewCall" /\ b.connected = FALSE
      /\ b.reason = "Unset" /\ b.asdp = {} /\ b.uac = "None" /\ b.bleg = FALSE
      /\ b.uas = [j \in Leg |-> "Idle"]
  BY NewSound DEF Sound, B2BCallNew, NoCall
<1> HIDE DEF b
<1>2. /\ c \in Record /\ c.first = l /\ c.st = "NewCall" /\ c.connected = FALSE
      /\ c.reason = "Unset" /\ c.uac = "None" /\ c.bleg = FALSE
      /\ \A j \in Leg : c.uas[j] \in {"Idle", "Offer"}
  BY <1>1, SessionNames DEF Record
<1> HIDE DEF c
<1>3. /\ d \in Record /\ d.first = l /\ d.st = "NewCall" /\ d.connected = FALSE
      /\ d.reason = "Unset" /\ d.uac = "None" /\ d.bleg = FALSE /\ l \in d.asdp
      /\ d.uas = c.uas
  BY ZenonT(60), <1>2, TransType DEF setALegSdp, Record
<1> HIDE DEF d
<1>4. "NewCall" \notin ConnectedState /\ "Unset" \notin AnsweredReason
      /\ "None" \notin PendingUac \cup UpUac
      /\ {"Idle", "Offer"} \cap (UpUas \cup {"Ended"}) = {}
  BY DEF ConnectedState, AnsweredReason, PendingUac, UpUac, UpUas
<1>5. Agrees(d)
  BY <1>2, <1>3, <1>4 DEF Agrees, Noted
<1>6. onOfferFirst(c, m) = d
  BY <1>2, <1>3, NoThrow DEF onOfferFirst, d
<1> QED BY <1>5, <1>6 DEF b, c

\* A caller that joins.
LEMMA AgreesNewLeg ==
  ASSUME NEW c, Agrees(c), NEW l \in Leg
  PROVE  Agrees(addALegAppDialog(c, l))
<1> DEFINE x == c.legs \cup {l}
           y == c.back \cup {l}
           d == [c EXCEPT !.legs = x, !.back = y]
<1>1. x \in SUBSET Leg /\ y \in SUBSET Leg
  BY DEF Agrees, Noted, Record
<1>2. d = addALegAppDialog(c, l)
  BY DEF addALegAppDialog
<1> HIDE DEF x, y
<1>3. /\ d \in Record
      /\ d.st = c.st /\ d.first = c.first /\ d.connected = c.connected
      /\ d.reason = c.reason /\ d.asdp = c.asdp /\ d.bsdp = c.bsdp
      /\ d.uac = c.uac /\ d.offered = c.offered /\ d.uas = c.uas
  BY <1>1 DEF Agrees, Noted, Record
<1> HIDE DEF d
<1> QED BY <1>2, <1>3, AgreesData

\* The environment in which AnswerAgrees holds: every INVITE carries an offer, no
\* caller hangs up before it is answered, and the relay never runs out of ports.
EarlyOffers ==
  OfferKinds \subseteq {TRUE} /\ EarlyBye = FALSE /\ \A m \in SdpKinds : ~ m.fail

AllAgree == \A k \in Call : Live(call[k]) => Agrees(call[k])

\* While the loop sweeps, and after its queue task has left, no DestroyUsage of a
\* caller is queued in a call with an early answer.
Quiet ==
  dumDone \/ phase = "sweep" =>
    \A k \in Call : call[k].st = "DialReceivedEarlyAnswer" =>
      \A l \in Leg : call[k].uas[l] # "Dying"

\* A delivered message changes one call, and the loop is in its queue task.
LEMMA DeliverAgrees ==
  ASSUME AllSound, AllAgree, NEW k \in Call, NEW c, Agrees(c), Deliver(k, c)
  PROVE  AllAgree' /\ Quiet'
<1>1. call' = [call EXCEPT ![k] = c] /\ phase' = "dum" /\ ~ dumDone'
  BY DEF Deliver, loopVars
<1> QED BY <1>1 DEF AllSound, AllAgree, Quiet, Live

\* INVITEs.
LEMMA AgreesNewSession ==
  ASSUME EarlyOffers, AllSound, AllAgree, NEW k \in Call, NEW l \in Leg,
         NEW offer \in OfferKinds, NEW m \in SdpKinds,
         NewSession(k, l, offer, m) \/ JoinSession(k, l, offer, m)
  PROVE  AllAgree' /\ Quiet'
<1>1. offer = TRUE /\ ~ m.fail
  BY DEF EarlyOffers
<1>2. CASE NewSession(k, l, offer, m)
  <2>1. Deliver(k, onOfferFirst([B2BCallNew(l) EXCEPT !.uas[l] = "Offer"], m))
    BY <1>1, <1>2 DEF NewSession
  <2> QED BY <1>1, <2>1, AgreesNew, DeliverAgrees
<1>3. CASE JoinSession(k, l, offer, m)
  <2> DEFINE b == addALegAppDialog(call[k], l)
             c == [b EXCEPT !.uas[l] = "Offer"]
  <2>1. Deliver(k, onOfferJoiner(c, l, m))
    BY <1>1, <1>3 DEF JoinSession
  <2>2. Agrees(b)
    BY <1>3, AgreesNewLeg DEF JoinSession, AllAgree
  <2> HIDE DEF b
  <2>3. "Offer" \in UasState /\ "Offer" \notin UpUas \cup {"Ended"}
    BY SessionNames DEF UpUas
  <2>4. Agrees(c)
    BY <2>2, <2>3, AgreesUas
  <2> HIDE DEF c
  <2> QED BY <2>1, <2>4, AgreesOfferJoiner, DeliverAgrees
<1> QED BY <1>2, <1>3

\* The other messages of callers.
LEMMA AgreesCaller ==
  ASSUME EarlyOffers, AllSound, AllAgree, NEW k \in Call, NEW l \in Leg,
         \/ CallerCancels(k, l)
         \/ CallerHangsUp(k, l)
         \/ \E m \in SdpKinds : \/ CallerAcks(k, l, m)
                                \/ CallerReinvites(k, l, m)
                                \/ CallerAnswersReinvite(k, l, m)
         \/ AckTimeout(k, l)
         \/ CallerByeAnswered(k, l)
         \/ DestroyCaller(k, l)
  PROVE  AllAgree' /\ Quiet'
<1> DEFINE c == call[k]
           w(s) == [c EXCEPT !.uas[l] = s]
<1>1. Agrees(c) /\ Live(c)
  BY DEF AllAgree, CallerCancels, CallerHangsUp, CallerAcks, CallerReinvites,
         CallerAnswersReinvite, AckTimeout, CallerByeAnswered, DestroyCaller
<1>2. SUFFICES \E d : Agrees(d) /\ Deliver(k, d)
  BY DeliverAgrees
<1>3. c.uas[l] \in UpUas => c.connected
  BY <1>1 DEF Agrees, Noted
<1>4. ASSUME NEW s \in UasState, c.connected \/ s \in {"Dying", "Gone"}
      PROVE  Agrees(w(s)) /\ w(s).connected = c.connected /\ w(s).first = c.first
  BY <1>1, <1>4, AgreesUas, AnswerSessions
<1>5. c.first \in Leg
  BY <1>1 DEF Agrees, Noted, Record
<1>6. CASE CallerCancels(k, l)
  <2>1. Deliver(k, onCancel(w("Dying"), l))
    BY <1>6 DEF CallerCancels
  <2>2. Agrees(w("Dying"))
    BY <1>4, SessionNames
  <2> HIDE DEF w
  <2> QED BY <2>1, <2>2, AgreesCancel
<1>7. CASE CallerHangsUp(k, l)
  <2> DEFINE d == IF c.uas[l] = "WaitAnswer" THEN w("Dying") ELSE onHangupA(w("Dying"), l)
  <2>1. Deliver(k, d)
    BY <1>7 DEF CallerHangsUp
  <2>2. c.connected
    BY <1>3, <1>7 DEF CallerHangsUp, EarlyOffers
  <2>3. Agrees(w("Dying")) /\ w("Dying").connected
    BY <1>4, <2>2, SessionNames
  <2> HIDE DEF w
  <2>4. Agrees(d)
    BY <2>3, AgreesHangup
  <2> HIDE DEF d
  <2> QED BY <2>1, <2>4
<1>8. ASSUME NEW m \in SdpKinds, CallerAcks(k, l, m)
      PROVE  \E d : Agrees(d) /\ Deliver(k, d)
  <2>1. \/ Deliver(k, w("Connected"))
        \/ Deliver(k, w("Reoffered"))
        \/ Deliver(k, onAnswerA(w("Connected"), l, m))
    BY <1>8 DEF CallerAcks
  <2>2. c.uas[l] \in UpUas
    BY <1>8 DEF CallerAcks, UpUas
  <2>3. Agrees(w("Connected")) /\ w("Connected").connected /\ Agrees(w("Reoffered"))
    BY <1>3, <1>4, <2>2, SessionNames
  <2> HIDE DEF w
  <2>4. Agrees(onAnswerA(w("Connected"), l, m))
    BY <2>3, AgreesAnswerA DEF EarlyOffers
  <2> QED BY <2>1, <2>3, <2>4
<1>9. ASSUME NEW m \in SdpKinds, CallerReinvites(k, l, m)
      PROVE  \E d : Agrees(d) /\ Deliver(k, d)
  <2> DEFINE e == w("Reinvited")
             d == IF l = e.first THEN onOfferFirst(e, m) ELSE onOfferJoiner(e, l, m)
  <2>1. Deliver(k, d)
    BY <1>9 DEF CallerReinvites
  <2>2. c.uas[l] \in UpUas
    BY <1>9 DEF CallerReinvites, UpUas
  <2>3. Agrees(e) /\ e.first \in Leg
    BY <1>3, <1>4, <1>5, <2>2, SessionNames
  <2> HIDE DEF e
  <2>4. Agrees(d)
    BY <2>3, AgreesOfferFirst, AgreesOfferJoiner DEF EarlyOffers
  <2> HIDE DEF d
  <2> QED BY <2>1, <2>4
<1>10. ASSUME NEW m \in SdpKinds, CallerAnswersReinvite(k, l, m)
       PROVE  \E d : Agrees(d) /\ Deliver(k, d)
  <2>1. Deliver(k, onAnswerA(w("Connected"), l, m))
    BY <1>10 DEF CallerAnswersReinvite
  <2>2. c.uas[l] \in UpUas
    BY <1>10 DEF CallerAnswersReinvite, UpUas
  <2>3. Agrees(w("Connected")) /\ w("Connected").connected
    BY <1>3, <1>4, <2>2, SessionNames
  <2> HIDE DEF w
  <2>4. Agrees(onAnswerA(w("Connected"), l, m))
    BY <2>3, AgreesAnswerA DEF EarlyOffers
  <2> QED BY <2>1, <2>4
<1>11. CASE AckTimeout(k, l)
  <2>1. Deliver(k, w("Ended"))
    BY <1>11 DEF AckTimeout
  <2>2. c.uas[l] \in UpUas
    BY <1>11 DEF AckTimeout, UpUas
  <2>3. Agrees(w("Ended"))
    BY <1>3, <1>4, <2>2, SessionNames
  <2> HIDE DEF w
  <2> QED BY <2>1, <2>3
<1>12. CASE CallerByeAnswered(k, l)
  <2>1. Deliver(k, w("Dying"))
    BY <1>12 DEF CallerByeAnswered
  <2>2. Agrees(w("Dying"))
    BY <1>4, SessionNames
  <2> HIDE DEF w
  <2> QED BY <2>1, <2>2
<1>13. CASE DestroyCaller(k, l)
  <2>1. Deliver(k, releaseAppDialog(w("Gone"), l))
    BY <1>13 DEF DestroyCaller
  <2>2. Agrees(w("Gone"))
    BY <1>4, SessionNames
  <2> HIDE DEF w
  <2>3. Agrees(releaseAppDialog(w("Gone"), l))
    BY <2>2, AgreesRelease
  <2> QED BY <2>1, <2>3
<1> QED BY <1>6, <1>7, <1>8, <1>9, <1>10, <1>11, <1>12, <1>13

\* The messages of the camera.
LEMMA AgreesCamera ==
  ASSUME EarlyOffers, AllSound, AllAgree, NEW k \in Call,
         \/ CameraTrying(k)
         \/ CameraRings(k)
         \/ \E ringing \in BOOLEAN, m \in SdpKinds : CameraEarlyMedia(k, ringing, m)
         \/ \E m \in SdpKinds : \/ CameraAnswers(k, m)
                                \/ CameraReinvites(k, m)
                                \/ CameraAnswersReinvite(k, m)
         \/ \E code \in RejectCodes : CameraRejects(k, code)
         \/ CameraHangsUp(k)
         \/ CameraEnded(k)
         \/ DestroyCamera(k)
  PROVE  AllAgree' /\ Quiet'
<1> DEFINE c == call[k]
           u(s) == [c EXCEPT !.uac = s]
           v(s) == withDialog(c, s)
           early == [v("Early") EXCEPT !.rings = @ + 1]
<1>1. Agrees(c) /\ Live(c)
  BY DEF AllAgree, CameraTrying, CameraRings, CameraEarlyMedia, CameraAnswers, CameraReinvites,
         CameraAnswersReinvite, CameraRejects, CameraHangsUp, CameraEnded, DestroyCamera
<1>2. SUFFICES \E d : Agrees(d) /\ Deliver(k, d)
  BY DeliverAgrees
<1>3. /\ {"Calling", "Trying", "Early"} \subseteq PendingUac
      /\ {"Answered", "Connected", "Reinvited", "Reoffered"} \subseteq UpUac
      /\ {"Dying", "Gone"} \cap (PendingUac \cup UpUac) = {}
  BY DEF PendingUac, UpUac
<1>4. c.uac \in UpUac => c.connected
  BY <1>1 DEF Agrees
<1>5. Agrees(u("Dying")) /\ u("Dying").uac = "Dying" /\ u("Dying").connected = c.connected
      /\ Agrees(u("Gone")) /\ Agrees(v("Dying")) /\ v("Dying").uac = "Dying"
  BY <1>1, <1>3, AgreesUac, SessionNames
<1>6. ASSUME c.uac \in PendingUac PROVE Agrees(early)
  <2>1. Agrees(v("Early"))
    BY <1>1, <1>3, <1>6, AgreesUac, SessionNames
  <2> HIDE DEF v
  <2> QED BY <2>1, AgreesRings
<1>7. ASSUME NEW s \in UacState, s \in UpUac, c.connected
      PROVE  Agrees(u(s)) /\ u(s).connected = c.connected /\ u(s).uac = s /\ u(s).st = c.st
  BY <1>1, <1>7, AgreesUac
<1>8. CASE CameraTrying(k)
  <2> DEFINE d == [c EXCEPT !.uac = "Trying", !.rings = @ + 1]
  <2>1. Deliver(k, doDialReceived180(d)) /\ c.uac \in PendingUac
    BY <1>3, <1>8 DEF CameraTrying
  <2>2. Agrees(d)
    BY <1>1, <2>1, AgreesTrying
  <2> HIDE DEF d
  <2> QED BY <2>1, <2>2, AgreesReceived180
<1>9. CASE CameraRings(k)
  <2>1. Deliver(k, onRinging(early)) /\ c.uac \in PendingUac
    BY <1>9 DEF CameraRings
  <2> HIDE DEF early
  <2> QED BY <1>6, <2>1, AgreesRinging
<1>10. ASSUME NEW ringing \in BOOLEAN, NEW m \in SdpKinds, CameraEarlyMedia(k, ringing, m)
       PROVE  \E d : Agrees(d) /\ Deliver(k, d)
  <2> DEFINE e == IF ringing THEN onRinging(early) ELSE early
  <2>1. Deliver(k, onEarlyMedia(e, m)) /\ c.uac \in PendingUac
    BY <1>10 DEF CameraEarlyMedia
  <2> HIDE DEF early
  <2>2. Agrees(e)
    BY <1>6, <2>1, AgreesRinging
  <2> HIDE DEF e
  <2>3. Agrees(onEarlyMedia(e, m))
    BY <2>2, AgreesEarlyMedia DEF EarlyOffers
  <2> QED BY <2>1, <2>3
<1>11. ASSUME NEW m \in SdpKinds, CameraAnswers(k, m)
       PROVE  \E d : Agrees(d) /\ Deliver(k, d)
  <2> DEFINE e == v("Connected")
  <2>1. c.uac \in PendingUac
    BY <1>11 DEF CameraAnswers
  <2>2. c.offered /\ c.st \in Awaiting \cup AnsweredState
    BY <1>1, <2>1 DEF Agrees
  <2>3. Deliver(k, onAnswerB(e, m))
    BY <1>11, <2>2 DEF CameraAnswers
  <2>4. /\ e \in Record
        /\ e.st = c.st /\ e.first = c.first /\ e.connected = c.connected
        /\ e.reason = c.reason /\ e.asdp = c.asdp /\ e.bsdp = c.bsdp
        /\ e.uac = "Connected" /\ e.uas = c.uas
    BY <1>1, SessionNames DEF Agrees, Noted, Record, withDialog
  <2> HIDE DEF e
  <2>5. Noted(e)
    BY <1>1, <2>4 DEF Agrees, Noted
  <2>6. Agrees(onAnswerB(e, m))
    BY <1>3, <2>2, <2>4, <2>5, AgreesAnswerB DEF EarlyOffers
  <2> QED BY <2>3, <2>6
<1>12. ASSUME NEW m \in SdpKinds, CameraReinvites(k, m) \/ CameraAnswersReinvite(k, m)
       PROVE  \E d : Agrees(d) /\ Deliver(k, d)
  <2>1. \/ Deliver(k, onOfferB(u("Reinvited"), m))
        \/ Deliver(k, onAnswerB(u("Connected"), m))
    BY <1>12 DEF CameraReinvites, CameraAnswersReinvite
  <2>2. c.connected
    BY <1>3, <1>4, <1>12 DEF CameraReinvites, CameraAnswersReinvite
  <2>3. c.st \in AnsweredState
    BY <1>1, <2>2 DEF Agrees, Noted
  <2>4. /\ Agrees(u("Reinvited")) /\ u("Reinvited").connected
        /\ Agrees(u("Connected")) /\ u("Connected").uac = "Connected"
        /\ u("Connected").st = c.st
    BY <1>3, <1>7, <2>2, SessionNames
  <2> HIDE DEF u
  <2>5. Agrees(onOfferB(u("Reinvited"), m))
    BY <2>4, AgreesOfferB DEF EarlyOffers
  <2>6. Agrees(onAnswerB(u("Connected"), m))
    BY <1>3, <2>3, <2>4, AgreesAnswerB DEF EarlyOffers, Agrees
  <2> QED BY <2>1, <2>5, <2>6
<1>13. ASSUME NEW code \in RejectCodes, CameraRejects(k, code)
       PROVE  \E d : Agrees(d) /\ Deliver(k, d)
  <2>1. Deliver(k, onRejected(v("Dying"), code))
    BY <1>13 DEF CameraRejects
  <2>2. code \in FailureCode
    BY ConstantsAssumption
  <2> HIDE DEF v
  <2>3. Agrees(onRejected(v("Dying"), code))
    BY <1>5, <2>2, AgreesRejected
  <2> QED BY <2>1, <2>3
<1>14. CASE CameraHangsUp(k)
  <2>1. Deliver(k, onHangupB(u("Dying"))) /\ c.uac \in UpUac
    BY <1>14 DEF CameraHangsUp
  <2> HIDE DEF u
  <2>2. Agrees(onHangupB(u("Dying")))
    BY <1>4, <1>5, <2>1, AgreesHangup
  <2> QED BY <2>1, <2>2
<1>15. CASE CameraEnded(k)
  <2>1. Deliver(k, u("Dying"))
    BY <1>15 DEF CameraEnded
  <2> HIDE DEF u
  <2> QED BY <1>5, <2>1
<1>16. CASE DestroyCamera(k)
  <2>1. Deliver(k, releaseAppDialogSet(u("Gone")))
    BY <1>16 DEF DestroyCamera
  <2> HIDE DEF u
  <2>2. c.first \in Leg
    BY <1>1 DEF Agrees, Noted, Record
  <2>3. Agrees(releaseAppDialogSet(u("Gone")))
    BY <1>5, <2>2, AgreesRelease
  <2> QED BY <2>1, <2>3
<1> QED BY <1>8, <1>9, <1>10, <1>11, <1>12, <1>13, <1>14, <1>15, <1>16

-----------------------------------------------------------------------------
(* The loop, and the invariant.                                            *)

\* The dialling limit passes.
LEMMA AgreesTime ==
  ASSUME AllSound, AllAgree, Quiet, NEW k \in Call, TimePasses(k)
  PROVE  AllAgree' /\ Quiet'
<1> DEFINE c == call[k]
           d == [c EXCEPT !.late = TRUE]
<1>1. call' = [call EXCEPT ![k] = d] /\ UNCHANGED <<phase, dumDone>>
  BY DEF TimePasses, loopVars
<1>2. c \in Record
  BY DEF AllSound
<1>3. /\ d \in Record
      /\ d.st = c.st /\ d.first = c.first /\ d.connected = c.connected
      /\ d.reason = c.reason /\ d.asdp = c.asdp /\ d.bsdp = c.bsdp
      /\ d.uac = c.uac /\ d.offered = c.offered /\ d.uas = c.uas
  BY <1>2 DEF Record
<1>4. Live(d) => Agrees(d)
  <2> HIDE DEF d
  <2>1. Live(d) => Agrees(c)
    BY <1>3 DEF AllAgree, Live
  <2> QED BY <1>3, <2>1, AgreesData
<1> HIDE DEF d
<1>5. AllAgree'
  BY <1>1, <1>4 DEF AllSound, AllAgree, Live
<1>6. Quiet'
  BY <1>1, <1>3 DEF AllSound, Quiet
<1> QED BY <1>5, <1>6

\* A sweep begins when the queue is drained, or after the queue task has left.
LEMMA AgreesSweepStart ==
  ASSUME AllSound, AllAgree, Quiet, SweepStart
  PROVE  AllAgree' /\ Quiet'
<1> DEFINE d(k) == IF mustStopCalls /\ Live(call[k]) THEN onStopping(call[k]) ELSE call[k]
<1>1. call' = [k \in Call |-> d(k)] /\ (dumDone \/ Drained) /\ UNCHANGED dumDone
  BY DEF SweepStart
<1>2. \A k \in Call : Live(call[k]) =>
        /\ Agrees(call[k]) /\ Agrees(onStopping(call[k]))
        /\ onStopping(call[k]).st \in {call[k].st, "CallStop"}
        /\ onStopping(call[k]).uas = call[k].uas
  BY AgreesStopping DEF AllAgree
<1>3. \A k \in Call : /\ Live(d(k)) => Agrees(d(k))
                      /\ d(k).st = "DialReceivedEarlyAnswer" =>
                           call[k].st = "DialReceivedEarlyAnswer" /\ d(k).uas = call[k].uas
  BY <1>2
<1> HIDE DEF d
<1>4. AllAgree'
  BY <1>1, <1>3 DEF AllAgree, Live
<1>5. \A k \in Call : call[k].st = "DialReceivedEarlyAnswer" =>
        \A l \in Leg : call[k].uas[l] # "Dying"
  <2>1. CASE dumDone
    BY <2>1 DEF Quiet
  <2>2. CASE Drained
    <3>1. "DialReceivedEarlyAnswer" \in LiveState
      BY DEF LiveState, CallState, DialingState
    <3> QED BY <2>2, <3>1 DEF Drained, LiveCalls, Live
  <2> QED BY <1>1, <2>1, <2>2
<1>6. Quiet'
  BY <1>1, <1>3, <1>5 DEF Quiet
<1> QED BY <1>4, <1>6

\* A sweep visits one call.
LEMMA AgreesCheckCall ==
  ASSUME AllSound, AllAgree, Quiet, NEW k \in Call, Check(k)
  PROVE  AllAgree' /\ Quiet'
<1>1. PICK auth \in AuthResults, n \in RouteCounts, h \in HangupAnswers :
        CheckCall(k, auth, n, h)
  BY DEF Check
<1> DEFINE c == call[k]
           d == sweepCall(c, auth, n, h)
<1>2. call' = [call EXCEPT ![k] = d] /\ phase = "sweep" /\ UNCHANGED <<phase, dumDone>>
  BY <1>1 DEF CheckCall
<1>3. n \in Nat
  BY ConstantsAssumption
<1>4. CASE ~ Live(c)
  <2>1. d = c
    BY <1>4, CheckAbsent DEF AllSound
  <2> HIDE DEF d
  <2>2. call' = call
    BY <1>2, <2>1 DEF AllSound
  <2> QED BY <1>2, <2>2 DEF AllAgree, Quiet
<1>5. CASE Live(c)
  <2>1. Sound(c) /\ Agrees(c)
    BY <1>5 DEF AllSound, AllAgree
  <2>2. c.first \in Leg
    BY <2>1 DEF Agrees, Noted, Record
  <2>3. c.st = "DialReceivedEarlyAnswer" => c.uas[c.first] # "Dying"
    BY <1>2, <2>2 DEF Quiet
  <2>4. Steady(d) \/ d.st = "Deleted"
    BY <1>3, <1>5, <2>1, <2>3, SteadySweep
  <2> HIDE DEF d
  <2>5. ~ (d.st = "Deleted" /\ Live(d))
    BY AbsentIsNotLive DEF Live, LiveState, Absent
  <2>6. AllAgree'
    BY <1>2, <2>4, <2>5 DEF AllSound, AllAgree, Live, Steady
  <2>7. Quiet'
    BY <1>2, <2>4 DEF AllSound, Quiet, Steady
  <2> QED BY <2>6, <2>7
<1> QED BY <1>4, <1>5

\* Every step keeps the calls in agreement.
LEMMA NextAgrees ==
  ASSUME EarlyOffers, AllSound, AllAgree, Quiet, [Next]_vars
  PROVE  AllAgree' /\ Quiet'
<1>1. CASE CallerMessage
  <2>1. PICK k \in Call, l \in Leg :
          \/ \E offer \in OfferKinds, m \in SdpKinds :
               NewSession(k, l, offer, m) \/ JoinSession(k, l, offer, m)
          \/ CallerCancels(k, l)
          \/ CallerHangsUp(k, l)
          \/ \E m \in SdpKinds : \/ CallerAcks(k, l, m)
                                 \/ CallerReinvites(k, l, m)
                                 \/ CallerAnswersReinvite(k, l, m)
          \/ AckTimeout(k, l)
          \/ CallerByeAnswered(k, l)
    BY <1>1 DEF CallerMessage
  <2>2. CASE \E offer \in OfferKinds, m \in SdpKinds :
               NewSession(k, l, offer, m) \/ JoinSession(k, l, offer, m)
    BY <2>2, AgreesNewSession
  <2> QED BY <2>1, <2>2, AgreesCaller
<1>2. CASE CameraMessage
  BY <1>2, AgreesCamera DEF CameraMessage
<1>3. CASE Destroy
  BY <1>3, AgreesCaller, AgreesCamera DEF Destroy
<1>4. CASE \E k \in Call : TimePasses(k)
  BY <1>4, AgreesTime
<1>5. CASE SweepStart
  BY <1>5, AgreesSweepStart
<1>6. CASE \E k \in Call : Check(k)
  BY <1>6, AgreesCheckCall
<1>7. CASE DumComplete
  <2>1. "DialReceivedEarlyAnswer" \in LiveState
    BY DEF LiveState, CallState, DialingState
  <2>2. call' = call /\ Drained
    BY <1>7 DEF DumComplete
  <2> QED BY <2>1, <2>2 DEF AllAgree, Quiet, Drained, LiveCalls, Live
<1>8. CASE SweepEnd \/ LoopReturns
  <2>1. call' = call /\ dumDone' = dumDone /\ phase' # "sweep"
    BY <1>8 DEF SweepEnd, LoopReturns
  <2> QED BY <2>1 DEF AllAgree, Quiet
<1>9. CASE Stop \/ Terminated \/ UNCHANGED vars
  <2>1. call' = call /\ dumDone' = dumDone /\ phase' = phase
    BY <1>9 DEF Stop, StopDum, StopCallsFirst, StopCallsSecond, Terminated, vars, loopVars
  <2> QED BY <2>1 DEF AllAgree, Quiet
<1> QED BY <1>1, <1>2, <1>3, <1>4, <1>5, <1>6, <1>7, <1>8, <1>9 DEF Next, Loop

\* There is no call at first.
LEMMA InitAgrees == Init => AllAgree /\ Quiet
<1>1. "None" \notin LiveState /\ NoCall.st = "None"
  BY AbsentIsNotLive DEF LiveState, Absent, NoCall
<1> QED BY <1>1 DEF Init, AllAgree, Quiet, Live

\* The agreement is what AnswerAgrees asks for.
LEMMA AgreesImplies == ASSUME AllAgree PROVE AnswerAgrees
<1> SUFFICES ASSUME NEW k \in Call, Live(call[k])
             PROVE  /\ call[k].connected => getStatus(call[k].st) \in {"Connected", "Finishing"}
                    /\ call[k].reason \in AnsweredReason => call[k].connected
  BY DEF AnswerAgrees, AnsweredIsNotDialing, LiveCalls
<1>1. Agrees(call[k])
  BY DEF AllAgree
<1>2. \A s \in ConnectedState : getStatus(s) = "Connected"
  BY AnswerStates DEF getStatus
<1>3. \A s \in FinishingState : getStatus(s) = "Finishing"
  BY AnswerStates, CallStateNames DEF getStatus
<1> QED BY <1>1, <1>2, <1>3 DEF Agrees, Noted, AnsweredState

-----------------------------------------------------------------------------
(* The theorems.                                                           *)

\* Every call record, loop variable and stop flag keeps its type, whatever the
\* peers send and however the loop and stop() interleave (B2BCall.hxx,
\* B2BCallManager.hxx).
THEOREM TypeCorrect == Spec => []TypeOK
BY Inductive, PTL DEF IndInv

\* Between two handlers a call is only in states that the sweep polls and from
\* which isCallStatePermitted offers a way out, so the chains of do... methods
\* always run to their end (B2BCall::checkProgress, setCallState).
THEOREM Rests == Spec => []CallsRest
<1>1. IndInv => CallsRest
  BY DEF IndInv, AllSound, Sound, CallsRest, LiveCalls
<1> QED BY <1>1, Inductive, PTL

\* When the sweep has consumed the request of B2BCallManager::stop, every call
\* that still exists is on its way out: no state denies CallStop, and no call is
\* opened after the first assignment of stop().
THEOREM StopReaches == Spec => []StopReachesEveryCall
BY Inductive, PTL DEF IndInv

\* The first clearing reason of a call is the one that it keeps
\* (B2BCall::setClearingReason, the callbacks and the sweep).
THEOREM ReasonKept == Spec => ReasonStable
<1>1. IndInv /\ [Next]_vars =>
        [\A k \in LiveCalls : call[k].reason # "Unset" /\ Live(call[k])'
            => call'[k].reason = call[k].reason]_vars
  <2> SUFFICES ASSUME IndInv, [Next]_vars, NEW k \in LiveCalls,
                      call[k].reason # "Unset", Live(call'[k])
               PROVE  call'[k].reason = call[k].reason
    BY DEF Live
  <2>1. k \in Call /\ Live(call[k]) /\ CallMoves(k)
    BY NextMoves DEF IndInv, LiveCalls
  <2>2. "None" \notin LiveState
    BY AbsentIsNotLive DEF Absent, LiveState
  <2> QED BY <2>1, <2>2 DEF CallMoves, Swept, Live
<1> QED BY <1>1, Inductive, PTL DEF Spec, ReasonStable

\* State, connectTime and clearing reason of a call agree on whether it was
\* answered, although the camera's 200 may cross a CANCEL, the time limit, a
\* shutdown or a lost ACK, and callers and camera may renegotiate: in every
\* environment in which INVITEs carry offers, callers wait for the answer before
\* they hang up, and the relay has ports (MyInviteSessionHandler::onAnswer,
\* B2BCall::setCallState, B2BCall::setClearingReason).
THEOREM AnswersAgree ==
  ASSUME OfferKinds \subseteq {TRUE}, EarlyBye = FALSE, \A m \in SdpKinds : ~ m.fail
  PROVE  Spec => []AnswerAgrees
<1>1. EarlyOffers
  BY DEF EarlyOffers
<1>2. Init => IndInv /\ AllAgree /\ Quiet
  BY InitInv, InitAgrees
<1>3. (IndInv /\ AllAgree /\ Quiet) /\ [Next]_vars => (IndInv /\ AllAgree /\ Quiet)'
  BY <1>1, NextInv, NextAgrees DEF IndInv
<1>4. AllAgree => AnswerAgrees
  BY AgreesImplies
<1> QED BY <1>2, <1>3, <1>4, PTL DEF Spec
-----------------------------------------------------------------------------
(***************************************************************************)
(* The calls implement CallLifecycle and leave no session behind, for      *)
(* every number of calls and callers.                                      *)
(*                                                                         *)
(* Both follow from an invariant of each call, Fits, that relates the      *)
(* state of the call to the states of the sessions it drives.  Handlers    *)
(* are chains of small changes; four transitive relations summarise what   *)
(* such a chain may do to what CallLifecycle sees of a call: its status,   *)
(* the callers that are served and whether the camera has picked up.       *)
(***************************************************************************)

\* The callers of a call that are connected; has its camera picked up?
Served(c) == {l \in Leg : c.uas[l] \in UpUas}
PickedUp(c) == c.uac \in UpUac

\* No session of the call is under way and no dialog points to it.
Closed(c) ==
  /\ \A l \in Leg : c.uas[l] \in {"Idle"} \cup OverUas
  /\ c.uac \in {"None"} \cup OverUac
  /\ c.back = {}

\* States of a call whose camera has picked up.
UpState == {"CallAccepted", "CallAcceptedMediaProxySuccess", "CallActive"}

\* The state of a call fits its sessions.
Fits(c) ==
  /\ c \in Record
  /\ \A l \in Leg : c.uas[l] \in EarlyUas \cup UpUas => l \in c.legs
  /\ c.back \subseteq c.legs
  /\ c.uac \in PendingUac \cup UpUac => c.bset
  /\ c.st \in PreDialState => c.uac = "None"
  /\ c.st \in UpState => PickedUp(c)
  /\ c.uac = "Reoffered" => c.st \in ConnectedState \cup FinishingState
  /\ c.st \in Absent \cup {"CallStopFinal"} => Closed(c)

-----------------------------------------------------------------------------
(* The order of the states.                                                *)

Level(s) == Lifecycle!Rank(getStatus(s))

\* A change of state that CallLifecycle allows without a pick-up.
Ahead(s, t) ==
  /\ Level(s) <= Level(t)
  /\ t \in ConnectedState => s \in ConnectedState

\* The four groups of live states are disjoint.
LEMMA Groups ==
  /\ PreDialState \cap DialingState = {}
  /\ PreDialState \cap ConnectedState = {}
  /\ PreDialState \cap FinishingState = {}
  /\ DialingState \cap ConnectedState = {}
  /\ DialingState \cap FinishingState = {}
  /\ ConnectedState \cap FinishingState = {}
  /\ UpState \subseteq ConnectedState
  /\ "CallStopFinal" \in FinishingState
BY DEF PreDialState, DialingState, ConnectedState, FinishingState, HangupState, UpState

\* The status of a call and its rank, by the group of its state.
LEMMA Levels ==
  /\ \A s \in PreDialState : getStatus(s) = "PreDial" /\ Level(s) = 1
  /\ \A s \in DialingState : getStatus(s) = "Dialing" /\ Level(s) = 2
  /\ \A s \in ConnectedState : getStatus(s) = "Connected" /\ Level(s) = 3
  /\ \A s \in FinishingState : getStatus(s) = "Finishing" /\ Level(s) = 4
  /\ getStatus("None") = "None" /\ Level("None") = 0
  /\ getStatus("Deleted") = "Deleted" /\ Level("Deleted") = 5
<1>1. "None" \notin CallState /\ "Deleted" \notin CallState
  BY AbsentIsNotLive DEF Absent
<1>2. /\ \A s \in PreDialState : getStatus(s) = "PreDial"
      /\ \A s \in DialingState : getStatus(s) = "Dialing"
      /\ \A s \in ConnectedState : getStatus(s) = "Connected"
      /\ \A s \in FinishingState : getStatus(s) = "Finishing"
      /\ getStatus("None") = "None"
      /\ getStatus("Deleted") = "Deleted"
  BY <1>1, Groups DEF getStatus, CallState
<1> QED BY <1>2 DEF Level, Lifecycle!Rank

\* The rank of a state.
LEMMA LevelType == \A s \in CallState \cup Absent : Level(s) \in 0 .. 5
BY Levels DEF CallState, Absent

\* To stay is allowed.
LEMMA AheadSelf == ASSUME NEW s \in CallState \cup Absent PROVE Ahead(s, s)
BY LevelType DEF Ahead

\* Where the transition table leads: forward, and into a connected state only
\* through CallAccepted.
LEMMA PermittedAhead ==
  ASSUME NEW s \in CallState \cup Absent, NEW t \in Permitted(s)
  PROVE  /\ Level(s) <= Level(t)
         /\ t # "CallAccepted" => Ahead(s, t)
         /\ t \in PreDialState => s \in PreDialState
         /\ t \in UpState /\ t # "CallAccepted" => s \in UpState
         /\ s \in ConnectedState \cup FinishingState =>
              t \in ConnectedState \cup FinishingState /\ t # "CallAccepted"
         /\ s \notin Absent \cup {"CallStopFinal"}
<1>1. /\ s \in PreDialState =>
           t \in PreDialState \cup DialingState \cup FinishingState
      /\ s \in DialingState =>
           t \in DialingState \cup {"CallAccepted"} \cup FinishingState
      /\ s \in ConnectedState =>
           t \in (ConnectedState \ {"CallAccepted"}) \cup FinishingState
      /\ s \in FinishingState => t \in FinishingState /\ s # "CallStopFinal"
      /\ t \in UpState \ {"CallAccepted"} => s \in UpState
  <2>1. s \in PreDialState => t \in PreDialState \cup DialingState \cup FinishingState
    BY DEF Permitted, DialPermits, AnsweredPermits, PreDialState, DialingState,
           FinishingState, HangupState
  <2>2. s \in DialingState => t \in DialingState \cup {"CallAccepted"} \cup FinishingState
    BY DEF Permitted, DialPermits, AnsweredPermits, DialingState,
           FinishingState, HangupState
  <2>3. s \in ConnectedState => t \in (ConnectedState \ {"CallAccepted"}) \cup FinishingState
    BY DEF Permitted, DialPermits, AnsweredPermits, DialingState, ConnectedState,
           FinishingState, HangupState
  <2>4. s \in FinishingState => t \in FinishingState /\ s # "CallStopFinal"
    BY DEF Permitted, DialPermits, AnsweredPermits, DialingState,
           FinishingState, HangupState
  <2>5. t \in UpState \ {"CallAccepted"} => s \in UpState
    BY DEF Permitted, DialPermits, AnsweredPermits, DialingState, UpState, HangupState
  <2> QED BY <2>1, <2>2, <2>3, <2>4, <2>5
<1>2. s \notin Absent
  BY AbsentPermits
<1>3. s \in PreDialState \cup DialingState \cup ConnectedState \cup FinishingState
  BY <1>2 DEF CallState
<1>4. "CallAccepted" \in ConnectedState
  BY DEF ConnectedState
<1>5. s # "CallStopFinal"
  BY <1>1, Groups
<1> QED BY <1>1, <1>2, <1>3, <1>4, <1>5, Groups, Levels DEF Ahead

-----------------------------------------------------------------------------
(* Four relations between a call before and after a chain of changes.      *)

\* The call goes ahead; who is connected stays the same.
Turns(c, d) ==
  /\ Fits(d)
  /\ Ahead(c.st, d.st)
  /\ Served(d) = Served(c)
  /\ PickedUp(d) <=> PickedUp(c)

\* The call goes ahead; parties may leave.
Advances(c, d) ==
  /\ Fits(d)
  /\ Ahead(c.st, d.st)
  /\ Served(d) \subseteq Served(c)
  /\ PickedUp(d) => PickedUp(c)

\* The call goes ahead, perhaps to the connected states; callers may be connected.
Rises(c, d) ==
  /\ Fits(d)
  /\ Level(c.st) <= Level(d.st)
  /\ Served(c) \subseteq Served(d)
  /\ PickedUp(d) <=> PickedUp(c)

\* Callers may be connected.
Grows(c, d) ==
  /\ Fits(d)
  /\ getStatus(d.st) = getStatus(c.st)
  /\ Served(c) \subseteq Served(d)
  /\ PickedUp(d) <=> PickedUp(c)

\* A fitting call is a record in some state.
LEMMA FitsState == ASSUME NEW c, Fits(c) PROVE c \in Record /\ c.st \in CallState \cup Absent
BY DEF Fits, Record

\* The relations: to stay is a turn, a turn is an advance and a rise, and so on.
LEMMA TurnsSelf == ASSUME NEW c, Fits(c) PROVE Turns(c, c)
BY FitsState, AheadSelf DEF Turns

\* A turn leads to a fitting call.
LEMMA TurnsFits == ASSUME NEW c, NEW d, Turns(c, d) PROVE Fits(d)
BY DEF Turns

\* A turn is an advance in which nobody leaves.
LEMMA TurnsAdvances == ASSUME NEW c, NEW d, Turns(c, d) PROVE Advances(c, d)
BY DEF Turns, Advances

\* A turn is a rise in which nobody is connected.
LEMMA TurnsRises == ASSUME NEW c, NEW d, Turns(c, d) PROVE Rises(c, d)
BY DEF Turns, Rises, Ahead

\* To connect callers in the same status is a rise.
LEMMA GrowsRises == ASSUME NEW c, NEW d, Fits(c), Grows(c, d) PROVE Rises(c, d)
BY FitsState, LevelType DEF Grows, Rises, Level

\* The order of the states is transitive.
LEMMA AheadTrans ==
  ASSUME NEW c, NEW d, NEW e, Fits(c), Fits(d), Fits(e),
         Ahead(c.st, d.st), Ahead(d.st, e.st)
  PROVE  Ahead(c.st, e.st)
BY FitsState, LevelType DEF Ahead

\* So are the four relations.
LEMMA TurnsTrans ==
  ASSUME NEW c, NEW d, NEW e, Fits(c), Turns(c, d), Turns(d, e)
  PROVE  Turns(c, e)
BY AheadTrans DEF Turns

\* Two advances in a row.
LEMMA AdvancesTrans ==
  ASSUME NEW c, NEW d, NEW e, Fits(c), Advances(c, d), Advances(d, e)
  PROVE  Advances(c, e)
BY AheadTrans DEF Advances

\* Two rises in a row.
LEMMA RisesTrans ==
  ASSUME NEW c, NEW d, NEW e, Fits(c), Rises(c, d), Rises(d, e)
  PROVE  Rises(c, e)
<1>1. Level(c.st) <= Level(e.st)
  BY FitsState, LevelType DEF Rises
<1> QED BY <1>1 DEF Rises

\* Callers connected in two steps.
LEMMA GrowsTrans ==
  ASSUME NEW c, NEW d, NEW e, Grows(c, d), Grows(d, e)
  PROVE  Grows(c, e)
BY DEF Grows

\* A turn that leaves the status alone.
LEMMA TurnsGrows ==
  ASSUME NEW c, NEW d, Turns(c, d), getStatus(d.st) = getStatus(c.st)
  PROVE  Grows(c, d)
BY DEF Turns, Grows

-----------------------------------------------------------------------------
(* The small changes that handlers are made of.                            *)

\* A change of none of the fields that Fits speaks of.
LEMMA TurnsData ==
  ASSUME NEW c, Fits(c), NEW d \in Record,
         d.st = c.st, d.legs = c.legs, d.back = c.back, d.uas = c.uas,
         d.bset = c.bset, d.uac = c.uac
  PROVE  Turns(c, d)
<1>1. Fits(d)
  BY DEF Fits, Closed, PickedUp
<1> QED BY <1>1, FitsState, AheadSelf DEF Turns, Served, PickedUp

\* setCallState, but for the two states that ask more of the sessions.
LEMMA TurnsState ==
  ASSUME NEW c, Fits(c), NEW s \in CallState, s # "CallAccepted", s # "CallStopFinal"
  PROVE  /\ Turns(c, setCallState(c, s))
         /\ setCallState(c, s).st = IF s \in Permitted(c.st) THEN s ELSE c.st
<1> DEFINE d == setCallState(c, s)
<1>1. /\ d \in Record
      /\ d.st = IF s \in Permitted(c.st) THEN s ELSE c.st
      /\ d.legs = c.legs /\ d.back = c.back /\ d.uas = c.uas
      /\ d.bset = c.bset /\ d.uac = c.uac
  BY FitsState DEF setCallState, Record
<1> HIDE DEF d
<1>2. ASSUME s \in Permitted(c.st) PROVE Turns(c, d)
  <2>1. /\ Ahead(c.st, s)
        /\ s \in PreDialState => c.st \in PreDialState
        /\ s \in UpState => c.st \in UpState
        /\ c.st \in ConnectedState \cup FinishingState =>
             s \in ConnectedState \cup FinishingState
    BY <1>2, FitsState, PermittedAhead
  <2>2. s \notin Absent
    BY AbsentIsNotLive
  <2>3. Fits(d)
    BY <1>1, <1>2, <2>1, <2>2 DEF Fits, Closed, PickedUp
  <2> QED BY <1>1, <1>2, <2>1, <2>3 DEF Turns, Served, PickedUp
<1>3. ASSUME s \notin Permitted(c.st) PROVE Turns(c, d)
  BY <1>1, <1>3, TurnsData
<1>4. Turns(c, d)
  BY <1>2, <1>3
<1> QED BY <1>1, <1>4 DEF d

\* A clearing reason, given once, tells CallLifecycle nothing.
LEMMA TurnsReason ==
  ASSUME NEW c, Fits(c), NEW r \in ClearingReason
  PROVE  Turns(c, setClearingReason(c, r)) /\ setClearingReason(c, r).st = c.st
<1> DEFINE d == setClearingReason(c, r)
<1>1. /\ d \in Record /\ d.st = c.st
      /\ d.legs = c.legs /\ d.back = c.back /\ d.uas = c.uas
      /\ d.bset = c.bset /\ d.uac = c.uac
  BY DEF Fits, setClearingReason, Record
<1> HIDE DEF d
<1>2. Turns(c, d)
  BY <1>1, TurnsData
<1> QED BY <1>1, <1>2 DEF d

\* Neither does the reason for media that cannot be relayed,
LEMMA TurnsMediaFail ==
  ASSUME NEW c, Fits(c)
  PROVE  /\ Turns(c, setClearingReasonMediaFail(c))
         /\ setClearingReasonMediaFail(c).st = c.st
BY TurnsReason DEF setClearingReasonMediaFail, ClearingReason

\* nor the use of the first leg,
LEMMA TurnsTouch ==
  ASSUME NEW c, Fits(c)
  PROVE  Turns(c, TouchFirst(c)) /\ TouchFirst(c).st = c.st
<1> DEFINE d == TouchFirst(c)
<1>1. /\ d \in Record /\ d.st = c.st
      /\ d.legs = c.legs /\ d.back = c.back /\ d.uas = c.uas
      /\ d.bset = c.bset /\ d.uac = c.uac
  BY DEF Fits, TouchFirst, Record
<1> HIDE DEF d
<1>2. Turns(c, d)
  BY <1>1, TurnsData
<1> QED BY <1>1, <1>2 DEF d

\* nor the SDP of a caller,
LEMMA TurnsASdp ==
  ASSUME NEW c, Fits(c), NEW l \in Leg, NEW m
  PROVE  /\ Turns(c, setALegSdp(c, l, m))
         /\ setALegSdp(c, l, m).st = c.st
         /\ setALegSdp(c, l, m).first = c.first
         /\ setALegSdp(c, l, m).uac = c.uac
         /\ setALegSdp(c, l, m).uas = c.uas
<1> DEFINE d == setALegSdp(c, l, m)
<1>1. /\ d \in Record /\ d.st = c.st /\ d.first = c.first
      /\ d.legs = c.legs /\ d.back = c.back /\ d.uas = c.uas
      /\ d.bset = c.bset /\ d.uac = c.uac
  BY TransType DEF Fits, setALegSdp, Record
<1> HIDE DEF d
<1>2. Turns(c, d)
  BY <1>1, TurnsData
<1> QED BY <1>1, <1>2 DEF d

\* nor the SDP of the camera,
LEMMA TurnsBSdp ==
  ASSUME NEW c, Fits(c), NEW m
  PROVE  /\ Turns(c, setBLegSdp(c, m))
         /\ setBLegSdp(c, m).st = c.st
<1> DEFINE d == setBLegSdp(c, m)
<1>1. /\ d \in Record /\ d.st = c.st
      /\ d.legs = c.legs /\ d.back = c.back /\ d.uas = c.uas
      /\ d.bset = c.bset /\ d.uac = c.uac
  BY ZenonT(60), TransType DEF Fits, setBLegSdp, Record
<1> HIDE DEF d
<1>2. Turns(c, d)
  BY <1>1, TurnsData
<1> QED BY <1>1, <1>2 DEF d

\* nor connectTime,
LEMMA TurnsConnect ==
  ASSUME NEW c, Fits(c)
  PROVE  Turns(c, [c EXCEPT !.connected = TRUE]) /\ [c EXCEPT !.connected = TRUE].st = c.st
<1> DEFINE d == [c EXCEPT !.connected = TRUE]
<1>1. /\ d \in Record /\ d.st = c.st
      /\ d.legs = c.legs /\ d.back = c.back /\ d.uas = c.uas
      /\ d.bset = c.bset /\ d.uac = c.uac
  BY DEF Fits, Record
<1> HIDE DEF d
<1>2. Turns(c, d)
  BY <1>1, TurnsData
<1> QED BY <1>1, <1>2 DEF d

\* nor the mark of a misused session.
LEMMA TurnsBad ==
  ASSUME NEW c, Fits(c), NEW b \in BOOLEAN
  PROVE  /\ Turns(c, [c EXCEPT !.bad = @ \/ b])
         /\ [c EXCEPT !.bad = @ \/ b].st = c.st
<1> DEFINE d == [c EXCEPT !.bad = @ \/ b]
<1>1. /\ d \in Record /\ d.st = c.st
      /\ d.legs = c.legs /\ d.back = c.back /\ d.uas = c.uas
      /\ d.bset = c.bset /\ d.uac = c.uac
  BY DEF Fits, Record
<1> HIDE DEF d
<1>2. Turns(c, d)
  BY <1>1, TurnsData
<1> QED BY <1>1, <1>2 DEF d

\* The methods that handlers call apply only to sessions that are under way and
\* connect or reject; those of the first kind never connect a caller.
Harmless(m) ==
  /\ DOMAIN m \subseteq EarlyUas \cup UpUas
  /\ \A s \in DOMAIN m : m[s] \in UasState /\ (m[s] \in UpUas <=> s \in UpUas)

Connecting(m) ==
  /\ DOMAIN m \subseteq EarlyUas \cup UpUas
  /\ \A s \in DOMAIN m : m[s] \in UasState /\ (s \in UpUas => m[s] \in UpUas)

\* The methods of a caller's session, by kind.
LEMMA SessionMethods ==
  /\ Harmless(Uas_provisional)
  /\ Harmless(Uas_reject)
  /\ Harmless(Uas_provideAnswer)
  /\ Connecting(Uas_provideAnswer)
  /\ Connecting(Uas_provideOffer)
  /\ Connecting(Uas_accept)
<1> USE DEF UasState, EarlyUas, UpUas, OverUas
<1>1. Harmless(Uas_provisional)     BY DEF Harmless, Uas_provisional
<1>2. Harmless(Uas_reject)          BY DEF Harmless, Uas_reject
<1>3. Harmless(Uas_provideAnswer)   BY DEF Harmless, Uas_provideAnswer
<1>4. Connecting(Uas_provideAnswer) BY <1>3 DEF Harmless, Connecting
<1>5. Connecting(Uas_provideOffer)  BY DEF Connecting, Uas_provideOffer
<1>6. Connecting(Uas_accept)        BY DEF Connecting, Uas_accept
<1> QED BY <1>1, <1>2, <1>3, <1>4, <1>5, <1>6

\* The groups of session states, of callers and of the camera.
LEMMA UasGroups ==
  /\ EarlyUas \cap UpUas = {}
  /\ ({"Idle"} \cup OverUas) \cap (EarlyUas \cup UpUas) = {}
  /\ UasState = {"Idle"} \cup OverUas \cup EarlyUas \cup UpUas
BY DEF UasState, EarlyUas, UpUas, OverUas

\* The states of the camera's session.
LEMMA UacGroups ==
  /\ PendingUac \cap UpUac = {}
  /\ ({"None"} \cup OverUac) \cap (PendingUac \cup UpUac) = {}
  /\ UacState = {"None"} \cup OverUac \cup PendingUac \cup UpUac
  /\ "Reoffered" \in UpUac
BY DEF UacState, PendingUac, UpUac, OverUac

\* What CallLeg does to the fields that Fits speaks of.
LEMMA LegFields ==
  ASSUME NEW c, Fits(c), NEW l, NEW m,
         DOMAIN m \subseteq EarlyUas \cup UpUas,
         \A s \in DOMAIN m : m[s] \in UasState
  PROVE  /\ Fits(CallLeg(c, l, m))
         /\ CallLeg(c, l, m).st = c.st
         /\ CallLeg(c, l, m).uac = c.uac
         /\ \A j \in Leg : CallLeg(c, l, m).uas[j] =
              IF j = l /\ c.uas[l] \in DOMAIN m THEN m[c.uas[l]] ELSE c.uas[j]
<1> DEFINE d == CallLeg(c, l, m)
<1>1. /\ d \in Record /\ d.st = c.st
      /\ d.legs = c.legs /\ d.back = c.back
      /\ d.bset = c.bset /\ d.uac = c.uac
      /\ \A j \in Leg : d.uas[j] =
           IF j = l /\ c.uas[l] \in DOMAIN m THEN m[c.uas[l]] ELSE c.uas[j]
  BY ZenonT(60) DEF Fits, CallLeg, Record
<1> HIDE DEF d
<1>2. \A j \in Leg : d.uas[j] = c.uas[j] \/ c.uas[j] \in EarlyUas \cup UpUas
  BY <1>1
<1>3. Fits(d)
  <2>1. \A j \in Leg : d.uas[j] \in EarlyUas \cup UpUas => j \in d.legs
    BY <1>1, <1>2 DEF Fits
  <2>2. Closed(c) => Closed(d)
    BY <1>1, <1>2, UasGroups DEF Closed
  <2> QED BY <1>1, <2>1, <2>2 DEF Fits, PickedUp
<1> QED BY <1>1, <1>3 DEF d

\* A harmless method on one session is a turn.
LEMMA TurnsLeg ==
  ASSUME NEW c, Fits(c), NEW l, NEW m, Harmless(m)
  PROVE  Turns(c, CallLeg(c, l, m)) /\ CallLeg(c, l, m).st = c.st
<1> DEFINE d == CallLeg(c, l, m)
<1>1. /\ Fits(d) /\ d.st = c.st /\ d.uac = c.uac
      /\ \A j \in Leg : d.uas[j] =
           IF j = l /\ c.uas[l] \in DOMAIN m THEN m[c.uas[l]] ELSE c.uas[j]
  BY LegFields DEF Harmless
<1> HIDE DEF d
<1>2. Served(d) = Served(c)
  BY <1>1 DEF Served, Harmless
<1>3. Turns(c, d)
  BY <1>1, <1>2, FitsState, AheadSelf DEF Turns, PickedUp
<1> QED BY <1>1, <1>3 DEF d

\* A connecting method may add the caller to those who are served.
LEMMA GrowsLeg ==
  ASSUME NEW c, Fits(c), NEW l, NEW m, Connecting(m)
  PROVE  Grows(c, CallLeg(c, l, m)) /\ CallLeg(c, l, m).st = c.st
<1> DEFINE d == CallLeg(c, l, m)
<1>1. /\ Fits(d) /\ d.st = c.st /\ d.uac = c.uac
      /\ \A j \in Leg : d.uas[j] =
           IF j = l /\ c.uas[l] \in DOMAIN m THEN m[c.uas[l]] ELSE c.uas[j]
  BY LegFields DEF Connecting
<1> HIDE DEF d
<1>2. Served(c) \subseteq Served(d)
  BY <1>1 DEF Served, Connecting
<1>3. Grows(c, d)
  BY <1>1, <1>2 DEF Grows, PickedUp
<1> QED BY <1>1, <1>3 DEF d

\* The answer to the camera, and the offer to it in a call in progress.
LEMMA TurnsBLeg ==
  ASSUME NEW c, Fits(c)
  PROVE  /\ Turns(c, CallBLeg(c, Uac_provideAnswer))
         /\ CallBLeg(c, Uac_provideAnswer).st = c.st
         /\ c.st = "CallActive" => Turns(c, CallBLeg(c, Uac_provideOffer))
         /\ CallBLeg(c, Uac_provideOffer).st = c.st
<1>1. ASSUME NEW m, UacMethod(m), DOMAIN m \subseteq UpUac,
             \A s \in DOMAIN m : m[s] \in UpUac,
             c.st # "CallActive" => \A s \in DOMAIN m : m[s] # "Reoffered"
      PROVE  Turns(c, CallBLeg(c, m))
  <2> DEFINE d == CallBLeg(c, m)
  <2>1. /\ d \in Record /\ d.st = c.st
        /\ d.legs = c.legs /\ d.back = c.back /\ d.uas = c.uas /\ d.bset = c.bset
        /\ d.uac = c.uac \/ (c.uac \in DOMAIN m /\ d.uac = m[c.uac])
    BY <1>1 DEF Fits, CallBLeg, Record, UacMethod
  <2> HIDE DEF d
  <2>2. /\ d.uac = c.uac \/ (c.uac \in UpUac /\ d.uac \in UpUac)
        /\ d.uac = "Reoffered" => d.uac = c.uac \/ c.st = "CallActive"
    BY <1>1, <2>1
  <2>3. "CallActive" \in ConnectedState
    BY DEF ConnectedState
  <2>4. Fits(d)
    BY <2>1, <2>2, <2>3, UacGroups DEF Fits, Closed, PickedUp
  <2>5. Turns(c, d)
    BY <2>1, <2>2, <2>4, FitsState, AheadSelf DEF Turns, Served, PickedUp
  <2> QED BY <2>5 DEF d
<1>2. /\ UacMethod(Uac_provideAnswer) /\ DOMAIN Uac_provideAnswer \subseteq UpUac
      /\ \A s \in DOMAIN Uac_provideAnswer : Uac_provideAnswer[s] = "Connected"
      /\ UacMethod(Uac_provideOffer) /\ DOMAIN Uac_provideOffer \subseteq UpUac
      /\ \A s \in DOMAIN Uac_provideOffer : Uac_provideOffer[s] \in UpUac
      /\ "Connected" \in UpUac
  BY UacMethods DEF Uac_provideAnswer, Uac_provideOffer, UpUac
<1>3. \A m : CallBLeg(c, m).st = c.st
  BY DEF Fits, Record, CallBLeg
<1> QED BY <1>1, <1>2, <1>3

-----------------------------------------------------------------------------
(* The callbacks of the dialog usage manager.                              *)

\* The states that handlers ask for, but for CallAccepted and CallStopFinal.
LEMMA Asked ==
  /\ {"CallerCancel", "CallStop", "DialReceived180", "DialReceivedEarlyAnswer",
      "DialEarlyMediaProxyFail", "DialRejected", "DialInProgress", "ReadyToDial",
      "CallActive", "CallAcceptedMediaProxyFail", "CallerHangup", "CalleeHangup",
      "CallAcceptedMediaProxySuccess", "DialEarlyMediaProxySuccess", "LocalHangup",
      "AuthorizationFail", "AuthorizationPending", "AuthorizationSuccess",
      "MediaProxySuccess", "SelectAlternateRoute", "DialAborted"} \subseteq CallState
  /\ "CallAccepted" \in CallState
BY DEF CallState, PreDialState, DialingState, ConnectedState, FinishingState, HangupState

\* onOffer of the first caller: the call goes on or is stopped.
LEMMA TurnsOfferFirst ==
  ASSUME NEW c, Fits(c), c.first \in Leg, NEW m
  PROVE  /\ Turns(c, onOfferFirst(c, m))
         /\ onOfferFirst(c, m).st \in {c.st, "CallStop"}
<1> DEFINE d == setALegSdp(c, c.first, m)
           r == setClearingReasonMediaFail(d)
           s == setCallState(r, "CallStop")
           b == CallBLeg(d, Uac_provideOffer)
<1>1. Turns(c, d) /\ Fits(d) /\ d.st = c.st
  BY TurnsASdp, TurnsFits
<1>2. onOfferFirst(c, m) = IF sdpThrows(c, m) THEN s
                           ELSE IF d.bleg /\ d.legs = {d.first} /\ d.st = "CallActive"
                             THEN b ELSE d
  BY DEF onOfferFirst
<1> HIDE DEF d
<1>3. Turns(d, r) /\ Fits(r) /\ r.st = d.st
  BY <1>1, TurnsMediaFail, TurnsFits
<1> HIDE DEF r
<1>4. Turns(r, s) /\ s.st \in {r.st, "CallStop"}
  BY <1>3, TurnsState, Asked
<1> HIDE DEF s
<1>5. Turns(c, s) /\ s.st \in {c.st, "CallStop"}
  BY <1>1, <1>3, <1>4, TurnsTrans
<1>6. d.st = "CallActive" => Turns(c, b) /\ b.st = c.st
  BY <1>1, TurnsBLeg, TurnsTrans
<1> HIDE DEF b
<1> QED BY <1>1, <1>2, <1>5, <1>6

\* A joining caller is connected only in a call in progress.
LEMMA GrowsOfferJoiner ==
  ASSUME NEW c, Fits(c), NEW l \in Leg, NEW m
  PROVE  \/ Turns(c, onOfferJoiner(c, l, m))
         \/ c.st = "CallActive" /\ Grows(c, onOfferJoiner(c, l, m))
<1> DEFINE d == setALegSdp(c, l, m)
           e == CallLeg(d, l, Uas_provideAnswer)
           f == CallLeg(e, l, Uas_accept)
<1>1. Turns(c, d) /\ Fits(d) /\ Grows(c, d)
  BY TurnsASdp, TurnsFits, TurnsGrows
<1>2. onOfferJoiner(c, l, m) = IF c.st # "CallActive" THEN c
                               ELSE IF sdpThrows(c, m) \/ ~ d.bsdp THEN d ELSE f
  BY DEF onOfferJoiner
<1> HIDE DEF d
<1>3. Grows(d, e) /\ Fits(e)
  BY <1>1, GrowsLeg, SessionMethods DEF Grows
<1> HIDE DEF e
<1>4. Grows(e, f)
  BY <1>3, GrowsLeg, SessionMethods
<1> HIDE DEF f
<1>5. Grows(c, f)
  BY <1>1, <1>3, <1>4, GrowsTrans
<1> QED BY <1>1, <1>2, <1>5, TurnsSelf

\* onOfferRequired may connect its caller.
LEMMA GrowsOfferRequired ==
  ASSUME NEW c, Fits(c), NEW l \in Leg
  PROVE  \/ Turns(c, onOfferRequired(c, l))
         \/ c.st = "CallActive" /\ Grows(c, onOfferRequired(c, l))
<1> DEFINE d == CallLeg(c, l, Uas_provideOffer)
           e == CallLeg(d, l, Uas_accept)
<1>1. Grows(c, d) /\ Fits(d)
  BY GrowsLeg, SessionMethods DEF Grows
<1>2. onOfferRequired(c, l) = IF l # c.first /\ c.st = "CallActive" THEN e ELSE c
  BY DEF onOfferRequired
<1> HIDE DEF d
<1>3. Grows(c, e)
  BY <1>1, GrowsLeg, SessionMethods, GrowsTrans
<1> HIDE DEF e
<1> QED BY <1>2, <1>3, TurnsSelf

\* The camera's offer connects the first caller or is given up.
LEMMA GrowsCallOffered ==
  ASSUME NEW c, Fits(c)
  PROVE  Turns(c, doCallOffered(c)) \/ Grows(c, doCallOffered(c))
<1> DEFINE r == setClearingReason(c, "AnsweredError")
           s == setCallState(r, "CallAcceptedMediaProxyFail")
           d == CallLeg(c, c.first, Uas_provideOffer)
           e == CallLeg(d, d.first, Uas_accept)
<1>1. doCallOffered(c) = IF c.uas[c.first] \in UasOfferThrows THEN s ELSE e
  BY DEF doCallOffered, CallFirst
<1>2. Turns(c, r) /\ Fits(r)
  BY TurnsReason, TurnsFits DEF ClearingReason
<1> HIDE DEF r
<1>3. Turns(c, s)
  BY <1>2, TurnsState, Asked, TurnsTrans
<1> HIDE DEF s
<1>4. Grows(c, d) /\ Fits(d)
  BY GrowsLeg, SessionMethods DEF Grows
<1> HIDE DEF d
<1>5. Grows(c, e)
  BY <1>4, GrowsLeg, SessionMethods, GrowsTrans
<1> HIDE DEF e
<1> QED BY <1>1, <1>3, <1>5

\* onOffer of the camera shows its media to the first caller.
LEMMA GrowsOfferB ==
  ASSUME NEW c, Fits(c), NEW m
  PROVE  Turns(c, onOfferB(c, m)) \/ Grows(c, onOfferB(c, m))
<1> DEFINE d == setBLegSdp(c, m)
           r == setClearingReasonMediaFail(d)
           s == setCallState(r, "CallStop")
<1>1. Turns(c, d) /\ Fits(d) /\ Grows(c, d)
  BY TurnsBSdp, TurnsFits, TurnsGrows
<1>2. onOfferB(c, m) = IF sdpThrows(c, m) THEN s ELSE doCallOffered(d)
  BY DEF onOfferB
<1> HIDE DEF d
<1>3. Turns(d, r) /\ Fits(r)
  BY <1>1, TurnsMediaFail, TurnsFits
<1> HIDE DEF r
<1>4. Turns(c, s)
  BY <1>1, <1>3, TurnsState, Asked, TurnsTrans
<1>5. Turns(c, doCallOffered(d)) \/ Grows(c, doCallOffered(d))
  BY <1>1, GrowsCallOffered, TurnsTrans, GrowsTrans
<1> HIDE DEF s
<1> QED BY <1>2, <1>4, <1>5

\* The state CallAccepted, for a camera that has picked up.
LEMMA RisesAccepted ==
  ASSUME NEW c, Fits(c), PickedUp(c),
         c.uac = "Reoffered" => c.st \in ConnectedState \cup FinishingState
  PROVE  /\ Rises(c, setCallState(c, "CallAccepted"))
         /\ c.st \in ConnectedState \cup FinishingState =>
              Turns(c, setCallState(c, "CallAccepted"))
<1> DEFINE d == setCallState(c, "CallAccepted")
<1>1. /\ d \in Record
      /\ d.st = IF "CallAccepted" \in Permitted(c.st) THEN "CallAccepted" ELSE c.st
      /\ d.legs = c.legs /\ d.back = c.back /\ d.uas = c.uas
      /\ d.bset = c.bset /\ d.uac = c.uac
  BY Asked, FitsState DEF setCallState, Record
<1> HIDE DEF d
<1>2. "CallAccepted" \in ConnectedState /\ "CallAccepted" \notin Absent \cup {"CallStopFinal"}
  BY DEF ConnectedState, Absent
<1>3. ASSUME "CallAccepted" \notin Permitted(c.st)
      PROVE  Turns(c, d) /\ Rises(c, d)
  <2>1. d.st = c.st
    BY <1>1, <1>3
  <2>2. Turns(c, d)
    BY <1>1, <2>1, TurnsData
  <2> QED BY <2>2, TurnsRises
<1>4. ASSUME "CallAccepted" \in Permitted(c.st)
      PROVE  Rises(c, d) /\ c.st \notin ConnectedState \cup FinishingState
  <2>1. /\ Level(c.st) <= Level("CallAccepted")
        /\ c.st \notin ConnectedState \cup FinishingState
    BY <1>4, FitsState, PermittedAhead
  <2>2. d.st = "CallAccepted"
    BY <1>1, <1>4
  <2>3. Fits(d)
    BY <1>1, <1>2, <2>2, Groups DEF Fits, PickedUp
  <2> QED BY <1>1, <2>1, <2>2, <2>3 DEF Rises, Served, PickedUp
<1>5. Rises(c, d) /\ (c.st \in ConnectedState \cup FinishingState => Turns(c, d))
  BY <1>3, <1>4
<1> QED BY <1>5 DEF d

\* onAnswer of the camera: the call is accepted, or is finishing already.
LEMMA RisesAnswerB ==
  ASSUME NEW c, Fits(c), PickedUp(c), NEW m
  PROVE  /\ Rises(c, onAnswerB(c, m))
         /\ c.st \in ConnectedState \cup FinishingState => Turns(c, onAnswerB(c, m))
<1> DEFINE a == setCallState(c, "CallAccepted")
           d == [a EXCEPT !.connected = TRUE]
           e == setBLegSdp(d, m)
           r == setClearingReasonMediaFail(e)
           s == setCallState(r, "CallStop")
           b == setBLegSdp(c, m)
           x == [b EXCEPT !.bad = @ \/ sdpThrows(c, m)]
<1>1. onAnswerB(c, m) = IF c.st = "CallActive" THEN x
                        ELSE IF sdpThrows(c, m) THEN s ELSE e
  BY DEF onAnswerB
<1>2. /\ Rises(c, a) /\ Fits(a)
      /\ c.st \in ConnectedState \cup FinishingState => Turns(c, a)
  BY RisesAccepted DEF Fits, Rises
<1>3. Turns(c, b) /\ Fits(b)
  BY TurnsBSdp, TurnsFits
<1> HIDE DEF a, b
<1>4. Turns(a, d) /\ Fits(d)
  BY <1>2, TurnsConnect, TurnsFits
<1>5. sdpThrows(c, m) \in BOOLEAN
  BY DEF sdpThrows
<1>6. Turns(c, x)
  BY <1>3, <1>5, TurnsBad, TurnsTrans
<1> HIDE DEF d, x
<1>7. Turns(d, e) /\ Fits(e)
  BY <1>4, TurnsBSdp, TurnsFits
<1> HIDE DEF e
<1>8. Turns(e, r) /\ Fits(r)
  BY <1>7, TurnsMediaFail, TurnsFits
<1> HIDE DEF r
<1>9. Turns(r, s)
  BY <1>8, TurnsState, Asked
<1> HIDE DEF s
<1>10. Turns(a, e) /\ Turns(a, s)
  BY <1>2, <1>4, <1>7, <1>8, <1>9, TurnsTrans
<1>11. /\ Rises(c, e) /\ Rises(c, s) /\ Rises(c, x)
       /\ c.st \in ConnectedState \cup FinishingState => Turns(c, e) /\ Turns(c, s)
  BY <1>2, <1>6, <1>10, TurnsRises, RisesTrans, TurnsTrans
<1> QED BY <1>1, <1>6, <1>11

\* The first answer sets connectTime.
LEMMA TurnsCallAnswered ==
  ASSUME NEW c, Fits(c)
  PROVE  Turns(c, doCallAnswered(c))
<1> DEFINE b == CallBLeg(c, Uac_provideAnswer)
           d == [b EXCEPT !.connected = TRUE]
<1>1. doCallAnswered(c) = setCallState(d, "CallActive")
  BY DEF doCallAnswered
<1>2. Turns(c, b) /\ Fits(b)
  BY TurnsBLeg, TurnsFits
<1> HIDE DEF b
<1>3. Turns(b, d) /\ Fits(d)
  BY <1>2, TurnsConnect, TurnsFits
<1> HIDE DEF d
<1>4. Turns(d, setCallState(d, "CallActive"))
  BY <1>3, TurnsState, Asked
<1> QED BY <1>1, <1>2, <1>3, <1>4, TurnsTrans

\* onAnswer of a caller passes its SDP on.
LEMMA TurnsAnswerA ==
  ASSUME NEW c, Fits(c), NEW l \in Leg, NEW m
  PROVE  Turns(c, onAnswerA(c, l, m))
<1> DEFINE a == setALegSdp(c, l, m)
           x == sdpThrows(c, m) \/ ~ c.bleg
           d == [a EXCEPT !.bad = @ \/ x]
           b == CallBLeg(d, Uac_provideAnswer)
<1>1. Turns(c, a) /\ Fits(a)
  BY TurnsASdp, TurnsFits
<1>2. x \in BOOLEAN
  BY DEF sdpThrows
<1>3. Turns(a, d) /\ Fits(d)
  <2> HIDE DEF a, x
  <2> QED BY <1>1, <1>2, TurnsBad, TurnsFits
<1>4. d = [a EXCEPT !.bad = @ \/ sdpThrows(c, m) \/ ~ c.bleg]
  <2>1. a \in Record
    BY <1>1 DEF Fits
  <2> HIDE DEF a
  <2> QED BY <2>1 DEF Record
<1>5. onAnswerA(c, l, m) = CASE c.st # "CallActive" -> doCallAnswered(d)
                             [] c.st = "CallActive" /\ l = c.first -> b
                             [] OTHER -> d
  BY <1>4 DEF onAnswerA
<1> HIDE DEF d
<1>6. Turns(c, d) /\ Turns(d, doCallAnswered(d)) /\ Turns(d, b)
  BY <1>1, <1>3, TurnsTrans, TurnsCallAnswered, TurnsBLeg
<1> HIDE DEF b
<1>7. Turns(c, doCallAnswered(d)) /\ Turns(c, b)
  BY <1>6, TurnsTrans
<1> QED BY <1>5, <1>6, <1>7

\* A provisional response of the camera moves a dialling call.
LEMMA TurnsReceived180 ==
  ASSUME NEW c, Fits(c)
  PROVE  Turns(c, doDialReceived180(c))
<1> DEFINE d == setCallState(c, "DialInProgress")
           e == CallLeg(d, d.first, Uas_provisional)
<1>1. doDialReceived180(c) = IF "DialInProgress" \in Permitted(c.st) THEN e ELSE c
  BY DEF doDialReceived180, CallFirst
<1>2. Turns(c, d) /\ Fits(d)
  BY TurnsState, Asked, TurnsFits
<1> HIDE DEF d
<1>3. Turns(c, e)
  BY <1>2, TurnsLeg, SessionMethods, TurnsTrans
<1> HIDE DEF e
<1> QED BY <1>1, <1>3, TurnsSelf

\* onProvisional without an answer.
LEMMA TurnsRinging ==
  ASSUME NEW c, Fits(c)
  PROVE  Turns(c, onRinging(c))
BY TurnsState, Asked DEF onRinging

\* onEarlyMedia.
LEMMA TurnsEarlyMedia ==
  ASSUME NEW c, Fits(c), NEW m
  PROVE  Turns(c, onEarlyMedia(c, m))
<1> DEFINE d == setCallState(c, "DialReceivedEarlyAnswer")
           e == setBLegSdp(d, m)
           f == setCallState(e, "DialEarlyMediaProxyFail")
           g == setClearingReason(f, "NoAnswerError")
<1>1. onEarlyMedia(c, m) = IF sdpThrows(d, m) THEN g ELSE e
  BY DEF onEarlyMedia
<1>2. Turns(c, d) /\ Fits(d)
  BY TurnsState, Asked, TurnsFits
<1> HIDE DEF d
<1>3. Turns(d, e) /\ Fits(e)
  BY <1>2, TurnsBSdp, TurnsFits
<1> HIDE DEF e
<1>4. Turns(e, f) /\ Fits(f)
  BY <1>3, TurnsState, Asked, TurnsFits
<1> HIDE DEF f
<1>5. Turns(f, g)
  BY <1>4, TurnsReason DEF ClearingReason
<1> HIDE DEF g
<1> QED BY <1>1, <1>2, <1>3, <1>4, <1>5, TurnsTrans

\* onFailure of the camera records the code.
LEMMA TurnsRejected ==
  ASSUME NEW c, Fits(c), NEW code \in FailureCode
  PROVE  Turns(c, onRejected(c, code))
<1> DEFINE d == setCallState(c, "DialRejected")
           e == [d EXCEPT !.code = code]
<1>1. onRejected(c, code) = IF "DialRejected" \in Permitted(c.st) THEN e ELSE c
  BY DEF onRejected
<1>2. Turns(c, d) /\ Fits(d)
  BY TurnsState, Asked, TurnsFits
<1> HIDE DEF d
<1>3. /\ e \in Record /\ e.st = d.st
      /\ e.legs = d.legs /\ e.back = d.back /\ e.uas = d.uas
      /\ e.bset = d.bset /\ e.uac = d.uac
  BY <1>2 DEF Fits, Record
<1> HIDE DEF e
<1>4. Turns(c, e)
  BY <1>2, <1>3, TurnsData, TurnsTrans
<1> QED BY <1>1, <1>4, TurnsSelf

\* onTerminated of a caller that cancels.
LEMMA TurnsCancel ==
  ASSUME NEW c, Fits(c), NEW l
  PROVE  Turns(c, onCancel(c, l))
BY TurnsState, Asked, TurnsSelf DEF onCancel

\* onTerminated of a caller that hangs up.
LEMMA TurnsHangupA ==
  ASSUME NEW c, Fits(c), NEW l
  PROVE  Turns(c, onHangupA(c, l))
<1> DEFINE r == setClearingReason(c, "AnsweredALegHangup")
<1>1. Turns(c, r) /\ Fits(r)
  BY TurnsReason, TurnsFits DEF ClearingReason
<1>2. onHangupA(c, l) = IF c.legs = {l} THEN setCallState(r, "CallerHangup") ELSE c
  BY DEF onHangupA
<1> HIDE DEF r
<1>3. Turns(c, setCallState(r, "CallerHangup"))
  BY <1>1, TurnsState, Asked, TurnsTrans
<1> QED BY <1>2, <1>3, TurnsSelf

-----------------------------------------------------------------------------
(* checkProgress and the end of a call.                                    *)

\* An advance leads to a fitting call.
LEMMA AdvancesFits == ASSUME NEW c, NEW d, Advances(c, d) PROVE Fits(d)
BY DEF Advances

\* A turn followed by an advance.
LEMMA TurnAdvances ==
  ASSUME NEW c, NEW d, NEW e, Fits(c), Turns(c, d), Advances(d, e)
  PROVE  Advances(c, e)
BY TurnsAdvances, AdvancesTrans

\* A new attempt to dial: the previous camera, if any, is forgotten.
LEMMA AdvancesReadyToDial ==
  ASSUME NEW c, Fits(c), c.st \in DialingState
  PROVE  Advances(c, doReadyToDial(c))
<1> DEFINE o == c.first \in c.asdp
           b == [c EXCEPT !.bset = TRUE, !.uac = "Calling", !.offered = o]
           d == TouchFirst(b)
           e == setCallState(d, "DialInProgress")
<1>1. "Calling" \in UacState /\ "Calling" \notin UpUac /\ o \in BOOLEAN
  BY DEF UacState, PendingUac, UpUac
<1>2. /\ b \in Record /\ b.st = c.st /\ b.legs = c.legs /\ b.back = c.back
      /\ b.uas = c.uas /\ b.bset = TRUE /\ b.uac = "Calling"
  <2> HIDE DEF o
  <2> QED BY <1>1 DEF Fits, Record
<1>3. e = doReadyToDial(c)
  BY DEF doReadyToDial
<1> HIDE DEF b
<1>4. /\ c.st \notin PreDialState
      /\ c.st \notin UpState
      /\ c.st \notin Absent \cup {"CallStopFinal"}
  BY Groups, AbsentIsNotLive DEF CallState
<1>5. Fits(b)
  BY <1>1, <1>2, <1>4 DEF Fits
<1>6. Advances(c, b)
  BY <1>1, <1>2, <1>5, FitsState, AheadSelf DEF Advances, Served, PickedUp
<1>7. Turns(b, d) /\ Fits(d)
  BY <1>5, TurnsTouch, TurnsFits
<1> HIDE DEF d
<1>8. Turns(d, e)
  BY <1>7, TurnsState, Asked
<1> HIDE DEF e
<1>9. Advances(b, e)
  BY <1>5, <1>7, <1>8, TurnsTrans, TurnsAdvances
<1> QED BY <1>3, <1>6, <1>9, AdvancesTrans

\* doMediaProxySuccess dials.
LEMMA AdvancesMediaProxySuccess ==
  ASSUME NEW c, Fits(c), c.st = "MediaProxySuccess"
  PROVE  Advances(c, doMediaProxySuccess(c))
<1> DEFINE d == setCallState(c, "ReadyToDial")
<1>1. "ReadyToDial" \in Permitted("MediaProxySuccess") /\ "ReadyToDial" \in DialingState
  BY DEF Permitted, DialPermits, AnsweredPermits, HangupState, DialingState
<1>2. Turns(c, d) /\ Fits(d) /\ d.st = "ReadyToDial"
  BY <1>1, TurnsState, Asked, TurnsFits
<1> HIDE DEF d
<1>3. Advances(d, doReadyToDial(d))
  BY <1>1, <1>2, AdvancesReadyToDial
<1> QED BY <1>2, <1>3, TurnAdvances DEF doMediaProxySuccess, d

\* The failures that reject the first caller and stop the call.
LEMMA TurnsRejectAndStop ==
  ASSUME NEW c, Fits(c), NEW r \in ClearingReason
  PROVE  Turns(c, setCallState(CallFirst(setClearingReason(c, r), Uas_reject), "CallStop"))
<1> DEFINE d == setClearingReason(c, r)
           e == CallLeg(d, d.first, Uas_reject)
<1>1. Turns(c, d) /\ Fits(d)
  BY TurnsReason, TurnsFits
<1>2. CallFirst(d, Uas_reject) = e
  BY DEF CallFirst
<1> HIDE DEF d
<1>3. Turns(d, e) /\ Fits(e)
  BY <1>1, TurnsLeg, SessionMethods, TurnsFits
<1> HIDE DEF e
<1>4. Turns(e, setCallState(e, "CallStop"))
  BY <1>3, TurnsState, Asked
<1>5. Turns(c, setCallState(e, "CallStop"))
  BY <1>1, <1>3, <1>4, TurnsTrans
<1> QED BY <1>2, <1>5 DEF d

\* doAuthorizationSuccess dials, or refuses a call without a route.
LEMMA AdvancesAuthorizationSuccess ==
  ASSUME NEW c, Fits(c), c.st = "AuthorizationSuccess", NEW n \in Nat
  PROVE  Advances(c, doAuthorizationSuccess(c, n))
<1> DEFINE d == [c EXCEPT !.routes = n]
           e == setCallState(CallFirst(setClearingReason(d, "InvalidDestination"),
                                       Uas_reject), "CallStop")
           p == setCallState(d, "MediaProxySuccess")
<1>1. /\ d \in Record /\ d.st = c.st
      /\ d.legs = c.legs /\ d.back = c.back /\ d.uas = c.uas
      /\ d.bset = c.bset /\ d.uac = c.uac
  BY DEF Fits, Record
<1>2. doAuthorizationSuccess(c, n) = IF n = 0 THEN e ELSE doMediaProxySuccess(p)
  BY DEF doAuthorizationSuccess
<1> HIDE DEF d
<1>3. Turns(c, d) /\ Fits(d)
  BY <1>1, TurnsData, TurnsFits
<1>4. Turns(d, e)
  BY <1>3, TurnsRejectAndStop DEF ClearingReason
<1> HIDE DEF e
<1>5. "MediaProxySuccess" \in Permitted("AuthorizationSuccess")
  BY DEF Permitted, DialPermits, AnsweredPermits, HangupState, DialingState
<1>6. Turns(d, p) /\ Fits(p) /\ p.st = "MediaProxySuccess"
  BY <1>1, <1>3, <1>5, TurnsState, Asked, TurnsFits
<1> HIDE DEF p
<1>7. Advances(p, doMediaProxySuccess(p))
  BY <1>6, AdvancesMediaProxySuccess
<1>8. Advances(c, e) /\ Advances(c, doMediaProxySuccess(p))
  BY <1>3, <1>4, <1>6, <1>7, TurnsTrans, TurnsAdvances, TurnAdvances
<1> QED BY <1>2, <1>8

\* doAuthorizationPending waits for the routing decision or acts on it.
LEMMA AdvancesAuthorizationPending ==
  ASSUME NEW c, Fits(c), c.st = "AuthorizationPending", NEW auth, NEW n \in Nat
  PROVE  Advances(c, doAuthorizationPending(c, auth, n))
<1> DEFINE d == setCallState(c, "AuthorizationSuccess")
<1>1. "AuthorizationSuccess" \in Permitted("AuthorizationPending")
  BY DEF Permitted, DialPermits, AnsweredPermits, DialingState, HangupState
<1>2. Turns(c, d) /\ Fits(d) /\ d.st = "AuthorizationSuccess"
  BY <1>1, TurnsState, Asked, TurnsFits
<1> HIDE DEF d
<1>3. Advances(c, doAuthorizationSuccess(d, n))
  BY <1>2, AdvancesAuthorizationSuccess, TurnAdvances
<1>4. Advances(c, setCallState(c, "AuthorizationFail")) /\ Advances(c, c)
  BY TurnsState, Asked, TurnsSelf, TurnsAdvances
<1> QED BY <1>3, <1>4 DEF doAuthorizationPending, d

\* doNewCall asks for the routing decision.
LEMMA AdvancesNewCall ==
  ASSUME NEW c, Fits(c), c.st = "NewCall", NEW auth, NEW n \in Nat
  PROVE  Advances(c, doNewCall(c, auth, n))
<1> DEFINE d == TouchFirst(c)
           s == setCallState(d, "CallStop")
           e == setCallState(d, "AuthorizationPending")
<1>1. doNewCall(c, auth, n) = IF auth = "noHandle" THEN s
                              ELSE doAuthorizationPending(e, auth, n)
  BY DEF doNewCall
<1>2. Turns(c, d) /\ Fits(d) /\ d.st = "NewCall"
  BY TurnsTouch, TurnsFits
<1> HIDE DEF d
<1>3. "AuthorizationPending" \in Permitted("NewCall")
  BY DEF Permitted, DialPermits, AnsweredPermits, DialingState, HangupState
<1>4. Turns(d, e) /\ Fits(e) /\ e.st = "AuthorizationPending" /\ Turns(d, s)
  BY <1>2, <1>3, TurnsState, Asked, TurnsFits
<1> HIDE DEF e, s
<1>5. Turns(c, e) /\ Turns(c, s)
  BY <1>2, <1>4, TurnsTrans
<1>6. Advances(c, doAuthorizationPending(e, auth, n)) /\ Advances(c, s)
  BY <1>4, <1>5, AdvancesAuthorizationPending, TurnAdvances, TurnsAdvances
<1> QED BY <1>1, <1>6

\* Every session that a call started is hung up before the call is deleted:
\* the callers are those in its map, the camera is behind its dialog set.
LEMMA AdvancesCallStop ==
  ASSUME NEW c, Fits(c), c.st = "CallStop"
  PROVE  Advances(c, doCallStop(c))
<1> DEFINE u == [l \in Leg |-> IF l \in c.legs /\ c.uas[l] \in DOMAIN Uas_end
                                 THEN Uas_end[c.uas[l]] ELSE c.uas[l]]
           v == IF c.bset THEN Uac_end[c.uac] ELSE c.uac
           b == c.back \ c.legs
           d == [c EXCEPT !.back = b, !.uas = u, !.uac = v]
           e == setCallState(d, "CallStopFinal")
<1>1. /\ DOMAIN Uas_end = (EarlyUas \cup UpUas \cup OverUas) \ {"Gone"}
      /\ \A s \in DOMAIN Uas_end : Uas_end[s] \in OverUas
      /\ \A s \in UacState : Uac_end[s] \in {"None"} \cup OverUac
  <2>1. \A s \in DOMAIN Uas_end : Uas_end[s] \in OverUas
    BY DEF Uas_end, EarlyUas, UpUas, OverUas
  <2>2. \A s \in UacState : Uac_end[s] \in {"None"} \cup OverUac
    BY DEF Uac_end, UacState, PendingUac, UpUac, OverUac
  <2>3. DOMAIN Uas_end = (EarlyUas \cup UpUas \cup OverUas) \ {"Gone"}
    BY DEF Uas_end
  <2> QED BY <2>1, <2>2, <2>3
<1>2. u \in [Leg -> UasState] /\ \A l \in Leg : u[l] \in {"Idle"} \cup OverUas
  <2>1. \A l \in Leg : c.uas[l] \in UasState
    BY DEF Fits, Record
  <2>2. \A l \in Leg : u[l] \in {"Idle"} \cup OverUas
    <3> SUFFICES ASSUME NEW l \in Leg PROVE u[l] \in {"Idle"} \cup OverUas
      OBVIOUS
    <3>1. CASE c.uas[l] \in EarlyUas \cup UpUas
      <4>1. l \in c.legs
        BY <3>1 DEF Fits
      <4>2. c.uas[l] \in DOMAIN Uas_end
        BY <1>1, <3>1 DEF EarlyUas, UpUas
      <4> QED BY <1>1, <4>1, <4>2
    <3>2. CASE c.uas[l] \in {"Idle"} \cup OverUas
      BY <1>1, <3>2
    <3> QED BY <2>1, <3>1, <3>2, UasGroups
  <2> QED BY <2>2, UasGroups
<1>3. v \in {"None"} \cup OverUac /\ v \in UacState
  BY <1>1, UacGroups DEF Fits, Record
<1>4. b = {}
  BY DEF Fits
<1>5. "CallStopFinal" \in Permitted("CallStop") /\ "CallStopFinal" \in FinishingState
  BY DEF Permitted, DialPermits, AnsweredPermits, DialingState, HangupState, FinishingState
<1>6. doCallStop(c) = e
  BY DEF doCallStop
<1>7. /\ d \in Record /\ d.st = "CallStop" /\ d.legs = c.legs /\ d.back = b
      /\ d.uas = u /\ d.uac = v /\ d.bset = c.bset
  <2>1. b \in SUBSET Leg
    BY <1>4
  <2> HIDE DEF u, v, b
  <2> QED BY <1>2, <1>3, <2>1 DEF Fits, Record
<1> HIDE DEF d, u, v, b
<1>8. /\ e \in Record /\ e.st = "CallStopFinal" /\ e.legs = c.legs /\ e.back = {}
      /\ e.uas = u /\ e.uac = v
  BY <1>4, <1>5, <1>7 DEF setCallState, Record, CallState
<1> HIDE DEF e
<1>9. Closed(e)
  BY <1>2, <1>3, <1>8 DEF Closed
<1>10. Fits(e)
  <2>1. e.st \notin PreDialState \cup UpState
    BY <1>5, <1>8, Groups
  <2>2. \A l \in Leg : e.uas[l] \notin EarlyUas \cup UpUas
    BY <1>9, UasGroups DEF Closed
  <2>3. e.uac \notin PendingUac \cup UpUac
    BY <1>9, UacGroups DEF Closed
  <2> QED BY <1>5, <1>8, <1>9, <2>1, <2>2, <2>3 DEF Fits
<1>11. Ahead(c.st, e.st)
  <2>1. "CallStop" \in FinishingState
    BY DEF FinishingState
  <2> QED BY <1>5, <1>8, <2>1, Levels, Groups DEF Ahead
<1>12. Served(e) = {} /\ ~ PickedUp(e)
  BY <1>9, UasGroups, UacGroups DEF Served, PickedUp, Closed
<1> QED BY <1>6, <1>10, <1>11, <1>12 DEF Advances

\* doHangup stops the call.
LEMMA AdvancesHangup ==
  ASSUME NEW c, Fits(c), c.st \in HangupState
  PROVE  Advances(c, doHangup(c))
<1> DEFINE d == setCallState(c, "CallStop")
<1>1. "CallStop" \in Permitted(c.st)
  BY DEF Permitted, DialPermits, AnsweredPermits, DialingState, HangupState
<1>2. Turns(c, d) /\ Fits(d) /\ d.st = "CallStop"
  BY <1>1, TurnsState, Asked, TurnsFits
<1> HIDE DEF d
<1> QED BY <1>2, AdvancesCallStop, TurnAdvances DEF doHangup, d

\* doDialAborted refuses the caller and stops the call.
LEMMA AdvancesDialAborted ==
  ASSUME NEW c, Fits(c), c.st = "DialAborted"
  PROVE  Advances(c, doDialAborted(c))
<1> DEFINE r == IF c.code = "none" THEN "AuthError" ELSE "RejectOther"
           q == setClearingReason(c, r)
           d == CallLeg(q, q.first, Uas_reject)
           e == setCallState(d, "CallStop")
<1>1. "CallStop" \in Permitted("DialAborted")
  BY DEF Permitted, DialPermits, AnsweredPermits, DialingState, HangupState
<1>2. doDialAborted(c) = doCallStop(e)
  BY DEF doDialAborted, CallFirst
<1>3. r \in ClearingReason
  BY DEF ClearingReason
<1> HIDE DEF r
<1>4. Turns(c, q) /\ Fits(q) /\ q.st = c.st
  BY <1>3, TurnsReason, TurnsFits
<1> HIDE DEF q
<1>5. Turns(q, d) /\ Fits(d) /\ d.st = "DialAborted"
  BY <1>4, TurnsLeg, SessionMethods, TurnsFits
<1> HIDE DEF d
<1>6. Turns(d, e) /\ Fits(e) /\ e.st = "CallStop"
  BY <1>1, <1>5, TurnsState, Asked, TurnsFits
<1> HIDE DEF e
<1>7. Turns(c, e)
  BY <1>4, <1>5, <1>6, TurnsTrans
<1>8. Advances(e, doCallStop(e))
  BY <1>6, AdvancesCallStop
<1> QED BY <1>2, <1>7, <1>8, TurnAdvances

\* doSelectAlternateRoute dials the next route or gives up.
LEMMA AdvancesSelectAlternateRoute ==
  ASSUME NEW c, Fits(c), c.st = "SelectAlternateRoute", c.routes # 0
  PROVE  Advances(c, doSelectAlternateRoute(c))
<1> DEFINE n == c.routes - 1
           d == [c EXCEPT !.routes = n]
           a == setCallState(d, "DialAborted")
           e == setCallState(d, "ReadyToDial")
<1>1. n \in Nat
  BY DEF Fits, Record
<1>2. doSelectAlternateRoute(c) =
        IF d.routes = 0 THEN doDialAborted(a) ELSE doReadyToDial(e)
  BY DEF doSelectAlternateRoute
<1>3. /\ d \in Record /\ d.st = c.st
      /\ d.legs = c.legs /\ d.back = c.back /\ d.uas = c.uas
      /\ d.bset = c.bset /\ d.uac = c.uac
  <2> HIDE DEF n
  <2> QED BY <1>1 DEF Fits, Record
<1>4. /\ "DialAborted" \in Permitted("SelectAlternateRoute")
      /\ "ReadyToDial" \in Permitted("SelectAlternateRoute")
      /\ "ReadyToDial" \in DialingState
  BY DEF Permitted, DialPermits, AnsweredPermits, HangupState, DialingState
<1> HIDE DEF d
<1>5. Turns(c, d) /\ Fits(d)
  BY <1>3, TurnsData, TurnsFits
<1>6. /\ Turns(d, a) /\ Fits(a) /\ a.st = "DialAborted"
      /\ Turns(d, e) /\ Fits(e) /\ e.st = "ReadyToDial"
  BY <1>3, <1>4, <1>5, TurnsState, Asked, TurnsFits
<1> HIDE DEF a, e
<1>7. Turns(c, a) /\ Turns(c, e)
  BY <1>5, <1>6, TurnsTrans
<1>8. Advances(c, doDialAborted(a)) /\ Advances(c, doReadyToDial(e))
  BY <1>4, <1>6, <1>7, AdvancesDialAborted, AdvancesReadyToDial, TurnAdvances
<1> QED BY <1>2, <1>8

\* The refused camera is ended and cut loose.
LEMMA AdvancesDrop ==
  ASSUME NEW c, Fits(c), c.st \in DialingState
  PROVE  /\ Advances(c, dropBLeg(c))
         /\ dropBLeg(c).st = c.st /\ dropBLeg(c).routes = c.routes
<1> DEFINE v == IF c.bset THEN Uac_end[c.uac] ELSE c.uac
           d == [c EXCEPT !.uac = v, !.bset = FALSE, !.bleg = FALSE]
<1>1. \A s \in UacState : Uac_end[s] \in {"None"} \cup OverUac
  BY DEF Uac_end, UacState, PendingUac, UpUac, OverUac
<1>2. v \in {"None"} \cup OverUac /\ v \in UacState
  BY <1>1, UacGroups DEF Fits, Record
<1>3. d = dropBLeg(c)
  BY DEF dropBLeg
<1>4. /\ d \in Record /\ d.st = c.st /\ d.routes = c.routes
      /\ d.legs = c.legs /\ d.back = c.back /\ d.uas = c.uas /\ d.uac = v
  <2> HIDE DEF v
  <2> QED BY <1>2 DEF Fits, Record
<1> HIDE DEF d, v
<1>5. /\ c.st \notin PreDialState
      /\ c.st \notin UpState
      /\ c.st \notin Absent \cup {"CallStopFinal"}
  BY Groups, AbsentIsNotLive DEF CallState
<1>6. v \notin PendingUac \cup UpUac /\ v # "Reoffered"
  BY <1>2, UacGroups
<1>7. Fits(d)
  BY <1>4, <1>5, <1>6 DEF Fits
<1>8. Advances(c, d)
  BY <1>4, <1>6, <1>7, FitsState, AheadSelf DEF Advances, Served, PickedUp
<1> QED BY <1>3, <1>4, <1>8

\* doDialRejected tries another route or gives up.
LEMMA AdvancesDialRejected ==
  ASSUME NEW c, Fits(c), c.st = "DialRejected", c.routes # 0
  PROVE  Advances(c, doDialRejected(c))
<1> DEFINE b == dropBLeg(c)
           r == setClearingReason(c, "RejectBusy")
           s1 == setCallState(c, "SelectAlternateRoute")
           s2 == setCallState(b, "SelectAlternateRoute")
           a == setCallState(r, "DialAborted")
<1>1. doDialRejected(c) = CASE c.code = "none" -> doSelectAlternateRoute(s1)
                            [] c.code = "busy" -> doDialAborted(a)
                            [] OTHER -> doSelectAlternateRoute(s2)
  BY DEF doDialRejected
<1>2. /\ "SelectAlternateRoute" \in Permitted("DialRejected")
      /\ "DialAborted" \in Permitted("DialRejected")
      /\ "DialRejected" \in DialingState
  BY DEF Permitted, DialPermits, AnsweredPermits, HangupState, DialingState
<1>3. Advances(c, b) /\ Fits(b) /\ b.st = c.st /\ b.routes = c.routes
  BY <1>2, AdvancesDrop, AdvancesFits
<1>4. Turns(c, r) /\ Fits(r) /\ r.st = c.st
  BY TurnsReason, TurnsFits DEF ClearingReason
<1> HIDE DEF b, r
<1>5. /\ Turns(c, s1) /\ Fits(s1) /\ s1.st = "SelectAlternateRoute"
      /\ Turns(b, s2) /\ Fits(s2) /\ s2.st = "SelectAlternateRoute"
      /\ Turns(r, a) /\ Fits(a) /\ a.st = "DialAborted"
  BY <1>2, <1>3, <1>4, TurnsState, Asked, TurnsFits
<1>6. s1.routes = c.routes /\ s2.routes = c.routes
  BY <1>2, <1>3, Asked, PassState DEF Fits
<1> HIDE DEF s1, s2, a
<1>7. /\ Advances(s1, doSelectAlternateRoute(s1))
      /\ Advances(s2, doSelectAlternateRoute(s2))
      /\ Advances(a, doDialAborted(a))
  BY <1>5, <1>6, AdvancesSelectAlternateRoute, AdvancesDialAborted
<1>8. Advances(c, s2) /\ Turns(c, a)
  BY <1>3, <1>4, <1>5, TurnsAdvances, AdvancesTrans, TurnsTrans
<1>9. /\ Advances(c, doSelectAlternateRoute(s1))
      /\ Advances(c, doSelectAlternateRoute(s2))
      /\ Advances(c, doDialAborted(a))
  BY <1>5, <1>7, <1>8, TurnAdvances, AdvancesTrans
<1> QED BY <1>1, <1>9

\* The callers are all gone: the camera is cancelled.
LEMMA AdvancesCallerCancel ==
  ASSUME NEW c, Fits(c), c.st = "CallerCancel"
  PROVE  Advances(c, doCallerCancel(c))
<1> DEFINE d == setClearingReason(c, "NoAnswerCancel")
           v == Uac_end[d.uac]
           e == [d EXCEPT !.uac = v]
           f == IF d.bset THEN e ELSE d
<1>1. doCallerCancel(c) = setCallState(f, "CallStop")
  BY DEF doCallerCancel
<1>2. Turns(c, d) /\ Fits(d) /\ d.st = "CallerCancel"
  BY TurnsReason, TurnsFits DEF ClearingReason
<1> HIDE DEF d
<1>3. v \in {"None"} \cup OverUac /\ v \in UacState
  <2>1. \A s \in UacState : Uac_end[s] \in {"None"} \cup OverUac
    BY DEF Uac_end, UacState, PendingUac, UpUac, OverUac
  <2> QED BY <1>2, <2>1, UacGroups DEF Fits, Record
<1>4. /\ e \in Record /\ e.st = d.st
      /\ e.legs = d.legs /\ e.back = d.back /\ e.uas = d.uas /\ e.uac = v
  <2> HIDE DEF v
  <2> QED BY <1>2, <1>3 DEF Fits, Record
<1>5. v \notin PendingUac \cup UpUac /\ v # "Reoffered"
  BY <1>3, UacGroups
<1> HIDE DEF e, v
<1>6. "CallerCancel" \in FinishingState /\ "CallerCancel" \notin Absent \cup {"CallStopFinal"}
  BY DEF FinishingState, Absent
<1>7. Fits(e)
  BY <1>2, <1>4, <1>5, <1>6, Groups DEF Fits
<1>8. Advances(d, e)
  BY <1>2, <1>4, <1>5, <1>7, FitsState, AheadSelf DEF Advances, Served, PickedUp
<1>9. Advances(c, f) /\ Fits(f)
  BY <1>2, <1>7, <1>8, TurnAdvances, TurnsAdvances
<1> HIDE DEF f
<1>10. Advances(f, setCallState(f, "CallStop"))
  BY <1>9, TurnsState, Asked, TurnsAdvances
<1> QED BY <1>1, <1>9, <1>10, AdvancesTrans

\* doDialReceivedEarlyAnswer relays early media.
LEMMA TurnsReceivedEarlyAnswer ==
  ASSUME NEW c, Fits(c)
  PROVE  Turns(c, doDialReceivedEarlyAnswer(c))
<1> DEFINE p == setCallState(c, "DialInProgress")
           t == TouchFirst(c)
           r == setClearingReason(t, "AuthError")
           q == setCallState(r, "DialEarlyMediaProxyFail")
           d == CallLeg(c, c.first, Uas_provideAnswer)
           e == setCallState(d, "DialEarlyMediaProxySuccess")
           f == CallLeg(e, e.first, Uas_provisional)
           g == [f EXCEPT !.early = TRUE]
           h == setCallState(g, "DialInProgress")
<1>1. doDialReceivedEarlyAnswer(c) = IF c.early THEN p
                                     ELSE IF answerThrows(c) THEN q ELSE h
  BY DEF doDialReceivedEarlyAnswer, doDialEarlyMediaProxySuccess, CallFirst
<1>2. Turns(c, p)
  BY TurnsState, Asked
<1>3. Turns(c, t) /\ Fits(t)
  BY TurnsTouch, TurnsFits
<1>4. Turns(c, d) /\ Fits(d)
  BY TurnsLeg, SessionMethods, TurnsFits
<1> HIDE DEF p, t, d
<1>5. Turns(t, r) /\ Fits(r)
  BY <1>3, TurnsReason, TurnsFits DEF ClearingReason
<1>6. Turns(d, e) /\ Fits(e)
  BY <1>4, TurnsState, Asked, TurnsFits
<1> HIDE DEF r, e
<1>7. Turns(r, q)
  BY <1>5, TurnsState, Asked
<1>8. Turns(e, f) /\ Fits(f)
  BY <1>6, TurnsLeg, SessionMethods, TurnsFits
<1> HIDE DEF q, f
<1>9. /\ g \in Record /\ g.st = f.st
      /\ g.legs = f.legs /\ g.back = f.back /\ g.uas = f.uas
      /\ g.bset = f.bset /\ g.uac = f.uac
  BY <1>8 DEF Fits, Record
<1> HIDE DEF g
<1>10. Turns(f, g) /\ Fits(g)
  BY <1>8, <1>9, TurnsData, TurnsFits
<1>11. Turns(g, h)
  BY <1>10, TurnsState, Asked
<1> HIDE DEF h
<1>12. Turns(c, q)
  BY <1>3, <1>5, <1>7, TurnsTrans
<1>13. Turns(c, f)
  BY <1>4, <1>6, <1>8, TurnsTrans
<1>14. Turns(c, h)
  BY <1>10, <1>11, <1>13, TurnsTrans
<1> QED BY <1>1, <1>2, <1>12, <1>14

\* The camera has picked up: the first caller is connected, or it is given up.
LEMMA GrowsCallAccepted ==
  ASSUME NEW c, Fits(c), c.st = "CallAccepted"
  PROVE  Turns(c, doCallAccepted(c)) \/ Grows(c, doCallAccepted(c))
<1> DEFINE t == TouchFirst(c)
           r == setClearingReason(t, "AnsweredError")
           q == setCallState(r, "CallAcceptedMediaProxyFail")
           d == IF c.early THEN c ELSE CallLeg(c, c.first, Uas_provideAnswer)
           e == setCallState(d, "CallAcceptedMediaProxySuccess")
           f == CallLeg(e, e.first, Uas_accept)
           g == [f EXCEPT !.connected = TRUE]
           h == setCallState(g, "CallActive")
<1>1. doCallAccepted(c) = IF ~ c.early /\ answerThrows(c) THEN q ELSE h
  BY DEF doCallAccepted, doCallAcceptedMediaProxySuccess, CallFirst
<1>2. Turns(c, t) /\ Fits(t)
  BY TurnsTouch, TurnsFits
<1>3. Turns(c, d) /\ Fits(d) /\ d.st = "CallAccepted"
  BY TurnsLeg, SessionMethods, TurnsSelf, TurnsFits
<1>4. /\ "CallAcceptedMediaProxySuccess" \in Permitted("CallAccepted")
      /\ "CallActive" \in Permitted("CallAcceptedMediaProxySuccess")
      /\ {"CallAccepted", "CallAcceptedMediaProxySuccess", "CallActive"}
           \subseteq ConnectedState
  BY DEF Permitted, DialPermits, AnsweredPermits, HangupState, DialingState, ConnectedState
<1> HIDE DEF t, d
<1>5. Turns(t, r) /\ Fits(r)
  BY <1>2, TurnsReason, TurnsFits DEF ClearingReason
<1> HIDE DEF r
<1>6. Turns(r, q)
  BY <1>5, TurnsState, Asked
<1> HIDE DEF q
<1>7. Turns(c, q)
  BY <1>2, <1>5, <1>6, TurnsTrans
<1>8. Turns(d, e) /\ Fits(e) /\ e.st = "CallAcceptedMediaProxySuccess"
  BY <1>3, <1>4, TurnsState, Asked, TurnsFits
<1> HIDE DEF e
<1>9. Grows(c, e)
  BY <1>3, <1>4, <1>8, TurnsTrans, TurnsGrows, Levels
<1>10. Grows(e, f) /\ Fits(f) /\ f.st = e.st
  BY <1>8, GrowsLeg, SessionMethods DEF Grows
<1> HIDE DEF f
<1>11. Turns(f, g) /\ Fits(g) /\ g.st = f.st
  BY <1>10, TurnsConnect, TurnsFits
<1> HIDE DEF g
<1>12. Turns(g, h) /\ h.st = "CallActive"
  BY <1>4, <1>8, <1>10, <1>11, TurnsState, Asked
<1> HIDE DEF h
<1>13. Grows(f, g) /\ Grows(g, h)
  BY <1>4, <1>8, <1>10, <1>11, <1>12, TurnsGrows, Levels
<1>14. Grows(c, h)
  BY <1>9, <1>10, <1>13, GrowsTrans
<1> QED BY <1>1, <1>7, <1>14

\* doCallActive leaves the call alone until its time is over.
LEMMA TurnsCallActive ==
  ASSUME NEW c, Fits(c), NEW mustHangup
  PROVE  Turns(c, doCallActive(c, mustHangup))
<1> DEFINE d == setClearingReason(c, "AnsweredLimit")
<1>1. Turns(c, d) /\ Fits(d)
  BY TurnsReason, TurnsFits DEF ClearingReason
<1>2. doCallActive(c, mustHangup) = IF mustHangup THEN setCallState(d, "LocalHangup") ELSE c
  BY DEF doCallActive
<1> HIDE DEF d
<1>3. Turns(c, setCallState(d, "LocalHangup"))
  BY <1>1, TurnsState, Asked, TurnsTrans
<1> QED BY <1>2, <1>3, TurnsSelf

\* checkProgress on a live call, one case per resting state.
LEMMA CheckAdvances ==
  ASSUME NEW c, Sound(c), Fits(c), Live(c), NEW auth, NEW n \in Nat, NEW mustHangup
  PROVE  \/ Advances(c, checkProgress(c, auth, n, mustHangup))
         \/ c.st = "CallAccepted" /\ Grows(c, checkProgress(c, auth, n, mustHangup))
<1> DEFINE d == checkProgress(c, auth, n, mustHangup)
           Goal == Advances(c, d) \/ (c.st = "CallAccepted" /\ Grows(c, d))
<1>1. c.st \in RestingState /\ (c.st \in DialingState => c.routes # 0)
  BY DEF Sound
<1>2. ASSUME Turns(c, d) PROVE Goal
  BY <1>2, TurnsAdvances
<1>3. CASE c.st = "NewCall"
  <2>1. d = doNewCall(c, auth, n)
    BY <1>3 DEF checkProgress, HangupState
  <2> QED BY <1>3, <2>1, AdvancesNewCall
<1>4. CASE c.st = "AuthorizationPending"
  <2>1. d = doAuthorizationPending(c, auth, n)
    BY <1>4 DEF checkProgress, HangupState
  <2> QED BY <1>4, <2>1, AdvancesAuthorizationPending
<1>5. CASE c.st = "AuthorizationFail"
  <2>1. d = doAuthorizationFail(c)
    BY <1>5 DEF checkProgress, HangupState
  <2>2. Turns(c, doAuthorizationFail(c))
    BY TurnsRejectAndStop DEF doAuthorizationFail, ClearingReason
  <2> QED BY <1>2, <2>1, <2>2
<1>6. CASE c.st = "DialInProgress"
  <2>1. d = doDialInProgress(c)
    BY <1>6 DEF checkProgress, HangupState
  <2>2. Turns(c, doDialInProgress(c))
    BY TurnsState, Asked, TurnsSelf DEF doDialInProgress
  <2> QED BY <1>2, <2>1, <2>2
<1>7. CASE c.st = "DialRejected"
  <2>1. d = doDialRejected(c)
    BY <1>7 DEF checkProgress, HangupState
  <2>2. c.routes # 0
    BY <1>1, <1>7 DEF DialingState
  <2> QED BY <1>7, <2>1, <2>2, AdvancesDialRejected
<1>8. CASE c.st = "DialReceived180"
  <2>1. d = doDialReceived180(c)
    BY <1>8 DEF checkProgress, HangupState
  <2> QED BY <1>2, <2>1, TurnsReceived180
<1>9. CASE c.st = "DialReceivedEarlyAnswer"
  <2>1. d = doDialReceivedEarlyAnswer(c)
    BY <1>9 DEF checkProgress, HangupState
  <2> QED BY <1>2, <2>1, TurnsReceivedEarlyAnswer
<1>10. CASE c.st = "DialEarlyMediaProxyFail"
  <2>1. d = doDialEarlyMediaProxyFail(c)
    BY <1>10 DEF checkProgress, HangupState
  <2>2. Turns(c, doDialEarlyMediaProxyFail(c))
    BY TurnsRejectAndStop DEF doDialEarlyMediaProxyFail, ClearingReason
  <2> QED BY <1>2, <2>1, <2>2
<1>11. CASE c.st = "CallAccepted"
  <2>1. d = doCallAccepted(c)
    BY <1>11 DEF checkProgress, HangupState
  <2> QED BY <1>2, <1>11, <2>1, GrowsCallAccepted
<1>12. CASE c.st = "CallAcceptedMediaProxyFail"
  <2>1. d = doCallAcceptedMediaProxyFail(c)
    BY <1>12 DEF checkProgress, HangupState
  <2>2. Turns(c, doCallAcceptedMediaProxyFail(c))
    BY TurnsRejectAndStop DEF doCallAcceptedMediaProxyFail, ClearingReason
  <2> QED BY <1>2, <2>1, <2>2
<1>13. CASE c.st = "CallActive"
  <2>1. d = doCallActive(c, mustHangup)
    BY <1>13 DEF checkProgress, HangupState
  <2> QED BY <1>2, <2>1, TurnsCallActive
<1>14. CASE c.st = "CallerCancel"
  <2>1. d = doCallerCancel(c)
    BY <1>14 DEF checkProgress, HangupState
  <2> QED BY <1>14, <2>1, AdvancesCallerCancel
<1>15. CASE c.st = "CallStop"
  <2>1. d = doCallStop(c)
    BY <1>15 DEF checkProgress, HangupState
  <2> QED BY <1>15, <2>1, AdvancesCallStop
<1>16. CASE c.st \in HangupState
  <2>1. d = doHangup(c)
    BY <1>16 DEF checkProgress, HangupState
  <2> QED BY <1>16, <2>1, AdvancesHangup
<1> QED
  BY <1>1, <1>3, <1>4, <1>5, <1>6, <1>7, <1>8, <1>9, <1>10, <1>11, <1>12,
     <1>13, <1>14, <1>15, <1>16
  DEF RestingState

\* A call that is deleted leaves no session behind.
LEMMA AdvancesDeleted ==
  ASSUME NEW c, Fits(c), c.st = "CallStopFinal"
  PROVE  Advances(c, deleted(c))
<1> DEFINE d == deleted(c)
<1>1. NoCall \in Record
  BY DEF NoCall, Record, Absent, UasState, UacState, FailureCode, ClearingReason
<1>2. "Deleted" \in Absent /\ "Deleted" \notin CallState
  BY AbsentIsNotLive DEF Absent
<1>3. /\ d \in Record /\ d.st = "Deleted" /\ d.legs = {} /\ d.back = c.back
      /\ d.uas = c.uas /\ d.uac = c.uac
  <2>1. NoCall.legs = {}
    BY DEF NoCall
  <2> QED BY <1>1, <1>2, <2>1 DEF deleted, Fits, Record
<1> HIDE DEF d
<1>4. Closed(c) /\ Closed(d)
  BY <1>3 DEF Fits, Closed
<1>5. Served(d) = {} /\ ~ PickedUp(d)
  BY <1>4, UasGroups, UacGroups DEF Closed, Served, PickedUp
<1>6. Fits(d)
  <2>1. \A l \in Leg : d.uas[l] \notin EarlyUas \cup UpUas
    BY <1>4, UasGroups DEF Closed
  <2>2. d.uac \notin PendingUac \cup UpUac /\ d.uac # "Reoffered"
    BY <1>4, UacGroups DEF Closed
  <2>3. d.st \notin PreDialState \cup UpState
    BY <1>2, <1>3, Groups DEF CallState
  <2>4. d.back \subseteq d.legs
    BY <1>4 DEF Closed
  <2> QED BY <1>3, <1>4, <2>1, <2>2, <2>3, <2>4 DEF Fits
<1>7. Ahead(c.st, d.st)
  <2>1. d.st \notin ConnectedState
    BY <1>2, <1>3 DEF CallState
  <2> QED BY <1>3, <2>1, Levels, Groups DEF Ahead
<1>8. Advances(c, d)
  BY <1>5, <1>6, <1>7 DEF Advances
<1> QED BY <1>8 DEF d

\* The sweep advances a live call, connects its first caller, or deletes it.
LEMMA SweepAdvances ==
  ASSUME NEW c, Sound(c), Fits(c), Live(c), NEW auth, NEW n \in Nat, NEW mustHangup
  PROVE  \/ Advances(c, sweepCall(c, auth, n, mustHangup))
         \/ c.st = "CallAccepted" /\ Grows(c, sweepCall(c, auth, n, mustHangup))
<1> DEFINE d == checkProgress(c, auth, n, mustHangup)
<1>1. Advances(c, d) \/ (c.st = "CallAccepted" /\ Grows(c, d))
  BY CheckAdvances
<1>2. sweepCall(c, auth, n, mustHangup) = IF d.st = "CallStopFinal" THEN deleted(d) ELSE d
  BY DEF sweepCall
<1> HIDE DEF d
<1>3. ASSUME d.st = "CallStopFinal" PROVE Advances(c, deleted(d))
  <2>1. Advances(c, d)
    <3>1. ASSUME c.st = "CallAccepted", Grows(c, d) PROVE FALSE
      <4>1. getStatus("CallAccepted") = "Connected" /\ getStatus("CallStopFinal") = "Finishing"
        BY Levels, Groups DEF ConnectedState
      <4> QED BY <1>3, <3>1, <4>1 DEF Grows
    <3> QED BY <1>1, <3>1
  <2>2. Advances(d, deleted(d))
    BY <1>3, <2>1, AdvancesFits, AdvancesDeleted
  <2> QED BY <2>1, <2>2, AdvancesTrans
<1> QED BY <1>1, <1>2, <1>3

-----------------------------------------------------------------------------
(* What the sessions themselves change before a handler runs.              *)

\* A caller's session moves on; it is under way only in a call that knows it.
LEMMA SessionMoves ==
  ASSUME NEW c, Fits(c), NEW l \in Leg, NEW s \in UasState,
         s \in EarlyUas \cup UpUas =>
           l \in c.legs /\ c.st \notin Absent \cup {"CallStopFinal"},
         s \in UpUas => c.uas[l] \in UpUas
  PROVE  /\ Advances(c, [c EXCEPT !.uas[l] = s])
         /\ (c.uas[l] \in UpUas => s \in UpUas) => Turns(c, [c EXCEPT !.uas[l] = s])
         /\ [c EXCEPT !.uas[l] = s].st = c.st
         /\ [c EXCEPT !.uas[l] = s].first = c.first
         /\ [c EXCEPT !.uas[l] = s].uas[l] = s
<1> DEFINE d == [c EXCEPT !.uas[l] = s]
<1>1. /\ d \in Record /\ d.st = c.st /\ d.first = c.first
      /\ d.legs = c.legs /\ d.back = c.back /\ d.bset = c.bset /\ d.uac = c.uac
      /\ \A j \in Leg : d.uas[j] = IF j = l THEN s ELSE c.uas[j]
  BY DEF Fits, Record
<1> HIDE DEF d
<1>2. Closed(c) /\ s \notin EarlyUas \cup UpUas => Closed(d)
  BY <1>1, UasGroups DEF Closed
<1>3. Fits(d)
  BY <1>1, <1>2 DEF Fits, PickedUp
<1>4. Served(d) \subseteq Served(c)
  BY <1>1 DEF Served
<1>5. (c.uas[l] \in UpUas => s \in UpUas) => Served(d) = Served(c)
  BY <1>1 DEF Served
<1>6. Ahead(c.st, d.st) /\ (PickedUp(d) <=> PickedUp(c))
  BY <1>1, FitsState, AheadSelf DEF PickedUp
<1>7. Advances(c, d) /\ ((c.uas[l] \in UpUas => s \in UpUas) => Turns(c, d))
  BY <1>3, <1>4, <1>5, <1>6 DEF Advances, Turns
<1> QED BY <1>1, <1>7 DEF d

\* The camera's session moves on without a pick-up or a hang-up.
LEMMA PeerMoves ==
  ASSUME NEW c, Fits(c), NEW d \in Record,
         d.st = c.st, d.legs = c.legs, d.back = c.back, d.uas = c.uas,
         c.uac # "None",
         d.uac \in PendingUac \cup UpUac => d.bset = c.bset,
         d.uac \in PendingUac => c.uac \in PendingUac,
         d.uac \in UpUac <=> c.uac \in UpUac,
         d.uac # "Reoffered"
  PROVE  Turns(c, d)
<1>1. Closed(c) => Closed(d)
  <2>1. c.uac \in {"None"} \cup OverUac => d.uac \in {"None"} \cup OverUac
    BY UacGroups DEF Record
  <2> QED BY <2>1 DEF Closed
<1>2. Fits(d)
  BY <1>1 DEF Fits, PickedUp
<1> QED BY <1>2, FitsState, AheadSelf DEF Turns, Served, PickedUp

\* withDialog and the counter of provisional responses.
LEMMA DialogFields ==
  ASSUME NEW c \in Record, NEW s \in UacState
  PROVE  /\ withDialog(c, s) \in Record
         /\ withDialog(c, s).st = c.st /\ withDialog(c, s).legs = c.legs
         /\ withDialog(c, s).back = c.back /\ withDialog(c, s).uas = c.uas
         /\ withDialog(c, s).bset = c.bset /\ withDialog(c, s).uac = s
BY DEF withDialog, Record

\* What a provisional response does to the fields that Fits speaks of.
LEMMA RingFields ==
  ASSUME NEW c \in Record
  PROVE  /\ [c EXCEPT !.rings = @ + 1] \in Record
         /\ [c EXCEPT !.rings = @ + 1].st = c.st
         /\ [c EXCEPT !.rings = @ + 1].legs = c.legs
         /\ [c EXCEPT !.rings = @ + 1].back = c.back
         /\ [c EXCEPT !.rings = @ + 1].uas = c.uas
         /\ [c EXCEPT !.rings = @ + 1].bset = c.bset
         /\ [c EXCEPT !.rings = @ + 1].uac = c.uac
BY DEF Record

\* The B leg's session of a call: when it is under way or over, and where.
LEMMA PeerStates ==
  ASSUME NEW c, Fits(c)
  PROVE  /\ c.uac \in PendingUac => c.st \in DialingState \cup ConnectedState \cup FinishingState
         /\ c.uac \in PendingUac => c.uac # "None" /\ c.uac \notin UpUac
         /\ c.uac \in UpUac => c.uac # "None" /\ c.uac \notin PendingUac
<1>1. c.uac \in PendingUac => c.uac \notin {"None"} \cup OverUac
  BY UacGroups
<1>2. c.st \in PreDialState \cup DialingState \cup ConnectedState \cup FinishingState \cup Absent
  BY FitsState DEF CallState
<1>3. c.uac \in PendingUac => c.st \notin Absent /\ c.st \notin PreDialState
  BY <1>1 DEF Fits, Closed
<1> QED BY <1>2, <1>3, UacGroups

\* The camera picks up.
LEMMA PickFits ==
  ASSUME NEW c, Fits(c), c.uac \in PendingUac, NEW d \in Record,
         d.st = c.st, d.legs = c.legs, d.back = c.back, d.uas = c.uas, d.bset = c.bset,
         d.uac \in UpUac, d.uac # "Reoffered"
  PROVE  Fits(d) /\ Served(d) = Served(c) /\ PickedUp(d)
<1>1. ~ Closed(c)
  BY UacGroups DEF Closed
<1> QED BY <1>1, PeerStates, Groups DEF Fits, Served, PickedUp

\* The camera hangs up; a call whose camera was up takes notice.
LEMMA AdvancesHangupB ==
  ASSUME NEW c, Fits(c), c.uac \in UpUac
  PROVE  Advances(c, onHangupB([c EXCEPT !.uac = "Dying"]))
<1> DEFINE b == [c EXCEPT !.uac = "Dying"]
           r == setClearingReason(b, "AnsweredBLegHangup")
           d == setCallState(r, "CalleeHangup")
<1>1. "Dying" \in UacState /\ "Dying" \in OverUac
  BY DEF UacState, OverUac
<1>2. /\ b \in Record /\ b.st = c.st /\ b.legs = c.legs /\ b.back = c.back
      /\ b.uas = c.uas /\ b.bset = c.bset /\ b.uac = "Dying"
  BY <1>1 DEF Fits, Record
<1>3. d = onHangupB(b)
  BY DEF onHangupB
<1> HIDE DEF b
<1>4. /\ r \in Record /\ r.st = c.st /\ r.legs = c.legs /\ r.back = c.back
      /\ r.uas = c.uas /\ r.bset = c.bset /\ r.uac = "Dying"
  BY <1>2 DEF setClearingReason, Record, ClearingReason
<1> HIDE DEF r
<1>5. /\ d \in Record
      /\ d.st = IF "CalleeHangup" \in Permitted(c.st) THEN "CalleeHangup" ELSE c.st
      /\ d.legs = c.legs /\ d.back = c.back
      /\ d.uas = c.uas /\ d.bset = c.bset /\ d.uac = "Dying"
  BY <1>4, Asked DEF setCallState, Record
<1> HIDE DEF d
<1>6. c.st \notin PreDialState /\ ~ Closed(c)
  BY PeerStates, UacGroups DEF Fits, Closed
<1>7. c.st \in UpState => "CalleeHangup" \in Permitted(c.st)
  BY DEF UpState, Permitted, DialPermits, AnsweredPermits, DialingState, HangupState
<1>8. "CalleeHangup" \in FinishingState /\ "CalleeHangup" \notin Absent \cup {"CallStopFinal"}
  BY DEF FinishingState, HangupState, Absent
<1>9. d.uac \notin PendingUac \cup UpUac /\ d.uac # "Reoffered"
  BY <1>1, <1>5, UacGroups
<1>10. Fits(d)
  BY <1>5, <1>6, <1>7, <1>8, <1>9, Groups DEF Fits
<1>11. Ahead(c.st, d.st)
  <2>1. CASE "CalleeHangup" \in Permitted(c.st)
    BY <1>5, <2>1, FitsState, PermittedAhead
  <2>2. CASE "CalleeHangup" \notin Permitted(c.st)
    BY <1>5, <2>2, FitsState, AheadSelf
  <2> QED BY <2>1, <2>2
<1>12. Advances(c, d)
  BY <1>5, <1>9, <1>10, <1>11 DEF Advances, Served, PickedUp
<1> QED BY <1>3, <1>12 DEF b

-----------------------------------------------------------------------------
(* The actions.                                                            *)

\* Every call fits its sessions: the second half of the inductive invariant.
AllFit == call \in [Call -> Record] /\ \A k \in Call : Fits(call[k])

\* What a message, the clock or the sweep does to a live call.
Follows(c, d) ==
  /\ Live(c)
  /\ \/ Advances(c, d)
     \/ PickedUp(c) /\ Grows(c, d)
     \/ /\ c.uac \in PendingUac
        /\ Fits(d) /\ PickedUp(d)
        /\ Level(c.st) <= Level(d.st)
        /\ Served(c) \subseteq Served(d)

\* A turn of a live call.
LEMMA FollowsTurn == ASSUME NEW c, NEW d, Live(c), Turns(c, d) PROVE Follows(c, d)
BY TurnsAdvances DEF Follows

\* A live call that rests may take new sessions.
LEMMA LiveTakes ==
  ASSUME NEW c, Sound(c), Live(c)
  PROVE  c.st \notin Absent \cup {"CallStopFinal"}
BY AbsentIsNotLive DEF Sound, Live, LiveState, RestingState, HangupState

\* The session states that the callers' messages lead to.
LEMMA UasNames ==
  /\ {"Dying", "Ended", "Gone"} \subseteq OverUas
  /\ {"Accepted", "WaitOffer", "WaitAnswer", "Connected", "Reoffered", "Reinvited"}
       \subseteq UpUas
  /\ {"Offer", "NoOffer"} \subseteq EarlyUas
BY DEF OverUas, UpUas, EarlyUas

\* The session states that the camera's messages lead to.
LEMMA UacNames ==
  /\ {"Connected", "Answered", "Reinvited", "Reoffered"} \subseteq UpUac
  /\ {"Calling", "Trying", "Early"} \subseteq PendingUac
  /\ {"Ending", "Dying", "Gone"} \subseteq OverUac
BY DEF UpUac, PendingUac, OverUac

\* A caller that joins is registered with the call, not yet connected.
LEMMA TurnsJoin ==
  ASSUME NEW c, Fits(c), Sound(c), Live(c), NEW l \in Leg
  PROVE  /\ Turns(c, addALegAppDialog(c, l))
         /\ addALegAppDialog(c, l).st = c.st
         /\ addALegAppDialog(c, l).uas = c.uas
         /\ l \in addALegAppDialog(c, l).legs
<1> DEFINE x == c.legs \cup {l}
           y == c.back \cup {l}
           d == [c EXCEPT !.legs = x, !.back = y]
<1>1. x \in SUBSET Leg /\ y \in SUBSET Leg /\ y \subseteq x /\ c.legs \subseteq x /\ l \in x
  BY DEF Fits, Record
<1>2. d = addALegAppDialog(c, l)
  BY DEF addALegAppDialog
<1>3. /\ d \in Record /\ d.st = c.st /\ d.legs = x /\ d.back = y
      /\ d.uas = c.uas /\ d.bset = c.bset /\ d.uac = c.uac
  <2> HIDE DEF x, y
  <2> QED BY <1>1 DEF Fits, Record
<1> HIDE DEF d, x, y
<1>4. Fits(d)
  BY <1>1, <1>3, LiveTakes DEF Fits, PickedUp
<1>5. Turns(c, d)
  BY <1>3, <1>4, FitsState, AheadSelf DEF Turns, Served, PickedUp
<1> QED BY <1>1, <1>2, <1>3, <1>5

\* A session that is over lets go of its call.
LEMMA TurnsRelease ==
  ASSUME NEW c, Fits(c), NEW l \in Leg, c.uas[l] \in OverUas
  PROVE  Turns(c, releaseAppDialog(c, l))
<1> DEFINE x == c.legs \ {l}
           y == c.back \ {l}
           d == [c EXCEPT !.legs = x, !.back = y]
<1>1. x \in SUBSET Leg /\ y \in SUBSET Leg /\ y \subseteq x
  BY DEF Fits, Record
<1>2. releaseAppDialog(c, l) = IF l \in c.back THEN d ELSE c
  BY DEF releaseAppDialog
<1>3. /\ d \in Record /\ d.st = c.st /\ d.legs = x /\ d.back = y
      /\ d.uas = c.uas /\ d.bset = c.bset /\ d.uac = c.uac
  <2> HIDE DEF x, y
  <2> QED BY <1>1 DEF Fits, Record
<1> HIDE DEF d
<1>4. \A j \in Leg : d.uas[j] \in EarlyUas \cup UpUas => j \in d.legs
  BY <1>3, UasGroups DEF Fits
<1>5. Closed(c) => Closed(d)
  BY <1>3 DEF Closed
<1> HIDE DEF x, y
<1>6. Fits(d)
  BY <1>1, <1>3, <1>4, <1>5 DEF Fits, PickedUp
<1>7. Turns(c, d)
  BY <1>3, <1>6, FitsState, AheadSelf DEF Turns, Served, PickedUp
<1> QED BY <1>2, <1>7, TurnsSelf

\* A caller joins a relayed call.
LEMMA FollowsJoin ==
  ASSUME AllSound, AllFit, NEW k \in Call, NEW l \in Leg, NEW offer, NEW m,
         JoinSession(k, l, offer, m)
  PROVE  \E d : Follows(call[k], d) /\ Deliver(k, d)
<1> DEFINE c == call[k]
           b == addALegAppDialog(c, l)
           w1 == [b EXCEPT !.uas[l] = "Offer"]
           w2 == [b EXCEPT !.uas[l] = "NoOffer"]
           e == IF offer THEN onOfferJoiner(w1, l, m) ELSE onOfferRequired(w2, l)
<1>1. Sound(c) /\ Fits(c) /\ Live(c) /\ c.uas[l] = "Idle"
  BY DEF AllSound, AllFit, JoinSession
<1>2. Deliver(k, e)
  BY DEF JoinSession
<1> HIDE DEF c
<1>3. /\ Turns(c, b) /\ Fits(b) /\ b.st = c.st /\ b.uas = c.uas /\ l \in b.legs
      /\ b.st \notin Absent \cup {"CallStopFinal"}
  BY <1>1, TurnsJoin, TurnsFits, LiveTakes
<1> HIDE DEF b
<1>4. Turns(b, w1) /\ Turns(b, w2) /\ w1.st = b.st /\ w2.st = b.st
  BY <1>1, <1>3, SessionMoves, UasNames, UasGroups
<1> HIDE DEF w1, w2
<1>5. /\ Turns(c, w1) /\ Fits(w1) /\ w1.st = c.st /\ Grows(c, w1)
      /\ Turns(c, w2) /\ Fits(w2) /\ w2.st = c.st /\ Grows(c, w2)
  BY <1>1, <1>3, <1>4, TurnsTrans, TurnsFits, TurnsGrows
<1>6. c.st = "CallActive" => PickedUp(c)
  BY <1>1 DEF Fits, UpState
<1>7. /\ Turns(w1, onOfferJoiner(w1, l, m))
           \/ (c.st = "CallActive" /\ Grows(w1, onOfferJoiner(w1, l, m)))
      /\ Turns(w2, onOfferRequired(w2, l))
           \/ (c.st = "CallActive" /\ Grows(w2, onOfferRequired(w2, l)))
  BY <1>5, GrowsOfferJoiner, GrowsOfferRequired
<1>8. Turns(c, e) \/ (PickedUp(c) /\ Grows(c, e))
  BY <1>1, <1>5, <1>6, <1>7, TurnsTrans, GrowsTrans
<1> HIDE DEF e
<1>9. Follows(c, e)
  BY <1>1, <1>8, FollowsTurn DEF Follows
<1> QED BY <1>2, <1>9 DEF c

\* Any message of a caller, and the end of its session.
LEMMA FollowsCaller ==
  ASSUME AllSound, AllFit, NEW k \in Call, NEW l \in Leg,
         \/ CallerCancels(k, l)
         \/ CallerHangsUp(k, l)
         \/ \E m \in SdpKinds : \/ CallerAcks(k, l, m)
                                \/ CallerReinvites(k, l, m)
                                \/ CallerAnswersReinvite(k, l, m)
         \/ AckTimeout(k, l)
         \/ CallerByeAnswered(k, l)
         \/ DestroyCaller(k, l)
  PROVE  \E d : Follows(call[k], d) /\ Deliver(k, d)
<1> DEFINE c == call[k]
           w(s) == [c EXCEPT !.uas[l] = s]
<1>1. Sound(c) /\ Fits(c) /\ Live(c)
  BY DEF AllSound, AllFit, CallerCancels, CallerHangsUp, CallerAcks, CallerReinvites,
         CallerAnswersReinvite, AckTimeout, CallerByeAnswered, DestroyCaller
<1>2. \A s \in OverUas : Advances(c, w(s)) /\ Fits(w(s)) /\ w(s).uas[l] = s
  <2> SUFFICES ASSUME NEW s \in OverUas
               PROVE  Advances(c, w(s)) /\ Fits(w(s)) /\ w(s).uas[l] = s
    OBVIOUS
  <2>1. s \in UasState /\ s \notin EarlyUas \cup UpUas
    BY UasGroups
  <2> QED BY <1>1, <2>1, SessionMoves, AdvancesFits
<1>3. \A s \in UpUas : c.uas[l] \in UpUas =>
        Turns(c, w(s)) /\ Fits(w(s)) /\ w(s).st = c.st /\ w(s).first = c.first
  <2> SUFFICES ASSUME NEW s \in UpUas, c.uas[l] \in UpUas
               PROVE  Turns(c, w(s)) /\ Fits(w(s)) /\ w(s).st = c.st /\ w(s).first = c.first
    OBVIOUS
  <2>1. l \in c.legs /\ c.st \notin Absent \cup {"CallStopFinal"} /\ s \in UasState
    BY <1>1, LiveTakes, UasGroups DEF Fits
  <2>2. Turns(c, w(s)) /\ w(s).st = c.st /\ w(s).first = c.first
    BY <1>1, <2>1, SessionMoves
  <2> QED BY <2>2, TurnsFits
<1>4. ASSUME NEW d, Advances(c, d) \/ Turns(c, d) PROVE Follows(c, d)
  BY <1>1, <1>4, FollowsTurn DEF Follows
<1>5. ASSUME NEW s \in OverUas, NEW d, Turns(w(s), d) PROVE Follows(c, d)
  <2> HIDE DEF w
  <2> QED BY <1>1, <1>2, <1>4, <1>5, TurnsAdvances, AdvancesTrans
<1>6. ASSUME NEW s \in UpUas, c.uas[l] \in UpUas, NEW d, Turns(w(s), d) PROVE Follows(c, d)
  <2> HIDE DEF w
  <2> QED BY <1>1, <1>3, <1>4, <1>6, TurnsTrans
<1>7. CASE CallerCancels(k, l)
  <2>1. Deliver(k, onCancel(w("Dying"), l))
    BY <1>7 DEF CallerCancels
  <2> HIDE DEF w, c
  <2>2. Turns(w("Dying"), onCancel(w("Dying"), l))
    BY <1>2, UasNames, TurnsCancel
  <2>3. Follows(c, onCancel(w("Dying"), l))
    BY <1>5, <2>2, UasNames
  <2> QED BY <2>1, <2>3 DEF c
<1>8. CASE CallerHangsUp(k, l)
  <2> DEFINE d == IF c.uas[l] = "WaitAnswer" THEN w("Dying") ELSE onHangupA(w("Dying"), l)
  <2>1. Deliver(k, d)
    BY <1>8 DEF CallerHangsUp
  <2> HIDE DEF w, c
  <2>2. Turns(w("Dying"), d)
    BY <1>2, UasNames, TurnsHangupA, TurnsSelf
  <2> HIDE DEF d
  <2>3. Follows(c, d)
    BY <1>5, <2>2, UasNames
  <2> QED BY <2>1, <2>3 DEF c
<1>9. ASSUME NEW m \in SdpKinds, CallerAcks(k, l, m)
      PROVE  \E d : Follows(call[k], d) /\ Deliver(k, d)
  <2>1. /\ c.uas[l] \in {"Accepted", "WaitOffer", "WaitAnswer"}
        /\ \/ Deliver(k, w("Connected"))
           \/ Deliver(k, w("Reoffered"))
           \/ Deliver(k, onAnswerA(w("Connected"), l, m))
    BY <1>9 DEF CallerAcks
  <2> HIDE DEF w, c
  <2>2. /\ Turns(w("Connected"), w("Connected"))
        /\ Turns(w("Reoffered"), w("Reoffered"))
        /\ Turns(w("Connected"), onAnswerA(w("Connected"), l, m))
    BY <1>3, <2>1, UasNames, TurnsSelf, TurnsAnswerA
  <2>3. /\ Follows(c, w("Connected"))
        /\ Follows(c, w("Reoffered"))
        /\ Follows(c, onAnswerA(w("Connected"), l, m))
    BY <1>6, <2>1, <2>2, UasNames
  <2> QED BY <2>1, <2>3 DEF c
<1>10. ASSUME NEW m \in SdpKinds, CallerReinvites(k, l, m)
       PROVE  \E d : Follows(call[k], d) /\ Deliver(k, d)
  <2> DEFINE e == w("Reinvited")
             d == IF l = e.first THEN onOfferFirst(e, m) ELSE onOfferJoiner(e, l, m)
  <2>1. Deliver(k, d) /\ c.uas[l] = "Connected"
    BY <1>10 DEF CallerReinvites
  <2>2. Turns(c, e) /\ Fits(e) /\ e.st = c.st
    BY <1>3, <2>1, UasNames
  <2> HIDE DEF e, c
  <2>3. Turns(e, d) \/ (e.st = "CallActive" /\ Grows(e, d))
    BY <2>2, TurnsOfferFirst, GrowsOfferJoiner
  <2>4. c.st = "CallActive" => PickedUp(c)
    BY <1>1 DEF Fits, UpState
  <2>5. Grows(c, e)
    BY <2>2, TurnsGrows
  <2> HIDE DEF d
  <2>6. Turns(c, d) \/ (PickedUp(c) /\ Grows(c, d))
    BY <1>1, <2>2, <2>3, <2>4, <2>5, TurnsTrans, GrowsTrans
  <2>7. Follows(c, d)
    BY <1>1, <2>6, FollowsTurn DEF Follows
  <2> QED BY <2>1, <2>7 DEF c
<1>11. ASSUME NEW m \in SdpKinds, CallerAnswersReinvite(k, l, m)
       PROVE  \E d : Follows(call[k], d) /\ Deliver(k, d)
  <2>1. c.uas[l] = "Reoffered" /\ Deliver(k, onAnswerA(w("Connected"), l, m))
    BY <1>11 DEF CallerAnswersReinvite
  <2> HIDE DEF w, c
  <2>2. Turns(w("Connected"), onAnswerA(w("Connected"), l, m))
    BY <1>3, <2>1, UasNames, TurnsAnswerA
  <2>3. Follows(c, onAnswerA(w("Connected"), l, m))
    BY <1>6, <2>1, <2>2, UasNames
  <2> QED BY <2>1, <2>3 DEF c
<1>12. CASE AckTimeout(k, l) \/ CallerByeAnswered(k, l)
  <2>1. Deliver(k, w("Ended")) \/ Deliver(k, w("Dying"))
    BY <1>12 DEF AckTimeout, CallerByeAnswered
  <2> HIDE DEF w, c
  <2>2. Follows(c, w("Ended")) /\ Follows(c, w("Dying"))
    BY <1>2, <1>4, UasNames
  <2> QED BY <2>1, <2>2 DEF c
<1>13. CASE DestroyCaller(k, l)
  <2>1. Deliver(k, releaseAppDialog(w("Gone"), l))
    BY <1>13 DEF DestroyCaller
  <2> HIDE DEF w, c
  <2>2. Turns(w("Gone"), releaseAppDialog(w("Gone"), l))
    BY <1>2, UasNames, TurnsRelease
  <2>3. Follows(c, releaseAppDialog(w("Gone"), l))
    BY <1>5, <2>2, UasNames
  <2> QED BY <2>1, <2>3 DEF c
<1> QED BY <1>7, <1>8, <1>9, <1>10, <1>11, <1>12, <1>13

\* Any message of the camera, and the end of its session.
LEMMA FollowsCamera ==
  ASSUME AllSound, AllFit, NEW k \in Call,
         \/ CameraTrying(k)
         \/ CameraRings(k)
         \/ \E ringing \in BOOLEAN, m \in SdpKinds : CameraEarlyMedia(k, ringing, m)
         \/ \E m \in SdpKinds : \/ CameraAnswers(k, m)
                                \/ CameraReinvites(k, m)
                                \/ CameraAnswersReinvite(k, m)
         \/ \E code \in RejectCodes : CameraRejects(k, code)
         \/ CameraHangsUp(k)
         \/ CameraEnded(k)
         \/ DestroyCamera(k)
  PROVE  \E d : Follows(call[k], d) /\ Deliver(k, d)
<1> DEFINE c == call[k]
           u(s) == [c EXCEPT !.uac = s]
           v(s) == withDialog(c, s)
           early == [v("Early") EXCEPT !.rings = @ + 1]
<1>1. Sound(c) /\ Fits(c) /\ Live(c) /\ c \in Record
  BY DEF AllSound, AllFit, Fits, CameraTrying, CameraRings, CameraEarlyMedia, CameraAnswers,
         CameraReinvites, CameraAnswersReinvite, CameraRejects, CameraHangsUp,
         CameraEnded, DestroyCamera
<1>2. \A s \in UacState :
        /\ u(s) \in Record /\ u(s).st = c.st /\ u(s).legs = c.legs /\ u(s).back = c.back
        /\ u(s).uas = c.uas /\ u(s).bset = c.bset /\ u(s).uac = s
  BY <1>1 DEF Record
<1>3. \A s \in UacState :
        /\ v(s) \in Record /\ v(s).st = c.st /\ v(s).legs = c.legs /\ v(s).back = c.back
        /\ v(s).uas = c.uas /\ v(s).bset = c.bset /\ v(s).uac = s
  BY <1>1, DialogFields
<1>4. ASSUME NEW d, NEW e, Turns(c, d), Turns(d, e) PROVE Follows(c, e)
  BY <1>1, <1>4, TurnsTrans, FollowsTurn
<1>5. ASSUME c.uac \in PendingUac
      PROVE  Turns(c, early) /\ Fits(early)
  <2> HIDE DEF v
  <2>1. "Early" \in UacState /\ "Early" \in PendingUac
    BY UacNames, UacGroups
  <2>2. /\ early \in Record /\ early.st = c.st /\ early.legs = c.legs
        /\ early.back = c.back /\ early.uas = c.uas
        /\ early.bset = c.bset /\ early.uac = "Early"
    BY <1>3, <2>1, RingFields
  <2> HIDE DEF early
  <2>3. Turns(c, early)
    BY <1>1, <1>5, <2>1, <2>2, PeerMoves, PeerStates, UacGroups, UacNames
  <2> QED BY <2>3, TurnsFits
<1>6. CASE CameraTrying(k)
  <2> DEFINE n == c.rings + 1
             d == [c EXCEPT !.uac = "Trying", !.rings = n]
  <2>1. Deliver(k, doDialReceived180(d)) /\ c.uac \in PendingUac
    BY <1>6, UacNames DEF CameraTrying
  <2>2. "Trying" \in UacState /\ "Trying" \in PendingUac /\ n \in Nat
    BY <1>1, UacNames, UacGroups DEF Record
  <2>3. /\ d \in Record /\ d.st = c.st /\ d.legs = c.legs /\ d.back = c.back
        /\ d.uas = c.uas /\ d.bset = c.bset /\ d.uac = "Trying"
    <3> HIDE DEF n
    <3> QED BY <1>1, <2>2 DEF Record
  <2> HIDE DEF d, c
  <2>4. Turns(c, d)
    BY <1>1, <2>1, <2>2, <2>3, PeerMoves, PeerStates, UacGroups, UacNames
  <2>5. Follows(c, doDialReceived180(d))
    BY <1>4, <2>4, TurnsFits, TurnsReceived180
  <2> QED BY <2>1, <2>5 DEF c
<1>7. CASE CameraRings(k)
  <2>1. Deliver(k, onRinging(early)) /\ c.uac \in PendingUac
    BY <1>7 DEF CameraRings
  <2> HIDE DEF early, c
  <2>2. Follows(c, onRinging(early))
    BY <1>4, <1>5, <2>1, TurnsRinging
  <2> QED BY <2>1, <2>2 DEF c
<1>8. ASSUME NEW ringing \in BOOLEAN, NEW m \in SdpKinds, CameraEarlyMedia(k, ringing, m)
      PROVE  \E d : Follows(call[k], d) /\ Deliver(k, d)
  <2> DEFINE e == IF ringing THEN onRinging(early) ELSE early
  <2>1. Deliver(k, onEarlyMedia(e, m)) /\ c.uac \in PendingUac
    BY <1>8 DEF CameraEarlyMedia
  <2> HIDE DEF early, c
  <2>2. Turns(early, e) /\ Fits(early)
    BY <1>5, <2>1, TurnsRinging, TurnsSelf
  <2> HIDE DEF e
  <2>3. Turns(e, onEarlyMedia(e, m))
    BY <2>2, TurnsFits, TurnsEarlyMedia
  <2>4. Follows(c, onEarlyMedia(e, m))
    BY <1>4, <1>5, <2>1, <2>2, <2>3, TurnsTrans
  <2> QED BY <2>1, <2>4 DEF c
<1>9. ASSUME NEW m \in SdpKinds, CameraAnswers(k, m)
      PROVE  \E d : Follows(call[k], d) /\ Deliver(k, d)
  <2> DEFINE x == v("Connected")
             y == v("Answered")
  <2>1. /\ c.uac \in PendingUac
        /\ Deliver(k, onAnswerB(x, m)) \/ Deliver(k, onOfferB(y, m))
    BY <1>9 DEF CameraAnswers
  <2>2. /\ Fits(x) /\ Served(x) = Served(c) /\ PickedUp(x) /\ x.st = c.st
        /\ Fits(y) /\ Served(y) = Served(c) /\ PickedUp(y) /\ y.st = c.st
    <3>1. /\ {"Connected", "Answered"} \subseteq UacState
          /\ {"Connected", "Answered"} \subseteq UpUac
      BY UacNames, UacGroups
    <3> HIDE DEF v, c
    <3> QED BY <1>1, <1>3, <2>1, <3>1, PickFits
  <2> HIDE DEF x, y, c
  <2>3. Rises(x, onAnswerB(x, m))
    BY <2>2, RisesAnswerB
  <2>4. Rises(y, onOfferB(y, m))
    BY <2>2, GrowsOfferB, TurnsRises, GrowsRises
  <2>5. Follows(c, onAnswerB(x, m)) /\ Follows(c, onOfferB(y, m))
    BY <1>1, <2>1, <2>2, <2>3, <2>4 DEF Follows, Rises
  <2> QED BY <2>1, <2>5 DEF c
<1>10. ASSUME NEW m \in SdpKinds, CameraReinvites(k, m)
       PROVE  \E d : Follows(call[k], d) /\ Deliver(k, d)
  <2> DEFINE x == u("Reinvited")
  <2>1. c.uac = "Connected" /\ Deliver(k, onOfferB(x, m))
    BY <1>10 DEF CameraReinvites
  <2>2. Turns(c, x) /\ Fits(x) /\ x.st = c.st
    <3>1. /\ "Reinvited" \in UacState /\ "Reinvited" \in UpUac /\ c.uac \in UpUac
          /\ "Reinvited" \notin PendingUac /\ c.uac # "None"
      BY <2>1, UacNames, UacGroups
    <3>2. /\ x \in Record /\ x.st = c.st /\ x.legs = c.legs /\ x.back = c.back
          /\ x.uas = c.uas /\ x.bset = c.bset /\ x.uac = "Reinvited"
      BY <1>2, <3>1
    <3> HIDE DEF x, c
    <3>3. Turns(c, x)
      BY <1>1, <3>1, <3>2, PeerMoves
    <3> QED BY <3>2, <3>3, TurnsFits
  <2> HIDE DEF x, c
  <2>3. Turns(x, onOfferB(x, m)) \/ Grows(x, onOfferB(x, m))
    BY <2>2, GrowsOfferB
  <2>4. Turns(c, onOfferB(x, m)) \/ Grows(c, onOfferB(x, m))
    BY <1>1, <2>2, <2>3, TurnsTrans, TurnsGrows, GrowsTrans
  <2>5. PickedUp(c)
    BY <2>1, UacNames DEF PickedUp
  <2>6. Follows(c, onOfferB(x, m))
    BY <1>1, <2>4, <2>5, FollowsTurn DEF Follows
  <2> QED BY <2>1, <2>6 DEF c
<1>11. ASSUME NEW m \in SdpKinds, CameraAnswersReinvite(k, m)
       PROVE  \E d : Follows(call[k], d) /\ Deliver(k, d)
  <2> DEFINE x == u("Connected")
  <2>1. c.uac = "Reoffered" /\ Deliver(k, onAnswerB(x, m))
    BY <1>11 DEF CameraAnswersReinvite
  <2>2. Turns(c, x) /\ Fits(x) /\ x.st = c.st /\ PickedUp(x)
    <3>1. /\ "Connected" \in UacState /\ "Connected" \in UpUac /\ c.uac \in UpUac
          /\ "Connected" \notin PendingUac /\ c.uac # "None"
      BY <2>1, UacNames, UacGroups
    <3>2. /\ x \in Record /\ x.st = c.st /\ x.legs = c.legs /\ x.back = c.back
          /\ x.uas = c.uas /\ x.bset = c.bset /\ x.uac = "Connected"
      BY <1>2, <3>1
    <3> HIDE DEF x, c
    <3>3. Turns(c, x)
      <4>1. x.uac # "Reoffered" /\ x.uac \notin PendingUac /\ x.uac \in UpUac
        BY <3>1, <3>2
      <4> QED BY <1>1, <3>1, <3>2, <4>1, PeerMoves
    <3> QED BY <3>1, <3>2, <3>3, TurnsFits DEF PickedUp
  <2> HIDE DEF x, c
  <2>3. c.st \in ConnectedState \cup FinishingState
    BY <1>1, <2>1 DEF Fits
  <2>4. Turns(x, onAnswerB(x, m))
    BY <2>2, <2>3, RisesAnswerB
  <2>5. Follows(c, onAnswerB(x, m))
    BY <1>4, <2>2, <2>4
  <2> QED BY <2>1, <2>5 DEF c
<1>12. ASSUME NEW code \in RejectCodes, CameraRejects(k, code)
       PROVE  \E d : Follows(call[k], d) /\ Deliver(k, d)
  <2> DEFINE x == v("Dying")
  <2>1. c.uac \in PendingUac /\ Deliver(k, onRejected(x, code))
    BY <1>12 DEF CameraRejects
  <2>2. Turns(c, x) /\ Fits(x)
    <3>1. "Dying" \in UacState /\ "Dying" \notin PendingUac \cup UpUac
      BY UacNames, UacGroups
    <3>2. Turns(c, x)
      BY <1>1, <1>3, <2>1, <3>1, PeerMoves, PeerStates
    <3> QED BY <3>2, TurnsFits
  <2>3. code \in FailureCode
    BY ConstantsAssumption
  <2> HIDE DEF x, c
  <2>4. Follows(c, onRejected(x, code))
    BY <1>4, <2>2, <2>3, TurnsRejected
  <2> QED BY <2>1, <2>4 DEF c
<1>13. CASE CameraHangsUp(k)
  <2>1. c.uac \in UpUac /\ Deliver(k, onHangupB(u("Dying")))
    BY <1>13 DEF CameraHangsUp
  <2>2. Advances(c, onHangupB(u("Dying")))
    BY <1>1, <2>1, AdvancesHangupB
  <2> HIDE DEF u, c
  <2>3. Follows(c, onHangupB(u("Dying")))
    BY <1>1, <2>2 DEF Follows
  <2> QED BY <2>1, <2>3 DEF c
<1>14. CASE CameraEnded(k)
  <2>1. c.uac = "Ending" /\ Deliver(k, u("Dying"))
    BY <1>14 DEF CameraEnded
  <2>2. "Dying" \in UacState /\ {"Dying", "Ending"} \cap (PendingUac \cup UpUac) = {}
    BY UacNames, UacGroups
  <2>3. Turns(c, u("Dying"))
    BY ZenonT(60), <1>1, <1>2, <2>1, <2>2, UacGroups, UacNames, PeerMoves
  <2> HIDE DEF u, c
  <2>4. Follows(c, u("Dying"))
    BY <1>1, <2>3, FollowsTurn
  <2> QED BY <2>1, <2>4 DEF c
<1>15. CASE DestroyCamera(k)
  <2> DEFINE b == u("Gone")
             d == [b EXCEPT !.bset = FALSE, !.bleg = FALSE]
  <2>1. c.uac = "Dying" /\ Deliver(k, d)
    BY <1>15 DEF DestroyCamera, releaseAppDialogSet
  <2>2. "Gone" \in UacState /\ {"Dying", "Gone"} \cap (PendingUac \cup UpUac) = {}
    BY UacNames, UacGroups
  <2>3. /\ b \in Record /\ b.st = c.st /\ b.legs = c.legs /\ b.back = c.back
        /\ b.uas = c.uas /\ b.uac = "Gone"
    BY <1>2, <2>2
  <2> HIDE DEF b
  <2>4. /\ d \in Record /\ d.st = c.st /\ d.legs = c.legs /\ d.back = c.back
        /\ d.uas = c.uas /\ d.uac = "Gone"
    BY <2>3 DEF Record
  <2> HIDE DEF d, c
  <2>5. Turns(c, d)
    BY <1>1, <2>1, <2>2, <2>4, PeerMoves, UacGroups, UacNames
  <2>6. Follows(c, d)
    BY <1>1, <2>5, FollowsTurn
  <2> QED BY <2>1, <2>6 DEF c
<1> QED BY <1>6, <1>7, <1>8, <1>9, <1>10, <1>11, <1>12, <1>13, <1>14, <1>15

\* The 15 s limit changes nothing that a session or CallLifecycle sees.
LEMMA FollowsTime ==
  ASSUME AllSound, AllFit, NEW k \in Call, TimePasses(k)
  PROVE  \E d : Follows(call[k], d) /\ call' = [call EXCEPT ![k] = d]
<1> DEFINE c == call[k]
           d == [c EXCEPT !.late = TRUE]
<1>1. Fits(c) /\ c.st \in DialingState /\ call' = [call EXCEPT ![k] = d]
  BY DEF AllFit, TimePasses
<1>2. /\ d \in Record /\ d.st = c.st
      /\ d.legs = c.legs /\ d.back = c.back /\ d.uas = c.uas
      /\ d.bset = c.bset /\ d.uac = c.uac
  BY <1>1 DEF Fits, Record
<1> HIDE DEF d, c
<1>3. Turns(c, d) /\ Live(c)
  BY <1>1, <1>2, TurnsData DEF Live, LiveState, CallState
<1>4. Follows(c, d)
  BY <1>3, FollowsTurn
<1> QED BY <1>1, <1>4 DEF c

\* The sweep advances a call, connects its first caller, or finds it gone.
LEMMA FollowsCheck ==
  ASSUME AllSound, AllFit, NEW k \in Call, Check(k)
  PROVE  call' = call \/ \E d : Follows(call[k], d) /\ call' = [call EXCEPT ![k] = d]
<1> DEFINE c == call[k]
<1>1. PICK auth \in AuthResults, n \in RouteCounts, h \in HangupAnswers :
        CheckCall(k, auth, n, h)
  BY DEF Check
<1> DEFINE d == sweepCall(c, auth, n, h)
<1>2. call' = [call EXCEPT ![k] = d]
  BY <1>1 DEF CheckCall
<1>3. n \in Nat
  BY ConstantsAssumption
<1>4. Sound(c) /\ Fits(c) /\ call \in [Call -> Record]
  BY DEF AllSound, AllFit
<1>5. CASE Live(c)
  <2>1. Advances(c, d) \/ (c.st = "CallAccepted" /\ Grows(c, d))
    BY <1>3, <1>4, <1>5, SweepAdvances
  <2>2. c.st = "CallAccepted" => PickedUp(c)
    BY <1>4 DEF Fits, UpState
  <2> HIDE DEF d
  <2>3. Follows(c, d)
    BY <1>5, <2>1, <2>2 DEF Follows
  <2> QED BY <1>2, <2>3
<1>6. CASE ~ Live(c)
  <2>1. d = c
    BY <1>4, <1>6, CheckAbsent
  <2> HIDE DEF d
  <2> QED BY <1>2, <1>4, <2>1
<1> QED BY <1>5, <1>6

\* The first caller of a call.
Opens(d) ==
  /\ Fits(d)
  /\ d.st \in {"NewCall", "CallStop"}
  /\ Served(d) = {}
  /\ ~ PickedUp(d)

\* onNewSession opens a call that serves nobody yet.
LEMMA OpensNewSession ==
  ASSUME AllFit, NEW k \in Call, NEW l \in Leg, NEW offer, NEW m,
         NewSession(k, l, offer, m)
  PROVE  \E d : Opens(d) /\ Deliver(k, d)
<1> DEFINE b == B2BCallNew(l)
           w1 == [b EXCEPT !.uas[l] = "Offer"]
           w2 == [b EXCEPT !.uas[l] = "NoOffer"]
           e == IF offer THEN onOfferFirst(w1, m) ELSE w2
<1>1. Deliver(k, e)
  BY DEF NewSession
<1>2. /\ b \in Record /\ b.st = "NewCall" /\ b.first = l /\ b.legs = {l} /\ b.back = {l}
      /\ b.uac = "None" /\ \A j \in Leg : b.uas[j] = "Idle"
  <2>1. b \in Record /\ b.first = l
    BY NewSound DEF Sound
  <2>2. NoCall \in Record
    BY DEF NoCall, Record, Absent, UasState, UacState, FailureCode, ClearingReason
  <2>3. NoCall.uac = "None" /\ \A j \in Leg : NoCall.uas[j] = "Idle"
    BY DEF NoCall
  <2> QED BY <2>1, <2>2, <2>3 DEF B2BCallNew, Record
<1> HIDE DEF b
<1>3. "NewCall" \in PreDialState /\ "NewCall" \notin Absent \cup {"CallStopFinal"}
  BY DEF PreDialState, Absent
<1>4. b.uac \notin PendingUac \cup UpUac /\ b.uac # "Reoffered"
  BY <1>2, UacGroups
<1>5. \A j \in Leg : b.uas[j] \notin EarlyUas \cup UpUas
  BY <1>2, UasGroups
<1>6. Fits(b)
  BY <1>2, <1>3, <1>4, <1>5, Groups DEF Fits
<1>7. Served(b) = {} /\ ~ PickedUp(b)
  BY <1>4, <1>5 DEF Served, PickedUp
<1>8. /\ Turns(b, w1) /\ Fits(w1) /\ w1.st = "NewCall" /\ w1.first = l
      /\ Turns(b, w2) /\ Fits(w2) /\ w2.st = "NewCall"
  <2>1. /\ {"Offer", "NoOffer"} \subseteq UasState
        /\ {"Offer", "NoOffer"} \cap UpUas = {}
        /\ b.uas[l] \notin UpUas /\ l \in b.legs
    BY <1>2, <1>5, UasNames, UasGroups
  <2> QED BY <1>2, <1>3, <1>6, <2>1, SessionMoves, TurnsFits
<1> HIDE DEF w1, w2
<1>9. Turns(w1, onOfferFirst(w1, m)) /\ onOfferFirst(w1, m).st \in {"NewCall", "CallStop"}
  BY <1>8, TurnsOfferFirst
<1>10. Turns(b, e) /\ e.st \in {"NewCall", "CallStop"}
  BY <1>6, <1>8, <1>9, TurnsTrans
<1> HIDE DEF e
<1>11. Opens(e)
  BY <1>7, <1>10 DEF Opens, Turns
<1> QED BY <1>1, <1>11

-----------------------------------------------------------------------------
(* The steps of the system, and the steps of CallLifecycle.                *)

\* The status that CallLifecycle sees, and its rank.
LEMMA StatusRank ==
  ASSUME NEW s \in CallState \cup Absent
  PROVE  /\ getStatus(s) \in Lifecycle!Statuses
         /\ Level(s) \in 0 .. 5
         /\ s \in CallState => Level(s) \in 1 .. 4
         /\ getStatus(s) = "Connected" <=> s \in ConnectedState
         /\ getStatus(s) = "Deleted" <=> s = "Deleted"
         /\ getStatus(s) = "None" <=> s = "None"
BY Levels, LevelType, Groups, AbsentIsNotLive DEF CallState, Absent, Lifecycle!Statuses

\* The step of one call, as CallLifecycle sees it.
LEMMA OneCallMapped ==
  ASSUME AllFit, NEW k \in Call, NEW d \in Record, call' = [call EXCEPT ![k] = d]
  PROVE  /\ [j \in Call |-> getStatus(call'[j].st)] =
              [[j \in Call |-> getStatus(call[j].st)] EXCEPT ![k] = getStatus(d.st)]
         /\ [j \in Call |-> {l \in Leg : call'[j].uas[l] \in UpUas}] =
              [[j \in Call |-> {l \in Leg : call[j].uas[l] \in UpUas}] EXCEPT ![k] = Served(d)]
         /\ [j \in Call |-> call'[j].uac \in UpUac] =
              [[j \in Call |-> call[j].uac \in UpUac] EXCEPT ![k] = PickedUp(d)]
<1>1. \A j \in Call : call'[j] = IF j = k THEN d ELSE call[j]
  BY DEF AllFit
<1>2. [j \in Call |-> getStatus(call'[j].st)] =
        [[j \in Call |-> getStatus(call[j].st)] EXCEPT ![k] = getStatus(d.st)]
  <2>1. \A j \in Call : getStatus(call'[j].st) =
                         IF j = k THEN getStatus(d.st) ELSE getStatus(call[j].st)
    BY <1>1
  <2> QED BY <2>1
<1>3. [j \in Call |-> {l \in Leg : call'[j].uas[l] \in UpUas}] =
        [[j \in Call |-> {l \in Leg : call[j].uas[l] \in UpUas}] EXCEPT ![k] = Served(d)]
  BY <1>1 DEF Served
<1>4. [j \in Call |-> call'[j].uac \in UpUac] =
        [[j \in Call |-> call[j].uac \in UpUac] EXCEPT ![k] = PickedUp(d)]
  <2>1. \A j \in Call : (call'[j].uac \in UpUac) =
                         IF j = k THEN PickedUp(d) ELSE call[j].uac \in UpUac
    BY <1>1 DEF PickedUp
  <2> QED BY <2>1
<1> QED BY <1>2, <1>3, <1>4

\* A live call follows one of the three actions of CallLifecycle.
LEMMA FollowsMapped ==
  ASSUME AllFit, NEW k \in Call, NEW d,
         Follows(call[k], d), call' = [call EXCEPT ![k] = d], UNCHANGED stopping
  PROVE  AllFit' /\ Lifecycle!Next
<1> DEFINE c == call[k]
           st == [j \in Call |-> getStatus(call[j].st)]
           sv == [j \in Call |-> {l \in Leg : call[j].uas[l] \in UpUas}]
           pk == [j \in Call |-> call[j].uac \in UpUac]
<1>1. /\ Fits(c) /\ Fits(d) /\ c \in Record /\ d \in Record
      /\ c.st \in CallState
      /\ d.st \in CallState \cup Absent
  BY FitsState DEF AllFit, Follows, Advances, Grows, Live, LiveState
<1>2. AllFit'
  BY <1>1 DEF AllFit
<1>3. /\ st' = [st EXCEPT ![k] = getStatus(d.st)]
      /\ sv' = [sv EXCEPT ![k] = Served(d)]
      /\ pk' = [pk EXCEPT ![k] = PickedUp(d)]
  BY <1>1, OneCallMapped
<1>4. st[k] = getStatus(c.st) /\ sv[k] = Served(c) /\ pk[k] = PickedUp(c)
  BY DEF Served, PickedUp
<1>5. /\ Lifecycle!Rank(st[k]) = Level(c.st)
      /\ Lifecycle!Rank(getStatus(d.st)) = Level(d.st)
      /\ Level(c.st) \in 1 .. 4 /\ Level(d.st) \in 0 .. 5
      /\ getStatus(d.st) \in Lifecycle!Statuses
  BY <1>1, <1>4, StatusRank DEF Level
<1>6. d.st \in Absent => Served(d) = {} /\ ~ PickedUp(d)
  BY <1>1, UasGroups, UacGroups DEF Fits, Closed, Served, PickedUp
<1>7. Served(d) \in SUBSET Leg /\ PickedUp(d) \in BOOLEAN
  BY DEF Served, PickedUp
<1> HIDE DEF st, sv, pk, c
<1>8. CASE Advances(c, d)
  <2>1. /\ Level(d.st) >= Level(c.st)
        /\ getStatus(d.st) = "Connected" => st[k] = "Connected"
        /\ Served(d) \in SUBSET sv[k]
        /\ PickedUp(d) => pk[k]
        /\ getStatus(d.st) = "Deleted" => Served(d) = {} /\ ~ PickedUp(d)
    BY <1>1, <1>4, <1>5, <1>6, <1>8, StatusRank DEF Advances, Ahead, Absent
  <2>2. \E s \in Lifecycle!Statuses, u \in SUBSET sv[k], p \in BOOLEAN :
          /\ Lifecycle!Rank(s) >= Lifecycle!Rank(st[k])
          /\ s = "Connected" => st[k] = "Connected"
          /\ p => pk[k]
          /\ s = "Deleted" => u = {} /\ ~ p
          /\ st' = [st EXCEPT ![k] = s]
          /\ sv' = [sv EXCEPT ![k] = u]
          /\ pk' = [pk EXCEPT ![k] = p]
    <3>1. /\ getStatus(d.st) \in Lifecycle!Statuses
          /\ Served(d) \in SUBSET sv[k]
          /\ PickedUp(d) \in BOOLEAN
      BY <1>5, <1>7, <2>1
    <3> USE <1>3, <1>5, <2>1, <3>1
    <3> WITNESS getStatus(d.st) \in Lifecycle!Statuses, Served(d) \in SUBSET sv[k],
                PickedUp(d) \in BOOLEAN
    <3> QED OBVIOUS
  <2>3. Lifecycle!Rank(st[k]) \in 1 .. 4
    BY <1>5
  <2>4. Lifecycle!Advance(k)
    BY <2>2, <2>3 DEF Lifecycle!Advance, st, sv, pk
  <2> QED BY <1>2, <2>4 DEF Lifecycle!Next
<1>9. CASE PickedUp(c) /\ Grows(c, d)
  <2>1. /\ pk[k] /\ st[k] # "Deleted"
        /\ sv[k] \subseteq Served(d)
        /\ getStatus(d.st) = st[k] /\ PickedUp(d) = pk[k]
    BY <1>1, <1>4, <1>9, StatusRank, AbsentIsNotLive DEF Grows, Absent
  <2>2. st' = st /\ pk' = pk
    BY <1>3, <2>1 DEF st, pk
  <2>3. Lifecycle!Serve(k)
    BY <1>3, <1>7, <2>1, <2>2 DEF Lifecycle!Serve, st, sv, pk
  <2> QED BY <1>2, <2>3 DEF Lifecycle!Next
<1>10. CASE /\ c.uac \in PendingUac /\ PickedUp(d)
            /\ Level(c.st) <= Level(d.st)
            /\ Served(c) \subseteq Served(d)
  <2>1. Level(c.st) \in 2 .. 4 /\ ~ PickedUp(c)
    BY <1>1, <1>5, <1>10, PeerStates, Levels, UacGroups, StatusRank, Groups DEF PickedUp
  <2>2. Level(d.st) \in Level(c.st) .. 4
    BY <1>1, <1>5, <1>6, <1>10, StatusRank
  <2>3. Lifecycle!PickUp(k)
    BY <1>3, <1>4, <1>5, <1>7, <1>10, <2>1, <2>2 DEF Lifecycle!PickUp, st, sv, pk
  <2> QED BY <1>2, <2>3 DEF Lifecycle!Next
<1> QED BY <1>8, <1>9, <1>10 DEF Follows, c

\* A first caller opens the call.
LEMMA OpensMapped ==
  ASSUME AllFit, NEW k \in Call, NEW d, ~ stopping, call[k].st = "None",
         Opens(d), call' = [call EXCEPT ![k] = d], UNCHANGED stopping
  PROVE  AllFit' /\ Lifecycle!Next
<1> DEFINE c == call[k]
           st == [j \in Call |-> getStatus(call[j].st)]
           sv == [j \in Call |-> {l \in Leg : call[j].uas[l] \in UpUas}]
           pk == [j \in Call |-> call[j].uac \in UpUac]
<1>1. Fits(c) /\ Fits(d) /\ d \in Record
  BY FitsState DEF AllFit, Opens
<1>2. AllFit'
  BY <1>1 DEF AllFit
<1>3. /\ st' = [st EXCEPT ![k] = getStatus(d.st)]
      /\ sv' = [sv EXCEPT ![k] = Served(d)]
      /\ pk' = [pk EXCEPT ![k] = PickedUp(d)]
  BY <1>1, OneCallMapped
<1>4. Served(c) = {} /\ ~ PickedUp(c)
  BY <1>1, UasGroups, UacGroups DEF Fits, Absent, Closed, Served, PickedUp
<1>5. /\ st[k] = "None" /\ sv[k] = Served(d) /\ pk[k] = PickedUp(d)
  BY <1>4, Levels DEF Opens, Served, PickedUp
<1>6. getStatus(d.st) \in {"PreDial", "Finishing"}
  BY Levels DEF Opens, PreDialState, FinishingState
<1> HIDE DEF st, sv, pk
<1>7. sv' = sv /\ pk' = pk
  BY <1>3, <1>5 DEF sv, pk
<1>8. Lifecycle!Open(k)
  BY <1>3, <1>5, <1>6, <1>7 DEF Lifecycle!Open, st, sv, pk
<1> QED BY <1>2, <1>8 DEF Lifecycle!Next

\* onStopping turns a live call, towards CallStop or not at all.
LEMMA TurnsStopping ==
  ASSUME NEW c, Fits(c), Live(c)
  PROVE  /\ Turns(c, onStopping(c))
         /\ c.st \notin EndingState /\ "CallStop" \in Permitted(c.st) =>
              getStatus(onStopping(c).st) = "Finishing"
         /\ c.st \in EndingState \/ "CallStop" \notin Permitted(c.st) =>
              getStatus(onStopping(c).st) = getStatus(c.st)
<1>1. CASE c.st \in EndingState
  BY <1>1, TurnsSelf DEF onStopping
<1>2. CASE c.st \notin EndingState
  <2>1. /\ Turns(c, setCallState(c, "CallStop"))
        /\ setCallState(c, "CallStop").st =
             IF "CallStop" \in Permitted(c.st) THEN "CallStop" ELSE c.st
    BY TurnsState, Asked
  <2>2. getStatus("CallStop") = "Finishing"
    BY Levels DEF FinishingState
  <2>3. onStopping(c) = setCallState(c, "CallStop")
    BY <1>2 DEF onStopping
  <2>4. CASE "CallStop" \in Permitted(c.st)
    <3>1. onStopping(c).st = "CallStop"
      BY <2>1, <2>3, <2>4
    <3> QED BY <1>2, <2>1, <2>2, <2>3, <2>4, <3>1
  <2>5. CASE "CallStop" \notin Permitted(c.st)
    <3>1. onStopping(c).st = c.st
      BY <2>1, <2>3, <2>5
    <3> QED BY <2>1, <2>3, <2>5, <3>1
  <2> QED BY <2>4, <2>5
<1> QED BY <1>1, <1>2

\* The sweep that finds a stop request finishes the calls it can finish.
LEMMA SweepStartMapped ==
  ASSUME TypeOK, StopOrder, AllFit, SweepStart
  PROVE  AllFit' /\ (Lifecycle!FinishAll \/ UNCHANGED Lifecycle!vars)
<1> DEFINE st == [j \in Call |-> getStatus(call[j].st)]
           sv == [j \in Call |-> {l \in Leg : call[j].uas[l] \in UpUas}]
           pk == [j \in Call |-> call[j].uac \in UpUac]
           F == {j \in Call : /\ Live(call[j])
                              /\ call[j].st \notin EndingState
                              /\ "CallStop" \in Permitted(call[j].st)}
<1>1. UNCHANGED stopping
  BY DEF SweepStart
<1>2. CASE ~ mustStopCalls
  <2>1. call' = call
    BY <1>2 DEF SweepStart, TypeOK
  <2> QED BY <1>1, <2>1 DEF AllFit, Lifecycle!vars
<1>3. CASE mustStopCalls
  <2>1. /\ call' \in [Call -> Record]
        /\ \A j \in Call : /\ Turns(call[j], call'[j])
                           /\ call'[j] = IF Live(call[j]) THEN onStopping(call[j]) ELSE call[j]
    <3>1. \A j \in Call : call'[j] = IF Live(call[j]) THEN onStopping(call[j]) ELSE call[j]
      BY <1>3 DEF SweepStart
    <3>2. \A j \in Call : Fits(call[j]) /\ Turns(call[j], call'[j])
      BY <3>1, TurnsStopping, TurnsSelf DEF AllFit
    <3>3. \A j \in Call : call'[j] \in Record
      BY <3>2, TurnsFits, FitsState
    <3> QED BY <1>3, <3>1, <3>2, <3>3 DEF SweepStart
  <2>2. AllFit'
    BY <2>1, TurnsFits DEF AllFit
  <2>3. sv' = sv /\ pk' = pk
    <3>1. \A j \in Call : /\ {l \in Leg : call'[j].uas[l] \in UpUas} =
                               {l \in Leg : call[j].uas[l] \in UpUas}
                          /\ call'[j].uac \in UpUac <=> call[j].uac \in UpUac
      BY <2>1 DEF Turns, Served, PickedUp
    <3> QED BY <3>1
  <2>4. \A j \in Call : getStatus(call'[j].st) =
                          IF j \in F /\ Lifecycle!Rank(getStatus(call[j].st)) \in 1 .. 3
                            THEN "Finishing" ELSE getStatus(call[j].st)
    <3> SUFFICES ASSUME NEW j \in Call
                 PROVE  getStatus(call'[j].st) =
                          IF j \in F /\ Lifecycle!Rank(getStatus(call[j].st)) \in 1 .. 3
                            THEN "Finishing" ELSE getStatus(call[j].st)
      OBVIOUS
    <3>1. getStatus(call'[j].st) = IF j \in F THEN "Finishing" ELSE getStatus(call[j].st)
      <4>1. CASE Live(call[j])
        <5>1. /\ call'[j] = onStopping(call[j])
              /\ j \in F => getStatus(onStopping(call[j]).st) = "Finishing"
              /\ j \notin F => getStatus(onStopping(call[j]).st) = getStatus(call[j].st)
          BY <2>1, <4>1, TurnsStopping DEF AllFit
        <5> QED BY <5>1
      <4>2. CASE ~ Live(call[j])
        <5>1. call'[j] = call[j] /\ j \notin F
          BY <2>1, <4>2
        <5> QED BY <5>1
      <4> QED BY <4>1, <4>2
    <3>2. ASSUME j \in F, Lifecycle!Rank(getStatus(call[j].st)) \notin 1 .. 3
          PROVE  getStatus(call[j].st) = "Finishing"
      <4>1. call[j].st \in CallState
        BY <3>2, FitsState, AbsentIsNotLive DEF AllFit, Live, LiveState
      <4>2. call[j].st \in FinishingState
        BY <3>2, <4>1, Levels DEF CallState, Level
      <4> QED BY <4>2, Levels
    <3> QED BY <3>1, <3>2
  <2>5. ~ ~ stopping
    BY <1>3 DEF StopOrder
  <2>6. F \in SUBSET Call
    OBVIOUS
  <2> HIDE DEF F
  <2>7. st' = [j \in Call |-> IF j \in F /\ Lifecycle!Rank(st[j]) \in 1 .. 3
                                THEN "Finishing" ELSE st[j]]
    BY <2>4
  <2> HIDE DEF st, sv, pk
  <2>8. Lifecycle!FinishAll
    BY <1>1, <2>3, <2>5, <2>6, <2>7 DEF Lifecycle!FinishAll, st, sv, pk
  <2> QED BY <2>2, <2>8
<1> QED BY <1>2, <1>3

\* Every step keeps the sessions fitting and is a step of CallLifecycle or none.
LEMMA StepMapped ==
  ASSUME IndInv, AllFit, Next
  PROVE  AllFit' /\ (Lifecycle!Next \/ UNCHANGED Lifecycle!vars)
<1>1. AllSound /\ TypeOK /\ StopOrder
  BY DEF IndInv
<1>2. ASSUME NEW k \in Call, NEW d, Follows(call[k], d), Deliver(k, d)
      PROVE  AllFit' /\ Lifecycle!Next
  BY <1>2, FollowsMapped DEF Deliver, stopVars
<1>3. CASE CallerMessage \/ CameraMessage \/ Destroy
  <2>1. ASSUME NEW k \in Call, NEW l \in Leg, NEW offer, NEW m, NewSession(k, l, offer, m)
        PROVE  AllFit' /\ Lifecycle!Next
    <3>1. PICK d : Opens(d) /\ Deliver(k, d)
      BY <2>1, OpensNewSession
    <3>2. ~ stopping /\ call[k].st = "None"
      BY <2>1 DEF NewSession
    <3> QED BY <3>1, <3>2, OpensMapped DEF Deliver, stopVars
  <2>2. ASSUME NEW k \in Call, NEW l \in Leg, NEW offer, NEW m, JoinSession(k, l, offer, m)
        PROVE  AllFit' /\ Lifecycle!Next
    <3>1. PICK d : Follows(call[k], d) /\ Deliver(k, d)
      BY <1>1, <2>2, FollowsJoin
    <3> QED BY <1>2, <3>1
  <2>3. ASSUME NEW k \in Call, NEW l \in Leg,
               \/ CallerCancels(k, l)
               \/ CallerHangsUp(k, l)
               \/ \E m \in SdpKinds : \/ CallerAcks(k, l, m)
                                      \/ CallerReinvites(k, l, m)
                                      \/ CallerAnswersReinvite(k, l, m)
               \/ AckTimeout(k, l)
               \/ CallerByeAnswered(k, l)
               \/ DestroyCaller(k, l)
        PROVE  AllFit' /\ Lifecycle!Next
    <3>1. PICK d : Follows(call[k], d) /\ Deliver(k, d)
      BY <1>1, <2>3, FollowsCaller
    <3> QED BY <1>2, <3>1
  <2>4. ASSUME NEW k \in Call,
               \/ CameraTrying(k)
               \/ CameraRings(k)
               \/ \E ringing \in BOOLEAN, m \in SdpKinds : CameraEarlyMedia(k, ringing, m)
               \/ \E m \in SdpKinds : \/ CameraAnswers(k, m)
                                      \/ CameraReinvites(k, m)
                                      \/ CameraAnswersReinvite(k, m)
               \/ \E code \in RejectCodes : CameraRejects(k, code)
               \/ CameraHangsUp(k)
               \/ CameraEnded(k)
               \/ DestroyCamera(k)
        PROVE  AllFit' /\ Lifecycle!Next
    <3>1. PICK d : Follows(call[k], d) /\ Deliver(k, d)
      BY <1>1, <2>4, FollowsCamera
    <3> QED BY <1>2, <3>1
  <2> QED BY <1>3, <2>1, <2>2, <2>3, <2>4 DEF CallerMessage, CameraMessage, Destroy
<1>4. ASSUME NEW k \in Call, TimePasses(k)
      PROVE  AllFit' /\ Lifecycle!Next
  <2>1. PICK d : Follows(call[k], d) /\ call' = [call EXCEPT ![k] = d]
    BY <1>1, <1>4, FollowsTime
  <2> QED BY <1>4, <2>1, FollowsMapped DEF TimePasses, stopVars
<1>5. ASSUME NEW k \in Call, Check(k)
      PROVE  AllFit' /\ (Lifecycle!Next \/ UNCHANGED Lifecycle!vars)
  <2>1. UNCHANGED stopping
    BY <1>5 DEF Check, CheckCall, stopVars
  <2>2. CASE call' = call
    BY <2>1, <2>2 DEF AllFit, Lifecycle!vars
  <2>3. CASE \E d : Follows(call[k], d) /\ call' = [call EXCEPT ![k] = d]
    BY <2>1, <2>3, FollowsMapped
  <2> QED BY <1>1, <1>5, <2>2, <2>3, FollowsCheck
<1>6. CASE SweepStart
  BY <1>1, <1>6, SweepStartMapped DEF Lifecycle!Next
<1>7. CASE DumComplete \/ SweepEnd \/ LoopReturns \/ StopDum \/ StopCallsSecond \/ Terminated
  <2>1. call' = call /\ stopping' = stopping
    BY <1>7 DEF DumComplete, SweepEnd, LoopReturns, StopDum, StopCallsSecond, Terminated,
                vars, stopVars
  <2> QED BY <2>1 DEF AllFit, Lifecycle!vars
<1>8. CASE StopCallsFirst
  <2>1. call' = call /\ stopping' = TRUE
    BY <1>8 DEF StopCallsFirst
  <2>2. Lifecycle!Shutdown
    BY <2>1 DEF Lifecycle!Shutdown
  <2> QED BY <2>1, <2>2 DEF AllFit, Lifecycle!Next
<1> QED BY <1>3, <1>4, <1>5, <1>6, <1>7, <1>8 DEF Next, Loop, Stop

\* No call exists.
LEMMA InitMapped == Init => AllFit /\ Lifecycle!Init
<1> SUFFICES ASSUME Init PROVE AllFit /\ Lifecycle!Init
  OBVIOUS
<1>1. /\ NoCall \in Record /\ NoCall.st = "None" /\ NoCall.legs = {} /\ NoCall.back = {}
      /\ NoCall.uac = "None" /\ \A l \in Leg : NoCall.uas[l] = "Idle"
  BY DEF NoCall, Record, Absent, UasState, UacState, ClearingReason, FailureCode
<1>2. call = [k \in Call |-> NoCall] /\ stopping = FALSE
  BY DEF Init
<1> HIDE DEF NoCall
<1>3. /\ "None" \notin PreDialState \cup UpState
      /\ "None" # "Reoffered"
  BY AbsentIsNotLive, Groups DEF Absent, CallState
<1>4. /\ NoCall.uac \notin PendingUac \cup UpUac
      /\ \A l \in Leg : NoCall.uas[l] \notin EarlyUas \cup UpUas
  BY <1>1, UacGroups, UasGroups
<1>5. Fits(NoCall)
  BY <1>1, <1>3, <1>4 DEF Fits, Closed
<1>6. AllFit
  BY <1>1, <1>2, <1>5 DEF AllFit
<1>7. Lifecycle!Init
  <2>1. [k \in Call |-> getStatus(call[k].st)] = [k \in Call |-> "None"]
    BY <1>1, <1>2, Levels
  <2>2. [k \in Call |-> {l \in Leg : call[k].uas[l] \in UpUas}] = [k \in Call |-> {}]
    BY <1>2, <1>4
  <2>3. [k \in Call |-> call[k].uac \in UpUac] = [k \in Call |-> FALSE]
    <3>1. \A k \in Call : (call[k].uac \in UpUac) = FALSE
      BY <1>2, <1>4
    <3> QED BY <3>1
  <2> QED BY <1>2, <2>1, <2>2, <2>3 DEF Lifecycle!Init
<1> QED BY <1>6, <1>7

\* Together with the invariant of B2BUAProofs, Fits is inductive.
LEMMA FitInductive ==
  IndInv /\ AllFit /\ [Next]_vars => AllFit' /\ [Lifecycle!Next]_(Lifecycle!vars)
<1> SUFFICES ASSUME IndInv, AllFit, [Next]_vars
             PROVE  AllFit' /\ (Lifecycle!Next \/ UNCHANGED Lifecycle!vars)
  OBVIOUS
<1>1. CASE UNCHANGED vars
  BY <1>1 DEF vars, AllFit, Lifecycle!vars
<1> QED BY <1>1, StepMapped

-----------------------------------------------------------------------------
(* The theorems.                                                           *)

\* A call that is deleted has hung up on all its callers and on the camera, and
\* no dialog points to it any more, whichever handlers ran in whichever order
\* (B2BCall::doCallStop, onHangup, ~MyAppDialog, B2BCallManager's sweep).
THEOREM LeavesNoSession == Spec => []NoSessionLeftBehind
<1>1. AllFit => NoSessionLeftBehind
  BY DEF AllFit, Fits, Closed, Absent, NoSessionLeftBehind
<1> QED BY <1>1, InitMapped, FitInductive, Inductive, PTL DEF Spec

\* The calls keep the promise of CallLifecycle: status only moves forward, a
\* call is connected only by its camera picking up, callers are connected only
\* to a camera that has, a deleted call holds nobody, and none is opened after a
\* shutdown (B2BCall::getStatus, setCallState and every handler).
THEOREM CallsKeepLifecycle == Spec => ImplementsLifecycle
BY InitMapped, FitInductive, Inductive, PTL DEF Spec, ImplementsLifecycle, Lifecycle!Spec
=============================================================================
