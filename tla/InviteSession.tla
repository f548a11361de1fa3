----------------------------- MODULE InviteSession -----------------------------
(***************************************************************************)
(* One end of an established INVITE dialog of the dialog usage manager     *)
(* (resip/dum/InviteSession.cxx): offers by re-INVITE or UPDATE, glare,    *)
(* the 200 that is repeated until its ACK comes, and the ways to end.      *)
(*                                                                         *)
(* A session is a record and a method of the class is an operator from     *)
(* record to record.  The field out collects what a handler sends, bad     *)
(* becomes TRUE where the code runs into an assert or a NULL pointer, and  *)
(* owed says that the application made an offer, or asked for one, and has *)
(* not been called back about it.                                          *)
(***************************************************************************)
EXTENDS Naturals

None == "none"

NoSdp == <<>>

States == {"Connected", "SentUpdate", "SentUpdateGlare", "SentReinvite",
  "SentReinviteGlare", "SentReinviteNoOffer", "SentReinviteAnswered",
  "SentReinviteNoOfferGlare", "ReceivedUpdate", "ReceivedReinvite",
  "ReceivedReinviteNoOffer", "ReceivedReinviteSentOffer",
  "WaitingToTerminate", "WaitingToHangup", "Terminated"}

isTerminated(s) == s.state \in {"Terminated", "WaitingToTerminate", "WaitingToHangup"}

-----------------------------------------------------------------------------
\* Messages.  A request has code 0; n is its CSeq, and the CSeq of its answers.
Request(method, n, sdp) == [method |-> method, code |-> 0, n |-> n, sdp |-> sdp]

Response(request, code, sdp) == [request EXCEPT !.code = code, !.sdp = sdp]

isOffering(m) == m.code = 0 /\ m.method \in {"INVITE", "UPDATE"}

\* The session after the initial INVITE (CSeq 0) was answered and acknowledged;
\* update says whether the peer supports UPDATE.
Established(uac, update, local, remote) ==
  [state |-> "Connected", uac |-> uac, update |-> update, cseq |-> 0,
   local |-> local, remote |-> remote, propLocal |-> NoSdp, propRemote |-> NoSdp,
   sent |-> Request(IF uac THEN "INVITE" ELSE None, 0, NoSdp),
   got |-> Request(IF uac THEN None ELSE "INVITE", 0, NoSdp),
   ok |-> Request(None, 0, NoSdp), re200 |-> FALSE, waitAck |-> {}, misled |-> FALSE,
   acks |-> IF uac THEN {Request("ACK", 0, NoSdp)} ELSE {},
   stale |-> FALSE, glare |-> 0, refresh |-> FALSE, expires |-> TRUE,
   owed |-> FALSE, out |-> {}, bad |-> FALSE]

-----------------------------------------------------------------------------
(* Sending. *)
Become(s, state) == [s EXCEPT !.state = state]

Send(s, m) == [s EXCEPT !.out = @ \cup {m}]

\* assert(p)
Asserting(s, p) == [s EXCEPT !.bad = @ \/ ~p]

\* A new re-INVITE or UPDATE; the re-INVITE arms the stale timer.
SendOffering(s, method, sdp) ==
  LET request == Request(method, s.cseq + 1, sdp)
  IN Send([s EXCEPT !.cseq = @ + 1, !.sent = request,
                    !.stale = @ \/ method = "INVITE"], request)

\* The ACK of the last INVITE sent, kept for repetitions of its 200.  After an
\* UPDATE it is the ACK of the INVITE the dialog set was created with, which
\* the called end does not have.
sendAck(s, sdp) ==
  LET n == IF s.sent.method = "UPDATE" THEN 0 ELSE s.sent.n
      ack == Request("ACK", n, sdp)
      fresh == \A a \in s.acks : s.sent.method = "UPDATE" \/ a.n # s.sent.n
  IN Send([Asserting(s, fresh /\ (s.sent.method = "UPDATE" => s.uac))
             EXCEPT !.acks = {a \in @ : a.n # n} \cup {ack}], ack)

\* Mutated form of sendInvite200: no timer repeats the 200.
sentOnce(s, sdp) ==
  LET ok == Response(s.got, 200, sdp) IN Send([s EXCEPT !.ok = ok], ok)

\* The 200 of the last re-INVITE received, repeated until its ACK comes.
sendInvite200(s, sdp) ==
  LET ok == Response(s.got, 200, sdp)
  IN Send([s EXCEPT !.ok = ok, !.re200 = TRUE, !.waitAck = @ \cup {s.got.n}], ok)

\* Mutated form of Hangup: no BYE.
leaveSilently(s) == [s EXCEPT !.state = "Terminated", !.owed = FALSE]

\* sendBye, and onTerminated.
Hangup(s) == Send([s EXCEPT !.state = "Terminated", !.owed = FALSE], Request("BYE", 0, NoSdp))

-----------------------------------------------------------------------------
(* Calls of the application. *)
requestOffer(s) ==
  SendOffering([s EXCEPT !.state = "SentReinviteNoOffer", !.owed = TRUE], "INVITE", NoSdp)

provideOffer(s, offer) ==
  LET t == [s EXCEPT !.propLocal = offer, !.owed = TRUE]
  IN IF s.state = "ReceivedReinviteNoOffer"
     THEN sendInvite200(Become(Asserting(t, s.propRemote = NoSdp), "ReceivedReinviteSentOffer"), offer)
     ELSE IF s.update
     THEN SendOffering(Become(t, "SentUpdate"), "UPDATE", offer)
     ELSE SendOffering(Become(t, "SentReinvite"), "INVITE", offer)

\* The proposed SDP is an auto_ptr: taking it over empties it.
withAnswer(s, answer) ==
  [s EXCEPT !.state = "Connected", !.local = answer, !.remote = s.propRemote, !.propRemote = NoSdp]

provideAnswer(s, answer) ==
  CASE s.state = "ReceivedReinvite" -> sendInvite200(withAnswer(s, answer), answer)
    [] s.state = "ReceivedUpdate" -> Send(withAnswer(s, answer), Response(s.got, 200, answer))
    [] s.state = "SentReinviteAnswered" -> sendAck(withAnswer(s, answer), answer)

Undecided == {"ReceivedUpdate", "ReceivedReinvite", "ReceivedReinviteNoOffer"}

reject(s) == Send(Become(s, "Connected"), Response(s.got, 488, NoSdp))

end(s) ==
  CASE s.state \in {"SentReinvite", "SentReinviteNoOffer"} -> Become(s, "WaitingToTerminate")
    [] s.state = "ReceivedReinviteSentOffer" /\ s.re200 -> Become(s, "WaitingToHangup")
    [] s.state \in Undecided -> Hangup(Send(s, Response(s.got, 488, NoSdp)))
    [] s.state = "Terminated" -> s
    [] s.state = "WaitingToHangup" -> Asserting(s, FALSE)
    [] OTHER -> Hangup(s)

sessionRefresh(s) ==
  IF s.update
  THEN SendOffering(Become(s, "SentUpdate"), "UPDATE", NoSdp)
  ELSE SendOffering([s EXCEPT !.state = "SentReinvite", !.propLocal = s.local, !.refresh = TRUE],
                    "INVITE", s.local)

-----------------------------------------------------------------------------
(* Messages from the other end. *)
dispatchOthers(s, m) ==
  CASE m.method = "BYE" -> [s EXCEPT !.state = "Terminated", !.owed = FALSE]
    [] m.method = "ACK" -> s
    [] OTHER -> Asserting(s, FALSE)

\* An ACK ends the repetition of the 200, whatever its CSeq; misled records that it
\* was not that of the 200.
gotAck(s, m) ==
  [s EXCEPT !.re200 = FALSE, !.misled = @ \/ (s.re200 /\ m.n # s.ok.n)]

dispatchConnected(s, m) ==
  CASE m.method = "INVITE" /\ m.code = 0 /\ m.sdp = NoSdp ->
         [s EXCEPT !.state = "ReceivedReinviteNoOffer", !.got = m]
    [] m.method = "INVITE" /\ m.code = 0 /\ m.sdp # NoSdp ->
         [s EXCEPT !.state = "ReceivedReinvite", !.got = m, !.propRemote = m.sdp]
    [] m.method = "INVITE" /\ m.code = 200 -> sendAck(s, NoSdp)
    [] m.method = "UPDATE" /\ m.code = 0 /\ m.sdp = NoSdp ->
         Send([s EXCEPT !.got = m], Response(m, 200, NoSdp))
    [] m.method = "UPDATE" /\ m.code = 0 /\ m.sdp # NoSdp ->
         [s EXCEPT !.state = "ReceivedUpdate", !.got = m, !.propRemote = m.sdp]
    [] m.method = "ACK" -> gotAck(s, m)
    [] OTHER -> dispatchOthers(s, m)

\* Our offer is off the table and the application knows.
offerOver(s) == [s EXCEPT !.state = "Connected", !.propLocal = NoSdp, !.owed = FALSE]

\* Mutated form of offerAnswered: setCurrentLocalSdp is forgotten.
localForgotten(s, m) == [s EXCEPT !.state = "Connected", !.propLocal = NoSdp, !.remote = m.sdp]

\* Our offer is answered with the SDP of m.
offerAnswered(s, m) ==
  [Asserting(s, s.propLocal # NoSdp) EXCEPT
     !.state = "Connected", !.local = s.propLocal, !.propLocal = NoSdp, !.remote = m.sdp]

general(m) == m.code \in {408, 481}

rejected(m) == m.code \in {400, 488, 500}

dispatchSentUpdate(s, m) ==
  CASE isOffering(m) -> Send(s, Response(m, 491, NoSdp))
    [] m.method = "UPDATE" /\ m.code = 200 ->
         IF s.propLocal = NoSdp THEN Become(s, "Connected")
         ELSE IF m.sdp = NoSdp THEN offerOver(s)
         ELSE [offerAnswered(s, m) EXCEPT !.owed = FALSE]
    [] m.method = "UPDATE" /\ m.code = 491 -> [s EXCEPT !.state = "SentUpdateGlare", !.glare = @ + 1]
    [] m.method = "UPDATE" /\ m.code = 422 -> sessionRefresh(s)
    [] general(m) -> Hangup(s)
    [] m.method = "UPDATE" /\ rejected(m) -> offerOver(s)
    [] OTHER -> dispatchOthers(s, m)

\* The 200 of a re-INVITE that made an offer.
reinviteAnswered(s, m) ==
  LET t == sendAck(offerAnswered(s, m), NoSdp)
  IN [t EXCEPT !.refresh = FALSE, !.owed = s.refresh /\ s.owed]

\* dispatchSentReinvite and dispatchSentReinviteNoOffer.
dispatchSentReinvite(s, m) ==
  LET t == [s EXCEPT !.stale = FALSE]
      answer == m.method = "INVITE"
  IN CASE isOffering(m) -> Send(s, Response(m, 491, NoSdp))
       [] general(m) -> Hangup(t)
       [] answer /\ m.code = 200 /\ m.sdp = NoSdp -> sendAck(offerOver(t), NoSdp)
       [] answer /\ m.code = 200 /\ m.sdp # NoSdp ->
            IF s.state = "SentReinvite"
            THEN reinviteAnswered(t, m)
            ELSE [t EXCEPT !.state = "SentReinviteAnswered", !.propRemote = m.sdp, !.owed = FALSE]
       [] answer /\ m.code = 422 -> sessionRefresh(t)
       [] answer /\ m.code = 491 ->
            [t EXCEPT !.glare = @ + 1,
                      !.state = IF @ = "SentReinvite" THEN "SentReinviteGlare" ELSE "SentReinviteNoOfferGlare"]
       [] answer /\ rejected(m) -> offerOver(t)
       [] OTHER -> dispatchOthers(s, m)

staleAck(s, m) == s.got.n > m.n

dispatchReceivedReinviteSentOffer(s, m) ==
  CASE isOffering(m) -> Send(s, Response(m, 491, NoSdp))
    [] m.method = "ACK" /\ m.sdp # NoSdp ->
         [gotAck(offerAnswered(s, m), m) EXCEPT !.owed = FALSE]
    [] m.method = "ACK" /\ m.sdp = NoSdp ->
         IF staleAck(s, m) THEN s ELSE gotAck(offerOver(s), m)
    [] OTHER -> dispatchOthers(s, m)

dispatchTerminated(s, m) ==
  IF isOffering(m) THEN Send(s, Response(m, 481, NoSdp)) ELSE s

\* Mutated form of dispatchGlare: the application is not told.
glareUntold(s, m, quits) == IF isOffering(m) THEN dispatchConnected(s, m) ELSE dispatchOthers(s, m)

\* dispatchGlare and dispatchReinviteNoOfferGlare: the application is told
\* first, and may end the session in the callback.
dispatchGlare(s, m, quits) ==
  LET told == [s EXCEPT !.owed = FALSE]
  IN CASE isOffering(m) /\ quits -> dispatchTerminated(end(told), m)
       [] isOffering(m) /\ ~quits -> dispatchConnected(told, m)
       [] OTHER -> dispatchOthers(s, m)

\* The 500 that a response gets here belongs to no transaction.
dispatchReceivedUpdateOrReinvite(s, m) ==
  CASE isOffering(m) -> Send(s, Response(m, 500, NoSdp))
    [] m.method \in {"INVITE", "UPDATE"} /\ ~isOffering(m) -> s
    [] OTHER -> dispatchOthers(s, m)

\* Mutated form of dispatchSentReinviteAnswered: a repeated 200 is not expected.
repetitionUnexpected(s, m) == dispatchOthers(s, m)

dispatchSentReinviteAnswered(s, m) ==
  IF m.method = "INVITE" /\ m.code = 200 THEN s ELSE dispatchOthers(s, m)

\* Responses in this model are final.  The code hangs up on any response to an
\* INVITE here, a 1xx too (line 1825).
dispatchWaitingToTerminate(s, m) ==
  CASE m.method = "INVITE" /\ m.code # 0 -> Hangup(IF m.code = 200 THEN sendAck(s, NoSdp) ELSE s)
    [] m.method = "BYE" -> dispatchOthers(s, m)
    [] isOffering(m) -> Send(s, Response(m, 400, NoSdp))
    [] OTHER -> s

dispatchWaitingToHangup(s, m) == IF m.method = "ACK" THEN Hangup(gotAck(s, m)) ELSE s

\* A 200 that has its ACK gets it once more; anything else goes to the state.
dispatch(s, m, quits) ==
  LET answered == {a \in s.acks : m.method = "INVITE" /\ m.code = 200 /\ a.n = m.n}
  IN IF answered # {} THEN [s EXCEPT !.out = @ \cup answered]
     ELSE CASE s.state = "Connected" -> dispatchConnected(s, m)
            [] s.state = "SentUpdate" -> dispatchSentUpdate(s, m)
            [] s.state \in {"SentReinvite", "SentReinviteNoOffer"} -> dispatchSentReinvite(s, m)
            [] s.state = "SentReinviteAnswered" -> dispatchSentReinviteAnswered(s, m)
            [] s.state \in {"SentUpdateGlare", "SentReinviteGlare", "SentReinviteNoOfferGlare"} ->
                 dispatchGlare(s, m, quits)
            [] s.state \in Undecided -> dispatchReceivedUpdateOrReinvite(s, m)
            [] s.state = "ReceivedReinviteSentOffer" -> dispatchReceivedReinviteSentOffer(s, m)
            [] s.state = "WaitingToTerminate" -> dispatchWaitingToTerminate(s, m)
            [] s.state = "WaitingToHangup" -> dispatchWaitingToHangup(s, m)
            [] s.state = "Terminated" -> dispatchTerminated(s, m)

-----------------------------------------------------------------------------
(* Timers. *)
\* No ACK came for the 200 of the INVITE n.
WaitForAck(s, n, quits) ==
  LET late == s.re200 /\ n = s.got.n
      t == [s EXCEPT !.waitAck = @ \ {n}, !.re200 = @ /\ ~late]
  IN CASE ~late -> t
       [] late /\ s.state = "WaitingToHangup" -> Hangup(t)
       [] late /\ s.state = "ReceivedReinviteSentOffer" -> offerOver(t)
       [] OTHER -> IF quits THEN end(t) ELSE t

\* Time to send again what met a 491.
Glare(s) ==
  LET t == [s EXCEPT !.glare = @ - 1]
      again == CASE s.state = "SentUpdateGlare" -> "SentUpdate"
                 [] s.state = "SentReinviteGlare" -> "SentReinvite"
                 [] s.state = "SentReinviteNoOfferGlare" -> "SentReinviteNoOffer"
                 [] OTHER -> None
  IN IF again = None THEN t ELSE SendOffering(Become(t, again), s.sent.method, s.sent.sdp)

\* The session timer ran out.  The application ends the session, and nothing
\* that happens to a session that is ending starts the timer again.
SessionExpiration(s) == end([s EXCEPT !.expires = FALSE])

\* No final response came to the last re-INVITE.
StaleReInvite(s, quits) ==
  LET t == [s EXCEPT !.stale = FALSE]
  IN CASE s.state = "WaitingToTerminate" -> Hangup(t)
       [] s.state \in {"SentReinvite", "SentReinviteNoOffer"} ->
            IF quits THEN end(offerOver(t)) ELSE offerOver(t)
       [] OTHER -> t

=============================================================================
