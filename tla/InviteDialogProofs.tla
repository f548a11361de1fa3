------------------------- MODULE InviteDialogProofs -------------------------
(***************************************************************************)
(* Proofs about InviteDialog for every set of setups: the two ends and     *)
(* their messages are well-formed, an application is called back about     *)
(* its offer, a 200 that is waited for goes on being repeated, no order of *)
(* calls, messages and timers makes an assert of InviteSession fail, and   *)
(* the descriptions of the two ends agree.                                 *)
(*                                                                         *)
(* A handler takes a session s to a session t, and the lemmas about the    *)
(* handlers say how t follows s; the two ends and the network come after.  *)
(***************************************************************************)
EXTENDS InviteDialog, TLAPS

\* Sets of INVITEs whose ACK is waited for.
Waits == SUBSET (0..MaxMods)

\* A session, in a handler or between two of them.
Sessions == [
   state : States, uac : BOOLEAN, update : BOOLEAN, cseq : 0..MaxMods,
   local : Sdps \ {NoSdp}, remote : Sdps \ {NoSdp}, propLocal : Sdps, propRemote : Sdps,
   sent : Messages, got : Messages, ok : Messages, re200 : BOOLEAN,
   waitAck : Waits, misled : BOOLEAN, acks : SUBSET Messages,
   stale : BOOLEAN, glare : Nat, refresh : BOOLEAN, expires : BOOLEAN,
   owed : BOOLEAN, out : SUBSET Messages, bad : BOOLEAN]

Asking == {"SentReinvite", "SentReinviteNoOffer"}

AskingAgain == {"SentReinviteGlare", "SentReinviteNoOfferGlare"}

\* The states in which the application still waits for its callback.
Owing == Asking \cup AskingAgain \cup
  {"SentUpdate", "SentUpdateGlare", "ReceivedReinviteSentOffer", "WaitingToTerminate",
   "WaitingToHangup"}

Offered == {"SentReinvite", "SentReinviteGlare", "ReceivedReinviteSentOffer"}

ToAnswer == {"ReceivedReinvite", "ReceivedUpdate", "SentReinviteAnswered"}

\* An ACK that the session may have sent.
Before(m, s) == m.n < s.cseq \/ (m.n = s.cseq /\ s.state \notin Asking)

\* A message that the session may have sent.
Sent(m, s) ==
  /\ m.code # 422
  /\ isOffering(m) => m.n <= s.cseq
  /\ m.method = "ACK" => Before(m, s)

\* A 200, or none yet.
Ok(m) == m.method # "ACK" /\ m.code \in {0, 200} /\ ~isOffering(m)

Fit(s) ==
  /\ MaxMods \in Nat
  /\ s \in Sessions
  /\ s.sent.n <= s.cseq
  /\ s.got.method # "ACK" /\ Ok(s.ok)
  /\ s.sent.method \in {None, "INVITE", "UPDATE"}
  /\ s.state \in Asking \cup AskingAgain => s.sent.method = "INVITE"
  /\ s.state \in Asking => s.sent.n = s.cseq
  /\ s.state \in Offered => s.propLocal # NoSdp
  /\ s.state \in ToAnswer => s.propRemote # NoSdp
  /\ \A a \in s.acks : a.method = "ACK" /\ a.code = 0 /\ Before(a, s)
  /\ \A m \in s.out : Sent(m, s)

\* Without session refreshes the application has what it was promised.
Reported(s) ==
  /\ s.owed => s.state \in Owing
  /\ s.state \in {"SentUpdate", "SentUpdateGlare"} => s.propLocal # NoSdp
  /\ ~s.refresh

Follows(s, t) ==
  /\ Fit(t)
  /\ "refresh" \notin Kinds /\ Reported(s) => Reported(t)
  /\ s.cseq <= t.cseq
  /\ t.state \in Asking => s.cseq < t.cseq \/ (s.state \in Asking /\ t.cseq = s.cseq)
  /\ s.misled => t.misled

Same200(s, t) == t.got = s.got /\ t.ok = s.ok /\ t.re200 = s.re200

Goes(s, t) == Follows(s, t) /\ Same200(s, t)

\* A 200 goes out, which will be repeated.
Answers(s, t) == Follows(s, t) /\ t.got = s.got /\ t.ok.n = s.got.n /\ t.re200

\* The message m is heard.
Hears(s, t, m) ==
  /\ Follows(s, t)
  /\ t.ok = s.ok
  /\ t.got = s.got \/ (isOffering(m) /\ t.got = m)
  /\ s.re200 => t.re200 \/ t.misled \/ (m.method = "ACK" /\ m.n = s.ok.n)

-----------------------------------------------------------------------------
(* The inductive invariant, of the two ends ss, the network nn and the open requests oo. *)

EndsFit(ss) ==
  /\ ss \in [End -> Sessions]
  /\ \A e \in End :
       /\ Fit(ss[e]) /\ ss[e].out = {}
       /\ "refresh" \notin Kinds => Reported(ss[e])

\* A message to the peer of s comes from s, or from the proxy in between.
OnItsWay(m, s) ==
  /\ isOffering(m) => m.n <= s.cseq
  /\ m.method = "ACK" => Before(m, s)
  /\ m.code = 422 => "refresh" \in Kinds

NetFits(ss, nn) ==
  /\ nn \in [End -> SUBSET Messages]
  /\ \A e \in End : \A m \in nn[other(e)] : OnItsWay(m, ss[e])

OpenFits(oo) ==
  /\ oo \in [End -> SUBSET Messages]
  /\ \A e \in End : \A r \in oo[e] : isOffering(r)

\* What an end received and what it answered, its peer has sent.
AnswersFit(ss) ==
  \A e \in End : ss[other(e)].got.n <= ss[e].cseq /\ ss[other(e)].ok.n <= ss[e].cseq

\* The end e asks, and s has answered: the 200 of s is that of the last re-INVITE.
Answering(ss, e, s) ==
  /\ ss[e].state \in Asking
  /\ s.ok.method = "INVITE" /\ s.ok.n = ss[e].cseq

\* Who has answered a re-INVITE that has not its answer yet repeats the 200.
Repeats(ss) ==
  "ack" \notin Expire /\ (\A e \in End : ~ss[e].misled) =>
    \A e \in End : Answering(ss, e, ss[other(e)]) => ss[other(e)].re200

DialogFits(ss, nn, oo) ==
  EndsFit(ss) /\ NetFits(ss, nn) /\ OpenFits(oo) /\ AnswersFit(ss) /\ Repeats(ss)

IInv ==
  /\ setup \in Setups
  /\ DialogFits(session, net, open)
  /\ asked \in [End -> 0..MaxAsks]

\* What a handler may make of the session of e.
Takes(e, t) ==
  /\ Follows(session[e], t)
  /\ t.got.n <= session[other(e)].cseq /\ t.ok.n <= session[other(e)].cseq
  /\ "ack" \notin Expire /\ (\A d \in End : ~session[d].misled) /\ ~t.misled =>
       (Answering(session, other(e), t) => t.re200)

-----------------------------------------------------------------------------
(* Types. *)

\* No SDP is an SDP, and the one an end writes is another.
LEMMA SdpTypes ==
  /\ NoSdp \in Sdps
  /\ \A by, of \in End, n \in 0..MaxMods : Sdp(by, of, n) \in Sdps \ {NoSdp}
BY DEF Sdps, Sdp, NoSdp

\* The messages a session makes.
Replies == {200, 400, 408, 422, 481, 488, 491, 500}

\* The requests an end makes, and the fields of any message, are typed.
LEMMA MessageTypes ==
  /\ \A method \in {None, "INVITE", "UPDATE", "ACK", "BYE"}, n \in 0..MaxMods, sdp \in Sdps :
       Request(method, n, sdp) \in Messages
  /\ \A m \in Messages : m.n \in 0..MaxMods /\ m.n \in Nat /\ m.sdp \in Sdps
BY DEF Request, Messages

\* A response is a message, about the same request.
LEMMA ResponseTypes ==
  ASSUME NEW m \in Messages, NEW code \in Replies, NEW sdp \in Sdps
  PROVE  /\ Response(m, code, sdp) \in Messages
         /\ Response(m, code, sdp).method = m.method /\ Response(m, code, sdp).n = m.n
         /\ Response(m, code, sdp).code = code /\ Response(m, code, sdp).sdp = sdp
<1> DEFINE Methods == {None, "INVITE", "UPDATE", "ACK", "BYE"}
           Codes == {0, 200, 400, 408, 422, 481, 488, 491, 500}
<1>1. Messages = [method : Methods, n : 0..MaxMods, sdp : Sdps, code : Codes]
  BY DEF Messages
<1>2. code \in Codes
  BY DEF Replies
<1> HIDE DEF Methods, Codes
<1>3. Response(m, code, sdp) \in Messages
  BY <1>1, <1>2 DEF Response
<1>4. /\ Response(m, code, sdp).method = m.method /\ Response(m, code, sdp).n = m.n
      /\ Response(m, code, sdp).code = code /\ Response(m, code, sdp).sdp = sdp
  BY <1>1, <1>2 DEF Response
<1> QED BY <1>3, <1>4

\* What the fields of a session are.
LEMMA FieldTypes ==
  ASSUME NEW s, Fit(s)
  PROVE  /\ s \in Sessions /\ s.state \in States /\ s.cseq \in 0..MaxMods /\ s.cseq \in Nat
         /\ s.sent \in Messages /\ s.got \in Messages /\ s.ok \in Messages
         /\ s.sent.n \in Nat /\ s.got.n \in 0..MaxMods
         /\ s.local \in Sdps \ {NoSdp} /\ s.propLocal \in Sdps /\ s.propRemote \in Sdps
         /\ s.acks \in SUBSET Messages /\ s.out \in SUBSET Messages
         /\ \A m \in s.acks \cup s.out : m \in Messages /\ m.n \in Nat
         /\ s.glare \in Nat /\ s.re200 \in BOOLEAN
         /\ MaxMods \in Nat /\ 0 \in 0..MaxMods
<1>1. /\ s \in Sessions /\ s.state \in States /\ s.cseq \in 0..MaxMods
      /\ s.sent \in Messages /\ s.got \in Messages /\ s.ok \in Messages
      /\ s.local \in Sdps \ {NoSdp} /\ s.propLocal \in Sdps /\ s.propRemote \in Sdps
      /\ s.acks \in SUBSET Messages /\ s.out \in SUBSET Messages /\ s.glare \in Nat /\ s.re200 \in BOOLEAN
  BY DEF Fit, Sessions
<1>2. \A m \in Messages : m.n \in Nat /\ m.n \in 0..MaxMods
  BY MessageTypes
<1>3. MaxMods \in Nat /\ 0 \in 0..MaxMods
  BY DEF Fit
<1> QED BY <1>1, <1>2, <1>3

\* The groups of states are disjoint where they should be.
LEMMA StateNames ==
  /\ Asking \cup AskingAgain \cup Owing \cup Offered \cup ToAnswer \subseteq States
  /\ {"Connected", "SentUpdate", "SentUpdateGlare", "ReceivedReinviteNoOffer",
      "ReceivedReinviteSentOffer", "WaitingToTerminate", "WaitingToHangup", "Terminated"}
     \subseteq States \ (Asking \cup AskingAgain \cup ToAnswer)
  /\ {"Connected", "ReceivedUpdate", "ReceivedReinvite", "ReceivedReinviteNoOffer",
      "SentReinviteAnswered", "Terminated"} \cap (Owing \cup Offered) = {}
  /\ ToAnswer \cap (Asking \cup AskingAgain) = {}
  /\ Asking \cap AskingAgain = {}
BY DEF Asking, AskingAgain, Owing, Offered, ToAnswer, States

-----------------------------------------------------------------------------
(* The pieces of the handlers. *)

\* Nothing happens.
LEMMA GoesOn ==
  ASSUME NEW s, Fit(s)
  PROVE  Goes(s, s)
BY FieldTypes DEF Goes, Follows, Same200

\* One handler after another.
LEMMA GoesFar ==
  ASSUME NEW s, NEW t, NEW u, Fit(s), Goes(s, t), Goes(t, u)
  PROVE  Goes(s, u)
<1>1. Fit(t) /\ Fit(u)
  BY DEF Goes, Follows
<1>2. s.cseq \in Nat /\ t.cseq \in Nat /\ u.cseq \in Nat
  BY <1>1, FieldTypes
<1> QED BY <1>1, <1>2 DEF Goes, Follows, Same200

\* Nothing is sent.
LEMMA GoesSilently ==
  ASSUME NEW s, Fit(s), NEW t \in Sessions,
         t.cseq = s.cseq, t.sent = s.sent, t.acks = s.acks, t.out = s.out,
         s.misled => t.misled, Same200(s, t),
         t.state \in Asking => s.state = t.state,
         t.state \in AskingAgain => s.state \in Asking \cup AskingAgain,
         t.state \in Offered => t.propLocal # NoSdp,
         t.state \in ToAnswer => t.propRemote # NoSdp,
         "refresh" \notin Kinds /\ Reported(s) => Reported(t)
  PROVE  Goes(s, t)
<1>1. s.cseq <= t.cseq
  BY FieldTypes
<1>2. Fit(t)
  BY DEF Fit, Sent, Before, Same200
<1> QED BY <1>1, <1>2 DEF Goes, Follows

\* Nothing of what is remembered changes either.
LEMMA GoesLike ==
  ASSUME NEW s, Fit(s), NEW t \in Sessions,
         t.state = s.state, t.cseq = s.cseq, t.sent = s.sent, t.acks = s.acks, t.out = s.out,
         t.misled = s.misled, t.refresh = s.refresh, t.owed => s.owed,
         t.propLocal = s.propLocal, t.propRemote = s.propRemote, Same200(s, t)
  PROVE  Goes(s, t) /\ Fit(t)
<1>1. Reported(s) => Reported(t)
  BY DEF Reported
<1>2. /\ t.state \in Asking => s.state = t.state
      /\ t.state \in AskingAgain => s.state \in Asking \cup AskingAgain
      /\ t.state \in Offered => t.propLocal # NoSdp
      /\ t.state \in ToAnswer => t.propRemote # NoSdp
  BY DEF Fit
<1>3. Goes(s, t)
  BY <1>1, <1>2, GoesSilently
<1> QED BY <1>3 DEF Goes, Follows

\* A request in the dialog, or a response, goes out.
LEMMA GoesSend ==
  ASSUME NEW s, Fit(s), NEW m \in Messages, Sent(m, s)
  PROVE  Goes(s, Send(s, m)) /\ Send(s, m).state = s.state
<1> DEFINE t == Send(s, m)
<1>1. t \in Sessions /\ t.out = s.out \cup {m}
  BY FieldTypes DEF Sessions, Send
<1>2. /\ t.state = s.state /\ t.cseq = s.cseq /\ t.sent = s.sent /\ t.acks = s.acks
      /\ t.misled = s.misled /\ t.refresh = s.refresh /\ t.owed = s.owed
      /\ t.propLocal = s.propLocal /\ t.propRemote = s.propRemote /\ Same200(s, t)
  BY FieldTypes DEF Sessions, Send, Same200
<1> HIDE DEF t
<1>3. s.cseq <= t.cseq
  BY <1>2, FieldTypes
<1>4. Fit(t)
  BY <1>1, <1>2 DEF Fit, Sent, Before, Same200
<1>5. Reported(s) => Reported(t)
  BY <1>2 DEF Reported
<1>6. Follows(s, t)
  BY <1>2, <1>3, <1>4, <1>5 DEF Follows
<1> QED BY <1>2, <1>6 DEF Goes, t

\* Responses, BYEs.
LEMMA SentAlways ==
  ASSUME NEW s
  PROVE  /\ \A m \in Messages, code \in Replies \ {422}, sdp \in Sdps :
              m.method # "ACK" => Sent(Response(m, code, sdp), s)
         /\ Sent(Request("BYE", 0, NoSdp), s)
<1>1. ASSUME NEW m \in Messages, NEW code \in Replies \ {422}, NEW sdp \in Sdps, m.method # "ACK"
      PROVE  Sent(Response(m, code, sdp), s)
  <2>1. Response(m, code, sdp).method = m.method /\ Response(m, code, sdp).code = code
    BY ResponseTypes
  <2>2. code # 0 /\ code # 422
    BY DEF Replies
  <2> QED BY <1>1, <2>1, <2>2 DEF Sent, isOffering
<1>2. Sent(Request("BYE", 0, NoSdp), s)
  BY DEF Sent, isOffering, Request
<1> QED BY <1>1, <1>2

\* A new re-INVITE or UPDATE.
LEMMA GoesOffering ==
  ASSUME NEW s, Fit(s), s.cseq < MaxMods, NEW t \in Sessions,
         NEW method \in {None, "INVITE", "UPDATE"}, NEW sdp \in Sdps,
         t.cseq = s.cseq, t.acks = s.acks, t.out = s.out, t.misled = s.misled, Same200(s, t),
         t.state \in Asking \cup AskingAgain => method = "INVITE",
         t.state \in Offered => t.propLocal # NoSdp,
         t.state \notin ToAnswer,
         "refresh" \notin Kinds /\ Reported(s) => Reported(t)
  PROVE  Goes(s, SendOffering(t, method, sdp))
<1> DEFINE request == Request(method, t.cseq + 1, sdp)
           b == t.stale \/ method = "INVITE"
           u == SendOffering(t, method, sdp)
<1>1. /\ s.cseq \in Nat /\ s.cseq + 1 \in 0..MaxMods
      /\ \A m \in s.acks \cup s.out : m \in Messages /\ m.n \in Nat
  BY FieldTypes
<1>2. /\ request \in Messages /\ request.n = s.cseq + 1 /\ request.code = 0
      /\ request.method = method
  BY <1>1, MessageTypes DEF Request
<1> HIDE DEF request
<1>3. u = [t EXCEPT !.cseq = t.cseq + 1, !.sent = request,
                    !.stale = b, !.out = t.out \cup {request}]
  BY DEF SendOffering, Send, request, Sessions
<1>3b. b \in BOOLEAN
  OBVIOUS
<1> HIDE DEF u, b
<1>4. /\ u \in Sessions
      /\ u.cseq = s.cseq + 1 /\ u.sent = request /\ u.out = s.out \cup {request}
      /\ u.state = t.state /\ u.acks = s.acks /\ u.misled = s.misled
      /\ u.propLocal = t.propLocal /\ u.propRemote = t.propRemote
      /\ u.owed = t.owed /\ u.refresh = t.refresh /\ Same200(s, u)
  <2> DEFINE v == [t EXCEPT !.cseq = t.cseq + 1, !.stale = b]
             out == t.out \cup {request}
  <2>1. u = [v EXCEPT !.sent = request, !.out = out]
    BY <1>3 DEF Sessions
  <2>2. t.cseq + 1 \in 0..MaxMods /\ t \in Sessions
    BY <1>1
  <2>3. v \in Sessions
    BY <1>3b, <2>2 DEF Sessions
  <2>4. out \in SUBSET Messages
    BY <1>1, <1>2
  <2> HIDE DEF v, out
  <2>5. u \in Sessions
    BY <1>2, <2>1, <2>3, <2>4 DEF Sessions
  <2> QED BY <1>1, <1>2, <1>3, <2>2, <2>5 DEF Sessions, Same200
<1>5. Sent(request, u)
  BY <1>1, <1>2, <1>4 DEF Sent, None
<1>6. Fit(u)
  <2>1. \A m \in s.acks \cup s.out : Before(m, s) => Before(m, u)
    BY <1>1, <1>4 DEF Before
  <2>2. \A m \in s.out : Sent(m, u)
    BY <1>1, <1>4, <2>1 DEF Fit, Sent
  <2>3. u.sent.n <= u.cseq
    BY <1>1, <1>2, <1>4
  <2> QED BY <1>2, <1>4, <1>5, <2>1, <2>2, <2>3 DEF Fit, Same200
<1>7. "refresh" \notin Kinds /\ Reported(s) => Reported(u)
  BY <1>4 DEF Reported
<1>8. s.cseq < u.cseq /\ s.cseq <= u.cseq
  BY <1>1, <1>4
<1> QED BY <1>4, <1>6, <1>7, <1>8 DEF Goes, Follows, u

\* An assert.
LEMMA GoesAsserting ==
  ASSUME NEW s, Fit(s), NEW p
  PROVE  /\ Goes(s, Asserting(s, p))
         /\ Asserting(s, p) = [s EXCEPT !.bad = Asserting(s, p).bad]
<1> DEFINE b == s.bad \/ ~p
           t == Asserting(s, p)
<1>0. b \in BOOLEAN /\ t = [s EXCEPT !.bad = b] /\ s \in Sessions
  BY FieldTypes DEF Asserting
<1> HIDE DEF b, t
<1>1. /\ t \in Sessions /\ t = [s EXCEPT !.bad = t.bad]
      /\ t.state = s.state /\ t.cseq = s.cseq /\ t.sent = s.sent /\ t.acks = s.acks
      /\ t.out = s.out /\ t.misled = s.misled /\ t.refresh = s.refresh /\ t.owed = s.owed
      /\ t.propLocal = s.propLocal /\ t.propRemote = s.propRemote /\ Same200(s, t)
  BY <1>0 DEF Sessions, Same200
<1>2. Goes(s, t)
  BY <1>1, GoesLike
<1> QED BY <1>1, <1>2 DEF t

\* The ACK of the last INVITE.
LEMMA GoesAck ==
  ASSUME NEW s, Fit(s), s.state \notin Asking, NEW sdp \in Sdps
  PROVE  LET t == sendAck(s, sdp)
         IN  /\ Goes(s, t) /\ t.state = s.state /\ t.owed = s.owed /\ t.refresh = s.refresh
             /\ t.propLocal = s.propLocal
<1> DEFINE n == IF s.sent.method = "UPDATE" THEN 0 ELSE s.sent.n
           ack == Request("ACK", n, sdp)
           p == /\ \A a \in s.acks : s.sent.method = "UPDATE" \/ a.n # s.sent.n
                /\ s.sent.method = "UPDATE" => s.uac
           b == s.bad \/ ~p
           acks == {a \in s.acks : a.n # n} \cup {ack}
           t == sendAck(s, sdp)
<1>1. /\ s.cseq \in Nat /\ s.sent.n \in Nat /\ s.sent \in Messages /\ s \in Sessions
      /\ s.sent.n <= s.cseq /\ 0 \in 0..MaxMods
  BY FieldTypes DEF Fit
<1>2. n \in 0..MaxMods /\ n \in Nat /\ n <= s.cseq
  BY <1>1, MessageTypes
<1> HIDE DEF n
<1>3. ack \in Messages /\ ack.method = "ACK" /\ ack.code = 0 /\ ack.n = n
  BY <1>2, MessageTypes DEF Request
<1> HIDE DEF ack
<1>4. acks \in SUBSET Messages /\ \A a \in acks : a \in s.acks \/ a = ack
  BY <1>1, <1>3, FieldTypes
<1>5. t = [s EXCEPT !.bad = b, !.acks = acks, !.out = s.out \cup {ack}]
  BY <1>1 DEF sendAck, Asserting, Send, Sessions, ack, n
<1>5b. b \in BOOLEAN
  OBVIOUS
<1> HIDE DEF acks, p, b, t
<1>6. /\ t \in Sessions /\ t.acks = acks /\ t.out = s.out \cup {ack}
      /\ t.state = s.state /\ t.cseq = s.cseq /\ t.sent = s.sent
      /\ t.misled = s.misled /\ t.refresh = s.refresh /\ t.owed = s.owed
      /\ t.propLocal = s.propLocal /\ t.propRemote = s.propRemote /\ Same200(s, t)
  BY <1>1, <1>3, <1>4, <1>5, <1>5b DEF Sessions, Same200
<1>7. Before(ack, t) /\ Sent(ack, t)
  BY <1>1, <1>2, <1>3, <1>6 DEF Before, Sent, isOffering
<1>8. Fit(t)
  BY <1>3, <1>4, <1>6, <1>7 DEF Fit, Before, Sent, Same200
<1>9. Reported(s) => Reported(t)
  BY <1>6 DEF Reported
<1> QED BY <1>1, <1>6, <1>8, <1>9 DEF Goes, Follows, t

\* A 200, to be repeated until its ACK comes.
LEMMA GoesInvite200 ==
  ASSUME NEW s, Fit(s), NEW sdp \in Sdps
  PROVE  Answers(s, sendInvite200(s, sdp)) /\ sendInvite200(s, sdp).state = s.state
<1> DEFINE ok == Response(s.got, 200, sdp)
           w == s.waitAck \cup {s.got.n}
           t == sendInvite200(s, sdp)
<1>1. s \in Sessions /\ s.got \in Messages /\ s.got.n \in 0..MaxMods /\ 200 \in Replies \ {422}
  BY FieldTypes DEF Replies
<1>2. ok \in Messages /\ ok.n = s.got.n /\ Sent(ok, s) /\ Ok(ok)
  <2>1. s.got.method # "ACK"
    BY DEF Fit
  <2>2. /\ ok \in Messages /\ ok.n = s.got.n /\ ok.method = s.got.method /\ ok.code = 200
        /\ Sent(ok, s)
    BY <1>1, <2>1, ResponseTypes, SentAlways
  <2> QED BY <2>1, <2>2 DEF Ok, isOffering
<1>3. t = [s EXCEPT !.ok = ok, !.re200 = TRUE, !.waitAck = w,
                    !.out = s.out \cup {ok}]
  BY <1>1 DEF sendInvite200, Send, Sessions
<1>3b. w \in Waits
  <2>1. s.waitAck \in Waits
    BY <1>1 DEF Sessions
  <2> QED BY <1>1, <2>1 DEF Waits
<1> HIDE DEF ok, w, t
<1>4a. t \in Sessions
  <2> DEFINE out == s.out \cup {ok}
             u == [s EXCEPT !.ok = ok]
  <2>1. out \in SUBSET Messages
    BY <1>2, FieldTypes
  <2>2. u \in Sessions
    BY <1>1, <1>2 DEF Sessions
  <2>3. t = [u EXCEPT !.re200 = TRUE, !.waitAck = w, !.out = out]
    BY <1>1, <1>3 DEF Sessions
  <2> HIDE DEF out, u
  <2> QED BY <1>3b, <2>1, <2>2, <2>3 DEF Sessions
<1>4. /\ t \in Sessions /\ t.out = s.out \cup {ok} /\ t.ok = ok /\ t.re200 /\ t.got = s.got
      /\ t.state = s.state /\ t.cseq = s.cseq /\ t.sent = s.sent /\ t.acks = s.acks
      /\ t.misled = s.misled /\ t.refresh = s.refresh /\ t.owed = s.owed
      /\ t.propLocal = s.propLocal /\ t.propRemote = s.propRemote
  BY <1>1, <1>3, <1>4a DEF Sessions
<1>5. Fit(t)
  BY <1>2, <1>4 DEF Fit, Before, Sent
<1>6. Reported(s) => Reported(t)
  BY <1>4 DEF Reported
<1>7. s.cseq <= t.cseq
  BY <1>4, FieldTypes
<1> QED BY <1>2, <1>4, <1>5, <1>6, <1>7 DEF Answers, Follows, t

\* The session is over.
LEMMA GoesHangup ==
  ASSUME NEW s, Fit(s)
  PROVE  Goes(s, Hangup(s)) /\ Goes(s, [s EXCEPT !.state = "Terminated", !.owed = FALSE])
<1> DEFINE t == [s EXCEPT !.state = "Terminated", !.owed = FALSE]
<1>1. s \in Sessions /\ "Terminated" \in States
  BY FieldTypes, StateNames
<1>2. /\ t \in Sessions /\ t.state = "Terminated" /\ ~t.owed
      /\ t.cseq = s.cseq /\ t.sent = s.sent /\ t.acks = s.acks
      /\ t.out = s.out /\ t.misled = s.misled /\ t.refresh = s.refresh
      /\ t.propLocal = s.propLocal /\ t.propRemote = s.propRemote /\ Same200(s, t)
  BY <1>1 DEF Sessions, Same200
<1>3. Request("BYE", 0, NoSdp) \in Messages
  BY MessageTypes, FieldTypes, SdpTypes
<1>4. Hangup(s) = Send(t, Request("BYE", 0, NoSdp))
  BY DEF Hangup
<1> HIDE DEF t
<1>5. Goes(s, t)
  BY <1>2, GoesSilently, StateNames DEF Reported
<1>6. Goes(t, Send(t, Request("BYE", 0, NoSdp)))
  BY <1>3, <1>5, GoesSend, SentAlways DEF Goes, Follows
<1> QED BY <1>4, <1>5, <1>6, GoesFar DEF t

\* The offer is off the table.
LEMMA GoesOfferOver ==
  ASSUME NEW s, Fit(s)
  PROVE  Goes(s, offerOver(s)) /\ offerOver(s).state = "Connected"
<1> DEFINE t == offerOver(s)
<1>1. s \in Sessions /\ "Connected" \in States /\ NoSdp \in Sdps
  BY FieldTypes, StateNames, SdpTypes
<1>2. /\ t \in Sessions /\ t.state = "Connected" /\ ~t.owed
      /\ t.cseq = s.cseq /\ t.sent = s.sent /\ t.acks = s.acks
      /\ t.out = s.out /\ t.misled = s.misled /\ t.refresh = s.refresh
      /\ t.propRemote = s.propRemote /\ Same200(s, t)
  BY <1>1 DEF Sessions, Same200, offerOver
<1> HIDE DEF t
<1>3. Goes(s, t)
  BY <1>2, GoesSilently, StateNames DEF Reported
<1> QED BY <1>2, <1>3 DEF t

\* A handler that leaves the 200 alone, then the 200.
LEMMA AnswersAfter ==
  ASSUME NEW s, NEW t, NEW u, Fit(s), Goes(s, t), Answers(t, u)
  PROVE  Answers(s, u)
<1>1. Fit(t) /\ Fit(u)
  BY DEF Goes, Answers, Follows
<1>2. s.cseq \in Nat /\ t.cseq \in Nat /\ u.cseq \in Nat
  BY <1>1, FieldTypes
<1> QED BY <1>1, <1>2 DEF Goes, Answers, Follows, Same200

\* The state changes, and the application need not be called back.
LEMMA GoesBecome ==
  ASSUME NEW s, Fit(s), NEW state \in States,
         state \in Asking => s.state = state,
         state \in AskingAgain => s.state \in Asking \cup AskingAgain,
         state \in Offered => s.propLocal # NoSdp,
         state \in ToAnswer => s.propRemote # NoSdp,
         s.owed => state \in Owing \/ s.state \notin Owing,
         state \in {"SentUpdate", "SentUpdateGlare"} => s.state \in {"SentUpdate", "SentUpdateGlare"}
  PROVE  Goes(s, Become(s, state)) /\ Become(s, state).state = state
<1> DEFINE t == Become(s, state)
<1>1. /\ t \in Sessions /\ t.state = state /\ t.owed = s.owed
      /\ t.cseq = s.cseq /\ t.sent = s.sent /\ t.acks = s.acks
      /\ t.out = s.out /\ t.misled = s.misled /\ t.refresh = s.refresh
      /\ t.propLocal = s.propLocal /\ t.propRemote = s.propRemote /\ Same200(s, t)
  BY FieldTypes DEF Sessions, Same200, Become
<1> HIDE DEF t
<1>2. Reported(s) => Reported(t)
  BY <1>1 DEF Reported
<1>3. Goes(s, t)
  BY <1>1, <1>2, GoesSilently
<1> QED BY <1>1, <1>3 DEF t

\* A response to the last request received.
LEMMA GoesRespond ==
  ASSUME NEW s, Fit(s), NEW m \in Messages, m.method # "ACK",
         NEW code \in Replies \ {422}, NEW sdp \in Sdps
  PROVE  LET t == Send(s, Response(m, code, sdp)) IN Goes(s, t) /\ t.state = s.state
BY GoesSend, SentAlways, ResponseTypes

-----------------------------------------------------------------------------
(* Calls of the application. *)

\* requestOffer.
LEMMA GoesRequestOffer ==
  ASSUME NEW s, Fit(s), s.cseq < MaxMods
  PROVE  Goes(s, requestOffer(s))
<1> DEFINE t == [s EXCEPT !.state = "SentReinviteNoOffer", !.owed = TRUE]
<1>1. s \in Sessions /\ "SentReinviteNoOffer" \in States /\ NoSdp \in Sdps
  BY FieldTypes, SdpTypes DEF States
<1>2. /\ t \in Sessions /\ t.state = "SentReinviteNoOffer"
      /\ t.cseq = s.cseq /\ t.sent = s.sent /\ t.acks = s.acks
      /\ t.out = s.out /\ t.misled = s.misled /\ t.refresh = s.refresh
      /\ Same200(s, t)
  BY <1>1 DEF Sessions, Same200
<1>3. requestOffer(s) = SendOffering(t, "INVITE", NoSdp)
  BY DEF requestOffer
<1> HIDE DEF t
<1>4. t.state \notin Offered /\ t.state \notin ToAnswer /\ t.state \in Owing
  BY <1>2 DEF Offered, ToAnswer, Owing, Asking
<1>5. Reported(s) => Reported(t)
  BY <1>2, <1>4 DEF Reported
<1> QED BY <1>1, <1>2, <1>3, <1>4, <1>5, GoesOffering

\* The offer is made, in the state of the request it goes with.
Offers(s, offer, b, state) ==
  [s EXCEPT !.propLocal = offer, !.owed = TRUE, !.bad = b, !.state = state]

\* What making the offer changes, whatever request it goes with.
LEMMA Offering ==
  ASSUME NEW s, Fit(s), NEW offer \in Sdps \ {NoSdp}, NEW b \in BOOLEAN,
         NEW state \in {"SentUpdate", "SentReinvite", "ReceivedReinviteSentOffer"},
         NEW t, t = Offers(s, offer, b, state)
  PROVE  /\ t \in Sessions /\ t.state = state /\ t.propLocal # NoSdp /\ t.owed
         /\ t.cseq = s.cseq /\ t.sent = s.sent /\ t.acks = s.acks
         /\ t.out = s.out /\ t.misled = s.misled /\ t.refresh = s.refresh
         /\ t.update = s.update /\ Same200(s, t)
         /\ Reported(s) => Reported(t)
         /\ t.state \notin ToAnswer \cup AskingAgain
<1> DEFINE u == [s EXCEPT !.propLocal = offer, !.owed = TRUE]
<1>0. t = [s EXCEPT !.propLocal = offer, !.owed = TRUE, !.bad = b, !.state = state]
  BY DEF Offers
<1>1. s \in Sessions /\ state \in States /\ offer \in Sdps /\ offer # NoSdp
  BY FieldTypes DEF States
<1>2. u \in Sessions
  BY <1>1 DEF Sessions
<1>3. t = [u EXCEPT !.bad = b, !.state = state]
  BY <1>0, <1>1 DEF Sessions
<1>4. t \in Sessions
  <2> DEFINE v == [u EXCEPT !.bad = b]
  <2>1. t = [v EXCEPT !.state = state]
    BY <1>2, <1>3 DEF Sessions
  <2> HIDE DEF u
  <2>2. v \in Sessions
    BY <1>1, <1>2 DEF Sessions
  <2> HIDE DEF v
  <2> QED BY <1>1, <2>1, <2>2 DEF Sessions
<1>5. /\ t.state = state /\ t.propLocal # NoSdp /\ t.owed
      /\ t.cseq = s.cseq /\ t.sent = s.sent /\ t.acks = s.acks
      /\ t.out = s.out /\ t.misled = s.misled /\ t.refresh = s.refresh
      /\ t.update = s.update /\ Same200(s, t)
  BY <1>0, <1>1 DEF Sessions, Same200
<1>6. Reported(s) => Reported(t)
  BY <1>5 DEF Reported, Owing, Asking
<1>7. state \notin ToAnswer \cup AskingAgain
  BY DEF ToAnswer, AskingAgain
<1> QED BY <1>1, <1>4, <1>5, <1>6, <1>7

\* provideOffer: a 200 with the offer, an UPDATE or a re-INVITE.
LEMMA GoesProvideOffer ==
  ASSUME NEW s, Fit(s), NEW offer \in Sdps \ {NoSdp},
         s.state # "ReceivedReinviteNoOffer" => s.cseq < MaxMods
  PROVE  LET t == provideOffer(s, offer)
         IN  IF s.state = "ReceivedReinviteNoOffer" THEN Answers(s, t) ELSE Goes(s, t)
<1>1. s \in Sessions /\ s.bad \in BOOLEAN /\ offer \in Sdps
  BY FieldTypes DEF Sessions
<1>2. CASE s.state = "ReceivedReinviteNoOffer"
  <2> DEFINE b == s.bad \/ ~(s.propRemote = NoSdp)
             u == Offers(s, offer, b, "ReceivedReinviteSentOffer")
  <2>1. b \in BOOLEAN
    OBVIOUS
  <2>2. provideOffer(s, offer) = sendInvite200(u, offer)
    BY <1>1, <1>2 DEF provideOffer, Offers, Asserting, Become, Sessions
  <2> HIDE DEF b
  <2>3. /\ u \in Sessions /\ u.state = "ReceivedReinviteSentOffer" /\ u.propLocal # NoSdp /\ u.owed
        /\ u.cseq = s.cseq /\ u.sent = s.sent /\ u.acks = s.acks
        /\ u.out = s.out /\ u.misled = s.misled /\ u.refresh = s.refresh
        /\ Same200(s, u) /\ (Reported(s) => Reported(u))
        /\ u.state \notin ToAnswer \cup AskingAgain
    BY <2>1, Offering
  <2>4. Goes(s, u)
    BY <2>3, GoesSilently DEF Asking
  <2>5. Answers(u, sendInvite200(u, offer))
    BY <1>1, <2>4, GoesInvite200 DEF Goes, Follows
  <2> QED BY <1>2, <2>2, <2>4, <2>5, AnswersAfter
<1>3. CASE s.state # "ReceivedReinviteNoOffer" /\ s.update
  <2> DEFINE u == Offers(s, offer, s.bad, "SentUpdate")
  <2>1. provideOffer(s, offer) = SendOffering(u, "UPDATE", offer)
    BY <1>1, <1>3 DEF provideOffer, Offers, Become, Sessions
  <2>2. /\ u \in Sessions /\ u.state = "SentUpdate" /\ u.propLocal # NoSdp /\ u.owed
        /\ u.cseq = s.cseq /\ u.acks = s.acks
        /\ u.out = s.out /\ u.misled = s.misled
        /\ Same200(s, u) /\ (Reported(s) => Reported(u))
        /\ u.state \notin ToAnswer \cup AskingAgain
    BY <1>1, Offering
  <2> QED BY <1>1, <1>3, <2>1, <2>2, GoesOffering DEF Asking
<1>4. CASE s.state # "ReceivedReinviteNoOffer" /\ ~s.update
  <2> DEFINE u == Offers(s, offer, s.bad, "SentReinvite")
  <2>1. provideOffer(s, offer) = SendOffering(u, "INVITE", offer)
    BY <1>1, <1>4 DEF provideOffer, Offers, Become, Sessions
  <2>2. /\ u \in Sessions /\ u.state = "SentReinvite" /\ u.propLocal # NoSdp /\ u.owed
        /\ u.cseq = s.cseq /\ u.acks = s.acks
        /\ u.out = s.out /\ u.misled = s.misled
        /\ Same200(s, u) /\ (Reported(s) => Reported(u))
        /\ u.state \notin ToAnswer \cup AskingAgain
    BY <1>1, Offering
  <2> QED BY <1>1, <1>4, <2>1, <2>2, GoesOffering DEF Asking
<1> QED BY <1>2, <1>3, <1>4

\* Both ends have their SDP.
LEMMA GoesWithAnswer ==
  ASSUME NEW s, Fit(s), s.state \in ToAnswer, NEW answer \in Sdps \ {NoSdp}
  PROVE  Goes(s, withAnswer(s, answer)) /\ withAnswer(s, answer).state = "Connected"
<1> DEFINE u == [s EXCEPT !.state = "Connected", !.local = answer]
           t == withAnswer(s, answer)
<1>1. /\ s \in Sessions /\ "Connected" \in States /\ NoSdp \in Sdps
      /\ s.propRemote \in Sdps \ {NoSdp}
  BY FieldTypes, StateNames, SdpTypes DEF Fit
<1>2. u \in Sessions
  BY <1>1 DEF Sessions
<1>3. t = [u EXCEPT !.remote = s.propRemote, !.propRemote = NoSdp]
  BY <1>1 DEF withAnswer, Sessions
<1>4. t \in Sessions
  <2> DEFINE v == [u EXCEPT !.remote = s.propRemote]
  <2>1. t = [v EXCEPT !.propRemote = NoSdp]
    BY <1>2, <1>3 DEF Sessions
  <2> HIDE DEF u, t
  <2>2. v \in Sessions
    BY <1>1, <1>2 DEF Sessions
  <2> HIDE DEF v
  <2> QED BY <1>1, <2>1, <2>2 DEF Sessions
<1>5. /\ t.state = "Connected" /\ t.owed = s.owed
      /\ t.cseq = s.cseq /\ t.sent = s.sent /\ t.acks = s.acks
      /\ t.out = s.out /\ t.misled = s.misled /\ t.refresh = s.refresh
      /\ Same200(s, t)
  BY <1>1 DEF Sessions, Same200, withAnswer
<1> HIDE DEF t
<1>6. Reported(s) => Reported(t)
  BY <1>5, StateNames DEF Reported, ToAnswer
<1>7. Goes(s, t)
  BY <1>4, <1>5, <1>6, GoesSilently, StateNames
<1> QED BY <1>5, <1>7 DEF t

\* provideAnswer: a repeated 200, the 200 of an UPDATE, or an ACK with the answer.
LEMMA GoesProvideAnswer ==
  ASSUME NEW s, Fit(s), s.state \in ToAnswer, NEW answer \in Sdps \ {NoSdp}
  PROVE  Goes(s, provideAnswer(s, answer)) \/ Answers(s, provideAnswer(s, answer))
<1> DEFINE t == withAnswer(s, answer)
<1>1. Goes(s, t) /\ t.state = "Connected" /\ Fit(t)
  BY GoesWithAnswer DEF Goes, Follows
<1>2. answer \in Sdps /\ s.got \in Messages /\ s.got.method # "ACK" /\ 200 \in Replies \ {422}
  BY FieldTypes DEF Fit, Replies
<1> HIDE DEF t
<1>3. CASE s.state = "ReceivedReinvite"
  <2>1. provideAnswer(s, answer) = sendInvite200(t, answer)
    BY <1>3 DEF provideAnswer, t
  <2>2. Answers(t, sendInvite200(t, answer))
    BY <1>1, <1>2, GoesInvite200
  <2> QED BY <1>1, <2>1, <2>2, AnswersAfter
<1>4. CASE s.state = "ReceivedUpdate"
  <2>1. provideAnswer(s, answer) = Send(t, Response(s.got, 200, answer))
    BY <1>4 DEF provideAnswer, t
  <2>2. Goes(t, Send(t, Response(s.got, 200, answer)))
    BY <1>1, <1>2, GoesRespond
  <2> QED BY <1>1, <2>1, <2>2, GoesFar
<1>5. CASE s.state = "SentReinviteAnswered"
  <2>1. provideAnswer(s, answer) = sendAck(t, answer)
    BY <1>5 DEF provideAnswer, t
  <2>2. Goes(t, sendAck(t, answer))
    BY <1>1, <1>2, GoesAck, StateNames
  <2> QED BY <1>1, <2>1, <2>2, GoesFar
<1> QED BY <1>3, <1>4, <1>5 DEF ToAnswer

\* reject.
LEMMA GoesReject ==
  ASSUME NEW s, Fit(s), s.state \in Undecided
  PROVE  Goes(s, reject(s))
<1> DEFINE t == Become(s, "Connected")
<1>1. s.state \notin Owing
  BY StateNames DEF Undecided
<1>2. Goes(s, t) /\ Fit(t) /\ t.got = s.got
  BY <1>1, GoesBecome, StateNames DEF Goes, Follows, Same200
<1>3. /\ s.got \in Messages /\ s.got.method # "ACK" /\ 488 \in Replies \ {422}
      /\ NoSdp \in Sdps
  BY FieldTypes, SdpTypes DEF Fit, Replies
<1> HIDE DEF t
<1>4. reject(s) = Send(t, Response(s.got, 488, NoSdp))
  BY DEF reject, t
<1>5. Goes(t, Send(t, Response(s.got, 488, NoSdp)))
  BY <1>2, <1>3, GoesRespond
<1> QED BY <1>2, <1>4, <1>5, GoesFar

\* end, in any state.
LEMMA GoesEnd ==
  ASSUME NEW s, Fit(s)
  PROVE  Goes(s, end(s))
<1>1. CASE s.state \in Asking
  <2>1. end(s) = Become(s, "WaitingToTerminate")
    BY <1>1, ZenonT(60) DEF end, Asking, Undecided
  <2>2. "WaitingToTerminate" \in States /\ "WaitingToTerminate" \in Owing
        /\ "WaitingToTerminate" \notin Asking \cup AskingAgain \cup Offered \cup ToAnswer
    BY StateNames DEF Owing, Offered
  <2>3. Goes(s, Become(s, "WaitingToTerminate"))
    BY <2>2, GoesBecome
  <2> QED BY <2>1, <2>3
<1>2. CASE s.state = "ReceivedReinviteSentOffer" /\ s.re200
  <2>1. end(s) = Become(s, "WaitingToHangup")
    <3>1. /\ s.state \notin {"SentReinvite", "SentReinviteNoOffer"} /\ s.state \notin Undecided
          /\ s.state # "Terminated" /\ s.state # "WaitingToHangup"
      BY <1>2 DEF Undecided
    <3> QED BY <1>2, <3>1, ZenonT(60) DEF end
  <2>2. "WaitingToHangup" \in States /\ "WaitingToHangup" \in Owing
        /\ "WaitingToHangup" \notin Asking \cup AskingAgain \cup Offered \cup ToAnswer
    BY StateNames DEF Owing, Offered
  <2>3. Goes(s, Become(s, "WaitingToHangup"))
    BY <2>2, GoesBecome
  <2> QED BY <2>1, <2>3
<1>3. CASE s.state \in Undecided
  <2> DEFINE u == Send(s, Response(s.got, 488, NoSdp))
  <2>1. end(s) = Hangup(u)
    BY <1>3, ZenonT(60) DEF end, Undecided
  <2>2. /\ s.got \in Messages /\ s.got.method # "ACK" /\ 488 \in Replies \ {422}
        /\ NoSdp \in Sdps
    BY FieldTypes, SdpTypes DEF Fit, Replies
  <2>3. Goes(s, u) /\ Fit(u)
    BY <2>2, GoesRespond DEF Goes, Follows
  <2> HIDE DEF u
  <2>4. Goes(u, Hangup(u))
    BY <2>3, GoesHangup
  <2> QED BY <2>1, <2>3, <2>4, GoesFar
<1>4. CASE s.state = "Terminated"
  BY <1>4, GoesOn DEF end, Undecided
<1>5. CASE s.state = "WaitingToHangup"
  <2>1. end(s) = Asserting(s, FALSE)
    BY <1>5 DEF end, Undecided
  <2>2. Goes(s, Asserting(s, FALSE))
    BY GoesAsserting
  <2> QED BY <2>1, <2>2
<1>6. CASE /\ s.state \notin Asking \cup Undecided \cup {"Terminated", "WaitingToHangup"}
           /\ ~(s.state = "ReceivedReinviteSentOffer" /\ s.re200)
  <2>1. s.re200 \in BOOLEAN
    BY FieldTypes
  <2>2. end(s) = Hangup(s)
    <3>1. CASE s.state # "ReceivedReinviteSentOffer"
      BY <1>6, <3>1, ZenonT(60) DEF end, Asking, Undecided
    <3>2. CASE s.state = "ReceivedReinviteSentOffer"
      BY <1>6, <3>2, ZenonT(60) DEF end, Asking, Undecided
    <3> QED BY <3>1, <3>2
  <2> QED BY <2>2, GoesHangup
<1> QED BY <1>1, <1>2, <1>3, <1>4, <1>5, <1>6

\* sessionRefresh, which only sessions with a session timer do.
LEMMA GoesRefresh ==
  ASSUME NEW s, Fit(s), s.cseq < MaxMods, "refresh" \in Kinds
  PROVE  Goes(s, sessionRefresh(s))
<1>1. s \in Sessions /\ NoSdp \in Sdps /\ s.local \in Sdps \ {NoSdp}
  BY FieldTypes, SdpTypes
<1>2. CASE s.update
  <2> DEFINE t == Become(s, "SentUpdate")
  <2>1. sessionRefresh(s) = SendOffering(t, "UPDATE", NoSdp)
    BY <1>2 DEF sessionRefresh
  <2>2. /\ t \in Sessions /\ t.state = "SentUpdate"
        /\ t.cseq = s.cseq /\ t.acks = s.acks
        /\ t.out = s.out /\ t.misled = s.misled /\ Same200(s, t)
    BY <1>1, StateNames DEF Sessions, Same200, Become
  <2>3. t.state \notin Asking \cup AskingAgain \cup Offered \cup ToAnswer
    BY <2>2 DEF Asking, AskingAgain, Offered, ToAnswer
  <2> HIDE DEF t
  <2> QED BY <1>1, <2>1, <2>2, <2>3, GoesOffering
<1>3. CASE ~s.update
  <2> DEFINE t == [s EXCEPT !.state = "SentReinvite", !.propLocal = s.local, !.refresh = TRUE]
  <2>1. sessionRefresh(s) = SendOffering(t, "INVITE", s.local)
    BY <1>3 DEF sessionRefresh
  <2>2. "SentReinvite" \in States /\ s.local \in Sdps /\ s.local # NoSdp
    BY <1>1 DEF States
  <2>3. t \in Sessions
    BY <1>1, <2>2 DEF Sessions
  <2>4. /\ t.state = "SentReinvite" /\ t.propLocal # NoSdp
        /\ t.cseq = s.cseq /\ t.acks = s.acks
        /\ t.out = s.out /\ t.misled = s.misled /\ Same200(s, t)
    BY <1>1, <2>2 DEF Sessions, Same200
  <2>5. t.state \notin ToAnswer
    BY <2>4 DEF ToAnswer
  <2> HIDE DEF t
  <2> QED BY <1>1, <2>1, <2>2, <2>3, <2>4, <2>5, GoesOffering
<1> QED BY <1>2, <1>3

-----------------------------------------------------------------------------
(* Messages from the other end. *)

\* A message that changes neither the 200 nor the request that is remembered.
LEMMA HearsGoes ==
  ASSUME NEW s, NEW t, NEW m, Goes(s, t)
  PROVE  Hears(s, t, m)
BY DEF Goes, Hears, Same200

\* A handler, then the message.
LEMMA HearsAfter ==
  ASSUME NEW s, NEW t, NEW u, NEW m, Fit(s), Goes(s, t), Hears(t, u, m)
  PROVE  Hears(s, u, m)
<1>1. Fit(t) /\ Fit(u)
  BY DEF Goes, Hears, Follows
<1>2. s.cseq \in Nat /\ t.cseq \in Nat /\ u.cseq \in Nat
  BY <1>1, FieldTypes
<1>3. Follows(s, u)
  BY <1>1, <1>2 DEF Goes, Hears, Follows
<1> QED BY <1>3 DEF Goes, Hears, Same200

\* The message, then a handler.
LEMMA HearsBefore ==
  ASSUME NEW s, NEW t, NEW u, NEW m, Fit(s), Hears(s, t, m), Goes(t, u)
  PROVE  Hears(s, u, m)
<1>1. Fit(t) /\ Fit(u)
  BY DEF Goes, Hears, Follows
<1>2. s.cseq \in Nat /\ t.cseq \in Nat /\ u.cseq \in Nat
  BY <1>1, FieldTypes
<1>3. Follows(s, u)
  BY <1>1, <1>2 DEF Goes, Hears, Follows
<1>4. t.misled => u.misled
  BY DEF Goes, Follows
<1> QED BY <1>3, <1>4 DEF Goes, Hears, Same200

\* dispatchOthers.
LEMMA GoesOthers ==
  ASSUME NEW s, Fit(s), NEW m
  PROVE  Goes(s, dispatchOthers(s, m))
<1>1. Goes(s, Asserting(s, FALSE))
  BY GoesAsserting
<1> QED BY <1>1, GoesOn, GoesHangup DEF dispatchOthers

\* An ACK.
LEMMA HearsAck ==
  ASSUME NEW s, Fit(s), NEW m \in Messages, m.method = "ACK"
  PROVE  Hears(s, gotAck(s, m), m) /\ gotAck(s, m).state = s.state
<1> DEFINE b == s.misled \/ (s.re200 /\ m.n # s.ok.n)
           t == gotAck(s, m)
<1>1. s \in Sessions /\ s.misled \in BOOLEAN /\ s.re200 \in BOOLEAN
  BY FieldTypes DEF Sessions
<1>2. b \in BOOLEAN /\ t = [s EXCEPT !.re200 = FALSE, !.misled = b]
  BY <1>1 DEF gotAck
<1>3. (s.misled => b) /\ (s.re200 => b \/ m.n = s.ok.n)
  OBVIOUS
<1> HIDE DEF b, t
<1>4. /\ t \in Sessions /\ t.misled = b /\ t.state = s.state
      /\ t.cseq = s.cseq /\ t.sent = s.sent /\ t.acks = s.acks
      /\ t.out = s.out /\ t.refresh = s.refresh /\ t.owed = s.owed
      /\ t.propLocal = s.propLocal /\ t.propRemote = s.propRemote
      /\ t.got = s.got /\ t.ok = s.ok
  BY <1>1, <1>2 DEF Sessions
<1>5. Reported(s) => Reported(t)
  BY <1>4 DEF Reported
<1>6. Fit(t)
  BY <1>4 DEF Fit, Sent, Before
<1>7. s.cseq <= t.cseq
  BY <1>4, FieldTypes
<1>8. Follows(s, t)
  BY <1>3, <1>4, <1>5, <1>6, <1>7 DEF Follows
<1> QED BY <1>3, <1>4, <1>8 DEF Hears, t

\* A request is remembered.
LEMMA HearsRequest ==
  ASSUME NEW s, Fit(s), NEW m \in Messages, isOffering(m), NEW t \in Sessions,
         t.cseq = s.cseq, t.sent = s.sent, t.acks = s.acks, t.out = s.out,
         t.misled = s.misled, t.got = m, t.ok = s.ok, t.re200 = s.re200,
         t.state \in Asking => s.state = t.state,
         t.state \in AskingAgain => s.state \in Asking \cup AskingAgain,
         t.state \in Offered => t.propLocal # NoSdp,
         t.state \in ToAnswer => t.propRemote # NoSdp,
         "refresh" \notin Kinds /\ Reported(s) => Reported(t)
  PROVE  Hears(s, t, m)
<1>1. s.cseq <= t.cseq
  BY FieldTypes
<1>2. Fit(t)
  BY DEF Fit, Sent, Before, isOffering
<1> QED BY <1>1, <1>2 DEF Hears, Follows

\* Without an offer under way, or told that there is none.
Untroubled(s) ==
  /\ s.state \notin Asking
  /\ "refresh" \notin Kinds /\ Reported(s) => ~s.owed

\* dispatchConnected.
LEMMA HearsConnected ==
  ASSUME NEW s, Fit(s), Untroubled(s), NEW m \in Messages
  PROVE  Hears(s, dispatchConnected(s, m), m)
<1>1. /\ s \in Sessions /\ m.sdp \in Sdps /\ NoSdp \in Sdps
      /\ {"ReceivedReinviteNoOffer", "ReceivedReinvite", "ReceivedUpdate"} \subseteq
           States \ (Asking \cup AskingAgain \cup Offered \cup {"SentUpdate", "SentUpdateGlare"})
      /\ "ReceivedReinviteNoOffer" \notin ToAnswer /\ 200 \in Replies \ {422}
  BY FieldTypes, MessageTypes, SdpTypes
     DEF States, Asking, AskingAgain, Offered, ToAnswer, Replies
<1> DEFINE t == dispatchConnected(s, m)
<1>2. CASE m.method = "INVITE" /\ m.code = 0 /\ m.sdp = NoSdp
  <2>1. t = [s EXCEPT !.state = "ReceivedReinviteNoOffer", !.got = m]
    BY <1>2 DEF dispatchConnected
  <2> HIDE DEF t
  <2>2. t \in Sessions
    <3>1. s \in Sessions /\ "ReceivedReinviteNoOffer" \in States
      BY <1>1
    <3> QED BY <2>1, <3>1 DEF Sessions
  <2>3. /\ t.state = "ReceivedReinviteNoOffer" /\ t.got = m /\ t.owed = s.owed
        /\ t.cseq = s.cseq /\ t.sent = s.sent /\ t.acks = s.acks
        /\ t.out = s.out /\ t.misled = s.misled /\ t.refresh = s.refresh
        /\ t.ok = s.ok /\ t.re200 = s.re200
    BY <1>1, <2>1 DEF Sessions
  <2>4. "refresh" \notin Kinds /\ Reported(s) => Reported(t)
    BY <1>1, <2>3 DEF Reported, Untroubled
  <2>5. Hears(s, t, m)
    BY <1>1, <1>2, <2>2, <2>3, <2>4, HearsRequest DEF isOffering
  <2> QED BY <2>5 DEF t
<1>3. ASSUME NEW state \in {"ReceivedReinvite", "ReceivedUpdate"}, isOffering(m), m.sdp # NoSdp,
             t = [s EXCEPT !.state = state, !.got = m, !.propRemote = m.sdp]
      PROVE  Hears(s, t, m)
  <2> HIDE DEF t
  <2> DEFINE u == [s EXCEPT !.state = state, !.got = m]
  <2>0. s \in Sessions /\ state \in States /\ m.sdp \in Sdps
    BY <1>1
  <2>1. u \in Sessions
    BY <2>0 DEF Sessions
  <2>2. t \in Sessions
    <3>1. t = [u EXCEPT !.propRemote = m.sdp]
      BY <1>3, <2>0 DEF Sessions
    <3> HIDE DEF u
    <3> QED BY <2>0, <2>1, <3>1 DEF Sessions
  <2>3. /\ t.state = state /\ t.got = m /\ t.owed = s.owed /\ t.propRemote = m.sdp
        /\ t.cseq = s.cseq /\ t.sent = s.sent /\ t.acks = s.acks
        /\ t.out = s.out /\ t.misled = s.misled /\ t.refresh = s.refresh
        /\ t.ok = s.ok /\ t.re200 = s.re200
    BY <1>1, <1>3 DEF Sessions
  <2>4. "refresh" \notin Kinds /\ Reported(s) => Reported(t)
    BY <1>1, <2>3 DEF Reported, Untroubled
  <2>5. /\ t.state \notin Asking \cup AskingAgain \cup Offered
        /\ t.propRemote # NoSdp /\ isOffering(m)
    BY <1>1, <1>3, <2>3
  <2> QED BY <2>2, <2>3, <2>4, <2>5, HearsRequest
<1>4. CASE m.method = "INVITE" /\ m.code = 0 /\ m.sdp # NoSdp
  BY <1>3, <1>4 DEF dispatchConnected, isOffering
<1>5. CASE m.method = "INVITE" /\ m.code = 200
  <2>1. t = sendAck(s, NoSdp)
    BY <1>5 DEF dispatchConnected
  <2> HIDE DEF t
  <2>2. Goes(s, sendAck(s, NoSdp))
    BY <1>1, GoesAck DEF Untroubled
  <2>3. Hears(s, t, m)
    BY <2>1, <2>2, HearsGoes
  <2> QED BY <2>3 DEF t
<1>6. CASE m.method = "UPDATE" /\ m.code = 0 /\ m.sdp = NoSdp
  <2> DEFINE u == [s EXCEPT !.got = m]
  <2>1. t = Send(u, Response(m, 200, NoSdp))
    BY <1>6 DEF dispatchConnected
  <2> HIDE DEF t
  <2>2. /\ u \in Sessions /\ u.state = s.state /\ u.got = m /\ u.owed = s.owed
        /\ u.propLocal = s.propLocal /\ u.propRemote = s.propRemote
        /\ u.cseq = s.cseq /\ u.sent = s.sent /\ u.acks = s.acks
        /\ u.out = s.out /\ u.misled = s.misled /\ u.refresh = s.refresh
        /\ u.ok = s.ok /\ u.re200 = s.re200
    BY <1>1 DEF Sessions
  <2> HIDE DEF u
  <2>3. Reported(s) => Reported(u)
    BY <2>2 DEF Reported
  <2>4. Hears(s, u, m)
    BY <1>6, <2>2, <2>3, HearsRequest DEF isOffering, Fit
  <2>5. Goes(u, t)
    BY <1>1, <1>6, <2>1, <2>4, GoesRespond DEF Hears, Follows
  <2>6. Hears(s, t, m)
    BY <2>4, <2>5, HearsBefore
  <2> QED BY <2>6 DEF t
<1>7. CASE m.method = "UPDATE" /\ m.code = 0 /\ m.sdp # NoSdp
  BY <1>3, <1>7 DEF dispatchConnected, isOffering
<1>8. CASE m.method = "ACK"
  BY <1>8, HearsAck DEF dispatchConnected
<1>9. CASE ~(\/ m.method = "INVITE" /\ m.code \in {0, 200}
             \/ m.method = "UPDATE" /\ m.code = 0
             \/ m.method = "ACK")
  <2>1. t = dispatchOthers(s, m)
    BY <1>9 DEF dispatchConnected
  <2> QED BY <2>1, GoesOthers, HearsGoes
<1> QED BY <1>2, <1>4, <1>5, <1>6, <1>7, <1>8, <1>9

\* The offer is answered, and whom it concerns is told.
Answered(s, m, refresh, owed) ==
  [offerAnswered(s, m) EXCEPT !.refresh = refresh, !.owed = owed]

\* offerAnswered, with what its callers set.
LEMMA GoesAnswered ==
  ASSUME NEW s, Fit(s), s.propLocal # NoSdp, NEW m \in Messages, m.sdp # NoSdp,
         NEW refresh \in BOOLEAN, NEW owed \in BOOLEAN,
         "refresh" \notin Kinds /\ Reported(s) => refresh = FALSE /\ owed = FALSE
  PROVE  LET t == Answered(s, m, refresh, owed)
         IN  /\ Goes(s, t) /\ Fit(t) /\ t.state = "Connected"
             /\ t = [offerAnswered(s, m) EXCEPT !.refresh = refresh, !.owed = owed]
<1> DEFINE b == s.bad \/ ~(s.propLocal # NoSdp)
           u == [s EXCEPT !.bad = b, !.state = "Connected"]
           v == [u EXCEPT !.local = s.propLocal, !.propLocal = NoSdp]
           w == [v EXCEPT !.remote = m.sdp, !.refresh = refresh]
           t == Answered(s, m, refresh, owed)
<1>1. /\ s \in Sessions /\ "Connected" \in States /\ NoSdp \in Sdps
      /\ s.propLocal \in Sdps \ {NoSdp} /\ m.sdp \in Sdps \ {NoSdp}
  BY FieldTypes, StateNames, SdpTypes, MessageTypes
<1>2. b \in BOOLEAN
  OBVIOUS
<1>3. /\ t = [w EXCEPT !.owed = owed]
      /\ t.state = "Connected" /\ t.owed = owed /\ t.refresh = refresh
      /\ t.cseq = s.cseq /\ t.sent = s.sent /\ t.acks = s.acks
      /\ t.out = s.out /\ t.misled = s.misled /\ Same200(s, t)
  BY <1>1 DEF Answered, offerAnswered, Asserting, Sessions, Same200
<1> HIDE DEF b
<1>4. u \in Sessions /\ u.propLocal = s.propLocal
  BY <1>1, <1>2 DEF Sessions
<1> HIDE DEF u
<1>5. v \in Sessions
  BY <1>1, <1>4 DEF Sessions
<1> HIDE DEF v
<1>6. w \in Sessions
  BY <1>1, <1>5 DEF Sessions
<1> HIDE DEF w, t
<1>7. t \in Sessions
  BY <1>3, <1>6 DEF Sessions
<1>8. "refresh" \notin Kinds /\ Reported(s) => Reported(t)
  BY <1>3 DEF Reported
<1>9. Goes(s, t) /\ Fit(t)
  <2>1. /\ t.state = "Connected"
        /\ t.cseq = s.cseq /\ t.sent = s.sent /\ t.acks = s.acks
        /\ t.out = s.out /\ t.misled = s.misled /\ Same200(s, t)
        /\ "Connected" \notin Asking \cup AskingAgain \cup Offered \cup ToAnswer
    BY <1>3, StateNames
  <2>2. Goes(s, t)
    BY <1>7, <1>8, <2>1, GoesSilently
  <2> QED BY <2>2 DEF Goes, Follows
<1> QED BY <1>3, <1>9 DEF Answered, t

\* The message m may be dispatched to s.
Welcome(s, m) == m \in Messages /\ (m.code = 422 => "refresh" \in Kinds /\ s.cseq < MaxMods)

\* The codes of the final responses that an end sends.
LEMMA Negatives ==
  /\ NoSdp \in Sdps
  /\ {200, 400, 481, 491, 500} \subseteq Replies \ {422}
BY SdpTypes DEF Replies

\* A request is turned down.
LEMMA GoesOffered ==
  ASSUME NEW s, Fit(s), NEW m \in Messages, isOffering(m), NEW code \in {400, 481, 491, 500}
  PROVE  Goes(s, Send(s, Response(m, code, NoSdp)))
<1>1. code \in Replies \ {422} /\ m.method # "ACK" /\ NoSdp \in Sdps
  BY Negatives DEF isOffering
<1> QED BY <1>1, GoesRespond

\* dispatchSentUpdate.
LEMMA GoesSentUpdate ==
  ASSUME NEW s, Fit(s), s.state = "SentUpdate", NEW m, Welcome(s, m)
  PROVE  Goes(s, dispatchSentUpdate(s, m))
<1> DEFINE t == dispatchSentUpdate(s, m)
<1>0. s \in Sessions /\ m \in Messages /\ s.glare \in Nat
  BY FieldTypes DEF Welcome
<1>1. CASE isOffering(m)
  <2>1. t = Send(s, Response(m, 491, NoSdp))
    BY <1>1 DEF dispatchSentUpdate, isOffering, general, rejected
  <2> QED BY <1>0, <1>1, <2>1, GoesOffered
<1>2. CASE ~isOffering(m) /\ m.method = "UPDATE" /\ m.code = 200
  <2>1. CASE s.propLocal = NoSdp
    <3>1. t = Become(s, "Connected")
      BY <1>2, <2>1 DEF dispatchSentUpdate, isOffering, general, rejected
    <3> HIDE DEF t
    <3>2. /\ t \in Sessions /\ t.state = "Connected"
          /\ t.cseq = s.cseq /\ t.sent = s.sent /\ t.acks = s.acks
          /\ t.out = s.out /\ t.misled = s.misled /\ Same200(s, t)
      BY <1>0, <3>1, StateNames DEF Become, Sessions, Same200
    <3>3. ~Reported(s)
      BY <2>1 DEF Reported
    <3>4. Goes(s, t)
      BY <3>2, <3>3, GoesSilently, StateNames
    <3> QED BY <3>4 DEF t
  <2>2. CASE s.propLocal # NoSdp /\ m.sdp = NoSdp
    <3>1. t = offerOver(s)
      BY <1>2, <2>2 DEF dispatchSentUpdate, isOffering, general, rejected
    <3> QED BY <3>1, GoesOfferOver
  <2>3. CASE s.propLocal # NoSdp /\ m.sdp # NoSdp
    <3> DEFINE u == Answered(s, m, s.refresh, FALSE)
    <3>1. s.refresh \in BOOLEAN /\ (Reported(s) => s.refresh = FALSE)
      BY <1>0 DEF Sessions, Reported
    <3>2. Goes(s, u)
      BY <1>0, <2>3, <3>1, GoesAnswered
    <3>3. t = u
      <4>1. t = [offerAnswered(s, m) EXCEPT !.owed = FALSE]
        BY <1>2, <2>3 DEF dispatchSentUpdate, isOffering, general, rejected
      <4>2. u = [offerAnswered(s, m) EXCEPT !.owed = FALSE]
        BY <1>0 DEF Answered, offerAnswered, Asserting, Sessions
      <4> QED BY <4>1, <4>2
    <3> QED BY <3>2, <3>3
  <2> QED BY <2>1, <2>2, <2>3
<1>3. CASE m.method = "UPDATE" /\ m.code = 491
  <2>1. t = [s EXCEPT !.state = "SentUpdateGlare", !.glare = @ + 1]
    BY <1>3 DEF dispatchSentUpdate, isOffering, general, rejected
  <2> HIDE DEF t
  <2>2. s.glare + 1 \in Nat /\ "SentUpdateGlare" \in States
    BY <1>0, StateNames
  <2>3. /\ t \in Sessions /\ t.state = "SentUpdateGlare" /\ t.owed = s.owed
        /\ t.cseq = s.cseq /\ t.sent = s.sent /\ t.acks = s.acks
        /\ t.out = s.out /\ t.misled = s.misled /\ t.refresh = s.refresh
        /\ t.propLocal = s.propLocal /\ Same200(s, t)
    BY <1>0, <2>1, <2>2 DEF Sessions, Same200
  <2>4. /\ t.state \notin Asking \cup AskingAgain \cup Offered \cup ToAnswer
        /\ t.state \in Owing
    BY <2>3 DEF Asking, AskingAgain, Offered, ToAnswer, Owing
  <2>5. Reported(s) => Reported(t)
    BY <2>3, <2>4 DEF Reported
  <2>6. Goes(s, t)
    BY <2>3, <2>4, <2>5, GoesSilently
  <2> QED BY <2>6 DEF t
<1>4. CASE m.method = "UPDATE" /\ m.code = 422
  <2>1. t = sessionRefresh(s)
    BY <1>4 DEF dispatchSentUpdate, isOffering, general, rejected
  <2> QED BY <1>4, <2>1, GoesRefresh DEF Welcome
<1>5. CASE general(m)
  <2>1. t = Hangup(s)
    BY <1>5 DEF dispatchSentUpdate, isOffering, general, rejected
  <2> QED BY <2>1, GoesHangup
<1>6. CASE m.method = "UPDATE" /\ rejected(m)
  <2>1. t = offerOver(s)
    BY <1>6 DEF dispatchSentUpdate, isOffering, general, rejected
  <2> QED BY <2>1, GoesOfferOver
<1>7. CASE /\ ~isOffering(m) /\ ~general(m)
           /\ ~(m.method = "UPDATE" /\ (m.code \in {200, 422, 491} \/ rejected(m)))
  <2>1. t = dispatchOthers(s, m)
    BY <1>7 DEF dispatchSentUpdate, isOffering, general, rejected
  <2> QED BY <2>1, GoesOthers
<1> QED BY <1>1, <1>2, <1>3, <1>4, <1>5, <1>6, <1>7

\* The stale timer is let go.
LEMMA GoesFresh ==
  ASSUME NEW s, Fit(s)
  PROVE  LET t == [s EXCEPT !.stale = FALSE]
         IN  /\ Goes(s, t) /\ Fit(t) /\ t.state = s.state /\ t.cseq = s.cseq
             /\ t.propLocal = s.propLocal /\ t.refresh = s.refresh /\ t.owed = s.owed
<1> DEFINE t == [s EXCEPT !.stale = FALSE]
<1>0. s \in Sessions
  BY FieldTypes
<1>1. /\ t \in Sessions /\ t.state = s.state /\ t.owed = s.owed
      /\ t.cseq = s.cseq /\ t.sent = s.sent /\ t.acks = s.acks
      /\ t.out = s.out /\ t.misled = s.misled /\ t.refresh = s.refresh
      /\ t.propLocal = s.propLocal /\ t.propRemote = s.propRemote /\ Same200(s, t)
  <2>1. t \in Sessions
    BY <1>0 DEF Sessions
  <2> QED BY <1>0, <2>1 DEF Sessions, Same200
<1> HIDE DEF t
<1>2. Goes(s, t) /\ Fit(t)
  BY <1>1, GoesLike
<1> QED BY <1>1, <1>2 DEF t

\* reinviteAnswered.
LEMMA GoesReinviteAnswered ==
  ASSUME NEW s, Fit(s), s.propLocal # NoSdp, NEW m \in Messages, m.sdp # NoSdp
  PROVE  Goes(s, reinviteAnswered(s, m))
<1> DEFINE owed == s.refresh /\ s.owed
           o == offerAnswered(s, m)
           u == Answered(s, m, FALSE, owed)
<1>1. /\ s \in Sessions /\ s.refresh \in BOOLEAN /\ s.owed \in BOOLEAN /\ FALSE \in BOOLEAN
      /\ Reported(s) => ~s.refresh
  BY FieldTypes DEF Sessions, Reported
<1>2. owed \in BOOLEAN /\ (Reported(s) => ~owed)
  BY <1>1
<1>3. reinviteAnswered(s, m) = [sendAck(o, NoSdp) EXCEPT !.refresh = FALSE, !.owed = owed]
  BY DEF reinviteAnswered
<1> HIDE DEF owed
<1>4. /\ Goes(s, u) /\ Fit(u) /\ u.state = "Connected"
      /\ u = [o EXCEPT !.refresh = FALSE, !.owed = owed]
  <2>1. FALSE \in BOOLEAN /\ ("refresh" \notin Kinds /\ Reported(s) => owed = FALSE)
    BY <1>1, <1>2
  <2>2. Goes(s, u) /\ Fit(u) /\ u.state = "Connected"
    BY <1>2, <2>1, GoesAnswered
  <2>3. u = [o EXCEPT !.refresh = FALSE, !.owed = owed]
    BY DEF Answered
  <2> QED BY <2>2, <2>3
<1>5. DOMAIN o = DOMAIN s /\ {"refresh", "owed", "sent", "acks", "uac", "bad", "out"} \subseteq DOMAIN o
  BY <1>1 DEF offerAnswered, Asserting, Sessions
<1> HIDE DEF o, u
<1>6. /\ u.sent = o.sent /\ u.acks = o.acks /\ u.uac = o.uac /\ u.bad = o.bad /\ u.out = o.out
  BY <1>4, <1>5
<1>7. [sendAck(o, NoSdp) EXCEPT !.refresh = FALSE, !.owed = owed] = sendAck(u, NoSdp)
  <2> DEFINE n == IF o.sent.method = "UPDATE" THEN 0 ELSE o.sent.n
             ack == Request("ACK", n, NoSdp)
             p == /\ \A a \in o.acks : o.sent.method = "UPDATE" \/ a.n # o.sent.n
                  /\ o.sent.method = "UPDATE" => o.uac
             bad == o.bad \/ ~p
             acks == {a \in o.acks : a.n # n} \cup {ack}
             out == o.out \cup {ack}
  <2>1. sendAck(o, NoSdp) = [o EXCEPT !.bad = bad, !.acks = acks, !.out = out]
    BY <1>5 DEF sendAck, Asserting, Send
  <2>2. DOMAIN u = DOMAIN o
    BY <1>4
  <2>3. sendAck(u, NoSdp) = [u EXCEPT !.bad = bad, !.acks = acks, !.out = out]
    BY <1>5, <1>6, <2>2 DEF sendAck, Asserting, Send
  <2> HIDE DEF bad, acks, out
  <2> QED BY <1>4, <1>5, <2>1, <2>3
<1>8. Goes(u, sendAck(u, NoSdp))
  <2>1. u.state \notin Asking /\ NoSdp \in Sdps
    BY <1>4, Negatives DEF Asking
  <2> QED BY <1>4, <2>1, GoesAck
<1> QED BY <1>3, <1>4, <1>7, <1>8, GoesFar

\* dispatchSentReinvite and dispatchSentReinviteNoOffer.
LEMMA GoesSentReinvite ==
  ASSUME NEW s, Fit(s), s.state \in Asking, NEW m, Welcome(s, m)
  PROVE  Goes(s, dispatchSentReinvite(s, m))
<1> DEFINE u == [s EXCEPT !.stale = FALSE]
           t == dispatchSentReinvite(s, m)
<1>0. /\ s \in Sessions /\ m \in Messages /\ s.glare \in Nat /\ m.sdp \in Sdps
      /\ s.state \in {"SentReinvite", "SentReinviteNoOffer"}
      /\ "SentReinviteAnswered" \in States /\ "SentReinviteGlare" \in States
      /\ "SentReinviteNoOfferGlare" \in States
  BY FieldTypes, MessageTypes DEF Welcome, Asking, States
<1>1. CASE isOffering(m)
  <2>1. t = Send(s, Response(m, 491, NoSdp))
    BY <1>1 DEF dispatchSentReinvite, isOffering, general, rejected
  <2> QED BY <1>0, <1>1, <2>1, GoesOffered
<1>u. /\ Goes(s, u) /\ Fit(u) /\ u.state = s.state /\ u.cseq = s.cseq
      /\ u.propLocal = s.propLocal /\ u.refresh = s.refresh /\ u.owed = s.owed
  BY GoesFresh
<1>2. CASE general(m)
  <2>1. t = Hangup(u)
    BY <1>2 DEF dispatchSentReinvite, isOffering, general, rejected
  <2> HIDE DEF u
  <2>2. Goes(u, Hangup(u))
    BY <1>u, GoesHangup
  <2> QED BY <1>u, <2>1, <2>2, GoesFar
<1>3. CASE m.method = "INVITE" /\ m.code = 200 /\ m.sdp = NoSdp
  <2> DEFINE v == offerOver(u)
  <2>1. t = sendAck(v, NoSdp)
    BY <1>3 DEF dispatchSentReinvite, isOffering, general, rejected
  <2> HIDE DEF u
  <2>2. Goes(u, v) /\ Fit(v) /\ v.state \notin Asking
    BY <1>u, GoesOfferOver DEF Goes, Follows, Asking
  <2> HIDE DEF v
  <2>3. Goes(v, sendAck(v, NoSdp))
    BY <2>2, GoesAck, Negatives
  <2> QED BY <1>u, <2>1, <2>2, <2>3, GoesFar
<1>4. CASE m.method = "INVITE" /\ m.code = 200 /\ m.sdp # NoSdp /\ s.state = "SentReinvite"
  <2>1. t = reinviteAnswered(u, m)
    BY <1>4 DEF dispatchSentReinvite, isOffering, general, rejected
  <2>2. s.propLocal # NoSdp
    BY <1>4 DEF Fit, Offered
  <2> HIDE DEF u
  <2>3. Goes(u, reinviteAnswered(u, m))
    BY <1>0, <1>4, <1>u, <2>2, GoesReinviteAnswered
  <2> QED BY <1>u, <2>1, <2>3, GoesFar
<1>5. CASE m.method = "INVITE" /\ m.code = 200 /\ m.sdp # NoSdp /\ s.state = "SentReinviteNoOffer"
  <2> DEFINE v == [u EXCEPT !.state = "SentReinviteAnswered", !.propRemote = m.sdp]
  <2>1. t = [v EXCEPT !.owed = FALSE]
    BY <1>0, <1>5 DEF dispatchSentReinvite, isOffering, general, rejected, Sessions
  <2>2. u \in Sessions
    BY <1>u, FieldTypes
  <2> HIDE DEF u, t
  <2>3. v \in Sessions
    BY <1>0, <2>2 DEF Sessions
  <2>4. /\ v.state = "SentReinviteAnswered" /\ v.propRemote = m.sdp
        /\ v.cseq = u.cseq /\ v.sent = u.sent /\ v.acks = u.acks
        /\ v.out = u.out /\ v.misled = u.misled /\ v.refresh = u.refresh
        /\ Same200(u, v)
    BY <2>2 DEF Sessions, Same200
  <2> HIDE DEF v
  <2>5. t \in Sessions
    BY <2>1, <2>3 DEF Sessions
  <2>6. /\ t.state = "SentReinviteAnswered" /\ t.propRemote # NoSdp /\ ~t.owed
        /\ t.cseq = u.cseq /\ t.sent = u.sent /\ t.acks = u.acks
        /\ t.out = u.out /\ t.misled = u.misled /\ t.refresh = u.refresh
        /\ Same200(u, t)
    BY <1>5, <2>1, <2>3, <2>4 DEF Sessions, Same200
  <2>7. t.state \notin Asking \cup AskingAgain \cup Offered
    BY <2>6 DEF Asking, AskingAgain, Offered
  <2>8. Reported(u) => Reported(t)
    BY <2>6 DEF Reported
  <2>9. Goes(u, t)
    BY <1>u, <2>5, <2>6, <2>7, <2>8, GoesSilently
  <2> QED BY <1>u, <2>9, GoesFar DEF t
<1>6. CASE m.method = "INVITE" /\ m.code = 422
  <2>1. t = sessionRefresh(u)
    BY <1>6 DEF dispatchSentReinvite, isOffering, general, rejected
  <2> HIDE DEF u
  <2>2. Goes(u, sessionRefresh(u))
    BY <1>6, <1>u, GoesRefresh DEF Welcome
  <2> QED BY <1>u, <2>1, <2>2, GoesFar
<1>7. CASE m.method = "INVITE" /\ m.code = 491
  <2> DEFINE state == IF s.state = "SentReinvite" THEN "SentReinviteGlare" ELSE "SentReinviteNoOfferGlare"
  <2>1. t = [u EXCEPT !.state = state, !.glare = u.glare + 1]
    <3>1. t = [u EXCEPT !.glare = @ + 1,
                 !.state = IF @ = "SentReinvite" THEN "SentReinviteGlare" ELSE "SentReinviteNoOfferGlare"]
      BY <1>7 DEF dispatchSentReinvite, isOffering, general, rejected
    <3> HIDE DEF u, t
    <3>2. u \in Sessions
      BY <1>u, FieldTypes
    <3> QED BY <1>u, <3>1, <3>2 DEF Sessions
  <2>2. u \in Sessions /\ u.glare + 1 \in Nat /\ state \in States
    BY <1>0, <1>u, FieldTypes
  <2>3. /\ state \in AskingAgain /\ state \in Owing
        /\ state \notin Asking \cup ToAnswer \cup {"SentUpdate", "SentUpdateGlare"}
        /\ state \in Offered => s.state = "SentReinvite"
    BY DEF AskingAgain, Owing, Asking, ToAnswer, Offered
  <2> HIDE DEF u, t, state
  <2>4. t \in Sessions
    BY <2>1, <2>2 DEF Sessions
  <2>5. /\ t.state = state /\ t.propLocal = u.propLocal /\ t.owed = u.owed
        /\ t.cseq = u.cseq /\ t.sent = u.sent /\ t.acks = u.acks
        /\ t.out = u.out /\ t.misled = u.misled /\ t.refresh = u.refresh
        /\ Same200(u, t)
    BY <2>1, <2>2 DEF Sessions, Same200
  <2>6. t.state \in Offered => t.propLocal # NoSdp
    BY <1>u, <2>3, <2>5 DEF Fit, Offered
  <2>7. Reported(u) => Reported(t)
    BY <2>3, <2>5 DEF Reported
  <2>8. Goes(u, t)
    <3>1. u.state \in Asking
      BY <1>u
    <3> QED BY <1>u, <2>3, <2>4, <2>5, <2>6, <2>7, <3>1, GoesSilently
  <2> QED BY <1>u, <2>8, GoesFar DEF t
<1>8. CASE m.method = "INVITE" /\ rejected(m)
  <2>1. t = offerOver(u)
    BY <1>8 DEF dispatchSentReinvite, isOffering, general, rejected
  <2> HIDE DEF u
  <2>2. Goes(u, offerOver(u))
    BY <1>u, GoesOfferOver
  <2> QED BY <1>u, <2>1, <2>2, GoesFar
<1>9. CASE /\ ~isOffering(m) /\ ~general(m)
           /\ ~(m.method = "INVITE" /\ (m.code \in {200, 422, 491} \/ rejected(m)))
  <2>1. t = dispatchOthers(s, m)
    BY <1>9 DEF dispatchSentReinvite, isOffering, general, rejected
  <2> QED BY <2>1, GoesOthers
<1> QED BY <1>0, <1>1, <1>2, <1>3, <1>4, <1>5, <1>6, <1>7, <1>8, <1>9

\* dispatchReceivedReinviteSentOffer.
LEMMA HearsSentOffer ==
  ASSUME NEW s, Fit(s), s.state = "ReceivedReinviteSentOffer", NEW m \in Messages
  PROVE  Hears(s, dispatchReceivedReinviteSentOffer(s, m), m)
<1> DEFINE t == dispatchReceivedReinviteSentOffer(s, m)
<1>1. CASE isOffering(m)
  <2>1. t = Send(s, Response(m, 491, NoSdp))
    BY <1>1 DEF dispatchReceivedReinviteSentOffer, isOffering
  <2> QED BY <1>1, <2>1, GoesOffered, HearsGoes
<1>2. CASE m.method = "ACK" /\ m.sdp # NoSdp
  <2> DEFINE o == offerAnswered(s, m)
             u == Answered(s, m, s.refresh, FALSE)
  <2>1. /\ s \in Sessions /\ s.refresh \in BOOLEAN /\ (Reported(s) => s.refresh = FALSE)
        /\ s.propLocal # NoSdp
    BY <1>2, FieldTypes DEF Reported, Sessions, Fit, Offered
  <2>2. Goes(s, u) /\ Fit(u)
    BY <1>2, <2>1, GoesAnswered
  <2>3. DOMAIN o = DOMAIN s
        /\ {"refresh", "owed", "re200", "misled", "ok"} \subseteq DOMAIN o /\ o.refresh = s.refresh
    BY <2>1 DEF offerAnswered, Asserting, Sessions
  <2>4. t = [gotAck(o, m) EXCEPT !.owed = FALSE]
    BY <1>2 DEF dispatchReceivedReinviteSentOffer, isOffering
  <2>5. u = [o EXCEPT !.owed = FALSE]
    BY <2>1 DEF Answered, offerAnswered, Asserting, Sessions
  <2> HIDE DEF o, u
  <2>6. t = gotAck(u, m)
    BY <2>3, <2>4, <2>5 DEF gotAck
  <2> HIDE DEF t
  <2>7. Hears(u, gotAck(u, m), m)
    BY <1>2, <2>2, HearsAck
  <2> QED BY <2>2, <2>6, <2>7, HearsAfter DEF t
<1>3. CASE m.method = "ACK" /\ m.sdp = NoSdp /\ staleAck(s, m)
  <2>1. t = s
    BY <1>3 DEF dispatchReceivedReinviteSentOffer, isOffering
  <2> QED BY <2>1, GoesOn, HearsGoes
<1>4. CASE m.method = "ACK" /\ m.sdp = NoSdp /\ ~staleAck(s, m)
  <2> DEFINE u == offerOver(s)
  <2>1. t = gotAck(u, m)
    BY <1>4 DEF dispatchReceivedReinviteSentOffer, isOffering
  <2>2. Goes(s, u) /\ Fit(u)
    BY GoesOfferOver DEF Goes, Follows
  <2> HIDE DEF u
  <2>3. Hears(u, gotAck(u, m), m)
    BY <1>4, <2>2, HearsAck
  <2> QED BY <2>1, <2>2, <2>3, HearsAfter
<1>5. CASE ~isOffering(m) /\ m.method # "ACK"
  <2>1. t = dispatchOthers(s, m)
    BY <1>5 DEF dispatchReceivedReinviteSentOffer
  <2> QED BY <2>1, GoesOthers, HearsGoes
<1> QED BY <1>1, <1>2, <1>3, <1>4, <1>5

\* dispatchTerminated.
LEMMA GoesTerminated ==
  ASSUME NEW s, Fit(s), NEW m \in Messages
  PROVE  Goes(s, dispatchTerminated(s, m))
<1>1. isOffering(m) => Goes(s, Send(s, Response(m, 481, NoSdp)))
  BY GoesOffered
<1> QED BY <1>1, GoesOn DEF dispatchTerminated

\* dispatchGlare, with an application that goes on or ends the session.
LEMMA HearsGlare ==
  ASSUME NEW s, Fit(s), NEW m \in Messages, NEW quits \in BOOLEAN,
         s.state \in {"SentUpdateGlare", "SentReinviteGlare", "SentReinviteNoOfferGlare"}
  PROVE  Hears(s, dispatchGlare(s, m, quits), m)
<1> DEFINE u == [s EXCEPT !.owed = FALSE]
           t == dispatchGlare(s, m, quits)
<1>1. Goes(s, u) /\ Fit(u) /\ u.state = s.state /\ ~u.owed
  <2>0. s \in Sessions
    BY FieldTypes
  <2>1. /\ u \in Sessions /\ u.state = s.state /\ ~u.owed
        /\ u.cseq = s.cseq /\ u.sent = s.sent /\ u.acks = s.acks
        /\ u.out = s.out /\ u.misled = s.misled /\ u.refresh = s.refresh
        /\ u.propLocal = s.propLocal /\ u.propRemote = s.propRemote /\ Same200(s, u)
    <3>1. u \in Sessions
      BY <2>0 DEF Sessions
    <3> QED BY <2>0, <3>1 DEF Sessions, Same200
  <2> HIDE DEF u
  <2> QED BY <2>1, GoesLike
<1>2. CASE isOffering(m) /\ quits
  <2>1. t = dispatchTerminated(end(u), m)
    BY <1>2 DEF dispatchGlare
  <2> HIDE DEF u
  <2>2. Goes(u, end(u)) /\ Fit(end(u))
    BY <1>1, GoesEnd DEF Goes, Follows
  <2>3. Goes(end(u), dispatchTerminated(end(u), m))
    BY <2>2, GoesTerminated
  <2>4. Goes(u, dispatchTerminated(end(u), m))
    BY <1>1, <2>2, <2>3, GoesFar
  <2> QED BY <1>1, <2>1, <2>4, GoesFar, HearsGoes
<1>3. CASE isOffering(m) /\ ~quits
  <2>1. t = dispatchConnected(u, m)
    BY <1>3 DEF dispatchGlare
  <2> HIDE DEF u, t
  <2>2. Untroubled(u)
    BY <1>1 DEF Untroubled, Asking
  <2>3. Hears(u, dispatchConnected(u, m), m)
    BY <1>1, <2>2, HearsConnected
  <2> QED BY <1>1, <2>1, <2>3, HearsAfter DEF t
<1>4. CASE ~isOffering(m)
  <2>1. t = dispatchOthers(s, m)
    BY <1>4 DEF dispatchGlare
  <2> QED BY <2>1, GoesOthers, HearsGoes
<1> QED BY <1>2, <1>3, <1>4

\* dispatchReceivedUpdateOrReinvite.
LEMMA GoesUndecided ==
  ASSUME NEW s, Fit(s), NEW m \in Messages
  PROVE  Goes(s, dispatchReceivedUpdateOrReinvite(s, m))
<1>1. isOffering(m) => Goes(s, Send(s, Response(m, 500, NoSdp)))
  BY GoesOffered
<1>2. Goes(s, s) /\ Goes(s, dispatchOthers(s, m))
  BY GoesOn, GoesOthers
<1> QED BY <1>1, <1>2 DEF dispatchReceivedUpdateOrReinvite

\* dispatchSentReinviteAnswered.
LEMMA GoesSentReinviteAnswered ==
  ASSUME NEW s, Fit(s), NEW m \in Messages
  PROVE  Goes(s, dispatchSentReinviteAnswered(s, m))
BY GoesOn, GoesOthers DEF dispatchSentReinviteAnswered

\* dispatchWaitingToTerminate.
LEMMA GoesWaitingToTerminate ==
  ASSUME NEW s, Fit(s), s.state = "WaitingToTerminate", NEW m \in Messages
  PROVE  Goes(s, dispatchWaitingToTerminate(s, m))
<1> DEFINE t == dispatchWaitingToTerminate(s, m)
           u == IF m.code = 200 THEN sendAck(s, NoSdp) ELSE s
<1>1. CASE m.method = "INVITE" /\ m.code # 0
  <2>1. t = Hangup(u)
    BY <1>1 DEF dispatchWaitingToTerminate, isOffering
  <2>2. Goes(s, sendAck(s, NoSdp))
    BY GoesAck, Negatives DEF Asking
  <2>3. Goes(s, u) /\ Fit(u)
    BY <2>2, GoesOn DEF Goes, Follows
  <2> HIDE DEF u
  <2>4. Goes(u, Hangup(u))
    BY <2>3, GoesHangup
  <2> QED BY <2>1, <2>3, <2>4, GoesFar
<1>2. CASE m.method = "BYE"
  <2>1. t = dispatchOthers(s, m)
    BY <1>2 DEF dispatchWaitingToTerminate, isOffering
  <2> QED BY <2>1, GoesOthers
<1>3. CASE isOffering(m)
  <2>1. t = Send(s, Response(m, 400, NoSdp))
    BY <1>3 DEF dispatchWaitingToTerminate, isOffering
  <2> QED BY <1>3, <2>1, GoesOffered
<1>4. CASE ~isOffering(m) /\ m.method # "BYE" /\ ~(m.method = "INVITE" /\ m.code # 0)
  <2>1. t = s
    BY <1>4 DEF dispatchWaitingToTerminate
  <2> QED BY <2>1, GoesOn
<1> QED BY <1>1, <1>2, <1>3, <1>4

\* dispatchWaitingToHangup.
LEMMA HearsWaitingToHangup ==
  ASSUME NEW s, Fit(s), NEW m \in Messages
  PROVE  Hears(s, dispatchWaitingToHangup(s, m), m)
<1>1. CASE m.method = "ACK"
  <2> DEFINE u == gotAck(s, m)
  <2>1. dispatchWaitingToHangup(s, m) = Hangup(u)
    BY <1>1 DEF dispatchWaitingToHangup
  <2>2. Hears(s, u, m) /\ Fit(u)
    BY <1>1, HearsAck DEF Hears, Follows
  <2> HIDE DEF u
  <2>3. Goes(u, Hangup(u))
    BY <2>2, GoesHangup
  <2> QED BY <2>1, <2>2, <2>3, HearsBefore
<1>2. CASE m.method # "ACK"
  <2>1. dispatchWaitingToHangup(s, m) = s
    BY <1>2 DEF dispatchWaitingToHangup
  <2> QED BY <2>1, GoesOn, HearsGoes
<1> QED BY <1>1, <1>2

\* A repeated 200 gets its ACK once more.
LEMMA GoesAckAgain ==
  ASSUME NEW s, Fit(s), NEW answered \in SUBSET s.acks
  PROVE  Goes(s, [s EXCEPT !.out = @ \cup answered])
<1> DEFINE t == [s EXCEPT !.out = @ \cup answered]
<1>0. s \in Sessions /\ s.out \cup answered \in SUBSET Messages
  BY FieldTypes
<1>1. /\ t \in Sessions /\ t.state = s.state /\ t.owed = s.owed /\ t.out = s.out \cup answered
      /\ t.cseq = s.cseq /\ t.sent = s.sent /\ t.acks = s.acks
      /\ t.misled = s.misled /\ t.refresh = s.refresh
      /\ t.propLocal = s.propLocal /\ t.propRemote = s.propRemote /\ Same200(s, t)
  <2>1. t \in Sessions
    BY <1>0 DEF Sessions
  <2> QED BY <1>0, <2>1 DEF Sessions, Same200
<1> HIDE DEF t
<1>2. Reported(s) => Reported(t)
  BY <1>1 DEF Reported
<1>3. \A a \in answered : Sent(a, t)
  BY <1>1 DEF Fit, Sent, Before, isOffering
<1>4. \A m \in s.out : Sent(m, t)
  BY <1>1 DEF Fit, Sent, Before
<1>5. Fit(t)
  BY <1>1, <1>3, <1>4 DEF Fit, Before, Same200
<1>6. s.cseq <= t.cseq
  BY <1>1, FieldTypes
<1>7. Follows(s, t)
  BY <1>1, <1>2, <1>5, <1>6 DEF Follows
<1> QED BY <1>1, <1>7 DEF Goes, t

\* Any message, in any state.
LEMMA HearsDispatch ==
  ASSUME NEW s, Fit(s), NEW m, Welcome(s, m), NEW quits \in BOOLEAN
  PROVE  Hears(s, dispatch(s, m, quits), m)
<1> DEFINE answered == {a \in s.acks : m.method = "INVITE" /\ m.code = 200 /\ a.n = m.n}
           t == dispatch(s, m, quits)
<1>0. m \in Messages /\ s.state \in States
  BY FieldTypes DEF Welcome
<1>1. CASE answered # {}
  <2>1. t = [s EXCEPT !.out = @ \cup answered]
    BY <1>1 DEF dispatch
  <2>2. answered \in SUBSET s.acks
    OBVIOUS
  <2> HIDE DEF answered, t
  <2>3. Goes(s, [s EXCEPT !.out = @ \cup answered])
    BY <2>2, GoesAckAgain
  <2>4. Hears(s, t, m)
    BY <2>1, <2>3, HearsGoes
  <2> QED BY <2>4 DEF t
<1>2. ASSUME answered = {}
      PROVE  Hears(s, t, m)
  <2>1. CASE s.state = "Connected"
    <3>1. t = dispatchConnected(s, m)
      BY <1>2, <2>1 DEF dispatch, Undecided
    <3>2. Untroubled(s)
      BY <2>1, StateNames DEF Untroubled, Reported
    <3> QED BY <1>0, <3>1, <3>2, HearsConnected
  <2>2. CASE s.state = "SentUpdate"
    <3>1. t = dispatchSentUpdate(s, m)
      BY <1>2, <2>2 DEF dispatch, Undecided
    <3> QED BY <2>2, <3>1, GoesSentUpdate, HearsGoes
  <2>3. CASE s.state \in Asking
    <3>1. t = dispatchSentReinvite(s, m)
      BY <1>2, <2>3 DEF dispatch, Undecided, Asking
    <3> QED BY <2>3, <3>1, GoesSentReinvite, HearsGoes
  <2>4. CASE s.state = "SentReinviteAnswered"
    <3>1. t = dispatchSentReinviteAnswered(s, m)
      BY <1>2, <2>4 DEF dispatch, Undecided
    <3> QED BY <1>0, <3>1, GoesSentReinviteAnswered, HearsGoes
  <2>5. CASE s.state \in {"SentUpdateGlare", "SentReinviteGlare", "SentReinviteNoOfferGlare"}
    <3>1. t = dispatchGlare(s, m, quits)
      BY <1>2, <2>5 DEF dispatch, Undecided
    <3> QED BY <1>0, <2>5, <3>1, HearsGlare
  <2>6. CASE s.state \in Undecided
    <3>1. t = dispatchReceivedUpdateOrReinvite(s, m)
      BY <1>2, <2>6 DEF dispatch, Undecided
    <3> QED BY <1>0, <3>1, GoesUndecided, HearsGoes
  <2>7. CASE s.state = "ReceivedReinviteSentOffer"
    <3>1. t = dispatchReceivedReinviteSentOffer(s, m)
      BY <1>2, <2>7 DEF dispatch, Undecided
    <3> QED BY <1>0, <2>7, <3>1, HearsSentOffer
  <2>8. CASE s.state = "WaitingToTerminate"
    <3>1. t = dispatchWaitingToTerminate(s, m)
      BY <1>2, <2>8 DEF dispatch, Undecided
    <3> QED BY <1>0, <2>8, <3>1, GoesWaitingToTerminate, HearsGoes
  <2>9. CASE s.state = "WaitingToHangup"
    <3>1. t = dispatchWaitingToHangup(s, m)
      BY <1>2, <2>9 DEF dispatch, Undecided
    <3> QED BY <1>0, <3>1, HearsWaitingToHangup
  <2>10. CASE s.state = "Terminated"
    <3>1. t = dispatchTerminated(s, m)
      BY <1>2, <2>10 DEF dispatch, Undecided
    <3> QED BY <1>0, <3>1, GoesTerminated, HearsGoes
  <2> QED BY <1>0, <2>1, <2>2, <2>3, <2>4, <2>5, <2>6, <2>7, <2>8, <2>9, <2>10
          DEF States, Asking, Undecided
<1> QED BY <1>1, <1>2

-----------------------------------------------------------------------------
(* Timers. *)

\* The wait for an ACK ends: the 200 is no longer repeated.
Waited(s, t) == Follows(s, t) /\ t.got = s.got /\ t.ok = s.ok

\* The end of the wait, then what else is done about it.
LEMMA WaitedGoes ==
  ASSUME NEW s, NEW t, NEW u, Fit(s), Waited(s, t), Goes(t, u)
  PROVE  Waited(s, u)
<1>1. Fit(t) /\ Fit(u)
  BY DEF Goes, Waited, Follows
<1>2. s.cseq \in Nat /\ t.cseq \in Nat /\ u.cseq \in Nat
  BY <1>1, FieldTypes
<1>3. Follows(s, u)
  BY <1>1, <1>2 DEF Goes, Waited, Follows
<1> QED BY <1>3 DEF Goes, Waited, Same200

\* The timer WaitForAck.
LEMMA WaitedForAck ==
  ASSUME NEW s, Fit(s), NEW n, NEW quits \in BOOLEAN
  PROVE  Waited(s, WaitForAck(s, n, quits))
<1> DEFINE late == s.re200 /\ n = s.got.n
           w == s.waitAck \ {n}
           r == s.re200 /\ ~late
           u == [s EXCEPT !.waitAck = w, !.re200 = r]
           t == WaitForAck(s, n, quits)
<1>1. s \in Sessions /\ r \in BOOLEAN /\ w \in Waits
  BY FieldTypes DEF Sessions, Waits
<1>2. u = [s EXCEPT !.waitAck = @ \ {n}, !.re200 = @ /\ ~late]
  BY <1>1 DEF Sessions
<1>3. t \in {u, Hangup(u), offerOver(u), end(u)}
  BY <1>2 DEF WaitForAck
<1> HIDE DEF late, r, w
<1>4. u \in Sessions
  BY <1>1 DEF Sessions
<1>5. /\ u.state = s.state /\ u.owed = s.owed /\ u.out = s.out
      /\ u.cseq = s.cseq /\ u.sent = s.sent /\ u.acks = s.acks
      /\ u.misled = s.misled /\ u.refresh = s.refresh
      /\ u.propLocal = s.propLocal /\ u.propRemote = s.propRemote
      /\ u.got = s.got /\ u.ok = s.ok
  BY <1>1 DEF Sessions
<1> HIDE DEF u, t
<1>6. Reported(s) => Reported(u)
  BY <1>5 DEF Reported
<1>7. Fit(u)
  BY <1>4, <1>5 DEF Fit, Sent, Before
<1>8. s.cseq <= u.cseq
  BY <1>5, FieldTypes
<1>9. Waited(s, u)
  BY <1>5, <1>6, <1>7, <1>8 DEF Waited, Follows
<1>10. Goes(u, Hangup(u)) /\ Goes(u, offerOver(u)) /\ Goes(u, end(u))
  BY <1>7, GoesHangup, GoesOfferOver, GoesEnd
<1>11. Waited(s, t)
  BY <1>3, <1>9, <1>10, WaitedGoes
<1> QED BY <1>11 DEF t

\* The timer Glare: what met a 491 is sent again.
LEMMA GoesAgain ==
  ASSUME NEW s, Fit(s), s.glare > 0, s.cseq < MaxMods
  PROVE  Goes(s, Glare(s))
<1> DEFINE u == [s EXCEPT !.glare = @ - 1]
           again == CASE s.state = "SentUpdateGlare" -> "SentUpdate"
                      [] s.state = "SentReinviteGlare" -> "SentReinvite"
                      [] s.state = "SentReinviteNoOfferGlare" -> "SentReinviteNoOffer"
                      [] OTHER -> None
           v == Become(u, again)
<1>0. s \in Sessions /\ s.glare - 1 \in Nat
  BY FieldTypes
<1>1. /\ u \in Sessions /\ u.state = s.state /\ u.owed = s.owed /\ u.out = s.out
      /\ u.cseq = s.cseq /\ u.sent = s.sent /\ u.acks = s.acks
      /\ u.misled = s.misled /\ u.refresh = s.refresh
      /\ u.propLocal = s.propLocal /\ u.propRemote = s.propRemote /\ Same200(s, u)
  BY <1>0 DEF Sessions, Same200
<1>2. Goes(s, u)
  <2> HIDE DEF u
  <2> QED BY <1>1, GoesLike
<1>3. Glare(s) = IF again = None THEN u ELSE SendOffering(v, s.sent.method, s.sent.sdp)
  BY DEF Glare
<1>4. CASE s.state \in {"SentUpdateGlare", "SentReinviteGlare", "SentReinviteNoOfferGlare"}
  <2> DEFINE state == again
  <2>1. /\ state \in {"SentUpdate", "SentReinvite", "SentReinviteNoOffer"} /\ again # None
        /\ state \in Asking => s.state \in AskingAgain
        /\ state = "SentReinvite" => s.state = "SentReinviteGlare"
        /\ state = "SentUpdate" => s.state = "SentUpdateGlare"
        /\ state \in Owing \cap States
    BY <1>4 DEF Asking, AskingAgain, None, Owing, States
  <2> HIDE DEF u, again
  <2>2. /\ v \in Sessions /\ v.state = state /\ v.owed = u.owed /\ v.out = u.out
        /\ v.cseq = u.cseq /\ v.acks = u.acks
        /\ v.misled = u.misled /\ v.refresh = u.refresh
        /\ v.propLocal = u.propLocal /\ v.propRemote = u.propRemote /\ Same200(u, v)
    BY <1>1, <2>1 DEF Become, Sessions, Same200
  <2> HIDE DEF v
  <2>3. s.sent.method \in {None, "INVITE", "UPDATE"} /\ s.sent.sdp \in Sdps
    BY FieldTypes, MessageTypes DEF Fit
  <2>4. v.state \in Asking \cup AskingAgain => s.sent.method = "INVITE"
    BY <2>1, <2>2 DEF Fit, Asking, AskingAgain
  <2>5. v.state \in Offered => v.propLocal # NoSdp
    BY <1>1, <2>1, <2>2 DEF Fit, Offered
  <2>6. v.state \notin ToAnswer
    BY <2>1, <2>2 DEF ToAnswer
  <2>7. Reported(s) => Reported(v)
    BY <1>1, <2>1, <2>2 DEF Reported
  <2>8. /\ v.cseq = s.cseq /\ v.acks = s.acks /\ v.out = s.out
        /\ v.misled = s.misled /\ Same200(s, v)
    BY <1>1, <2>2 DEF Same200
  <2>9. Goes(s, SendOffering(v, s.sent.method, s.sent.sdp))
    BY <2>2, <2>3, <2>4, <2>5, <2>6, <2>7, <2>8, GoesOffering
  <2> QED BY <1>3, <2>1, <2>9
<1>5. CASE s.state \notin {"SentUpdateGlare", "SentReinviteGlare", "SentReinviteNoOfferGlare"}
  <2>1. again = None
    BY <1>5
  <2> QED BY <1>2, <1>3, <2>1
<1> QED BY <1>4, <1>5

\* The session timer.
LEMMA GoesExpired ==
  ASSUME NEW s, Fit(s)
  PROVE  Goes(s, SessionExpiration(s))
<1> DEFINE u == [s EXCEPT !.expires = FALSE]
<1>0. s \in Sessions
  BY FieldTypes
<1>1. /\ u \in Sessions /\ u.state = s.state /\ u.owed = s.owed /\ u.out = s.out
      /\ u.cseq = s.cseq /\ u.sent = s.sent /\ u.acks = s.acks
      /\ u.misled = s.misled /\ u.refresh = s.refresh
      /\ u.propLocal = s.propLocal /\ u.propRemote = s.propRemote /\ Same200(s, u)
  <2>1. u \in Sessions
    BY <1>0 DEF Sessions
  <2> QED BY <1>0, <2>1 DEF Sessions, Same200
<1>2. SessionExpiration(s) = end(u)
  BY DEF SessionExpiration
<1> HIDE DEF u
<1>3. Goes(s, u) /\ Fit(u)
  BY <1>1, GoesLike
<1>4. Goes(u, end(u))
  BY <1>3, GoesEnd
<1> QED BY <1>2, <1>3, <1>4, GoesFar

\* The timer StaleReInvite.
LEMMA GoesStale ==
  ASSUME NEW s, Fit(s), NEW quits \in BOOLEAN
  PROVE  Goes(s, StaleReInvite(s, quits))
<1> DEFINE u == [s EXCEPT !.stale = FALSE]
           v == offerOver(u)
           t == StaleReInvite(s, quits)
<1>1. t \in {u, Hangup(u), v, end(v)}
  BY DEF StaleReInvite
<1>2. Goes(s, u) /\ Fit(u)
  BY GoesFresh
<1> HIDE DEF u, t
<1>3. Goes(u, Hangup(u)) /\ Goes(u, v) /\ Fit(v)
  BY <1>2, GoesHangup, GoesOfferOver DEF Goes, Follows
<1> HIDE DEF v
<1>4. Goes(v, end(v))
  BY <1>3, GoesEnd
<1>5. Goes(u, end(v))
  BY <1>2, <1>3, <1>4, GoesFar
<1>6. Goes(s, t)
  BY <1>1, <1>2, <1>3, <1>5, GoesFar
<1> QED BY <1>6 DEF t

-----------------------------------------------------------------------------
(* The two ends and the network between them. *)

\* A setup gives the dialog sets and numbers.
LEMMA SetupTypes ==
  ASSUME setup \in Setups
  PROVE  /\ MaxMods \in Nat /\ MaxAsks \in Nat
         /\ Quits \subseteq BOOLEAN /\ setup.Update \in BOOLEAN
BY DialogAssumption DEF MaxMods, MaxAsks, Quits

\* Each end has one other.
LEMMA Others ==
  /\ \A e \in End : other(e) \in End /\ other(e) # e /\ other(other(e)) = e
  /\ \A d, e \in End : d = e \/ d = other(e)
BY DEF End, other

\* The setup does not change, and what fits goes on fitting.
LEMMA FitsNext ==
  ASSUME UNCHANGED setup, NEW ss, NEW nn, NEW oo, DialogFits(ss, nn, oo)
  PROVE  DialogFits(ss, nn, oo)'
<1>1. /\ MaxMods' = MaxMods /\ Kinds' = Kinds /\ Expire' = Expire
  BY DEF MaxMods, Kinds, Expire
<1>2. Sdps' = Sdps
  BY <1>1 DEF Sdps
<1>3. Messages' = Messages /\ Waits' = Waits
  BY <1>1, <1>2 DEF Messages, Waits
<1>4. Sessions' = Sessions
  BY <1>1, <1>2, <1>3 DEF Sessions
<1>5. \A s : Fit(s) => Fit(s)'
  BY <1>1, <1>4 DEF Fit, Before, Sent, isOffering
<1>6. EndsFit(ss)'
  BY <1>1, <1>4, <1>5 DEF DialogFits, EndsFit, Reported
<1>7. NetFits(ss, nn)'
  BY <1>1, <1>3 DEF DialogFits, NetFits, OnItsWay, Before
<1>8. OpenFits(oo)' /\ AnswersFit(ss)'
  BY <1>3 DEF DialogFits, OpenFits, AnswersFit
<1>9. Repeats(ss)'
  BY <1>1 DEF DialogFits, Repeats, Answering
<1> QED BY <1>6, <1>7, <1>8, <1>9 DEF DialogFits

\* What was sent has left the session.
LEMMA Emptied ==
  ASSUME NEW t, Fit(t)
  PROVE  LET u == [t EXCEPT !.out = {}]
         IN  /\ Fit(u) /\ u \in Sessions /\ u.out = {} /\ u.state = t.state /\ u.cseq = t.cseq
             /\ Same200(t, u) /\ u.misled = t.misled
             /\ Reported(t) => Reported(u)
             /\ \A m : Before(m, t) => Before(m, u)
<1> DEFINE u == [t EXCEPT !.out = {}]
<1>0. t \in Sessions
  BY FieldTypes
<1>1. /\ u \in Sessions /\ u.out = {} /\ u.state = t.state /\ u.owed = t.owed
      /\ u.cseq = t.cseq /\ u.sent = t.sent /\ u.acks = t.acks
      /\ u.misled = t.misled /\ u.refresh = t.refresh
      /\ u.propLocal = t.propLocal /\ u.propRemote = t.propRemote /\ Same200(t, u)
  <2>1. u \in Sessions
    BY <1>0 DEF Sessions
  <2> QED BY <1>0, <2>1 DEF Sessions, Same200
<1> HIDE DEF u
<1>2. Reported(t) => Reported(u)
  BY <1>1 DEF Reported
<1>3. Fit(u) /\ \A m : Before(m, t) => Before(m, u)
  BY <1>1 DEF Fit, Before, Same200
<1> QED BY <1>1, <1>2, <1>3 DEF u

\* What was on its way still is.
LEMMA BeforeStill ==
  ASSUME NEW s, NEW t, Fit(s), Follows(s, t), NEW m \in Messages, OnItsWay(m, s)
  PROVE  OnItsWay(m, t)
<1>1. /\ Fit(t) /\ s.cseq <= t.cseq
      /\ t.state \in Asking => s.cseq < t.cseq \/ (s.state \in Asking /\ t.cseq = s.cseq)
  BY DEF Follows
<1>2. s.cseq \in Nat /\ t.cseq \in Nat /\ m.n \in Nat
  BY <1>1, FieldTypes, MessageTypes
<1> QED BY <1>1, <1>2 DEF OnItsWay, Before

\* One end handles something, and what it sends goes on its way.
LEMMA StepKeeps ==
  ASSUME DialogFits(session, net, open), NEW e \in End, NEW t, Takes(e, t),
         NEW gone, NEW closed, Step(e, t, gone, closed)
  PROVE  DialogFits(session, net, open)'
<1> DEFINE s == session[e]
           o == session[other(e)]
           u == [t EXCEPT !.out = {}]
<1>1. /\ UNCHANGED setup
      /\ session' = [session EXCEPT ![e] = u]
      /\ net' = [net EXCEPT ![e] = @ \ gone, ![other(e)] = @ \cup t.out]
      /\ open' = [open EXCEPT ![e] = (@ \ closed) \cup {m \in t.out : isOffering(m)}]
  BY DEF Step
<1>2. /\ EndsFit(session) /\ NetFits(session, net) /\ OpenFits(open)
      /\ AnswersFit(session) /\ Repeats(session)
  BY DEF DialogFits
<1>3. other(e) \in End /\ other(e) # e /\ other(other(e)) = e /\ \A d \in End : d = e \/ d = other(e)
  BY Others
<1>4. /\ Fit(s) /\ Fit(o) /\ Follows(s, t) /\ Fit(t)
      /\ "refresh" \notin Kinds => Reported(s) /\ Reported(t)
  BY <1>2, <1>3 DEF EndsFit, Takes, Follows
<1>5. /\ Fit(u) /\ u \in Sessions /\ u.out = {} /\ u.state = t.state /\ u.cseq = t.cseq
      /\ Same200(t, u) /\ u.misled = t.misled
      /\ Reported(t) => Reported(u)
      /\ \A m : Before(m, t) => Before(m, u)
  BY <1>4, Emptied
<1> HIDE DEF u
<1>6. session'[e] = u /\ session'[other(e)] = o
  BY <1>1, <1>2, <1>3 DEF EndsFit
<1>7. EndsFit(session')
  <2>1. session' \in [End -> Sessions]
    BY <1>1, <1>2, <1>5 DEF EndsFit
  <2>2. \A d \in End : session'[d] = u \/ session'[d] = session[d]
    BY <1>3, <1>6
  <2> QED BY <1>2, <1>4, <1>5, <2>1, <2>2 DEF EndsFit
<1>8. NetFits(session', net')
  <2>1. t.out \in SUBSET Messages
    BY <1>4, FieldTypes
  <2>2. net' \in [End -> SUBSET Messages]
    BY <1>1, <1>2, <1>3, <2>1 DEF NetFits
  <2>3. net'[e] \subseteq net[e] /\ net'[other(e)] = net[other(e)] \cup t.out
    BY <1>1, <1>2, <1>3 DEF NetFits
  <2>4. \A m \in net'[e] : OnItsWay(m, o)
    BY <1>2, <1>3, <2>3 DEF NetFits
  <2>5. ASSUME NEW m \in net'[other(e)]
        PROVE  OnItsWay(m, t)
    <3>1. CASE m \in net[other(e)]
      <4>1. OnItsWay(m, s) /\ m \in Messages
        BY <1>2, <1>3, <3>1 DEF NetFits
      <4> QED BY <1>4, <4>1, BeforeStill
    <3>2. CASE m \in t.out
      BY <1>4, <3>2 DEF Fit, Sent, OnItsWay
    <3> QED BY <2>3, <3>1, <3>2
  <2>6. \A m \in net'[other(e)] : OnItsWay(m, u)
    BY <1>5, <2>5 DEF OnItsWay
  <2> QED BY <1>3, <1>6, <2>2, <2>4, <2>6 DEF NetFits
<1>9. OpenFits(open')
  <2>1. t.out \in SUBSET Messages
    BY <1>4, FieldTypes
  <2> QED BY <1>1, <1>2, <2>1 DEF OpenFits
<1>10. s.cseq \in Nat /\ t.cseq \in Nat /\ o.ok.n \in Nat /\ o.got.n \in Nat
  BY <1>4, FieldTypes, MessageTypes
<1>11. AnswersFit(session')
  <2>1. t.got.n <= o.cseq /\ t.ok.n <= o.cseq
    BY DEF Takes
  <2>2. u.got.n <= o.cseq /\ u.ok.n <= o.cseq
    BY <1>5, <2>1 DEF Same200
  <2>3. o.got.n <= s.cseq /\ o.ok.n <= s.cseq
    BY <1>2 DEF AnswersFit
  <2>4. o.got.n <= u.cseq /\ o.ok.n <= u.cseq
    BY <1>4, <1>5, <1>10, <2>3 DEF Follows
  <2> QED BY <1>3, <1>6, <2>2, <2>4 DEF AnswersFit
<1>12. Repeats(session')
  <2> SUFFICES ASSUME "ack" \notin Expire, \A d \in End : ~session'[d].misled,
                      NEW d \in End, Answering(session', d, session'[other(d)])
               PROVE  session'[other(d)].re200
    BY DEF Repeats
  <2>1. ~t.misled /\ \A c \in End : ~session[c].misled
    BY <1>3, <1>4, <1>5, <1>6 DEF Follows
  <2>2. CASE d = other(e)
    <3>1. Answering(session, d, t)
      BY <1>3, <1>5, <1>6, <2>2 DEF Answering, Same200
    <3>2. t.re200
      BY <2>1, <2>2, <3>1 DEF Takes
    <3> QED BY <1>3, <1>5, <1>6, <2>2, <3>2 DEF Same200
  <2>3. CASE d = e
    <3>1. t.state \in Asking /\ o.ok.method = "INVITE" /\ o.ok.n = t.cseq
      BY <1>5, <1>6, <2>3 DEF Answering
    <3>2. o.ok.n <= s.cseq
      BY <1>2 DEF AnswersFit
    <3>3. s.state \in Asking /\ t.cseq = s.cseq
      BY <1>4, <1>10, <3>1, <3>2 DEF Follows
    <3>4. o.re200
      BY <1>2, <2>1, <3>1, <3>3 DEF Repeats, Answering
    <3> QED BY <1>6, <2>3, <3>4
  <2> QED BY <1>3, <2>2, <2>3
<1>13. DialogFits(session', net', open')
  BY <1>7, <1>8, <1>9, <1>11, <1>12 DEF DialogFits
<1> QED BY <1>1, <1>13, FitsNext

\* A handler that leaves the 200 alone.
LEMMA TakesGoes ==
  ASSUME DialogFits(session, net, open), NEW e \in End, NEW t, Goes(session[e], t)
  PROVE  Takes(e, t)
<1>2. Follows(session[e], t) /\ Same200(session[e], t) /\ (session[e].misled => t.misled)
  BY DEF Goes, Follows
<1>3. AnswersFit(session) /\ Repeats(session)
  BY DEF DialogFits
<1>4. other(e) \in End /\ other(other(e)) = e
  BY Others
<1>5. t.got.n <= session[other(e)].cseq /\ t.ok.n <= session[other(e)].cseq
  BY <1>2, <1>3, <1>4 DEF AnswersFit, Same200
<1>6. ASSUME "ack" \notin Expire, \A d \in End : ~session[d].misled, Answering(session, other(e), t)
      PROVE  t.re200
  BY <1>2, <1>3, <1>4, <1>6 DEF Repeats, Answering, Same200
<1> QED BY <1>2, <1>5, <1>6 DEF Takes

\* A handler that sends a 200 which will be repeated.
LEMMA TakesAnswers ==
  ASSUME DialogFits(session, net, open), NEW e \in End, NEW t, Answers(session[e], t)
  PROVE  Takes(e, t)
<1>1. other(e) \in End /\ other(other(e)) = e
  BY Others
<1>2. session[e].got.n <= session[other(e)].cseq
  BY <1>1 DEF DialogFits, AnswersFit
<1> QED BY <1>2 DEF Answers, Takes

\* The end of a wait for an ACK.
LEMMA TakesWaited ==
  ASSUME DialogFits(session, net, open), NEW e \in End, NEW t, Waited(session[e], t), "ack" \in Expire
  PROVE  Takes(e, t)
<1>1. other(e) \in End /\ other(other(e)) = e
  BY Others
<1>2. /\ session[e].got.n <= session[other(e)].cseq
      /\ session[e].ok.n <= session[other(e)].cseq
  BY <1>1 DEF DialogFits, AnswersFit
<1> QED BY <1>2 DEF Waited, Takes

\* A message on its way, or the end of a transaction.
LEMMA TakesHears ==
  ASSUME DialogFits(session, net, open), NEW e \in End, NEW m, NEW t, Hears(session[e], t, m),
         isOffering(m) \/ m.method = "ACK" => OnItsWay(m, session[other(e)])
  PROVE  Takes(e, t)
<1> DEFINE s == session[e]
           o == session[other(e)]
<1>1. other(e) \in End /\ other(other(e)) = e
  BY Others
<1>2. /\ Follows(s, t) /\ t.ok = s.ok
      /\ t.got = s.got \/ (isOffering(m) /\ t.got = m)
      /\ s.re200 => t.re200 \/ t.misled \/ (m.method = "ACK" /\ m.n = s.ok.n)
  BY DEF Hears
<1>3. s.got.n <= o.cseq /\ s.ok.n <= o.cseq
  BY <1>1 DEF DialogFits, AnswersFit
<1>4. t.got.n <= o.cseq /\ t.ok.n <= o.cseq
  BY <1>2, <1>3 DEF OnItsWay
<1>5. ASSUME "ack" \notin Expire, \A d \in End : ~session[d].misled, ~t.misled,
             Answering(session, other(e), t)
      PROVE  t.re200
  <2>1. s.re200
    BY <1>1, <1>2, <1>5 DEF DialogFits, Repeats, Answering
  <2>2. ASSUME m.method = "ACK", m.n = s.ok.n
        PROVE  FALSE
    <3>1. Before(m, o) /\ o.state \in Asking /\ m.n = o.cseq
      BY <1>2, <1>5, <2>2 DEF OnItsWay, Answering
    <3>2. o.cseq \in Nat
      BY <1>1, FieldTypes DEF DialogFits, EndsFit
    <3> QED BY <3>1, <3>2 DEF Before
  <2> QED BY <1>2, <1>5, <2>1, <2>2
<1> QED BY <1>2, <1>4, <1>5 DEF Takes

-----------------------------------------------------------------------------
(* The actions. *)

\* What the invariant says of one end.
LEMMA InvParts ==
  ASSUME IInv
  PROVE  /\ DialogFits(session, net, open)
         /\ \A e \in End : Fit(session[e]) /\ session[e] \in Sessions /\ session[e].cseq \in Nat
         /\ MaxMods \in Nat /\ MaxAsks \in Nat /\ Quits \subseteq BOOLEAN
         /\ asked \in [End -> 0..MaxAsks]
BY SetupTypes, FieldTypes DEF IInv, DialogFits, EndsFit

\* A step that leaves the applications' count alone.
LEMMA InvStep ==
  ASSUME IInv, UNCHANGED setup, asked' \in [End -> 0..MaxAsks], DialogFits(session, net, open)'
  PROVE  IInv'
<1>1. MaxAsks' = MaxAsks
  BY DEF MaxAsks
<1> QED BY <1>1 DEF IInv

\* The application offers, asks for an offer or refreshes.
LEMMA AskKeeps ==
  ASSUME IInv, NEW e \in End, Ask(e)
  PROVE  IInv'
<1> DEFINE s == session[e]
           offer == Sdp(e, e, s.cseq + 1)
<1>1. /\ s.cseq < MaxMods /\ asked[e] < MaxAsks /\ s.state = "Connected"
      /\ \/ Step(e, provideOffer(s, offer), {}, {})
         \/ Step(e, requestOffer(s), {}, {})
         \/ "refresh" \in Kinds /\ Step(e, sessionRefresh(s), {}, {})
      /\ asked' = [asked EXCEPT ![e] = @ + 1]
  BY DEF Ask
<1>2. /\ DialogFits(session, net, open) /\ Fit(s) /\ s.cseq + 1 \in 0..MaxMods
      /\ MaxAsks \in Nat /\ asked \in [End -> 0..MaxAsks]
  BY <1>1, InvParts
<1>3. offer \in Sdps \ {NoSdp}
  BY <1>2, SdpTypes
<1> HIDE DEF offer
<1>4. Goes(s, provideOffer(s, offer))
  BY <1>1, <1>2, <1>3, GoesProvideOffer
<1>5. Goes(s, requestOffer(s)) /\ ("refresh" \in Kinds => Goes(s, sessionRefresh(s)))
  BY <1>1, <1>2, GoesRequestOffer, GoesRefresh
<1>6. PICK t : Goes(s, t) /\ Step(e, t, {}, {})
  BY <1>1, <1>4, <1>5
<1>7. Takes(e, t)
  BY <1>2, <1>6, TakesGoes
<1>8. DialogFits(session, net, open)' /\ UNCHANGED setup
  BY <1>2, <1>6, <1>7, StepKeeps DEF Step
<1>9. asked' \in [End -> 0..MaxAsks]
  BY <1>1, <1>2
<1> QED BY <1>8, <1>9, InvStep

\* The application answers or rejects.
LEMMA AnswerKeeps ==
  ASSUME IInv, NEW e \in End, Answer(e)
  PROVE  IInv'
<1> DEFINE s == session[e]
<1>1. DialogFits(session, net, open) /\ Fit(s) /\ asked \in [End -> 0..MaxAsks]
  BY InvParts
<1>2. s.got.n \in 0..MaxMods /\ s.sent.n \in 0..MaxMods /\ other(e) \in End
  BY <1>1, FieldTypes, MessageTypes, Others
<1>3. \E t : (Goes(s, t) \/ Answers(s, t)) /\ Step(e, t, {}, {})
  <2>1. ASSUME NEW sdp \in Sdps \ {NoSdp}, s.state \in ToAnswer, Step(e, provideAnswer(s, sdp), {}, {})
        PROVE  \E t : (Goes(s, t) \/ Answers(s, t)) /\ Step(e, t, {}, {})
    BY <1>1, <2>1, GoesProvideAnswer
  <2>2. CASE /\ s.state \in {"ReceivedReinvite", "ReceivedUpdate"}
             /\ Step(e, provideAnswer(s, Sdp(e, other(e), s.got.n)), {}, {})
    BY <1>2, <2>1, <2>2, SdpTypes DEF ToAnswer
  <2>3. CASE /\ s.state = "SentReinviteAnswered"
             /\ Step(e, provideAnswer(s, Sdp(e, e, s.sent.n)), {}, {})
    BY <1>2, <2>1, <2>3, SdpTypes DEF ToAnswer
  <2>4. CASE /\ s.state = "ReceivedReinviteNoOffer"
             /\ Step(e, provideOffer(s, Sdp(e, other(e), s.got.n)), {}, {})
    <3>1. Sdp(e, other(e), s.got.n) \in Sdps \ {NoSdp}
      BY <1>2, SdpTypes
    <3> QED BY <1>1, <2>4, <3>1, GoesProvideOffer
  <2>5. CASE s.state \in Undecided /\ Step(e, reject(s), {}, {})
    BY <1>1, <2>5, GoesReject
  <2> QED BY <2>2, <2>3, <2>4, <2>5 DEF Answer
<1>4. PICK t : (Goes(s, t) \/ Answers(s, t)) /\ Step(e, t, {}, {})
  BY <1>3
<1>5. Takes(e, t)
  BY <1>1, <1>4, TakesGoes, TakesAnswers
<1>6. DialogFits(session, net, open)' /\ UNCHANGED setup
  BY <1>1, <1>4, <1>5, StepKeeps DEF Step
<1>7. asked' \in [End -> 0..MaxAsks]
  BY <1>1 DEF Answer
<1> QED BY <1>6, <1>7, InvStep

\* A call or a timer that sends no 200.
LEMMA GoingKeeps ==
  ASSUME IInv, NEW e \in End, NEW t, Goes(session[e], t), Step(e, t, {}, {}), UNCHANGED asked
  PROVE  IInv'
<1>1. DialogFits(session, net, open) /\ asked \in [End -> 0..MaxAsks]
  BY InvParts
<1>2. Takes(e, t)
  BY <1>1, TakesGoes
<1>3. DialogFits(session, net, open)' /\ UNCHANGED setup
  BY <1>1, <1>2, StepKeeps DEF Step
<1> QED BY <1>1, <1>3, InvStep

\* A message arrives.
LEMMA ReceiveKeeps ==
  ASSUME IInv, NEW e \in End, NEW m \in net[e], Receive(e, m)
  PROVE  IInv'
<1> DEFINE s == session[e]
           gone == IF lasting(m) THEN {} ELSE {m}
           closed == {r \in open[e] : m.code # 0 /\ r.method = m.method /\ r.n = m.n}
<1>1. /\ DialogFits(session, net, open) /\ Fit(s) /\ asked \in [End -> 0..MaxAsks]
      /\ Quits \subseteq BOOLEAN
  BY InvParts
<1>2. m.code = 422 => s.cseq < MaxMods
  BY DEF Receive
<1>3. other(e) \in End /\ other(other(e)) = e
  BY Others
<1>4. m \in Messages /\ OnItsWay(m, session[other(e)])
  BY <1>1, <1>3 DEF DialogFits, NetFits
<1>5. Welcome(s, m)
  BY <1>2, <1>4 DEF Welcome, OnItsWay
<1>6. \/ \E quits \in Quits : Step(e, dispatch(s, m, quits), gone, closed)
      \/ Step(e, s, gone, {})
  BY DEF Receive
<1> HIDE DEF gone, closed
<1>7. PICK t, c : Takes(e, t) /\ Step(e, t, gone, c)
  <2>1. ASSUME NEW quits \in Quits, Step(e, dispatch(s, m, quits), gone, closed)
        PROVE  Takes(e, dispatch(s, m, quits))
    <3>1. Hears(s, dispatch(s, m, quits), m)
      BY <1>1, <1>5, HearsDispatch
    <3> QED BY <1>1, <1>4, <3>1, TakesHears
  <2>2. Takes(e, s)
    BY <1>1, GoesOn, TakesGoes
  <2> QED BY <1>6, <2>1, <2>2
<1>8. DialogFits(session, net, open)' /\ UNCHANGED setup
  BY <1>1, <1>7, StepKeeps DEF Step
<1>9. asked' \in [End -> 0..MaxAsks]
  BY <1>1 DEF Receive
<1> QED BY <1>8, <1>9, InvStep

\* The network loses, makes or repeats a message.
LEMMA NetKeeps ==
  ASSUME IInv, UNCHANGED <<setup, session, open, asked>>, net' \in [End -> SUBSET Messages],
         \A e \in End : \A m \in net'[other(e)] : m \in net[other(e)] \/ OnItsWay(m, session[e])
  PROVE  IInv'
<1>1. DialogFits(session, net, open) /\ asked \in [End -> 0..MaxAsks]
  BY InvParts
<1>2. NetFits(session, net')
  BY <1>1 DEF DialogFits, NetFits
<1>3. DialogFits(session', net', open')
  BY <1>1, <1>2 DEF DialogFits
<1>4. DialogFits(session, net, open)'
  BY <1>3, FitsNext
<1> QED BY <1>1, <1>4, InvStep

\* A message is lost.
LEMMA LoseKeeps ==
  ASSUME IInv, NEW e \in End, NEW m \in net[e], Lose(e, m)
  PROVE  IInv'
<1>1. net \in [End -> SUBSET Messages]
  BY InvParts DEF DialogFits, NetFits
<1>2. net' = [net EXCEPT ![e] = @ \ {m}] /\ UNCHANGED <<setup, session, open, asked>>
  BY DEF Lose
<1> QED BY <1>1, <1>2, Others, NetKeeps

\* A proxy answers 422.
LEMMA TooSmallKeeps ==
  ASSUME IInv, NEW e \in End, NEW m \in net[e], TooSmall(e, m)
  PROVE  IInv'
<1> DEFINE answer == Response(m, 422, NoSdp)
<1>1. net \in [End -> SUBSET Messages]
  BY InvParts DEF DialogFits, NetFits
<1>2. /\ net' = [net EXCEPT ![e] = @ \ {m}, ![other(e)] = @ \cup {answer}]
      /\ UNCHANGED <<setup, session, open, asked>> /\ isOffering(m) /\ "refresh" \in Kinds
  BY DEF TooSmall
<1>3. /\ answer \in Messages /\ answer.method = m.method /\ answer.code = 422
  BY <1>1, Negatives, ResponseTypes DEF Replies
<1>4. \A s : OnItsWay(answer, s)
  BY <1>2, <1>3 DEF OnItsWay, isOffering
<1> HIDE DEF answer
<1>5. net' \in [End -> SUBSET Messages]
  <2>1. other(e) \in End /\ net[e] \ {m} \in SUBSET Messages
        /\ net[other(e)] \cup {answer} \in SUBSET Messages
    BY <1>1, <1>3, Others
  <2>2. \A d \in End : net'[d] \in SUBSET Messages
    BY <1>1, <1>2, <1>3, <2>1, Others
  <2> QED BY <1>1, <1>2, <2>2
<1>6. \A d \in End : \A x \in net'[d] : x \in net[d] \/ x = answer
  BY <1>1, <1>2, Others
<1> QED BY <1>2, <1>4, <1>5, <1>6, Others, NetKeeps

\* A 200 is repeated.
LEMMA RetransmitKeeps ==
  ASSUME IInv, NEW e \in End, Retransmit200(e)
  PROVE  IInv'
<1> DEFINE ok == session[e].ok
<1>1. net \in [End -> SUBSET Messages] /\ Fit(session[e])
  BY InvParts DEF DialogFits, NetFits
<1>2. /\ net' = [net EXCEPT ![other(e)] = @ \cup {ok}]
      /\ UNCHANGED <<setup, session, open, asked>>
  BY DEF Retransmit200
<1>3. ok \in Messages /\ Ok(ok)
  BY <1>1, FieldTypes DEF Fit
<1> HIDE DEF ok
<1>4. \A s : OnItsWay(ok, s)
  BY <1>3 DEF OnItsWay, Ok
<1>5. net' \in [End -> SUBSET Messages]
  BY <1>1, <1>2, <1>3
<1>6. \A d \in End : \A m \in net'[d] : m \in net[d] \/ m = ok
  BY <1>1, <1>2, Others
<1> QED BY <1>2, <1>4, <1>5, <1>6, Others, NetKeeps

\* A transaction ends without a response.
LEMMA UnansweredKeeps ==
  ASSUME IInv, NEW e \in End, NEW r \in open[e], Unanswered(e, r)
  PROVE  IInv'
<1> DEFINE s == session[e]
           m == Response(r, 408, NoSdp)
           t == dispatch(s, m, TRUE)
<1>1. DialogFits(session, net, open) /\ Fit(s) /\ asked \in [End -> 0..MaxAsks]
  BY InvParts
<1>2. r \in Messages /\ isOffering(r)
  BY <1>1 DEF DialogFits, OpenFits
<1>3. m \in Messages /\ m.method = r.method /\ m.code = 408
  BY <1>2, Negatives, ResponseTypes DEF Replies
<1>4. Step(e, t, {}, {r}) /\ UNCHANGED asked
  BY DEF Unanswered
<1> HIDE DEF m
<1>5. Welcome(s, m) /\ ~isOffering(m) /\ m.method # "ACK"
  BY <1>2, <1>3 DEF Welcome, isOffering
<1>6. Hears(s, t, m)
  BY <1>1, <1>5, HearsDispatch
<1> HIDE DEF t
<1>7. Takes(e, t)
  BY <1>1, <1>5, <1>6, TakesHears
<1>8. DialogFits(session, net, open)' /\ UNCHANGED setup
  BY <1>1, <1>4, <1>7, StepKeeps DEF Step
<1> QED BY <1>1, <1>4, <1>8, InvStep

\* No ACK comes.
LEMMA AckTimeoutKeeps ==
  ASSUME IInv, NEW e \in End, AckTimeout(e)
  PROVE  IInv'
<1> DEFINE s == session[e]
<1>1. /\ DialogFits(session, net, open) /\ Fit(s) /\ asked \in [End -> 0..MaxAsks]
      /\ Quits \subseteq BOOLEAN
  BY InvParts
<1>2. /\ "ack" \in Expire /\ UNCHANGED asked
      /\ \E n \in s.waitAck, quits \in Quits : Step(e, WaitForAck(s, n, quits), {}, {})
  BY DEF AckTimeout
<1>3. PICK t : Waited(s, t) /\ Step(e, t, {}, {})
  BY <1>1, <1>2, WaitedForAck
<1>4. Takes(e, t)
  BY <1>1, <1>2, <1>3, TakesWaited
<1>5. DialogFits(session, net, open)' /\ UNCHANGED setup
  BY <1>1, <1>3, <1>4, StepKeeps DEF Step
<1> QED BY <1>1, <1>2, <1>5, InvStep

\* A call or a timer of an end that sends no 200.
LEMMA CallsKeep ==
  ASSUME IInv, NEW e \in End,
         HangUp(e) \/ GlareTimeout(e) \/ StaleTimeout(e) \/ SessionExpired(e)
  PROVE  IInv'
<1> DEFINE s == session[e]
<1>1. Fit(s) /\ Quits \subseteq BOOLEAN
  BY InvParts
<1>2. CASE HangUp(e)
  <2>1. Goes(s, end(s)) /\ Step(e, end(s), {}, {}) /\ UNCHANGED asked
    BY <1>1, <1>2, GoesEnd DEF HangUp
  <2> QED BY <2>1, GoingKeeps
<1>3. CASE GlareTimeout(e)
  <2>1. s.glare > 0 /\ s.cseq < MaxMods /\ Step(e, Glare(s), {}, {}) /\ UNCHANGED asked
    BY <1>3 DEF GlareTimeout
  <2> QED BY <1>1, <2>1, GoesAgain, GoingKeeps
<1>4. CASE StaleTimeout(e)
  <2>1. (\E quits \in Quits : Step(e, StaleReInvite(s, quits), {}, {})) /\ UNCHANGED asked
    BY <1>4 DEF StaleTimeout
  <2>2. PICK t : Goes(s, t) /\ Step(e, t, {}, {})
    BY <1>1, <2>1, GoesStale
  <2> QED BY <2>1, <2>2, GoingKeeps
<1>5. CASE SessionExpired(e)
  <2>1. Step(e, SessionExpiration(s), {}, {}) /\ UNCHANGED asked
    BY <1>5 DEF SessionExpired
  <2> QED BY <1>1, <2>1, GoesExpired, GoingKeeps
<1> QED BY <1>2, <1>3, <1>4, <1>5

-----------------------------------------------------------------------------
(* The theorems. *)

\* An established session fits.
LEMMA EstablishedFits ==
  ASSUME MaxMods \in Nat, NEW uac \in BOOLEAN, NEW update \in BOOLEAN,
         NEW local \in Sdps \ {NoSdp}, NEW remote \in Sdps \ {NoSdp},
         NEW s, s = Established(uac, update, local, remote)
  PROVE  /\ Fit(s) /\ Reported(s) /\ s.out = {} /\ s.state = "Connected"
         /\ s.got.n = 0 /\ s.ok.n = 0 /\ s.cseq = 0
<1> DEFINE first == Request(IF uac THEN "INVITE" ELSE None, 0, NoSdp)
           heard == Request(IF uac THEN None ELSE "INVITE", 0, NoSdp)
           none == Request(None, 0, NoSdp)
           acks == IF uac THEN {Request("ACK", 0, NoSdp)} ELSE {}
<1>1. 0 \in 0..MaxMods /\ NoSdp \in Sdps /\ "Connected" \in States
  BY SdpTypes, StateNames
<1>2. /\ first \in Messages /\ first.method \in {None, "INVITE"} /\ first.n = 0
      /\ heard \in Messages /\ heard.method \in {None, "INVITE"} /\ heard.n = 0
      /\ none \in Messages /\ none.method = None /\ none.n = 0 /\ none.code = 0
  BY <1>1, MessageTypes DEF Request
<1>3. /\ acks \in SUBSET Messages
      /\ \A a \in acks : a.method = "ACK" /\ a.code = 0 /\ a.n = 0
  <2> DEFINE ack == Request("ACK", 0, NoSdp)
  <2>1. ack \in Messages
    BY <1>1, MessageTypes
  <2>2. ack.method = "ACK" /\ ack.code = 0 /\ ack.n = 0
    BY DEF Request
  <2> HIDE DEF ack
  <2>3. acks \subseteq {ack}
    BY DEF ack
  <2> HIDE DEF acks
  <2> QED BY <2>1, <2>2, <2>3
<1>4. s = [state |-> "Connected", uac |-> uac, update |-> update, cseq |-> 0,
           local |-> local, remote |-> remote, propLocal |-> NoSdp, propRemote |-> NoSdp,
           sent |-> first, got |-> heard, ok |-> none, re200 |-> FALSE, waitAck |-> {},
           misled |-> FALSE, acks |-> acks, stale |-> FALSE, glare |-> 0, refresh |-> FALSE,
           expires |-> TRUE, owed |-> FALSE, out |-> {}, bad |-> FALSE]
  BY DEF Established
<1> HIDE DEF first, heard, none, acks
<1>5. {} \in Waits /\ {} \in SUBSET Messages /\ 0 \in Nat
  BY DEF Waits
<1>6. s \in Sessions
  BY <1>1, <1>2, <1>3, <1>4, <1>5 DEF Sessions
<1>7. Fit(s)
  <2>1. /\ s.state = "Connected" /\ s.cseq = 0 /\ s.sent = first /\ s.got = heard /\ s.ok = none
        /\ s.acks = acks /\ s.out = {}
    BY <1>4
  <2>2. Ok(none)
    BY <1>2 DEF Ok, isOffering, None
  <2>3. "Connected" \notin Asking \cup AskingAgain \cup Offered \cup ToAnswer
    BY StateNames
  <2>4. heard.method # "ACK"
    BY <1>2 DEF None
  <2> QED BY <1>2, <1>3, <1>6, <2>1, <2>2, <2>3, <2>4 DEF Fit, Before
<1>8. Reported(s)
  BY <1>4 DEF Reported
<1> QED BY <1>2, <1>4, <1>7, <1>8

\* The invariant holds when the dialog has been established.
LEMMA InitFits ==
  ASSUME Init
  PROVE  IInv
<1> DEFINE s(e) == Established(e = "a", setup.Update, Sdp(e, "a", 0), Sdp(other(e), "a", 0))
<1>1. /\ setup \in Setups /\ session = [e \in End |-> s(e)]
      /\ net = [e \in End |-> {}] /\ open = [e \in End |-> {}] /\ asked = [e \in End |-> 0]
  BY DEF Init
<1>2. MaxMods \in Nat /\ MaxAsks \in Nat /\ setup.Update \in BOOLEAN
  BY <1>1, SetupTypes
<1>3. ASSUME NEW e \in End
      PROVE  /\ Fit(session[e]) /\ Reported(session[e]) /\ session[e].out = {}
             /\ session[e].state = "Connected" /\ session[e].got.n = 0 /\ session[e].ok.n = 0
             /\ session[e].cseq = 0
  <2>1. (e = "a") \in BOOLEAN /\ "a" \in End /\ 0 \in 0..MaxMods /\ other(e) \in End
    BY <1>2, Others DEF End
  <2>2. Sdp(e, "a", 0) \in Sdps \ {NoSdp} /\ Sdp(other(e), "a", 0) \in Sdps \ {NoSdp}
    BY <2>1, SdpTypes
  <2>3. session[e] = s(e)
    BY <1>1
  <2>4. PICK uac \in BOOLEAN : uac = (e = "a")
    BY <2>1
  <2>5. session[e] = Established(uac, setup.Update, Sdp(e, "a", 0), Sdp(other(e), "a", 0))
    BY <2>3, <2>4
  <2> QED BY <1>2, <2>2, <2>5, EstablishedFits
<1>4. EndsFit(session)
  BY <1>1, <1>3, FieldTypes DEF EndsFit
<1>5. NetFits(session, net) /\ OpenFits(open)
  BY <1>1, Others DEF NetFits, OpenFits
<1>6. AnswersFit(session)
  BY <1>3, Others DEF AnswersFit
<1>7. Repeats(session)
  BY <1>3 DEF Repeats, Answering, Asking
<1>8. asked \in [End -> 0..MaxAsks]
  BY <1>1, <1>2
<1> QED BY <1>1, <1>4, <1>5, <1>6, <1>7, <1>8 DEF IInv, DialogFits

\* No step breaks the invariant.
LEMMA NextKeeps ==
  ASSUME IInv, [Next]_vars
  PROVE  IInv'
<1>1. ASSUME NEW e \in End,
             \/ Ask(e) \/ Answer(e) \/ HangUp(e)
             \/ \E m \in net[e] : Receive(e, m) \/ Lose(e, m) \/ TooSmall(e, m)
             \/ \E r \in open[e] : Unanswered(e, r)
             \/ Retransmit200(e) \/ AckTimeout(e) \/ GlareTimeout(e) \/ StaleTimeout(e)
             \/ SessionExpired(e)
      PROVE  IInv'
  BY <1>1, AskKeeps, AnswerKeeps, CallsKeep, ReceiveKeeps, LoseKeeps, TooSmallKeeps,
     UnansweredKeeps, RetransmitKeeps, AckTimeoutKeeps
<1>2. CASE UNCHANGED vars
  <2>1. UNCHANGED <<setup, session, net, open, asked>>
    BY <1>2 DEF vars
  <2>2. DialogFits(session', net', open')
    BY <2>1, InvParts
  <2>3. DialogFits(session, net, open)'
    BY <2>1, <2>2, FitsNext
  <2> QED BY <2>1, <2>3, InvParts, InvStep
<1> QED BY <1>1, <1>2 DEF Next

\* Whatever the applications, the network and the timers do, the invariant holds.
THEOREM Invariant == Spec => []IInv
<1>1. Init => IInv
  BY InitFits
<1>2. IInv /\ [Next]_vars => IInv'
  BY NextKeeps
<1> QED BY <1>1, <1>2, PTL DEF Spec

\* The two ends, the messages between them and their transactions are well-formed.
THEOREM TypeCorrect == Spec => []TypeOK
<1>1. ASSUME IInv
      PROVE  TypeOK
  <2>1. /\ session \in [End -> Sessions] /\ \A e \in End : session[e].out = {}
        /\ net \in [End -> SUBSET Messages] /\ open \in [End -> SUBSET Messages]
        /\ asked \in [End -> 0..MaxAsks]
    BY <1>1 DEF IInv, DialogFits, EndsFit, NetFits, OpenFits
  <2> DEFINE Typed == [
       state : States, uac : BOOLEAN, update : BOOLEAN, cseq : 0..MaxMods,
       local : Sdps \ {NoSdp}, remote : Sdps \ {NoSdp}, propLocal : Sdps, propRemote : Sdps,
       sent : Messages, got : Messages, ok : Messages, re200 : BOOLEAN,
       waitAck : SUBSET (0..MaxMods), misled : BOOLEAN, acks : SUBSET Messages,
       stale : BOOLEAN, glare : Nat, refresh : BOOLEAN, expires : BOOLEAN,
       owed : BOOLEAN, out : {{}}, bad : BOOLEAN]
  <2>2. ASSUME NEW s \in Sessions, s.out = {}
        PROVE  s \in Typed
    BY <2>2 DEF Sessions, Waits
  <2> HIDE DEF Typed
  <2>3. session \in [End -> Typed]
    BY <2>1, <2>2
  <2> QED BY <2>1, <2>3 DEF TypeOK, Typed
<1> QED BY <1>1, Invariant, PTL

\* An application that made an offer, or asked for one, has been called back about it
\* when its session is back in Connected.
THEOREM OffersReported == Spec => []OfferReported
<1>1. ASSUME IInv
      PROVE  OfferReported
  BY <1>1, StateNames DEF IInv, DialogFits, EndsFit, Reported, OfferReported
<1> QED BY <1>1, Invariant, PTL

\* The answer to a re-INVITE that is waited for goes on being repeated.
THEOREM AnswersStillComing == Spec => []AnswerStillComing
<1>1. ASSUME IInv
      PROVE  AnswerStillComing
  <2> SUFFICES ASSUME Patient, AcksInTurn, NEW e \in End, NEW sdp \in Sdps,
                      session[e].state \in {"SentReinvite", "SentReinviteNoOffer"},
                      session[other(e)].ok = Response(session[e].sent, 200, sdp)
               PROVE  session[other(e)].re200
    BY DEF AnswerStillComing
  <2>1. Fit(session[e]) /\ session[e].state \in Asking
    BY <1>1, InvParts DEF Asking
  <2>2. session[e].sent \in Messages /\ session[e].sent.method = "INVITE"
        /\ session[e].sent.n = session[e].cseq
    BY <2>1, FieldTypes DEF Fit
  <2>3. session[other(e)].ok.method = "INVITE" /\ session[other(e)].ok.n = session[e].cseq
    <3>1. 200 \in Replies
      BY DEF Replies
    <3>2. PICK m \in Messages : m = session[e].sent
      BY <2>2
    <3>3. Response(m, 200, sdp).method = m.method /\ Response(m, 200, sdp).n = m.n
      BY <3>1, ResponseTypes
    <3> QED BY <2>2, <3>2, <3>3
  <2>4. "ack" \notin Expire /\ \A d \in End : ~session[d].misled
    BY DEF Patient, AcksInTurn
  <2>5. Repeats(session)
    BY <1>1 DEF IInv, DialogFits
  <2> QED BY <2>1, <2>3, <2>4, <2>5 DEF Repeats, Answering
<1> QED BY <1>1, Invariant, PTL

-----------------------------------------------------------------------------
(* No assert fails: the two ends agree on what became of each request. *)
\* The setups in which the asserts hold.
Careful == ~(Rejects /\ "request" \in Kinds) /\ ~(Ends /\ "expired" \in Expire)

\* There no description is left over but by a rejection, and no offer is asked for if one
\* may be rejected.
Leftovers == Rejects \/ ~Careful

OffersOnly == Rejects /\ Careful

\* The last request may lack its final response.
Awaiting == {"SentUpdate", "WaitingToTerminate"} \cup Asking

Awaits(s) == s.state \in Awaiting \cup {"Terminated"}

\* The last request is a re-INVITE without ACK.
Unacked == {"WaitingToTerminate", "SentReinviteAnswered"} \cup Asking

\* No request of this end awaits anything.
Free == {"Connected", "SentUpdateGlare"} \cup AskingAgain

\* The last request asked for an offer.
Empty == {"SentReinviteNoOffer", "SentReinviteNoOfferGlare"}

\* The final responses to requests that change the session.
isReply(m) == m.code # 0 /\ m.method \in {"INVITE", "UPDATE"}

isOk(m) == m.method = "INVITE" /\ m.code = 200

\* No INVITE or UPDATE is in M.
NoOffering(M) == \A m \in M : ~isOffering(m)

-----------------------------------------------------------------------------
(* What holds of one end. *)

\* The request that the application of s is to decide on.
Pending(s) ==
  /\ isOffering(s.got)
  /\ s.state = "ReceivedUpdate" => s.got.method = "UPDATE"
  /\ s.state = "ReceivedReinvite" => s.got.method = "INVITE" /\ s.got.sdp # NoSdp
  /\ s.state = "ReceivedReinviteNoOffer" => s.got.method = "INVITE" /\ s.got.sdp = NoSdp

\* The request that s sent last.
Requested(s) ==
  /\ s.sent.code = 0 /\ s.sent.n = s.cseq
  /\ s.state \in Unacked => s.sent.method = "INVITE" /\ \A a \in s.acks : a.n < s.cseq
  /\ s.state \in {"SentUpdate", "SentUpdateGlare"} => s.sent.method = "UPDATE"
  /\ s.state \in {"SentReinvite", "SentReinviteGlare"} => s.sent.sdp # NoSdp
  /\ s.state \in Empty => s.sent.sdp = NoSdp

\* The 200 of the last re-INVITE that s received.
Repeating(s) ==
  /\ s.re200 => isOk(s.ok)
  /\ s.state = "ReceivedReinviteSentOffer" => s.re200 /\ s.ok.n = s.got.n

\* A description of the peer is left undecided only while its answer is due, or if it was
\* rejected; who rejects offers is never asked for one.
Proposed(s) ==
  /\ s.propRemote # NoSdp => s.state \in ToAnswer \cup {"Terminated"} \/ Leftovers
  /\ OffersOnly => s.state \notin Empty \cup {"ReceivedReinviteNoOffer"}

\* No assert has failed, and the session timer does not run out in an end that waits to hang up.
Unhurt(s) ==
  Careful => ~s.bad /\ (s.state = "WaitingToHangup" => ~s.expires \/ "expired" \notin Expire)

Sound(s) ==
  /\ Requested(s)
  /\ s.state \in Undecided => Pending(s)
  /\ Repeating(s)
  /\ Proposed(s)
  /\ Unhurt(s)

-----------------------------------------------------------------------------
(* What holds of s and its peer p, with the messages on their way in to s and to p. *)

\* The open transactions of s.
Opened(s, op) == op \subseteq {s.sent} /\ (op # {} => Awaits(s))

\* The messages of s on their way.
Mannered(s, to) ==
  \A m \in to :
    /\ m.method \in {"INVITE", "UPDATE", "ACK", "BYE"}
    /\ m.method \in {"ACK", "BYE"} => m.code = 0
    /\ m.method = "ACK" => m.n < s.cseq \/ s.state \notin Unacked
    /\ isOffering(m) => m = s.sent /\ Awaits(s)
    /\ isOffering(m) /\ m.method = "INVITE" /\ OffersOnly => m.sdp # NoSdp

\* The application of p has the request of s, which is no longer on its way.
Decides(s, p, to) == p.state \in Undecided => p.got = s.sent /\ Awaits(s) /\ NoOffering(to)

\* The final responses of p that s may receive.
Outcomes(p, in) == {m \in in : isReply(m)} \cup {m \in {p.ok} : m.method = "INVITE"}

\* The request with the response x is neither on its way nor with the application of p,
\* and has no other response.  The 200 of a re-INVITE has its ACK or can get it.
Concluded(s, p, in, to, x) ==
  /\ x.n <= s.cseq
  /\ x.n = s.cseq =>
       /\ NoOffering(to) /\ p.state \notin Undecided
       /\ \A y \in Outcomes(p, in) : y.n = s.cseq => x = y
  /\ isOk(x) =>
       /\ isOk(p.ok) /\ x.n <= p.ok.n
       /\ \/ \E a \in s.acks : a.n = x.n
          \/ s.state = "Terminated"
          \/ x.n = s.cseq /\ s.state \in Unacked

AllConcluded(s, p, in, to) == \A x \in Outcomes(p, in) : Concluded(s, p, in, to, x)

\* The answer of s is due in an ACK, and p waits for it without asking anything.
Due(s, p, in) ==
  /\ s.state = "SentReinviteAnswered" => isOk(p.ok) /\ p.ok.n = s.cseq
  /\ s.state \in {"SentReinviteNoOffer", "SentReinviteAnswered"} /\ isOk(p.ok) /\ p.ok.n = s.cseq =>
       /\ p.state \in {"ReceivedReinviteSentOffer", "WaitingToHangup", "Terminated"}
       /\ NoOffering(in)

\* What s and its peer p agree on about the last request of s.
Agreed(s, p, in, to, op) ==
  /\ Opened(s, op) /\ Mannered(s, to) /\ Decides(s, p, to)
  /\ AllConcluded(s, p, in, to) /\ Due(s, p, in)

\* In the sessions ss, with nn on its way and the transactions oo open.
AllSound(ss, nn, oo) ==
  \A e \in End :
    Sound(ss[e]) /\ Agreed(ss[e], ss[other(e)], nn[e], nn[other(e)], oo[e])

\* An ACK taken for another one ends the agreement for good.
JInv == Patient /\ AcksInTurn => AllSound(session, net, open)

-----------------------------------------------------------------------------
(* What an end does to its own requests. *)

SameRequest(s, t) == t.cseq = s.cseq /\ t.sent = s.sent /\ t.acks = s.acks

\* The last request of s may still wait in t for what it waited for in s.
Onward(s, t) ==
  /\ Awaits(s) => Awaits(t)
  /\ s.state \in Unacked => t.state \in Unacked \cup {"Terminated"}
  /\ t.state \in Unacked => s.state \in Unacked
  /\ s.state = "Terminated" => t.state = "Terminated"
  /\ t.state \in {"SentReinviteNoOffer", "SentReinviteAnswered"} => t.state = s.state

\* Nothing becomes of the last request.
LEMMA AgreedHolds ==
  ASSUME NEW s, NEW t, NEW p, NEW in, NEW to, NEW op, NEW in2, NEW out, NEW op2,
         Agreed(s, p, in, to, op), SameRequest(s, t), Onward(s, t),
         in2 \subseteq in, op2 \subseteq op, NoOffering(out), Mannered(t, out)
  PROVE  Agreed(t, p, in2, to \cup out, op2)
<1>1. Opened(t, op2)
  BY DEF Agreed, Opened, SameRequest, Onward
<1>2. Mannered(t, to \cup out)
  BY DEF Agreed, Mannered, SameRequest, Onward
<1>3. Decides(t, p, to \cup out)
  BY DEF Agreed, Decides, SameRequest, Onward, NoOffering
<1>4. AllConcluded(t, p, in2, to \cup out)
  <2> SUFFICES ASSUME NEW x \in Outcomes(p, in2)
               PROVE  Concluded(t, p, in2, to \cup out, x)
    BY DEF AllConcluded
  <2>1. Outcomes(p, in2) \subseteq Outcomes(p, in)
    BY DEF Outcomes
  <2>2. Concluded(s, p, in, to, x)
    BY <2>1 DEF Agreed, AllConcluded
  <2> QED BY <2>1, <2>2 DEF Concluded, SameRequest, Onward, NoOffering
<1>5. Due(t, p, in2)
  BY DEF Agreed, Due, SameRequest, Onward, NoOffering
<1> QED BY <1>1, <1>2, <1>3, <1>4, <1>5 DEF Agreed

\* A response other than the 200 of a re-INVITE ends the wait.
LEMMA AgreedClosed ==
  ASSUME NEW s, NEW t, NEW p, NEW in, NEW to, NEW op, NEW out, NEW x \in in,
         Agreed(s, p, in, to, op), SameRequest(s, t), s.state \in Awaiting, t.state \in Free,
         isReply(x), ~isOk(x), x.n = s.cseq, p.ok.method = "INVITE" => isOk(p.ok),
         NoOffering(out), Mannered(t, out)
  PROVE  Agreed(t, p, in \ {x}, to \cup out, {})
<1>1. x \in Outcomes(p, in) /\ Concluded(s, p, in, to, x)
  BY DEF Agreed, AllConcluded, Outcomes
<1>2. NoOffering(to) /\ p.state \notin Undecided /\ s.state # "Terminated"
  BY <1>1 DEF Concluded, Awaiting, Asking
<1>3. t.state \notin Unacked \cup {"SentReinviteNoOffer", "SentReinviteAnswered"}
  BY DEF Free, Unacked, Asking, AskingAgain
<1>4. Opened(t, {})
  BY DEF Opened
<1>5. Mannered(t, to \cup out)
  BY <1>2, <1>3 DEF Agreed, Mannered, SameRequest, NoOffering
<1>6. Decides(t, p, to \cup out)
  BY <1>2 DEF Decides
<1>7. AllConcluded(t, p, in \ {x}, to \cup out)
  <2> SUFFICES ASSUME NEW y \in Outcomes(p, in \ {x})
               PROVE  Concluded(t, p, in \ {x}, to \cup out, y)
    BY DEF AllConcluded
  <2>1. y \in Outcomes(p, in) /\ Concluded(s, p, in, to, y)
    BY DEF Outcomes, Agreed, AllConcluded
  <2>2. y # x
    BY DEF Outcomes
  <2>3. y.n # s.cseq
    BY <1>1, <2>1, <2>2 DEF Concluded
  <2> QED BY <1>2, <2>1, <2>3 DEF Concluded, SameRequest
<1>8. Due(t, p, in \ {x})
  BY <1>3 DEF Due
<1> QED BY <1>4, <1>5, <1>6, <1>7, <1>8 DEF Agreed

\* An end that waits for nothing sends a request.
LEMMA AgreedRequests ==
  ASSUME NEW s, NEW t, NEW p, NEW in, NEW to, NEW op, NEW in2, NEW op2,
         Agreed(s, p, in, to, op), s.cseq \in Nat, s.state \in Free,
         t.acks = s.acks, t.cseq = s.cseq + 1, t.sent.n = t.cseq, isOffering(t.sent),
         t.sent.method = "INVITE" /\ OffersOnly => t.sent.sdp # NoSdp,
         t.state \in {"SentUpdate"} \cup Asking,
         in2 \subseteq in, op2 \subseteq op \cup {t.sent},
         \A m \in to : m.n \in Nat /\ (m.method = "ACK" => m.n <= s.cseq),
         \A m \in in : m.n \in Nat, p.ok.n \in Nat
  PROVE  Agreed(t, p, in2, to \cup {t.sent}, op2)
<1>1. ~Awaits(s) /\ Awaits(t) /\ s.state \notin Unacked
  BY DEF Awaits, Awaiting, Free, Asking, AskingAgain, Unacked
<1>2. op = {} /\ NoOffering(to) /\ p.state \notin Undecided
  BY <1>1 DEF Agreed, Opened, Mannered, Decides, NoOffering
<1>3. Opened(t, op2)
  BY <1>1, <1>2 DEF Opened
<1>4. Mannered(t, to \cup {t.sent})
  <2>1. ASSUME NEW m \in to, m.method = "ACK"
        PROVE  m.n < t.cseq
    BY <2>1
  <2> QED BY <1>1, <1>2, <2>1 DEF Agreed, Mannered, NoOffering, isOffering
<1>5. Decides(t, p, to \cup {t.sent})
  BY <1>2 DEF Decides
<1>6. AllConcluded(t, p, in2, to \cup {t.sent})
  <2> SUFFICES ASSUME NEW x \in Outcomes(p, in2)
               PROVE  Concluded(t, p, in2, to \cup {t.sent}, x)
    BY DEF AllConcluded
  <2>1. x \in Outcomes(p, in) /\ Concluded(s, p, in, to, x) /\ x.n \in Nat
    BY DEF Outcomes, Agreed, AllConcluded
  <2>2. x.n <= s.cseq
    BY <2>1 DEF Concluded
  <2>3. x.n <= t.cseq /\ x.n # t.cseq
    BY <2>1, <2>2
  <2>4. s.state # "Terminated"
    BY <1>1 DEF Awaits
  <2> QED BY <1>1, <2>1, <2>3, <2>4 DEF Concluded
<1>7. Due(t, p, in2)
  <2>1. t.state # "SentReinviteAnswered"
    BY DEF Asking
  <2>2. isOk(p.ok) => p.ok.n # t.cseq
    <3>1. isOk(p.ok) => p.ok.n <= s.cseq
      BY DEF Agreed, AllConcluded, Outcomes, Concluded, isOk
    <3> QED BY <3>1
  <2> QED BY <2>1, <2>2 DEF Due
<1> QED BY <1>3, <1>4, <1>5, <1>6, <1>7 DEF Agreed

\* The re-INVITE of s was answered, and its ACK goes out.
LEMMA AgreedAcks ==
  ASSUME NEW s, NEW t, NEW p, NEW in, NEW to, NEW op, NEW in2, NEW out, NEW x,
         Agreed(s, p, in, to, op), s.state \in Unacked, t.state \in {"Connected", "Terminated"},
         t.cseq = s.cseq, t.sent = s.sent,
         \A a \in s.acks : \E b \in t.acks : b.n = a.n, \E a \in t.acks : a.n = s.cseq,
         in2 \subseteq in, x \in Outcomes(p, in), x.n = s.cseq, NoOffering(out), Mannered(t, out)
  PROVE  Agreed(t, p, in2, to \cup out, {})
<1>1. NoOffering(to) /\ p.state \notin Undecided
  BY DEF Agreed, AllConcluded, Concluded
<1>2. t.state \notin Unacked \cup {"SentReinviteNoOffer", "SentReinviteAnswered"}
  BY DEF Unacked, Asking
<1>3. Opened(t, {})
  BY DEF Opened
<1>4. Mannered(t, to \cup out)
  BY <1>1, <1>2 DEF Agreed, Mannered, NoOffering
<1>5. Decides(t, p, to \cup out)
  BY <1>1 DEF Decides
<1>6. AllConcluded(t, p, in2, to \cup out)
  <2> SUFFICES ASSUME NEW y \in Outcomes(p, in2)
               PROVE  Concluded(t, p, in2, to \cup out, y)
    BY DEF AllConcluded
  <2>1. y \in Outcomes(p, in) /\ Concluded(s, p, in, to, y)
    BY DEF Outcomes, Agreed, AllConcluded
  <2>2. Outcomes(p, in2) \subseteq Outcomes(p, in)
    BY DEF Outcomes
  <2>3. s.state # "Terminated"
    BY DEF Unacked, Asking
  <2>4. NoOffering(to \cup out)
    BY <1>1 DEF NoOffering
  <2>5. isOk(y) => isOk(p.ok) /\ y.n <= p.ok.n /\ \E a \in t.acks : a.n = y.n
    BY <2>1, <2>3 DEF Concluded
  <2>6. /\ y.n <= t.cseq
        /\ y.n = t.cseq => \A z \in Outcomes(p, in2) : z.n = t.cseq => y = z
    BY <2>1, <2>2 DEF Concluded
  <2> QED BY <1>1, <2>4, <2>5, <2>6 DEF Concluded
<1>7. Due(t, p, in2)
  BY <1>2 DEF Due
<1> QED BY <1>3, <1>4, <1>5, <1>6, <1>7 DEF Agreed

\* The re-INVITE of s, which made no offer, was answered with one.
LEMMA AgreedAnswered ==
  ASSUME NEW s, NEW t, NEW p, NEW in, NEW to, NEW op, NEW in2, NEW x \in in,
         Agreed(s, p, in, to, op), SameRequest(s, t), s.state = "SentReinviteNoOffer",
         t.state = "SentReinviteAnswered", isOk(x), x.n = s.cseq, in2 \subseteq in,
         s.cseq \in Nat, p.ok.n \in Nat
  PROVE  Agreed(t, p, in2, to, {})
<1>1. x \in Outcomes(p, in) /\ Concluded(s, p, in, to, x)
  BY DEF Agreed, AllConcluded, Outcomes, isReply, isOk
<1>2. NoOffering(to) /\ p.state \notin Undecided
  BY <1>1 DEF Concluded
<1>3. s.state \in Unacked /\ t.state \in Unacked /\ s.state # "Terminated"
  BY DEF Unacked, Asking
<1>4. isOk(p.ok) /\ p.ok.n = s.cseq
  <2>1. isOk(p.ok) /\ s.cseq <= p.ok.n
    BY <1>1 DEF Concluded
  <2>2. p.ok.n <= s.cseq
    BY <2>1 DEF Agreed, AllConcluded, Outcomes, Concluded, isOk
  <2> QED BY <2>1, <2>2
<1>5. Opened(t, {})
  BY DEF Opened
<1>6. Mannered(t, to)
  BY <1>2, <1>3 DEF Agreed, Mannered, NoOffering, SameRequest
<1>7. Decides(t, p, to)
  BY <1>2 DEF Decides
<1>8. AllConcluded(t, p, in2, to)
  <2> SUFFICES ASSUME NEW y \in Outcomes(p, in2)
               PROVE  Concluded(t, p, in2, to, y)
    BY DEF AllConcluded
  <2>1. y \in Outcomes(p, in) /\ Concluded(s, p, in, to, y)
    BY DEF Outcomes, Agreed, AllConcluded
  <2>2. Outcomes(p, in2) \subseteq Outcomes(p, in)
    BY DEF Outcomes
  <2> QED BY <1>3, <2>1, <2>2 DEF Concluded, SameRequest
<1>9. Due(t, p, in2)
  BY <1>4 DEF Agreed, Due, SameRequest, NoOffering
<1> QED BY <1>5, <1>6, <1>7, <1>8, <1>9 DEF Agreed

-----------------------------------------------------------------------------
(* What an end does to the requests of its peer q. *)

Waiters == {"ReceivedReinviteSentOffer", "WaitingToHangup", "Terminated"}

\* It neither takes nor answers one.
LEMMA AgreedPeer ==
  ASSUME NEW q, NEW s, NEW t, NEW in, NEW to, NEW op, NEW out, NEW to2,
         Agreed(q, s, in, to, op), t.ok = s.ok,
         t.state \in Undecided => s.state \in Undecided /\ t.got = s.got,
         \A x \in out : ~isReply(x), to2 \subseteq to,
         q.state \in {"SentReinviteNoOffer", "SentReinviteAnswered"} /\ isOk(s.ok)
           /\ s.ok.n = q.cseq /\ s.state \in Waiters => t.state \in Waiters /\ NoOffering(out)
  PROVE  Agreed(q, t, in \cup out, to2, op)
<1>1. Mannered(q, to2)
  BY DEF Agreed, Mannered
<1>2. Decides(q, t, to2)
  BY DEF Agreed, Decides, NoOffering
<1>3. AllConcluded(q, t, in \cup out, to2)
  <2>1. Outcomes(t, in \cup out) = Outcomes(s, in)
    BY DEF Outcomes
  <2> QED BY <2>1 DEF Agreed, AllConcluded, Concluded, NoOffering
<1>4. Due(q, t, in \cup out)
  BY DEF Agreed, Due, NoOffering, Waiters
<1> QED BY <1>1, <1>2, <1>3, <1>4 DEF Agreed

\* It answers one at once, but not a re-INVITE with a 200.
LEMMA AgreedDeclines ==
  ASSUME NEW q, NEW s, NEW t, NEW in, NEW to, NEW op, NEW out, NEW m \in to, NEW y,
         Agreed(q, s, in, to, op), q.sent.n = q.cseq, q.cseq \in Nat, t.ok = s.ok,
         isOffering(m), isReply(y), ~isOk(y), y.n = m.n,
         \A x \in out : x = y \/ ~isReply(x), NoOffering(out), t.state \notin Undecided
  PROVE  Agreed(q, t, in \cup out, to \ {m}, op)
<1>1. m = q.sent /\ Awaits(q) /\ NoOffering(to \ {m})
  BY DEF Agreed, Mannered, NoOffering
<1>2. ~NoOffering(to)
  BY DEF NoOffering
<1>3. Mannered(q, to \ {m})
  BY DEF Agreed, Mannered
<1>4. Decides(q, t, to \ {m})
  BY DEF Decides
<1>5. AllConcluded(q, t, in \cup out, to \ {m})
  <2> SUFFICES ASSUME NEW x \in Outcomes(t, in \cup out)
               PROVE  Concluded(q, t, in \cup out, to \ {m}, x)
    BY DEF AllConcluded
  <2>1. ASSUME NEW z \in Outcomes(s, in)
        PROVE  Concluded(q, s, in, to, z) /\ z.n # q.cseq
    BY <1>2 DEF Agreed, AllConcluded, Concluded
  <2>2. ASSUME NEW z \in Outcomes(t, in \cup out)
        PROVE  z = y \/ z \in Outcomes(s, in)
    BY DEF Outcomes
  <2>3. CASE x = y
    <3>1. y.n = q.cseq
      BY <1>1
    <3>2. \A z \in Outcomes(t, in \cup out) : z.n = q.cseq => x = z
      BY <2>1, <2>2, <2>3
    <3>3. x.n <= q.cseq /\ ~isOk(x)
      BY <2>3, <3>1
    <3> QED BY <1>1, <3>2, <3>3 DEF Concluded
  <2>4. CASE x \in Outcomes(s, in)
    <3>1. Concluded(q, s, in, to, x) /\ x.n # q.cseq
      BY <2>1, <2>4
    <3> QED BY <3>1 DEF Concluded
  <2> QED BY <2>2, <2>3, <2>4
<1>6. Due(q, t, in \cup out)
  <2>1. ~(isOk(s.ok) /\ s.ok.n = q.cseq)
    BY <1>2 DEF Agreed, AllConcluded, Concluded, Outcomes, isOk
  <2> QED BY <2>1 DEF Agreed, Due
<1> QED BY <1>3, <1>4, <1>5, <1>6 DEF Agreed

\* Its application gets one.
LEMMA AgreedTakes ==
  ASSUME NEW q, NEW s, NEW t, NEW in, NEW to, NEW op, NEW m \in to,
         Agreed(q, s, in, to, op), q.sent.n = q.cseq, t.ok = s.ok, t.got = m, isOffering(m)
  PROVE  Agreed(q, t, in, to \ {m}, op)
<1>1. m = q.sent /\ Awaits(q) /\ NoOffering(to \ {m})
  BY DEF Agreed, Mannered, NoOffering
<1>2. ~NoOffering(to)
  BY DEF NoOffering
<1>3. Mannered(q, to \ {m})
  BY DEF Agreed, Mannered
<1>4. Decides(q, t, to \ {m})
  BY <1>1 DEF Decides
<1>5. AllConcluded(q, t, in, to \ {m})
  <2>1. Outcomes(t, in) = Outcomes(s, in)
    BY DEF Outcomes
  <2> QED BY <1>2, <2>1 DEF Agreed, AllConcluded, Concluded
<1>6. Due(q, t, in)
  <2>1. ~(isOk(s.ok) /\ s.ok.n = q.cseq)
    BY <1>2 DEF Agreed, AllConcluded, Concluded, Outcomes, isOk
  <2> QED BY <2>1 DEF Agreed, Due
<1> QED BY <1>3, <1>4, <1>5, <1>6 DEF Agreed

\* Its application answers one.
LEMMA AgreedResponds ==
  ASSUME NEW q, NEW s, NEW t, NEW in, NEW to, NEW op, NEW out, NEW y,
         Agreed(q, s, in, to, op), Requested(q), q.cseq \in Nat,
         s.state \in Undecided, t.state \notin Undecided,
         isReply(y), y.n = s.got.n, isOk(y) => s.got.method = "INVITE",
         IF isOk(y) THEN t.ok = y ELSE t.ok = s.ok,
         \A x \in out : x = y \/ ~isReply(x), NoOffering(in), NoOffering(out),
         q.state \in {"SentReinviteNoOffer", "SentReinviteAnswered"} /\ isOk(y) =>
           t.state \in Waiters
  PROVE  Agreed(q, t, in \cup out, to, op)
<1>1. s.got = q.sent /\ Awaits(q) /\ NoOffering(to)
  BY DEF Agreed, Decides
<1>2. y.n = q.cseq
  BY <1>1 DEF Requested
<1>3. Decides(q, t, to)
  BY DEF Decides
<1>4. ASSUME NEW z \in Outcomes(s, in)
      PROVE  Concluded(q, s, in, to, z) /\ z.n # q.cseq
  BY DEF Agreed, AllConcluded, Concluded
<1>5. AllConcluded(q, t, in \cup out, to)
  <2> SUFFICES ASSUME NEW x \in Outcomes(t, in \cup out)
               PROVE  Concluded(q, t, in \cup out, to, x)
    BY DEF AllConcluded
  <2>1. ASSUME NEW z \in Outcomes(t, in \cup out)
        PROVE  z = y \/ z \in Outcomes(s, in)
    BY DEF Outcomes
  <2>2. CASE x = y
    <3>1. isOk(y) => q.state = "Terminated" \/ q.state \in Unacked
      BY <1>1 DEF Requested, Awaits, Awaiting, Unacked
    <3>2. \A z \in Outcomes(t, in \cup out) : z.n = q.cseq => x = z
      BY <1>4, <2>1, <2>2
    <3>3. isOk(y) => isOk(t.ok) /\ y.n <= t.ok.n
      BY <1>2
    <3> QED BY <1>1, <1>2, <2>2, <3>1, <3>2, <3>3 DEF Concluded
  <2>3. CASE x \in Outcomes(s, in)
    <3>1. Concluded(q, s, in, to, x) /\ x.n # q.cseq
      BY <1>4, <2>3
    <3>2. isOk(x) => isOk(t.ok) /\ x.n <= t.ok.n
      BY <1>2, <3>1 DEF Concluded
    <3> QED BY <3>1, <3>2 DEF Concluded
  <2> QED BY <2>1, <2>2, <2>3
<1>6. Due(q, t, in \cup out)
  <2>1. ~(isOk(s.ok) /\ s.ok.n = q.cseq)
    BY <1>4 DEF Outcomes, isOk
  <2>2. q.state # "SentReinviteAnswered"
    BY <1>1 DEF Awaits, Awaiting, Asking
  <2> QED BY <2>1, <2>2 DEF Due, Waiters, NoOffering
<1> QED BY <1>3, <1>5, <1>6 DEF Agreed

-----------------------------------------------------------------------------
(* What a handler makes of a session s, seen by its peer. *)

Kept(s, t) == t.got = s.got /\ t.ok = s.ok /\ (s.misled => t.misled)

\* The messages in out are BYEs and ACKs that s keeps.
Mute(s, out) == \A x \in out : x \in s.acks \/ (x.method = "BYE" /\ x.code = 0)

\* Requests and responses are left alone; who waits for an ACK stops when it comes.
Calm(s, t, m) ==
  /\ SameRequest(s, t) /\ Onward(s, t) /\ Kept(s, t) /\ Mute(s, t.out)
  /\ t.state \in Undecided => s.state \in Undecided
  /\ s.state \in Waiters => t.state \in Waiters \/ t.misled \/ (m.method = "ACK" /\ m.n >= s.ok.n)

\* The wait for a final response is over.
Closes(s, t) ==
  /\ SameRequest(s, t) /\ Kept(s, t) /\ Mute(s, t.out)
  /\ s.state \in Awaiting /\ t.state \in Free

\* A request goes out.
Requests(s, t) ==
  /\ Kept(s, t) /\ t.acks = s.acks /\ t.out = {t.sent} /\ t.cseq = s.cseq + 1
  /\ isOffering(t.sent) /\ t.state \in {"SentUpdate"} \cup Asking
  /\ t.sent.method = "INVITE" /\ OffersOnly => t.sent.sdp # NoSdp

\* The ACK of the last request goes out.
Acks(s, t) ==
  /\ Kept(s, t) /\ t.cseq = s.cseq /\ t.sent = s.sent /\ Mute(t, t.out)
  /\ \A a \in s.acks : \E b \in t.acks : b.n = a.n
  /\ \E a \in t.acks : a.n = s.cseq
  /\ s.state \in Unacked /\ t.state \in {"Connected", "Terminated"}

\* The offer that was asked for has come.
Gets(s, t) ==
  /\ SameRequest(s, t) /\ Kept(s, t) /\ t.out = {}
  /\ s.state = "SentReinviteNoOffer" /\ t.state = "SentReinviteAnswered"

\* The request m is answered at once.
Declines(s, t, m) ==
  /\ SameRequest(s, t) /\ Onward(s, t) /\ t.ok = s.ok /\ (s.misled => t.misled)
  /\ t.state \notin Undecided
  /\ \E y \in t.out :
       /\ isReply(y) /\ ~isOk(y) /\ y.n = m.n
       /\ Mute(s, t.out \ {y})

\* The request m goes to the application.
TakesUp(s, t, m) ==
  /\ SameRequest(s, t) /\ t.got = m /\ t.ok = s.ok /\ t.out = {}
  /\ s.misled => t.misled
  /\ s.state \in Free /\ t.state \in Undecided

\* The application answers.
Responds(s, t) ==
  /\ SameRequest(s, t) /\ t.got = s.got /\ (s.misled => t.misled)
  /\ s.state \in Undecided /\ t.state \in {"Connected", "ReceivedReinviteSentOffer", "Terminated"}
  /\ \E y \in t.out :
       /\ isReply(y) /\ y.n = s.got.n /\ (isOk(y) => s.got.method = "INVITE")
       /\ IF isOk(y) THEN t.ok = y ELSE t.ok = s.ok
       /\ Mute(s, t.out \ {y})
       /\ isOk(y) => t.state \in Waiters \/ s.got.sdp # NoSdp

-----------------------------------------------------------------------------
(* The handlers: what they make of a sound session. *)

Ready(s) == Fit(s) /\ s \in Sessions /\ s.out = {} /\ s.cseq \in Nat /\ Sound(s)

\* The ACKs that s keeps are of its re-INVITEs.
LEMMA KeptAcks ==
  ASSUME NEW s, Ready(s)
  PROVE  /\ \A a \in s.acks : a.method = "ACK" /\ a.code = 0 /\ a.n \in Nat /\ a.n <= s.cseq
         /\ s.got.n \in Nat /\ s.ok.n \in Nat
<1>1. s.acks \subseteq Messages /\ s.got \in Messages /\ s.ok \in Messages /\ MaxMods \in Nat
  BY FieldTypes DEF Ready, Fit
<1>2. \A a \in Messages : a.n \in Nat
  BY <1>1, MessageTypes
<1> QED BY <1>1, <1>2 DEF Ready, Fit, Before

\* Hangup sends a BYE and asks nothing.
LEMMA SoundHangup ==
  ASSUME NEW s, Ready(s), NEW m
  PROVE  Calm(s, Hangup(s), m) /\ Sound(Hangup(s))
<1>1. Calm(s, Hangup(s), m)
  BY DEF Ready, Sessions, Hangup, Send, Request, Calm, SameRequest, Onward, Kept, Mute, Undecided,
         Waiters, Awaits, Awaiting, Unacked, Asking
<1>2. Sound(Hangup(s))
  BY DEF Ready, Sessions, Hangup, Send, Request, Sound, Requested, Undecided, Pending, Repeating,
         Proposed, Unhurt, ToAnswer, Unacked, Asking, Empty
<1> QED BY <1>1, <1>2

\* A request is sent, and the state says which.
LEMMA SoundRequests ==
  ASSUME NEW s, Ready(s), NEW t, NEW method, NEW sdp,
         t.cseq = s.cseq + 1, t.sent = Request(method, s.cseq + 1, sdp), t.out = {t.sent},
         t.acks = s.acks, t.got = s.got, t.ok = s.ok,
         t.re200 = s.re200, t.propRemote = s.propRemote, t.bad = s.bad /\ t.misled = s.misled,
         s.state \in Free \cup Awaiting,
         \/ t.state = "SentUpdate" /\ method = "UPDATE"
         \/ t.state = "SentReinvite" /\ method = "INVITE" /\ sdp # NoSdp
         \/ t.state = "SentReinviteNoOffer" /\ method = "INVITE" /\ sdp = NoSdp /\ ~OffersOnly
  PROVE  Requests(s, t) /\ Sound(t)
<1> DEFINE r == Request(method, s.cseq + 1, sdp)
<1>1. r.method = method /\ r.code = 0 /\ r.n = s.cseq + 1 /\ r.sdp = sdp /\ t.sent = r
  BY DEF Request
<1> HIDE DEF r
<1>2. Requests(s, t)
  BY <1>1 DEF Requests, Kept, isOffering, Asking
<1>3. \A a \in t.acks : a.n < t.cseq
  BY KeptAcks DEF Ready
<1>4. Requested(t)
  BY <1>1, <1>3 DEF Requested, Unacked, Empty, Asking
<1>5. Repeating(t)
  BY DEF Ready, Sound, Repeating
<1>6. Proposed(t)
  BY DEF Ready, Sound, Proposed, Free, Awaiting, Asking, AskingAgain, ToAnswer, Empty
<1>7. t.state \notin Undecided \cup {"WaitingToHangup"} /\ Unhurt(t)
  BY DEF Undecided, Ready, Sound, Unhurt
<1> QED BY <1>2, <1>4, <1>5, <1>6, <1>7 DEF Sound

\* requestOffer, where no offer is ever rejected: none is left over that was proposed.
LEMMA SoundRequestOffer ==
  ASSUME NEW s, Ready(s), s.state = "Connected", ~OffersOnly
  PROVE  Requests(s, requestOffer(s)) /\ Sound(requestOffer(s))
<1> DEFINE t == requestOffer(s)
<1>1. /\ t.state = "SentReinviteNoOffer" /\ t.cseq = s.cseq + 1
      /\ t.sent = Request("INVITE", s.cseq + 1, NoSdp) /\ t.out = {t.sent}
      /\ t.acks = s.acks /\ t.got = s.got /\ t.ok = s.ok
      /\ t.re200 = s.re200 /\ t.propRemote = s.propRemote /\ t.bad = s.bad /\ t.misled = s.misled
  BY DEF requestOffer, SendOffering, Send, Ready, Sessions
<1> HIDE DEF t
<1> QED BY <1>1, SoundRequests DEF Free, t

\* sessionRefresh, also of a session u whose stale timer has been stopped.
LEMMA SoundRefresh ==
  ASSUME NEW s, Ready(s), s.state \in {"Connected", "SentUpdate"} \cup Asking,
         NEW u, u = s \/ u = [s EXCEPT !.stale = FALSE]
  PROVE  Requests(s, sessionRefresh(u)) /\ Sound(sessionRefresh(u))
<1> DEFINE t == sessionRefresh(u)
           sent(method, sdp) ==
             /\ t.cseq = s.cseq + 1
             /\ t.sent = Request(method, s.cseq + 1, sdp) /\ t.out = {t.sent}
             /\ t.acks = s.acks /\ t.got = s.got /\ t.ok = s.ok
             /\ t.re200 = s.re200 /\ t.propRemote = s.propRemote /\ t.bad = s.bad /\ t.misled = s.misled
<1>1. s.state \in Free \cup Awaiting /\ s.local # NoSdp
  BY DEF Free, Awaiting, Asking, Ready, Sessions
<1>2. CASE s.update
  <2>1. t.state = "SentUpdate" /\ sent("UPDATE", NoSdp)
    BY <1>2 DEF sessionRefresh, Become, SendOffering, Send, Ready, Sessions
  <2> HIDE DEF t
  <2> QED BY <1>1, <2>1, SoundRequests DEF t
<1>3. CASE ~s.update
  <2>1. t.state = "SentReinvite" /\ sent("INVITE", s.local)
    BY <1>3 DEF sessionRefresh, Become, SendOffering, Send, Ready, Sessions
  <2> HIDE DEF t
  <2> QED BY <1>1, <2>1, SoundRequests DEF t
<1> QED BY <1>2, <1>3

\* provideOffer of an end that starts a modification.
LEMMA SoundProvideOffer ==
  ASSUME NEW s, Ready(s), s.state = "Connected", NEW offer, offer # NoSdp
  PROVE  Requests(s, provideOffer(s, offer)) /\ Sound(provideOffer(s, offer))
<1> DEFINE t == provideOffer(s, offer)
           sent(method) ==
             /\ t.cseq = s.cseq + 1
             /\ t.sent = Request(method, s.cseq + 1, offer) /\ t.out = {t.sent}
             /\ t.acks = s.acks /\ t.got = s.got /\ t.ok = s.ok
             /\ t.re200 = s.re200 /\ t.propRemote = s.propRemote /\ t.bad = s.bad /\ t.misled = s.misled
<1>1. s.state \in Free \cup Awaiting
  BY DEF Free
<1>2. CASE s.update
  <2>1. t.state = "SentUpdate" /\ sent("UPDATE")
    BY <1>2 DEF provideOffer, Become, SendOffering, Send, Ready, Sessions
  <2> HIDE DEF t
  <2> QED BY <1>1, <2>1, SoundRequests DEF t
<1>3. CASE ~s.update
  <2>1. t.state = "SentReinvite" /\ sent("INVITE")
    BY <1>3 DEF provideOffer, Become, SendOffering, Send, Ready, Sessions
  <2> HIDE DEF t
  <2> QED BY <1>1, <2>1, SoundRequests DEF t
<1> QED BY <1>2, <1>3

\* Glare: what met a 491 goes out again.
LEMMA SoundGlare ==
  ASSUME NEW s, Ready(s), NEW m
  PROVE  LET t == Glare(s) IN (Calm(s, t, m) \/ (s.state \in Free /\ Requests(s, t))) /\ Sound(t)
<1> DEFINE t == Glare(s)
           r == Request(s.sent.method, s.cseq + 1, s.sent.sdp)
<1>1. CASE s.state \in {"SentUpdateGlare"} \cup AskingAgain
  <2>1. /\ t.cseq = s.cseq + 1 /\ t.sent = r /\ t.out = {t.sent}
        /\ t.acks = s.acks /\ t.got = s.got /\ t.ok = s.ok
        /\ t.re200 = s.re200 /\ t.propRemote = s.propRemote /\ t.bad = s.bad /\ t.misled = s.misled
        /\ s.state = "SentUpdateGlare" => t.state = "SentUpdate"
        /\ s.state = "SentReinviteGlare" => t.state = "SentReinvite"
        /\ s.state = "SentReinviteNoOfferGlare" => t.state = "SentReinviteNoOffer"
    BY <1>1 DEF Glare, None, Become, SendOffering, Send, Ready, Sessions, AskingAgain
  <2>2. s.state \in Free
    BY <1>1 DEF Free
  <2>3. /\ s.state = "SentUpdateGlare" => s.sent.method = "UPDATE"
        /\ s.state \in AskingAgain => s.sent.method = "INVITE"
        /\ s.state = "SentReinviteGlare" => s.sent.sdp # NoSdp
        /\ s.state = "SentReinviteNoOfferGlare" => s.sent.sdp = NoSdp /\ ~OffersOnly
    BY DEF Ready, Sound, Requested, Proposed, Empty, Fit
  <2> HIDE DEF t
  <2>4. Requests(s, t) /\ Sound(t)
    <3>1. CASE s.state = "SentUpdateGlare"
      BY <2>1, <2>2, <2>3, <3>1, SoundRequests
    <3>2. CASE s.state = "SentReinviteGlare"
      BY <2>1, <2>2, <2>3, <3>2, SoundRequests DEF AskingAgain
    <3>3. CASE s.state = "SentReinviteNoOfferGlare"
      BY <2>1, <2>2, <2>3, <3>3, SoundRequests DEF AskingAgain
    <3> QED BY <1>1, <3>1, <3>2, <3>3 DEF AskingAgain
  <2> QED BY <2>2, <2>4 DEF t
<1>2. CASE s.state \notin {"SentUpdateGlare"} \cup AskingAgain
  <2>1. t = [s EXCEPT !.glare = @ - 1]
    BY <1>2 DEF Glare, None, AskingAgain
  <2>2. Calm(s, t, m)
    BY <2>1 DEF Ready, Sessions, Calm, SameRequest, Onward, Awaits, Kept, Mute
  <2>3. Sound(t)
    BY <2>1 DEF Ready, Sessions, Sound, Requested, Pending, Repeating, Proposed, Unhurt
  <2> QED BY <2>2, <2>3
<1> QED BY <1>1, <1>2

Fields == {"state", "uac", "update", "cseq", "local", "remote", "propLocal", "propRemote", "sent",
  "got", "ok", "re200", "waitAck", "misled", "acks", "stale", "glare", "refresh", "expires", "owed",
  "out", "bad"}

\* A record of a session, whatever its values.
Recorded(s) == s = [f \in Fields |-> s[f]]

\* A session is a record of its fields.
LEMMA RecordedSession ==
  ASSUME NEW s \in Sessions
  PROVE  Recorded(s)
BY DEF Sessions, Recorded, Fields

\* provideOffer of an end that was asked for an offer: the offer goes in the 200.
LEMMA SoundOfferBack ==
  ASSUME NEW s, Ready(s), s.state = "ReceivedReinviteNoOffer", NEW offer
  PROVE  Responds(s, provideOffer(s, offer)) /\ Sound(provideOffer(s, offer))
<1> DEFINE t == provideOffer(s, offer)
           y == Response(s.got, 200, offer)
<1>1. s.state \in Undecided /\ isOffering(s.got) /\ s.got.method = "INVITE" /\ s.got \in Messages
      /\ ~OffersOnly /\ (Careful => s.propRemote = NoSdp)
  BY FieldTypes DEF Ready, Sound, Proposed, Pending, Undecided, ToAnswer, Leftovers, OffersOnly
<1>2. y.code = 200 /\ y.method = "INVITE" /\ y.n = s.got.n
  BY <1>1 DEF Response, Messages
<1>3. /\ SameRequest(s, t) /\ t.got = s.got /\ t.ok = y /\ t.out = {y} /\ t.re200 = TRUE
      /\ t.state = "ReceivedReinviteSentOffer" /\ t.propRemote = s.propRemote
      /\ (s.propRemote = NoSdp => t.bad = s.bad) /\ t.misled = s.misled
  BY <1>1 DEF provideOffer, Asserting, Become, sendInvite200, Send, Ready, Sessions, SameRequest
<1> HIDE DEF t, y
<1>4. Responds(s, t)
  BY <1>1, <1>2, <1>3 DEF Responds, isReply, isOk, Mute, Waiters
<1>5. Sound(t)
  <2>1. t.state \notin Undecided \cup Unacked \cup Empty
    BY <1>3 DEF Undecided, Unacked, Asking, Empty
  <2>2. (t.propRemote # NoSdp => Leftovers) /\ (Careful => t.bad = s.bad)
    BY <1>1, <1>3 DEF Leftovers
  <2>3. Requested(t) /\ Repeating(t)
    BY <1>1, <1>2, <1>3, <2>1 DEF Ready, Sound, Requested, Repeating, SameRequest, isOk
  <2>4. Proposed(t)
    BY <1>1, <1>3, <2>1, <2>2 DEF Proposed
  <2>5. Unhurt(t)
    BY <1>3, <2>2 DEF Ready, Sound, Unhurt
  <2> QED BY <2>1, <2>3, <2>4, <2>5 DEF Sound
<1> QED BY <1>4, <1>5 DEF t

\* sendAck, in a session w that has no ACK for its last request.
LEMMA SendsAck ==
  ASSUME NEW w, NEW sdp, Recorded(w), w.sent.method = "INVITE", \A a \in w.acks : a.n # w.sent.n
  PROVE  LET t == sendAck(w, sdp)
             ack == Request("ACK", w.sent.n, sdp)
         IN  /\ Recorded(t) /\ t.cseq = w.cseq /\ t.sent = w.sent /\ Kept(w, t)
             /\ t.out = w.out \cup {ack} /\ t.acks = w.acks \cup {ack}
             /\ t.state = w.state /\ t.re200 = w.re200 /\ t.propRemote = w.propRemote
             /\ t.expires = w.expires /\ t.misled = w.misled /\ (~w.bad => ~t.bad)
<1> DEFINE ack == Request("ACK", w.sent.n, sdp)
           fresh == \A a \in w.acks : w.sent.method = "UPDATE" \/ a.n # w.sent.n
           b == w.bad \/ ~(fresh /\ (w.sent.method = "UPDATE" => w.uac))
           kept == {a \in w.acks : a.n # w.sent.n}
           t == sendAck(w, sdp)
<1>1. t = [w EXCEPT !.bad = b, !.acks = kept \cup {ack}, !.out = w.out \cup {ack}]
  BY DEF sendAck, Asserting, Send, Recorded
<1>2. (~w.bad => ~b) /\ kept = w.acks
  OBVIOUS
<1> HIDE DEF ack, b, kept, t
<1>3. /\ Recorded(t) /\ t.cseq = w.cseq /\ t.sent = w.sent /\ Kept(w, t)
      /\ t.out = w.out \cup {ack} /\ t.acks = w.acks \cup {ack}
      /\ t.state = w.state /\ t.re200 = w.re200 /\ t.propRemote = w.propRemote
      /\ t.expires = w.expires /\ t.misled = w.misled /\ (~w.bad => ~t.bad)
  BY <1>1, <1>2 DEF Recorded, Fields, Kept
<1> QED BY <1>3 DEF t, ack

\* provideAnswer, in an ACK or in a 200.
LEMMA SoundProvideAnswer ==
  ASSUME NEW s, Ready(s), s.state \in ToAnswer, NEW answer
  PROVE  LET t == provideAnswer(s, answer)
         IN  /\ s.state = "SentReinviteAnswered" => Acks(s, t)
             /\ s.state # "SentReinviteAnswered" => Responds(s, t)
             /\ Sound(t)
<1> DEFINE t == provideAnswer(s, answer)
           y == Response(s.got, 200, answer)
<1>1. CASE s.state \in {"ReceivedReinvite", "ReceivedUpdate"}
  <2>1. s.state \in Undecided /\ isOffering(s.got) /\ s.got \in Messages
        /\ (s.state = "ReceivedReinvite" => s.got.method = "INVITE" /\ s.got.sdp # NoSdp)
        /\ (s.state = "ReceivedUpdate" => s.got.method = "UPDATE")
    BY <1>1, FieldTypes DEF Ready, Sound, Pending, Undecided
  <2>2. y.code = 200 /\ y.method = s.got.method /\ y.n = s.got.n
    BY <2>1 DEF Response, Messages
  <2>3. /\ SameRequest(s, t) /\ t.got = s.got /\ t.out = {y}
        /\ IF s.state = "ReceivedReinvite" THEN t.ok = y /\ t.re200 = TRUE
           ELSE t.ok = s.ok /\ t.re200 = s.re200
        /\ t.state = "Connected" /\ t.propRemote = NoSdp /\ t.bad = s.bad /\ t.misled = s.misled
    BY <1>1 DEF provideAnswer, withAnswer, sendInvite200, Send, Ready, Sessions, SameRequest
  <2> HIDE DEF t, y
  <2>4. Responds(s, t)
    BY <1>1, <2>1, <2>2, <2>3 DEF Responds, isReply, isOk, isOffering, Mute
  <2>5. Sound(t)
    <3>1. t.state \notin Undecided \cup Unacked \cup Empty
      BY <2>3 DEF Undecided, Unacked, Asking, Empty
    <3> QED BY <1>1, <2>1, <2>2, <2>3, <3>1
          DEF Ready, Sound, Requested, Repeating, Proposed, Unhurt, SameRequest, isOk
  <2> QED BY <1>1, <2>4, <2>5 DEF t
<1>2. CASE s.state = "SentReinviteAnswered"
  <2> DEFINE ack == Request("ACK", s.sent.n, answer)
  <2>1. /\ s.sent.method = "INVITE" /\ s.sent.n = s.cseq /\ s.state \in Unacked
        /\ \A a \in s.acks : a.n # s.sent.n
    BY <1>2, KeptAcks DEF Ready, Sound, Requested, Unacked
  <2>2. ack.n = s.cseq /\ ack.method = "ACK" /\ ack.code = 0
    BY <2>1 DEF Request
  <2>3. /\ t.cseq = s.cseq /\ t.sent = s.sent /\ Kept(s, t) /\ t.out = {ack}
        /\ t.acks = s.acks \cup {ack} /\ t.re200 = s.re200
        /\ t.state = "Connected" /\ t.propRemote = NoSdp /\ (~s.bad => ~t.bad)
    <3> DEFINE w == withAnswer(s, answer)
    <3>1. /\ w.cseq = s.cseq /\ w.sent = s.sent /\ Kept(s, w) /\ w.out = {} /\ w.acks = s.acks
          /\ w.re200 = s.re200 /\ w.state = "Connected" /\ w.propRemote = NoSdp /\ (~s.bad => ~w.bad)
      BY DEF withAnswer, Ready, Sessions, Kept, Sound
    <3>2. Recorded(w)
      <4>1. Recorded(s)
        BY RecordedSession DEF Ready
      <4> QED BY <4>1 DEF withAnswer, Recorded, Fields
    <3>3. t = sendAck(w, answer)
      BY <1>2 DEF provideAnswer
    <3> HIDE DEF t, w
    <3> QED BY <2>1, <3>1, <3>2, <3>3, SendsAck DEF Kept
  <2> HIDE DEF t, ack
  <2>4. Acks(s, t)
    BY <2>1, <2>2, <2>3 DEF Acks, Mute
  <2>5. Sound(t)
    <3>1. t.state \notin Undecided \cup Unacked \cup Empty
      BY <2>3 DEF Undecided, Unacked, Asking, Empty
    <3> QED BY <2>1, <2>3, <3>1
          DEF Ready, Sound, Requested, Repeating, Proposed, Unhurt, Kept
  <2> QED BY <1>2, <2>4, <2>5 DEF t
<1> QED BY <1>1, <1>2 DEF ToAnswer

\* reject answers the request with a 488.
LEMMA SoundReject ==
  ASSUME NEW s, Ready(s), s.state \in Undecided, Rejects
  PROVE  Responds(s, reject(s)) /\ Sound(reject(s))
<1> DEFINE t == reject(s)
           y == Response(s.got, 488, NoSdp)
<1>1. isOffering(s.got) /\ s.got \in Messages
  BY FieldTypes DEF Ready, Sound, Pending
<1>2. y.code = 488 /\ y.method = s.got.method /\ y.n = s.got.n
  BY <1>1 DEF Response, Messages
<1>3. /\ SameRequest(s, t) /\ Kept(s, t) /\ t.out = {y} /\ t.re200 = s.re200
      /\ t.state = "Connected" /\ t.propRemote = s.propRemote /\ t.bad = s.bad /\ t.misled = s.misled
  BY DEF reject, Become, Send, Ready, Sessions, SameRequest, Kept
<1> HIDE DEF t, y
<1>4. Responds(s, t)
  BY <1>1, <1>2, <1>3 DEF Responds, isReply, isOk, isOffering, Mute, Kept
<1>5. Sound(t)
  <2>1. t.state \notin Undecided \cup Unacked \cup Empty
    BY <1>3 DEF Undecided, Unacked, Asking, Empty
  <2> QED BY <1>3, <2>1
          DEF Ready, Sound, Requested, Repeating, Proposed, Unhurt, Leftovers, SameRequest, Kept
<1> QED BY <1>4, <1>5 DEF t

\* end, wherever the application or the session timer may call it.
LEMMA SoundEnd ==
  ASSUME NEW s, Ready(s), NEW m,
         Careful => s.state # "WaitingToHangup" /\ (~s.expires \/ "expired" \notin Expire)
  PROVE  (Calm(s, end(s), m) \/ Responds(s, end(s))) /\ Sound(end(s))
<1> DEFINE t == end(s)
<1>1. CASE s.state \in Asking
  <2>1. t = [s EXCEPT !.state = "WaitingToTerminate"]
    BY <1>1 DEF end, Become, Asking, Undecided
  <2>2. Calm(s, t, m)
    BY <1>1, <2>1 DEF Ready, Sessions, Calm, SameRequest, Onward, Kept, Mute, Undecided, Waiters,
      Awaits, Awaiting, Unacked, Asking
  <2>3. Sound(t)
    BY <1>1, <2>1 DEF Ready, Sessions, Sound, Requested, Undecided, Pending, Repeating, Proposed, Unhurt,
      ToAnswer, Unacked, Asking, Empty
  <2> QED BY <2>2, <2>3
<1>2. CASE s.state = "ReceivedReinviteSentOffer" /\ s.re200
  <2>1. t = [s EXCEPT !.state = "WaitingToHangup"]
    BY <1>2 DEF end, Become, Undecided
  <2>2. Calm(s, t, m)
    BY <1>2, <2>1 DEF Ready, Sessions, Calm, SameRequest, Onward, Kept, Mute, Undecided, Waiters,
      Awaits, Awaiting, Unacked, Asking
  <2>3. Sound(t)
    BY <1>2, <2>1 DEF Ready, Sessions, Sound, Requested, Undecided, Pending, Repeating, Proposed, Unhurt,
      ToAnswer, Unacked, Asking, Empty
  <2> QED BY <2>2, <2>3
<1>3. CASE s.state \in Undecided
  <2> DEFINE y == Response(s.got, 488, NoSdp)
             bye == Request("BYE", 0, NoSdp)
  <2>1. isOffering(s.got) /\ s.got \in Messages
    BY <1>3, FieldTypes DEF Ready, Sound, Pending
  <2>2. y.code = 488 /\ y.method = s.got.method /\ y.n = s.got.n
    BY <2>1 DEF Response, Messages
  <2>3. bye.method = "BYE" /\ bye.code = 0
    BY DEF Request
  <2>4. /\ SameRequest(s, t) /\ Kept(s, t) /\ t.out = {y, bye} /\ t.re200 = s.re200
        /\ t.state = "Terminated" /\ t.propRemote = s.propRemote /\ t.bad = s.bad /\ t.misled = s.misled
    <3>1. /\ s.state \notin {"SentReinvite", "SentReinviteNoOffer"} /\ s.state # "Terminated"
          /\ ~(s.state = "ReceivedReinviteSentOffer" /\ s.re200) /\ s.state # "WaitingToHangup"
      BY <1>3 DEF Undecided
    <3>2. t = Hangup(Send(s, y))
      BY <1>3, <3>1 DEF end
    <3>3. Send(s, y) = [s EXCEPT !.out = {y}]
      BY DEF Send, Ready, Sessions
    <3>4. t = [s EXCEPT !.state = "Terminated", !.owed = FALSE, !.out = {y} \cup {bye}]
      <4> DEFINE w == [s EXCEPT !.out = {y}]
      <4>1. w.out = {y} /\ w = [s EXCEPT !.out = {y}]
        BY DEF Ready, Sessions
      <4>2. t = [[w EXCEPT !.state = "Terminated", !.owed = FALSE] EXCEPT !.out = w.out \cup {bye}]
        BY <3>2, <3>3 DEF Hangup, Send, Ready, Sessions
      <4> HIDE DEF w, y, bye
      <4> QED BY <4>1, <4>2 DEF Ready, Sessions
    <3> HIDE DEF t, y, bye
    <3> QED BY <3>4 DEF Ready, Sessions, SameRequest, Kept
  <2> HIDE DEF t, y, bye
  <2>5. Responds(s, t)
    BY <1>3, <2>1, <2>2, <2>3, <2>4 DEF Responds, isReply, isOk, isOffering, Mute, Kept
  <2>6. Sound(t)
    <3>1. t.state \notin Undecided \cup Unacked \cup Empty
      BY <2>4 DEF Undecided, Unacked, Asking, Empty
    <3> QED BY <2>4, <3>1 DEF Ready, Sound, Requested, Repeating, Proposed, Unhurt, SameRequest, Kept
  <2> QED BY <2>5, <2>6 DEF t
<1>4. CASE s.state = "Terminated"
  <2>1. t = s
    BY <1>4 DEF end, Undecided
  <2>2. Calm(s, s, m)
    BY DEF Ready, Calm, SameRequest, Onward, Kept, Mute
  <2> QED BY <2>1, <2>2 DEF Ready
<1>5. CASE s.state = "WaitingToHangup"
  <2>1. t = [s EXCEPT !.bad = TRUE]
    BY <1>5 DEF end, Asserting, Undecided, Ready, Sessions
  <2>2. Calm(s, t, m)
    BY <1>5, <2>1 DEF Ready, Sessions, Calm, SameRequest, Onward, Kept, Mute, Undecided, Waiters,
      Awaits, Awaiting, Unacked, Asking
  <2>3. Sound(t)
    BY <1>5, <2>1 DEF Ready, Sessions, Sound, Requested, Undecided, Pending, Repeating, Proposed,
      Unhurt, ToAnswer, Unacked, Asking, Empty
  <2> QED BY <2>2, <2>3
<1>6. CASE /\ s.state \notin Asking \cup Undecided \cup {"Terminated", "WaitingToHangup"}
           /\ ~(s.state = "ReceivedReinviteSentOffer" /\ s.re200)
  <2>1. t = Hangup(s)
    BY <1>6 DEF end, Asking, Undecided
  <2> QED BY <2>1, SoundHangup
<1> QED BY <1>1, <1>2, <1>3, <1>4, <1>5, <1>6

-----------------------------------------------------------------------------
(* Messages. *)

\* The messages that an end may receive.
Expected(s, m) ==
  /\ m \in Messages
  /\ m.method \in {"INVITE", "UPDATE", "ACK", "BYE"}
  /\ m.method \in {"ACK", "BYE"} => m.code = 0
  /\ isReply(m) /\ ~isOk(m) => m.n = s.cseq /\ m.method = s.sent.method /\ Awaits(s)
  /\ isOk(m) /\ (\A a \in s.acks : a.n # m.n) =>
       s.state = "Terminated" \/ (m.n = s.cseq /\ s.state \in Unacked)
  /\ isOffering(m) =>
       /\ s.state \notin Undecided \cup {"SentReinviteAnswered"}
       /\ m.method = "INVITE" /\ OffersOnly => m.sdp # NoSdp

\* What comes of the message m.
Reacts(s, t, m) ==
  /\ Sound(t)
  /\ isOffering(m) => Declines(s, t, m) \/ TakesUp(s, t, m) \/ Calm(s, t, m)
  /\ isReply(m) /\ ~isOk(m) =>
       \/ Calm(s, t, m)
       \/ ~general(m) /\ (Closes(s, t) \/ (s.state \in Awaiting /\ Requests(s, t)))
  /\ isOk(m) =>
       \/ Calm(s, t, m)
       \/ (Acks(s, t) \/ Gets(s, t)) /\ m.n = s.cseq /\ s.state \in Asking \cup {"WaitingToTerminate"}
  /\ m.method \in {"ACK", "BYE"} => Calm(s, t, m)

\* The kinds of messages.
LEMMA MessageKinds ==
  ASSUME NEW s, NEW m, Expected(s, m)
  PROVE  /\ isOffering(m) \/ isReply(m) \/ m.method \in {"ACK", "BYE"}
         /\ isOffering(m) => ~isReply(m) /\ m.method \notin {"ACK", "BYE"}
         /\ isReply(m) => m.method \notin {"ACK", "BYE"}
         /\ isOk(m) => isReply(m)
         /\ m.n \in Nat
BY MessageTypes DEF Expected, isOffering, isReply, isOk, Messages

\* Nothing that matters to the peer changes.
LEMMA SoundStill ==
  ASSUME NEW s, Ready(s), NEW m
  PROVE  Calm(s, s, m)
BY DEF Ready, Calm, SameRequest, Onward, Kept, Mute

\* A request is turned down.
LEMMA SoundDeclines ==
  ASSUME NEW s, Ready(s), NEW m, Expected(s, m), isOffering(m), NEW code, code \notin {0, 200}
  PROVE  LET t == Send(s, Response(m, code, NoSdp)) IN Declines(s, t, m) /\ Sound(t)
<1> DEFINE y == Response(m, code, NoSdp)
           t == Send(s, y)
<1>1. y.code = code /\ y.method = m.method /\ y.n = m.n
  BY DEF Expected, Messages, Response
<1> HIDE DEF y
<1>2. t.out = {y}
  BY DEF Send, Ready, Sessions
<1>3. Declines(s, t, m)
  <2>1. /\ SameRequest(s, t) /\ t.ok = s.ok /\ (s.misled => t.misled) /\ t.state = s.state
    BY DEF Send, Ready, Sessions, SameRequest
  <2> HIDE DEF t
  <2> QED BY <1>1, <1>2, <2>1
          DEF Declines, Onward, Awaits, isReply, isOk, isOffering, Mute, Expected
<1>4. Sound(t)
  BY DEF Send, Ready, Sessions, Sound, Requested, Pending, Repeating, Proposed, Unhurt
<1> QED BY <1>3, <1>4 DEF y

\* An ACK or a BYE, where no ACK is waited for.
LEMMA SoundOthers ==
  ASSUME NEW s, Ready(s), NEW m, Expected(s, m), m.method \in {"ACK", "BYE"}
  PROVE  Calm(s, dispatchOthers(s, m), m) /\ Sound(dispatchOthers(s, m))
<1>1. CASE m.method = "BYE"
  <2> DEFINE t == dispatchOthers(s, m)
  <2>1. t = [s EXCEPT !.state = "Terminated", !.owed = FALSE]
    BY <1>1 DEF dispatchOthers
  <2>2. Calm(s, t, m)
    BY <2>1 DEF Ready, Sessions, Calm, SameRequest, Onward, Kept, Mute, Undecided,
         Waiters, Awaits, Awaiting, Unacked, Asking
  <2>3. Sound(t)
    BY <2>1 DEF Ready, Sessions, Sound, Requested, Undecided, Pending, Repeating,
         Proposed, Unhurt, ToAnswer, Unacked, Asking, Empty
  <2> QED BY <2>2, <2>3
<1>2. CASE m.method = "ACK"
  <2>1. dispatchOthers(s, m) = s
    BY <1>2 DEF dispatchOthers
  <2> QED BY <2>1, SoundStill DEF Ready
<1> QED BY <1>1, <1>2

\* dispatchTerminated.
LEMMA SoundTerminated ==
  ASSUME NEW s, Ready(s), s.state = "Terminated", NEW m, Expected(s, m)
  PROVE  Reacts(s, dispatchTerminated(s, m), m)
<1>1. CASE isOffering(m)
  <2>1. dispatchTerminated(s, m) = Send(s, Response(m, 481, NoSdp))
    BY <1>1 DEF dispatchTerminated
  <2> QED BY <1>1, <2>1, SoundDeclines, MessageKinds DEF Reacts
<1>2. CASE ~isOffering(m)
  <2>1. dispatchTerminated(s, m) = s
    BY <1>2 DEF dispatchTerminated
  <2> QED BY <1>2, <2>1, SoundStill, MessageKinds DEF Reacts, Ready
<1> QED BY <1>1, <1>2

\* dispatchConnected, which dispatchGlare uses too.
LEMMA SoundConnected ==
  ASSUME NEW s, Ready(s), s.state \in Free, NEW m, Expected(s, m),
         isOk(m) => \A a \in s.acks : a.n # m.n
  PROVE  Reacts(s, dispatchConnected(s, m), m)
<1> DEFINE t == dispatchConnected(s, m)
<1>1. /\ ~Awaits(s) /\ s.state \notin Undecided \cup Waiters \cup Unacked \cup ToAnswer
      /\ s.state # "Terminated"
  BY DEF Free, Awaits, Awaiting, Asking, AskingAgain, Undecided, Waiters, Unacked, ToAnswer
<1>2. s.propRemote # NoSdp => Leftovers
  BY <1>1 DEF Ready, Sound, Proposed
<1>3. ~isReply(m)
  BY <1>1 DEF Expected
<1>4. CASE isOffering(m) /\ ~(m.method = "UPDATE" /\ m.sdp = NoSdp)
  <2> DEFINE state == IF m.method = "UPDATE" THEN "ReceivedUpdate"
                      ELSE IF m.sdp = NoSdp THEN "ReceivedReinviteNoOffer" ELSE "ReceivedReinvite"
  <2>1. /\ t.state = state /\ t.got = m /\ SameRequest(s, t) /\ t.ok = s.ok /\ t.out = {}
        /\ t.re200 = s.re200 /\ t.bad = s.bad /\ t.misled = s.misled
        /\ state = "ReceivedReinviteNoOffer" => t.propRemote = s.propRemote
    BY <1>4 DEF dispatchConnected, isOffering, Ready, Sessions, SameRequest
  <2>2. /\ state \in Undecided /\ state \notin Unacked \cup Empty
        /\ state # "ReceivedReinviteNoOffer" => state \in ToAnswer
        /\ state = "ReceivedReinviteNoOffer" => ~OffersOnly
    BY <1>4 DEF Undecided, Unacked, Asking, Empty, ToAnswer, Expected, isOffering
  <2> HIDE DEF t
  <2>3. TakesUp(s, t, m)
    BY <2>1, <2>2 DEF TakesUp
  <2>4. Pending(t)
    BY <1>4, <2>1 DEF Pending, isOffering
  <2>5. Proposed(t)
    BY <1>2, <2>1, <2>2 DEF Proposed, Empty
  <2> HIDE DEF state
  <2>6. Sound(t)
    BY <2>1, <2>2, <2>4, <2>5
       DEF Ready, Sound, Requested, Repeating, Unhurt, SameRequest, Undecided, Empty, Unacked, Asking
  <2> QED BY <1>4, <2>3, <2>6, MessageKinds DEF Reacts, t
<1>5. CASE isOffering(m) /\ m.method = "UPDATE" /\ m.sdp = NoSdp
  <2> DEFINE u == [s EXCEPT !.got = m]
             y == Response(m, 200, NoSdp)
  <2>1. y.code = 200 /\ y.method = "UPDATE" /\ y.n = m.n
    BY <1>5 DEF Expected, Messages, Response
  <2>2. t = Send(u, y)
    BY <1>5 DEF dispatchConnected, isOffering
  <2> HIDE DEF y
  <2>3. /\ t.state = s.state /\ t.got = m /\ SameRequest(s, t) /\ t.ok = s.ok /\ t.out = {y}
        /\ t.re200 = s.re200 /\ t.bad = s.bad /\ t.misled = s.misled
        /\ t.propRemote = s.propRemote
    BY <2>2 DEF Send, Ready, Sessions, SameRequest
  <2> HIDE DEF t
  <2>4. Declines(s, t, m)
    BY <1>1, <2>1, <2>3 DEF Declines, Onward, Awaits, isReply, isOk, Mute
  <2>5. Sound(t)
    BY <1>1, <2>3 DEF Ready, Sound, Requested, Repeating, Proposed, Unhurt, SameRequest, Waiters
  <2> QED BY <1>5, <2>4, <2>5, MessageKinds DEF Reacts, t
<1>6. CASE m.method = "ACK"
  <2> DEFINE b == s.misled \/ (s.re200 /\ m.n # s.ok.n)
  <2>1. t = [s EXCEPT !.re200 = FALSE, !.misled = b]
    BY <1>6 DEF dispatchConnected, gotAck, Ready, Sessions
  <2>2. s.misled => b
    OBVIOUS
  <2> HIDE DEF b
  <2>3. /\ t.state = s.state /\ SameRequest(s, t) /\ Kept(s, t) /\ t.out = {} /\ t.re200 = FALSE
        /\ t.propRemote = s.propRemote /\ t.bad = s.bad /\ t.expires = s.expires
    BY <2>1, <2>2 DEF Ready, Sessions, SameRequest, Kept
  <2> HIDE DEF t
  <2>4. Calm(s, t, m)
    BY <1>1, <2>3 DEF Calm, Onward, Awaits, Mute
  <2>5. Sound(t)
    BY <1>1, <2>3 DEF Ready, Sound, Requested, Repeating, Proposed, Unhurt, SameRequest, Kept, Waiters
  <2> QED BY <1>6, <2>4, <2>5, MessageKinds DEF Reacts, t
<1>7. CASE m.method = "BYE"
  <2>1. t = dispatchOthers(s, m)
    BY <1>7 DEF dispatchConnected
  <2> QED BY <1>7, <2>1, SoundOthers, MessageKinds DEF Reacts
<1> QED BY <1>3, <1>4, <1>5, <1>6, <1>7, MessageKinds

\* offerOver.
LEMMA SoundOfferOver ==
  ASSUME NEW s, Ready(s), s.state \in Awaiting, NEW u, u = s \/ u = [s EXCEPT !.stale = FALSE]
  PROVE  Closes(s, offerOver(u)) /\ Sound(offerOver(u))
<1> DEFINE t == offerOver(u)
<1>1. /\ t.state = "Connected" /\ SameRequest(s, t) /\ Kept(s, t) /\ t.out = {}
      /\ t.re200 = s.re200 /\ t.propRemote = s.propRemote /\ t.bad = s.bad
  BY DEF offerOver, Ready, Sessions, SameRequest, Kept
<1> HIDE DEF t
<1>2. Closes(s, t)
  BY <1>1 DEF Closes, Mute, Free
<1>3. Sound(t)
  BY <1>1 DEF Ready, Sound, Requested, Repeating, Proposed, Unhurt, SameRequest, Kept, Undecided, Unacked,
              Awaiting, Asking, Empty, ToAnswer
<1> QED BY <1>2, <1>3 DEF t

\* dispatchSentUpdate.
LEMMA SoundSentUpdate ==
  ASSUME NEW s, Ready(s), s.state = "SentUpdate", NEW m, Expected(s, m),
         isOk(m) => \A a \in s.acks : a.n # m.n
  PROVE  Reacts(s, dispatchSentUpdate(s, m), m)
<1> DEFINE t == dispatchSentUpdate(s, m)
<1>1. s.sent.method = "UPDATE" /\ s.state \in Awaiting /\ s.state \notin Unacked
  BY DEF Ready, Sound, Requested, Awaiting, Unacked, Asking
<1>2. ~isOk(m)
  BY <1>1 DEF Expected
<1>3. CASE isOffering(m)
  <2>1. t = Send(s, Response(m, 491, NoSdp))
    BY <1>3 DEF dispatchSentUpdate, general, rejected, isOffering
  <2> QED BY <1>3, <2>1, SoundDeclines, MessageKinds DEF Reacts
<1>4. CASE isReply(m)
  <2>1. m.method = "UPDATE" /\ m.code # 0 /\ ~isOffering(m)
    BY <1>1, <1>2, <1>4 DEF Expected, isReply, isOffering
  <2>2. m.code \in {200, 400, 408, 422, 481, 488, 491, 500}
    BY <2>1 DEF Expected, Messages
  <2>3. CASE m.code = 200
    <3>1. CASE s.propLocal = NoSdp
      <4>1. t = [s EXCEPT !.state = "Connected"]
        BY <2>1, <2>3, <3>1 DEF dispatchSentUpdate, Become, general, rejected, isOffering
      <4>2. Closes(s, t)
        BY <1>1, <4>1 DEF Ready, Sessions, Closes, SameRequest, Kept, Mute, Free
      <4>3. Sound(t)
        BY <4>1 DEF Ready, Sessions, Sound, Requested, Undecided, Repeating, Proposed, Unhurt,
             ToAnswer, Unacked, Asking, Empty
      <4> QED BY <1>2, <1>4, <2>1, <2>3, <4>2, <4>3, MessageKinds DEF Reacts, general
    <3>2. CASE s.propLocal # NoSdp /\ m.sdp = NoSdp
      <4>1. t = offerOver(s)
        BY <2>1, <2>3, <3>2 DEF dispatchSentUpdate, general, rejected, isOffering
      <4> QED BY <1>1, <1>2, <1>4, <2>1, <2>3, <4>1, SoundOfferOver, MessageKinds
              DEF Reacts, general
    <3>3. CASE s.propLocal # NoSdp /\ m.sdp # NoSdp
      <4>1. t = [offerAnswered(s, m) EXCEPT !.owed = FALSE]
        BY <2>1, <2>3, <3>3 DEF dispatchSentUpdate, general, rejected, isOffering
      <4>2. /\ t.state = "Connected" /\ SameRequest(s, t) /\ Kept(s, t) /\ t.out = {}
            /\ t.re200 = s.re200 /\ t.propRemote = s.propRemote /\ (~s.bad => ~t.bad)
        BY <3>3, <4>1 DEF offerAnswered, Asserting, Ready, Sessions, SameRequest, Kept, Sound
      <4> HIDE DEF t
      <4>3. Closes(s, t)
        BY <1>1, <4>2 DEF Closes, Mute, Free
      <4>4. Sound(t)
        BY <4>2 DEF Ready, Sound, Requested, Undecided, Repeating, Proposed, Unhurt, SameRequest, Kept,
             ToAnswer, Unacked, Asking, Empty
      <4> QED BY <1>2, <1>4, <2>1, <2>3, <4>3, <4>4, MessageKinds DEF Reacts, general, t
    <3> QED BY <3>1, <3>2, <3>3
  <2>4. CASE m.code = 491
    <3>1. t = [s EXCEPT !.state = "SentUpdateGlare", !.glare = @ + 1]
      BY <2>1, <2>4 DEF dispatchSentUpdate, general, rejected, isOffering
    <3>2. Closes(s, t)
      BY <1>1, <3>1 DEF Ready, Sessions, Closes, SameRequest, Kept, Mute, Free
    <3>3. Sound(t)
      BY <1>1, <3>1 DEF Ready, Sessions, Sound, Requested, Undecided, Repeating, Proposed, Unhurt,
           ToAnswer, Unacked, Asking, Empty
    <3> QED BY <1>2, <1>4, <2>1, <2>4, <3>2, <3>3, MessageKinds DEF Reacts, general
  <2>5. CASE m.code = 422
    <3>1. t = sessionRefresh(s)
      BY <2>1, <2>5 DEF dispatchSentUpdate, general, rejected, isOffering
    <3> QED BY <1>1, <1>2, <1>4, <2>1, <2>5, <3>1, SoundRefresh, MessageKinds
            DEF Reacts, general
  <2>6. CASE general(m)
    <3>1. t = Hangup(s)
      BY <2>1, <2>6 DEF dispatchSentUpdate, general, rejected, isOffering
    <3> QED BY <1>2, <1>4, <2>1, <3>1, SoundHangup, MessageKinds DEF Reacts
  <2>7. CASE rejected(m)
    <3>1. t = offerOver(s) /\ ~general(m)
      BY <2>1, <2>7 DEF dispatchSentUpdate, general, rejected, isOffering
    <3> QED BY <1>1, <1>2, <1>4, <2>1, <3>1, SoundOfferOver, MessageKinds DEF Reacts
  <2> QED BY <2>2, <2>3, <2>4, <2>5, <2>6, <2>7 DEF general, rejected
<1>5. CASE m.method \in {"ACK", "BYE"}
  <2>1. t = dispatchOthers(s, m)
    BY <1>5, MessageKinds DEF dispatchSentUpdate, general, rejected, isOffering, Expected
  <2> QED BY <1>5, <2>1, SoundOthers, MessageKinds DEF Reacts
<1> QED BY <1>3, <1>4, <1>5, MessageKinds

\* The ACK of a re-INVITE has gone out in the session t.
Acked(s, t, sdp) ==
  LET ack == Request("ACK", s.cseq, sdp)
  IN /\ t.cseq = s.cseq /\ t.sent = s.sent /\ Kept(s, t) /\ t.out \subseteq {ack, Request("BYE", 0, NoSdp)}
     /\ t.acks = s.acks \cup {ack} /\ t.re200 = s.re200 /\ (~s.bad => ~t.bad)

\* sendAck, from a session w that differs from s in what the 200 settled.
LEMMA AckSent ==
  ASSUME NEW s, Ready(s), s.state \in Unacked, NEW w, Recorded(w), NEW sdp,
         SameRequest(s, w), Kept(s, w), w.out = {}, w.re200 = s.re200, (~s.bad => ~w.bad)
  PROVE  LET t == sendAck(w, sdp)
         IN  /\ Recorded(t) /\ Acked(s, t, sdp)
             /\ t.state = w.state /\ t.propRemote = w.propRemote
<1>1. w.sent.method = "INVITE" /\ w.sent.n = s.cseq /\ \A a \in w.acks : a.n # w.sent.n
  BY KeptAcks DEF Ready, Sound, Requested, SameRequest
<1>2. LET t == sendAck(w, sdp)
          ack == Request("ACK", w.sent.n, sdp)
      IN  /\ Recorded(t) /\ t.cseq = w.cseq /\ t.sent = w.sent /\ Kept(w, t)
          /\ t.out = w.out \cup {ack} /\ t.acks = w.acks \cup {ack}
          /\ t.state = w.state /\ t.re200 = w.re200 /\ t.propRemote = w.propRemote
          /\ t.expires = w.expires /\ t.misled = w.misled /\ (~s.bad => ~t.bad)
  BY <1>1, SendsAck
<1> QED BY <1>1, <1>2 DEF Acked, Kept, SameRequest

\* A session whose ACK has gone out is sound, and its peer sees no more than that.
LEMMA SoundAcks ==
  ASSUME NEW s, Ready(s), s.state \in Unacked, NEW t, NEW sdp, Acked(s, t, sdp),
         t.state \in {"Connected", "Terminated"}, t.propRemote # NoSdp => Leftovers
  PROVE  Acks(s, t) /\ Sound(t)
<1> DEFINE ack == Request("ACK", s.cseq, sdp)
           bye == Request("BYE", 0, NoSdp)
<1>1. /\ ack.n = s.cseq /\ ack.method = "ACK" /\ ack.code = 0
      /\ bye.method = "BYE" /\ bye.code = 0
  BY DEF Request
<1>2. /\ t.cseq = s.cseq /\ t.sent = s.sent /\ Kept(s, t) /\ t.out \subseteq {ack, bye}
      /\ t.acks = s.acks \cup {ack} /\ t.re200 = s.re200 /\ (~s.bad => ~t.bad)
  BY DEF Acked
<1> HIDE DEF ack, bye
<1>3. Acks(s, t)
  BY <1>1, <1>2 DEF Acks, Mute
<1>4. t.state \notin Undecided \cup Unacked \cup Empty \cup ToAnswer
  BY DEF Undecided, Unacked, Asking, Empty, ToAnswer
<1>5. Sound(t)
  BY <1>2, <1>4 DEF Ready, Sound, Requested, Repeating, Proposed, Unhurt, Kept
<1> QED BY <1>3, <1>5

\* dispatchSentReinvite and dispatchSentReinviteNoOffer.
LEMMA SoundSentReinvite ==
  ASSUME NEW s, Ready(s), s.state \in Asking, NEW m, Expected(s, m),
         isOk(m) => \A a \in s.acks : a.n # m.n
  PROVE  Reacts(s, dispatchSentReinvite(s, m), m)
<1> DEFINE u == [s EXCEPT !.stale = FALSE]
           t == dispatchSentReinvite(s, m)
<1>1. /\ s.sent.method = "INVITE" /\ s.state \in Awaiting /\ s.state \in Unacked
      /\ s.state \notin ToAnswer \cup {"Terminated"}
  BY DEF Ready, Sound, Requested, Awaiting, Unacked, Asking, ToAnswer
<1>2. isOk(m) => m.n = s.cseq
  BY <1>1 DEF Expected
<1>3. s.propRemote # NoSdp => Leftovers
  BY <1>1 DEF Ready, Sound, Proposed
<1>4. Recorded(u) /\ u.acks = s.acks
  <2>1. Recorded(s)
    BY RecordedSession DEF Ready
  <2> QED BY <2>1 DEF Recorded, Fields
<1>5. CASE isOffering(m)
  <2>1. t = Send(s, Response(m, 491, NoSdp))
    BY <1>5 DEF dispatchSentReinvite, general, rejected, isOffering
  <2> QED BY <1>5, <2>1, SoundDeclines, MessageKinds DEF Reacts
<1>6. CASE isReply(m)
  <2>1. m.method = "INVITE" /\ m.code # 0 /\ ~isOffering(m)
    BY <1>1, <1>6 DEF Expected, isReply, isOk, isOffering
  <2>2. m.code \in {200, 400, 408, 422, 481, 488, 491, 500}
    BY <2>1 DEF Expected, Messages
  <2>3. CASE m.code = 200
    <3>1. isOk(m) /\ m.n = s.cseq
      BY <1>2, <2>1, <2>3 DEF isOk
    <3>2. CASE m.sdp = NoSdp
      <4>1. t = sendAck(offerOver(u), NoSdp)
        BY <2>1, <2>3, <3>2 DEF dispatchSentReinvite, general, rejected, isOffering
      <4> DEFINE w == offerOver(u)
      <4>2. /\ SameRequest(s, w) /\ Kept(s, w) /\ w.out = {} /\ w.re200 = s.re200 /\ (~s.bad => ~w.bad)
            /\ w.expires = s.expires /\ w.state = "Connected" /\ w.propRemote = s.propRemote
        BY DEF offerOver, Ready, Sessions, Sound, SameRequest, Kept
      <4>3. Recorded(w)
        <5> HIDE DEF u
        <5> QED BY <1>4 DEF offerOver, Recorded, Fields
      <4>4. t = sendAck(w, NoSdp)
        BY <4>1
      <4> HIDE DEF w, t, u
      <4>5. Acks(s, t) /\ Sound(t)
        <5>1. Acked(s, t, NoSdp) /\ t.state = w.state /\ t.propRemote = w.propRemote
          BY <1>1, <4>2, <4>3, <4>4, AckSent
        <5> QED BY <1>1, <1>3, <4>2, <5>1, SoundAcks
      <4> QED BY <2>1, <3>1, <4>5, MessageKinds DEF Reacts, t
    <3>3. CASE m.sdp # NoSdp /\ s.state = "SentReinvite"
      <4>1. t = reinviteAnswered(u, m)
        BY <2>1, <2>3, <3>3 DEF dispatchSentReinvite, general, rejected, isOffering
      <4> DEFINE w == offerAnswered(u, m)
      <4>2. s.propLocal # NoSdp
        BY <3>3 DEF Ready, Fit, Offered
      <4>3. /\ SameRequest(s, w) /\ Kept(s, w) /\ w.out = {} /\ w.re200 = s.re200 /\ (~s.bad => ~w.bad)
            /\ w.expires = s.expires /\ w.state = "Connected" /\ w.propRemote = s.propRemote
        BY <4>2 DEF offerAnswered, Asserting, Ready, Sessions, Sound, SameRequest, Kept
      <4>4. Recorded(w)
        <5> HIDE DEF u
        <5> QED BY <1>4 DEF offerAnswered, Asserting, Recorded, Fields
      <4>5. t = [sendAck(w, NoSdp) EXCEPT !.refresh = FALSE, !.owed = u.refresh /\ u.owed]
        BY <4>1 DEF reinviteAnswered
      <4> HIDE DEF w, t, u
      <4>6. Acks(s, t) /\ Sound(t)
        <5> DEFINE v == sendAck(w, NoSdp)
        <5>1. Recorded(v) /\ Acked(s, v, NoSdp) /\ v.state = w.state /\ v.propRemote = w.propRemote
          BY <1>1, <4>3, <4>4, AckSent
        <5> HIDE DEF v
        <5>2. Acked(s, t, NoSdp) /\ t.state = v.state /\ t.propRemote = v.propRemote
          BY <4>5, <5>1 DEF v, Recorded, Fields, Acked, Kept
        <5> QED BY <1>1, <1>3, <4>3, <5>1, <5>2, SoundAcks
      <4> QED BY <2>1, <3>1, <4>6, MessageKinds DEF Reacts, t
    <3>4. CASE m.sdp # NoSdp /\ s.state = "SentReinviteNoOffer"
      <4>1. t = [u EXCEPT !.state = "SentReinviteAnswered", !.propRemote = m.sdp, !.owed = FALSE]
        BY <2>1, <2>3, <3>4 DEF dispatchSentReinvite, general, rejected, isOffering
      <4>2. /\ SameRequest(s, t) /\ Kept(s, t) /\ t.out = {} /\ t.re200 = s.re200 /\ t.bad = s.bad
            /\ t.state = "SentReinviteAnswered"
        BY <4>1 DEF Ready, Sessions, SameRequest, Kept
      <4> HIDE DEF t
      <4>3. Gets(s, t)
        BY <3>4, <4>2 DEF Gets
      <4>4. Sound(t)
        BY <1>1, <4>2 DEF Ready, Sound, Requested, Repeating, Proposed, Unhurt, SameRequest, Kept,
             Undecided, Empty, ToAnswer
      <4> QED BY <2>1, <3>1, <4>3, <4>4, MessageKinds DEF Reacts, t
    <3> QED BY <3>2, <3>3, <3>4 DEF Asking
  <2>4. CASE m.code = 491
    <3>1. t = [u EXCEPT !.glare = u.glare + 1,
                        !.state = IF s.state = "SentReinvite" THEN "SentReinviteGlare"
                                  ELSE "SentReinviteNoOfferGlare"]
      BY <2>1, <2>4 DEF dispatchSentReinvite, general, rejected, isOffering, Ready, Sessions
    <3>2. /\ SameRequest(s, t) /\ Kept(s, t) /\ t.out = {} /\ t.re200 = s.re200 /\ t.bad = s.bad
          /\ t.propRemote = s.propRemote
          /\ t.state = IF s.state = "SentReinvite" THEN "SentReinviteGlare"
                       ELSE "SentReinviteNoOfferGlare"
      BY <3>1 DEF Ready, Sessions, SameRequest, Kept
    <3> HIDE DEF t
    <3>3. Closes(s, t)
      BY <1>1, <3>2 DEF Closes, Mute, Free, AskingAgain
    <3>4. Sound(t)
      BY <1>1, <3>2 DEF Ready, Sound, Requested, Repeating, Proposed, Unhurt, SameRequest, Kept, Undecided,
        Unacked, Asking, Empty, ToAnswer
    <3> QED BY <2>1, <2>4, <3>3, <3>4, MessageKinds DEF Reacts, general, isOk, t
  <2>5. CASE m.code = 422
    <3>1. t = sessionRefresh(u)
      BY <2>1, <2>5 DEF dispatchSentReinvite, general, rejected, isOffering
    <3>2. Requests(s, t) /\ Sound(t)
      BY <3>1, SoundRefresh
    <3> QED BY <1>1, <2>1, <2>5, <3>2, MessageKinds DEF Reacts, general, isOk
  <2>6. CASE general(m)
    <3>1. t = Hangup(u)
      BY <2>1, <2>6 DEF dispatchSentReinvite, general, rejected, isOffering
    <3>2. /\ SameRequest(s, t) /\ Kept(s, t) /\ t.out = {Request("BYE", 0, NoSdp)}
          /\ t.re200 = s.re200 /\ t.bad = s.bad /\ t.propRemote = s.propRemote
          /\ t.state = "Terminated"
      BY <3>1 DEF Hangup, Send, Ready, Sessions, SameRequest, Kept
    <3> HIDE DEF t
    <3>3. Calm(s, t, m)
      BY <1>1, <3>2 DEF Calm, Onward, Awaits, Mute, Request, Unacked, Undecided, Asking, Waiters
    <3>4. Sound(t)
      BY <1>1, <3>2 DEF Ready, Sound, Requested, Repeating, Proposed, Unhurt, SameRequest, Kept, Undecided,
        Unacked, Asking, Empty, ToAnswer
    <3> QED BY <2>1, <2>6, <3>3, <3>4, MessageKinds DEF Reacts, general, isOk, t
  <2>7. CASE rejected(m)
    <3>1. t = offerOver(u) /\ ~general(m) /\ ~isOk(m)
      BY <2>1, <2>7 DEF dispatchSentReinvite, general, rejected, isOffering, isOk
    <3>2. Closes(s, t) /\ Sound(t)
      BY <1>1, <3>1, SoundOfferOver
    <3> QED BY <2>1, <3>1, <3>2, MessageKinds DEF Reacts
  <2> QED BY <2>2, <2>3, <2>4, <2>5, <2>6, <2>7 DEF general, rejected
<1>7. CASE m.method \in {"ACK", "BYE"}
  <2>1. t = dispatchOthers(s, m)
    BY <1>7, MessageKinds DEF dispatchSentReinvite, general, rejected, isOffering, Expected
  <2> QED BY <1>7, <2>1, SoundOthers, MessageKinds DEF Reacts
<1> QED BY <1>5, <1>6, <1>7, MessageKinds

\* dispatchReceivedReinviteSentOffer.
LEMMA SoundSentOffer ==
  ASSUME NEW s, Ready(s), s.state = "ReceivedReinviteSentOffer", NEW m, Expected(s, m),
         isOk(m) => \A a \in s.acks : a.n # m.n
  PROVE  Reacts(s, dispatchReceivedReinviteSentOffer(s, m), m)
<1> DEFINE t == dispatchReceivedReinviteSentOffer(s, m)
<1>1. ~Awaits(s) /\ s.state \notin Undecided \cup Unacked \cup ToAnswer
  BY DEF Awaits, Awaiting, Asking, Undecided, Unacked, ToAnswer
<1>2. ~isReply(m)
  BY <1>1 DEF Expected
<1>3. s.propRemote # NoSdp => Leftovers
  BY <1>1 DEF Ready, Sound, Proposed
<1>4. s.propLocal # NoSdp /\ s.re200 /\ s.ok.n \in Nat
  BY KeptAcks DEF Ready, Fit, Offered, Sound, Repeating
<1>5. CASE isOffering(m)
  <2>1. t = Send(s, Response(m, 491, NoSdp))
    BY <1>5 DEF dispatchReceivedReinviteSentOffer, isOffering
  <2> QED BY <1>5, <2>1, SoundDeclines, MessageKinds DEF Reacts
<1>6. CASE m.method = "ACK"
  <2>1. ASSUME /\ t.state = "Connected" /\ SameRequest(s, t) /\ t.got = s.got /\ t.ok = s.ok
               /\ (s.misled \/ m.n # s.ok.n => t.misled)
               /\ t.out = {} /\ t.re200 = FALSE /\ t.propRemote = s.propRemote /\ (~s.bad => ~t.bad)
        PROVE  Reacts(s, t, m)
    <3> HIDE DEF t
    <3>1. t.misled \/ m.n >= s.ok.n
      BY <1>4, <2>1, MessageKinds
    <3>2. Calm(s, t, m)
      BY <1>1, <1>6, <2>1, <3>1
         DEF Calm, Kept, Onward, Awaits, Mute, Unacked, Undecided, Asking
    <3>3. Sound(t)
      BY <1>3, <2>1 DEF Ready, Sound, Requested, Repeating, Proposed, Unhurt, SameRequest, Undecided,
         Unacked, Asking, Empty, ToAnswer
    <3> QED BY <1>6, <3>2, <3>3, MessageKinds DEF Reacts
  <2>2. CASE m.sdp # NoSdp
    <3>1. t = [gotAck(offerAnswered(s, m), m) EXCEPT !.owed = FALSE]
      BY <1>6, <2>2 DEF dispatchReceivedReinviteSentOffer, isOffering
    <3>2. /\ t.state = "Connected" /\ SameRequest(s, t) /\ t.got = s.got /\ t.ok = s.ok
          /\ (s.misled \/ m.n # s.ok.n => t.misled)
          /\ t.out = {} /\ t.re200 = FALSE /\ t.propRemote = s.propRemote /\ (~s.bad => ~t.bad)
      BY <1>4, <3>1 DEF gotAck, offerAnswered, Asserting, Ready, Sessions, Sound, SameRequest
    <3> QED BY <2>1, <3>2
  <2>3. CASE m.sdp = NoSdp /\ ~staleAck(s, m)
    <3>1. t = gotAck(offerOver(s), m)
      BY <1>6, <2>3 DEF dispatchReceivedReinviteSentOffer, isOffering
    <3>2. /\ t.state = "Connected" /\ SameRequest(s, t) /\ t.got = s.got /\ t.ok = s.ok
          /\ (s.misled \/ m.n # s.ok.n => t.misled)
          /\ t.out = {} /\ t.re200 = FALSE /\ t.propRemote = s.propRemote /\ (~s.bad => ~t.bad)
      BY <1>4, <3>1 DEF gotAck, offerOver, Ready, Sessions, Sound, SameRequest
    <3> QED BY <2>1, <3>2
  <2>4. CASE m.sdp = NoSdp /\ staleAck(s, m)
    <3>1. t = s
      BY <1>6, <2>4 DEF dispatchReceivedReinviteSentOffer, isOffering
    <3> QED BY <1>6, <3>1, SoundStill, MessageKinds DEF Reacts, Ready
  <2> QED BY <2>2, <2>3, <2>4
<1>7. CASE m.method = "BYE"
  <2>1. t = dispatchOthers(s, m)
    BY <1>7 DEF dispatchReceivedReinviteSentOffer, isOffering
  <2> QED BY <1>7, <2>1, SoundOthers, MessageKinds DEF Reacts
<1> QED BY <1>2, <1>5, <1>6, <1>7, MessageKinds

\* An end that made a request which met a 491 gets one of its peer.
LEMMA SoundGlareMet ==
  ASSUME NEW s, Ready(s), s.state \in {"SentUpdateGlare"} \cup AskingAgain,
         NEW m, Expected(s, m), NEW quits \in BOOLEAN,
         isOk(m) => \A a \in s.acks : a.n # m.n
  PROVE  Reacts(s, dispatchGlare(s, m, quits), m)
<1> DEFINE u == [s EXCEPT !.owed = FALSE]
           t == dispatchGlare(s, m, quits)
<1>1. /\ s.state \in Free /\ ~Awaits(s)
      /\ s.state \notin Undecided \cup Unacked \cup Asking \cup ToAnswer \cup Waiters
      /\ s.state # "Terminated"
  BY DEF Free, AskingAgain, Awaits, Awaiting, Undecided, Unacked, Asking, ToAnswer, Waiters
<1>2. ~isReply(m)
  BY <1>1 DEF Expected
<1>3. CASE isOffering(m) /\ quits
  <2> DEFINE y == Response(m, 481, NoSdp)
             bye == Request("BYE", 0, NoSdp)
  <2>1. y.code = 481 /\ y.method = m.method /\ y.n = m.n /\ bye.method = "BYE" /\ bye.code = 0
    BY DEF Expected, Messages, Response, Request
  <2>2. end(u) = Hangup(u)
    <3>1. u.state = s.state
      BY DEF Ready, Sessions
    <3> HIDE DEF u
    <3> QED BY <1>1, <3>1 DEF end, Asking, Waiters
  <2>3. t = Send(Hangup(u), y)
    BY <1>3, <2>2 DEF dispatchGlare, dispatchTerminated
  <2>4. /\ SameRequest(s, t) /\ Kept(s, t) /\ t.out = {bye, y} /\ t.re200 = s.re200
        /\ t.bad = s.bad /\ t.propRemote = s.propRemote /\ t.state = "Terminated"
    BY <2>3 DEF Hangup, Send, Ready, Sessions, SameRequest, Kept
  <2> HIDE DEF t, y, bye
  <2>5. Declines(s, t, m)
    BY <1>1, <1>3, <2>1, <2>4 DEF Declines, Kept, Onward, Awaits, isReply, isOk, isOffering, Mute,
       Undecided, Unacked, Asking
  <2>6. Sound(t)
    BY <1>1, <2>4 DEF Ready, Sound, Requested, Repeating, Proposed, Unhurt, SameRequest, Kept,
       Undecided, Unacked, Asking, Empty
  <2> QED BY <1>3, <2>5, <2>6, MessageKinds DEF Reacts, t
<1>4. CASE isOffering(m) /\ ~quits
  <2>1. t = dispatchConnected(u, m)
    BY <1>4 DEF dispatchGlare
  <2>2. /\ u \in Sessions /\ u.state = s.state /\ SameRequest(s, u) /\ u.out = {}
        /\ u.got = s.got /\ u.ok = s.ok /\ u.re200 = s.re200 /\ u.misled = s.misled
        /\ u.propLocal = s.propLocal /\ u.propRemote = s.propRemote /\ u.refresh = s.refresh
        /\ u.bad = s.bad /\ ~u.owed
    BY DEF Ready, Sessions, SameRequest
  <2> HIDE DEF u, t
  <2>3. Fit(u)
    BY <2>2, GoesLike DEF Ready, SameRequest, Same200
  <2>4. Sound(u)
    BY <1>1, <2>2 DEF Ready, Sound, Requested, Repeating, Proposed, Unhurt, SameRequest, Waiters
  <2>5. Ready(u)
    BY <2>2, <2>3, <2>4 DEF Ready, SameRequest
  <2>6. Expected(u, m) /\ ~isOk(m)
    BY <1>4, <2>2 DEF Expected, SameRequest, Awaits, isOk, isOffering
  <2>7. Reacts(u, t, m)
    BY <1>1, <2>1, <2>2, <2>5, <2>6, SoundConnected
  <2>8. Sound(t) /\ (Declines(u, t, m) \/ TakesUp(u, t, m) \/ Calm(u, t, m))
    BY <1>4, <2>7 DEF Reacts
  <2>9. /\ Declines(u, t, m) => Declines(s, t, m)
        /\ TakesUp(u, t, m) => TakesUp(s, t, m)
        /\ Calm(u, t, m) => Calm(s, t, m)
    BY <2>2 DEF Declines, TakesUp, Calm, SameRequest, Onward, Awaits, Kept, Mute
  <2> QED BY <1>4, <2>8, <2>9, MessageKinds DEF Reacts, t
<1>5. CASE m.method \in {"ACK", "BYE"}
  <2>1. t = dispatchOthers(s, m)
    BY <1>5 DEF dispatchGlare, isOffering
  <2> QED BY <1>5, <2>1, SoundOthers, MessageKinds DEF Reacts
<1> QED BY <1>2, <1>3, <1>4, <1>5, MessageKinds

\* dispatchSentReinviteAnswered.
LEMMA SoundAnswered ==
  ASSUME NEW s, Ready(s), s.state = "SentReinviteAnswered", NEW m, Expected(s, m)
  PROVE  Reacts(s, dispatchSentReinviteAnswered(s, m), m)
<1> DEFINE t == dispatchSentReinviteAnswered(s, m)
<1>1. ~isOffering(m) /\ (isReply(m) => isOk(m))
  BY DEF Expected, Awaits, Awaiting, Asking
<1>2. CASE isOk(m)
  <2>1. t = s
    BY <1>2 DEF dispatchSentReinviteAnswered, isOk
  <2> QED BY <1>1, <1>2, <2>1, SoundStill, MessageKinds DEF Reacts, Ready
<1>3. CASE m.method \in {"ACK", "BYE"}
  <2>1. t = dispatchOthers(s, m)
    BY <1>3 DEF dispatchSentReinviteAnswered
  <2> QED BY <1>3, <2>1, SoundOthers, MessageKinds DEF Reacts
<1> QED BY <1>1, <1>2, <1>3, MessageKinds

\* dispatchReceivedUpdateOrReinvite.
LEMMA SoundUndecided ==
  ASSUME NEW s, Ready(s), s.state \in Undecided, NEW m, Expected(s, m),
         isOk(m) => \A a \in s.acks : a.n # m.n
  PROVE  Reacts(s, dispatchReceivedUpdateOrReinvite(s, m), m)
<1>1. ~isOffering(m) /\ ~isReply(m)
  BY DEF Expected, Awaits, Awaiting, Unacked, Asking, Undecided
<1>2. dispatchReceivedUpdateOrReinvite(s, m) = dispatchOthers(s, m) /\ m.method \in {"ACK", "BYE"}
  BY <1>1, MessageKinds DEF dispatchReceivedUpdateOrReinvite
<1> QED BY <1>1, <1>2, SoundOthers, MessageKinds DEF Reacts

\* dispatchWaitingToTerminate.
LEMMA SoundWaitingToTerminate ==
  ASSUME NEW s, Ready(s), s.state = "WaitingToTerminate", NEW m, Expected(s, m),
         isOk(m) => \A a \in s.acks : a.n # m.n
  PROVE  Reacts(s, dispatchWaitingToTerminate(s, m), m)
<1> DEFINE t == dispatchWaitingToTerminate(s, m)
<1>1. /\ s.state \in Unacked /\ s.sent.method = "INVITE"
      /\ s.state \notin ToAnswer \cup {"Terminated"}
  BY DEF Ready, Sound, Requested, Unacked, ToAnswer
<1>2. CASE isOffering(m)
  <2>1. t = Send(s, Response(m, 400, NoSdp))
    BY <1>2 DEF dispatchWaitingToTerminate, isOffering
  <2> QED BY <1>2, <2>1, SoundDeclines, MessageKinds DEF Reacts
<1>3. CASE isReply(m) /\ ~isOk(m)
  <2>1. m.method = "INVITE"
    BY <1>1, <1>3 DEF Expected
  <2>2. t = Hangup(s)
    BY <1>3, <2>1 DEF dispatchWaitingToTerminate, isReply, isOk, isOffering
  <2> QED BY <1>3, <2>2, SoundHangup, MessageKinds DEF Reacts
<1>4. CASE isOk(m)
  <2> DEFINE w == sendAck(s, NoSdp)
  <2>1. t = Hangup(w)
    BY <1>4 DEF dispatchWaitingToTerminate, isOk, isOffering
  <2>2. Recorded(s) /\ s.out = {} /\ SameRequest(s, s) /\ Kept(s, s)
    BY RecordedSession DEF Ready, Sound, SameRequest, Kept
  <2>3. Recorded(w) /\ Acked(s, w, NoSdp) /\ w.propRemote = s.propRemote
    BY <1>1, <2>2, AckSent
  <2> HIDE DEF w, t
  <2> DEFINE bye == Request("BYE", 0, NoSdp)
             ack == Request("ACK", s.cseq, NoSdp)
  <2>4. /\ t.state = "Terminated" /\ t.out = w.out \cup {bye} /\ SameRequest(w, t) /\ Kept(w, t)
        /\ t.re200 = w.re200 /\ t.bad = w.bad /\ t.propRemote = w.propRemote
    <3> HIDE DEF bye
    <3> QED BY <2>1, <2>3 DEF Hangup, Send, Recorded, Fields, SameRequest, Kept, bye
  <2>5. Acked(s, t, NoSdp)
    <3> HIDE DEF bye
    <3> QED BY <2>3, <2>4 DEF Acked, SameRequest, Kept, bye
  <2>6. t.propRemote # NoSdp => Leftovers
    BY <1>1, <2>3, <2>4 DEF Ready, Sound, Proposed
  <2>7. Acks(s, t) /\ Sound(t)
    BY <1>1, <2>4, <2>5, <2>6, SoundAcks
  <2>8. m.n = s.cseq
    BY <1>1, <1>4 DEF Expected
  <2> QED BY <1>4, <2>7, <2>8, MessageKinds DEF Reacts, t
<1>5. CASE m.method = "BYE"
  <2>1. t = dispatchOthers(s, m)
    BY <1>5 DEF dispatchWaitingToTerminate, isOffering
  <2> QED BY <1>5, <2>1, SoundOthers, MessageKinds DEF Reacts
<1>6. CASE m.method = "ACK"
  <2>1. t = s
    BY <1>6 DEF dispatchWaitingToTerminate, isOffering
  <2> QED BY <1>6, <2>1, SoundStill, MessageKinds DEF Reacts, Ready
<1> QED BY <1>2, <1>3, <1>4, <1>5, <1>6, MessageKinds

\* dispatchWaitingToHangup.
LEMMA SoundWaitingToHangup ==
  ASSUME NEW s, Ready(s), s.state = "WaitingToHangup", NEW m, Expected(s, m),
         isOk(m) => \A a \in s.acks : a.n # m.n
  PROVE  Reacts(s, dispatchWaitingToHangup(s, m), m)
<1> DEFINE t == dispatchWaitingToHangup(s, m)
<1>1. ~isReply(m) /\ s.state \notin ToAnswer \cup Undecided \cup Unacked
  BY DEF Expected, Awaits, Awaiting, Asking, Unacked, ToAnswer, Undecided
<1>2. CASE m.method = "ACK"
  <2>1. t = Hangup(gotAck(s, m))
    BY <1>2 DEF dispatchWaitingToHangup
  <2>2. /\ t.state = "Terminated" /\ SameRequest(s, t) /\ Kept(s, t)
        /\ t.out = {Request("BYE", 0, NoSdp)} /\ t.re200 = FALSE /\ t.bad = s.bad
        /\ t.propRemote = s.propRemote
    BY <2>1 DEF Hangup, gotAck, Send, Ready, Sessions, SameRequest, Kept
  <2> HIDE DEF t
  <2>3. Calm(s, t, m)
    BY <1>1, <2>2 DEF Calm, Onward, Awaits, Mute, Request, Waiters, Unacked, Undecided, Asking
  <2>4. Sound(t)
    BY <1>1, <2>2 DEF Ready, Sound, Requested, Repeating, Proposed, Unhurt, SameRequest, Kept, Undecided,
       Unacked, Asking, Empty
  <2> QED BY <1>2, <2>3, <2>4, MessageKinds DEF Reacts, t
<1>3. CASE m.method # "ACK"
  <2>1. t = s
    BY <1>3 DEF dispatchWaitingToHangup
  <2> QED BY <1>1, <2>1, SoundStill, MessageKinds DEF Reacts, Ready
<1> QED BY <1>2, <1>3

\* dispatch, of any message that may come.
LEMMA SoundDispatch ==
  ASSUME NEW s, Ready(s), NEW m, Expected(s, m), NEW quits \in BOOLEAN
  PROVE  Reacts(s, dispatch(s, m, quits), m)
<1> DEFINE answered == {a \in s.acks : m.method = "INVITE" /\ m.code = 200 /\ a.n = m.n}
           t == dispatch(s, m, quits)
<1>1. CASE answered # {}
  <2>1. t = [s EXCEPT !.out = s.out \cup answered]
    BY <1>1 DEF dispatch, Ready, Sessions
  <2>2. isOk(m)
    BY <1>1 DEF isOk
  <2>3. answered \subseteq s.acks
    OBVIOUS
  <2> HIDE DEF answered
  <2>4. Calm(s, t, m)
    BY <2>1, <2>3 DEF Ready, Sessions, Calm, SameRequest, Onward, Awaits, Kept, Mute
  <2>5. Sound(t)
    BY <2>1 DEF Ready, Sessions, Sound, Requested, Pending, Repeating, Proposed, Unhurt
  <2> QED BY <2>2, <2>4, <2>5, MessageKinds DEF Reacts
<1>2. CASE answered = {}
  <2>1. isOk(m) => \A a \in s.acks : a.n # m.n
    BY <1>2 DEF isOk
  <2>2. s.state \in States
    BY DEF Ready, Sessions
  <2> HIDE DEF answered
  <2>3. CASE s.state = "Connected"
    <3>1. t = dispatchConnected(s, m)
      BY <1>2, <2>3 DEF dispatch, Undecided, answered
    <3> QED BY <2>1, <2>3, <3>1, SoundConnected DEF Free
  <2>4. CASE s.state = "SentUpdate"
    <3>1. t = dispatchSentUpdate(s, m)
      BY <1>2, <2>4 DEF dispatch, Undecided, answered
    <3> QED BY <2>1, <2>4, <3>1, SoundSentUpdate
  <2>5. CASE s.state \in Asking
    <3>1. t = dispatchSentReinvite(s, m)
      BY <1>2, <2>5 DEF dispatch, Undecided, answered, Asking
    <3> QED BY <2>1, <2>5, <3>1, SoundSentReinvite
  <2>6. CASE s.state = "SentReinviteAnswered"
    <3>1. t = dispatchSentReinviteAnswered(s, m)
      BY <1>2, <2>6 DEF dispatch, Undecided, answered
    <3> QED BY <2>6, <3>1, SoundAnswered
  <2>7. CASE s.state \in {"SentUpdateGlare"} \cup AskingAgain
    <3>1. t = dispatchGlare(s, m, quits)
      BY <1>2, <2>7 DEF dispatch, Undecided, answered, AskingAgain
    <3> QED BY <2>1, <2>7, <3>1, SoundGlareMet
  <2>8. CASE s.state \in Undecided
    <3>1. t = dispatchReceivedUpdateOrReinvite(s, m)
      BY <1>2, <2>8 DEF dispatch, Undecided, answered
    <3> QED BY <2>1, <2>8, <3>1, SoundUndecided
  <2>9. CASE s.state = "ReceivedReinviteSentOffer"
    <3>1. t = dispatchReceivedReinviteSentOffer(s, m)
      BY <1>2, <2>9 DEF dispatch, Undecided, answered
    <3> QED BY <2>1, <2>9, <3>1, SoundSentOffer
  <2>10. CASE s.state = "WaitingToTerminate"
    <3>1. t = dispatchWaitingToTerminate(s, m)
      BY <1>2, <2>10 DEF dispatch, Undecided, answered
    <3> QED BY <2>1, <2>10, <3>1, SoundWaitingToTerminate
  <2>11. CASE s.state = "WaitingToHangup"
    <3>1. t = dispatchWaitingToHangup(s, m)
      BY <1>2, <2>11 DEF dispatch, Undecided, answered
    <3> QED BY <2>1, <2>11, <3>1, SoundWaitingToHangup
  <2>12. CASE s.state = "Terminated"
    <3>1. t = dispatchTerminated(s, m)
      BY <1>2, <2>12 DEF dispatch, Undecided, answered
    <3> QED BY <2>12, <3>1, SoundTerminated
  <2> QED BY <2>2, <2>3, <2>4, <2>5, <2>6, <2>7, <2>8, <2>9, <2>10, <2>11, <2>12
          DEF States, Asking, AskingAgain, Undecided
<1> QED BY <1>1, <1>2

\* The session timer ends the session, unless it waits for an ACK to hang up.
LEMMA SoundExpiration ==
  ASSUME NEW s, Ready(s), s.expires, "expired" \in Expire, NEW m
  PROVE  LET t == SessionExpiration(s) IN (Calm(s, t, m) \/ Responds(s, t)) /\ Sound(t)
<1> DEFINE u == [s EXCEPT !.expires = FALSE]
           t == SessionExpiration(s)
<1>1. Careful => s.state # "WaitingToHangup"
  BY DEF Ready, Sound, Unhurt
<1>2. /\ u \in Sessions /\ u.state = s.state /\ SameRequest(s, u) /\ u.out = {}
      /\ u.got = s.got /\ u.ok = s.ok /\ u.re200 = s.re200 /\ u.misled = s.misled
      /\ u.propLocal = s.propLocal /\ u.propRemote = s.propRemote /\ u.refresh = s.refresh
      /\ u.bad = s.bad /\ u.owed = s.owed /\ ~u.expires
  BY DEF Ready, Sessions, SameRequest
<1>3. t = end(u)
  BY DEF SessionExpiration
<1> HIDE DEF u, t
<1>4. Fit(u)
  BY <1>2, GoesLike DEF Ready, SameRequest, Same200
<1>5. Sound(u)
  BY <1>1, <1>2 DEF Ready, Sound, Requested, Pending, Repeating, Proposed, Unhurt, SameRequest
<1>6. Ready(u)
  BY <1>2, <1>4, <1>5 DEF Ready, SameRequest
<1>7. (Calm(u, t, m) \/ Responds(u, t)) /\ Sound(t)
  BY <1>1, <1>2, <1>3, <1>6, SoundEnd
<1>8. /\ Calm(u, t, m) => Calm(s, t, m)
      /\ Responds(u, t) => Responds(s, t)
  BY <1>2 DEF Calm, Responds, SameRequest, Onward, Awaits, Kept, Mute
<1> QED BY <1>7, <1>8 DEF t

-----------------------------------------------------------------------------
(* What a handler does to both ends. *)

\* What s and p, with the messages in to s and to to p, have agreed on.
Paired(s, p, in, to, op, op2) == Agreed(s, p, in, to, op) /\ Agreed(p, s, to, in, op2)

\* BYEs and ACKs that were kept disturb nothing.
LEMMA MuteSends ==
  ASSUME NEW w, Fit(w), NEW out, Mute(w, out), NEW t,
         t.state \in Unacked => \A a \in w.acks : a.n < t.cseq
  PROVE  NoOffering(out) /\ Mannered(t, out) /\ \A x \in out : ~isReply(x)
<1>1. ASSUME NEW x \in out
      PROVE  /\ x.method \in {"ACK", "BYE"} /\ x.code = 0
             /\ x.method = "ACK" => x.n < t.cseq \/ t.state \notin Unacked
  <2>1. x \in w.acks \/ (x.method = "BYE" /\ x.code = 0)
    BY DEF Mute
  <2> QED BY <2>1 DEF Fit
<1>2. NoOffering(out) /\ \A x \in out : ~isReply(x)
  BY <1>1 DEF NoOffering, isOffering, isReply
<1> QED BY <1>1, <1>2 DEF Mannered, NoOffering

\* A handler that asks and answers nothing keeps the ends in agreement.
LEMMA PairedCalm ==
  ASSUME NEW s, Ready(s), NEW t, NEW m, Calm(s, t, m), ~t.misled,
         NEW p, NEW in, NEW to, NEW op, NEW op2, Paired(s, p, in, to, op, op2),
         p.cseq \in Nat, m.method = "ACK" => m \in in /\ m.n \in Nat,
         NEW in2, in2 \subseteq in, NEW op3, op3 \subseteq op
  PROVE  Paired(t, p, in2, to \cup t.out, op3, op2) /\ NoOffering(t.out)
<1>1. SameRequest(s, t) /\ Onward(s, t) /\ t.ok = s.ok /\ t.got = s.got
  BY DEF Calm, Kept
<1>2. NoOffering(t.out) /\ Mannered(t, t.out) /\ \A x \in t.out : ~isReply(x)
  <2>1. t.state \in Unacked => \A a \in s.acks : a.n < t.cseq
    BY <1>1 DEF Onward, SameRequest, Ready, Sound, Requested
  <2> QED BY <2>1, MuteSends DEF Calm, Ready
<1>3. Agreed(t, p, in2, to \cup t.out, op3)
  BY <1>1, <1>2, AgreedHolds DEF Paired
<1>4. ASSUME p.state \in {"SentReinviteNoOffer", "SentReinviteAnswered"}, isOk(s.ok),
             s.ok.n = p.cseq, s.state \in Waiters
      PROVE  t.state \in Waiters
  <2>1. SUFFICES ASSUME m.method = "ACK", m.n >= s.ok.n
                 PROVE  FALSE
    BY <1>4 DEF Calm
  <2>2. m.n < p.cseq
    BY <1>4, <2>1 DEF Paired, Agreed, Mannered, Unacked, Asking
  <2> QED BY <1>4, <2>1, <2>2
<1>5. Agreed(p, t, to \cup t.out, in2, op2)
  <2>1. t.state \in Undecided => s.state \in Undecided
    BY DEF Calm
  <2> QED BY <1>1, <1>2, <1>4, <2>1, AgreedPeer DEF Paired
<1> QED BY <1>2, <1>3, <1>5 DEF Paired

\* So does one that takes a final response,
LEMMA PairedCloses ==
  ASSUME NEW s, Ready(s), NEW t, Closes(s, t),
         NEW p, Fit(p), NEW in, NEW to, NEW op, NEW op2, Paired(s, p, in, to, op, op2),
         NEW x \in in, isReply(x), ~isOk(x), x.n = s.cseq
  PROVE  Paired(t, p, in \ {x}, to \cup t.out, {}, op2) /\ NoOffering(t.out)
<1>1. SameRequest(s, t) /\ t.ok = s.ok /\ t.got = s.got /\ s.state \in Awaiting /\ t.state \in Free
  BY DEF Closes, Kept
<1>2. NoOffering(t.out) /\ Mannered(t, t.out) /\ \A y \in t.out : ~isReply(y)
  <2>1. t.state \notin Unacked
    BY <1>1 DEF Free, Unacked, Asking, AskingAgain
  <2> QED BY <2>1, MuteSends DEF Closes, Ready
<1>3. p.ok.method = "INVITE" => isOk(p.ok)
  BY DEF Fit, Ok, isOk, isOffering
<1>4. Agreed(t, p, in \ {x}, to \cup t.out, {})
  BY <1>1, <1>2, <1>3, AgreedClosed DEF Paired
<1>5. Agreed(p, t, to \cup t.out, in \ {x}, op2)
  <2>1. t.state \notin Undecided /\ s.state \notin Waiters
    BY <1>1 DEF Free, Undecided, AskingAgain, Waiters, Awaiting, Asking
  <2> QED BY <1>1, <1>2, <2>1, AgreedPeer DEF Paired
<1> QED BY <1>2, <1>4, <1>5 DEF Paired

\* one that sends a request,
LEMMA PairedRequests ==
  ASSUME NEW s, s.cseq \in Nat, s.state \in Free, NEW t, Requests(s, t), t.sent.n = t.cseq,
         NEW p, NEW in, NEW to, NEW op, NEW op2, Paired(s, p, in, to, op, op2),
         \A m \in to : m.n \in Nat /\ (m.method = "ACK" => m.n <= s.cseq),
         \A m \in in : m.n \in Nat, p.ok.n \in Nat,
         NEW in2, in2 \subseteq in, NEW op3, op3 \subseteq op \cup {t.sent}
  PROVE  Paired(t, p, in2, to \cup t.out, op3, op2)
<1>1. /\ t.acks = s.acks /\ t.out = {t.sent} /\ t.cseq = s.cseq + 1 /\ t.ok = s.ok /\ t.got = s.got
      /\ isOffering(t.sent) /\ t.state \in {"SentUpdate"} \cup Asking
      /\ t.sent.method = "INVITE" /\ OffersOnly => t.sent.sdp # NoSdp
  BY DEF Requests, Kept
<1>2. Agreed(t, p, in2, to \cup t.out, op3)
  BY <1>1, AgreedRequests DEF Paired
<1>3. Agreed(p, t, to \cup t.out, in2, op2)
  <2>1. t.state \notin Undecided /\ s.state \notin Waiters
    BY <1>1 DEF Free, Undecided, AskingAgain, Waiters, Asking
  <2>2. \A x \in t.out : ~isReply(x)
    BY <1>1 DEF isReply, isOffering
  <2> QED BY <1>1, <2>1, <2>2, AgreedPeer DEF Paired
<1> QED BY <1>2, <1>3 DEF Paired

\* A 422: the last request is over, and another goes out.
LEMMA PairedRepeats ==
  ASSUME NEW s, Ready(s), s.state \in Awaiting, NEW t, Requests(s, t), t.sent.n = t.cseq,
         NEW p, Fit(p), NEW in, NEW to, NEW op, NEW op2, Paired(s, p, in, to, op, op2),
         \A m \in to : m.n \in Nat /\ (m.method = "ACK" => m.n <= s.cseq),
         \A m \in in : m.n \in Nat, p.ok.n \in Nat,
         NEW x \in in, isReply(x), ~isOk(x), x.n = s.cseq,
         NEW op3, op3 \subseteq {t.sent}
  PROVE  Paired(t, p, in \ {x}, to \cup t.out, op3, op2)
<1> DEFINE w == [s EXCEPT !.state = "Connected"]
<1>1. /\ w.state = "Connected" /\ SameRequest(s, w) /\ w.out = {} /\ w.got = s.got /\ w.ok = s.ok
      /\ w.misled = s.misled
  BY DEF Ready, Sessions, SameRequest
<1> HIDE DEF w
<1>2. Closes(s, w)
  BY <1>1 DEF Closes, Kept, Mute, Free
<1>3. Paired(w, p, in \ {x}, to, {}, op2)
  <2>1. to \cup w.out = to
    BY <1>1
  <2> QED BY <1>2, <2>1, PairedCloses
<1>4. Requests(w, t) /\ w.state \in Free /\ w.cseq = s.cseq /\ w.cseq \in Nat
  BY <1>1 DEF Requests, Kept, SameRequest, Free, Ready
<1> QED BY <1>3, <1>4, PairedRequests

\* one that sends the ACK of a re-INVITE,
LEMMA PairedAcks ==
  ASSUME NEW s, NEW t, Fit(t), Acks(s, t),
         NEW p, NEW in, NEW to, NEW op, NEW op2, Paired(s, p, in, to, op, op2),
         NEW x \in Outcomes(p, in), x.n = s.cseq, NEW in2, in2 \subseteq in
  PROVE  Paired(t, p, in2, to \cup t.out, {}, op2) /\ NoOffering(t.out)
<1>1. /\ t.cseq = s.cseq /\ t.sent = s.sent /\ t.ok = s.ok /\ t.got = s.got
      /\ \A a \in s.acks : \E b \in t.acks : b.n = a.n
      /\ \E a \in t.acks : a.n = s.cseq
      /\ s.state \in Unacked /\ t.state \in {"Connected", "Terminated"}
  BY DEF Acks, Kept
<1>2. NoOffering(t.out) /\ Mannered(t, t.out) /\ \A y \in t.out : ~isReply(y)
  <2>1. t.state \notin Unacked
    BY <1>1 DEF Unacked, Asking
  <2> QED BY <2>1, MuteSends DEF Acks
<1>3. Agreed(t, p, in2, to \cup t.out, {})
  BY <1>1, <1>2, AgreedAcks DEF Paired
<1>4. Agreed(p, t, to \cup t.out, in2, op2)
  <2>1. t.state \notin Undecided /\ s.state \notin Waiters
    BY <1>1 DEF Undecided, Waiters, Unacked, Asking
  <2> QED BY <1>1, <1>2, <2>1, AgreedPeer DEF Paired
<1> QED BY <1>2, <1>3, <1>4 DEF Paired

\* one that takes the offer it asked for,
LEMMA PairedGets ==
  ASSUME NEW s, s.cseq \in Nat, NEW t, Gets(s, t),
         NEW p, p.ok.n \in Nat, NEW in, NEW to, NEW op, NEW op2, Paired(s, p, in, to, op, op2),
         NEW x \in in, isOk(x), x.n = s.cseq, NEW in2, in2 \subseteq in
  PROVE  Paired(t, p, in2, to \cup t.out, {}, op2) /\ NoOffering(t.out)
<1>1. /\ SameRequest(s, t) /\ t.ok = s.ok /\ t.got = s.got /\ t.out = {}
      /\ s.state = "SentReinviteNoOffer" /\ t.state = "SentReinviteAnswered"
  BY DEF Gets, Kept
<1>2. Agreed(t, p, in2, to \cup t.out, {})
  <2>1. Agreed(t, p, in2, to, {})
    BY <1>1, AgreedAnswered DEF Paired
  <2> QED BY <1>1, <2>1
<1>3. Agreed(p, t, to \cup t.out, in2, op2)
  <2>1. t.state \notin Undecided /\ s.state \notin Waiters
    BY <1>1 DEF Undecided, Waiters
  <2> QED BY <1>1, <2>1, AgreedPeer DEF Paired
<1> QED BY <1>1, <1>2, <1>3 DEF Paired, NoOffering

\* The request m is answered at once, by s or on its way.
LEMMA PairedDeclines ==
  ASSUME NEW s, Ready(s), NEW t, SameRequest(s, t), Onward(s, t), t.ok = s.ok,
         t.state \notin Undecided,
         NEW p, Requested(p), p.cseq \in Nat,
         NEW in, NEW to, NEW op, NEW op2, Paired(s, p, in, to, op, op2),
         NEW m \in in, isOffering(m), NEW out, NEW y \in out,
         isReply(y), ~isOk(y), y.n = m.n, Mute(s, out \ {y})
  PROVE  Paired(t, p, in \ {m}, to \cup out, op, op2) /\ NoOffering(out)
<1>1. NoOffering(out \ {y}) /\ Mannered(t, out \ {y}) /\ \A x \in out \ {y} : ~isReply(x)
  <2>1. t.state \in Unacked => \A a \in s.acks : a.n < t.cseq
    BY DEF Onward, SameRequest, Ready, Sound, Requested
  <2> QED BY <2>1, MuteSends DEF Ready
<1>2. NoOffering(out) /\ Mannered(t, out) /\ \A x \in out : x = y \/ ~isReply(x)
  <2>1. y.method \in {"INVITE", "UPDATE"} /\ y.code # 0
    BY DEF isReply
  <2> QED BY <1>1, <2>1 DEF NoOffering, Mannered, isOffering
<1>3. Agreed(t, p, in \ {m}, to \cup out, op)
  BY <1>2, AgreedHolds DEF Paired
<1>4. Agreed(p, t, to \cup out, in \ {m}, op2)
  BY <1>2, AgreedDeclines DEF Paired, Requested
<1> QED BY <1>2, <1>3, <1>4 DEF Paired

\* one that hands a request to the application,
LEMMA PairedTakes ==
  ASSUME NEW s, NEW t, NEW m, TakesUp(s, t, m), isOffering(m),
         NEW p, Requested(p),
         NEW in, NEW to, NEW op, NEW op2, Paired(s, p, in, to, op, op2), m \in in
  PROVE  Paired(t, p, in \ {m}, to \cup t.out, op, op2) /\ NoOffering(t.out)
<1>1. /\ SameRequest(s, t) /\ t.ok = s.ok /\ t.got = m /\ t.out = {}
      /\ s.state \in Free /\ t.state \in Undecided
  BY DEF TakesUp
<1>2. Onward(s, t)
  BY <1>1 DEF Onward, Free, AskingAgain, Undecided, Awaits, Awaiting, Unacked, Asking
<1>3. Agreed(t, p, in \ {m}, to \cup t.out, op)
  <2>1. NoOffering(t.out) /\ Mannered(t, t.out)
    BY <1>1 DEF NoOffering, Mannered
  <2> QED BY <1>1, <1>2, <2>1, AgreedHolds DEF Paired
<1>4. Agreed(p, t, to \cup t.out, in \ {m}, op2)
  <2>1. Agreed(p, t, to, in \ {m}, op2)
    BY <1>1, AgreedTakes DEF Paired, Requested
  <2> QED BY <1>1, <2>1
<1> QED BY <1>1, <1>3, <1>4 DEF Paired, NoOffering

\* and one that answers the request of the peer.
LEMMA PairedResponds ==
  ASSUME NEW s, Ready(s), NEW t, Responds(s, t),
         NEW p, Requested(p), p.cseq \in Nat,
         NEW in, NEW to, NEW op, NEW op2, Paired(s, p, in, to, op, op2)
  PROVE  Paired(t, p, in, to \cup t.out, op, op2) /\ NoOffering(t.out)
<1>1. /\ SameRequest(s, t) /\ t.got = s.got
      /\ s.state \in Undecided /\ t.state \in {"Connected", "ReceivedReinviteSentOffer", "Terminated"}
  BY DEF Responds
<1>2. PICK y \in t.out :
        /\ isReply(y) /\ y.n = s.got.n /\ (isOk(y) => s.got.method = "INVITE")
        /\ IF isOk(y) THEN t.ok = y ELSE t.ok = s.ok
        /\ Mute(s, t.out \ {y})
        /\ isOk(y) => t.state \in Waiters \/ s.got.sdp # NoSdp
  BY DEF Responds
<1>3. Onward(s, t) /\ t.state \notin Unacked \cup Undecided /\ ~Awaits(s)
  BY <1>1 DEF Onward, Undecided, Awaits, Awaiting, Unacked, Asking
<1>4. NoOffering(t.out) /\ Mannered(t, t.out) /\ \A x \in t.out : x = y \/ ~isReply(x)
  <2>1. NoOffering(t.out \ {y}) /\ Mannered(t, t.out \ {y}) /\ \A x \in t.out \ {y} : ~isReply(x)
    BY <1>2, <1>3, MuteSends DEF Ready
  <2>2. y.method \in {"INVITE", "UPDATE"} /\ y.code # 0
    BY <1>2 DEF isReply
  <2> QED BY <2>1, <2>2 DEF NoOffering, Mannered, isOffering
<1>5. Agreed(t, p, in, to \cup t.out, op)
  BY <1>1, <1>3, <1>4, AgreedHolds DEF Paired
<1>6. NoOffering(to)
  BY <1>3 DEF Paired, Agreed, Mannered, NoOffering
<1>7. p.state \in {"SentReinviteNoOffer", "SentReinviteAnswered"} /\ isOk(y) => t.state \in Waiters
  <2>1. s.got = p.sent /\ Awaits(p)
    BY <1>1 DEF Paired, Agreed, Decides
  <2>2. p.state # "SentReinviteAnswered"
    BY <2>1 DEF Awaits, Awaiting, Asking
  <2>3. p.state = "SentReinviteNoOffer" => p.sent.sdp = NoSdp
    BY DEF Requested, Empty
  <2> QED BY <1>2, <2>1, <2>2, <2>3
<1>8. Agreed(p, t, to \cup t.out, in, op2)
  BY <1>1, <1>2, <1>3, <1>4, <1>6, <1>7, AgreedResponds DEF Paired
<1> QED BY <1>4, <1>5, <1>8 DEF Paired

\* A 200 is sent once more.
LEMMA PairedRetransmits ==
  ASSUME NEW s, isOk(s.ok),
         NEW p, NEW in, NEW to, NEW op, NEW op2, Paired(s, p, in, to, op, op2)
  PROVE  Paired(s, p, in, to \cup {s.ok}, op, op2)
<1>1. s.ok.method = "INVITE" /\ s.ok.code = 200 /\ ~isOffering(s.ok)
  BY DEF isOk, isOffering
<1>2. Agreed(s, p, in, to \cup {s.ok}, op)
  <2>1. NoOffering({s.ok}) /\ Mannered(s, {s.ok}) /\ SameRequest(s, s) /\ Onward(s, s)
    BY <1>1 DEF NoOffering, Mannered, SameRequest, Onward
  <2> QED BY <2>1, AgreedHolds DEF Paired
<1>3. Agreed(p, s, to \cup {s.ok}, in, op2)
  <2>1. Outcomes(s, to \cup {s.ok}) = Outcomes(s, to)
    BY <1>1 DEF Outcomes
  <2>2. AllConcluded(p, s, to \cup {s.ok}, in)
    BY <2>1 DEF Paired, Agreed, AllConcluded, Concluded
  <2>3. Due(p, s, to \cup {s.ok})
    BY <1>1 DEF Paired, Agreed, Due, NoOffering
  <2> QED BY <2>2, <2>3 DEF Paired, Agreed
<1> QED BY <1>2, <1>3 DEF Paired

\* Fewer messages come, and transactions are closed.
LEMMA PairedLess ==
  ASSUME NEW s, NEW p, NEW in, NEW to, NEW op, NEW op2, Paired(s, p, in, to, op, op2),
         NEW in2, in2 \subseteq in, NEW op3, op3 \subseteq op
  PROVE  Paired(s, p, in2, to, op3, op2)
<1>1. Agreed(s, p, in2, to, op3)
  <2>1. SameRequest(s, s) /\ Onward(s, s) /\ NoOffering({}) /\ Mannered(s, {}) /\ to \cup {} = to
    BY DEF SameRequest, Onward, NoOffering, Mannered
  <2> HIDE DEF SameRequest, Onward, NoOffering, Mannered
  <2> QED BY <2>1, AgreedHolds DEF Paired
<1>2. Agreed(p, s, to, in2, op2)
  <2>1. to \cup {} = to /\ NoOffering({}) /\ \A x \in {} : ~isReply(x)
    BY DEF NoOffering
  <2>2. Agreed(p, s, to \cup {}, in2, op2)
    BY <2>1, AgreedPeer DEF Paired
  <2> QED BY <2>1, <2>2
<1> QED BY <1>1, <1>2 DEF Paired

-----------------------------------------------------------------------------
(* The actions again. *)

\* What has been sent makes no difference.
LEMMA EmptiedSound ==
  ASSUME NEW t \in Sessions
  PROVE  LET u == [t EXCEPT !.out = {}]
         IN  /\ Sound(t) => Sound(u)
             /\ \A p, in, to, op, op2 :
                  Paired(t, p, in, to, op, op2) => Paired(u, p, in, to, op, op2)
             /\ u.misled = t.misled
<1> DEFINE u == [t EXCEPT !.out = {}]
<1>1. /\ u.state = t.state /\ SameRequest(t, u) /\ u.got = t.got /\ u.ok = t.ok /\ u.re200 = t.re200
      /\ u.propRemote = t.propRemote /\ u.expires = t.expires /\ u.bad = t.bad /\ u.misled = t.misled
  BY DEF Sessions, SameRequest
<1> HIDE DEF u
<1>2. Sound(t) => Sound(u)
  BY <1>1 DEF Sound, Requested, Pending, Repeating, Proposed, Unhurt, SameRequest
<1>3. ASSUME NEW p, NEW in, NEW to, NEW op, NEW op2, Paired(t, p, in, to, op, op2)
      PROVE  Paired(u, p, in, to, op, op2)
  <2>1. Agreed(u, p, in, to, op)
    <3>1. Onward(t, u) /\ NoOffering({}) /\ Mannered(u, {}) /\ to \cup {} = to
      BY <1>1 DEF Onward, NoOffering, Mannered, Awaits
    <3> QED BY <1>1, <1>3, <3>1, AgreedHolds DEF Paired
  <2>2. Agreed(p, u, to, in, op2)
    <3>1. to \cup {} = to /\ NoOffering({}) /\ \A x \in {} : ~isReply(x)
      BY DEF NoOffering
    <3>2. Agreed(p, u, to \cup {}, in, op2)
      BY <1>1, <1>3, <3>1, AgreedPeer DEF Paired
    <3> QED BY <3>1, <3>2
  <2> QED BY <2>1, <2>2 DEF Paired
<1> QED BY <1>1, <1>2, <1>3 DEF u

\* The setup does not change.
LEMMA SoundSetup ==
  ASSUME UNCHANGED setup, NEW ss, NEW nn, NEW oo
  PROVE  /\ Patient' <=> Patient
         /\ AllSound(ss, nn, oo) => AllSound(ss, nn, oo)'
<1>1. /\ Rejects' = Rejects /\ Kinds' = Kinds /\ Ends' = Ends /\ Expire' = Expire
  BY DEF Rejects, Kinds, Ends, Expire
<1>2. Patient' <=> Patient
  BY <1>1 DEF Patient
<1>3. /\ Careful' <=> Careful
      /\ OffersOnly' <=> OffersOnly
      /\ Leftovers' <=> Leftovers
  BY <1>1 DEF Careful, OffersOnly, Leftovers
<1>4. \A s : Sound(s) => Sound(s)'
  BY <1>1, <1>3 DEF Sound, Requested, Pending, Repeating, Proposed, Unhurt
<1>5. \A s, p, in, to, op : Agreed(s, p, in, to, op) => Agreed(s, p, in, to, op)'
  BY <1>3 DEF Agreed, Opened, Mannered, Decides, AllConcluded, Concluded, Due
<1> QED BY <1>2, <1>4, <1>5 DEF AllSound

\* The two ends, seen from one of them.
LEMMA SoundParts ==
  ASSUME IInv, AllSound(session, net, open), NEW e \in End
  PROVE  LET s == session[e]
             p == session[other(e)]
             to == net[other(e)]
         IN  /\ Ready(s) /\ Ready(p) /\ p.ok.n \in Nat
             /\ Paired(s, p, net[e], to, open[e], open[other(e)])
             /\ \A m \in to : m \in Messages /\ m.n \in Nat /\ (m.method = "ACK" => m.n <= s.cseq)
             /\ \A m \in net[e] : m \in Messages /\ m.n \in Nat /\ OnItsWay(m, p)
             /\ \A r \in open[e] : r \in Messages /\ isOffering(r)
<1>1. other(e) \in End /\ other(other(e)) = e
  BY Others
<1>2. /\ EndsFit(session) /\ NetFits(session, net) /\ OpenFits(open)
      /\ \A d \in End : Fit(session[d]) /\ session[d] \in Sessions /\ session[d].cseq \in Nat
  BY InvParts DEF DialogFits
<1>3. \A d \in End : Ready(session[d])
  BY <1>2 DEF Ready, EndsFit, AllSound
<1>4. session[other(e)].ok.n \in Nat
  BY <1>1, <1>3, KeptAcks
<1>5. Paired(session[e], session[other(e)], net[e], net[other(e)], open[e], open[other(e)])
  BY <1>1 DEF Paired, AllSound
<1>6. \A d \in End : \A m \in net[d] : m \in Messages /\ m.n \in Nat
  BY <1>2, MessageTypes DEF NetFits
<1>7. \A m \in net[e] : OnItsWay(m, session[other(e)])
  BY <1>1, <1>2 DEF NetFits
<1>8. \A m \in net[other(e)] : m.method = "ACK" => m.n <= session[e].cseq
  BY <1>1, <1>2, <1>6 DEF NetFits, OnItsWay, Before
<1>9. \A r \in open[e] : r \in Messages /\ isOffering(r)
  BY <1>2 DEF OpenFits
<1> QED BY <1>1, <1>3, <1>4, <1>5, <1>6, <1>7, <1>8, <1>9

\* The requests that e waits for after it has sent out.
Waiting(e, closed, out) == (open[e] \ closed) \cup {m \in out : isOffering(m)}

\* A step of one end: what its handler keeps of the agreement is kept.
LEMMA StepSound ==
  ASSUME IInv, JInv, NEW e \in End, NEW t, Follows(session[e], t),
         NEW gone, NEW closed, Step(e, t, gone, closed),
         Patient /\ AllSound(session, net, open) /\ ~t.misled =>
           /\ Sound(t)
           /\ Paired(t, session[other(e)], net[e] \ gone, net[other(e)] \cup t.out,
                     Waiting(e, closed, t.out), open[other(e)])
  PROVE  JInv'
<1> DEFINE s == session[e]
           p == session[other(e)]
           u == [t EXCEPT !.out = {}]
<1>1. /\ UNCHANGED setup
      /\ session' = [session EXCEPT ![e] = u]
      /\ net' = [net EXCEPT ![e] = @ \ gone, ![other(e)] = @ \cup t.out]
      /\ open' = [open EXCEPT ![e] = Waiting(e, closed, t.out)]
  BY DEF Step, Waiting
<1>2. other(e) \in End /\ other(e) # e /\ other(other(e)) = e /\ \A d \in End : d = e \/ d = other(e)
  BY Others
<1>3. /\ session \in [End -> Sessions] /\ net \in [End -> SUBSET Messages]
      /\ open \in [End -> SUBSET Messages]
  BY InvParts DEF DialogFits, EndsFit, NetFits, OpenFits
<1>4. t \in Sessions /\ (s.misled => t.misled)
  BY DEF Follows, Fit
<1>5. /\ Sound(t) => Sound(u)
      /\ \A q, in, to, op, op2 : Paired(t, q, in, to, op, op2) => Paired(u, q, in, to, op, op2)
      /\ u.misled = t.misled
  BY <1>4, EmptiedSound
<1> HIDE DEF u
<1>6. session'[e] = u /\ session'[other(e)] = p
  BY <1>1, <1>2, <1>3
<1>7. /\ net'[e] = net[e] \ gone /\ net'[other(e)] = net[other(e)] \cup t.out
      /\ open'[e] = Waiting(e, closed, t.out) /\ open'[other(e)] = open[other(e)]
  BY <1>1, <1>2, <1>3
<1> SUFFICES ASSUME Patient', AcksInTurn'
             PROVE  AllSound(session, net, open)'
  BY DEF JInv
<1>8. Patient
  BY <1>1, SoundSetup
<1>9. ~t.misled /\ AcksInTurn
  <2>1. \A d \in End : ~session'[d].misled
    BY DEF AcksInTurn
  <2> QED BY <1>2, <1>4, <1>5, <1>6, <2>1 DEF AcksInTurn
<1>10. AllSound(session, net, open)
  BY <1>8, <1>9 DEF JInv
<1>11. Sound(u) /\ Sound(p)
  BY <1>2, <1>5, <1>8, <1>9, <1>10 DEF AllSound
<1>12. Paired(u, p, net'[e], net'[other(e)], open'[e], open'[other(e)])
  BY <1>5, <1>7, <1>8, <1>9, <1>10
<1>13. AllSound(session', net', open')
  BY <1>2, <1>6, <1>11, <1>12 DEF AllSound, Paired
<1> QED BY <1>1, <1>13, SoundSetup

\* The network does something.
LEMMA NetSound ==
  ASSUME JInv, NEW e \in End, UNCHANGED <<setup, session, open>>,
         Patient /\ AllSound(session, net, open) =>
           Paired(session[e], session[other(e)], net'[e], net'[other(e)], open[e], open[other(e)])
  PROVE  JInv'
<1>1. other(e) \in End /\ other(other(e)) = e /\ \A d \in End : d = e \/ d = other(e)
  BY Others
<1> SUFFICES ASSUME Patient', AcksInTurn'
             PROVE  AllSound(session, net, open)'
  BY DEF JInv
<1>2. Patient /\ AcksInTurn
  BY SoundSetup DEF AcksInTurn
<1>3. AllSound(session, net, open)
  BY <1>2 DEF JInv
<1>4. Paired(session[e], session[other(e)], net'[e], net'[other(e)], open[e], open[other(e)])
  BY <1>2, <1>3
<1>5. AllSound(session', net', open')
  <2>1. AllSound(session, net', open)
    BY <1>1, <1>3, <1>4 DEF AllSound, Paired
  <2> QED BY <2>1
<1> QED BY <1>5, SoundSetup

\* No request waits in addition.
LEMMA WaitingFor ==
  ASSUME NEW e, NEW closed, NEW out, NoOffering(out)
  PROVE  Waiting(e, closed, out) = open[e] \ closed
BY DEF Waiting, NoOffering

\* A handler at rest.
LEMMA CalmSound ==
  ASSUME IInv, JInv, NEW e \in End, NEW t, Follows(session[e], t),
         NEW gone, NEW closed, Step(e, t, gone, closed), NEW m,
         Patient /\ AllSound(session, net, open) =>
           /\ Sound(t)
           /\ Calm(session[e], t, m) \/ (Responds(session[e], t) /\ gone = {} /\ closed = {})
           /\ m.method = "ACK" => m \in net[e]
  PROVE  JInv'
<1> DEFINE s == session[e]
           p == session[other(e)]
<1> SUFFICES ASSUME Patient, AllSound(session, net, open), ~t.misled
             PROVE  /\ Sound(t)
                    /\ Paired(t, p, net[e] \ gone, net[other(e)] \cup t.out,
                              Waiting(e, closed, t.out), open[other(e)])
  BY StepSound
<1>1. /\ Ready(s) /\ Ready(p)
      /\ Paired(s, p, net[e], net[other(e)], open[e], open[other(e)])
      /\ \A x \in net[e] : x.n \in Nat
  BY SoundParts
<1>2. Requested(p) /\ p.cseq \in Nat
  BY <1>1 DEF Ready, Sound
<1>3. CASE Calm(s, t, m)
  <2>1. m.method = "ACK" => m \in net[e] /\ m.n \in Nat
    BY <1>1
  <2>2. net[e] \ gone \subseteq net[e] /\ open[e] \ closed \subseteq open[e]
    OBVIOUS
  <2>3. /\ Paired(t, p, net[e] \ gone, net[other(e)] \cup t.out, open[e] \ closed, open[other(e)])
        /\ NoOffering(t.out)
    BY <1>1, <1>2, <1>3, <2>1, <2>2, PairedCalm
  <2>4. Waiting(e, closed, t.out) = open[e] \ closed
    BY <2>3, WaitingFor
  <2> QED BY <2>3, <2>4
<1>4. CASE Responds(s, t) /\ gone = {} /\ closed = {}
  <2>1. /\ Paired(t, p, net[e], net[other(e)] \cup t.out, open[e], open[other(e)])
        /\ NoOffering(t.out)
    BY <1>1, <1>2, <1>4, PairedResponds
  <2>2. net[e] \ gone = net[e] /\ open[e] \ closed = open[e]
    BY <1>4
  <2> QED BY <2>1, <2>2, WaitingFor
<1> QED BY <1>3, <1>4

\* A request goes out.
LEMMA RequestSound ==
  ASSUME IInv, JInv, NEW e \in End, NEW t, Follows(session[e], t), Step(e, t, {}, {}),
         Patient /\ AllSound(session, net, open) =>
           Sound(t) /\ session[e].state \in Free /\ Requests(session[e], t)
  PROVE  JInv'
<1> DEFINE s == session[e]
           p == session[other(e)]
<1> SUFFICES ASSUME Patient, AllSound(session, net, open), ~t.misled
             PROVE  /\ Sound(t)
                    /\ Paired(t, p, net[e] \ {}, net[other(e)] \cup t.out,
                              Waiting(e, {}, t.out), open[other(e)])
  BY StepSound
<1>1. /\ Ready(s) /\ p.ok.n \in Nat
      /\ Paired(s, p, net[e], net[other(e)], open[e], open[other(e)])
      /\ \A m \in net[other(e)] : m.n \in Nat /\ (m.method = "ACK" => m.n <= s.cseq)
      /\ \A m \in net[e] : m.n \in Nat
  BY SoundParts
<1>2. t.sent.n = t.cseq /\ t.out = {t.sent}
  BY DEF Sound, Requested, Requests
<1>3. net[e] \ {} \subseteq net[e] /\ Waiting(e, {}, t.out) \subseteq open[e] \cup {t.sent}
  BY <1>2 DEF Waiting
<1> QED BY <1>1, <1>2, <1>3, PairedRequests DEF Ready

\* The application offers, asks for an offer or refreshes.
LEMMA AskSound ==
  ASSUME IInv, JInv, NEW e \in End, Ask(e)
  PROVE  JInv'
<1> DEFINE s == session[e]
           offer == Sdp(e, e, s.cseq + 1)
<1>1. /\ s.cseq < MaxMods /\ s.state = "Connected"
      /\ \/ Step(e, provideOffer(s, offer), {}, {})
         \/ "request" \in Kinds /\ Step(e, requestOffer(s), {}, {})
         \/ "refresh" \in Kinds /\ Step(e, sessionRefresh(s), {}, {})
  BY DEF Ask
<1>2. Fit(s) /\ s.cseq + 1 \in 0..MaxMods
  BY <1>1, InvParts
<1>3. offer \in Sdps \ {NoSdp}
  BY <1>2, SdpTypes
<1> HIDE DEF offer
<1>4. Patient /\ AllSound(session, net, open) => Ready(s)
  BY SoundParts
<1>5. s.state \in Free
  BY <1>1 DEF Free
<1>6. CASE Step(e, provideOffer(s, offer), {}, {})
  <2>1. Follows(s, provideOffer(s, offer))
    BY <1>1, <1>2, <1>3, GoesProvideOffer DEF Goes
  <2>2. Ready(s) => Requests(s, provideOffer(s, offer)) /\ Sound(provideOffer(s, offer))
    BY <1>1, <1>3, SoundProvideOffer
  <2> QED BY <1>4, <1>5, <1>6, <2>1, <2>2, RequestSound
<1>7. CASE "request" \in Kinds /\ Step(e, requestOffer(s), {}, {})
  <2>1. Follows(s, requestOffer(s))
    BY <1>1, <1>2, GoesRequestOffer DEF Goes
  <2>2. Ready(s) => Requests(s, requestOffer(s)) /\ Sound(requestOffer(s))
    BY <1>1, <1>7, SoundRequestOffer DEF OffersOnly, Careful
  <2> QED BY <1>4, <1>5, <1>7, <2>1, <2>2, RequestSound
<1>8. CASE "refresh" \in Kinds /\ Step(e, sessionRefresh(s), {}, {})
  <2>1. Follows(s, sessionRefresh(s))
    BY <1>1, <1>2, <1>8, GoesRefresh DEF Goes
  <2>2. Ready(s) => Requests(s, sessionRefresh(s)) /\ Sound(sessionRefresh(s))
    BY <1>1, SoundRefresh
  <2> QED BY <1>4, <1>5, <1>8, <2>1, <2>2, RequestSound
<1> QED BY <1>1, <1>6, <1>7, <1>8

\* The glare timer fires.
LEMMA GlareSound ==
  ASSUME IInv, JInv, NEW e \in End, GlareTimeout(e)
  PROVE  JInv'
<1> DEFINE s == session[e]
           t == Glare(s)
<1>1. s.glare > 0 /\ s.cseq < MaxMods /\ Step(e, t, {}, {})
  BY DEF GlareTimeout
<1>2. Fit(s)
  BY InvParts
<1>3. Follows(s, t)
  BY <1>1, <1>2, GoesAgain DEF Goes
<1>4. PICK none : none = Request(None, 0, NoSdp)
  OBVIOUS
<1>5. none.method # "ACK"
  BY <1>4 DEF Request, None
<1>6. Patient /\ AllSound(session, net, open) => Ready(s)
  BY SoundParts
<1>7. Ready(s) => Sound(t) /\ (Calm(s, t, none) \/ (s.state \in Free /\ Requests(s, t)))
  BY SoundGlare
<1> HIDE DEF t
<1>8. CASE Ready(s) /\ s.state \in Free /\ Requests(s, t)
  BY <1>1, <1>3, <1>7, <1>8, RequestSound
<1>9. CASE Ready(s) => Calm(s, t, none)
  BY <1>1, <1>3, <1>5, <1>6, <1>7, <1>9, CalmSound
<1> QED BY <1>7, <1>8, <1>9

\* The application answers or rejects.
LEMMA AnswerSound ==
  ASSUME IInv, JInv, NEW e \in End, Answer(e)
  PROVE  JInv'
<1> DEFINE s == session[e]
           p == session[other(e)]
<1>1. Fit(s) /\ s.got.n \in 0..MaxMods /\ s.sent.n \in 0..MaxMods
  BY InvParts, FieldTypes, MessageTypes
<1>2. other(e) \in End /\ e \in End
  BY Others
<1>3. PICK none : none = Request(None, 0, NoSdp)
  OBVIOUS
<1>4. none.method # "ACK"
  BY <1>3 DEF Request, None
<1>5. Patient /\ AllSound(session, net, open) => Ready(s)
  BY SoundParts
<1>6. CASE s.state \in {"ReceivedReinvite", "ReceivedUpdate"}
           /\ Step(e, provideAnswer(s, Sdp(e, other(e), s.got.n)), {}, {})
  <2> DEFINE answer == Sdp(e, other(e), s.got.n)
             t == provideAnswer(s, answer)
  <2>1. answer \in Sdps \ {NoSdp}
    BY <1>1, <1>2, SdpTypes
  <2> HIDE DEF answer
  <2>2. Follows(s, t)
    BY <1>1, <1>6, <2>1, GoesProvideAnswer DEF Goes, Answers, ToAnswer
  <2>3. Ready(s) => Responds(s, t) /\ Sound(t)
    BY <1>6, SoundProvideAnswer DEF ToAnswer
  <2>4. Step(e, t, {}, {})
    BY <1>6 DEF answer
  <2> HIDE DEF t
  <2> QED BY <1>4, <1>5, <2>2, <2>3, <2>4, CalmSound
<1>7. CASE s.state = "SentReinviteAnswered"
           /\ Step(e, provideAnswer(s, Sdp(e, e, s.sent.n)), {}, {})
  <2> DEFINE answer == Sdp(e, e, s.sent.n)
             t == provideAnswer(s, answer)
  <2>1. answer \in Sdps \ {NoSdp}
    BY <1>1, <1>2, SdpTypes
  <2> HIDE DEF answer
  <2>2. Follows(s, t)
    BY <1>1, <1>7, <2>1, GoesProvideAnswer DEF Goes, Answers, ToAnswer
  <2>3. Ready(s) => Acks(s, t) /\ Sound(t)
    BY <1>7, SoundProvideAnswer DEF ToAnswer
  <2>4. Step(e, t, {}, {})
    BY <1>7 DEF answer
  <2> HIDE DEF t
  <2> SUFFICES ASSUME Patient, AllSound(session, net, open), ~t.misled
               PROVE  /\ Sound(t)
                      /\ Paired(t, p, net[e] \ {}, net[other(e)] \cup t.out,
                                Waiting(e, {}, t.out), open[other(e)])
    BY <2>2, <2>4, StepSound
  <2>5. /\ Ready(s) /\ Paired(s, p, net[e], net[other(e)], open[e], open[other(e)])
    BY SoundParts
  <2>6. isOk(p.ok) /\ p.ok.n = s.cseq /\ open[e] = {}
    <3>1. ~Awaits(s)
      BY <1>7 DEF Awaits, Awaiting, Asking
    <3> QED BY <1>7, <2>5, <3>1 DEF Paired, Agreed, Due, Opened
  <2>7. p.ok \in Outcomes(p, net[e])
    BY <2>6 DEF Outcomes, isOk
  <2>8. net[e] \ {} \subseteq net[e] /\ Fit(t)
    BY <2>2 DEF Follows
  <2>9. /\ Paired(t, p, net[e] \ {}, net[other(e)] \cup t.out, {}, open[other(e)])
        /\ NoOffering(t.out)
    BY <2>3, <2>5, <2>6, <2>7, <2>8, PairedAcks
  <2>10. Waiting(e, {}, t.out) = {}
    BY <2>6, <2>9 DEF Waiting, NoOffering
  <2> QED BY <2>3, <2>5, <2>9, <2>10
<1>8. CASE s.state = "ReceivedReinviteNoOffer"
           /\ Step(e, provideOffer(s, Sdp(e, other(e), s.got.n)), {}, {})
  <2> DEFINE answer == Sdp(e, other(e), s.got.n)
             t == provideOffer(s, answer)
  <2>1. answer \in Sdps \ {NoSdp}
    BY <1>1, <1>2, SdpTypes
  <2> HIDE DEF answer
  <2>2. Follows(s, t)
    BY <1>1, <1>8, <2>1, GoesProvideOffer DEF Goes, Answers
  <2>3. Ready(s) => Responds(s, t) /\ Sound(t)
    BY <1>8, SoundOfferBack
  <2>4. Step(e, t, {}, {})
    BY <1>8 DEF answer
  <2> HIDE DEF t
  <2> QED BY <1>4, <1>5, <2>2, <2>3, <2>4, CalmSound
<1>9. CASE s.state \in Undecided /\ Rejects /\ Step(e, reject(s), {}, {})
  <2>1. Follows(s, reject(s))
    BY <1>1, <1>9, GoesReject DEF Goes
  <2>2. Ready(s) => Responds(s, reject(s)) /\ Sound(reject(s))
    BY <1>9, SoundReject
  <2> QED BY <1>4, <1>5, <1>9, <2>1, <2>2, CalmSound
<1> QED BY <1>6, <1>7, <1>8, <1>9 DEF Answer

\* The application or the session timer ends the session.
LEMMA EndSound ==
  ASSUME IInv, JInv, NEW e \in End, HangUp(e) \/ SessionExpired(e)
  PROVE  JInv'
<1> DEFINE s == session[e]
<1>1. Fit(s)
  BY InvParts
<1>2. PICK none : none = Request(None, 0, NoSdp)
  OBVIOUS
<1>3. none.method # "ACK"
  BY <1>2 DEF Request, None
<1>4. Patient /\ AllSound(session, net, open) => Ready(s)
  BY SoundParts
<1>5. CASE HangUp(e)
  <2>1. Ends /\ s.state # "WaitingToHangup" /\ Step(e, end(s), {}, {})
    BY <1>5 DEF HangUp, isTerminated
  <2>2. Follows(s, end(s))
    BY <1>1, GoesEnd DEF Goes
  <2>3. Ready(s) => (Calm(s, end(s), none) \/ Responds(s, end(s))) /\ Sound(end(s))
    BY <2>1, SoundEnd DEF Careful
  <2> QED BY <1>3, <1>4, <2>1, <2>2, <2>3, CalmSound
<1>6. CASE SessionExpired(e)
  <2> DEFINE t == SessionExpiration(s)
  <2>1. "expired" \in Expire /\ s.expires /\ Step(e, t, {}, {})
    BY <1>6 DEF SessionExpired
  <2>2. Follows(s, t)
    BY <1>1, GoesExpired DEF Goes
  <2>3. Ready(s) => (Calm(s, t, none) \/ Responds(s, t)) /\ Sound(t)
    BY <2>1, SoundExpiration
  <2> HIDE DEF t
  <2> QED BY <1>3, <1>4, <2>1, <2>2, <2>3, CalmSound
<1> QED BY <1>5, <1>6

\* The two waits do not run out where the setup is careful.
LEMMA PatientSound ==
  ASSUME IInv, JInv, NEW e \in End, AckTimeout(e) \/ StaleTimeout(e)
  PROVE  JInv'
<1>1. "ack" \in Expire \/ "stale" \in Expire
  BY DEF AckTimeout, StaleTimeout
<1>2. UNCHANGED setup
  BY DEF AckTimeout, StaleTimeout, Step
<1>3. ~Patient'
  BY <1>1, <1>2, SoundSetup DEF Patient
<1> QED BY <1>3 DEF JInv

\* What comes may come.
LEMMA Expecting ==
  ASSUME NEW s, Ready(s), NEW p, NEW in, NEW to, NEW op, NEW op2, Paired(s, p, in, to, op, op2),
         NEW m \in in, m \in Messages,
         isReply(m) /\ ~isOk(m) => \E r \in op : r.method = m.method /\ r.n = m.n
  PROVE  Expected(s, m)
<1>1. /\ m.method \in {"INVITE", "UPDATE", "ACK", "BYE"}
      /\ m.method \in {"ACK", "BYE"} => m.code = 0
      /\ isOffering(m) /\ m.method = "INVITE" /\ OffersOnly => m.sdp # NoSdp
  BY DEF Paired, Agreed, Mannered
<1>2. isReply(m) /\ ~isOk(m) => m.n = s.cseq /\ m.method = s.sent.method /\ Awaits(s)
  BY DEF Paired, Agreed, Opened, Ready, Sound, Requested
<1>3. isOk(m) /\ (\A a \in s.acks : a.n # m.n) =>
        s.state = "Terminated" \/ (m.n = s.cseq /\ s.state \in Unacked)
  <2>1. isOk(m) => m \in Outcomes(p, in)
    BY DEF Outcomes, isOk, isReply
  <2> QED BY <2>1 DEF Paired, Agreed, AllConcluded, Concluded
<1>4. isOffering(m) => s.state \notin Undecided \cup {"SentReinviteAnswered"}
  BY DEF Paired, Agreed, Decides, Due, NoOffering
<1> QED BY <1>1, <1>2, <1>3, <1>4 DEF Expected

\* A message arrives.
LEMMA ReceiveSound ==
  ASSUME IInv, JInv, NEW e \in End, NEW m \in net[e], Receive(e, m)
  PROVE  JInv'
<1> DEFINE s == session[e]
           p == session[other(e)]
           op == open[e]
           gone == IF lasting(m) THEN {} ELSE {m}
           closed == {r \in op : m.code # 0 /\ r.method = m.method /\ r.n = m.n}
<1>1. Fit(s) /\ Quits \subseteq BOOLEAN
  BY InvParts
<1>2. PICK none : none = Request(None, 0, NoSdp)
  OBVIOUS
<1>3. none.method # "ACK"
  BY <1>2 DEF Request, None
<1>4. other(e) \in End /\ other(other(e)) = e
  BY Others
<1>5. m \in Messages /\ OnItsWay(m, p)
  BY <1>4 DEF IInv, DialogFits, NetFits
<1>6. \/ /\ m.code = 0 \/ closed # {} \/ lasting(m)
         /\ \E quits \in Quits : Step(e, dispatch(s, m, quits), gone, closed)
      \/ Step(e, s, gone, {})
  BY DEF Receive
<1>7. m.code = 422 => s.cseq < MaxMods
  BY DEF Receive
<1>8. closed \subseteq op
  OBVIOUS
<1>9. \A r \in closed : r.method = m.method /\ r.n = m.n
  OBVIOUS
<1>10. m.code # 0 => closed = {r \in op : r.method = m.method /\ r.n = m.n}
  OBVIOUS
<1>11. gone \subseteq {m} /\ (~lasting(m) => gone = {m})
  OBVIOUS
<1> HIDE DEF gone, closed
<1>12. CASE Step(e, s, gone, {})
  <2>1. Follows(s, s)
    BY <1>1, GoesOn DEF Goes
  <2>2. Ready(s) => Sound(s) /\ Calm(s, s, none)
    BY SoundStill DEF Ready
  <2>3. Patient /\ AllSound(session, net, open) => Ready(s)
    BY SoundParts
  <2> QED BY <1>3, <1>12, <2>1, <2>2, <2>3, CalmSound
<1>13. ASSUME m.code = 0 \/ closed # {} \/ lasting(m),
              NEW quits \in Quits, Step(e, dispatch(s, m, quits), gone, closed)
       PROVE  JInv'
  <2> DEFINE t == dispatch(s, m, quits)
             to == net[other(e)]
  <2>1. Hears(s, t, m)
    BY <1>1, <1>5, <1>7, HearsDispatch DEF Welcome, OnItsWay
  <2>2. Follows(s, t) /\ Fit(t)
    BY <2>1 DEF Hears, Follows
  <2>3. quits \in BOOLEAN
    BY <1>1
  <2>4. Ready(s) /\ Expected(s, m) => Reacts(s, t, m)
    BY <2>3, SoundDispatch
  <2>5. Step(e, t, gone, closed)
    BY <1>13
  <2> HIDE DEF t
  <2> SUFFICES ASSUME Patient, AllSound(session, net, open), ~t.misled
               PROVE  /\ Sound(t)
                      /\ Paired(t, p, net[e] \ gone, to \cup t.out,
                                Waiting(e, closed, t.out), open[other(e)])
    BY <2>2, <2>5, StepSound
  <2>6. /\ Ready(s) /\ Ready(p) /\ p.ok.n \in Nat
        /\ Paired(s, p, net[e], to, op, open[other(e)])
        /\ \A x \in to : x.n \in Nat /\ (x.method = "ACK" => x.n <= s.cseq)
        /\ \A x \in net[e] : x.n \in Nat
    BY SoundParts
  <2>7. Requested(p) /\ p.cseq \in Nat /\ Fit(p) /\ s.cseq \in Nat
    BY <2>6 DEF Ready, Sound
  <2>8. isReply(m) /\ ~isOk(m) => m.code # 0 /\ ~lasting(m)
    BY DEF isReply, isOk, lasting
  <2>9. isReply(m) /\ ~isOk(m) => \E r \in op : r.method = m.method /\ r.n = m.n
    BY <1>8, <1>9, <1>13, <2>8
  <2>10. Expected(s, m)
    BY <1>5, <2>6, <2>9, Expecting
  <2>11. Reacts(s, t, m)
    BY <2>4, <2>6, <2>10
  <2>12. net[e] \ gone \subseteq net[e] /\ op \ closed \subseteq op
    OBVIOUS
  <2>13. ASSUME NoOffering(t.out)
         PROVE  Waiting(e, closed, t.out) = op \ closed
    BY <2>13, WaitingFor
  \* Where the last request has got its response, it is no longer open.
  <2>14. m.code # 0 /\ m.n = s.cseq /\ m.method = s.sent.method => op \ closed = {}
    <3>1. op \subseteq {s.sent} /\ s.sent.n = s.cseq
      BY <2>6 DEF Paired, Agreed, Opened, Ready, Sound, Requested
    <3> QED BY <1>10, <3>1
  <2>15. CASE Calm(s, t, m)
    <3>1. /\ Paired(t, p, net[e] \ gone, to \cup t.out, op \ closed, open[other(e)])
          /\ NoOffering(t.out)
      <4>1. m.method = "ACK" => m \in net[e] /\ m.n \in Nat
        BY <2>6
      <4> QED BY <2>6, <2>7, <2>12, <2>15, <4>1, PairedCalm
    <3> QED BY <2>11, <2>13, <3>1 DEF Reacts
  <2>16. CASE isOffering(m) /\ ~Calm(s, t, m)
    <3>1. m.code = 0 /\ ~lasting(m) /\ gone = {m}
      BY <1>11, <2>16 DEF isOffering, lasting
    <3>2. closed = {}
      BY <3>1 DEF closed
    <3>3. op \ closed = op
      BY <3>2
    <3>4. CASE Declines(s, t, m)
      <4>1. /\ SameRequest(s, t) /\ Onward(s, t) /\ t.ok = s.ok /\ t.state \notin Undecided
        BY <3>4 DEF Declines
      <4>2. PICK y \in t.out : isReply(y) /\ ~isOk(y) /\ y.n = m.n /\ Mute(s, t.out \ {y})
        BY <3>4 DEF Declines
      <4>3. Paired(t, p, net[e] \ {m}, to \cup t.out, op, open[other(e)]) /\ NoOffering(t.out)
        BY <2>6, <2>7, <2>16, <4>1, <4>2, PairedDeclines
      <4> QED BY <2>11, <2>13, <3>1, <3>3, <4>3 DEF Reacts
    <3>5. CASE TakesUp(s, t, m)
      <4>1. Paired(t, p, net[e] \ {m}, to \cup t.out, op, open[other(e)]) /\ NoOffering(t.out)
        BY <2>6, <2>7, <2>16, <3>5, PairedTakes
      <4> QED BY <2>11, <2>13, <3>1, <3>3, <4>1 DEF Reacts
    <3> QED BY <2>11, <2>16, <3>4, <3>5 DEF Reacts
  <2>17. CASE isReply(m) /\ ~isOk(m) /\ ~Calm(s, t, m)
    <3>1. m.code # 0 /\ gone = {m} /\ m.n = s.cseq /\ m.method = s.sent.method
      BY <1>11, <2>8, <2>10, <2>17 DEF Expected
    <3>2. op \ closed = {}
      BY <2>14, <3>1
    <3>3. CASE Closes(s, t)
      <4>1. Paired(t, p, net[e] \ {m}, to \cup t.out, {}, open[other(e)]) /\ NoOffering(t.out)
        BY <2>6, <2>7, <2>17, <3>1, <3>3, PairedCloses
      <4> QED BY <2>11, <2>13, <3>1, <3>2, <4>1 DEF Reacts
    <3>4. CASE s.state \in Awaiting /\ Requests(s, t)
      <4>1. t.sent.n = t.cseq /\ t.out = {t.sent}
        BY <2>11, <3>4 DEF Reacts, Sound, Requested, Requests
      <4>2. Waiting(e, closed, t.out) \subseteq {t.sent}
        BY <3>2, <4>1 DEF Waiting
      <4>3. Paired(t, p, net[e] \ {m}, to \cup t.out, Waiting(e, closed, t.out), open[other(e)])
        BY <2>6, <2>7, <2>17, <3>1, <3>4, <4>1, <4>2, PairedRepeats
      <4> QED BY <2>11, <3>1, <4>3 DEF Reacts
    <3> QED BY <2>11, <2>17, <3>3, <3>4 DEF Reacts
  <2>18. CASE isOk(m) /\ ~Calm(s, t, m)
    <3>1. (Acks(s, t) \/ Gets(s, t)) /\ m.n = s.cseq /\ s.state \in Asking \cup {"WaitingToTerminate"}
      BY <2>11, <2>18 DEF Reacts
    <3>2. m.code # 0 /\ m.method = s.sent.method
      BY <2>6, <2>18, <3>1 DEF isOk, Ready, Sound, Requested, Unacked
    <3>3. op \ closed = {}
      BY <2>14, <3>1, <3>2
    <3>4. CASE Acks(s, t)
      <4>1. m \in Outcomes(p, net[e])
        BY <2>18 DEF Outcomes, isOk, isReply
      <4>2. Paired(t, p, net[e] \ gone, to \cup t.out, {}, open[other(e)]) /\ NoOffering(t.out)
        BY <2>2, <2>6, <2>12, <3>1, <3>4, <4>1, PairedAcks
      <4> QED BY <2>11, <2>13, <3>3, <4>2 DEF Reacts
    <3>5. CASE Gets(s, t)
      <4>1. Paired(t, p, net[e] \ gone, to \cup t.out, {}, open[other(e)]) /\ NoOffering(t.out)
        BY <2>6, <2>7, <2>12, <2>18, <3>1, <3>5, PairedGets
      <4> QED BY <2>11, <2>13, <3>3, <4>1 DEF Reacts
    <3> QED BY <3>1, <3>4, <3>5
  <2>19. isOffering(m) \/ isReply(m) \/ m.method \in {"ACK", "BYE"}
    BY <2>10, MessageKinds
  <2> QED BY <2>11, <2>15, <2>16, <2>17, <2>18, <2>19 DEF Reacts
<1> QED BY <1>6, <1>12, <1>13

\* A transaction ends without a response.
LEMMA UnansweredSound ==
  ASSUME IInv, JInv, NEW e \in End, NEW r \in open[e], Unanswered(e, r)
  PROVE  JInv'
<1> DEFINE s == session[e]
           m == Response(r, 408, NoSdp)
           t == dispatch(s, m, TRUE)
<1>1. Fit(s) /\ r \in Messages /\ isOffering(r)
  BY InvParts DEF DialogFits, OpenFits
<1>2. m \in Messages /\ m.method = r.method /\ m.n = r.n /\ m.code = 408
  BY <1>1, Negatives, ResponseTypes DEF Replies
<1>3. Step(e, t, {}, {r})
  BY DEF Unanswered
<1> HIDE DEF m
<1>4. Welcome(s, m) /\ isReply(m) /\ ~isOk(m) /\ ~isOffering(m) /\ m.method # "ACK" /\ general(m)
  BY <1>1, <1>2 DEF Welcome, isOffering, isReply, isOk, general
<1>5. Follows(s, t)
  BY <1>1, <1>4, HearsDispatch DEF Hears
<1>6. Ready(s) /\ Expected(s, m) => Reacts(s, t, m)
  BY SoundDispatch
<1> HIDE DEF t
<1>7. ASSUME AllSound(session, net, open)
      PROVE  Sound(t) /\ Calm(s, t, m)
  <2>1. /\ Ready(s)
        /\ Paired(s, session[other(e)], net[e], net[other(e)], open[e], open[other(e)])
    BY <1>7, SoundParts
  <2>2. r = s.sent /\ Awaits(s) /\ s.sent.n = s.cseq
    BY <2>1 DEF Paired, Agreed, Opened, Ready, Sound, Requested
  <2>3. Expected(s, m)
    BY <1>1, <1>2, <1>4, <2>2 DEF Expected, isOffering
  <2> QED BY <1>4, <1>6, <2>1, <2>3 DEF Reacts
<1> QED BY <1>3, <1>4, <1>5, <1>7, CalmSound

\* The network loses or declines a message, or a 200 is repeated.
LEMMA NetworkSound ==
  ASSUME IInv, JInv, NEW e \in End,
         \/ \E m \in net[e] : Lose(e, m) \/ TooSmall(e, m)
         \/ Retransmit200(e)
  PROVE  JInv'
<1> DEFINE s == session[e]
           p == session[other(e)]
<1>1. other(e) \in End /\ other(e) # e /\ other(other(e)) = e
  BY Others
<1>2. net \in [End -> SUBSET Messages]
  BY DEF IInv, DialogFits, NetFits
<1>3. AllSound(session, net, open) =>
        /\ Ready(s) /\ Ready(p)
        /\ Paired(s, p, net[e], net[other(e)], open[e], open[other(e)])
  BY SoundParts
<1>4. ASSUME NEW m \in net[e], Lose(e, m)
      PROVE  JInv'
  <2>1. net'[e] = net[e] \ {m} /\ net'[other(e)] = net[other(e)] /\ UNCHANGED <<setup, session, open>>
    BY <1>1, <1>2, <1>4 DEF Lose
  <2>2. AllSound(session, net, open) =>
          Paired(s, p, net[e] \ {m}, net[other(e)], open[e], open[other(e)])
    BY <1>3, PairedLess
  <2> QED BY <2>1, <2>2, NetSound
<1>5. ASSUME NEW m \in net[e], TooSmall(e, m)
      PROVE  JInv'
  <2> DEFINE y == Response(m, 422, NoSdp)
  <2>1. /\ net'[e] = net[e] \ {m} /\ net'[other(e)] = net[other(e)] \cup {y}
        /\ UNCHANGED <<setup, session, open>> /\ isOffering(m)
    BY <1>1, <1>2, <1>5 DEF TooSmall
  <2>2. y.method = m.method /\ y.code = 422 /\ y.n = m.n
    BY <1>2, Negatives, ResponseTypes DEF Replies
  <2> HIDE DEF y
  <2>3. isReply(y) /\ ~isOk(y)
    BY <2>1, <2>2 DEF isReply, isOk, isOffering
  <2>4. ASSUME AllSound(session, net, open)
        PROVE  Paired(s, p, net[e] \ {m}, net[other(e)] \cup {y}, open[e], open[other(e)])
    <3> DEFINE out == {y}
    <3>1. SameRequest(s, s) /\ Onward(s, s) /\ Mute(s, out \ {y})
      BY DEF SameRequest, Onward, Mute
    <3>2. s.state \notin Undecided
      BY <1>3, <2>1, <2>4 DEF Paired, Agreed, Decides, NoOffering
    <3>3. Requested(p) /\ p.cseq \in Nat
      BY <1>3, <2>4 DEF Ready, Sound
    <3>4. y \in out
      OBVIOUS
    <3> HIDE DEF out
    <3>5. Paired(s, p, net[e] \ {m}, net[other(e)] \cup out, open[e], open[other(e)])
      BY <1>3, <2>1, <2>2, <2>3, <2>4, <3>1, <3>2, <3>3, <3>4, PairedDeclines
    <3> QED BY <3>5 DEF out
  <2> QED BY <2>1, <2>4, NetSound
<1>6. CASE Retransmit200(e)
  <2>1. /\ net'[e] = net[e] /\ net'[other(e)] = net[other(e)] \cup {s.ok}
        /\ UNCHANGED <<setup, session, open>> /\ s.re200
    BY <1>1, <1>2, <1>6 DEF Retransmit200
  <2>2. AllSound(session, net, open) =>
          Paired(s, p, net[e], net[other(e)] \cup {s.ok}, open[e], open[other(e)])
    BY <1>3, <2>1, PairedRetransmits DEF Ready, Sound, Repeating
  <2> QED BY <2>1, <2>2, NetSound
<1> QED BY <1>4, <1>5, <1>6

\* An established session is sound.
LEMMA EstablishedSound ==
  ASSUME NEW uac \in BOOLEAN, NEW update, NEW local, NEW remote,
         NEW s, s = Established(uac, update, local, remote)
  PROVE  /\ Sound(s) /\ s.state = "Connected" /\ s.cseq = 0 /\ ~s.misled
         /\ s.ok.method \notin {"INVITE", "UPDATE"}
<1> DEFINE first == Request(IF uac THEN "INVITE" ELSE None, 0, NoSdp)
           none == Request(None, 0, NoSdp)
<1>1. /\ s.state = "Connected" /\ s.cseq = 0 /\ s.sent = first /\ s.ok = none /\ ~s.re200
      /\ s.propRemote = NoSdp /\ ~s.bad /\ ~s.misled
  BY DEF Established
<1>2. first.code = 0 /\ first.n = 0 /\ none.method \notin {"INVITE", "UPDATE"}
  BY DEF Request, None
<1> HIDE DEF first, none
<1>3. s.state \notin Undecided \cup Unacked \cup Empty
  BY <1>1 DEF Undecided, Unacked, Asking, Empty
<1> QED BY <1>1, <1>2, <1>3 DEF Sound, Requested, Repeating, Proposed, Unhurt

\* The two ends agree when the dialog has been established.
LEMMA InitSound ==
  ASSUME Init
  PROVE  JInv
<1>1. ASSUME NEW e \in End
      PROVE  /\ Sound(session[e]) /\ session[e].state = "Connected" /\ session[e].cseq = 0
             /\ session[e].ok.method \notin {"INVITE", "UPDATE"} /\ net[e] = {} /\ open[e] = {}
  <2>1. PICK uac \in BOOLEAN : uac = (e = "a")
    OBVIOUS
  <2>2. session[e] = Established(uac, setup.Update, Sdp(e, "a", 0), Sdp(other(e), "a", 0))
    BY <2>1 DEF Init
  <2>3. net[e] = {} /\ open[e] = {}
    BY DEF Init
  <2> QED BY <2>2, <2>3, EstablishedSound
<1>2. ASSUME NEW e \in End
      PROVE  Agreed(session[e], session[other(e)], net[e], net[other(e)], open[e])
  <2>1. other(e) \in End
    BY Others
  <2>2. Outcomes(session[other(e)], net[e]) = {}
    BY <1>1, <2>1 DEF Outcomes
  <2>3. session[other(e)].state \notin Undecided
    BY <1>1, <2>1 DEF Undecided
  <2> QED BY <1>1, <2>1, <2>2, <2>3
          DEF Agreed, Opened, Mannered, Decides, AllConcluded, Due
<1> QED BY <1>1, <1>2 DEF JInv, AllSound

\* No step breaks the agreement.
LEMMA NextSound ==
  ASSUME IInv, JInv, [Next]_vars
  PROVE  JInv'
<1>1. ASSUME NEW e \in End,
             \/ Ask(e) \/ Answer(e) \/ HangUp(e)
             \/ \E m \in net[e] : Receive(e, m) \/ Lose(e, m) \/ TooSmall(e, m)
             \/ \E r \in open[e] : Unanswered(e, r)
             \/ Retransmit200(e) \/ AckTimeout(e) \/ GlareTimeout(e) \/ StaleTimeout(e)
             \/ SessionExpired(e)
      PROVE  JInv'
  BY <1>1, AskSound, AnswerSound, EndSound, ReceiveSound, NetworkSound, UnansweredSound,
     PatientSound, GlareSound
<1>2. CASE UNCHANGED vars
  <2>1. "a" \in End /\ UNCHANGED <<setup, session, open, net>>
    BY <1>2 DEF vars, End
  <2>2. AllSound(session, net, open) =>
          Paired(session["a"], session[other("a")], net["a"], net[other("a")],
                 open["a"], open[other("a")])
    BY <2>1, SoundParts
  <2> QED BY <2>1, <2>2, NetSound
<1> QED BY <1>1, <1>2 DEF Next

\* Where no end stops waiting or mistakes an ACK, the two ends agree at any time on what
\* became of the last request of each.
THEOREM Agreement == Spec => [](IInv /\ JInv)
<1>1. Init => IInv /\ JInv
  BY InitFits, InitSound
<1>2. IInv /\ JInv /\ [Next]_vars => (IInv /\ JInv)'
  BY NextKeeps, NextSound
<1> QED BY <1>1, <1>2, PTL DEF Spec

\* No order of calls, messages and timers leads a session into one of the asserts and
\* unexpected cases of InviteSession.cxx, and sessions and messages are well-formed.
THEOREM AssertsHold == Spec => []SessionsSound
<1>1. IInv /\ JInv => NeverAsserts
  <2> SUFFICES ASSUME IInv, JInv, Patient, AcksInTurn, ~(Rejects /\ "request" \in Kinds),
                      ~(Ends /\ "expired" \in Expire), NEW e \in End
               PROVE  ~session[e].bad
    BY DEF NeverAsserts
  <2>1. AllSound(session, net, open)
    BY DEF JInv
  <2> QED BY <2>1 DEF AllSound, Sound, Unhurt, Careful
<1>2. TypeOK /\ NeverAsserts => SessionsSound
  BY DEF SessionsSound
<1> QED BY <1>1, <1>2, TypeCorrect, Agreement, PTL

-----------------------------------------------------------------------------
(* The descriptions agree: what one end calls local the other calls remote, *)
(* or a message that makes it so is still to be taken.                      *)

\* The states in which a 200 may answer the offer of this end, or its refresh.
Proposing == {"SentUpdate", "SentReinvite"}

\* What is proposed is what the messages say.
Worded(s) ==
  /\ s.state \in {"SentUpdate", "SentUpdateGlare", "SentReinvite", "SentReinviteGlare"} /\ s.sent.sdp # NoSdp
       => s.propLocal = s.sent.sdp
  /\ s.state \in {"ReceivedReinvite", "ReceivedUpdate"} => s.propRemote = s.got.sdp /\ s.got.sdp # NoSdp
  /\ s.state = "ReceivedReinviteSentOffer" => s.propLocal = s.ok.sdp /\ s.ok.sdp # NoSdp

\* The response y accepts the last request of s.
Accepts(s, y) == y.code = 200 /\ y.n = s.cseq /\ y.method = s.sent.method

\* An UPDATE that waits for its answer has its transaction.
InFlight(s, op) == s.state = "SentUpdate" => s.sent \in op

\* The offer to be answered in an ACK is the one in the 200 of p.
Invited(s, p) == s.state = "SentReinviteAnswered" => s.propRemote = p.ok.sdp

\* The ACKs of s on their way are those s keeps.
Keeping(s, to) == \A m \in to : m.method = "ACK" => m \in s.acks

\* The ACK that p waits for answers its offer as s has taken it.
AnswersBack(s, p) ==
  p.state = "ReceivedReinviteSentOffer" =>
    \A a \in s.acks : a.n = p.ok.n => isTerminated(s) \/ (a.sdp = s.local /\ s.remote = p.propLocal)

\* p has taken what s offers, and answered it as it says in the 200.
TakenOver(s, p, in) ==
  \A y \in Outcomes(p, in) : Accepts(s, y) /\ s.state \in Proposing =>
    IF s.sent.sdp = NoSdp THEN y.sdp = NoSdp
    ELSE /\ y.sdp # NoSdp /\ p.state # "ReceivedReinviteSentOffer"
         /\ isTerminated(p) \/ (p.local = y.sdp /\ p.remote = s.sent.sdp)

\* What the state of s and the messages of p say of the descriptions.
Told(s, p, in, to, op) ==
  /\ Worded(s) /\ InFlight(s, op) /\ Invited(s, p) /\ Keeping(s, to)
  /\ AnswersBack(s, p) /\ TakenOver(s, p, in)

\* The request that s waits for has been accepted.
Accepted(s, p, in) == s.state \in Proposing /\ \E y \in Outcomes(p, in) : Accepts(s, y)

\* Only one end at a time is owed the end of a negotiation.
Exclusive(s, p, in, to) ==
  /\ ~(Accepted(s, p, in) /\ Accepted(p, s, to))
  /\ ~(s.state = "ReceivedReinviteSentOffer" /\ p.state = "ReceivedReinviteSentOffer")

\* The descriptions of the two ends are the same.
Match(s, p) == s.local = p.remote /\ s.remote = p.local

\* The 200 that answers the offer of s is still to be taken.
Crossed(s, p, in) == s.sent.sdp # NoSdp /\ Accepted(s, p, in)

\* The ACK that answers the offer of p is still to be taken.
Returned(s, p) ==
  p.state = "ReceivedReinviteSentOffer" /\ \E a \in s.acks : a.n = p.ok.n

\* They match, or need not, or what makes them match is still to be taken.
Settles(s, p, in, to) ==
  \/ isTerminated(s) \/ isTerminated(p) \/ Match(s, p)
  \/ Crossed(s, p, in) \/ Crossed(p, s, to)
  \/ Returned(s, p) \/ Returned(p, s)

\* In both directions.
Media(s, p, in, to, op, op2) ==
  /\ Told(s, p, in, to, op) /\ Told(p, s, to, in, op2)
  /\ Exclusive(s, p, in, to) /\ Settles(s, p, in, to)

\* In the sessions ss, with nn on its way and the transactions oo open.
AllMedia(ss, nn, oo) ==
  \A e \in End : Media(ss[e], ss[other(e)], nn[e], nn[other(e)], oo[e], oo[other(e)])

\* The inductive invariant of the descriptions, beside IInv and JInv.
KInv == Patient /\ AcksInTurn => AllMedia(session, net, open)

-----------------------------------------------------------------------------
(* What a step of s may do. *)

\* What is sent changes no description.
Plain(t, out) ==
  \A x \in out :
    /\ x.method = "ACK" => x \in t.acks
    /\ isReply(x) /\ x.code = 200 => x.method = "INVITE" /\ x = t.ok

\* Nothing is negotiated, asked or answered.
SameMedia(s, t) ==
  t.sent = s.sent /\ t.cseq = s.cseq /\ t.ok = s.ok /\ t.local = s.local /\ t.remote = s.remote

\* The session ends, or goes on ending.
Quitting(s, t, out) == isTerminated(t) /\ t.ok = s.ok /\ s.acks \subseteq t.acks /\ Plain(t, out)

\* The session goes on as it was.
Staying(s, t, out) ==
  /\ SameMedia(s, t) /\ t.acks = s.acks /\ t.state = s.state /\ t.got = s.got
  /\ t.propLocal = s.propLocal /\ t.propRemote = s.propRemote /\ Plain(t, out)

\* What Outcomes is.
LEMMA InOutcomes ==
  ASSUME NEW p, NEW in, NEW y
  PROVE  y \in Outcomes(p, in) <=> (y \in in /\ isReply(y)) \/ (y = p.ok /\ y.method = "INVITE")
BY DEF Outcomes

\* An accepting response that is not new.
LEMMA OldOutcome ==
  ASSUME NEW s, NEW t, NEW to, NEW out, t.ok = s.ok, Plain(t, out),
         NEW y \in Outcomes(t, to \cup out), y.code = 200
  PROVE  y \in Outcomes(s, to)
BY InOutcomes DEF Plain

\* Responses stay.
LEMMA MoreOutcomes ==
  ASSUME NEW s, NEW t, NEW to, NEW out, t.ok = s.ok, NEW y \in Outcomes(s, to)
  PROVE  y \in Outcomes(t, to \cup out)
BY InOutcomes

\* Where fewer messages are on their way.
LEMMA FewerOutcomes ==
  ASSUME NEW p, NEW in, NEW in2, in2 \subseteq in, NEW y \in Outcomes(p, in2)
  PROVE  y \in Outcomes(p, in)
BY InOutcomes

\* Seen from the other end.
LEMMA MediaTurned ==
  ASSUME NEW s, NEW p, NEW in, NEW to, NEW op, NEW op2, Media(s, p, in, to, op, op2)
  PROVE  Media(p, s, to, in, op2, op)
BY DEF Media, Exclusive, Settles, Match

\* A session ends.
LEMMA MediaQuits ==
  ASSUME NEW s, NEW p, NEW in, NEW to, NEW op, NEW op2, Media(s, p, in, to, op, op2),
         NEW t, NEW out, Quitting(s, t, out), NEW in2, in2 \subseteq in, NEW op3
  PROVE  Media(t, p, in2, to \cup out, op3, op2)
<1>1. t.state \notin Proposing \cup {"SentReinviteAnswered", "ReceivedReinviteSentOffer", "SentUpdateGlare",
        "SentReinviteGlare", "ReceivedReinvite", "ReceivedUpdate"} /\ isTerminated(t)
  BY DEF Quitting, isTerminated, Proposing
<1>2. t.ok = s.ok /\ s.acks \subseteq t.acks /\ Plain(t, out)
  BY DEF Quitting
<1>3. Told(t, p, in2, to \cup out, op3)
  <2>1. Worded(t) /\ InFlight(t, op3) /\ Invited(t, p) /\ AnswersBack(t, p) /\ TakenOver(t, p, in2)
    BY <1>1 DEF Worded, InFlight, Invited, AnswersBack, TakenOver, Proposing
  <2>2. Keeping(t, to \cup out)
    BY <1>2 DEF Keeping, Plain, Media, Told
  <2> QED BY <2>1, <2>2 DEF Told
<1>4. Told(p, t, to \cup out, in2, op2)
  <2>1. Worded(p) /\ InFlight(p, op2) /\ Invited(p, t) /\ Keeping(p, in2)
    BY <1>2 DEF Media, Told, Invited, Keeping
  <2>2. AnswersBack(p, t)
    BY <1>1 DEF AnswersBack
  <2>3. TakenOver(p, t, to \cup out)
    <3> SUFFICES ASSUME NEW y \in Outcomes(t, to \cup out), Accepts(p, y), p.state \in Proposing
                 PROVE  IF p.sent.sdp = NoSdp THEN y.sdp = NoSdp ELSE y.sdp # NoSdp
      BY <1>1 DEF TakenOver
    <3>1. y \in Outcomes(s, to)
      BY <1>2, OldOutcome DEF Accepts
    <3> QED BY <3>1 DEF Media, Told, TakenOver
  <2> QED BY <2>1, <2>2, <2>3 DEF Told
<1>5. Exclusive(t, p, in2, to \cup out) /\ Settles(t, p, in2, to \cup out)
  BY <1>1 DEF Exclusive, Accepted, Settles
<1> QED BY <1>3, <1>4, <1>5 DEF Media

\* A session stays as it is.
LEMMA MediaStays ==
  ASSUME NEW s, NEW p, NEW in, NEW to, NEW op, NEW op2, Media(s, p, in, to, op, op2),
         NEW t, NEW out, Staying(s, t, out), NEW in2, in2 \subseteq in, NEW op3, InFlight(t, op3),
         \A y \in Outcomes(p, in) : Accepts(s, y) /\ s.state \in Proposing => y \in Outcomes(p, in2)
  PROVE  Media(t, p, in2, to \cup out, op3, op2)
<1>1. /\ SameMedia(s, t) /\ t.acks = s.acks /\ t.state = s.state /\ t.got = s.got
      /\ t.propLocal = s.propLocal /\ t.propRemote = s.propRemote /\ Plain(t, out)
      /\ t.sent = s.sent /\ t.cseq = s.cseq /\ t.ok = s.ok /\ t.local = s.local /\ t.remote = s.remote
      /\ isTerminated(t) <=> isTerminated(s)
  BY DEF Staying, SameMedia, isTerminated
<1>2. \A y : Accepts(t, y) <=> Accepts(s, y)
  BY <1>1 DEF Accepts
<1>3. Told(t, p, in2, to \cup out, op3)
  <2>1. Worded(t)
    BY <1>1 DEF Media, Told, Worded
  <2>2. Invited(t, p) /\ AnswersBack(t, p)
    BY <1>1 DEF Media, Told, Invited, AnswersBack
  <2>3. Keeping(t, to \cup out)
    BY <1>1 DEF Keeping, Plain, Media, Told
  <2>4. TakenOver(t, p, in2)
    BY <1>1, <1>2, FewerOutcomes DEF Media, Told, TakenOver
  <2> QED BY <2>1, <2>2, <2>3, <2>4 DEF Told
<1>4. Told(p, t, to \cup out, in2, op2)
  <2>1. Worded(p) /\ InFlight(p, op2) /\ Invited(p, t) /\ Keeping(p, in2)
    BY <1>1 DEF Media, Told, Invited, Keeping
  <2>2. AnswersBack(p, t)
    <3>1. AnswersBack(p, s)
      BY DEF Media, Told
    <3> QED BY <1>1, <3>1 DEF AnswersBack
  <2>3. TakenOver(p, t, to \cup out)
    <3> SUFFICES ASSUME NEW y \in Outcomes(t, to \cup out), Accepts(p, y), p.state \in Proposing
                 PROVE  IF p.sent.sdp = NoSdp THEN y.sdp = NoSdp
                        ELSE /\ y.sdp # NoSdp /\ t.state # "ReceivedReinviteSentOffer"
                             /\ isTerminated(t) \/ (t.local = y.sdp /\ t.remote = p.sent.sdp)
      BY DEF TakenOver
    <3>1. y \in Outcomes(s, to)
      BY <1>1, OldOutcome DEF Accepts
    <3> QED BY <1>1, <3>1 DEF Media, Told, TakenOver
  <2> QED BY <2>1, <2>2, <2>3 DEF Told
<1>5. /\ Accepted(t, p, in2) <=> Accepted(s, p, in)
      /\ Accepted(p, t, to \cup out) <=> Accepted(p, s, to)
  <2>1. Accepted(t, p, in2) <=> Accepted(s, p, in)
    BY <1>1, <1>2, FewerOutcomes DEF Accepted
  <2>2. Accepted(p, t, to \cup out) <=> Accepted(p, s, to)
    <3>1. \A y : Accepts(p, y) => (y \in Outcomes(t, to \cup out) <=> y \in Outcomes(s, to))
      BY <1>1, OldOutcome, MoreOutcomes DEF Accepts
    <3> QED BY <3>1 DEF Accepted
  <2> QED BY <2>1, <2>2
<1>6. Exclusive(t, p, in2, to \cup out)
  BY <1>1, <1>5 DEF Media, Exclusive
<1>7. Settles(t, p, in2, to \cup out)
  BY <1>1, <1>5 DEF Media, Settles, Match, Crossed, Returned
<1> QED BY <1>3, <1>4, <1>6, <1>7 DEF Media

\* No offer of s is on the table in t, whose end s was not.
Leaving(s, t, out) ==
  /\ SameMedia(s, t) /\ s.acks \subseteq t.acks /\ Worded(t)
  /\ ~isTerminated(s) /\ ~isTerminated(t)
  /\ t.state \notin Proposing \cup {"ReceivedReinviteSentOffer"}
  /\ \A x \in out : x.method = "ACK" => x \in t.acks

\* An offer of s is dropped, a request is taken up, or it is answered with no description.
LEMMA MediaLeaves ==
  ASSUME NEW s, NEW p, NEW in, NEW to, NEW op, NEW op2, Media(s, p, in, to, op, op2),
         NEW t, NEW out, Leaving(s, t, out), NEW in2, in2 \subseteq in, NEW op3,
         Invited(t, p), ~Crossed(s, p, in),
         s.state = "ReceivedReinviteSentOffer" => isTerminated(p),
         p.state = "ReceivedReinviteSentOffer" => \A a \in t.acks : a \in s.acks \/ a.n # p.ok.n,
         \A y \in Outcomes(t, to \cup out) : Accepts(p, y) /\ p.state \in Proposing =>
           y \in Outcomes(s, to) \/ (y.sdp = NoSdp /\ p.sent.sdp = NoSdp)
  PROVE  Media(t, p, in2, to \cup out, op3, op2)
<1>1. /\ t.sent = s.sent /\ t.cseq = s.cseq /\ t.ok = s.ok /\ t.local = s.local /\ t.remote = s.remote
      /\ s.acks \subseteq t.acks /\ Worded(t) /\ ~isTerminated(s) /\ ~isTerminated(t)
      /\ t.state \notin Proposing /\ t.state # "ReceivedReinviteSentOffer"
      /\ \A x \in out : x.method = "ACK" => x \in t.acks
  BY DEF Leaving, SameMedia
<1>2. Told(t, p, in2, to \cup out, op3)
  <2>1. InFlight(t, op3) /\ TakenOver(t, p, in2)
    BY <1>1 DEF InFlight, TakenOver, Proposing
  <2>2. AnswersBack(t, p)
    <3>1. AnswersBack(s, p)
      BY DEF Media, Told
    <3> QED BY <1>1, <3>1 DEF AnswersBack
  <2>3. Keeping(t, to \cup out)
    BY <1>1 DEF Keeping, Media, Told
  <2> QED BY <1>1, <2>1, <2>2, <2>3 DEF Told
<1>3. Told(p, t, to \cup out, in2, op2)
  <2>1. Worded(p) /\ InFlight(p, op2) /\ Invited(p, t) /\ Keeping(p, in2)
    BY <1>1 DEF Media, Told, Invited, Keeping
  <2>2. AnswersBack(p, t)
    BY <1>1 DEF AnswersBack
  <2>3. TakenOver(p, t, to \cup out)
    <3> SUFFICES ASSUME NEW y \in Outcomes(t, to \cup out), Accepts(p, y), p.state \in Proposing
                 PROVE  IF p.sent.sdp = NoSdp THEN y.sdp = NoSdp
                        ELSE y.sdp # NoSdp /\ t.local = y.sdp /\ t.remote = p.sent.sdp
      BY <1>1 DEF TakenOver
    <3>1. y \in Outcomes(s, to) \/ (y.sdp = NoSdp /\ p.sent.sdp = NoSdp)
      OBVIOUS
    <3>2. TakenOver(p, s, to)
      BY DEF Media, Told
    <3> QED BY <1>1, <3>1, <3>2 DEF TakenOver
  <2> QED BY <2>1, <2>2, <2>3 DEF Told
<1>4. Exclusive(t, p, in2, to \cup out)
  BY <1>1 DEF Exclusive, Accepted
<1>5. Settles(t, p, in2, to \cup out)
  <2>1. Accepted(p, s, to) => Accepted(p, t, to \cup out)
    BY <1>1, MoreOutcomes DEF Accepted
  <2>2. Returned(s, p) => Returned(t, p)
    BY <1>1 DEF Returned
  <2>3. Returned(p, s) => isTerminated(p)
    BY DEF Returned
  <2>4. Match(s, p) => Match(t, p)
    BY <1>1 DEF Match
  <2>5. Settles(s, p, in, to)
    BY DEF Media
  <2> QED BY <1>1, <2>1, <2>2, <2>3, <2>4, <2>5 DEF Settles, Crossed
<1> QED BY <1>2, <1>3, <1>4, <1>5 DEF Media

\* A request of s goes out.
Proposes(s, t) ==
  /\ t.cseq = s.cseq + 1 /\ t.ok = s.ok /\ t.local = s.local /\ t.remote = s.remote
  /\ t.acks = s.acks /\ Worded(t) /\ t.out = {t.sent} /\ isOffering(t.sent)
  /\ s.state \in Free \cup {"SentUpdate"} \cup Asking
  /\ t.state \in {"SentUpdate"} \cup Asking

\* A request goes out while no 200 is to come for an earlier one.
LEMMA MediaProposes ==
  ASSUME NEW s, NEW p, NEW in, NEW to, NEW op, NEW op2, Media(s, p, in, to, op, op2),
         NEW t, Proposes(s, t), NEW in2, in2 \subseteq in, NEW op3, t.sent \in op3,
         ~Crossed(s, p, in), \A y \in Outcomes(p, in) : y.n # t.cseq
  PROVE  Media(t, p, in2, to \cup t.out, op3, op2)
<1>1. /\ t.cseq = s.cseq + 1 /\ t.ok = s.ok /\ t.local = s.local /\ t.remote = s.remote
      /\ t.acks = s.acks /\ Worded(t) /\ t.out = {t.sent}
      /\ t.sent.method # "ACK" /\ ~isReply(t.sent)
      /\ ~isTerminated(s) /\ ~isTerminated(t)
      /\ s.state # "ReceivedReinviteSentOffer" /\ t.state # "ReceivedReinviteSentOffer"
      /\ t.state # "SentReinviteAnswered"
  BY DEF Proposes, Free, Asking, AskingAgain, isTerminated, isOffering, isReply
<1>2. Plain(t, t.out)
  BY <1>1 DEF Plain
<1>3. ~Accepted(t, p, in2)
  BY FewerOutcomes DEF Accepted, Accepts
<1>4. Told(t, p, in2, to \cup t.out, op3)
  <2>1. InFlight(t, op3) /\ Invited(t, p)
    BY <1>1 DEF InFlight, Invited
  <2>2. TakenOver(t, p, in2)
    BY <1>3 DEF TakenOver, Accepted
  <2>3. AnswersBack(t, p)
    <3>1. AnswersBack(s, p)
      BY DEF Media, Told
    <3> QED BY <1>1, <3>1 DEF AnswersBack
  <2>4. Keeping(t, to \cup t.out)
    BY <1>1 DEF Keeping, Media, Told
  <2> QED BY <1>1, <2>1, <2>2, <2>3, <2>4 DEF Told
<1>5. Told(p, t, to \cup t.out, in2, op2)
  <2>1. Worded(p) /\ InFlight(p, op2) /\ Invited(p, t) /\ Keeping(p, in2)
    BY <1>1 DEF Media, Told, Invited, Keeping
  <2>2. AnswersBack(p, t)
    BY <1>1 DEF AnswersBack
  <2>3. TakenOver(p, t, to \cup t.out)
    <3> SUFFICES ASSUME NEW y \in Outcomes(t, to \cup t.out), Accepts(p, y), p.state \in Proposing
                 PROVE  IF p.sent.sdp = NoSdp THEN y.sdp = NoSdp
                        ELSE y.sdp # NoSdp /\ t.local = y.sdp /\ t.remote = p.sent.sdp
      BY <1>1 DEF TakenOver
    <3>1. y \in Outcomes(s, to)
      BY <1>1, <1>2, OldOutcome DEF Accepts
    <3>2. TakenOver(p, s, to)
      BY DEF Media, Told
    <3> QED BY <1>1, <3>1, <3>2 DEF TakenOver
  <2> QED BY <2>1, <2>2, <2>3 DEF Told
<1>6. Exclusive(t, p, in2, to \cup t.out)
  BY <1>1, <1>3 DEF Exclusive
<1>7. Settles(t, p, in2, to \cup t.out)
  <2>1. Accepted(p, s, to) => Accepted(p, t, to \cup t.out)
    BY <1>1, MoreOutcomes DEF Accepted
  <2>2. Returned(s, p) => Returned(t, p)
    BY <1>1 DEF Returned
  <2>3. ~Returned(p, s)
    BY <1>1 DEF Returned
  <2>4. Match(s, p) => Match(t, p)
    BY <1>1 DEF Match
  <2>5. Settles(s, p, in, to)
    BY DEF Media
  <2> QED BY <1>1, <2>1, <2>2, <2>3, <2>4, <2>5 DEF Settles, Crossed
<1> QED BY <1>4, <1>5, <1>6, <1>7 DEF Media

\* The negotiation of s is over.
Concluding(s, t, out) ==
  /\ t.state = "Connected" /\ t.ok = s.ok /\ s.acks \subseteq t.acks /\ Plain(t, out)

\* A negotiation ends with matching descriptions.
LEMMA MediaConcludes ==
  ASSUME NEW s, NEW p, NEW in, NEW to, NEW op, NEW op2, Media(s, p, in, to, op, op2),
         NEW t, NEW out, Concluding(s, t, out), NEW in2, in2 \subseteq in, NEW op3,
         isTerminated(p) \/ Match(t, p),
         p.state # "ReceivedReinviteSentOffer", ~Crossed(p, s, to)
  PROVE  Media(t, p, in2, to \cup out, op3, op2)
<1>1. /\ t.state = "Connected" /\ t.ok = s.ok /\ s.acks \subseteq t.acks /\ Plain(t, out)
      /\ t.state \notin Proposing
  BY DEF Concluding, Proposing
<1>2. Told(t, p, in2, to \cup out, op3)
  <2>1. Worded(t) /\ InFlight(t, op3) /\ Invited(t, p) /\ AnswersBack(t, p) /\ TakenOver(t, p, in2)
    BY <1>1 DEF Worded, InFlight, Invited, AnswersBack, TakenOver
  <2>2. Keeping(t, to \cup out)
    BY <1>1 DEF Keeping, Plain, Media, Told
  <2> QED BY <2>1, <2>2 DEF Told
<1>3. Told(p, t, to \cup out, in2, op2)
  <2>1. Worded(p) /\ InFlight(p, op2) /\ Invited(p, t) /\ Keeping(p, in2)
    BY <1>1 DEF Media, Told, Invited, Keeping
  <2>2. AnswersBack(p, t)
    BY <1>1 DEF AnswersBack
  <2>3. TakenOver(p, t, to \cup out)
    <3> SUFFICES ASSUME NEW y \in Outcomes(t, to \cup out), Accepts(p, y), p.state \in Proposing
                 PROVE  p.sent.sdp = NoSdp /\ y.sdp = NoSdp
      BY DEF TakenOver
    <3>1. y \in Outcomes(s, to)
      BY <1>1, OldOutcome DEF Accepts
    <3>2. TakenOver(p, s, to)
      BY DEF Media, Told
    <3> QED BY <3>1, <3>2 DEF TakenOver, Crossed, Accepted
  <2> QED BY <2>1, <2>2, <2>3 DEF Told
<1>4. Exclusive(t, p, in2, to \cup out)
  BY <1>1 DEF Exclusive, Accepted
<1>5. Settles(t, p, in2, to \cup out)
  BY DEF Settles
<1> QED BY <1>2, <1>3, <1>4, <1>5 DEF Media

\* The application of s answers the offer of p in a 200.
Answering200(s, t, p, y) ==
  /\ t.state = "Connected" /\ t.acks = s.acks /\ t.out = {y} /\ isReply(y) /\ Accepts(p, y)
  /\ y.sdp # NoSdp /\ t.local = y.sdp /\ t.remote = p.sent.sdp /\ p.sent.sdp # NoSdp

\* The 200 that answers the offer of p is the only response to it.
LEMMA MediaAnswers ==
  ASSUME NEW s, NEW p, NEW in, NEW to, NEW op, NEW op2, Media(s, p, in, to, op, op2),
         Awaits(p), Requested(p), NEW t, NEW y, Answering200(s, t, p, y),
         \A z \in Outcomes(t, to \cup t.out) : z.n = p.cseq => z = y
  PROVE  Media(t, p, in, to \cup t.out, op, op2)
<1>1. /\ t.state = "Connected" /\ t.acks = s.acks /\ t.out = {y} /\ isReply(y) /\ Accepts(p, y)
      /\ y.sdp # NoSdp /\ t.local = y.sdp /\ t.remote = p.sent.sdp /\ p.sent.sdp # NoSdp
      /\ t.state \notin Proposing
  BY DEF Answering200, Proposing
<1>2. /\ p.state \notin {"SentReinviteAnswered", "ReceivedReinviteSentOffer", "SentReinviteNoOffer"}
      /\ isTerminated(p) \/ p.state \in Proposing
  BY <1>1 DEF Awaits, Awaiting, Asking, Requested, Empty, isTerminated, Proposing
<1>3. Told(t, p, in, to \cup t.out, op)
  <2>1. Worded(t) /\ InFlight(t, op) /\ Invited(t, p) /\ TakenOver(t, p, in)
    BY <1>1 DEF Worded, InFlight, Invited, TakenOver
  <2>2. AnswersBack(t, p)
    BY <1>2 DEF AnswersBack
  <2>3. Keeping(t, to \cup t.out)
    BY <1>1 DEF Keeping, Media, Told, isReply
  <2> QED BY <2>1, <2>2, <2>3 DEF Told
<1>4. Told(p, t, to \cup t.out, in, op2)
  <2>1. Worded(p) /\ InFlight(p, op2) /\ Keeping(p, in)
    BY DEF Media, Told
  <2>2. Invited(p, t) /\ AnswersBack(p, t)
    BY <1>1, <1>2 DEF AnswersBack, Invited
  <2>3. TakenOver(p, t, to \cup t.out)
    BY <1>1 DEF TakenOver, Accepts
  <2> QED BY <2>1, <2>2, <2>3 DEF Told
<1>5. Exclusive(t, p, in, to \cup t.out)
  BY <1>1 DEF Exclusive, Accepted
<1>6. Settles(t, p, in, to \cup t.out)
  <2>1. y \in Outcomes(t, to \cup t.out)
    BY <1>1, InOutcomes
  <2> QED BY <1>1, <1>2, <2>1 DEF Settles, Crossed, Accepted
<1> QED BY <1>3, <1>4, <1>5, <1>6 DEF Media

\* The application of s makes an offer in the 200 that p asked for.
OfferingBack(s, t, p) ==
  /\ t.state = "ReceivedReinviteSentOffer" /\ t.acks = s.acks
  /\ t.local = s.local /\ t.remote = s.remote /\ t.out = {t.ok} /\ t.ok.method = "INVITE"
  /\ t.propLocal = t.ok.sdp /\ t.ok.sdp # NoSdp /\ t.ok.n = p.cseq

\* The offer of s is on the table, and p knows nothing of it yet.
LEMMA MediaOffersBack ==
  ASSUME NEW s, NEW p, NEW in, NEW to, NEW op, NEW op2, Media(s, p, in, to, op, op2),
         s.state \in Undecided, p.sent.sdp = NoSdp, p.sent.method = "INVITE",
         Awaits(p), Requested(p), NEW t, OfferingBack(s, t, p), p.cseq \in Nat,
         \A a \in p.acks : a.n \in Nat
  PROVE  Media(t, p, in, to \cup t.out, op, op2)
<1>1. /\ t.state = "ReceivedReinviteSentOffer" /\ t.acks = s.acks
      /\ t.local = s.local /\ t.remote = s.remote /\ t.out = {t.ok} /\ t.ok.method = "INVITE"
      /\ t.propLocal = t.ok.sdp /\ t.ok.sdp # NoSdp /\ t.ok.n = p.cseq
  BY DEF OfferingBack
<1>2. p.state \in {"WaitingToTerminate", "SentReinviteNoOffer", "Terminated"}
  BY DEF Awaits, Awaiting, Asking, Requested
<1>3. /\ s.state \notin Proposing /\ t.state \notin Proposing /\ p.state \notin Proposing
      /\ s.state # "ReceivedReinviteSentOffer" /\ p.state # "ReceivedReinviteSentOffer"
  BY <1>1, <1>2 DEF Proposing, Undecided
<1>4. \A a \in p.acks : a.n # t.ok.n \/ isTerminated(p)
  BY <1>1, <1>2 DEF Requested, Unacked, Asking, isTerminated
<1>5. Told(t, p, in, to \cup t.out, op)
  <2>1. Worded(t) /\ InFlight(t, op) /\ Invited(t, p)
    BY <1>1 DEF Worded, InFlight, Invited
  <2>2. AnswersBack(t, p) /\ TakenOver(t, p, in)
    BY <1>3 DEF AnswersBack, TakenOver
  <2>3. Keeping(t, to \cup t.out)
    BY <1>1 DEF Keeping, Media, Told
  <2> QED BY <2>1, <2>2, <2>3 DEF Told
<1>6. Told(p, t, to \cup t.out, in, op2)
  <2>1. Worded(p) /\ InFlight(p, op2) /\ Keeping(p, in)
    BY DEF Media, Told
  <2>2. Invited(p, t) /\ TakenOver(p, t, to \cup t.out)
    BY <1>2, <1>3 DEF Invited, TakenOver
  <2>3. AnswersBack(p, t)
    BY <1>4 DEF AnswersBack
  <2> QED BY <2>1, <2>2, <2>3 DEF Told
<1>7. Exclusive(t, p, in, to \cup t.out)
  BY <1>3 DEF Exclusive, Accepted
<1>8. Settles(t, p, in, to \cup t.out)
  <2>1. isTerminated(s) \/ isTerminated(p) \/ Match(s, p)
    BY <1>3 DEF Media, Settles, Crossed, Accepted, Returned
  <2>2. ~isTerminated(s)
    BY DEF Undecided, isTerminated
  <2> QED BY <1>1, <2>1, <2>2 DEF Settles, Match
<1> QED BY <1>5, <1>6, <1>7, <1>8 DEF Media

\* The application of s answers the offer of p in an ACK.
AnsweringAck(s, t, p, ack) ==
  /\ t.state = "Connected" /\ t.ok = s.ok /\ t.acks = s.acks \cup {ack} /\ t.out = {ack}
  /\ ack.method = "ACK" /\ ack.n = p.ok.n /\ t.local = ack.sdp /\ t.remote = p.ok.sdp

\* The ACK that answers the offer of p is the only one it may have.
LEMMA MediaAnswersInAck ==
  ASSUME NEW s, NEW p, NEW in, NEW to, NEW op, NEW op2, Media(s, p, in, to, op, op2),
         p.state = "ReceivedReinviteSentOffer" \/ isTerminated(p),
         \A a \in s.acks : a.n # p.ok.n,
         NEW t, NEW ack, AnsweringAck(s, t, p, ack), NEW in2, in2 \subseteq in, NEW op3
  PROVE  Media(t, p, in2, to \cup t.out, op3, op2)
<1>1. /\ t.state = "Connected" /\ t.ok = s.ok /\ t.acks = s.acks \cup {ack} /\ t.out = {ack}
      /\ ack.method = "ACK" /\ ack.n = p.ok.n /\ t.local = ack.sdp /\ t.remote = p.ok.sdp
      /\ t.state \notin Proposing
  BY DEF AnsweringAck, Proposing
<1>2. p.state \notin Proposing \cup {"SentReinviteAnswered"}
  BY DEF Proposing, isTerminated
<1>3. Told(t, p, in2, to \cup t.out, op3)
  <2>1. Worded(t) /\ InFlight(t, op3) /\ Invited(t, p) /\ TakenOver(t, p, in2)
    BY <1>1 DEF Worded, InFlight, Invited, TakenOver
  <2>2. AnswersBack(t, p)
    <3>1. p.state = "ReceivedReinviteSentOffer" => p.propLocal = p.ok.sdp
      BY DEF Media, Told, Worded
    <3> QED BY <1>1, <3>1 DEF AnswersBack
  <2>3. Keeping(t, to \cup t.out)
    BY <1>1 DEF Keeping, Media, Told
  <2> QED BY <2>1, <2>2, <2>3 DEF Told
<1>4. Told(p, t, to \cup t.out, in2, op2)
  <2>1. Worded(p) /\ InFlight(p, op2) /\ Keeping(p, in2)
    BY DEF Media, Told, Keeping
  <2>2. Invited(p, t) /\ AnswersBack(p, t) /\ TakenOver(p, t, to \cup t.out)
    BY <1>1, <1>2 DEF Invited, AnswersBack, TakenOver
  <2> QED BY <2>1, <2>2 DEF Told
<1>5. Exclusive(t, p, in2, to \cup t.out)
  BY <1>1 DEF Exclusive, Accepted
<1>6. Settles(t, p, in2, to \cup t.out)
  BY <1>1 DEF Settles, Returned
<1> QED BY <1>3, <1>4, <1>5, <1>6 DEF Media

-----------------------------------------------------------------------------
(* What the handlers make of the descriptions. *)

\* The response to the last request.
Concerns(s, m) == isReply(m) /\ m.n = s.cseq /\ m.method = s.sent.method

\* The ACK that s waits for, or one that is taken for it.
Awaited(s, t, m) == m.method = "ACK" /\ (t.misled \/ m.n = s.ok.n)

\* The offer of s is dropped with m.
Drops(s, t, m) ==
  /\ Leaving(s, t, t.out) /\ Plain(t, t.out) /\ t.state # "SentReinviteAnswered"
  /\ s.state \in Proposing =>
       Concerns(s, m) /\ (m.code = 200 => m.sdp = NoSdp \/ s.sent.sdp = NoSdp)
  /\ s.state = "ReceivedReinviteSentOffer" => Awaited(s, t, m) /\ m.sdp = NoSdp
  /\ \/ t.acks = s.acks
     \/ /\ isOk(m) /\ m.sdp = NoSdp /\ m.n = s.cseq
        /\ \A a \in t.acks : a \in s.acks \/ a.n = s.cseq

\* The offer that s asked for has come with m.
Offers200(s, t, m) ==
  /\ Leaving(s, t, t.out) /\ Plain(t, t.out) /\ t.acks = s.acks
  /\ s.state = "SentReinviteNoOffer" /\ t.state = "SentReinviteAnswered"
  /\ isOk(m) /\ m.n = s.cseq /\ t.propRemote = m.sdp

\* The refresh m is answered.
Refreshed(s, t, m) ==
  /\ Leaving(s, t, t.out) /\ t.acks = s.acks /\ s.state \in Free /\ t.state = s.state
  /\ isOffering(m) /\ m.sdp = NoSdp
  /\ \E y \in t.out : t.out = {y} /\ y.sdp = NoSdp

\* The offer of s is answered with m.
Concludes(s, t, m) ==
  /\ Concluding(s, t, t.out) /\ t.local = s.propLocal /\ t.remote = m.sdp /\ m.sdp # NoSdp
  /\ \/ s.state \in Proposing /\ Concerns(s, m) /\ m.code = 200
     \/ s.state = "ReceivedReinviteSentOffer" /\ Awaited(s, t, m)

\* What s makes of m.
Hearing(s, t, m) ==
  \/ Quitting(s, t, t.out)
  \/ Staying(s, t, t.out) /\ (s.state \in {"SentUpdate", "SentReinvite"} => ~Concerns(s, m))
  \/ Drops(s, t, m)
  \/ Offers200(s, t, m)
  \/ Refreshed(s, t, m)
  \/ Proposes(s, t) /\ Concerns(s, m) /\ m.code = 422
  \/ Concludes(s, t, m)

\* Hangup and end.
LEMMA MediaHangup ==
  ASSUME NEW s, NEW u \in Sessions, u.out = {} \/ Plain(u, u.out), u.ok = s.ok, s.acks \subseteq u.acks
  PROVE  Quitting(s, Hangup(u), Hangup(u).out)
<1> DEFINE t == Hangup(u)
           bye == Request("BYE", 0, NoSdp)
<1>1. /\ t.state = "Terminated" /\ t.ok = u.ok /\ t.acks = u.acks /\ t.out = u.out \cup {bye}
  BY DEF Hangup, Send, Sessions
<1>2. bye.method = "BYE"
  BY DEF Request
<1> HIDE DEF t, bye
<1>3. Plain(t, t.out)
  BY <1>1, <1>2 DEF Plain, isReply
<1> QED BY <1>1, <1>3 DEF Quitting, isTerminated, t

\* A handler that does nothing.
LEMMA MediaSame ==
  ASSUME NEW s, Ready(s)
  PROVE  Staying(s, s, s.out) /\ (isTerminated(s) => Quitting(s, s, s.out))
BY DEF Ready, Staying, SameMedia, Plain, Quitting

\* The application ends the session.
LEMMA MediaEnd ==
  ASSUME NEW s, Ready(s)
  PROVE  Quitting(s, end(s), end(s).out)
<1> DEFINE t == end(s)
<1>1. CASE s.state \in Asking \/ (s.state = "ReceivedReinviteSentOffer" /\ s.re200)
  <2>1. t = [s EXCEPT !.state = "WaitingToTerminate"] \/ t = [s EXCEPT !.state = "WaitingToHangup"]
    BY <1>1 DEF end, Become, Asking, Undecided
  <2> HIDE DEF t
  <2>2. t.out = {} /\ t.ok = s.ok /\ t.acks = s.acks /\ t.state \in {"WaitingToTerminate", "WaitingToHangup"}
    BY <2>1 DEF Ready, Sessions
  <2> QED BY <2>2 DEF Quitting, isTerminated, Plain, t
<1>2. CASE s.state \in Undecided
  <2> DEFINE y == Response(s.got, 488, NoSdp)
             u == Send(s, y)
  <2>1. /\ s.state \notin {"SentReinvite", "SentReinviteNoOffer"} /\ s.state # "Terminated"
        /\ ~(s.state = "ReceivedReinviteSentOffer" /\ s.re200) /\ s.state # "WaitingToHangup"
    BY <1>2 DEF Undecided
  <2>2. t = Hangup(u)
    BY <1>2, <2>1 DEF end
  <2>3. isOffering(s.got) /\ s.got \in Messages
    BY <1>2, FieldTypes DEF Ready, Sound, Pending
  <2>4. y \in Messages /\ y.code = 488 /\ y.method # "ACK"
    <3>1. y \in Messages
      BY <2>3, Negatives, ResponseTypes DEF Replies
    <3>2. y.code = 488 /\ y.method = s.got.method
      BY <2>3 DEF Response, Messages
    <3> QED BY <2>3, <3>1, <3>2 DEF isOffering
  <2>5. u \in Sessions /\ u.ok = s.ok /\ u.acks = s.acks /\ u.out = {y}
    <3> HIDE DEF y
    <3> QED BY <2>4 DEF Send, Ready, Sessions
  <2>6. Plain(u, u.out)
    BY <2>4, <2>5 DEF Plain
  <2> HIDE DEF u, t
  <2>7. Quitting(s, Hangup(u), Hangup(u).out)
    BY <2>5, <2>6, MediaHangup
  <2> QED BY <2>2, <2>7 DEF t
<1>3. CASE s.state \in {"Terminated", "WaitingToHangup"}
  <2>1. t = s \/ t = [s EXCEPT !.bad = TRUE]
    BY <1>3 DEF end, Undecided, Asserting, Ready, Sessions
  <2> HIDE DEF t
  <2>2. t.out = {} /\ t.ok = s.ok /\ t.acks = s.acks /\ t.state = s.state
    BY <2>1 DEF Ready, Sessions
  <2> QED BY <1>3, <2>2 DEF Quitting, isTerminated, Plain, t
<1>4. CASE /\ s.state \notin Asking \cup Undecided \cup {"Terminated", "WaitingToHangup"}
           /\ ~(s.state = "ReceivedReinviteSentOffer" /\ s.re200)
  <2>1. t = Hangup(s)
    BY <1>4 DEF end, Asking
  <2>2. s \in Sessions /\ s.out = {}
    BY DEF Ready
  <2>3. Quitting(s, Hangup(s), Hangup(s).out)
    BY <2>2, MediaHangup
  <2> QED BY <2>1, <2>3
<1> QED BY <1>1, <1>2, <1>3, <1>4

\* A request is turned down.
LEMMA MediaDeclines ==
  ASSUME NEW s, Ready(s), NEW m, Expected(s, m), isOffering(m), NEW code, code \notin {0, 200}
  PROVE  Hearing(s, Send(s, Response(m, code, NoSdp)), m)
<1> DEFINE y == Response(m, code, NoSdp)
           t == Send(s, y)
<1>1. y.code = code /\ y.method = m.method
  BY DEF Expected, Messages, Response
<1> HIDE DEF y
<1>2. /\ t.out = {y} /\ SameMedia(s, t) /\ t.acks = s.acks /\ t.state = s.state /\ t.got = s.got
      /\ t.propLocal = s.propLocal /\ t.propRemote = s.propRemote
  BY DEF Send, Ready, Sessions, SameMedia
<1> HIDE DEF t
<1>3. Staying(s, t, t.out)
  BY <1>1, <1>2 DEF Staying, Plain, isOffering
<1>4. ~Concerns(s, m)
  BY MessageKinds DEF Concerns
<1> QED BY <1>3, <1>4 DEF Hearing, t, y

\* A message that changes nothing.
LEMMA MediaNothing ==
  ASSUME NEW s, Ready(s), NEW m, s.state \in Proposing => ~Concerns(s, m)
  PROVE  Hearing(s, s, m)
BY MediaSame DEF Hearing, Proposing

\* A BYE, or an ACK that nobody waits for.
LEMMA MediaOthers ==
  ASSUME NEW s, Ready(s), NEW m, m.method \in {"ACK", "BYE"}
  PROVE  Hearing(s, dispatchOthers(s, m), m)
<1> DEFINE t == dispatchOthers(s, m)
<1>1. CASE m.method = "BYE"
  <2>1. t = [s EXCEPT !.state = "Terminated", !.owed = FALSE]
    BY <1>1 DEF dispatchOthers
  <2>2. t.state = "Terminated" /\ t.ok = s.ok /\ t.acks = s.acks /\ t.out = {}
    BY <2>1 DEF Ready, Sessions
  <2> HIDE DEF t
  <2> QED BY <2>2 DEF Hearing, Quitting, isTerminated, Plain, t
<1>2. CASE m.method = "ACK"
  <2>1. t = s
    BY <1>2 DEF dispatchOthers
  <2>2. ~Concerns(s, m)
    BY <1>2 DEF Concerns, isReply
  <2> QED BY <2>1, <2>2, MediaNothing
<1> QED BY <1>1, <1>2

\* dispatchConnected, which dispatchGlare uses too.
LEMMA MediaConnected ==
  ASSUME NEW s, Ready(s), Worded(s), s.state \in Free, NEW m, Expected(s, m),
         isOk(m) => \A a \in s.acks : a.n # m.n
  PROVE  Hearing(s, dispatchConnected(s, m), m)
<1> DEFINE t == dispatchConnected(s, m)
<1>1. /\ ~Awaits(s) /\ s.state \notin Proposing \cup Unacked \cup {"ReceivedReinviteSentOffer", "SentReinviteAnswered"}
      /\ s.state # "Terminated" /\ ~isTerminated(s)
  BY DEF Free, Awaits, Awaiting, Asking, AskingAgain, Proposing, isTerminated, Unacked
<1>2. ~isReply(m)
  BY <1>1 DEF Expected
<1>3. CASE isOffering(m) /\ ~(m.method = "UPDATE" /\ m.sdp = NoSdp)
  <2> DEFINE state == IF m.method = "UPDATE" THEN "ReceivedUpdate"
                      ELSE IF m.sdp = NoSdp THEN "ReceivedReinviteNoOffer" ELSE "ReceivedReinvite"
  <2>1. /\ t.state = state /\ t.got = m /\ SameMedia(s, t) /\ t.acks = s.acks /\ t.out = {}
        /\ state # "ReceivedReinviteNoOffer" => t.propRemote = m.sdp
    BY <1>3 DEF dispatchConnected, isOffering, Ready, Sessions, SameMedia
  <2> HIDE DEF t
  <2>2. Worded(t)
    BY <1>3, <2>1 DEF Worded
  <2>3. /\ state \notin Proposing \cup {"ReceivedReinviteSentOffer", "SentReinviteAnswered"}
        /\ ~isTerminated(t)
    BY <2>1 DEF Proposing, isTerminated
  <2> HIDE DEF state
  <2>4. Leaving(s, t, t.out) /\ Plain(t, t.out)
    BY <1>1, <2>1, <2>2, <2>3 DEF Leaving, Plain
  <2> QED BY <1>1, <2>1, <2>3, <2>4 DEF Hearing, Drops, t
<1>4. CASE isOffering(m) /\ m.method = "UPDATE" /\ m.sdp = NoSdp
  <2> DEFINE u == [s EXCEPT !.got = m]
             y == Response(m, 200, NoSdp)
  <2>1. y.sdp = NoSdp /\ y.method = "UPDATE"
    BY <1>4 DEF Expected, Messages, Response
  <2>2. t = Send(u, y)
    BY <1>4 DEF dispatchConnected, isOffering
  <2> HIDE DEF y
  <2>3. /\ t.state = s.state /\ t.got = m /\ SameMedia(s, t) /\ t.acks = s.acks /\ t.out = {y}
        /\ t.propLocal = s.propLocal /\ t.propRemote = s.propRemote /\ t.sent = s.sent
    BY <2>2 DEF Send, Ready, Sessions, SameMedia
  <2> HIDE DEF t
  <2>4. Worded(t)
    BY <1>1, <2>3 DEF Worded, Free, AskingAgain
  <2>5. Leaving(s, t, t.out)
    BY <1>1, <2>1, <2>3, <2>4 DEF Leaving, isTerminated
  <2>6. Refreshed(s, t, m)
    BY <1>4, <2>1, <2>3, <2>5 DEF Refreshed
  <2> QED BY <2>6 DEF Hearing, t
<1>5. CASE m.method = "ACK"
  <2> DEFINE b == s.misled \/ (s.re200 /\ m.n # s.ok.n)
  <2>1. t = [s EXCEPT !.re200 = FALSE, !.misled = b]
    BY <1>5 DEF dispatchConnected, gotAck, Ready, Sessions
  <2> HIDE DEF b
  <2>2. /\ t.state = s.state /\ SameMedia(s, t) /\ t.acks = s.acks /\ t.got = s.got
        /\ t.propLocal = s.propLocal /\ t.propRemote = s.propRemote /\ t.out = {}
    BY <2>1 DEF Ready, Sessions, SameMedia
  <2> HIDE DEF t
  <2>3. Staying(s, t, t.out)
    BY <2>2 DEF Staying, Plain
  <2> QED BY <1>1, <2>3 DEF Hearing, Proposing, t
<1>6. CASE m.method = "BYE"
  <2>1. t = dispatchOthers(s, m)
    BY <1>6 DEF dispatchConnected
  <2> QED BY <1>6, <2>1, MediaOthers
<1>7. ~isReply(m) => isOffering(m) \/ m.method \in {"ACK", "BYE"}
  BY MessageKinds
<1> QED BY <1>2, <1>3, <1>4, <1>5, <1>6, <1>7

\* dispatchGlare.
LEMMA MediaGlareMet ==
  ASSUME NEW s, Ready(s), Worded(s), s.state \in {"SentUpdateGlare"} \cup AskingAgain,
         NEW m, Expected(s, m), NEW quits \in BOOLEAN,
         isOk(m) => \A a \in s.acks : a.n # m.n
  PROVE  Hearing(s, dispatchGlare(s, m, quits), m)
<1> DEFINE u == [s EXCEPT !.owed = FALSE]
           t == dispatchGlare(s, m, quits)
<1>1. /\ s.state \in Free /\ ~Awaits(s)
      /\ s.state \notin Undecided \cup Unacked \cup Asking \cup ToAnswer \cup Waiters
      /\ s.state # "Terminated"
  BY DEF Free, AskingAgain, Awaits, Awaiting, Undecided, Unacked, Asking, ToAnswer, Waiters
<1>2. ~isReply(m)
  BY <1>1 DEF Expected
<1>3. /\ u \in Sessions /\ u.state = s.state /\ SameRequest(s, u) /\ u.out = {}
      /\ u.got = s.got /\ u.ok = s.ok /\ u.re200 = s.re200 /\ u.misled = s.misled
      /\ u.propLocal = s.propLocal /\ u.propRemote = s.propRemote /\ u.refresh = s.refresh
      /\ u.bad = s.bad /\ ~u.owed /\ u.local = s.local /\ u.remote = s.remote
  BY DEF Ready, Sessions, SameRequest
<1> HIDE DEF u
<1>4. Ready(u)
  <2>1. Fit(u)
    BY <1>3, GoesLike DEF Ready, SameRequest, Same200
  <2>2. Sound(u)
    BY <1>1, <1>3 DEF Ready, Sound, Requested, Repeating, Proposed, Unhurt, SameRequest, Waiters
  <2> QED BY <1>3, <2>1, <2>2 DEF Ready, SameRequest
<1>5. CASE isOffering(m) /\ quits
  <2> DEFINE y == Response(m, 481, NoSdp)
             w == end(u)
  <2>1. y.code = 481 /\ y.method = m.method
    BY <1>5 DEF Expected, Messages, Response
  <2>2. w = Hangup(u)
    BY <1>1, <1>3 DEF end, Asking, Waiters
  <2>3. t = Send(w, y)
    BY <1>5 DEF dispatchGlare, dispatchTerminated, u
  <2>4. w = [u EXCEPT !.state = "Terminated", !.owed = FALSE, !.out = {Request("BYE", 0, NoSdp)}]
    BY <1>3, <2>2 DEF Hangup, Send, Sessions
  <2>5. Quitting(u, w, w.out)
    BY <1>4, MediaEnd
  <2>6. /\ t.ok = w.ok /\ t.acks = w.acks /\ t.state = w.state /\ t.out = w.out \cup {y}
    <3> HIDE DEF w, y
    <3> QED BY <1>3, <2>3, <2>4 DEF Send, Sessions
  <2> HIDE DEF w, y, t
  <2>7. Quitting(s, t, t.out)
    BY <1>3, <1>5, <2>1, <2>5, <2>6 DEF Quitting, Plain, isTerminated, SameRequest, isOffering
  <2> QED BY <2>7 DEF Hearing, t
<1>6. CASE isOffering(m) /\ ~quits
  <2>1. t = dispatchConnected(u, m)
    BY <1>6 DEF dispatchGlare, u
  <2> HIDE DEF t
  <2>2. Expected(u, m) /\ ~isOk(m)
    BY <1>3, <1>6 DEF Expected, SameRequest, Awaits, isOk, isOffering
  <2>3. Worded(u)
    BY <1>3 DEF Worded, SameRequest
  <2>4. Hearing(u, t, m)
    BY <1>1, <1>3, <1>4, <2>1, <2>2, <2>3, MediaConnected
  <2>5. /\ Quitting(u, t, t.out) => Quitting(s, t, t.out)
        /\ Staying(u, t, t.out) => Staying(s, t, t.out)
        /\ Leaving(u, t, t.out) => Leaving(s, t, t.out)
        /\ Concluding(u, t, t.out) => Concluding(s, t, t.out)
        /\ Proposes(u, t) => Proposes(s, t)
        /\ Concerns(u, m) => Concerns(s, m)
    BY <1>3 DEF Quitting, Staying, Leaving, Concluding, Proposes, SameMedia, SameRequest, isTerminated, Concerns
  <2>6. u.state \notin Proposing \cup {"ReceivedReinviteSentOffer", "SentReinviteNoOffer"}
    BY <1>3 DEF AskingAgain, Proposing
  <2>7. /\ Drops(u, t, m) => Drops(s, t, m)
        /\ ~Offers200(u, t, m)
        /\ Refreshed(u, t, m) => Refreshed(s, t, m)
        /\ ~Concludes(u, t, m)
    BY <1>3, <2>5, <2>6 DEF Drops, Offers200, Refreshed, Concludes, SameRequest
  <2>8. s.state \notin Proposing
    BY <1>3, <2>6
  <2> QED BY <2>4, <2>5, <2>7, <2>8 DEF Hearing, t, Proposing
<1>7. CASE m.method \in {"ACK", "BYE"}
  <2>1. t = dispatchOthers(s, m)
    BY <1>7 DEF dispatchGlare, isOffering
  <2> QED BY <1>7, <2>1, MediaOthers
<1> QED BY <1>2, <1>5, <1>6, <1>7, MessageKinds

\* dispatchSentReinviteAnswered.
LEMMA MediaAnswered ==
  ASSUME NEW s, Ready(s), s.state = "SentReinviteAnswered", NEW m, Expected(s, m)
  PROVE  Hearing(s, dispatchSentReinviteAnswered(s, m), m)
<1> DEFINE t == dispatchSentReinviteAnswered(s, m)
<1>1. ~isOffering(m) /\ (isReply(m) => isOk(m)) /\ s.state \notin Proposing
  BY DEF Expected, Awaits, Awaiting, Asking, Proposing
<1>2. CASE isOk(m)
  <2>1. t = s
    BY <1>2 DEF dispatchSentReinviteAnswered, isOk
  <2> QED BY <1>1, <2>1, MediaNothing
<1>3. CASE m.method \in {"ACK", "BYE"}
  <2>1. t = dispatchOthers(s, m)
    BY <1>3 DEF dispatchSentReinviteAnswered
  <2> QED BY <1>3, <2>1, MediaOthers
<1> QED BY <1>1, <1>2, <1>3, MessageKinds

\* dispatchReceivedUpdateOrReinvite.
LEMMA MediaUndecided ==
  ASSUME NEW s, Ready(s), s.state \in Undecided, NEW m, Expected(s, m),
         isOk(m) => \A a \in s.acks : a.n # m.n
  PROVE  Hearing(s, dispatchReceivedUpdateOrReinvite(s, m), m)
<1>1. ~isOffering(m) /\ ~isReply(m)
  BY DEF Expected, Awaits, Awaiting, Unacked, Asking, Undecided
<1>2. dispatchReceivedUpdateOrReinvite(s, m) = dispatchOthers(s, m) /\ m.method \in {"ACK", "BYE"}
  BY <1>1, MessageKinds DEF dispatchReceivedUpdateOrReinvite
<1> QED BY <1>2, MediaOthers

\* dispatchTerminated.
LEMMA MediaTerminated ==
  ASSUME NEW s, Ready(s), s.state = "Terminated", NEW m, Expected(s, m)
  PROVE  Hearing(s, dispatchTerminated(s, m), m)
<1>1. CASE isOffering(m)
  <2>1. dispatchTerminated(s, m) = Send(s, Response(m, 481, NoSdp))
    BY <1>1 DEF dispatchTerminated
  <2> QED BY <1>1, <2>1, MediaDeclines
<1>2. CASE ~isOffering(m)
  <2>1. dispatchTerminated(s, m) = s
    BY <1>2 DEF dispatchTerminated
  <2> QED BY <2>1, MediaNothing DEF Proposing
<1> QED BY <1>1, <1>2

\* dispatchWaitingToHangup.
LEMMA MediaWaitingToHangup ==
  ASSUME NEW s, Ready(s), s.state = "WaitingToHangup", NEW m
  PROVE  Hearing(s, dispatchWaitingToHangup(s, m), m)
<1> DEFINE t == dispatchWaitingToHangup(s, m)
           u == gotAck(s, m)
<1>1. CASE m.method = "ACK"
  <2>1. t = Hangup(u)
    BY <1>1 DEF dispatchWaitingToHangup
  <2>2. u \in Sessions /\ u.out = {} /\ u.ok = s.ok /\ u.acks = s.acks
    BY DEF gotAck, Ready, Sessions
  <2> HIDE DEF u, t
  <2>3. Quitting(s, Hangup(u), Hangup(u).out)
    BY <2>2, MediaHangup
  <2> QED BY <2>1, <2>3 DEF Hearing, t
<1>2. CASE m.method # "ACK"
  <2>1. t = s
    BY <1>2 DEF dispatchWaitingToHangup
  <2> QED BY <2>1, MediaNothing DEF Proposing
<1> QED BY <1>1, <1>2

\* sendAck, in a session w that has no ACK for its last request.
LEMMA MediaSendsAck ==
  ASSUME NEW w, NEW sdp, Recorded(w), w.sent.method = "INVITE", \A a \in w.acks : a.n # w.sent.n,
         w.out = {}
  PROVE  LET t == sendAck(w, sdp)
             ack == Request("ACK", w.sent.n, sdp)
         IN  /\ Recorded(t) /\ SameMedia(w, t) /\ t.acks = w.acks \cup {ack} /\ t.out = {ack}
             /\ t.state = w.state /\ t.propLocal = w.propLocal /\ t.propRemote = w.propRemote
             /\ ack.method = "ACK" /\ ack.n = w.sent.n /\ ack.sdp = sdp /\ ~isReply(ack)
<1> DEFINE ack == Request("ACK", w.sent.n, sdp)
           fresh == \A a \in w.acks : w.sent.method = "UPDATE" \/ a.n # w.sent.n
           b == w.bad \/ ~(fresh /\ (w.sent.method = "UPDATE" => w.uac))
           kept == {a \in w.acks : a.n # w.sent.n}
           t == sendAck(w, sdp)
<1>1. t = [w EXCEPT !.bad = b, !.acks = kept \cup {ack}, !.out = w.out \cup {ack}]
  BY DEF sendAck, Asserting, Send, Recorded
<1>2. kept = w.acks /\ w.out \cup {ack} = {ack}
  OBVIOUS
<1>3. ack.method = "ACK" /\ ack.n = w.sent.n /\ ack.sdp = sdp /\ ~isReply(ack)
  BY DEF Request, isReply
<1> HIDE DEF ack, b, kept, t
<1>4. /\ Recorded(t) /\ SameMedia(w, t) /\ t.acks = w.acks \cup {ack} /\ t.out = {ack}
      /\ t.state = w.state /\ t.propLocal = w.propLocal /\ t.propRemote = w.propRemote
  BY <1>1, <1>2 DEF Recorded, Fields, SameMedia
<1> QED BY <1>3, <1>4 DEF t, ack

\* dispatchWaitingToTerminate.
LEMMA MediaWaitingToTerminate ==
  ASSUME NEW s, Ready(s), s.state = "WaitingToTerminate", NEW m, Expected(s, m),
         isOk(m) => \A a \in s.acks : a.n # m.n
  PROVE  Hearing(s, dispatchWaitingToTerminate(s, m), m)
<1> DEFINE t == dispatchWaitingToTerminate(s, m)
<1>1. s.state \in Unacked /\ s.sent.method = "INVITE" /\ s.sent.n = s.cseq /\ s.state \notin Proposing
  BY DEF Ready, Sound, Requested, Unacked, Proposing
<1>2. CASE isOffering(m)
  <2>1. t = Send(s, Response(m, 400, NoSdp))
    BY <1>2 DEF dispatchWaitingToTerminate, isOffering
  <2> QED BY <1>2, <2>1, MediaDeclines
<1>3. CASE isReply(m) /\ ~isOk(m)
  <2>1. m.method = "INVITE"
    BY <1>1, <1>3 DEF Expected
  <2>2. t = Hangup(s)
    BY <1>3, <2>1 DEF dispatchWaitingToTerminate, isReply, isOk, isOffering
  <2>3. s \in Sessions /\ s.out = {}
    BY DEF Ready
  <2>4. Quitting(s, Hangup(s), Hangup(s).out)
    BY <2>3, MediaHangup
  <2> QED BY <2>2, <2>4 DEF Hearing
<1>4. CASE isOk(m)
  <2> DEFINE w == sendAck(s, NoSdp)
             ack == Request("ACK", s.sent.n, NoSdp)
             bye == Request("BYE", 0, NoSdp)
  <2>1. t = Hangup(w)
    BY <1>4 DEF dispatchWaitingToTerminate, isOk, isOffering
  <2>2. /\ Recorded(w) /\ w.ok = s.ok /\ w.acks = s.acks \cup {ack} /\ w.out = {ack} /\ ~isReply(ack)
    <3>1. Recorded(s) /\ s.out = {} /\ \A a \in s.acks : a.n # s.sent.n
      BY <1>1, RecordedSession, KeptAcks DEF Ready, Sound, Requested
    <3> QED BY <1>1, <3>1, MediaSendsAck DEF SameMedia
  <2>3. bye.method = "BYE"
    BY DEF Request
  <2> HIDE DEF w, ack, bye
  <2>4. t.state = "Terminated" /\ t.ok = w.ok /\ t.acks = w.acks /\ t.out = w.out \cup {bye}
    BY <2>1, <2>2 DEF Hangup, Send, Recorded, Fields, bye
  <2> HIDE DEF t
  <2>5. Quitting(s, t, t.out)
    BY <2>2, <2>3, <2>4 DEF Quitting, isTerminated, Plain, isReply
  <2> QED BY <2>5 DEF Hearing, t
<1>5. CASE m.method = "BYE"
  <2>1. t = dispatchOthers(s, m)
    BY <1>5 DEF dispatchWaitingToTerminate, isOffering
  <2> QED BY <1>5, <2>1, MediaOthers
<1>6. CASE m.method = "ACK"
  <2>1. t = s
    BY <1>6 DEF dispatchWaitingToTerminate, isOffering
  <2> QED BY <1>1, <2>1, MediaNothing
<1> QED BY <1>2, <1>3, <1>4, <1>5, <1>6, MessageKinds

\* dispatchReceivedReinviteSentOffer.
LEMMA MediaSentOffer ==
  ASSUME NEW s, Ready(s), s.state = "ReceivedReinviteSentOffer", NEW m, Expected(s, m),
         isOk(m) => \A a \in s.acks : a.n # m.n
  PROVE  Hearing(s, dispatchReceivedReinviteSentOffer(s, m), m)
<1> DEFINE t == dispatchReceivedReinviteSentOffer(s, m)
<1>1. ~Awaits(s) /\ s.state \notin Unacked \cup Proposing /\ ~isTerminated(s)
  BY DEF Awaits, Awaiting, Asking, Unacked, Proposing, isTerminated
<1>2. ~isReply(m)
  BY <1>1 DEF Expected
<1>3. s.re200
  BY DEF Ready, Sound, Repeating
<1>4. CASE isOffering(m)
  <2>1. t = Send(s, Response(m, 491, NoSdp))
    BY <1>4 DEF dispatchReceivedReinviteSentOffer, isOffering
  <2> QED BY <1>4, <2>1, MediaDeclines
<1>5. CASE m.method = "ACK" /\ m.sdp # NoSdp
  <2>1. t = [gotAck(offerAnswered(s, m), m) EXCEPT !.owed = FALSE]
    BY <1>5 DEF dispatchReceivedReinviteSentOffer, isOffering
  <2>2. /\ t.state = "Connected" /\ t.ok = s.ok /\ t.acks = s.acks /\ t.out = {}
        /\ t.local = s.propLocal /\ t.remote = m.sdp /\ (t.misled \/ m.n = s.ok.n)
    BY <1>3, <2>1 DEF gotAck, offerAnswered, Asserting, Ready, Sessions
  <2> HIDE DEF t
  <2>3. Concludes(s, t, m)
    BY <1>5, <2>2 DEF Concludes, Concluding, Awaited, Plain
  <2> QED BY <2>3 DEF Hearing, t
<1>6. CASE m.method = "ACK" /\ m.sdp = NoSdp /\ ~staleAck(s, m)
  <2>1. t = gotAck(offerOver(s), m)
    BY <1>6 DEF dispatchReceivedReinviteSentOffer, isOffering
  <2>2. /\ t.state = "Connected" /\ SameMedia(s, t) /\ t.acks = s.acks /\ t.out = {}
        /\ (t.misled \/ m.n = s.ok.n)
    BY <1>3, <2>1 DEF gotAck, offerOver, Ready, Sessions, SameMedia
  <2> HIDE DEF t
  <2>3. Leaving(s, t, t.out) /\ Plain(t, t.out)
    BY <1>1, <2>2 DEF Leaving, Worded, isTerminated, Proposing, Plain
  <2>4. Drops(s, t, m)
    BY <1>1, <1>6, <2>2, <2>3 DEF Drops, Awaited
  <2> QED BY <2>4 DEF Hearing, t
<1>7. CASE m.method = "ACK" /\ m.sdp = NoSdp /\ staleAck(s, m)
  <2>1. t = s
    BY <1>7 DEF dispatchReceivedReinviteSentOffer, isOffering
  <2> QED BY <1>1, <2>1, MediaNothing
<1>8. CASE m.method = "BYE"
  <2>1. t = dispatchOthers(s, m)
    BY <1>8 DEF dispatchReceivedReinviteSentOffer, isOffering
  <2> QED BY <1>8, <2>1, MediaOthers
<1> QED BY <1>2, <1>4, <1>5, <1>6, <1>7, <1>8, MessageKinds

\* sessionRefresh.
LEMMA MediaRefresh ==
  ASSUME NEW s, Ready(s), s.state \in {"Connected", "SentUpdate"} \cup Asking,
         NEW u, u = s \/ u = [s EXCEPT !.stale = FALSE]
  PROVE  Proposes(s, sessionRefresh(u))
<1> DEFINE t == sessionRefresh(u)
           sent(method, sdp) ==
             /\ t.cseq = s.cseq + 1 /\ t.ok = s.ok /\ t.local = s.local /\ t.remote = s.remote
             /\ t.acks = s.acks
             /\ t.sent = Request(method, s.cseq + 1, sdp) /\ t.out = {t.sent}
<1>1. CASE s.update
  <2>1. t.state = "SentUpdate" /\ sent("UPDATE", NoSdp)
    BY <1>1 DEF sessionRefresh, Become, SendOffering, Send, Ready, Sessions
  <2> HIDE DEF t
  <2>2. Worded(t) /\ isOffering(t.sent)
    BY <2>1 DEF Worded, Request, isOffering
  <2> QED BY <2>1, <2>2 DEF Proposes, Free, t
<1>2. CASE ~s.update
  <2>1. t.state = "SentReinvite" /\ sent("INVITE", s.local) /\ t.propLocal = s.local
    BY <1>2 DEF sessionRefresh, Become, SendOffering, Send, Ready, Sessions
  <2> HIDE DEF t
  <2>2. Worded(t) /\ isOffering(t.sent)
    BY <2>1 DEF Worded, Request, isOffering
  <2> QED BY <2>1, <2>2 DEF Proposes, Free, Asking, t
<1> QED BY <1>1, <1>2

\* offerOver.
LEMMA MediaOfferOver ==
  ASSUME NEW s, Ready(s), s.state \in {"SentUpdate"} \cup Asking,
         NEW u, u = s \/ u = [s EXCEPT !.stale = FALSE],
         NEW m, Concerns(s, m), m.code = 200 => m.sdp = NoSdp
  PROVE  Drops(s, offerOver(u), m)
<1> DEFINE t == offerOver(u)
<1>1. t.state = "Connected" /\ SameMedia(s, t) /\ t.acks = s.acks /\ t.out = {}
  BY DEF offerOver, Ready, Sessions, SameMedia
<1> HIDE DEF t
<1>2. ~isTerminated(s) /\ s.state # "ReceivedReinviteSentOffer"
  BY DEF isTerminated, Asking
<1>3. Leaving(s, t, t.out) /\ Plain(t, t.out)
  BY <1>1, <1>2 DEF Leaving, Worded, isTerminated, Proposing, Plain
<1> QED BY <1>1, <1>2, <1>3 DEF Drops, t

\* dispatchSentUpdate.
LEMMA MediaSentUpdate ==
  ASSUME NEW s, Ready(s), Worded(s), s.state = "SentUpdate", NEW m, Expected(s, m),
         isOk(m) => \A a \in s.acks : a.n # m.n
  PROVE  Hearing(s, dispatchSentUpdate(s, m), m)
<1> DEFINE t == dispatchSentUpdate(s, m)
<1>1. /\ s.sent.method = "UPDATE" /\ s.sent.n = s.cseq /\ s.state \notin Unacked /\ s.state \in Proposing
      /\ ~isTerminated(s) /\ s.state # "ReceivedReinviteSentOffer"
  BY DEF Ready, Sound, Requested, Unacked, Asking, Proposing, isTerminated
<1>2. ~isOk(m)
  BY <1>1 DEF Expected
<1>3. CASE isOffering(m)
  <2>1. t = Send(s, Response(m, 491, NoSdp))
    BY <1>3 DEF dispatchSentUpdate, general, rejected, isOffering
  <2> QED BY <1>3, <2>1, MediaDeclines
<1>4. CASE isReply(m)
  <2>1. m.method = "UPDATE" /\ m.code # 0 /\ ~isOffering(m) /\ Concerns(s, m)
    BY <1>1, <1>2, <1>4 DEF Expected, isReply, isOffering, Concerns
  <2>2. m.code \in {200, 400, 408, 422, 481, 488, 491, 500}
    BY <2>1 DEF Expected, Messages
  <2>3. CASE m.code = 200
    <3>1. CASE s.propLocal = NoSdp
      <4>1. t = [s EXCEPT !.state = "Connected"]
        BY <2>1, <2>3, <3>1 DEF dispatchSentUpdate, Become, general, rejected, isOffering
      <4>2. t.state = "Connected" /\ SameMedia(s, t) /\ t.acks = s.acks /\ t.out = {}
        BY <4>1 DEF Ready, Sessions, SameMedia
      <4> HIDE DEF t
      <4>3. Leaving(s, t, t.out) /\ Plain(t, t.out)
        BY <1>1, <4>2 DEF Leaving, Worded, isTerminated, Proposing, Plain
      <4>4. s.sent.sdp = NoSdp
        BY <3>1 DEF Worded
      <4>5. Drops(s, t, m)
        BY <1>1, <2>1, <4>2, <4>3, <4>4 DEF Drops
      <4> QED BY <4>5 DEF Hearing, t
    <3>2. CASE s.propLocal # NoSdp /\ m.sdp = NoSdp
      <4>1. t = offerOver(s)
        BY <2>1, <2>3, <3>2 DEF dispatchSentUpdate, general, rejected, isOffering
      <4> QED BY <2>1, <3>2, <4>1, MediaOfferOver DEF Hearing
    <3>3. CASE s.propLocal # NoSdp /\ m.sdp # NoSdp
      <4>1. t = [offerAnswered(s, m) EXCEPT !.owed = FALSE]
        BY <2>1, <2>3, <3>3 DEF dispatchSentUpdate, general, rejected, isOffering
      <4>2. /\ t.state = "Connected" /\ t.ok = s.ok /\ t.acks = s.acks /\ t.out = {}
            /\ t.local = s.propLocal /\ t.remote = m.sdp
        BY <4>1 DEF offerAnswered, Asserting, Ready, Sessions
      <4> HIDE DEF t
      <4>3. Concludes(s, t, m)
        BY <1>1, <2>1, <2>3, <3>3, <4>2 DEF Concludes, Concluding, Plain
      <4> QED BY <4>3 DEF Hearing, t
    <3> QED BY <3>1, <3>2, <3>3
  <2>4. CASE m.code = 491
    <3>1. t = [s EXCEPT !.state = "SentUpdateGlare", !.glare = @ + 1]
      BY <2>1, <2>4 DEF dispatchSentUpdate, general, rejected, isOffering
    <3>2. /\ t.state = "SentUpdateGlare" /\ SameMedia(s, t) /\ t.acks = s.acks /\ t.out = {}
          /\ t.propLocal = s.propLocal
      BY <3>1 DEF Ready, Sessions, SameMedia
    <3> HIDE DEF t
    <3>3. Worded(t)
      BY <3>2 DEF Worded, SameMedia
    <3>4. Leaving(s, t, t.out) /\ Plain(t, t.out)
      BY <1>1, <3>2, <3>3 DEF Leaving, isTerminated, Proposing, Plain
    <3>5. Drops(s, t, m)
      BY <1>1, <2>1, <2>4, <3>2, <3>4 DEF Drops
    <3> QED BY <3>5 DEF Hearing, t
  <2>5. CASE m.code = 422
    <3>1. t = sessionRefresh(s)
      BY <2>1, <2>5 DEF dispatchSentUpdate, general, rejected, isOffering
    <3>2. Proposes(s, t)
      BY <3>1, MediaRefresh
    <3> QED BY <2>1, <2>5, <3>2 DEF Hearing
  <2>6. CASE general(m)
    <3>1. t = Hangup(s)
      BY <2>1, <2>6 DEF dispatchSentUpdate, general, rejected, isOffering
    <3>2. s \in Sessions /\ s.out = {}
      BY DEF Ready
    <3>3. Quitting(s, Hangup(s), Hangup(s).out)
      BY <3>2, MediaHangup
    <3> QED BY <3>1, <3>3 DEF Hearing
  <2>7. CASE rejected(m)
    <3>1. t = offerOver(s) /\ m.code # 200
      BY <2>1, <2>7 DEF dispatchSentUpdate, general, rejected, isOffering
    <3> QED BY <2>1, <3>1, MediaOfferOver DEF Hearing
  <2> QED BY <2>2, <2>3, <2>4, <2>5, <2>6, <2>7 DEF general, rejected
<1>5. CASE m.method \in {"ACK", "BYE"}
  <2>1. t = dispatchOthers(s, m)
    BY <1>5, MessageKinds DEF dispatchSentUpdate, general, rejected, isOffering, Expected
  <2> QED BY <1>5, <2>1, MediaOthers
<1> QED BY <1>3, <1>4, <1>5, MessageKinds

\* dispatchSentReinvite and dispatchSentReinviteNoOffer.
LEMMA MediaSentReinvite ==
  ASSUME NEW s, Ready(s), Worded(s), s.state \in Asking, NEW m, Expected(s, m),
         isOk(m) => \A a \in s.acks : a.n # m.n
  PROVE  Hearing(s, dispatchSentReinvite(s, m), m)
<1> DEFINE u == [s EXCEPT !.stale = FALSE]
           t == dispatchSentReinvite(s, m)
<1>1. /\ s.sent.method = "INVITE" /\ s.sent.n = s.cseq /\ s.state \in Unacked
      /\ ~isTerminated(s) /\ s.state # "ReceivedReinviteSentOffer"
      /\ \A a \in s.acks : a.n # s.cseq
  BY KeptAcks DEF Ready, Sound, Requested, Unacked, Asking, isTerminated
<1>2. isOk(m) => m.n = s.cseq
  BY <1>1 DEF Expected, isTerminated
<1>3. Recorded(u) /\ u.acks = s.acks /\ u.sent = s.sent
  <2>1. Recorded(s)
    BY RecordedSession DEF Ready
  <2> QED BY <2>1 DEF Recorded, Fields
<1>4. CASE isOffering(m)
  <2>1. t = Send(s, Response(m, 491, NoSdp))
    BY <1>4 DEF dispatchSentReinvite, general, rejected, isOffering
  <2> QED BY <1>4, <2>1, MediaDeclines
<1>5. CASE isReply(m)
  <2>1. m.method = "INVITE" /\ m.code # 0 /\ ~isOffering(m) /\ Concerns(s, m)
    BY <1>1, <1>2, <1>5 DEF Expected, isReply, isOk, isOffering, Concerns
  <2>2. m.code \in {200, 400, 408, 422, 481, 488, 491, 500}
    BY <2>1 DEF Expected, Messages
  <2>3. CASE m.code = 200
    <3>1. isOk(m) /\ m.n = s.cseq
      BY <1>2, <2>1, <2>3 DEF isOk
    <3>2. CASE m.sdp = NoSdp
      <4>1. t = sendAck(offerOver(u), NoSdp)
        BY <2>1, <2>3, <3>2 DEF dispatchSentReinvite, general, rejected, isOffering
      <4> DEFINE w == offerOver(u)
                 ack == Request("ACK", w.sent.n, NoSdp)
      <4>2. SameMedia(s, w) /\ w.acks = s.acks /\ w.out = {} /\ w.state = "Connected" /\ w.sent = s.sent
        BY DEF offerOver, Ready, Sessions, SameMedia
      <4>3. Recorded(w)
        <5> HIDE DEF u
        <5> QED BY <1>3 DEF offerOver, Recorded, Fields
      <4>4. t = sendAck(w, NoSdp)
        BY <4>1
      <4> HIDE DEF w, t, u
      <4>5. /\ SameMedia(w, t) /\ t.acks = w.acks \cup {ack} /\ t.out = {ack} /\ t.state = w.state
            /\ ack.n = w.sent.n /\ ~isReply(ack)
        BY <1>1, <4>2, <4>3, <4>4, MediaSendsAck
      <4> HIDE DEF ack
      <4>6. Leaving(s, t, t.out) /\ Plain(t, t.out)
        BY <1>1, <4>2, <4>5 DEF Leaving, SameMedia, Worded, isTerminated, Proposing, Plain
      <4>7. Drops(s, t, m)
        BY <1>1, <2>1, <3>1, <3>2, <4>2, <4>5, <4>6 DEF Drops
      <4> QED BY <4>7 DEF Hearing, t
    <3>3. CASE m.sdp # NoSdp /\ s.state = "SentReinvite"
      <4>1. t = reinviteAnswered(u, m)
        BY <2>1, <2>3, <3>3 DEF dispatchSentReinvite, general, rejected, isOffering
      <4> DEFINE w == offerAnswered(u, m)
                 v == sendAck(w, NoSdp)
                 ack == Request("ACK", w.sent.n, NoSdp)
      <4>2. /\ w.ok = s.ok /\ w.acks = s.acks /\ w.out = {} /\ w.state = "Connected" /\ w.sent = s.sent
            /\ w.local = s.propLocal /\ w.remote = m.sdp
        BY DEF offerAnswered, Asserting, Ready, Sessions
      <4>3. Recorded(w)
        <5> HIDE DEF u
        <5> QED BY <1>3 DEF offerAnswered, Asserting, Recorded, Fields
      <4>4. t = [v EXCEPT !.refresh = FALSE, !.owed = u.refresh /\ u.owed]
        BY <4>1 DEF reinviteAnswered
      <4> HIDE DEF w, t, u
      <4>5. /\ Recorded(v) /\ SameMedia(w, v) /\ v.acks = w.acks \cup {ack} /\ v.out = {ack}
            /\ v.state = w.state /\ ~isReply(ack)
        BY <1>1, <4>2, <4>3, MediaSendsAck
      <4> HIDE DEF ack, v
      <4>6. /\ t.ok = v.ok /\ t.acks = v.acks /\ t.out = v.out /\ t.state = v.state
            /\ t.local = v.local /\ t.remote = v.remote
        BY <4>4, <4>5 DEF Recorded, Fields
      <4>7. Concludes(s, t, m)
        BY <2>1, <2>3, <3>3, <4>2, <4>5, <4>6 DEF Concludes, Concluding, SameMedia, Plain, Proposing
      <4> QED BY <4>7 DEF Hearing, t
    <3>4. CASE m.sdp # NoSdp /\ s.state = "SentReinviteNoOffer"
      <4>1. t = [u EXCEPT !.state = "SentReinviteAnswered", !.propRemote = m.sdp, !.owed = FALSE]
        BY <2>1, <2>3, <3>4 DEF dispatchSentReinvite, general, rejected, isOffering
      <4>2. /\ SameMedia(s, t) /\ t.acks = s.acks /\ t.out = {} /\ t.state = "SentReinviteAnswered"
            /\ t.propRemote = m.sdp
        BY <4>1 DEF Ready, Sessions, SameMedia
      <4> HIDE DEF t
      <4>3. Leaving(s, t, t.out) /\ Plain(t, t.out)
        BY <1>1, <4>2 DEF Leaving, Worded, isTerminated, Proposing, Plain
      <4>4. Offers200(s, t, m)
        BY <3>1, <3>4, <4>2, <4>3 DEF Offers200
      <4> QED BY <4>4 DEF Hearing, t
    <3> QED BY <3>2, <3>3, <3>4 DEF Asking
  <2>4. CASE m.code = 491
    <3> DEFINE state == IF s.state = "SentReinvite" THEN "SentReinviteGlare" ELSE "SentReinviteNoOfferGlare"
    <3>1. t = [u EXCEPT !.glare = u.glare + 1, !.state = state]
      BY <2>1, <2>4 DEF dispatchSentReinvite, general, rejected, isOffering, Ready, Sessions
    <3>2. /\ SameMedia(s, t) /\ t.acks = s.acks /\ t.out = {} /\ t.state = state
          /\ t.propLocal = s.propLocal
      BY <3>1 DEF Ready, Sessions, SameMedia
    <3> HIDE DEF t
    <3>3. Worded(t)
      BY <3>2 DEF Worded, SameMedia
    <3>4. Leaving(s, t, t.out) /\ Plain(t, t.out)
      BY <1>1, <3>2, <3>3 DEF Leaving, isTerminated, Proposing, Plain
    <3>5. Drops(s, t, m)
      BY <1>1, <2>1, <2>4, <3>2, <3>4 DEF Drops
    <3> QED BY <3>5 DEF Hearing, t
  <2>5. CASE m.code = 422
    <3>1. t = sessionRefresh(u)
      BY <2>1, <2>5 DEF dispatchSentReinvite, general, rejected, isOffering
    <3>2. Proposes(s, t)
      BY <3>1, MediaRefresh
    <3> QED BY <2>1, <2>5, <3>2 DEF Hearing
  <2>6. CASE general(m)
    <3>1. t = Hangup(u)
      BY <2>1, <2>6 DEF dispatchSentReinvite, general, rejected, isOffering
    <3>2. u \in Sessions /\ u.out = {} /\ u.ok = s.ok /\ u.acks = s.acks
      BY DEF Ready, Sessions
    <3> HIDE DEF u
    <3>3. Quitting(s, Hangup(u), Hangup(u).out)
      BY <3>2, MediaHangup
    <3> QED BY <3>1, <3>3 DEF Hearing
  <2>7. CASE rejected(m)
    <3>1. t = offerOver(u) /\ m.code # 200
      BY <2>1, <2>7 DEF dispatchSentReinvite, general, rejected, isOffering, isOk
    <3> QED BY <2>1, <3>1, MediaOfferOver DEF Hearing
  <2> QED BY <2>2, <2>3, <2>4, <2>5, <2>6, <2>7 DEF general, rejected
<1>6. CASE m.method \in {"ACK", "BYE"}
  <2>1. t = dispatchOthers(s, m)
    BY <1>6, MessageKinds DEF dispatchSentReinvite, general, rejected, isOffering, Expected
  <2> QED BY <1>6, <2>1, MediaOthers
<1> QED BY <1>4, <1>5, <1>6, MessageKinds

\* dispatch: a 200 that has its ACK gets it again.
LEMMA MediaDispatch ==
  ASSUME NEW s, Ready(s), Worded(s), NEW m, Expected(s, m), NEW quits \in BOOLEAN
  PROVE  Hearing(s, dispatch(s, m, quits), m)
<1> DEFINE answered == {a \in s.acks : m.method = "INVITE" /\ m.code = 200 /\ a.n = m.n}
           t == dispatch(s, m, quits)
<1>1. CASE answered # {}
  <2>1. t = [s EXCEPT !.out = s.out \cup answered]
    BY <1>1 DEF dispatch, Ready, Sessions
  <2>2. m.method = "INVITE" /\ \E a \in s.acks : a.n = m.n
    BY <1>1
  <2>3. answered \subseteq s.acks
    OBVIOUS
  <2> HIDE DEF answered
  <2>4. /\ SameMedia(s, t) /\ t.acks = s.acks /\ t.state = s.state /\ t.got = s.got
        /\ t.propLocal = s.propLocal /\ t.propRemote = s.propRemote /\ t.out = answered
    BY <2>1 DEF Ready, Sessions, SameMedia
  <2> HIDE DEF t
  <2>5. Staying(s, t, t.out)
    <3>1. \A a \in s.acks : a.method = "ACK"
      BY KeptAcks
    <3> QED BY <2>3, <2>4, <3>1 DEF Staying, Plain, isReply
  <2>6. s.state \in Proposing => ~Concerns(s, m)
    BY <2>2, KeptAcks DEF Proposing, Concerns, Ready, Sound, Requested, Unacked, Asking
  <2> QED BY <2>5, <2>6 DEF Hearing, Proposing, t
<1>2. CASE answered = {}
  <2>1. isOk(m) => \A a \in s.acks : a.n # m.n
    BY <1>2 DEF isOk
  <2>2. s.state \in States
    BY DEF Ready, Sessions
  <2> HIDE DEF answered
  <2>3. CASE s.state = "Connected"
    <3>1. t = dispatchConnected(s, m)
      BY <1>2, <2>3 DEF dispatch, Undecided, answered
    <3> QED BY <2>1, <2>3, <3>1, MediaConnected DEF Free
  <2>4. CASE s.state = "SentUpdate"
    <3>1. t = dispatchSentUpdate(s, m)
      BY <1>2, <2>4 DEF dispatch, Undecided, answered
    <3> QED BY <2>1, <2>4, <3>1, MediaSentUpdate
  <2>5. CASE s.state \in Asking
    <3>1. t = dispatchSentReinvite(s, m)
      BY <1>2, <2>5 DEF dispatch, Undecided, answered, Asking
    <3> QED BY <2>1, <2>5, <3>1, MediaSentReinvite
  <2>6. CASE s.state = "SentReinviteAnswered"
    <3>1. t = dispatchSentReinviteAnswered(s, m)
      BY <1>2, <2>6 DEF dispatch, Undecided, answered
    <3> QED BY <2>6, <3>1, MediaAnswered
  <2>7. CASE s.state \in {"SentUpdateGlare"} \cup AskingAgain
    <3>1. t = dispatchGlare(s, m, quits)
      BY <1>2, <2>7 DEF dispatch, Undecided, answered, AskingAgain
    <3> QED BY <2>1, <2>7, <3>1, MediaGlareMet
  <2>8. CASE s.state \in Undecided
    <3>1. t = dispatchReceivedUpdateOrReinvite(s, m)
      BY <1>2, <2>8 DEF dispatch, Undecided, answered
    <3> QED BY <2>1, <2>8, <3>1, MediaUndecided
  <2>9. CASE s.state = "ReceivedReinviteSentOffer"
    <3>1. t = dispatchReceivedReinviteSentOffer(s, m)
      BY <1>2, <2>9 DEF dispatch, Undecided, answered
    <3> QED BY <2>1, <2>9, <3>1, MediaSentOffer
  <2>10. CASE s.state = "WaitingToTerminate"
    <3>1. t = dispatchWaitingToTerminate(s, m)
      BY <1>2, <2>10 DEF dispatch, Undecided, answered
    <3> QED BY <2>1, <2>10, <3>1, MediaWaitingToTerminate
  <2>11. CASE s.state = "WaitingToHangup"
    <3>1. t = dispatchWaitingToHangup(s, m)
      BY <1>2, <2>11 DEF dispatch, Undecided, answered
    <3> QED BY <2>11, <3>1, MediaWaitingToHangup
  <2>12. CASE s.state = "Terminated"
    <3>1. t = dispatchTerminated(s, m)
      BY <1>2, <2>12 DEF dispatch, Undecided, answered
    <3> QED BY <2>12, <3>1, MediaTerminated
  <2> QED BY <2>2, <2>3, <2>4, <2>5, <2>6, <2>7, <2>8, <2>9, <2>10, <2>11, <2>12
          DEF States, Asking, AskingAgain, Undecided
<1> QED BY <1>1, <1>2

-----------------------------------------------------------------------------
(* A message is taken. *)

\* The last request of s has no response but m.
LEMMA OnlyOutcome ==
  ASSUME NEW s, NEW p, NEW in, NEW to, NEW op, NEW op2, Paired(s, p, in, to, op, op2),
         NEW m \in in, isReply(m), m.n = s.cseq, NEW y \in Outcomes(p, in), y.n = s.cseq
  PROVE  y = m
<1>1. m \in Outcomes(p, in)
  BY InOutcomes
<1> QED BY <1>1 DEF Paired, Agreed, AllConcluded, Concluded

\* The 200 of the last re-INVITE of s is the one that p repeats.
LEMMA LastOk ==
  ASSUME NEW s, Ready(s), NEW p, Ready(p), NEW in, NEW to, NEW op, NEW op2,
         Paired(s, p, in, to, op, op2), NEW m \in in, isOk(m), m.n = s.cseq
  PROVE  p.ok = m
<1>1. m \in Outcomes(p, in) /\ isReply(m)
  BY InOutcomes DEF isOk, isReply
<1>2. isOk(p.ok) /\ m.n <= p.ok.n
  BY <1>1 DEF Paired, Agreed, AllConcluded, Concluded
<1>3. p.ok \in Outcomes(p, in)
  BY <1>2, InOutcomes DEF isOk
<1>4. p.ok.n <= s.cseq
  BY <1>3 DEF Paired, Agreed, AllConcluded, Concluded
<1>5. p.ok.n \in Nat /\ s.cseq \in Nat
  BY KeptAcks DEF Ready
<1>6. p.ok.n = s.cseq
  BY <1>2, <1>4, <1>5
<1> QED BY <1>1, <1>3, <1>6, OnlyOutcome

\* The ACK that p keeps is the one that s takes.
LEMMA OwnAck ==
  ASSUME NEW s, NEW p, NEW in, NEW to, NEW op, NEW op2, Media(s, p, in, to, op, op2),
         NEW m \in in, NEW t, Awaited(s, t, m), ~t.misled, s.state = "ReceivedReinviteSentOffer"
  PROVE  isTerminated(p) \/ (m.sdp = p.local /\ p.remote = s.propLocal)
<1>1. m.method = "ACK" /\ m.n = s.ok.n
  BY DEF Awaited
<1>2. Keeping(p, in) /\ AnswersBack(p, s)
  BY DEF Media, Told
<1>3. m \in p.acks
  BY <1>1, <1>2 DEF Keeping
<1> QED BY <1>1, <1>2, <1>3 DEF AnswersBack

\* A negotiation of s ends with no description.
LEMMA MediaDrops ==
  ASSUME NEW s, Ready(s), NEW p, Ready(p), NEW in, NEW to, NEW op, NEW op2,
         Paired(s, p, in, to, op, op2), Media(s, p, in, to, op, op2),
         NEW m \in in, NEW t, Drops(s, t, m), ~t.misled,
         NEW in2, in2 \subseteq in, NEW op3
  PROVE  Media(t, p, in2, to \cup t.out, op3, op2)
<1>1. /\ Leaving(s, t, t.out) /\ Plain(t, t.out) /\ t.state # "SentReinviteAnswered"
      /\ s.state \in Proposing =>
           Concerns(s, m) /\ (m.code = 200 => m.sdp = NoSdp \/ s.sent.sdp = NoSdp)
      /\ s.state = "ReceivedReinviteSentOffer" => Awaited(s, t, m) /\ m.sdp = NoSdp
  BY DEF Drops
<1>2. t.ok = s.ok
  BY <1>1 DEF Leaving, SameMedia
<1>3. Invited(t, p)
  BY <1>1 DEF Invited
<1>4. ~Crossed(s, p, in)
  <2> SUFFICES ASSUME s.sent.sdp # NoSdp, s.state \in Proposing,
                      NEW y \in Outcomes(p, in), Accepts(s, y)
               PROVE  FALSE
    BY DEF Crossed, Accepted
  <2>1. y = m
    BY <1>1, OnlyOutcome DEF Concerns, Accepts
  <2>2. y.sdp # NoSdp
    BY DEF Media, Told, TakenOver
  <2> QED BY <1>1, <2>1, <2>2 DEF Accepts
<1>5. s.state = "ReceivedReinviteSentOffer" => isTerminated(p)
  <2>1. p.local # NoSdp
    BY DEF Ready, Sessions
  <2> QED BY <1>1, <2>1, OwnAck
<1>6. p.state = "ReceivedReinviteSentOffer" => \A a \in t.acks : a \in s.acks \/ a.n # p.ok.n
  <2> SUFFICES ASSUME p.state = "ReceivedReinviteSentOffer", NEW a \in t.acks, a \notin s.acks,
                      a.n = p.ok.n
               PROVE  FALSE
    OBVIOUS
  <2>1. isOk(m) /\ m.sdp = NoSdp /\ m.n = s.cseq /\ a.n = s.cseq
    BY DEF Drops
  <2>2. isOk(p.ok)
    BY DEF Ready, Sound, Repeating
  <2>3. p.ok \in Outcomes(p, in)
    BY <2>2, InOutcomes DEF isOk
  <2>4. p.ok = m
    <3>1. isReply(m) /\ p.ok.n = s.cseq
      BY <2>1 DEF isOk, isReply
    <3> QED BY <2>1, <2>3, <3>1, OnlyOutcome
  <2>5. p.ok.sdp # NoSdp
    BY DEF Media, Told, Worded
  <2> QED BY <2>1, <2>4, <2>5
<1>7. \A y \in Outcomes(t, to \cup t.out) : Accepts(p, y) => y \in Outcomes(s, to)
  BY <1>1, <1>2, OldOutcome DEF Accepts
<1> QED BY <1>1, <1>3, <1>4, <1>5, <1>6, <1>7, MediaLeaves

\* The offer that s asked for is that in the 200 of p.
LEMMA MediaOffers200 ==
  ASSUME NEW s, Ready(s), NEW p, Ready(p), NEW in, NEW to, NEW op, NEW op2,
         Paired(s, p, in, to, op, op2), Media(s, p, in, to, op, op2),
         NEW m \in in, NEW t, Offers200(s, t, m), NEW in2, in2 \subseteq in, NEW op3
  PROVE  Media(t, p, in2, to \cup t.out, op3, op2)
<1>1. /\ Leaving(s, t, t.out) /\ Plain(t, t.out) /\ t.acks = s.acks
      /\ s.state = "SentReinviteNoOffer" /\ t.state = "SentReinviteAnswered"
      /\ isOk(m) /\ m.n = s.cseq /\ t.propRemote = m.sdp
  BY DEF Offers200
<1>2. t.ok = s.ok
  BY <1>1 DEF Leaving, SameMedia
<1>9. p.ok = m
  BY <1>1, LastOk
<1>10. Invited(t, p)
  BY <1>1, <1>9 DEF Invited
<1>11. ~Crossed(s, p, in)
  BY <1>1 DEF Crossed, Accepted, Proposing
<1>12. \A y \in Outcomes(t, to \cup t.out) : Accepts(p, y) => y \in Outcomes(s, to)
  BY <1>1, <1>2, OldOutcome DEF Accepts
<1> QED BY <1>1, <1>10, <1>11, <1>12, MediaLeaves

\* A refresh of p changes no description.
LEMMA MediaRefreshed ==
  ASSUME NEW s, NEW p, NEW in, NEW to, NEW op, NEW op2,
         Paired(s, p, in, to, op, op2), Media(s, p, in, to, op, op2),
         NEW m \in in, NEW t, Refreshed(s, t, m), NEW in2, in2 \subseteq in, NEW op3
  PROVE  Media(t, p, in2, to \cup t.out, op3, op2)
<1>1. /\ Leaving(s, t, t.out) /\ t.acks = s.acks /\ s.state \in Free /\ t.state = s.state
      /\ isOffering(m) /\ m.sdp = NoSdp /\ \A y \in t.out : y.sdp = NoSdp
  BY DEF Refreshed
<1>2. t.ok = s.ok
  BY <1>1 DEF Leaving, SameMedia
<1>3. s.state \notin Proposing \cup {"ReceivedReinviteSentOffer", "SentReinviteAnswered"}
  BY <1>1 DEF Free, AskingAgain, Proposing
<1>4. Invited(t, p) /\ ~Crossed(s, p, in)
  BY <1>1, <1>3 DEF Invited, Crossed, Accepted
<1>5. m = p.sent
  BY <1>1 DEF Paired, Agreed, Mannered
<1>6. \A y \in Outcomes(t, to \cup t.out) : y \in Outcomes(s, to) \/ (y.sdp = NoSdp /\ p.sent.sdp = NoSdp)
  BY <1>1, <1>2, <1>5, InOutcomes
<1> QED BY <1>1, <1>3, <1>4, <1>6, MediaLeaves

\* The 200 or the ACK that settles the descriptions is taken.
LEMMA MediaConcluded ==
  ASSUME NEW s, NEW p, NEW in, NEW to, NEW op, NEW op2, Media(s, p, in, to, op, op2),
         NEW m \in in, NEW t, Concludes(s, t, m), ~t.misled, NEW in2, in2 \subseteq in, NEW op3
  PROVE  Media(t, p, in2, to \cup t.out, op3, op2)
<1>1. Concluding(s, t, t.out) /\ t.local = s.propLocal /\ t.remote = m.sdp /\ m.sdp # NoSdp
  BY DEF Concludes
<1>2. CASE s.state \in Proposing /\ Concerns(s, m) /\ m.code = 200
  <2>1. m \in Outcomes(p, in) /\ Accepts(s, m)
    BY <1>2, InOutcomes DEF Concerns, Accepts
  <2>2. TakenOver(s, p, in) /\ Worded(s)
    BY DEF Media, Told
  <2>3. /\ s.sent.sdp # NoSdp /\ p.state # "ReceivedReinviteSentOffer"
        /\ isTerminated(p) \/ (p.local = m.sdp /\ p.remote = s.sent.sdp)
    BY <1>1, <1>2, <2>1, <2>2 DEF TakenOver
  <2>4. s.propLocal = s.sent.sdp
    BY <1>2, <2>2, <2>3 DEF Worded, Proposing
  <2>5. ~Crossed(p, s, to)
    BY <1>2, <2>1 DEF Media, Exclusive, Crossed, Accepted
  <2>6. isTerminated(p) \/ Match(t, p)
    BY <1>1, <2>3, <2>4 DEF Match
  <2> QED BY <1>1, <2>3, <2>5, <2>6, MediaConcludes
<1>3. CASE s.state = "ReceivedReinviteSentOffer" /\ Awaited(s, t, m)
  <2>1. isTerminated(p) \/ Match(t, p)
    BY <1>1, <1>3, OwnAck DEF Match
  <2>2. p.state # "ReceivedReinviteSentOffer"
    BY <1>3 DEF Media, Exclusive
  <2>3. ~Crossed(p, s, to)
    <3>1. TakenOver(p, s, to)
      BY DEF Media, Told
    <3> QED BY <1>3, <3>1 DEF Crossed, Accepted, TakenOver
  <2> QED BY <1>1, <2>1, <2>2, <2>3, MediaConcludes
<1> QED BY <1>2, <1>3 DEF Concludes

\* The request that is sent again for a 422 had no answer.
LEMMA MediaProposesAgain ==
  ASSUME NEW s, Ready(s), NEW p, NEW in, NEW to, NEW op, NEW op2,
         Paired(s, p, in, to, op, op2), Media(s, p, in, to, op, op2),
         NEW m \in in, NEW t, Proposes(s, t), Concerns(s, m), m.code = 422,
         NEW in2, in2 \subseteq in, NEW op3, t.sent \in op3
  PROVE  Media(t, p, in2, to \cup t.out, op3, op2)
<1>1. ~Crossed(s, p, in)
  <2> SUFFICES ASSUME NEW y \in Outcomes(p, in), Accepts(s, y)
               PROVE  FALSE
    BY DEF Crossed, Accepted
  <2> QED BY OnlyOutcome DEF Concerns, Accepts
<1>2. \A y \in Outcomes(p, in) : y.n # t.cseq
  <2>1. \A y \in Outcomes(p, in) : y.n <= s.cseq
    BY DEF Paired, Agreed, AllConcluded, Concluded
  <2> QED BY <2>1 DEF Proposes, Ready
<1> QED BY <1>1, <1>2, MediaProposes

\* What s makes of a message.
LEMMA MediaHears ==
  ASSUME NEW s, Ready(s), NEW p, Ready(p), NEW in, NEW to, NEW op, NEW op2,
         Paired(s, p, in, to, op, op2), Media(s, p, in, to, op, op2),
         NEW m \in in, NEW t, Hearing(s, t, m), ~t.misled,
         NEW in2, in2 \subseteq in, in \ in2 \subseteq {m}, NEW op3,
         s.state = "SentUpdate" /\ ~Concerns(s, m) => s.sent \in op3,
         Proposes(s, t) => t.sent \in op3
  PROVE  Media(t, p, in2, to \cup t.out, op3, op2)
<1>1. CASE Quitting(s, t, t.out)
  BY <1>1, MediaQuits
<1>2. CASE Staying(s, t, t.out) /\ (s.state \in {"SentUpdate", "SentReinvite"} => ~Concerns(s, m))
  <2>1. t.state = s.state /\ t.sent = s.sent
    BY <1>2 DEF Staying, SameMedia
  <2>2. InFlight(t, op3)
    BY <1>2, <2>1 DEF InFlight
  <2>3. \A y \in Outcomes(p, in) : Accepts(s, y) /\ s.state \in Proposing => y \in Outcomes(p, in2)
    BY <1>2, InOutcomes DEF Accepts, Concerns, Proposing
  <2> QED BY <1>2, <2>2, <2>3, MediaStays
<1>3. CASE Drops(s, t, m)
  BY <1>3, MediaDrops
<1>4. CASE Offers200(s, t, m)
  BY <1>4, MediaOffers200
<1>5. CASE Refreshed(s, t, m)
  BY <1>5, MediaRefreshed
<1>6. CASE Proposes(s, t) /\ Concerns(s, m) /\ m.code = 422
  BY <1>6, MediaProposesAgain
<1>7. CASE Concludes(s, t, m)
  BY <1>7, MediaConcluded
<1> QED BY <1>1, <1>2, <1>3, <1>4, <1>5, <1>6, <1>7 DEF Hearing

-----------------------------------------------------------------------------
(* What the application and the timers make of the descriptions. *)

\* requestOffer.
LEMMA MediaRequestOffer ==
  ASSUME NEW s, Ready(s), s.state = "Connected"
  PROVE  Proposes(s, requestOffer(s))
<1> DEFINE t == requestOffer(s)
<1>1. /\ t.cseq = s.cseq + 1 /\ t.ok = s.ok /\ t.local = s.local /\ t.remote = s.remote
      /\ t.acks = s.acks /\ t.sent = Request("INVITE", s.cseq + 1, NoSdp) /\ t.out = {t.sent}
      /\ t.state = "SentReinviteNoOffer"
  BY DEF requestOffer, SendOffering, Send, Ready, Sessions
<1> HIDE DEF t
<1>2. Worded(t) /\ isOffering(t.sent)
  BY <1>1 DEF Worded, Request, isOffering
<1> QED BY <1>1, <1>2 DEF Proposes, Free, Asking, t

\* provideOffer in a session that has nothing under way.
LEMMA MediaProvideOffer ==
  ASSUME NEW s, Ready(s), s.state = "Connected", NEW offer
  PROVE  Proposes(s, provideOffer(s, offer))
<1> DEFINE t == provideOffer(s, offer)
           sent(method) ==
             /\ t.cseq = s.cseq + 1 /\ t.ok = s.ok /\ t.local = s.local /\ t.remote = s.remote
             /\ t.acks = s.acks /\ t.propLocal = offer
             /\ t.sent = Request(method, s.cseq + 1, offer) /\ t.out = {t.sent}
<1>1. CASE s.update
  <2>1. t.state = "SentUpdate" /\ sent("UPDATE")
    BY <1>1 DEF provideOffer, Become, SendOffering, Send, Ready, Sessions
  <2> HIDE DEF t
  <2>2. Worded(t) /\ isOffering(t.sent)
    BY <2>1 DEF Worded, Request, isOffering
  <2> QED BY <2>1, <2>2 DEF Proposes, Free, t
<1>2. CASE ~s.update
  <2>1. t.state = "SentReinvite" /\ sent("INVITE")
    BY <1>2 DEF provideOffer, Become, SendOffering, Send, Ready, Sessions
  <2> HIDE DEF t
  <2>2. Worded(t) /\ isOffering(t.sent)
    BY <2>1 DEF Worded, Request, isOffering
  <2> QED BY <2>1, <2>2 DEF Proposes, Free, Asking, t
<1> QED BY <1>1, <1>2

\* What met a 491 is proposed again.
LEMMA MediaGlare ==
  ASSUME NEW s, Ready(s), Worded(s)
  PROVE  LET t == Glare(s)
         IN  (Proposes(s, t) /\ s.state \notin Proposing) \/ Staying(s, t, t.out)
<1> DEFINE t == Glare(s)
           r == Request(s.sent.method, s.cseq + 1, s.sent.sdp)
<1>1. CASE s.state \in {"SentUpdateGlare"} \cup AskingAgain
  <2>1. /\ t.cseq = s.cseq + 1 /\ t.sent = r /\ t.out = {t.sent}
        /\ t.acks = s.acks /\ t.ok = s.ok /\ t.local = s.local /\ t.remote = s.remote
        /\ t.propLocal = s.propLocal /\ t.propRemote = s.propRemote
        /\ s.state = "SentUpdateGlare" => t.state = "SentUpdate"
        /\ s.state = "SentReinviteGlare" => t.state = "SentReinvite"
        /\ s.state = "SentReinviteNoOfferGlare" => t.state = "SentReinviteNoOffer"
    BY <1>1 DEF Glare, None, Become, SendOffering, Send, Ready, Sessions, AskingAgain
  <2>2. s.sent.method \in {"INVITE", "UPDATE"}
    BY <1>1 DEF Ready, Sound, Requested, Fit
  <2>3. r.sdp = s.sent.sdp /\ isOffering(r)
    BY <2>2 DEF Request, isOffering
  <2> HIDE DEF t, r
  <2>4. Worded(t)
    BY <1>1, <2>1, <2>3 DEF Worded, AskingAgain
  <2>5. s.state \in Free /\ t.state \in {"SentUpdate"} \cup Asking /\ s.state \notin Proposing
    BY <1>1, <2>1 DEF Free, AskingAgain, Asking, Proposing
  <2> QED BY <2>1, <2>3, <2>4, <2>5 DEF Proposes, t
<1>2. CASE s.state \notin {"SentUpdateGlare"} \cup AskingAgain
  <2>1. t = [s EXCEPT !.glare = @ - 1]
    BY <1>2 DEF Glare, None, AskingAgain
  <2>2. /\ SameMedia(s, t) /\ t.acks = s.acks /\ t.state = s.state /\ t.got = s.got
        /\ t.propLocal = s.propLocal /\ t.propRemote = s.propRemote /\ t.out = {}
    BY <2>1 DEF Ready, Sessions, SameMedia
  <2> HIDE DEF t
  <2> QED BY <2>2 DEF Staying, Plain, t
<1> QED BY <1>1, <1>2

\* The offer of the peer is answered in a 200.
LEMMA MediaProvideAnswer ==
  ASSUME NEW s, Ready(s), NEW p, Ready(p), NEW in, NEW to, NEW op, NEW op2,
         Paired(s, p, in, to, op, op2), Media(s, p, in, to, op, op2),
         s.state \in {"ReceivedReinvite", "ReceivedUpdate"}, NEW answer, answer # NoSdp
  PROVE  LET t == provideAnswer(s, answer) IN Media(t, p, in, to \cup t.out, op, op2)
<1> DEFINE t == provideAnswer(s, answer)
           y == Response(s.got, 200, answer)
<1>1. /\ t.state = "Connected" /\ t.acks = s.acks /\ t.out = {y} /\ t.local = answer
      /\ t.remote = s.propRemote /\ t.ok \in {y, s.ok}
  BY DEF provideAnswer, withAnswer, sendInvite200, Send, Ready, Sessions
<1>2. s.state \in Undecided
  BY DEF Undecided
<1>3. s.got \in Messages /\ isOffering(s.got)
  BY <1>2, FieldTypes DEF Ready, Sound, Pending
<1>4. y.code = 200 /\ y.method = s.got.method /\ y.n = s.got.n /\ y.sdp = answer
  BY <1>3 DEF Response, Messages
<1>5. s.propRemote = s.got.sdp /\ s.got.sdp # NoSdp
  BY DEF Media, Told, Worded
<1>6. s.got = p.sent /\ Awaits(p)
  BY <1>2 DEF Paired, Agreed, Decides
<1>7. Requested(p) /\ p.sent.n = p.cseq
  BY DEF Ready, Sound, Requested
<1> HIDE DEF t, y
<1>8. Answering200(s, t, p, y)
  BY <1>1, <1>3, <1>4, <1>5, <1>6, <1>7 DEF Answering200, Accepts, isReply, isOffering
<1>9. ASSUME NEW z \in Outcomes(t, to \cup t.out), z.n = p.cseq
      PROVE  z = y
  <2>1. z = y \/ z \in Outcomes(s, to)
    BY <1>1, InOutcomes
  <2>2. z \notin Outcomes(s, to)
    BY <1>2, <1>9 DEF Paired, Agreed, AllConcluded, Concluded
  <2> QED BY <2>1, <2>2
<1>10. Media(t, p, in, to \cup t.out, op, op2)
  BY <1>6, <1>7, <1>8, <1>9, MediaAnswers
<1> QED BY <1>10 DEF t

\* The offer that was asked for is answered in the ACK.
LEMMA MediaProvideAck ==
  ASSUME NEW s, Ready(s), NEW p, NEW in, NEW to, NEW op, NEW op2,
         Paired(s, p, in, to, op, op2), Media(s, p, in, to, op, op2),
         s.state = "SentReinviteAnswered", NEW answer, NEW op3
  PROVE  LET t == provideAnswer(s, answer) IN Media(t, p, in, to \cup t.out, op3, op2)
<1> DEFINE t == provideAnswer(s, answer)
           ack == Request("ACK", s.sent.n, answer)
           w == withAnswer(s, answer)
<1>1. /\ s.sent.method = "INVITE" /\ s.sent.n = s.cseq /\ s.cseq \in Nat /\ s.state \in Unacked
      /\ \A a \in s.acks : a.n # s.sent.n
  BY KeptAcks DEF Ready, Sound, Requested, Unacked
<1>2. isOk(p.ok) /\ p.ok.n = s.cseq /\ p.state \in {"ReceivedReinviteSentOffer", "WaitingToHangup", "Terminated"}
  BY DEF Paired, Agreed, Due
<1>3. s.propRemote = p.ok.sdp
  BY DEF Media, Told, Invited
<1>4. /\ w.sent = s.sent /\ w.acks = s.acks /\ w.out = {} /\ w.state = "Connected" /\ w.ok = s.ok
      /\ w.local = answer /\ w.remote = s.propRemote
  BY DEF withAnswer, Ready, Sessions
<1>5. Recorded(w)
  <2>1. Recorded(s)
    BY RecordedSession DEF Ready
  <2> QED BY <2>1 DEF withAnswer, Recorded, Fields
<1>6. t = sendAck(w, answer)
  BY DEF provideAnswer
<1> HIDE DEF t, w
<1>7. /\ t.state = "Connected" /\ t.ok = s.ok /\ t.acks = s.acks \cup {ack} /\ t.out = {ack}
      /\ t.local = answer /\ t.remote = s.propRemote
      /\ ack.method = "ACK" /\ ack.n = s.sent.n /\ ack.sdp = answer
  BY <1>1, <1>4, <1>5, <1>6, MediaSendsAck DEF SameMedia
<1> HIDE DEF ack
<1>8. AnsweringAck(s, t, p, ack)
  BY <1>1, <1>2, <1>3, <1>7 DEF AnsweringAck
<1>9. \A a \in s.acks : a.n # p.ok.n
  BY <1>1, <1>2
<1>10. p.state = "ReceivedReinviteSentOffer" \/ isTerminated(p)
  BY <1>2 DEF isTerminated
<1>11. Media(t, p, in, to \cup t.out, op3, op2)
  BY <1>8, <1>9, <1>10, MediaAnswersInAck
<1> QED BY <1>11 DEF t

\* The offer that the peer asked for goes out in a 200.
LEMMA MediaOfferBack ==
  ASSUME NEW s, Ready(s), NEW p, Ready(p), NEW in, NEW to, NEW op, NEW op2,
         Paired(s, p, in, to, op, op2), Media(s, p, in, to, op, op2),
         s.state = "ReceivedReinviteNoOffer", NEW offer, offer # NoSdp
  PROVE  LET t == provideOffer(s, offer) IN Media(t, p, in, to \cup t.out, op, op2)
<1> DEFINE t == provideOffer(s, offer)
           y == Response(s.got, 200, offer)
<1>1. s.state \in Undecided
  BY DEF Undecided
<1>2. s.got \in Messages /\ s.got.method = "INVITE" /\ s.got.sdp = NoSdp
  BY <1>1, FieldTypes DEF Ready, Sound, Pending
<1>3. y.method = "INVITE" /\ y.n = s.got.n /\ y.sdp = offer
  BY <1>2 DEF Response, Messages
<1>4. /\ t.state = "ReceivedReinviteSentOffer" /\ t.acks = s.acks
      /\ t.local = s.local /\ t.remote = s.remote /\ t.out = {y} /\ t.ok = y /\ t.propLocal = offer
  BY DEF provideOffer, Asserting, Become, sendInvite200, Send, Ready, Sessions
<1>5. s.got = p.sent /\ Awaits(p)
  BY <1>1 DEF Paired, Agreed, Decides
<1>6. Requested(p) /\ p.sent.n = p.cseq /\ p.cseq \in Nat
  BY DEF Ready, Sound, Requested
<1>7. \A a \in p.acks : a.n \in Nat
  BY KeptAcks
<1> HIDE DEF t, y
<1>8. OfferingBack(s, t, p)
  BY <1>3, <1>4, <1>5, <1>6 DEF OfferingBack
<1>9. Media(t, p, in, to \cup t.out, op, op2)
  BY <1>1, <1>2, <1>5, <1>6, <1>7, <1>8, MediaOffersBack
<1> QED BY <1>9 DEF t

\* The offer of the peer is rejected.
LEMMA MediaReject ==
  ASSUME NEW s, Ready(s), s.state \in Undecided, NEW p, NEW in, NEW to, NEW op, NEW op2,
         Media(s, p, in, to, op, op2), NEW op3
  PROVE  LET t == reject(s) IN Media(t, p, in, to \cup t.out, op3, op2)
<1> DEFINE t == reject(s)
           y == Response(s.got, 488, NoSdp)
<1>1. isOffering(s.got) /\ s.got \in Messages
  BY FieldTypes DEF Ready, Sound, Pending
<1>2. y.code = 488 /\ y.method = s.got.method
  BY <1>1 DEF Response, Messages
<1>3. /\ SameMedia(s, t) /\ t.acks = s.acks /\ t.out = {y} /\ t.state = "Connected" /\ t.ok = s.ok
  BY DEF reject, Become, Send, Ready, Sessions, SameMedia
<1> HIDE DEF t, y
<1>4. Leaving(s, t, t.out) /\ Plain(t, t.out)
  BY <1>1, <1>2, <1>3 DEF Leaving, Plain, Worded, isTerminated, Undecided, Proposing, isOffering
<1>5. Invited(t, p) /\ ~Crossed(s, p, in) /\ s.state # "ReceivedReinviteSentOffer"
  BY <1>3 DEF Invited, Crossed, Accepted, Undecided, Proposing
<1>6. \A z \in Outcomes(t, to \cup t.out) : Accepts(p, z) => z \in Outcomes(s, to)
  BY <1>3, <1>4, OldOutcome DEF Accepts
<1>7. Media(t, p, in, to \cup t.out, op3, op2)
  BY <1>3, <1>4, <1>5, <1>6, MediaLeaves
<1> QED BY <1>7 DEF t

\* The session timer ends the session.
LEMMA MediaExpiration ==
  ASSUME NEW s, Ready(s), s.expires, "expired" \in Expire
  PROVE  Quitting(s, SessionExpiration(s), SessionExpiration(s).out)
<1> DEFINE u == [s EXCEPT !.expires = FALSE]
           t == SessionExpiration(s)
<1>1. Careful => s.state # "WaitingToHangup"
  BY DEF Ready, Sound, Unhurt
<1>2. /\ u \in Sessions /\ u.state = s.state /\ SameRequest(s, u) /\ u.out = {} /\ u.acks = s.acks
      /\ u.got = s.got /\ u.ok = s.ok /\ u.re200 = s.re200 /\ u.misled = s.misled
      /\ u.propLocal = s.propLocal /\ u.propRemote = s.propRemote /\ u.refresh = s.refresh
      /\ u.bad = s.bad /\ u.owed = s.owed /\ ~u.expires
  BY DEF Ready, Sessions, SameRequest
<1>3. t = end(u)
  BY DEF SessionExpiration
<1> HIDE DEF u, t
<1>4. Fit(u)
  BY <1>2, GoesLike DEF Ready, SameRequest, Same200
<1>5. Sound(u)
  BY <1>1, <1>2 DEF Ready, Sound, Requested, Pending, Repeating, Proposed, Unhurt, SameRequest
<1>6. Ready(u)
  BY <1>2, <1>4, <1>5 DEF Ready, SameRequest
<1>7. Quitting(u, t, t.out)
  BY <1>3, <1>6, MediaEnd
<1> QED BY <1>2, <1>7 DEF Quitting, t

\* No response comes at all.
LEMMA MediaUnanswered ==
  ASSUME NEW s, Ready(s), Awaits(s), NEW m, m.method = s.sent.method, m.method \in {"INVITE", "UPDATE"},
         m.code = 408, NEW quits
  PROVE  Quitting(s, dispatch(s, m, quits), dispatch(s, m, quits).out)
<1> DEFINE answered == {a \in s.acks : m.method = "INVITE" /\ m.code = 200 /\ a.n = m.n}
           t == dispatch(s, m, quits)
<1>1. answered = {} /\ s \in Sessions /\ s.out = {}
  BY DEF Ready
<1>2. ~isOffering(m) /\ general(m) /\ ~rejected(m)
  BY DEF isOffering, general, rejected
<1>3. CASE s.state = "SentUpdate"
  <2>1. m.method = "UPDATE"
    BY <1>3 DEF Ready, Sound, Requested
  <2>2. t = dispatchSentUpdate(s, m)
    BY <1>1, <1>3 DEF dispatch, Undecided
  <2>3. t = Hangup(s)
    BY <1>2, <2>1, <2>2 DEF dispatchSentUpdate
  <2> QED BY <1>1, <2>3, MediaHangup
<1>4. CASE s.state \in Asking
  <2> DEFINE u == [s EXCEPT !.stale = FALSE]
  <2>1. m.method = "INVITE"
    BY <1>4 DEF Ready, Sound, Requested, Unacked
  <2>2. t = dispatchSentReinvite(s, m)
    BY <1>1, <1>4 DEF dispatch, Undecided, Asking
  <2>3. t = Hangup(u)
    BY <1>2, <2>1, <2>2 DEF dispatchSentReinvite
  <2>4. u \in Sessions /\ u.out = {} /\ u.ok = s.ok /\ u.acks = s.acks
    BY <1>1 DEF Sessions
  <2> HIDE DEF t, u
  <2>5. Quitting(s, Hangup(u), Hangup(u).out)
    BY <2>4, MediaHangup
  <2> QED BY <2>3, <2>5 DEF t
<1>5. CASE s.state = "WaitingToTerminate"
  <2>1. t = dispatchWaitingToTerminate(s, m)
    BY <1>1, <1>5 DEF dispatch, Undecided
  <2>2. m.method = "INVITE"
    BY <1>5 DEF Ready, Sound, Requested, Unacked
  <2>3. t = Hangup(s)
    BY <1>2, <2>1, <2>2 DEF dispatchWaitingToTerminate
  <2> QED BY <1>1, <2>3, MediaHangup
<1>6. CASE s.state = "Terminated"
  <2>1. t = dispatchTerminated(s, m)
    BY <1>1, <1>6 DEF dispatch, Undecided
  <2>2. t = s
    BY <1>2, <2>1 DEF dispatchTerminated
  <2> QED BY <1>6, <2>2, MediaSame DEF isTerminated
<1> QED BY <1>3, <1>4, <1>5, <1>6 DEF Awaits, Awaiting

-----------------------------------------------------------------------------
(* The actions, and what the ends have been told. *)

\* What has been sent makes no difference.
LEMMA EmptiedMedia ==
  ASSUME NEW t \in Sessions, NEW p, NEW in, NEW to, NEW op, NEW op2,
         Media(t, p, in, to, op, op2)
  PROVE  Media([t EXCEPT !.out = {}], p, in, to, op, op2)
<1> DEFINE u == [t EXCEPT !.out = {}]
<1>1. /\ SameMedia(t, u) /\ u.acks = t.acks /\ u.state = t.state /\ u.got = t.got /\ u.sent = t.sent
      /\ u.propLocal = t.propLocal /\ u.propRemote = t.propRemote
  BY DEF Sessions, SameMedia
<1> HIDE DEF u
<1>2. Staying(t, u, {}) /\ InFlight(u, op) /\ to \cup {} = to
  BY <1>1 DEF Staying, Plain, InFlight, Media, Told
<1>3. Media(u, p, in, to \cup {}, op, op2)
  BY <1>2, MediaStays
<1> QED BY <1>2, <1>3 DEF u

\* The setup does not change.
LEMMA MediaSetup ==
  ASSUME UNCHANGED setup, NEW ss, NEW nn, NEW oo
  PROVE  AllMedia(ss, nn, oo) => AllMedia(ss, nn, oo)'
BY DEF AllMedia

\* A step of one end: what its handler keeps of the descriptions is kept.
LEMMA StepMedia ==
  ASSUME IInv, JInv, KInv, NEW e \in End, NEW t, Follows(session[e], t),
         NEW gone, NEW closed, Step(e, t, gone, closed),
         /\ Patient /\ AllSound(session, net, open) /\ ~t.misled
         /\ Media(session[e], session[other(e)], net[e], net[other(e)], open[e], open[other(e)])
         => Media(t, session[other(e)], net[e] \ gone, net[other(e)] \cup t.out,
                  Waiting(e, closed, t.out), open[other(e)])
  PROVE  KInv'
<1> DEFINE s == session[e]
           p == session[other(e)]
           u == [t EXCEPT !.out = {}]
<1>1. /\ UNCHANGED setup
      /\ session' = [session EXCEPT ![e] = u]
      /\ net' = [net EXCEPT ![e] = @ \ gone, ![other(e)] = @ \cup t.out]
      /\ open' = [open EXCEPT ![e] = Waiting(e, closed, t.out)]
  BY DEF Step, Waiting
<1>2. other(e) \in End /\ other(e) # e /\ other(other(e)) = e /\ \A d \in End : d = e \/ d = other(e)
  BY Others
<1>3. /\ session \in [End -> Sessions] /\ net \in [End -> SUBSET Messages]
      /\ open \in [End -> SUBSET Messages]
  BY InvParts DEF DialogFits, EndsFit, NetFits, OpenFits
<1>4. t \in Sessions /\ (s.misled => t.misled)
  BY DEF Follows, Fit
<1>5. u.misled = t.misled
  BY <1>4, EmptiedSound
<1>6. \A q, in, to, op, op2 : Media(t, q, in, to, op, op2) => Media(u, q, in, to, op, op2)
  BY <1>4, EmptiedMedia
<1> HIDE DEF u
<1>7. session'[e] = u /\ session'[other(e)] = p
  BY <1>1, <1>2, <1>3
<1>8. /\ net'[e] = net[e] \ gone /\ net'[other(e)] = net[other(e)] \cup t.out
      /\ open'[e] = Waiting(e, closed, t.out) /\ open'[other(e)] = open[other(e)]
  BY <1>1, <1>2, <1>3
<1> SUFFICES ASSUME Patient', AcksInTurn'
             PROVE  AllMedia(session, net, open)'
  BY DEF KInv
<1>9. Patient
  BY <1>1, SoundSetup
<1>10. ~t.misled /\ AcksInTurn
  <2>1. \A d \in End : ~session'[d].misled
    BY DEF AcksInTurn
  <2> QED BY <1>2, <1>4, <1>5, <1>7, <2>1 DEF AcksInTurn
<1>11. AllSound(session, net, open) /\ AllMedia(session, net, open)
  BY <1>9, <1>10 DEF JInv, KInv
<1>12. Media(s, p, net[e], net[other(e)], open[e], open[other(e)])
  BY <1>11 DEF AllMedia
<1>13. Media(u, p, net'[e], net'[other(e)], open'[e], open'[other(e)])
  BY <1>6, <1>8, <1>9, <1>10, <1>11, <1>12
<1>14. Media(p, u, net'[other(e)], net'[e], open'[other(e)], open'[e])
  BY <1>13, MediaTurned
<1>15. AllMedia(session', net', open')
  BY <1>2, <1>7, <1>13, <1>14 DEF AllMedia
<1> QED BY <1>1, <1>15, MediaSetup

\* The network does something.
LEMMA NetMedia ==
  ASSUME JInv, KInv, NEW e \in End, UNCHANGED <<setup, session, open>>,
         /\ Patient /\ AllSound(session, net, open)
         /\ Media(session[e], session[other(e)], net[e], net[other(e)], open[e], open[other(e)])
         => Media(session[e], session[other(e)], net'[e], net'[other(e)], open[e], open[other(e)])
  PROVE  KInv'
<1> DEFINE s == session[e]
           p == session[other(e)]
<1>1. other(e) \in End /\ other(other(e)) = e /\ \A d \in End : d = e \/ d = other(e)
  BY Others
<1> SUFFICES ASSUME Patient', AcksInTurn'
             PROVE  AllMedia(session, net, open)'
  BY DEF KInv
<1>2. Patient /\ AcksInTurn
  BY SoundSetup DEF AcksInTurn
<1>3. AllSound(session, net, open) /\ AllMedia(session, net, open)
  BY <1>2 DEF JInv, KInv
<1>4. Media(s, p, net[e], net[other(e)], open[e], open[other(e)])
  BY <1>3 DEF AllMedia
<1>5. Media(s, p, net'[e], net'[other(e)], open[e], open[other(e)])
  BY <1>2, <1>3, <1>4
<1>6. Media(p, s, net'[other(e)], net'[e], open[other(e)], open[e])
  BY <1>5, MediaTurned
<1>7. AllMedia(session, net', open)
  BY <1>1, <1>5, <1>6 DEF AllMedia
<1>8. AllMedia(session', net', open')
  BY <1>7
<1> QED BY <1>8, MediaSetup

\* A request goes out.
LEMMA ProposeMedia ==
  ASSUME IInv, JInv, KInv, NEW e \in End, NEW t, Follows(session[e], t), Step(e, t, {}, {}),
         Patient /\ AllSound(session, net, open) =>
           Proposes(session[e], t) /\ session[e].state \notin Proposing
  PROVE  KInv'
<1> DEFINE s == session[e]
           p == session[other(e)]
           in == net[e]
           to == net[other(e)]
<1> SUFFICES ASSUME Patient, AllSound(session, net, open), ~t.misled,
                    Media(s, p, in, to, open[e], open[other(e)])
             PROVE  Media(t, p, in \ {}, to \cup t.out, Waiting(e, {}, t.out), open[other(e)])
  BY StepMedia
<1>1. /\ Ready(s) /\ Paired(s, p, in, to, open[e], open[other(e)])
  BY SoundParts
<1>2. Proposes(s, t) /\ ~Crossed(s, p, in)
  BY DEF Crossed, Accepted
<1>3. \A y \in Outcomes(p, in) : y.n # t.cseq
  <2>1. \A y \in Outcomes(p, in) : y.n <= s.cseq
    BY <1>1 DEF Paired, Agreed, AllConcluded, Concluded
  <2> QED BY <1>1, <1>2, <2>1 DEF Proposes, Ready
<1>4. t.sent \in Waiting(e, {}, t.out)
  BY <1>2 DEF Proposes, Waiting
<1>5. in \ {} \subseteq in
  OBVIOUS
<1> QED BY <1>2, <1>3, <1>4, <1>5, MediaProposes

\* A session ends.
LEMMA QuitMedia ==
  ASSUME IInv, JInv, KInv, NEW e \in End, NEW t, Follows(session[e], t),
         NEW gone, NEW closed, Step(e, t, gone, closed),
         Patient /\ AllSound(session, net, open) => Quitting(session[e], t, t.out)
  PROVE  KInv'
<1>1. net[e] \ gone \subseteq net[e]
  OBVIOUS
<1> QED BY <1>1, StepMedia, MediaQuits

\* The application offers, asks for an offer or refreshes.
LEMMA AskMedia ==
  ASSUME IInv, JInv, KInv, NEW e \in End, Ask(e)
  PROVE  KInv'
<1> DEFINE s == session[e]
           offer == Sdp(e, e, s.cseq + 1)
<1>1. /\ s.cseq < MaxMods /\ s.state = "Connected"
      /\ \/ Step(e, provideOffer(s, offer), {}, {})
         \/ "request" \in Kinds /\ Step(e, requestOffer(s), {}, {})
         \/ "refresh" \in Kinds /\ Step(e, sessionRefresh(s), {}, {})
  BY DEF Ask
<1>2. Fit(s) /\ s.cseq + 1 \in 0..MaxMods
  BY <1>1, InvParts
<1>3. offer \in Sdps \ {NoSdp}
  BY <1>2, SdpTypes
<1> HIDE DEF offer
<1>4. Patient /\ AllSound(session, net, open) => Ready(s)
  BY SoundParts
<1>5. s.state \notin Proposing
  BY <1>1 DEF Proposing
<1>6. CASE Step(e, provideOffer(s, offer), {}, {})
  <2>1. Follows(s, provideOffer(s, offer))
    BY <1>1, <1>2, <1>3, GoesProvideOffer DEF Goes
  <2>2. Ready(s) => Proposes(s, provideOffer(s, offer))
    BY <1>1, MediaProvideOffer
  <2> QED BY <1>4, <1>5, <1>6, <2>1, <2>2, ProposeMedia
<1>7. CASE Step(e, requestOffer(s), {}, {})
  <2>1. Follows(s, requestOffer(s))
    BY <1>1, <1>2, GoesRequestOffer DEF Goes
  <2>2. Ready(s) => Proposes(s, requestOffer(s))
    BY <1>1, MediaRequestOffer
  <2> QED BY <1>4, <1>5, <1>7, <2>1, <2>2, ProposeMedia
<1>8. CASE "refresh" \in Kinds /\ Step(e, sessionRefresh(s), {}, {})
  <2>1. Follows(s, sessionRefresh(s))
    BY <1>1, <1>2, <1>8, GoesRefresh DEF Goes
  <2>2. Ready(s) => Proposes(s, sessionRefresh(s))
    BY <1>1, MediaRefresh
  <2> QED BY <1>4, <1>5, <1>8, <2>1, <2>2, ProposeMedia
<1> QED BY <1>1, <1>6, <1>7, <1>8

\* The glare timer fires.
LEMMA GlareMedia ==
  ASSUME IInv, JInv, KInv, NEW e \in End, GlareTimeout(e)
  PROVE  KInv'
<1> DEFINE s == session[e]
           p == session[other(e)]
           t == Glare(s)
<1>1. s.glare > 0 /\ s.cseq < MaxMods /\ Step(e, t, {}, {})
  BY DEF GlareTimeout
<1>2. Fit(s)
  BY InvParts
<1>3. Follows(s, t)
  BY <1>1, <1>2, GoesAgain DEF Goes
<1>4. Ready(s) /\ Worded(s) => (Proposes(s, t) /\ s.state \notin Proposing) \/ Staying(s, t, t.out)
  BY MediaGlare
<1>5. Patient /\ AllSound(session, net, open) => Ready(s)
  BY SoundParts
<1> HIDE DEF t
<1>6. CASE Proposes(s, t) /\ s.state \notin Proposing
  BY <1>1, <1>3, <1>6, ProposeMedia
<1>7. CASE ~(Proposes(s, t) /\ s.state \notin Proposing)
  <2> SUFFICES ASSUME Patient, AllSound(session, net, open), ~t.misled,
                      Media(s, p, net[e], net[other(e)], open[e], open[other(e)])
               PROVE  Media(t, p, net[e] \ {}, net[other(e)] \cup t.out,
                            Waiting(e, {}, t.out), open[other(e)])
    BY <1>1, <1>3, StepMedia
  <2>1. Staying(s, t, t.out)
    BY <1>4, <1>5, <1>7 DEF Media, Told
  <2>2. t.state = s.state /\ t.sent = s.sent
    BY <2>1 DEF Staying, SameMedia
  <2>3. InFlight(t, Waiting(e, {}, t.out))
    BY <2>2 DEF Media, Told, InFlight, Waiting
  <2>4. net[e] \ {} = net[e]
    OBVIOUS
  <2> QED BY <2>1, <2>3, <2>4, MediaStays
<1> QED BY <1>6, <1>7

\* The application that answers asks nothing.
LEMMA RespondsQuietly ==
  ASSUME NEW s, Ready(s), NEW t, Responds(s, t)
  PROVE  NoOffering(t.out)
<1>1. PICK y \in t.out : isReply(y) /\ Mute(s, t.out \ {y})
  BY DEF Responds
<1>2. \A x \in t.out : x = y \/ x \in s.acks \/ x.method = "BYE"
  BY <1>1 DEF Mute
<1>3. \A a \in s.acks : a.method = "ACK"
  BY KeptAcks
<1> QED BY <1>1, <1>2, <1>3 DEF NoOffering, isOffering, isReply

\* The application answers or rejects.
LEMMA AnswerMedia ==
  ASSUME IInv, JInv, KInv, NEW e \in End, Answer(e)
  PROVE  KInv'
<1> DEFINE s == session[e]
           p == session[other(e)]
           in == net[e]
           to == net[other(e)]
           op == open[e]
           op2 == open[other(e)]
<1>1. Fit(s) /\ s.got.n \in 0..MaxMods /\ s.sent.n \in 0..MaxMods
  BY InvParts, FieldTypes, MessageTypes
<1>2. other(e) \in End /\ e \in End
  BY Others
<1>3. AllSound(session, net, open) => Ready(s) /\ Ready(p) /\ Paired(s, p, in, to, op, op2)
  BY SoundParts
<1>4. in \ {} = in /\ op \ {} = op
  OBVIOUS
<1>6. CASE s.state \in {"ReceivedReinvite", "ReceivedUpdate"}
           /\ Step(e, provideAnswer(s, Sdp(e, other(e), s.got.n)), {}, {})
  <2> DEFINE answer == Sdp(e, other(e), s.got.n)
             t == provideAnswer(s, answer)
  <2>1. answer \in Sdps \ {NoSdp}
    BY <1>1, <1>2, SdpTypes
  <2> HIDE DEF answer
  <2>2. Follows(s, t)
    BY <1>1, <1>6, <2>1, GoesProvideAnswer DEF Goes, Answers, ToAnswer
  <2>3. Step(e, t, {}, {})
    BY <1>6 DEF answer
  <2>4. AllSound(session, net, open) => NoOffering(t.out)
    <3>1. Ready(s) => Responds(s, t)
      BY <1>6, SoundProvideAnswer DEF ToAnswer
    <3> QED BY <1>3, <3>1, RespondsQuietly
  <2>5. AllSound(session, net, open) /\ Media(s, p, in, to, op, op2) =>
          Media(t, p, in, to \cup t.out, op, op2)
    BY <1>3, <1>6, <2>1, MediaProvideAnswer
  <2> HIDE DEF t
  <2>6. AllSound(session, net, open) => Waiting(e, {}, t.out) = op
    BY <1>4, <2>4, WaitingFor
  <2> QED BY <1>4, <2>2, <2>3, <2>5, <2>6, StepMedia
<1>7. CASE s.state = "SentReinviteAnswered"
           /\ Step(e, provideAnswer(s, Sdp(e, e, s.sent.n)), {}, {})
  <2> DEFINE answer == Sdp(e, e, s.sent.n)
             t == provideAnswer(s, answer)
  <2>1. answer \in Sdps \ {NoSdp}
    BY <1>1, <1>2, SdpTypes
  <2> HIDE DEF answer
  <2>2. Follows(s, t)
    BY <1>1, <1>7, <2>1, GoesProvideAnswer DEF Goes, Answers, ToAnswer
  <2>3. Step(e, t, {}, {})
    BY <1>7 DEF answer
  <2>4. AllSound(session, net, open) /\ Media(s, p, in, to, op, op2) =>
          Media(t, p, in, to \cup t.out, Waiting(e, {}, t.out), op2)
    BY <1>3, <1>7, MediaProvideAck
  <2> HIDE DEF t
  <2> QED BY <1>4, <2>2, <2>3, <2>4, StepMedia
<1>8. CASE s.state = "ReceivedReinviteNoOffer"
           /\ Step(e, provideOffer(s, Sdp(e, other(e), s.got.n)), {}, {})
  <2> DEFINE answer == Sdp(e, other(e), s.got.n)
             t == provideOffer(s, answer)
  <2>1. answer \in Sdps \ {NoSdp}
    BY <1>1, <1>2, SdpTypes
  <2> HIDE DEF answer
  <2>2. Follows(s, t)
    BY <1>1, <1>8, <2>1, GoesProvideOffer DEF Goes, Answers
  <2>3. Step(e, t, {}, {})
    BY <1>8 DEF answer
  <2>4. AllSound(session, net, open) => NoOffering(t.out)
    <3>1. Ready(s) => Responds(s, t)
      BY <1>8, SoundOfferBack
    <3> QED BY <1>3, <3>1, RespondsQuietly
  <2>5. AllSound(session, net, open) /\ Media(s, p, in, to, op, op2) =>
          Media(t, p, in, to \cup t.out, op, op2)
    BY <1>3, <1>8, <2>1, MediaOfferBack
  <2> HIDE DEF t
  <2>6. AllSound(session, net, open) => Waiting(e, {}, t.out) = op
    BY <1>4, <2>4, WaitingFor
  <2> QED BY <1>4, <2>2, <2>3, <2>5, <2>6, StepMedia
<1>9. CASE s.state \in Undecided /\ Rejects /\ Step(e, reject(s), {}, {})
  <2>1. Follows(s, reject(s))
    BY <1>1, <1>9, GoesReject DEF Goes
  <2>2. AllSound(session, net, open) /\ Media(s, p, in, to, op, op2) =>
          Media(reject(s), p, in, to \cup reject(s).out, Waiting(e, {}, reject(s).out), op2)
    BY <1>3, <1>9, MediaReject
  <2> QED BY <1>4, <1>9, <2>1, <2>2, StepMedia
<1> QED BY <1>6, <1>7, <1>8, <1>9 DEF Answer

\* The application or the session timer ends the session.
LEMMA EndMedia ==
  ASSUME IInv, JInv, KInv, NEW e \in End, HangUp(e) \/ SessionExpired(e)
  PROVE  KInv'
<1> DEFINE s == session[e]
<1>1. Fit(s)
  BY InvParts
<1>2. Patient /\ AllSound(session, net, open) => Ready(s)
  BY SoundParts
<1>3. CASE HangUp(e)
  <2>1. Step(e, end(s), {}, {})
    BY <1>3 DEF HangUp
  <2>2. Follows(s, end(s))
    BY <1>1, GoesEnd DEF Goes
  <2> QED BY <1>2, <2>1, <2>2, MediaEnd, QuitMedia
<1>4. CASE SessionExpired(e)
  <2> DEFINE t == SessionExpiration(s)
  <2>1. "expired" \in Expire /\ s.expires /\ Step(e, t, {}, {})
    BY <1>4 DEF SessionExpired
  <2>2. Follows(s, t)
    BY <1>1, GoesExpired DEF Goes
  <2>3. Ready(s) => Quitting(s, t, t.out)
    BY <2>1, MediaExpiration
  <2> HIDE DEF t
  <2> QED BY <1>2, <2>1, <2>2, <2>3, QuitMedia
<1> QED BY <1>3, <1>4

\* The two waits do not run out where the ends are patient.
LEMMA PatientMedia ==
  ASSUME NEW e \in End, AckTimeout(e) \/ StaleTimeout(e)
  PROVE  KInv'
<1>1. "ack" \in Expire \/ "stale" \in Expire
  BY DEF AckTimeout, StaleTimeout
<1>2. UNCHANGED setup
  BY DEF AckTimeout, StaleTimeout, Step
<1>3. ~Patient'
  BY <1>1, <1>2, SoundSetup DEF Patient
<1> QED BY <1>3 DEF KInv

\* A transaction ends without a response.
LEMMA UnansweredMedia ==
  ASSUME IInv, JInv, KInv, NEW e \in End, NEW r \in open[e], Unanswered(e, r)
  PROVE  KInv'
<1> DEFINE s == session[e]
           m == Response(r, 408, NoSdp)
           t == dispatch(s, m, TRUE)
<1>1. Fit(s) /\ r \in Messages /\ isOffering(r)
  BY InvParts DEF DialogFits, OpenFits
<1>2. m \in Messages /\ m.method = r.method /\ m.n = r.n /\ m.code = 408
  BY <1>1, Negatives, ResponseTypes DEF Replies
<1>3. Step(e, t, {}, {r})
  BY DEF Unanswered
<1> HIDE DEF m
<1>4. Welcome(s, m) /\ m.method \in {"INVITE", "UPDATE"}
  BY <1>1, <1>2 DEF Welcome, isOffering
<1>5. Follows(s, t)
  BY <1>1, <1>4, HearsDispatch DEF Hears
<1>6. Ready(s) /\ Awaits(s) /\ m.method = s.sent.method => Quitting(s, t, t.out)
  BY <1>2, <1>4, MediaUnanswered
<1> HIDE DEF t
<1>7. ASSUME AllSound(session, net, open)
      PROVE  Quitting(s, t, t.out)
  <2>1. /\ Ready(s)
        /\ Paired(s, session[other(e)], net[e], net[other(e)], open[e], open[other(e)])
    BY <1>7, SoundParts
  <2>2. r = s.sent /\ Awaits(s)
    BY <2>1 DEF Paired, Agreed, Opened
  <2> QED BY <1>2, <1>6, <2>1, <2>2
<1> QED BY <1>3, <1>5, <1>7, QuitMedia

\* The network loses or declines a message, or a 200 is repeated.
LEMMA NetworkMedia ==
  ASSUME IInv, JInv, KInv, NEW e \in End,
         \/ \E m \in net[e] : Lose(e, m) \/ TooSmall(e, m)
         \/ Retransmit200(e)
  PROVE  KInv'
<1> DEFINE s == session[e]
           p == session[other(e)]
           in == net[e]
           to == net[other(e)]
           op == open[e]
           op2 == open[other(e)]
<1>1. other(e) \in End /\ other(e) # e /\ other(other(e)) = e
  BY Others
<1>2. net \in [End -> SUBSET Messages]
  BY DEF IInv, DialogFits, NetFits
<1>3. AllSound(session, net, open) => Ready(s) /\ Ready(p) /\ Paired(s, p, in, to, op, op2)
  BY SoundParts
<1>4. ASSUME NEW out, Plain(s, out)
      PROVE  Staying(s, s, out)
  BY <1>4 DEF Staying, SameMedia
<1>5. ASSUME NEW m \in in, Lose(e, m)
      PROVE  KInv'
  <2>1. net'[e] = in \ {m} /\ net'[other(e)] = to /\ UNCHANGED <<setup, session, open>> /\ lasting(m)
    BY <1>1, <1>2, <1>5 DEF Lose
  <2>2. ASSUME AllSound(session, net, open), Media(s, p, in, to, op, op2)
        PROVE  Media(s, p, in \ {m}, to, op, op2)
    <3>1. InFlight(s, op) /\ Plain(s, {}) /\ to \cup {} = to /\ in \ {m} \subseteq in
      BY <2>2 DEF Media, Told, Plain
    <3>2. ASSUME NEW y \in Outcomes(p, in), Accepts(s, y)
          PROVE  y \in Outcomes(p, in \ {m})
      <4>1. CASE y # m
        BY <4>1, InOutcomes
      <4>2. CASE y = m /\ isReply(m)
        <5>1. isOk(m) /\ m.n = s.cseq
          BY <2>1, <3>2, <4>2 DEF lasting, isOk, Accepts, isReply
        <5>2. p.ok = m
          BY <1>3, <2>2, <5>1, LastOk
        <5> QED BY <4>2, <5>1, <5>2, InOutcomes DEF isOk
      <4>3. CASE y = m /\ ~isReply(m)
        BY <4>3, InOutcomes
      <4> QED BY <4>1, <4>2, <4>3
    <3>3. Staying(s, s, {})
      BY <1>4, <3>1
    <3>4. Media(s, p, in \ {m}, to \cup {}, op, op2)
      BY <2>2, <3>1, <3>2, <3>3, MediaStays
    <3> QED BY <3>1, <3>4
  <2> QED BY <2>1, <2>2, NetMedia
<1>6. ASSUME NEW m \in in, TooSmall(e, m)
      PROVE  KInv'
  <2> DEFINE y == Response(m, 422, NoSdp)
             out == {y}
  <2>1. /\ net'[e] = in \ {m} /\ net'[other(e)] = to \cup out
        /\ UNCHANGED <<setup, session, open>> /\ isOffering(m)
    BY <1>1, <1>2, <1>6 DEF TooSmall
  <2>2. y.method = m.method /\ y.code = 422
    BY <1>2, Negatives, ResponseTypes DEF Replies
  <2> HIDE DEF y
  <2>3. Plain(s, out)
    BY <2>1, <2>2 DEF Plain, isOffering
  <2> HIDE DEF out
  <2>4. ASSUME Media(s, p, in, to, op, op2)
        PROVE  Media(s, p, in \ {m}, to \cup out, op, op2)
    <3>1. InFlight(s, op) /\ in \ {m} \subseteq in /\ Staying(s, s, out)
      BY <1>4, <2>3, <2>4 DEF Media, Told
    <3>2. \A z \in Outcomes(p, in) : Accepts(s, z) => z \in Outcomes(p, in \ {m})
      BY <2>1, InOutcomes DEF isOffering, isReply
    <3> QED BY <2>4, <3>1, <3>2, MediaStays
  <2> QED BY <2>1, <2>4, NetMedia
<1>7. CASE Retransmit200(e)
  <2> DEFINE out == {s.ok}
  <2>1. /\ net'[e] = in /\ net'[other(e)] = to \cup out
        /\ UNCHANGED <<setup, session, open>> /\ s.re200
    BY <1>1, <1>2, <1>7 DEF Retransmit200
  <2>2. ASSUME AllSound(session, net, open), Media(s, p, in, to, op, op2)
        PROVE  Media(s, p, in, to \cup out, op, op2)
    <3>1. isOk(s.ok)
      BY <1>3, <2>1, <2>2 DEF Ready, Sound, Repeating
    <3>2. Plain(s, out)
      BY <3>1 DEF Plain, isOk
    <3> HIDE DEF out
    <3>3. InFlight(s, op) /\ Staying(s, s, out)
      BY <1>4, <2>2, <3>2 DEF Media, Told
    <3> QED BY <2>2, <3>3, MediaStays
  <2> HIDE DEF out
  <2> QED BY <2>1, <2>2, NetMedia
<1> QED BY <1>5, <1>6, <1>7

\* A message arrives.
LEMMA ReceiveMedia ==
  ASSUME IInv, JInv, KInv, NEW e \in End, NEW m \in net[e], Receive(e, m)
  PROVE  KInv'
<1> DEFINE s == session[e]
           p == session[other(e)]
           in == net[e]
           to == net[other(e)]
           op == open[e]
           op2 == open[other(e)]
           gone == IF lasting(m) THEN {} ELSE {m}
           closed == {r \in op : m.code # 0 /\ r.method = m.method /\ r.n = m.n}
<1>1. Fit(s) /\ Quits \subseteq BOOLEAN
  BY InvParts
<1>2. other(e) \in End /\ other(other(e)) = e
  BY Others
<1>3. m \in Messages /\ OnItsWay(m, p)
  BY <1>2 DEF IInv, DialogFits, NetFits
<1>4. \/ /\ m.code = 0 \/ closed # {} \/ lasting(m)
         /\ \E quits \in Quits : Step(e, dispatch(s, m, quits), gone, closed)
      \/ /\ m.code # 0 /\ closed = {} /\ ~lasting(m)
         /\ Step(e, s, gone, {})
  BY DEF Receive
<1>5. m.code = 422 => s.cseq < MaxMods
  BY DEF Receive
<1>6. \A r : r \in closed <=> r \in op /\ m.code # 0 /\ r.method = m.method /\ r.n = m.n
  OBVIOUS
<1>7. gone \subseteq {m}
  OBVIOUS
<1>8. in \ gone \subseteq in /\ in \ (in \ gone) \subseteq {m}
  BY <1>7
<1> HIDE DEF gone, closed
<1>9. AllSound(session, net, open) =>
        /\ Ready(s) /\ Ready(p) /\ Paired(s, p, in, to, op, op2)
        /\ s.sent.n = s.cseq
        /\ s.state = "SentUpdate" => s.sent.method = "UPDATE"
        /\ s.state = "SentReinvite" => s.sent.method = "INVITE"
  BY SoundParts DEF Ready, Sound, Requested, Unacked, Asking
\* No transaction waits for the response m.
<1>10. CASE m.code # 0 /\ closed = {} /\ ~lasting(m) /\ Step(e, s, gone, {})
  <2>1. Follows(s, s)
    BY <1>1, GoesOn DEF Goes
  <2> SUFFICES ASSUME Patient, AllSound(session, net, open), ~s.misled, Media(s, p, in, to, op, op2)
               PROVE  Media(s, p, in \ gone, to \cup s.out, Waiting(e, {}, s.out), op2)
    BY <1>10, <2>1, StepMedia
  <2>2. Staying(s, s, s.out)
    BY <1>9, MediaSame
  <2>3. InFlight(s, op)
    BY DEF Media, Told
  <2>4. InFlight(s, Waiting(e, {}, s.out))
    BY <2>3 DEF InFlight, Waiting
  <2>5. s.state \in Proposing => ~Accepts(s, m)
    <3> SUFFICES ASSUME s.state \in Proposing, Accepts(s, m)
                 PROVE  FALSE
      OBVIOUS
    <3>1. m.code = 200 /\ m.n = s.cseq /\ m.method = s.sent.method
      BY DEF Accepts
    <3>2. s.state # "SentReinvite"
      BY <1>9, <1>10, <3>1 DEF lasting
    <3>3. s.sent \in op
      BY <2>3, <3>2 DEF InFlight, Proposing
    <3> QED BY <1>6, <1>9, <1>10, <3>1, <3>3
  <2>6. \A y \in Outcomes(p, in) : Accepts(s, y) /\ s.state \in Proposing => y \in Outcomes(p, in \ gone)
    BY <1>7, <2>5, InOutcomes
  <2> QED BY <1>8, <2>2, <2>4, <2>6, MediaStays
<1>11. ASSUME m.code = 0 \/ closed # {} \/ lasting(m),
              NEW quits \in Quits, Step(e, dispatch(s, m, quits), gone, closed)
       PROVE  KInv'
  <2> DEFINE t == dispatch(s, m, quits)
  <2>1. Hears(s, t, m)
    BY <1>1, <1>3, <1>5, HearsDispatch DEF Welcome, OnItsWay
  <2>2. Follows(s, t)
    BY <2>1 DEF Hears
  <2>3. quits \in BOOLEAN
    BY <1>1
  <2>4. Ready(s) /\ Worded(s) /\ Expected(s, m) => Hearing(s, t, m)
    BY <2>3, MediaDispatch
  <2>5. Step(e, t, gone, closed)
    BY <1>11
  <2> HIDE DEF t
  <2> SUFFICES ASSUME Patient, AllSound(session, net, open), ~t.misled, Media(s, p, in, to, op, op2)
               PROVE  Media(t, p, in \ gone, to \cup t.out, Waiting(e, closed, t.out), op2)
    BY <2>2, <2>5, StepMedia
  <2>6. isReply(m) /\ ~isOk(m) => \E r \in op : r.method = m.method /\ r.n = m.n
    BY <1>6, <1>11 DEF isReply, isOk, lasting
  <2>7. Expected(s, m)
    BY <1>3, <1>9, <2>6, Expecting
  <2>8. Worded(s) /\ InFlight(s, op)
    BY DEF Media, Told
  <2>9. Hearing(s, t, m)
    BY <1>9, <2>4, <2>7, <2>8
  <2>10. s.state = "SentUpdate" /\ ~Concerns(s, m) => s.sent \in Waiting(e, closed, t.out)
    <3> SUFFICES ASSUME s.state = "SentUpdate", ~Concerns(s, m)
                 PROVE  s.sent \in Waiting(e, closed, t.out)
      OBVIOUS
    <3>1. s.sent \in op
      BY <2>8 DEF InFlight
    <3>2. s.sent \notin closed
      BY <1>6, <1>9 DEF Concerns, isReply
    <3> QED BY <3>1, <3>2 DEF Waiting
  <2>11. Proposes(s, t) => t.sent \in Waiting(e, closed, t.out)
    BY DEF Proposes, Waiting
  <2> QED BY <1>8, <1>9, <2>9, <2>10, <2>11, MediaHears
<1> QED BY <1>4, <1>10, <1>11

\* The two ends that have set up the dialog use each other's descriptions.
LEMMA InitMedia ==
  ASSUME Init
  PROVE  KInv
<1>1. ASSUME NEW e \in End
      PROVE  /\ session[e].state = "Connected" /\ session[e].ok.method \notin {"INVITE", "UPDATE"}
             /\ session[e].local = Sdp(e, "a", 0) /\ session[e].remote = Sdp(other(e), "a", 0)
             /\ net[e] = {}
  <2>1. PICK uac \in BOOLEAN : uac = (e = "a")
    OBVIOUS
  <2>2. session[e] = Established(uac, setup.Update, Sdp(e, "a", 0), Sdp(other(e), "a", 0))
    BY <2>1 DEF Init
  <2>3. session[e].local = Sdp(e, "a", 0) /\ session[e].remote = Sdp(other(e), "a", 0)
    BY <2>2 DEF Established
  <2>4. net[e] = {}
    BY DEF Init
  <2> QED BY <2>2, <2>3, <2>4, EstablishedSound
<1>2. ASSUME NEW e \in End
      PROVE  Media(session[e], session[other(e)], net[e], net[other(e)], open[e], open[other(e)])
  <2> DEFINE s == session[e]
             p == session[other(e)]
  <2>1. other(e) \in End /\ other(other(e)) = e
    BY Others
  <2>2. Outcomes(p, net[e]) = {} /\ Outcomes(s, net[other(e)]) = {}
    BY <1>1, <2>1 DEF Outcomes
  <2>3. /\ s.state = "Connected" /\ p.state = "Connected" /\ net[e] = {} /\ net[other(e)] = {}
        /\ s.local = p.remote /\ s.remote = p.local
    BY <1>1, <2>1
  <2> HIDE DEF s, p
  <2>4. Told(s, p, net[e], net[other(e)], open[e])
    BY <2>2, <2>3 DEF Told, Worded, InFlight, Invited, Keeping, AnswersBack, TakenOver
  <2>5. Told(p, s, net[other(e)], net[e], open[other(e)])
    BY <2>2, <2>3 DEF Told, Worded, InFlight, Invited, Keeping, AnswersBack, TakenOver
  <2>6. Exclusive(s, p, net[e], net[other(e)]) /\ Settles(s, p, net[e], net[other(e)])
    BY <2>2, <2>3 DEF Exclusive, Accepted, Settles, Match
  <2>7. Media(s, p, net[e], net[other(e)], open[e], open[other(e)])
    BY <2>4, <2>5, <2>6 DEF Media
  <2> QED BY <2>7 DEF s, p
<1> QED BY <1>2 DEF KInv, AllMedia

\* No step breaks it.
LEMMA NextMedia ==
  ASSUME IInv, JInv, KInv, [Next]_vars
  PROVE  KInv'
<1>1. ASSUME NEW e \in End,
             \/ Ask(e) \/ Answer(e) \/ HangUp(e)
             \/ \E m \in net[e] : Receive(e, m) \/ Lose(e, m) \/ TooSmall(e, m)
             \/ \E r \in open[e] : Unanswered(e, r)
             \/ Retransmit200(e) \/ AckTimeout(e) \/ GlareTimeout(e) \/ StaleTimeout(e)
             \/ SessionExpired(e)
      PROVE  KInv'
  BY <1>1, AskMedia, AnswerMedia, EndMedia, ReceiveMedia, NetworkMedia, UnansweredMedia,
     PatientMedia, GlareMedia
<1>2. CASE UNCHANGED vars
  <2>1. "a" \in End /\ UNCHANGED <<setup, session, open, net>>
    BY <1>2 DEF vars, End
  <2> QED BY <2>1, NetMedia
<1> QED BY <1>1, <1>2 DEF Next

\* Where no end stops waiting or mistakes an ACK, the descriptions of the two ends match at any
\* time, or an end is terminated, or the 200 or the ACK that settles them is still to be taken.
THEOREM MediaAgreement == Spec => [](IInv /\ JInv /\ KInv)
<1>1. Init => IInv /\ JInv /\ KInv
  BY InitFits, InitSound, InitMedia
<1>2. IInv /\ JInv /\ KInv /\ [Next]_vars => (IInv /\ JInv /\ KInv)'
  BY NextKeeps, NextSound, NextMedia
<1> QED BY <1>1, <1>2, PTL DEF Spec

\* When neither end of the dialog has an offer under way, what one calls its local description
\* is the remote one of the other, whatever crossed, was rejected, lost, repeated or sent again
\* after a 491 or a 422, unless the ACK of an earlier re-INVITE was taken for that of a later one.
THEOREM DescriptionsAgree == Spec => []SdpAgrees
<1>1. IInv /\ JInv /\ KInv => SdpAgrees
  <2> SUFFICES ASSUME KInv, Patient, AcksInTurn, \A e \in End : settled(e), NEW e \in End
               PROVE  session[e].local = session[other(e)].remote
    BY DEF SdpAgrees
  <2>1. session[e].state = "Connected" /\ session[other(e)].state = "Connected"
    BY Others DEF settled
  <2>2. Settles(session[e], session[other(e)], net[e], net[other(e)])
    BY DEF KInv, AllMedia, Media
  <2> QED BY <2>1, <2>2 DEF Settles, isTerminated, Match, Crossed, Accepted, Returned, Proposing
<1> QED BY <1>1, MediaAgreement, PTL

==============================================================================
