----------------------------- MODULE InviteDialog -----------------------------
(***************************************************************************)
(* The two ends of an established INVITE dialog, each an InviteSession     *)
(* under an application, and the network and transactions between them.    *)
(* End "a" sent the INVITE that made the dialog.                           *)
(*                                                                         *)
(* An SDP is a triple <<by, of, n>>: written by one end for the            *)
(* modification with CSeq n of the end of.                                 *)
(***************************************************************************)
EXTENDS InviteSession

CONSTANTS
  Setups  \* what the two applications and the network may do

End == {"a", "b"}

ASSUME DialogAssumption ==
  Setups \subseteq
    [Update : BOOLEAN, Askers : SUBSET End, Kinds : SUBSET {"offer", "request", "refresh"},
     Rejects : BOOLEAN, Ends : BOOLEAN, Quits : (SUBSET BOOLEAN) \ {{}},
     Expire : SUBSET {"408", "ack", "stale", "expired"}, Loss : BOOLEAN,
     MaxMods : Nat, MaxAsks : Nat]

VARIABLES
  setup,     \* the member of Setups this dialog lives in; it never changes
  session,   \* the InviteSession of each end
  net,       \* the messages on the way to each end
  open,      \* the requests of each end whose client transaction waits for a final response
  asked      \* modifications the application of each end has started

vars == <<setup, session, net, open, asked>>

Askers  == setup.Askers  \* the ends whose applications modify the session
Kinds   == setup.Kinds   \* how: "offer", "request" an offer, "refresh" (session timer)
Rejects == setup.Rejects \* may an application reject an offer?
Ends    == setup.Ends    \* may an application end the session by itself?
Quits   == setup.Quits   \* may an application that is told of trouble end the session?
Expire  == setup.Expire  \* the timeouts that may happen
Loss    == setup.Loss    \* may the network lose a 200 of an INVITE or an ACK?
MaxAsks == setup.MaxAsks \* bound: modifications an application starts
MaxMods == setup.MaxMods \* bound: CSeq of an end, repetitions after 491 and 422 included

other(e) == IF e = "a" THEN "b" ELSE "a"

Sdp(by, of, n) == <<by, of, n>>

Init ==
  /\ setup \in Setups
  /\ session = [e \in End |-> Established(e = "a", setup.Update, Sdp(e, "a", 0), Sdp(other(e), "a", 0))]
  /\ net = [e \in End |-> {}]
  /\ open = [e \in End |-> {}]
  /\ asked = [e \in End |-> 0]

-----------------------------------------------------------------------------
\* Messages the far end repeats or acknowledges itself: a copy may arrive late.
lasting(m) == m.method = "ACK" \/ (m.method = "INVITE" /\ m.code = 200)

\* The session of e becomes t, what it sends goes on the way, and the messages
\* gone and the transactions closed are done with.
Step(e, t, gone, closed) ==
  /\ UNCHANGED setup
  /\ session' = [session EXCEPT ![e] = [t EXCEPT !.out = {}]]
  /\ net' = [net EXCEPT ![e] = @ \ gone, ![other(e)] = @ \cup t.out]
  /\ open' = [open EXCEPT ![e] = (@ \ closed) \cup {m \in t.out : isOffering(m)}]

(* The application of e. *)
Ask(e) ==
  LET s == session[e]
  IN /\ e \in Askers /\ asked[e] < MaxAsks /\ s.cseq < MaxMods /\ s.state = "Connected"
     /\ \/ "offer" \in Kinds /\ Step(e, provideOffer(s, Sdp(e, e, s.cseq + 1)), {}, {})
        \/ "request" \in Kinds /\ Step(e, requestOffer(s), {}, {})
        \/ "refresh" \in Kinds /\ Step(e, sessionRefresh(s), {}, {})
     /\ asked' = [asked EXCEPT ![e] = @ + 1]

Answer(e) ==
  LET s == session[e]
  IN /\ \/ /\ s.state \in {"ReceivedReinvite", "ReceivedUpdate"}
           /\ Step(e, provideAnswer(s, Sdp(e, other(e), s.got.n)), {}, {})
        \/ /\ s.state = "SentReinviteAnswered"
           /\ Step(e, provideAnswer(s, Sdp(e, e, s.sent.n)), {}, {})
        \/ /\ s.state = "ReceivedReinviteNoOffer"
           /\ Step(e, provideOffer(s, Sdp(e, other(e), s.got.n)), {}, {})
        \/ /\ s.state \in Undecided /\ Rejects
           /\ Step(e, reject(s), {}, {})
     /\ UNCHANGED asked

HangUp(e) ==
  /\ Ends /\ ~isTerminated(session[e])
  /\ Step(e, end(session[e]), {}, {})
  /\ UNCHANGED asked

-----------------------------------------------------------------------------
(* The network and the transactions. *)
Receive(e, m) ==
  LET closed == {r \in open[e] : m.code # 0 /\ r.method = m.method /\ r.n = m.n}
      gone == IF lasting(m) THEN {} ELSE {m}
  IN /\ m \in net[e]
     /\ m.code = 422 => session[e].cseq < MaxMods
     /\ \/ /\ m.code = 0 \/ closed # {} \/ lasting(m)
           /\ \E quits \in Quits : Step(e, dispatch(session[e], m, quits), gone, closed)
        \/ /\ m.code # 0 /\ closed = {} /\ ~lasting(m)
           /\ Step(e, session[e], gone, {})
     /\ UNCHANGED asked

Lose(e, m) ==
  /\ Loss /\ m \in net[e] /\ lasting(m)
  /\ net' = [net EXCEPT ![e] = @ \ {m}]
  /\ UNCHANGED <<setup, session, open, asked>>

\* A proxy on the way finds the session interval of a request too small.
TooSmall(e, m) ==
  /\ "refresh" \in Kinds /\ m \in net[e] /\ isOffering(m)
  /\ net' = [net EXCEPT ![e] = @ \ {m}, ![other(e)] = @ \cup {Response(m, 422, NoSdp)}]
  /\ UNCHANGED <<setup, session, open, asked>>

\* The transaction of a request ends without a response.
Unanswered(e, r) ==
  /\ "408" \in Expire /\ r \in open[e]
  /\ Step(e, dispatch(session[e], Response(r, 408, NoSdp), TRUE), {}, {r})
  /\ UNCHANGED asked

-----------------------------------------------------------------------------
(* The timers of the session. *)
Retransmit200(e) ==
  /\ session[e].re200 /\ session[e].ok \notin net[other(e)]
  /\ net' = [net EXCEPT ![other(e)] = @ \cup {session[e].ok}]
  /\ UNCHANGED <<setup, session, open, asked>>

AckTimeout(e) ==
  /\ "ack" \in Expire
  /\ \E n \in session[e].waitAck, quits \in Quits :
       Step(e, WaitForAck(session[e], n, quits), {}, {})
  /\ UNCHANGED asked

GlareTimeout(e) ==
  /\ session[e].glare > 0 /\ session[e].cseq < MaxMods
  /\ Step(e, Glare(session[e]), {}, {})
  /\ UNCHANGED asked

StaleTimeout(e) ==
  /\ "stale" \in Expire /\ session[e].stale
  /\ \E quits \in Quits : Step(e, StaleReInvite(session[e], quits), {}, {})
  /\ UNCHANGED asked

SessionExpired(e) ==
  /\ "expired" \in Expire /\ session[e].expires /\ session[e].state # "Terminated"
  /\ Step(e, SessionExpiration(session[e]), {}, {})
  /\ UNCHANGED asked

Next ==
  \E e \in End :
    \/ Ask(e) \/ Answer(e) \/ HangUp(e)
    \/ \E m \in net[e] : Receive(e, m) \/ Lose(e, m) \/ TooSmall(e, m)
    \/ \E r \in open[e] : Unanswered(e, r)
    \/ Retransmit200(e) \/ AckTimeout(e) \/ GlareTimeout(e) \/ StaleTimeout(e) \/ SessionExpired(e)

\* The timer thread fires every timer, and a BYE is repeated by its
\* transaction until it arrives.
Fairness ==
  \A e \in End :
    /\ WF_vars(AckTimeout(e))
    /\ WF_vars(StaleTimeout(e))
    /\ WF_vars(\E m \in net[e] : m.method = "BYE" /\ Receive(e, m))

Spec == Init /\ [][Next]_vars /\ Fairness

-----------------------------------------------------------------------------
(* Correctness. *)
Sdps == {NoSdp} \cup (End \X End \X (0..MaxMods))

Messages ==
  [method : {None, "INVITE", "UPDATE", "ACK", "BYE"}, n : 0..MaxMods, sdp : Sdps,
   code : {0, 200, 400, 408, 422, 481, 488, 491, 500}]

\* The two ends, the messages between them and the transactions are well-formed.
TypeOK ==
  /\ session \in [End -> [
       state : States, uac : BOOLEAN, update : BOOLEAN, cseq : 0..MaxMods,
       local : Sdps \ {NoSdp}, remote : Sdps \ {NoSdp}, propLocal : Sdps, propRemote : Sdps,
       sent : Messages, got : Messages, ok : Messages, re200 : BOOLEAN,
       waitAck : SUBSET (0..MaxMods), misled : BOOLEAN, acks : SUBSET Messages,
       stale : BOOLEAN, glare : Nat, refresh : BOOLEAN, expires : BOOLEAN,
       owed : BOOLEAN, out : {{}}, bad : BOOLEAN]]
  /\ net \in [End -> SUBSET Messages]
  /\ open \in [End -> SUBSET Messages]
  /\ asked \in [End -> 0..MaxAsks]

\* No end stops waiting for an ACK or for the answer to its re-INVITE
Patient == {"ack", "stale"} \cap Expire = {}

\* No end took the ACK of an earlier re-INVITE for the one it was waiting for
AcksInTurn == \A e \in End : ~session[e].misled

\* No order of application calls, messages and timers that the interface
\* allows leads a session into one of its asserts or to the creator that a
\* called end does not have.  Where an end stops waiting, or mistakes an ACK, that
\* is no longer so: its next re-INVITE may meet a peer that still owes an answer
\* in its ACK.  Nor is it so when an offer is rejected and the next re-INVITE asks for one,
\* or when the session timer runs out in a session that waits to hang up.
NeverAsserts ==
  /\ Patient /\ AcksInTurn
  /\ ~(Rejects /\ "request" \in Kinds) /\ ~(Ends /\ "expired" \in Expire)
  => \A e \in End : ~session[e].bad

\* Sessions and messages are well-formed, and no assert of InviteSession fails.
SessionsSound == TypeOK /\ NeverAsserts

\* Nothing is left to happen to the offer of an end.
settled(e) ==
  /\ session[e].state = "Connected" /\ ~session[e].re200
  /\ open[e] = {}
  /\ ~ \E m \in net[e] : isOffering(m)

\* When neither end has an offer under way, what one end calls the local SDP
\* is what the other calls the remote one: whatever crossed, was rejected,
\* repeated or sent again after a 491, the media of the two ends match.  Said of
\* sessions in which no end gives up waiting for an ACK or an answer (Patient),
\* which may leave the ends with different SDP, and in which no end takes the
\* repeated ACK of an earlier re-INVITE for that of a later one (AcksInTurn).
SdpAgrees ==
  Patient /\ AcksInTurn /\ (\A e \in End : settled(e)) =>
    \A e \in End : session[e].local = session[other(e)].remote

\* A session that is back in Connected has called the application that made
\* an offer, or asked for one, about it: onAnswer, onOffer, onOfferRejected,
\* onIllegalNegotiation or onStaleReInviteTimeout.  Said of setups without session
\* refreshes: a 422 turns the application's offer into one, and it is told nothing.
OfferReported ==
  "refresh" \notin Kinds => \A e \in End : session[e].state = "Connected" => ~session[e].owed

\* The end that waits for the answer to its re-INVITE will get it: the 200
\* that was sent is on the way, or will be sent again, unless the ACK of an earlier
\* re-INVITE stopped that.
AnswerStillComing ==
  Patient /\ AcksInTurn => \A e \in End :
    LET there == session[other(e)]
    IN /\ session[e].state \in {"SentReinvite", "SentReinviteNoOffer"}
       /\ ~isTerminated(there)
       /\ there.ok \in {Response(session[e].sent, 200, sdp) : sdp \in Sdps}
       => there.ok \in net[e] \/ there.re200

\* The timers of the two waits are among the timeouts
TimersRun == {"ack", "stale"} \subseteq Expire

\* The end that waits for an answer or an ACK before it hangs up does hang up,
\* for its timers end the wait; and when one end has terminated, so does the
\* other: by the BYE, or by the timer of an end that waits for an ACK and takes no
\* notice of the BYE.
BothEnd ==
  \A e \in End :
    /\ session[e].state \in {"WaitingToTerminate", "WaitingToHangup"} /\ TimersRun
         ~> session[e].state = "Terminated"
    /\ session[e].state = "Terminated" /\ TimersRun
         ~> session[other(e)].state = "Terminated"

=============================================================================
