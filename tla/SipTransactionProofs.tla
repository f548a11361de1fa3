------------------------- MODULE SipTransactionProofs -------------------------
(***************************************************************************)
(* The two transactions and the network between them implement             *)
(* RequestReply, however many DNS targets the client tries, however often  *)
(* the identifier is given a new transaction, whether or not the server is *)
(* overloaded, and whatever the network repeats or loses.                  *)
(***************************************************************************)
EXTENDS SipTransaction, TLAPS

Requests == {"INVITE", "CANCEL", "ACK", "OTHER"}

\* The server's variables keep their types, and the client sends no responses.
Typed ==
  /\ stx \in [S!Tids -> S!Transaction]
  /\ stimers \in [S!Tids -> [S!TimerKinds -> Nat]]
  /\ given \in [S!Tids -> Nat]
  /\ wire \in [S!Tids -> {"none", "1xx"} \cup S!Finals]
  /\ replies \subseteq {"2xx", "failure"}
  /\ out \subseteq Requests

\* Before the near user asks there is no transaction, nothing was sent and
\* nothing was told.
Fresh ==
  way = "none" =>
    /\ \A t \in C!Tids : ctx[t].machine = "None"
    /\ out = {}
    /\ net \cap {"INVITE", "OTHER"} = {}
    /\ heard["request"] = C!NothingHeard

\* The state of the server's transaction tells what its user said to this
\* delivery, and what is kept for retransmissions is that.  Until some delivery
\* was answered nothing that could end one is there: timers H and I, which test
\* no state, are armed by a failure and by its ACK.
Answered ==
  LET r == stx["request"] IN
  /\ r.machine \in {"ServerInvite", "ServerNonInvite"} /\ r.mState \in {"Trying", "Proceeding"}
       => r.mMsgToRetransmit = "1xx"
  /\ r.machine = "ServerNonInvite" /\ r.mIsReliable => r.mState \in {"Trying", "Proceeding"}
  /\ r.mState = "Completed" =>
       r.mMsgToRetransmit \in {"failure", "500"} /\ "failure" \in replies
  /\ r.machine = "ServerStale" => "2xx" \in replies
  /\ replies = {} =>
       /\ stimers["request"]["H"] = 0 /\ stimers["request"]["I"] = 0
       /\ r.mState \notin {"Completed", "Confirmed"}

\* A response of the far user that is on its way is one that user gave.
Said(response) ==
  /\ response = "2xx" => "2xx" \in replies
  /\ response \in {"failure", "500"} => "failure" \in replies

Carried == \A response \in net \cup {wire["request"]} : Said(response)

PairInv == Typed /\ Fresh /\ Answered /\ Carried

-----------------------------------------------------------------------------
(* The client *)

\* What a step of the client changes that the far side or its user sees: it
\* asks, or it goes on with a request that was asked before.
ClientEffect ==
  /\ out' \subseteq Requests
  /\ \/ way = "none" /\ way' # "none" /\ heard' = heard
     \/ way # "none" /\ way' = way
     \/ UNCHANGED <<ctx, way, out, heard>>

\* A transaction has the request it was made for.
LEMMA Asked == ASSUME Fresh, NEW t \in C!Tids, ctx[t].machine # "None" PROVE way # "none"
  BY DEF Fresh

\* The user asks, or cancels.
LEMMA ClientUser == ASSUME PairInv, C!User PROVE ClientEffect
  <1> USE DEF PairInv, Typed, Requests, ClientEffect
  <1>1. ASSUME NEW method \in {"INVITE", "OTHER"}, C!RequestByDns(method)
        PROVE  ClientEffect
    BY <1>1, SipAssumption DEF C!RequestByDns
  <1>2. ASSUME NEW method \in {"INVITE", "OTHER"}, NEW reliable \in BOOLEAN,
               C!RequestOnFlow(method, reliable)
        PROVE  ClientEffect
    BY <1>2 DEF C!RequestOnFlow
  <1>3. CASE C!CancelClientInviteTransaction
    BY <1>3 DEF C!CancelClientInviteTransaction, C!mayCancel, C!handleInternalCancel
  <1>4. CASE C!CancelRequest
    BY <1>4 DEF C!CancelRequest, C!mayCancel, C!handleInternalCancel
  <1> QED BY <1>1, <1>2, <1>3, <1>4 DEF C!User

\* A timer that has an effect belongs to a transaction.
LEMMA ClientTimer ==
  ASSUME PairInv, NEW t \in C!Tids, NEW k \in C!TimerKinds, C!Timer(t, k)
  PROVE  ClientEffect
  <1> USE DEF PairInv, Typed, Requests, ClientEffect
  <1>1. C!machineOf(k) # "None"
    BY DEF C!machineOf, C!TimerKinds
  <1>2. C!reacts(t, k) => way # "none"
    BY <1>1, Asked DEF C!reacts
  <1>3. CASE C!Retransmit(t, k)
    BY <1>2, <1>3 DEF C!Retransmit, C!mMsgToRetransmit
  <1>4. CASE C!Expire(t, k)
    BY <1>2, <1>4 DEF C!Expire
  <1>5. CASE C!Retire(t, k)
    BY <1>2, <1>5 DEF C!Retire
  <1>6. CASE C!Ignore(t, k)
    BY <1>6 DEF C!Ignore
  <1> QED BY <1>3, <1>4, <1>5, <1>6 DEF C!Timer

\* Only a transaction waits for DNS.
LEMMA ClientDns == ASSUME PairInv, C!DnsAnswer PROVE ClientEffect
  <1>1. way # "none"
    BY Asked DEF C!DnsAnswer, C!Tids, PairInv
  <1>2. way' = way
    BY DEF C!DnsAnswer
  <1>3. out' \subseteq Requests
    BY DEF PairInv, Typed, Requests, C!DnsAnswer, C!SendToNext, C!processNoDnsResults,
           C!mMsgToRetransmit
  <1> QED BY <1>1, <1>2, <1>3 DEF ClientEffect

\* A transport only has what was sent.
LEMMA ClientTransport == ASSUME PairInv, C!Transport PROVE ClientEffect
  <1> USE DEF PairInv, Typed, Requests
  <1>1. way # "none" /\ way' = way
    BY DEF C!Transport, C!Delivered, C!TransportFailure, Fresh
  <1>2. ASSUME NEW m, C!Delivered(m) PROVE out' \subseteq Requests
    BY <1>2 DEF C!Delivered
  <1>3. ASSUME NEW m, C!TransportFailure(m) PROVE out' \subseteq Requests
    BY <1>3 DEF C!TransportFailure, C!SendToNext, C!mMsgToRetransmit
  <1>4. out' \subseteq Requests
    BY <1>2, <1>3 DEF C!Transport
  <1> QED BY <1>1, <1>4 DEF ClientEffect

\* A response goes to a transaction.
LEMMA ClientResponse ==
  ASSUME PairInv,
         \/ C!ProvisionalToInvite \/ C!ProvisionalToNonInvite("request")
         \/ C!SuccessToInvite
         \/ C!FailureToInvite \/ C!FinalToNonInvite("request")
  PROVE  ClientEffect /\ way # "none" /\ way' = way
  <1> USE DEF PairInv, Typed, Requests
  <1>1. ctx["request"].machine # "None"
    BY DEF C!ProvisionalToInvite, C!ProvisionalToNonInvite, C!SuccessToInvite,
           C!FailureToInvite, C!FinalToNonInvite
  <1>2. way # "none"
    BY <1>1, Asked DEF C!Tids
  <1>3. way' = way
    BY DEF C!ProvisionalToInvite, C!ProvisionalToNonInvite, C!SuccessToInvite,
           C!FailureToInvite, C!FinalToNonInvite
  <1>4. out' \subseteq Requests
    BY DEF C!ProvisionalToInvite, C!ProvisionalToNonInvite, C!SuccessToInvite,
           C!FailureToInvite, C!FinalToNonInvite, C!handleInternalCancel
  <1> QED BY <1>2, <1>3, <1>4 DEF ClientEffect

\* Whatever the client does, the invariant stays and the near user asks, learns
\* one outcome or sees nothing.
LEMMA ClientKeeps ==
  ASSUME PairInv, ClientEffect, ClientSends, UNCHANGED <<server, replies>>
  PROVE  PairInv'
  <1> USE DEF PairInv, server
  <1>1. Typed'
    BY DEF Typed, ClientEffect
  <1>2. Fresh'
    <2>1. CASE way = "none" /\ way' # "none"
      BY <2>1 DEF Fresh
    <2>2. CASE way # "none" /\ way' = way
      BY <2>2 DEF Fresh
    <2>3. CASE UNCHANGED <<ctx, way, out, heard>>
      BY <2>3 DEF Fresh, ClientSends
    <2> QED BY <2>1, <2>2, <2>3 DEF ClientEffect
  <1>3. Answered'
    BY DEF Answered
  <1>4. Carried'
    BY DEF Carried, Said, ClientSends, ClientEffect, Requests
  <1> QED BY <1>1, <1>2, <1>3, <1>4

-----------------------------------------------------------------------------
(* The server *)

\* What a step of the server shows to the far user and to the network: a step of
\* the promise or nothing new, and a response only if it was said.
ServerEffect ==
  /\ Typed' /\ Answered' /\ replies \subseteq replies' /\ Said(wire["request"])'
  /\ R!Next \/ UNCHANGED R!vars

\* Arming a timer adds one to its count and leaves the others alone; consuming
\* one takes nothing from the others.
LEMMA TimerCounts ==
  ASSUME NEW tm \in [S!Tids -> [S!TimerKinds -> Nat]], NEW k \in S!TimerKinds
  PROVE  /\ S!Arm(tm, "request", k) \in [S!Tids -> [S!TimerKinds -> Nat]]
         /\ tm["request"][k] > 0 =>
              S!Consume(tm, "request", k) \in [S!Tids -> [S!TimerKinds -> Nat]]
         /\ \A j \in S!TimerKinds \ {k} :
              /\ S!Arm(tm, "request", k)["request"][j] = tm["request"][j]
              /\ S!Consume(tm, "request", k)["request"][j] = tm["request"][j]
  BY DEF S!Arm, S!Consume, S!Tids

\* A response that joins the wire.
LEMMA WireEffect ==
  ASSUME Typed, NEW response \in {"none", "1xx"} \cup S!Finals,
         wire' = [wire EXCEPT !["request"] = response]
  PROVE  wire' \in [S!Tids -> {"none", "1xx"} \cup S!Finals] /\ wire'["request"] = response
  BY DEF Typed, S!Tids

\* A request makes a transaction when its identifier has none.
LEMMA ServerGiven ==
  ASSUME PairInv, UNCHANGED <<client, replies, outcome>>,
         NEW method \in {"INVITE", "OTHER"} \cap net,
         NEW reliable \in BOOLEAN, S!NewRequest(method, reliable)
  PROVE  ServerEffect
  <1> USE DEF PairInv, client
  <1> DEFINE machine == IF method = "INVITE" THEN "ServerInvite" ELSE "ServerNonInvite"
             r == S!New(machine, reliable)
  <1>1. /\ stx' = [stx EXCEPT !["request"] = r] /\ stx["request"].machine = "None"
        /\ stimers' = S!Arm(stimers, "request", "Trying")
        /\ given' = [given EXCEPT !["request"] = @ + 1]
        /\ wire' = [wire EXCEPT !["request"] = "none"]
    BY DEF S!NewRequest, S!Create, S!isNew
  <1>2. /\ r \in S!Transaction /\ r.mState = "Trying" /\ r.mMsgToRetransmit = "1xx"
        /\ r.machine \in {"ServerInvite", "ServerNonInvite"}
    BY DEF S!New, S!Transaction, S!Machines, S!States, S!Finals
  <1> HIDE DEF r
  <1>3. way # "none"
    BY DEF Fresh
  <1>4. /\ stx' \in [S!Tids -> S!Transaction] /\ stx'["request"] = r
        /\ given' \in [S!Tids -> Nat] /\ given'["request"] = given["request"] + 1
    BY <1>1, <1>2 DEF Typed, S!Tids
  <1>5. /\ stimers' \in [S!Tids -> [S!TimerKinds -> Nat]]
        /\ \A j \in {"H", "I"} : stimers'["request"][j] = stimers["request"][j]
    BY <1>1, TimerCounts DEF Typed, S!TimerKinds
  <1>6. wire' \in [S!Tids -> {"none", "1xx"} \cup S!Finals] /\ wire'["request"] = "none"
    BY <1>1, WireEffect
  <1>7. Typed'
    BY <1>4, <1>5, <1>6 DEF Typed
  <1>8. Answered'
    BY <1>2, <1>4, <1>5 DEF Answered
  <1>9. farRequest = "away" /\ farRequest' = "pending"
    BY <1>1, <1>2, <1>4 DEF farRequest
  <1>10. R!Give
    BY <1>3, <1>4, <1>9 DEF R!Give
  <1> QED BY <1>6, <1>7, <1>8, <1>10 DEF ServerEffect, Said, R!Next

\* A step that leaves the transaction and what was said alone.
LEMMA SeesNothing ==
  ASSUME UNCHANGED <<client, stx, given, replies, outcome>>
  PROVE  UNCHANGED R!vars
  BY DEF R!vars, farRequest, client

\* A response that is sent without a change of the transaction is the one that
\* is kept, a provisional one or the 503 of an overloaded stack.
LEMMA ServerRepeats ==
  ASSUME PairInv, UNCHANGED <<client, replies, outcome>>,
         \/ S!Retransmission("request") \/ S!TUOverloaded("request") \/ S!ResendFailure
  PROVE  ServerEffect
  <1> USE DEF PairInv, client
  <1>1. /\ UNCHANGED <<stx, stimers, given>>
        /\ \/ wire' = [wire EXCEPT !["request"] = "503"]
           \/ /\ wire' = [wire EXCEPT !["request"] = stx["request"].mMsgToRetransmit]
              /\ stx["request"].machine \in {"ServerInvite", "ServerNonInvite"}
              /\ stx["request"].mState \in {"Proceeding", "Completed"}
    BY DEF S!Retransmission, S!TUOverloaded, S!ResendFailure, S!sendToWire
  <1>2. stx["request"].mMsgToRetransmit \in {"none", "1xx"} \cup S!Finals
    BY DEF Typed, S!Tids, S!Transaction
  <1>3. Typed'
    BY <1>1, <1>2 DEF Typed, S!Tids, S!Finals
  <1>4. Answered'
    BY <1>1 DEF Answered
  <1>5. Said(wire["request"])'
    BY <1>1 DEF Said, Answered, Typed, S!Tids
  <1> QED BY <1>1, <1>3, <1>4, <1>5, SeesNothing DEF ServerEffect

\* The end of a delivery sends nothing, and comes after an answer to it or to an
\* earlier one.
LEMMA ServerEnds ==
  ASSUME PairInv, UNCHANGED <<client, replies, outcome>>,
         stx["request"].machine # "None", replies # {},
         S!terminateServerTransaction("request"),
         stimers' \in [S!Tids -> [S!TimerKinds -> Nat]], UNCHANGED <<given, wire>>
  PROVE  ServerEffect
  <1> USE DEF PairInv, client
  <1>1. stx' = [stx EXCEPT !["request"] = S!NoTx]
    BY DEF S!terminateServerTransaction
  <1>2. S!NoTx \in S!Transaction
    BY DEF S!NoTx, S!Transaction, S!Machines, S!States
  <1>3. stx' \in [S!Tids -> S!Transaction] /\ stx'["request"] = S!NoTx
    BY <1>1, <1>2 DEF Typed, S!Tids
  <1>4. Typed'
    BY <1>3 DEF Typed
  <1>5. Answered'
    BY <1>3 DEF Answered, S!NoTx
  <1>6. Said(wire["request"])'
    BY DEF Carried, Said
  <1>7. farRequest # "away" /\ farRequest' = "away"
    BY <1>3 DEF farRequest, S!NoTx
  <1>8. R!End
    BY <1>7 DEF R!End
  <1> QED BY <1>4, <1>5, <1>6, <1>8 DEF ServerEffect, R!Next

\* The ACK of a failure.
LEMMA ServerAcked ==
  ASSUME PairInv, UNCHANGED <<client, replies, outcome>>, S!Ack
  PROVE  ServerEffect
  <1>1. /\ stx["request"].machine = "ServerInvite" /\ stx["request"].mState = "Completed"
        /\ UNCHANGED <<given, wire>>
    BY DEF S!Ack, S!ackIsOurs
  <1>2. "failure" \in replies
    BY <1>1 DEF PairInv, Answered
  <1>3. CASE S!terminateServerTransaction("request") /\ UNCHANGED stimers
    BY <1>1, <1>2, <1>3, ServerEnds DEF PairInv, Typed
  <1>4. CASE /\ stx' = [stx EXCEPT !["request"].mState = "Confirmed"]
             /\ stimers' = S!Arm(stimers, "request", "I")
    <2> DEFINE r == [stx["request"] EXCEPT !.mState = "Confirmed"]
    <2>1. r \in S!Transaction /\ r.mState = "Confirmed" /\ r.machine = "ServerInvite"
      BY <1>1 DEF PairInv, Typed, S!Tids, S!Transaction, S!States
    <2>2. stx' = [stx EXCEPT !["request"] = r]
      BY <1>4 DEF PairInv, Typed, S!Tids, S!Transaction
    <2> HIDE DEF r
    <2>3. stx' \in [S!Tids -> S!Transaction] /\ stx'["request"] = r
      BY <2>1, <2>2 DEF PairInv, Typed, S!Tids
    <2>4. stimers' \in [S!Tids -> [S!TimerKinds -> Nat]]
      BY <1>4, TimerCounts DEF PairInv, Typed, S!TimerKinds
    <2>5. Typed'
      BY <1>1, <2>3, <2>4 DEF PairInv, Typed, client
    <2>6. Answered'
      BY <1>2, <2>1, <2>3 DEF Answered
    <2>7. Said(wire["request"])'
      BY <1>1 DEF PairInv, Carried, Said
    <2>8. farRequest = "failed" /\ farRequest' = "failed"
      BY <1>1, <2>1, <2>3 DEF farRequest
    <2> QED BY <1>1, <2>5, <2>6, <2>7, <2>8 DEF ServerEffect, R!vars, client
  <1> QED BY <1>3, <1>4 DEF S!Ack

\* The timers that end a transaction or are ignored.
LEMMA ServerTimers ==
  ASSUME PairInv, UNCHANGED <<client, replies, outcome>>,
         NEW k \in S!TimerKinds, S!Timer("request", k)
  PROVE  ServerEffect
  <1>1. /\ stimers["request"][k] > 0 /\ UNCHANGED <<given, wire>>
        /\ stimers' = S!Consume(stimers, "request", k)
    BY DEF S!Timer, S!End, S!Ignore
  <1>2. /\ stimers' \in [S!Tids -> [S!TimerKinds -> Nat]]
        /\ \A j \in S!TimerKinds \ {k} : stimers'["request"][j] = stimers["request"][j]
    BY <1>1, TimerCounts DEF PairInv, Typed
  <1>3. CASE S!End("request", k)
    <2>1. stx["request"].machine # "None"
      BY <1>3 DEF S!End, S!ends
    <2>2. replies # {}
      BY <1>1, <1>3 DEF PairInv, Answered, S!End, S!ends
    <2> QED BY <1>1, <1>2, <1>3, <2>1, <2>2, ServerEnds DEF S!End
  <1>4. CASE UNCHANGED stx
    <2>1. Typed'
      BY <1>1, <1>2, <1>4 DEF PairInv, Typed, client
    <2>2. replies = {} => k \notin {"H", "I"}
      BY <1>1 DEF PairInv, Answered
    <2>3. Answered'
      BY <1>2, <1>4, <2>2 DEF PairInv, Answered, S!TimerKinds
    <2> QED BY <1>1, <1>4, <2>1, <2>3, SeesNothing DEF PairInv, Carried, Said, ServerEffect
  <1> QED BY <1>3, <1>4 DEF S!Timer, S!Ignore

\* A provisional response, of the far user or of the stack in its place.
LEMMA ServerProceeds ==
  ASSUME PairInv, UNCHANGED <<client, replies, outcome>>,
         S!Provisional("request") \/ S!Send100("request")
  PROVE  ServerEffect
  <1> USE DEF PairInv, client
  <1> DEFINE r == [stx["request"] EXCEPT !.mState = "Proceeding", !.mMsgToRetransmit = "1xx"]
  <1>1. /\ UNCHANGED given /\ wire' = [wire EXCEPT !["request"] = "1xx"]
        /\ stx["request"].machine \in {"ServerInvite", "ServerNonInvite"}
        /\ stx["request"].mState \in {"Trying", "Proceeding"}
        /\ \/ stx' = [stx EXCEPT !["request"].mState = "Proceeding",
                                 !["request"].mMsgToRetransmit = "1xx"]
           \/ stx' = [stx EXCEPT !["request"].mState = "Proceeding"]
    BY DEF S!Provisional, S!acceptsProvisional, S!unanswered, S!Send100, S!sendToWire
  <1>2. /\ r \in S!Transaction /\ r.mState = "Proceeding" /\ r.mMsgToRetransmit = "1xx"
        /\ r.machine = stx["request"].machine /\ r.mIsReliable = stx["request"].mIsReliable
    BY DEF Typed, S!Tids, S!Transaction, S!States
  <1>3. stx["request"].mMsgToRetransmit = "1xx"
    BY <1>1 DEF Answered
  <1>4. stx' = [stx EXCEPT !["request"] = r]
    BY ZenonT(60), <1>1, <1>3 DEF Typed, S!Tids, S!Transaction
  <1> HIDE DEF r
  <1>5. stx' \in [S!Tids -> S!Transaction] /\ stx'["request"] = r
    BY <1>2, <1>4 DEF Typed, S!Tids
  <1>6. /\ stimers' \in [S!Tids -> [S!TimerKinds -> Nat]]
        /\ \A j \in {"H", "I"} : stimers'["request"][j] = stimers["request"][j]
    <2>1. CASE S!Provisional("request")
      BY <2>1 DEF S!Provisional, Typed
    <2>2. CASE S!Send100("request")
      <3>1. stimers' = S!Consume(stimers, "request", "Trying") /\ stimers["request"]["Trying"] > 0
        BY <2>2 DEF S!Send100
      <3> QED BY <3>1, TimerCounts DEF Typed, S!TimerKinds
    <2> QED BY <2>1, <2>2
  <1>7. wire' \in [S!Tids -> {"none", "1xx"} \cup S!Finals] /\ wire'["request"] = "1xx"
    BY <1>1, WireEffect
  <1>8. Typed'
    BY <1>1, <1>5, <1>6, <1>7 DEF Typed
  <1>9. Answered'
    BY <1>2, <1>5, <1>6 DEF Answered
  <1>10. farRequest = "pending" /\ farRequest' = "pending"
    BY <1>1, <1>2, <1>5 DEF farRequest
  <1> QED BY <1>1, <1>7, <1>8, <1>9, <1>10 DEF ServerEffect, Said, R!vars

\* A success turns the transaction into a stale one.
LEMMA ServerSucceeds ==
  ASSUME PairInv, UNCHANGED <<client, outcome>>, S!Success, Replies("2xx")
  PROVE  ServerEffect
  <1> USE DEF PairInv, client
  <1> DEFINE r == S!stale(stx["request"])
  <1>1. /\ UNCHANGED given /\ wire' = [wire EXCEPT !["request"] = "2xx"]
        /\ stimers' = S!Arm(stimers, "request", "StaleServer")
        /\ stx["request"].machine = "ServerInvite"
        /\ stx["request"].mState \in {"Trying", "Proceeding"}
        /\ stx' = [stx EXCEPT !["request"] = r]
        /\ replies' = replies \cup {"2xx"}
    BY DEF S!Success, S!acceptsFinal, S!unanswered, S!sendToWire, Replies
  <1>2. /\ r \in S!Transaction /\ r.machine = "ServerStale"
        /\ r.mState = stx["request"].mState
    BY DEF Typed, S!Tids, S!Transaction, S!Machines, S!stale
  <1> HIDE DEF r
  <1>3. stx' \in [S!Tids -> S!Transaction] /\ stx'["request"] = r
    BY <1>1, <1>2 DEF Typed, S!Tids
  <1>4. stimers' \in [S!Tids -> [S!TimerKinds -> Nat]]
    BY <1>1, TimerCounts DEF Typed, S!TimerKinds
  <1>5. wire' \in [S!Tids -> {"none", "1xx"} \cup S!Finals] /\ wire'["request"] = "2xx"
    BY <1>1, WireEffect DEF S!Finals
  <1>6. Typed'
    BY <1>1, <1>3, <1>4, <1>5 DEF Typed
  <1>7. Answered'
    BY <1>1, <1>2, <1>3 DEF Answered
  <1>8. farRequest = "pending" /\ farRequest' = "accepted"
    BY <1>1, <1>2, <1>3 DEF farRequest
  <1>9. R!Accept
    BY <1>1, <1>8 DEF R!Accept
  <1> QED BY <1>1, <1>5, <1>6, <1>7, <1>9 DEF ServerEffect, Said, R!Next

\* What the far user says after its success is sent and not kept.
LEMMA ServerRetracts ==
  ASSUME PairInv, UNCHANGED <<client, outcome>>,
         NEW response \in S!Responses, S!StaleResponse(response), Replies(response)
  PROVE  ServerEffect
  <1> USE DEF PairInv, client
  <1>1. /\ UNCHANGED <<stx, stimers, given>> /\ wire' = [wire EXCEPT !["request"] = response]
        /\ stx["request"].machine = "ServerStale"
        /\ replies' = replies \cup ({response} \ {"1xx"})
        /\ response \in {"1xx", "2xx", "failure"}
    BY DEF S!StaleResponse, S!sendToWire, Replies, S!Responses
  <1>2. wire' \in [S!Tids -> {"none", "1xx"} \cup S!Finals] /\ wire'["request"] = response
    BY <1>1, WireEffect DEF S!Finals
  <1>3. Typed'
    BY <1>1, <1>2 DEF Typed
  <1>4. Answered' /\ "2xx" \in replies
    BY <1>1 DEF Answered
  <1>5. farRequest = "accepted" /\ farRequest' = "accepted"
    BY <1>1 DEF farRequest
  <1>6. CASE response = "failure"
    <2>1. R!Retract
      BY <1>1, <1>5, <1>6 DEF R!Retract
    <2> QED BY <1>1, <1>2, <1>3, <1>4, <1>6, <2>1 DEF ServerEffect, Said, R!Next
  <1>7. CASE response # "failure"
    <2>1. replies' = replies
      BY <1>1, <1>4, <1>7
    <2> QED BY <1>1, <1>2, <1>3, <1>4, <1>5, <1>7, <2>1 DEF ServerEffect, Said, R!vars
  <1> QED BY <1>6, <1>7

\* A failure that is kept, for its ACK or for retransmissions of the request, or
\* that ends the delivery.
LEMMA ServerKeepsFailure ==
  ASSUME PairInv, UNCHANGED <<client, outcome>>, Replies("failure"), NEW r \in S!Transaction,
         NEW response \in {"failure", "500"},
         stx["request"].machine \in {"ServerInvite", "ServerNonInvite"},
         S!unanswered("request"), stx' = [stx EXCEPT !["request"] = r],
         \/ r = S!NoTx
         \/ /\ r.machine = stx["request"].machine /\ r.mState = "Completed"
            /\ r.mMsgToRetransmit = response
            /\ ~ (r.machine = "ServerNonInvite" /\ r.mIsReliable),
         stimers' \in [S!Tids -> [S!TimerKinds -> Nat]],
         S!sendToWire("request", response), UNCHANGED given
  PROVE  ServerEffect
  <1> USE DEF PairInv, client
  <1>1. replies' = replies \cup {"failure"}
    BY DEF Replies
  <1>2. stx' \in [S!Tids -> S!Transaction] /\ stx'["request"] = r
    BY DEF Typed, S!Tids
  <1>3. wire' \in [S!Tids -> {"none", "1xx"} \cup S!Finals] /\ wire'["request"] = response
    BY WireEffect DEF S!sendToWire, S!Finals
  <1>4. Typed'
    BY <1>1, <1>2, <1>3 DEF Typed
  <1>5. Answered'
    BY <1>1, <1>2 DEF Answered, S!NoTx
  <1>6. farRequest = "pending" /\ farRequest' \in {"failed", "away"}
    BY <1>2 DEF farRequest, S!NoTx, S!unanswered
  <1>7. R!Refuse
    BY <1>1, <1>6 DEF R!Refuse
  <1> QED BY <1>1, <1>3, <1>4, <1>5, <1>7 DEF ServerEffect, Said, R!Next

\* A failure of an INVITE awaits its ACK.
LEMMA ServerAwaits ==
  ASSUME PairInv, UNCHANGED <<client, outcome>>, Replies("failure"),
         NEW response \in {"failure", "500"},
         stx["request"].machine = "ServerInvite", S!unanswered("request"),
         S!awaitAck("request", response), S!sendToWire("request", response), UNCHANGED given
  PROVE  ServerEffect
  <1> DEFINE r == [stx["request"] EXCEPT !.mState = "Completed", !.mAckIsValid = TRUE,
                                         !.mMsgToRetransmit = response]
             tm == S!Arm(stimers, "request", "H")
  <1>1. /\ r \in S!Transaction /\ r.machine = "ServerInvite" /\ r.mState = "Completed"
        /\ r.mMsgToRetransmit = response
    BY DEF PairInv, Typed, S!Tids, S!Transaction, S!States, S!Finals
  <1>2. stx' = [stx EXCEPT !["request"] = r]
    BY DEF S!awaitAck, PairInv, Typed, S!Tids, S!Transaction
  <1>3. tm \in [S!Tids -> [S!TimerKinds -> Nat]]
    BY TimerCounts DEF PairInv, Typed, S!TimerKinds
  <1>4. stimers' = IF stx["request"].mIsReliable THEN tm ELSE S!Arm(tm, "request", "G")
    BY DEF S!awaitAck
  <1> HIDE DEF r, tm
  <1>5. stimers' \in [S!Tids -> [S!TimerKinds -> Nat]]
    BY <1>3, <1>4, TimerCounts DEF S!TimerKinds
  <1> QED BY <1>1, <1>2, <1>5, ServerKeepsFailure

\* A failure of another request is absorbed.
LEMMA ServerAbsorbs ==
  ASSUME PairInv, UNCHANGED <<client, outcome>>, Replies("failure"),
         NEW response \in {"failure", "500"},
         stx["request"].machine = "ServerNonInvite",
         S!absorb("request", response), UNCHANGED given
  PROVE  ServerEffect
  <1>1. S!sendToWire("request", response)
    BY DEF S!absorb
  <1>2. CASE /\ stx["request"].mIsReliable /\ S!terminateServerTransaction("request")
             /\ UNCHANGED stimers
    <2>1. S!unanswered("request")
      BY <1>2 DEF PairInv, Answered, S!unanswered
    <2>2. S!NoTx \in S!Transaction
      BY DEF S!NoTx, S!Transaction, S!Machines, S!States
    <2>3. /\ stx' = [stx EXCEPT !["request"] = S!NoTx]
          /\ stimers' \in [S!Tids -> [S!TimerKinds -> Nat]]
      BY <1>2 DEF S!terminateServerTransaction, PairInv, Typed
    <2> QED BY <1>1, <2>1, <2>2, <2>3, ServerKeepsFailure
  <1>3. CASE /\ ~stx["request"].mIsReliable /\ S!acceptsFinal("request")
             /\ stx' = [stx EXCEPT !["request"].mState = "Completed",
                                   !["request"].mMsgToRetransmit = response]
             /\ stimers' = S!Arm(stimers, "request", "J")
    <2> DEFINE r == [stx["request"] EXCEPT !.mState = "Completed",
                                           !.mMsgToRetransmit = response]
    <2>1. /\ r \in S!Transaction /\ r.machine = "ServerNonInvite" /\ r.mState = "Completed"
          /\ r.mMsgToRetransmit = response /\ ~r.mIsReliable
      BY <1>3 DEF PairInv, Typed, S!Tids, S!Transaction, S!States, S!Finals
    <2>2. stx' = [stx EXCEPT !["request"] = r]
      BY <1>3 DEF PairInv, Typed, S!Tids, S!Transaction
    <2>3. S!unanswered("request")
      BY <1>3 DEF S!acceptsFinal
    <2>4. stimers' \in [S!Tids -> [S!TimerKinds -> Nat]]
      BY <1>3, TimerCounts DEF PairInv, Typed, S!TimerKinds
    <2> HIDE DEF r
    <2> QED BY <1>1, <2>1, <2>2, <2>3, <2>4, ServerKeepsFailure
  <1> QED BY <1>2, <1>3 DEF S!absorb

\* What the far user says, or the proxy that gives the request up.
LEMMA ServerAnswers ==
  ASSUME PairInv, UNCHANGED <<client, outcome>>, Replies("failure"),
         \/ S!Final("request") \/ S!Failure \/ S!AbandonServerTransaction
  PROVE  ServerEffect
  <1>1. CASE S!Final("request")
    BY <1>1, ServerAbsorbs DEF S!Final
  <1>2. CASE S!Failure
    BY <1>2, ServerAwaits DEF S!Failure, S!acceptsFinal
  <1>3. CASE S!AbandonServerTransaction
    BY <1>3, ServerAbsorbs, ServerAwaits DEF S!AbandonServerTransaction
  <1> QED BY <1>1, <1>2, <1>3

\* Whatever the server does, the invariant stays.
LEMMA ServerKeeps ==
  ASSUME PairInv, ServerEffect, ServerSends, UNCHANGED <<client, outcome>>
  PROVE  PairInv'
  <1> USE DEF PairInv
  <1>1. Fresh'
    BY DEF Fresh, ServerSends, ServerEffect, Typed, client, S!Tids, S!Finals
  <1>2. Carried'
    <2> SUFFICES ASSUME NEW response \in net' \cup {wire'["request"]} PROVE Said(response)'
      BY DEF Carried
    <2>1. CASE response = wire'["request"]
      BY <2>1 DEF ServerEffect, Said
    <2>2. CASE response \in net
      BY <2>2 DEF ServerEffect, Carried, Said
    <2> QED BY <2>1, <2>2 DEF ServerSends
  <1> QED BY <1>1, <1>2 DEF ServerEffect

-----------------------------------------------------------------------------
(* The refinement *)

\* The near user is told an answer, or something that a stack made up.
LEMMA ClientLearns ==
  ASSUME PairInv, way # "none", UNCHANGED <<server, replies, way>>,
         NEW what \in replies \cup {"local"}, Told(what)
  PROVE  R!Next \/ UNCHANGED R!vars
  <1>1. given' = given /\ farRequest' = farRequest /\ way' = way /\ replies' = replies
    BY DEF server, farRequest
  <1>2. CASE outcome' = outcome
    BY <1>1, <1>2 DEF R!vars
  <1>3. CASE outcome = "none" /\ outcome' = what
    BY <1>1, <1>3 DEF R!Next, R!Learn
  <1> QED BY <1>2, <1>3 DEF Told

\* A response that is received is one that the far user gave.
LEMMA ReceivedWasSaid ==
  ASSUME PairInv
  PROVE  /\ "2xx" \in net => "2xx" \in replies
         /\ {"failure", "500"} \cap net # {} => "failure" \in replies
  BY DEF PairInv, Carried, Said

\* Every step of the pair keeps the invariant and is a step of the promise.
LEMMA StepRefines ==
  ASSUME PairInv, Next
  PROVE  PairInv' /\ (R!Next \/ UNCHANGED R!vars)
  <1>1. CASE ClientStep
    <2>1. ClientEffect /\ ClientSends /\ Told("local") /\ UNCHANGED <<server, replies>>
      BY <1>1, ClientUser, ClientTimer, ClientDns, ClientTransport DEF ClientStep
    <2>2. CASE way = "none" /\ way' # "none" /\ heard' = heard
      <3>1. outcome' = outcome
        BY <2>1, <2>2 DEF Told, PairInv, Fresh, C!NothingHeard
      <3>2. R!Ask
        BY <2>1, <2>2, <3>1 DEF R!Ask, server, farRequest
      <3> QED BY <2>1, <3>2, ClientKeeps DEF R!Next
    <2>3. CASE way # "none" /\ way' = way
      BY <2>1, <2>3, ClientKeeps, ClientLearns
    <2>4. CASE UNCHANGED <<ctx, way, out, heard>>
      <3>1. CASE way # "none"
        BY <2>1, <2>4, <3>1, ClientKeeps, ClientLearns
      <3>2. CASE way = "none"
        <4>1. outcome' = outcome
          BY <2>1, <2>4, <3>2 DEF Told, PairInv, Fresh, C!NothingHeard
        <4> QED BY <2>1, <2>4, <4>1, ClientKeeps DEF R!vars, server, farRequest
      <3> QED BY <3>1, <3>2
    <2> QED BY <2>1, <2>2, <2>3, <2>4 DEF ClientEffect
  <1>2. CASE ClientReceives
    <2>1. /\ ClientEffect /\ way # "none" /\ way' = way /\ ClientSends
          /\ UNCHANGED <<server, replies>>
      BY <1>2, ClientResponse DEF ClientReceives
    <2>2. PairInv'
      BY <2>1, ClientKeeps
    <2>3. CASE outcome' = outcome
      <3>1. given' = given /\ farRequest' = farRequest
        BY <2>1 DEF server, farRequest
      <3> QED BY <2>1, <2>2, <2>3, <3>1 DEF R!vars
    <2>4. CASE "2xx" \in net /\ Told("2xx")
      <3>1. "2xx" \in replies
        BY <2>4, ReceivedWasSaid
      <3> QED BY <2>1, <2>2, <2>4, <3>1, ClientLearns
    <2>5. ASSUME NEW r \in Failures \cap net, Told(IF r = "503" THEN "local" ELSE "failure")
          PROVE  R!Next \/ UNCHANGED R!vars
      <3>1. CASE r = "503"
        BY <2>1, <2>5, <3>1, ClientLearns
      <3>2. CASE r # "503"
        <4>1. "failure" \in replies
          BY <2>5, <3>2, ReceivedWasSaid DEF Failures
        <4> QED BY <2>1, <2>5, <3>2, <4>1, ClientLearns
      <3> QED BY <3>1, <3>2
    <2> QED BY <1>2, <2>2, <2>3, <2>4, <2>5 DEF ClientReceives
  <1>3. CASE ServerReceives \/ ServerUser \/ ServerTimer
    <2>1. ServerSends /\ UNCHANGED <<client, outcome>>
      BY <1>3 DEF ServerReceives, ServerUser, ServerTimer
    <2>2. ServerEffect
      <3>1. CASE ServerReceives
        <4>1. UNCHANGED <<client, replies, outcome>>
          BY <3>1 DEF ServerReceives
        <4> QED BY <3>1, <4>1, ServerGiven, ServerRepeats, ServerAcked DEF ServerReceives
      <3>2. CASE ServerUser
        <4>1. ASSUME S!Provisional("request"), Replies("1xx") PROVE ServerEffect
          <5>1. replies' = replies
            BY <4>1 DEF Replies
          <5> QED BY <2>1, <4>1, <5>1, ServerProceeds
        <4> QED BY <2>1, <3>2, <4>1, ServerSucceeds, ServerRetracts, ServerAnswers DEF ServerUser
      <3>3. CASE ServerTimer
        <4>1. UNCHANGED <<client, replies, outcome>>
          BY <3>3 DEF ServerTimer
        <4> QED BY <3>3, <4>1, ServerRepeats, ServerTimers, ServerProceeds DEF ServerTimer
      <3> QED BY <1>3, <3>1, <3>2, <3>3
    <2> QED BY <2>1, <2>2, ServerKeeps DEF ServerEffect
  <1> QED BY <1>1, <1>2, <1>3 DEF Next

\* Nothing was asked, given or told.
LEMMA InitRefines == Init => PairInv /\ R!Init
  <1> SUFFICES ASSUME Init PROVE PairInv /\ R!Init
    OBVIOUS
  <1> USE DEF Init, C!Init, S!Init
  <1>1. Typed
    BY DEF Typed, Requests, S!NoTx, S!Transaction, S!Machines, S!States
  <1>2. Fresh
    BY DEF Fresh, C!Tids, C!NoTx, C!New
  <1>3. Answered
    BY DEF Answered, S!Tids, S!NoTx, S!TimerKinds
  <1>4. Carried
    BY DEF Carried, Said, S!Tids
  <1>5. R!Init
    BY DEF R!Init, farRequest, S!Tids, S!NoTx
  <1> QED BY <1>1, <1>2, <1>3, <1>4, <1>5 DEF PairInv

\* A client and a server transaction over a network that loses, delays, repeats
\* and reorders, for any number of lives of the identifier: the far user has one
\* delivery of the request at a time and answers each once (processServerStale
\* lets it add a failure to a 2xx), no delivery ends before one was answered,
\* and the near user learns one outcome, an answer the far user gave or one that
\* a stack made up.
THEOREM PairImplementsPromise == Spec => ImplementsRequestReply
  <1>1. Init => PairInv /\ R!Init
    BY InitRefines
  <1>2. PairInv /\ [Next]_vars => PairInv' /\ [R!Next]_(R!vars)
    <2> SUFFICES ASSUME PairInv, [Next]_vars PROVE PairInv' /\ (R!Next \/ UNCHANGED R!vars)
      OBVIOUS
    <2>1. CASE Next
      BY <2>1, StepRefines
    <2>2. CASE UNCHANGED vars
      BY <2>2 DEF vars, client, server, PairInv, Typed, Fresh, Answered, Carried, Said,
                  R!vars, farRequest
    <2> QED BY <2>1, <2>2
  <1> QED BY <1>1, <1>2, PTL DEF Spec, ImplementsRequestReply, R!Spec

=============================================================================
