---------------------------- MODULE SipTransaction ----------------------------
(***************************************************************************)
(* A client transaction and the server transaction of its request, joined  *)
(* by a network that loses, delays, repeats and reorders: net is every     *)
(* message ever sent, and a message in it may be received at any moment,   *)
(* any number of times or never.  Shown to implement RequestReply.         *)
(***************************************************************************)
EXTENDS Naturals

CONSTANTS Targets, Ways, MaxNew, Overload   \* as in the two modules composed

ASSUME SipAssumption ==
  /\ Targets \in Nat \ {0}
  /\ Ways \subseteq {"dns", "slowDns", "flow"}
  /\ MaxNew \in Nat
  /\ Overload \in BOOLEAN

VARIABLES
  ctx, ctimers, out, way, left, heard, asked, cancelTo,   \* the client
  stx, stimers, peer, given, answer, wire, over,           \* the server
  net,       \* the messages sent
  replies,   \* the final answers that the far transaction user gave so far
  outcome    \* the first final answer the client's transaction user was told

client == <<ctx, ctimers, out, way, left, heard, asked, cancelTo>>

server == <<stx, stimers, peer, given, answer, wire, over>>

vars == <<client, server, net, replies, outcome>>

C == INSTANCE ClientTransaction WITH tx <- ctx, timers <- ctimers, MaxCancels <- [w \in Ways |-> 0]

S == INSTANCE ServerTransaction WITH tx <- stx, timers <- stimers

Init ==
  /\ C!Init
  /\ S!Init
  /\ net = {}
  /\ replies = {}
  /\ outcome = "none"

-----------------------------------------------------------------------------
\* What the client sent in a step joins the network.
ClientSends == net' = net \cup out'

\* What the server sent in a step joins the network.
ServerSends == net' = net \cup ({wire'["request"]} \ {"none"})

\* The transaction user is told a final answer for the first time.
Told(what) ==
  outcome' = IF outcome = "none" /\ (heard'["request"].finals > 0 \/ heard'["request"].ok)
             THEN what ELSE outcome

\* The client acts on its own: a request, a timer, DNS, a transport.
ClientStep ==
  /\ \/ C!User
     \/ \E t \in C!Tids, k \in C!TimerKinds : C!Timer(t, k)
     \/ C!DnsAnswer
     \/ C!Transport
  /\ ClientSends
  /\ Told("local")
  /\ UNCHANGED <<server, replies>>

Failures == {"failure", "500", "503"}

\* The client receives a response.
ClientReceives ==
  /\ \/ /\ "1xx" \in net
        /\ C!ProvisionalToInvite \/ C!ProvisionalToNonInvite("request")
        /\ UNCHANGED outcome
     \/ /\ "2xx" \in net
        /\ C!SuccessToInvite
        /\ Told("2xx")
     \/ \E r \in Failures \cap net :
          /\ C!FailureToInvite \/ C!FinalToNonInvite("request")
          /\ Told(IF r = "503" THEN "local" ELSE "failure")
  /\ ClientSends
  /\ UNCHANGED <<server, replies>>

\* The server receives a request or an ACK.
ServerReceives ==
  /\ \/ \E method \in {"INVITE", "OTHER"} \cap net, reliable \in BOOLEAN :
          S!NewRequest(method, reliable)
     \/ peer.method \in net /\ S!Retransmission("request")
     \/ {"INVITE", "OTHER"} \cap net # {} /\ S!TUOverloaded("request")
     \/ "ACK" \in net /\ S!Ack
  /\ ServerSends
  /\ UNCHANGED <<client, replies, outcome>>

\* The answers the far user gives; a 1xx is none.
Replies(response) == replies' = replies \cup ({response} \ {"1xx"})

\* The far transaction user speaks, or the proxy in its place.
ServerUser ==
  /\ \/ S!Provisional("request") /\ Replies("1xx")
     \/ S!Success /\ Replies("2xx")
     \/ \E response \in S!Responses : S!StaleResponse(response) /\ Replies(response)
     \/ /\ S!Final("request") \/ S!Failure \/ S!AbandonServerTransaction
        /\ Replies("failure")
  /\ ServerSends
  /\ UNCHANGED <<client, outcome>>

\* A timer of the server fires.
ServerTimer ==
  /\ \/ S!Send100("request")
     \/ \E k \in S!TimerKinds : S!Timer("request", k)
     \/ S!ResendFailure
  /\ ServerSends
  /\ UNCHANGED <<client, replies, outcome>>

Next == ClientStep \/ ClientReceives \/ ServerReceives \/ ServerUser \/ ServerTimer

Spec == Init /\ [][Next]_vars

-----------------------------------------------------------------------------
\* What has become of the request at the far user, from the state of its transaction.
farRequest ==
  LET r == stx["request"]
  IN IF r.machine = "None" THEN "away"
     ELSE IF r.machine = "ServerStale" THEN "accepted"
     ELSE IF r.mState \in {"Trying", "Proceeding"} THEN "pending" ELSE "failed"

R == INSTANCE RequestReply WITH
       asked <- way # "none", given <- given["request"], request <- farRequest

\* The two state machines over the network implement the promise.  While a
\* delivery is in hand no copy of the request is delivered (a copy that comes
\* after its transaction ended is: the code keeps no memory of it), each
\* delivery is accepted or refused once, the first of them does not end before
\* it is, and the near user is told one outcome: an answer that the far user
\* gave to some delivery, or one that a stack made up (a 408 or 503 of the near
\* one, a 503 of the far one when its user is overloaded).
ImplementsRequestReply == R!Spec

=============================================================================
