----------------------------- MODULE RequestReply -----------------------------
(***************************************************************************)
(* What the transaction layer promises its two transaction users.  The far *)
(* user has one delivery of the request in hand at a time, cannot take a   *)
(* failure back, and never loses the request before it has answered some   *)
(* delivery of it.  A copy that turns up after all this is over is given   *)
(* to it again.  The near user learns one outcome, which is an answer that *)
(* the far user gave, or one that a stack made up (408, 503).              *)
(*                                                                         *)
(*               Give               Accept               End               *)
(*       away -----------> pending -----------> accepted ---> away         *)
(*                            \------ Refuse -> failed -----> away         *)
(***************************************************************************)
EXTENDS Naturals

VARIABLES
  asked,    \* has the near user sent the request?
  given,    \* how often was it given to the far user?
  request,  \* what has become of it there
  replies,  \* the answers that the far user has given: "2xx", "failure"
  outcome   \* what the near user was told: "none", an answer, or "local"

vars == <<asked, given, request, replies, outcome>>

Init ==
  /\ asked = FALSE
  /\ given = 0
  /\ request = "away"
  /\ replies = {}
  /\ outcome = "none"

Ask ==
  /\ ~asked
  /\ asked' = TRUE
  /\ UNCHANGED <<given, request, replies, outcome>>

Give ==
  /\ asked /\ request = "away"
  /\ given' = given + 1
  /\ request' = "pending"
  /\ UNCHANGED <<asked, replies, outcome>>

Accept ==
  /\ request = "pending"
  /\ request' = "accepted"
  /\ replies' = replies \cup {"2xx"}
  /\ UNCHANGED <<asked, given, outcome>>

\* A failure may be the end of it at once.
Refuse ==
  /\ request = "pending"
  /\ request' \in {"failed", "away"}
  /\ replies' = replies \cup {"failure"}
  /\ UNCHANGED <<asked, given, outcome>>

\* Who has accepted may still say something else.
Retract ==
  /\ request = "accepted"
  /\ replies' = replies \cup {"failure"}
  /\ UNCHANGED <<asked, given, request, outcome>>

\* Not before an answer was given, to this delivery or an earlier one.
End ==
  /\ request # "away" /\ replies # {}
  /\ request' = "away"
  /\ UNCHANGED <<asked, given, replies, outcome>>

Learn ==
  /\ asked /\ outcome = "none"
  /\ outcome' \in replies \cup {"local"}
  /\ UNCHANGED <<asked, given, request, replies>>

Next == Ask \/ Give \/ Accept \/ Refuse \/ Retract \/ End \/ Learn

Spec == Init /\ [][Next]_vars

=============================================================================
