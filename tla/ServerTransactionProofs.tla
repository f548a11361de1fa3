---------------------- MODULE ServerTransactionProofs ----------------------
(***************************************************************************)
(* Proofs about ServerTransaction for any number of lives of an            *)
(* identifier, with or without overload: state and timers fit together,    *)
(* one answer goes out, and no first transaction ends unanswered.          *)
(***************************************************************************)
EXTENDS ServerTransaction, TLAPS

\* The timers that end a transaction once it was answered.
EndTimers == {"H", "I", "J", "StaleServer"}

\* An identifier that was never given has no transaction; the request keeps its
\* method in every life, the machine fits the method, and a CANCEL is never an
\* INVITE.
MachineFits ==
  /\ \A t \in Tids : given[t] = 0 => tx[t].machine = "None"
  /\ tx["cancel"].machine \in {"None", "ServerNonInvite"}
  /\ tx["request"].machine \in {"ServerInvite", "ServerStale"} => peer.method = "INVITE"
  /\ tx["request"].machine = "ServerNonInvite" => peer.method = "OTHER"
  /\ timers["request"]["J"] > 0 => peer.method = "OTHER"
  /\ given["request"] > 0 => peer.method # "none"

\* What the state of a transaction says of its other fields.
StateFits ==
  \A t \in Tids :
    /\ tx[t].mState \in {"Trying", "Proceeding"} =>
         ~tx[t].mAckIsValid /\ tx[t].mMsgToRetransmit = "1xx"
    /\ tx[t].machine = "ServerStale" => tx[t].mState \in {"Trying", "Proceeding"}
    /\ tx[t].machine = "ServerNonInvite" /\ tx[t].mIsReliable
         => tx[t].mState \in {"Trying", "Proceeding"}

\* The timer of a stale transaction is the only one of its kind, and it is
\* there as long as the transaction is.
StaleTimed ==
  \A t \in Tids :
    timers[t]["StaleServer"] = IF tx[t].machine = "ServerStale" THEN 1 ELSE 0

\* In the first life of an identifier nothing that ends an answered transaction
\* is there before the answer.
FirstLife ==
  \A t \in Tids :
    /\ given[t] = 0 => answer[t] = "none"
    /\ given[t] <= 1 /\ answer[t] = "none" =>
         /\ \A k \in EndTimers : timers[t][k] = 0
         /\ tx[t].mState \notin {"Completed", "Confirmed"}
         /\ tx[t].machine # "ServerStale"
         /\ ~over[t]

\* The state of a transaction tells whether its user has answered, and what it
\* keeps to be resent is that answer.
AnswerFits ==
  \A t \in Tids :
    tx[t].machine \in {"ServerInvite", "ServerNonInvite"} =>
      /\ unanswered(t) => answer[t] = "none"
      /\ tx[t].mState = "Completed" => tx[t].mMsgToRetransmit = responseOf(answer[t])

\* What the proof carries from step to step.
IInv ==
  /\ TypeOK
  /\ MachineFits
  /\ StateFits
  /\ StaleTimed
  /\ FirstLife
  /\ KeepsResending
  /\ AnswerFits

Timers == [Tids -> [TimerKinds -> Nat]]

\* Arming a timer adds one to its count and leaves the others alone.
LEMMA ArmCounts ==
  ASSUME NEW tm \in Timers, NEW t \in Tids, NEW k \in TimerKinds
  PROVE  /\ Arm(tm, t, k) \in Timers
         /\ \A u \in Tids, j \in TimerKinds :
              Arm(tm, t, k)[u][j] = IF u = t /\ j = k THEN tm[u][j] + 1 ELSE tm[u][j]
  BY DEF Timers, Arm

\* A timer that is armed can be consumed.
LEMMA ConsumeCounts ==
  ASSUME NEW tm \in Timers, NEW t \in Tids, NEW k \in TimerKinds, tm[t][k] > 0
  PROVE  /\ Consume(tm, t, k) \in Timers
         /\ \A u \in Tids, j \in TimerKinds :
              Consume(tm, t, k)[u][j] = IF u = t /\ j = k THEN tm[u][j] - 1 ELSE tm[u][j]
  BY DEF Timers, Consume

\* What the end of a transaction changes.
LEMMA TerminatedEffect ==
  ASSUME TypeOK, NEW t \in Tids, terminateServerTransaction(t)
  PROVE  /\ tx' \in [Tids -> Transaction] /\ over' \in [Tids -> BOOLEAN]
         /\ tx'[t] = NoTx
         /\ \A u \in Tids \ {t} : tx'[u] = tx[u] /\ over'[u] = over[u]
  <1>1. NoTx \in Transaction
    BY DEF NoTx, Transaction, Machines, States
  <1>2. tx' = [tx EXCEPT ![t] = NoTx] /\ over' = [over EXCEPT ![t] = TRUE]
    BY DEF terminateServerTransaction
  <1> QED BY <1>1, <1>2 DEF TypeOK

\* What is kept of a final response, with the ACK that is awaited or without.
LEMMA KeptEffect ==
  ASSUME NEW r \in Transaction, NEW response \in Finals
  PROVE  /\ [r EXCEPT !.mState = "Completed", !.mMsgToRetransmit = response] \in Transaction
         /\ [r EXCEPT !.mState = "Completed", !.mAckIsValid = TRUE,
                      !.mMsgToRetransmit = response] \in Transaction
  BY DEF Transaction, States, Finals

\* A failure that waits for its ACK has its timer H, and G if it may get lost.
LEMMA AwaitEffect ==
  ASSUME TypeOK, NEW t \in Tids, NEW response \in Finals, awaitAck(t, response)
  PROVE  /\ tx' \in [Tids -> Transaction]
         /\ tx'[t] = [tx[t] EXCEPT !.mState = "Completed", !.mAckIsValid = TRUE,
                                   !.mMsgToRetransmit = response]
         /\ \A u \in Tids \ {t} : tx'[u] = tx[u]
         /\ timers' \in [Tids -> [TimerKinds -> Nat]]
         /\ ~tx[t].mIsReliable => timers'[t]["G"] > 0
         /\ \A u \in Tids, k \in TimerKinds :
              u # t \/ k \notin {"H", "G"} => timers'[u][k] = timers[u][k]
  <1> DEFINE r == [tx[t] EXCEPT !.mState = "Completed", !.mAckIsValid = TRUE,
                                !.mMsgToRetransmit = response]
             tm == Arm(timers, t, "H")
  <1>1. tx[t] \in Transaction /\ timers \in Timers
    BY DEF TypeOK, Timers
  <1>2. tx' = [tx EXCEPT ![t] = r]
    BY DEF awaitAck, TypeOK, Transaction
  <1>3. r \in Transaction
    BY <1>1, KeptEffect
  <1>4. tm \in Timers /\ \A u \in Tids, k \in TimerKinds :
          tm[u][k] = IF u = t /\ k = "H" THEN timers[u][k] + 1 ELSE timers[u][k]
    BY <1>1, ArmCounts DEF TimerKinds
  <1>5. Arm(tm, t, "G") \in Timers /\ \A u \in Tids, k \in TimerKinds :
          Arm(tm, t, "G")[u][k] = IF u = t /\ k = "G" THEN tm[u][k] + 1 ELSE tm[u][k]
    <2> HIDE DEF tm
    <2> QED BY <1>4, ArmCounts DEF TimerKinds
  <1>6. timers' = IF tx[t].mIsReliable THEN tm ELSE Arm(tm, t, "G")
    BY DEF awaitAck
  <1> HIDE DEF r, tm
  <1>7. tx' \in [Tids -> Transaction] /\ tx'[t] = r /\ \A u \in Tids \ {t} : tx'[u] = tx[u]
    BY <1>2, <1>3 DEF TypeOK
  <1>8. tm[t]["G"] \in Nat
    BY <1>4 DEF Timers, TimerKinds
  <1>9. ~tx[t].mIsReliable => timers'[t]["G"] > 0
    BY <1>5, <1>6, <1>8 DEF TimerKinds
  <1>10. \A u \in Tids, k \in TimerKinds :
           u # t \/ k \notin {"H", "G"} => timers'[u][k] = timers[u][k]
    BY <1>4, <1>5, <1>6
  <1>11. timers' \in [Tids -> [TimerKinds -> Nat]]
    BY <1>4, <1>5, <1>6 DEF Timers
  <1> QED BY <1>7, <1>9, <1>10, <1>11 DEF r

\* The first answer of the transaction user counts.
LEMMA SaidEffect ==
  ASSUME TypeOK, NEW t \in Tids, NEW a \in {"2xx", "failure", "abandoned"}, said(t, a)
  PROVE  /\ answer' \in [Tids -> {"none", "2xx", "failure", "abandoned"}]
         /\ answer'[t] # "none" /\ (answer[t] = "none" => answer'[t] = a)
         /\ \A u \in Tids \ {t} : answer'[u] = answer[u]
  BY DEF TypeOK, said

\* A request that is not known makes a transaction, in the first or in a later life.
LEMMA StepNewRequest ==
  ASSUME IInv, NEW method \in {"INVITE", "OTHER"}, NEW reliable \in BOOLEAN,
         NewRequest(method, reliable)
  PROVE  IInv'
  <1> USE DEF IInv, TypeOK, Transaction, Tids, TimerKinds, NewRequest, Create, isNew, New, Arm
  <1>1. TypeOK'
    <2>1. (tx \in [Tids -> Transaction])'
      BY ServerAssumption DEF Machines, States, Finals
    <2>2. (timers \in [Tids -> [TimerKinds -> Nat]])'
      BY ServerAssumption DEF Machines, States, Finals
    <2>3. (peer \in [method : {"none", "INVITE", "OTHER"}, reliable : BOOLEAN])'
      BY ServerAssumption DEF Machines, States, Finals
    <2>4. (given \in [Tids -> 0 .. MaxNew])'
      BY ServerAssumption DEF Machines, States, Finals
    <2>5. (answer \in [Tids -> {"none", "2xx", "failure", "abandoned"}])'
      BY ServerAssumption DEF Machines, States, Finals
    <2>6. (wire \in [Tids -> {"none", "1xx"} \cup Finals])'
      BY ServerAssumption DEF Machines, States, Finals
    <2>7. (over \in [Tids -> BOOLEAN])'
      BY ServerAssumption DEF Machines, States, Finals
    <2> QED BY <2>1, <2>2, <2>3, <2>4, <2>5, <2>6, <2>7
  <1>2. MachineFits'
    BY DEF MachineFits, FirstLife, EndTimers
  <1>3. StateFits'
    BY DEF StateFits
  <1>4. StaleTimed'
    BY DEF StaleTimed, StateFits
  <1>5. FirstLife'
    BY DEF FirstLife, StaleTimed, EndTimers
  <1>6. KeepsResending'
    BY DEF KeepsResending, StateFits
  <1>7. AnswerFits'
    BY DEF AnswerFits, StateFits, unanswered
  <1> QED BY <1>1, <1>2, <1>3, <1>4, <1>5, <1>6, <1>7

\* A CANCEL that arrives makes a transaction of its own.
LEMMA StepNewCancel ==
  ASSUME IInv, NewCancel
  PROVE  IInv'
  <1> USE DEF IInv, TypeOK, Transaction, Tids, TimerKinds, NewCancel, Create, isNew, New, Arm
  <1>1. TypeOK'
    <2>1. (tx \in [Tids -> Transaction])'
      BY ServerAssumption DEF Machines, States, Finals
    <2>2. (timers \in [Tids -> [TimerKinds -> Nat]])'
      BY ServerAssumption DEF Machines, States, Finals
    <2>3. (peer \in [method : {"none", "INVITE", "OTHER"}, reliable : BOOLEAN])'
      BY ServerAssumption DEF Machines, States, Finals
    <2>4. (given \in [Tids -> 0 .. MaxNew])'
      BY ServerAssumption DEF Machines, States, Finals
    <2>5. (answer \in [Tids -> {"none", "2xx", "failure", "abandoned"}])'
      BY ServerAssumption DEF Machines, States, Finals
    <2>6. (wire \in [Tids -> {"none", "1xx"} \cup Finals])'
      BY ServerAssumption DEF Machines, States, Finals
    <2>7. (over \in [Tids -> BOOLEAN])'
      BY ServerAssumption DEF Machines, States, Finals
    <2> QED BY <2>1, <2>2, <2>3, <2>4, <2>5, <2>6, <2>7
  <1>2. MachineFits'
    BY DEF MachineFits, FirstLife, EndTimers
  <1>3. StateFits'
    BY DEF StateFits
  <1>4. StaleTimed'
    BY DEF StaleTimed, StateFits
  <1>5. FirstLife'
    BY DEF FirstLife, StaleTimed, EndTimers
  <1>6. KeepsResending'
    BY DEF KeepsResending, StateFits
  <1>7. AnswerFits'
    BY DEF AnswerFits, StateFits, unanswered
  <1> QED BY <1>1, <1>2, <1>3, <1>4, <1>5, <1>6, <1>7

\* A retransmitted request is answered with what is kept.
LEMMA StepRetransmission ==
  ASSUME IInv, NEW t \in Tids, Retransmission(t)
  PROVE  IInv'
  <1> USE DEF IInv, TypeOK, Transaction, Tids, TimerKinds, Retransmission, sendToWire
  <1>1. TypeOK'
    BY DEF Machines, States, Finals
  <1>2. MachineFits'
    BY DEF MachineFits, FirstLife, EndTimers
  <1>3. StateFits'
    BY DEF StateFits
  <1>4. StaleTimed'
    BY DEF StaleTimed, StateFits
  <1>5. FirstLife'
    BY DEF FirstLife, StaleTimed, EndTimers
  <1>6. KeepsResending'
    BY DEF KeepsResending, StateFits
  <1>7. AnswerFits'
    BY DEF AnswerFits, StateFits, unanswered
  <1> QED BY <1>1, <1>2, <1>3, <1>4, <1>5, <1>6, <1>7

\* A 503 of an overloaded stack is sent before any transaction is looked up.
LEMMA StepOverloaded ==
  ASSUME IInv, NEW t \in Tids, TUOverloaded(t)
  PROVE  IInv'
  <1> USE DEF IInv, TypeOK, Transaction, Tids, TimerKinds, TUOverloaded, sendToWire
  <1>1. TypeOK'
    BY DEF Machines, States, Finals
  <1>2. MachineFits'
    BY DEF MachineFits, FirstLife, EndTimers
  <1>3. StateFits'
    BY DEF StateFits
  <1>4. StaleTimed'
    BY DEF StaleTimed, StateFits
  <1>5. FirstLife'
    BY DEF FirstLife, StaleTimed, EndTimers
  <1>6. KeepsResending'
    BY DEF KeepsResending, StateFits
  <1>7. AnswerFits'
    BY DEF AnswerFits, StateFits, unanswered
  <1> QED BY <1>1, <1>2, <1>3, <1>4, <1>5, <1>6, <1>7

\* The ACK of a failure ends the transaction, at once or at timer I.
LEMMA StepAck ==
  ASSUME IInv, Ack
  PROVE  IInv'
  <1> USE DEF IInv
  <1>1. /\ tx["request"].machine = "ServerInvite" /\ tx["request"].mState = "Completed"
        /\ UNCHANGED <<peer, given, answer, wire>>
    BY DEF Ack, ackIsOurs
  <1>2. CASE tx["request"].mIsReliable
    <2>1. /\ tx' \in [Tids -> Transaction] /\ over' \in [Tids -> BOOLEAN]
          /\ tx'["request"] = NoTx
          /\ tx'["cancel"] = tx["cancel"] /\ over'["cancel"] = over["cancel"]
          /\ timers' = timers
      BY <1>2, TerminatedEffect DEF Ack, Tids
    <2>2. TypeOK'
      BY <1>1, <2>1 DEF TypeOK
    <2>3. MachineFits'
      BY <1>1, <2>1 DEF MachineFits, Tids, NoTx
    <2>4. StateFits'
      BY <2>1 DEF StateFits, Tids, NoTx
    <2>5. StaleTimed'
      BY <1>1, <2>1 DEF StaleTimed, Tids, NoTx
    <2>6. FirstLife'
      BY <1>1, <2>1 DEF FirstLife, Tids, NoTx
    <2>7. KeepsResending'
      BY <2>1 DEF KeepsResending, NoTx
    <2>8. AnswerFits'
      BY <1>1, <2>1 DEF AnswerFits, Tids, NoTx, unanswered
    <2> QED BY <2>2, <2>3, <2>4, <2>5, <2>6, <2>7, <2>8
  <1>3. CASE ~tx["request"].mIsReliable
    <2> DEFINE confirmed == [tx["request"] EXCEPT !.mState = "Confirmed"]
    <2>1. /\ confirmed \in Transaction
          /\ confirmed.machine = "ServerInvite" /\ confirmed.mState = "Confirmed"
      BY <1>1 DEF TypeOK, Transaction, Tids, States
    <2>2. /\ tx' = [tx EXCEPT !["request"] = confirmed]
          /\ timers' = Arm(timers, "request", "I") /\ over' = over
      BY <1>3 DEF Ack, TypeOK, Transaction, Tids
    <2> HIDE DEF confirmed
    <2>3. /\ tx' \in [Tids -> Transaction] /\ tx'["request"] = confirmed
          /\ tx'["cancel"] = tx["cancel"]
      BY <2>1, <2>2 DEF TypeOK, Tids
    <2>4. /\ timers' \in [Tids -> [TimerKinds -> Nat]]
          /\ \A u \in Tids, k \in TimerKinds :
               u # "request" \/ k # "I" => timers'[u][k] = timers[u][k]
      <3>1. timers \in Timers /\ "request" \in Tids /\ "I" \in TimerKinds
        BY DEF TypeOK, Timers, Tids, TimerKinds
      <3> QED BY <2>2, <3>1, ArmCounts DEF Timers
    <2>5. TypeOK'
      BY <1>1, <2>2, <2>3, <2>4 DEF TypeOK
    <2>6. MachineFits'
      BY <1>1, <2>1, <2>3, <2>4 DEF MachineFits, Tids, TimerKinds
    <2>7. StateFits'
      BY <2>1, <2>3 DEF StateFits, Tids
    <2>8. StaleTimed'
      BY <1>1, <2>1, <2>3, <2>4 DEF StaleTimed, Tids, TimerKinds
    <2>9. FirstLife'
      BY <1>1, <2>2, <2>3, <2>4 DEF FirstLife, Tids, TimerKinds, EndTimers
    <2>10. KeepsResending'
      BY <2>1, <2>3 DEF KeepsResending
    <2>11. AnswerFits'
      BY <1>1, <2>1, <2>3 DEF AnswerFits, Tids, unanswered
    <2> QED BY <2>5, <2>6, <2>7, <2>8, <2>9, <2>10, <2>11
  <1> QED BY <1>2, <1>3

\* A provisional answer of the transaction user.
LEMMA StepProvisional ==
  ASSUME IInv, NEW t \in Tids, Provisional(t)
  PROVE  IInv'
  <1> USE DEF IInv, TypeOK, Transaction, Tids, TimerKinds, Provisional, acceptsProvisional,
    unanswered, sendToWire
  <1>1. TypeOK'
    BY DEF Machines, States, Finals
  <1>2. MachineFits'
    BY DEF MachineFits, FirstLife, EndTimers
  <1>3. StateFits'
    BY DEF StateFits
  <1>4. StaleTimed'
    BY DEF StaleTimed, StateFits
  <1>5. FirstLife'
    BY DEF FirstLife, StaleTimed, EndTimers
  <1>6. KeepsResending'
    BY DEF KeepsResending, StateFits
  <1>7. AnswerFits'
    BY DEF AnswerFits, StateFits, unanswered
  <1> QED BY <1>1, <1>2, <1>3, <1>4, <1>5, <1>6, <1>7

\* A success turns the transaction of an INVITE into a stale one.
LEMMA StepSuccess ==
  ASSUME IInv, Success
  PROVE  IInv'
  <1> USE DEF IInv, TypeOK, Transaction, Tids, TimerKinds, Success, acceptsFinal, unanswered,
              stale, sendToWire
  <1>1. TypeOK'
    BY DEF Machines, States, Finals, said, Arm
  <1>2. MachineFits'
    BY DEF MachineFits, Arm
  <1>3. StateFits'
    BY DEF StateFits
  <1>4. StaleTimed'
    BY DEF StaleTimed, StateFits, Arm
  <1>5. FirstLife'
    <2>1. answer'["request"] # "none" /\ answer'["cancel"] = answer["cancel"]
      BY SaidEffect
    <2>2. \A k \in EndTimers : timers'["cancel"][k] = timers["cancel"][k]
      BY DEF Arm, EndTimers
    <2>3. tx'["cancel"] = tx["cancel"] /\ over' = over /\ given' = given
      OBVIOUS
    <2>4. given'["request"] = 0 => answer'["request"] = "none"
      BY DEF MachineFits, FirstLife
    <2> QED BY <2>1, <2>2, <2>3, <2>4 DEF FirstLife
  <1>6. KeepsResending'
    BY DEF KeepsResending
  <1>7. AnswerFits'
    <2>1. /\ tx'["request"].machine = "ServerStale"
          /\ tx'["cancel"] = tx["cancel"] /\ answer'["cancel"] = answer["cancel"]
      BY DEF said
    <2> QED BY <2>1 DEF AnswerFits
  <1> QED BY <1>1, <1>2, <1>3, <1>4, <1>5, <1>6, <1>7

\* What the transaction user says after its 2xx changes nothing but the wire.
LEMMA StepStaleResponse ==
  ASSUME IInv, NEW response \in Responses, StaleResponse(response)
  PROVE  IInv'
  <1>1. wire' \in [Tids -> {"none", "1xx"} \cup Finals]
        /\ UNCHANGED <<tx, timers, peer, given, answer, over>>
    BY DEF IInv, TypeOK, StaleResponse, sendToWire, Responses, Finals
  <1> QED BY <1>1 DEF IInv, TypeOK, MachineFits, StateFits, StaleTimed, FirstLife, KeepsResending,
                      AnswerFits, unanswered

\* A final response that waits for its ACK, from the transaction user or made
\* of the 100 at hand.
LEMMA StepAwait ==
  ASSUME IInv, NEW response \in {"failure", "500"}, NEW a \in {"failure", "abandoned"},
         tx["request"].machine = "ServerInvite", unanswered("request"),
         awaitAck("request", response), sendToWire("request", response),
         said("request", a), response = responseOf(a), UNCHANGED <<peer, given, over>>
  PROVE  IInv'
  <1> USE DEF IInv
  <1> DEFINE kept == [tx["request"] EXCEPT !.mState = "Completed", !.mAckIsValid = TRUE,
                                           !.mMsgToRetransmit = response]
  <1>2. /\ tx' \in [Tids -> Transaction]
        /\ tx'["request"] = kept
        /\ tx'["cancel"] = tx["cancel"]
        /\ timers' \in [Tids -> [TimerKinds -> Nat]]
        /\ ~tx["request"].mIsReliable => timers'["request"]["G"] > 0
        /\ \A u \in Tids, k \in TimerKinds :
             u # "request" \/ k \notin {"H", "G"} => timers'[u][k] = timers[u][k]
    BY AwaitEffect DEF Tids, Finals
  <1>3. /\ answer' \in [Tids -> {"none", "2xx", "failure", "abandoned"}]
        /\ answer'["request"] = a /\ a # "none"
        /\ answer'["cancel"] = answer["cancel"]
    <2>1. answer["request"] = "none"
      BY DEF AnswerFits, Tids
    <2> QED BY <2>1, SaidEffect DEF Tids
  <1>4. /\ wire' \in [Tids -> {"none", "1xx"} \cup Finals]
        /\ wire'["request"] = response /\ wire'["cancel"] = wire["cancel"]
        /\ UNCHANGED <<peer, given, over>>
    BY DEF TypeOK, Tids, Finals, sendToWire
  <1>5. /\ kept.machine = "ServerInvite" /\ kept.mState = "Completed"
        /\ kept.mMsgToRetransmit = response
        /\ kept.mIsReliable = tx["request"].mIsReliable
    BY DEF TypeOK, Transaction, Tids
  <1> HIDE DEF kept
  <1>6. TypeOK'
    BY <1>2, <1>3, <1>4 DEF TypeOK
  <1>7. MachineFits'
    BY <1>2, <1>4, <1>5 DEF MachineFits, Tids, TimerKinds
  <1>8. StateFits'
    BY <1>2, <1>5 DEF StateFits, Tids
  <1>9. StaleTimed'
    BY <1>2, <1>5 DEF StaleTimed, Tids, TimerKinds
  <1>10. FirstLife'
    BY <1>2, <1>3, <1>4 DEF FirstLife, MachineFits, Tids, TimerKinds, EndTimers
  <1>11. KeepsResending'
    BY <1>2, <1>5 DEF KeepsResending
  <1>12. AnswerFits'
    BY <1>2, <1>3, <1>5 DEF AnswerFits, Tids, unanswered
  <1> QED BY <1>6, <1>7, <1>8, <1>9, <1>10, <1>11, <1>12

\* A final response to another method ends the transaction or is kept for
\* retransmissions.
LEMMA StepAbsorb ==
  ASSUME IInv, NEW t \in Tids, NEW response \in {"failure", "500"},
         NEW a \in {"failure", "abandoned"},
         tx[t].machine = "ServerNonInvite", absorb(t, response), said(t, a),
         response = responseOf(a), UNCHANGED <<peer, given>>
  PROVE  IInv'
  <1> USE DEF IInv
  <1> DEFINE kept == [tx[t] EXCEPT !.mState = "Completed", !.mMsgToRetransmit = response]
  <1>1. /\ answer' \in [Tids -> {"none", "2xx", "failure", "abandoned"}]
        /\ answer'[t] = a /\ a # "none"
        /\ \A u \in Tids \ {t} : answer'[u] = answer[u]
    <2>1. answer[t] = "none"
      BY DEF AnswerFits, StateFits, absorb, acceptsFinal, unanswered
    <2> QED BY <2>1, SaidEffect
  <1>2. /\ wire' \in [Tids -> {"none", "1xx"} \cup Finals]
        /\ wire'[t] = response
        /\ \A u \in Tids \ {t} : wire'[u] = wire[u]
    BY DEF TypeOK, absorb, sendToWire, Finals
  <1>3. CASE tx[t].mIsReliable
    <2>1. /\ tx' \in [Tids -> Transaction] /\ over' \in [Tids -> BOOLEAN]
          /\ tx'[t] = NoTx
          /\ \A u \in Tids \ {t} : tx'[u] = tx[u] /\ over'[u] = over[u]
          /\ timers' = timers
      BY <1>3, TerminatedEffect DEF absorb
    <2>2. TypeOK'
      BY <1>1, <1>2, <2>1 DEF TypeOK
    <2>3. MachineFits'
      BY <2>1 DEF MachineFits, Tids, TimerKinds, NoTx
    <2>4. StateFits'
      BY <2>1 DEF StateFits, NoTx
    <2>5. StaleTimed'
      BY <2>1 DEF StaleTimed, NoTx
    <2>6. FirstLife'
      BY <1>1, <2>1 DEF FirstLife, MachineFits, NoTx
    <2>7. KeepsResending'
      BY <2>1 DEF KeepsResending, Tids, NoTx
    <2>8. AnswerFits'
      BY <1>1, <2>1 DEF AnswerFits, NoTx, unanswered
    <2> QED BY <2>2, <2>3, <2>4, <2>5, <2>6, <2>7, <2>8
  <1>4. CASE ~tx[t].mIsReliable
    <2>1. tx[t] \in Transaction /\ kept \in Transaction
      BY KeptEffect DEF TypeOK, Finals
    <2>2. tx' = [tx EXCEPT ![t] = kept] /\ timers' = Arm(timers, t, "J") /\ over' = over
      BY <1>4, <2>1 DEF absorb, TypeOK, Transaction
    <2>3. /\ kept.machine = "ServerNonInvite" /\ kept.mState = "Completed"
          /\ kept.mMsgToRetransmit = response /\ ~kept.mIsReliable
      BY <1>4, <2>1 DEF Transaction
    <2> HIDE DEF kept
    <2>4. /\ tx' \in [Tids -> Transaction] /\ tx'[t] = kept
          /\ \A u \in Tids \ {t} : tx'[u] = tx[u]
      BY <2>1, <2>2 DEF TypeOK
    <2>5. /\ timers' \in [Tids -> [TimerKinds -> Nat]]
          /\ \A u \in Tids, k \in TimerKinds :
               u # t \/ k # "J" => timers'[u][k] = timers[u][k]
      BY <2>2, ArmCounts DEF TypeOK, Timers, TimerKinds
    <2>6. TypeOK'
      BY <1>1, <1>2, <2>2, <2>4, <2>5 DEF TypeOK
    <2>7. MachineFits'
      BY <2>3, <2>4, <2>5 DEF MachineFits, Tids, TimerKinds
    <2>8. StateFits'
      BY <2>3, <2>4 DEF StateFits
    <2>9. StaleTimed'
      BY <2>3, <2>4, <2>5 DEF StaleTimed, TimerKinds
    <2>10. FirstLife'
      BY <1>1, <2>2, <2>4, <2>5 DEF FirstLife, MachineFits, TimerKinds, EndTimers
    <2>11. KeepsResending'
      BY <2>3, <2>4, <2>5 DEF KeepsResending, Tids, TimerKinds
    <2>12. AnswerFits'
      BY <1>1, <2>3, <2>4 DEF AnswerFits, unanswered
    <2> QED BY <2>6, <2>7, <2>8, <2>9, <2>10, <2>11, <2>12
  <1> QED BY <1>3, <1>4

\* A failure response to an INVITE waits for its ACK.
LEMMA StepFailure ==
  ASSUME IInv, Failure
  PROVE  IInv'
  BY StepAwait DEF Failure, acceptsFinal, responseOf

\* A final response to another method.
LEMMA StepFinal ==
  ASSUME IInv, NEW t \in Tids, Final(t)
  PROVE  IInv'
  BY StepAbsorb DEF Final, responseOf

\* The proxy gives up a request and the 100 at hand becomes a 500.
LEMMA StepAbandon ==
  ASSUME IInv, AbandonServerTransaction
  PROVE  IInv'
  BY StepAwait, StepAbsorb DEF AbandonServerTransaction, Tids, responseOf

\* The timer that sends 100 for a slow transaction user.
LEMMA StepSend100 ==
  ASSUME IInv, NEW t \in Tids, Send100(t)
  PROVE  IInv'
  <1> USE DEF IInv, TypeOK, Transaction, Tids, TimerKinds, Send100, sendToWire, Consume
  <1>1. TypeOK'
    BY DEF Machines, States, Finals
  <1>2. MachineFits'
    BY DEF MachineFits, FirstLife, EndTimers
  <1>3. StateFits'
    BY DEF StateFits
  <1>4. StaleTimed'
    BY DEF StaleTimed, StateFits
  <1>5. FirstLife'
    BY DEF FirstLife, StaleTimed, EndTimers
  <1>6. KeepsResending'
    BY DEF KeepsResending, StateFits
  <1>7. AnswerFits'
    BY DEF AnswerFits, StateFits, unanswered
  <1> QED BY <1>1, <1>2, <1>3, <1>4, <1>5, <1>6, <1>7

\* Timer G sends the failure again.
LEMMA StepResendFailure ==
  ASSUME IInv, ResendFailure
  PROVE  IInv'
  <1> USE DEF IInv, TypeOK, Transaction, Tids, TimerKinds, ResendFailure, sendToWire
  <1>1. TypeOK'
    BY DEF Machines, States, Finals
  <1>2. MachineFits'
    BY DEF MachineFits, FirstLife, EndTimers
  <1>3. StateFits'
    BY DEF StateFits
  <1>4. StaleTimed'
    BY DEF StaleTimed, StateFits
  <1>5. FirstLife'
    BY DEF FirstLife, StaleTimed, EndTimers
  <1>6. KeepsResending'
    BY DEF KeepsResending, StateFits
  <1>7. AnswerFits'
    BY DEF AnswerFits, StateFits, unanswered
  <1> QED BY <1>1, <1>2, <1>3, <1>4, <1>5, <1>6, <1>7

\* A timer that ends a transaction.
LEMMA StepEnd ==
  ASSUME IInv, NEW t \in Tids, NEW k \in TimerKinds, End(t, k)
  PROVE  IInv'
  <1> USE DEF IInv, TypeOK, Transaction, Tids, TimerKinds, End, ends, terminateServerTransaction,
    NoTx, Consume
  <1>1. TypeOK'
    BY DEF Machines, States, Finals
  <1>2. MachineFits'
    BY DEF MachineFits, FirstLife, EndTimers
  <1>3. StateFits'
    BY DEF StateFits
  <1>4. StaleTimed'
    BY DEF StaleTimed, StateFits
  <1>5. FirstLife'
    BY DEF FirstLife, StaleTimed, EndTimers
  <1>6. KeepsResending'
    BY DEF KeepsResending, StateFits
  <1>7. AnswerFits'
    BY DEF AnswerFits, StateFits, unanswered
  <1> QED BY <1>1, <1>2, <1>3, <1>4, <1>5, <1>6, <1>7

\* A timer that finds no transaction it applies to.
LEMMA StepIgnore ==
  ASSUME IInv, NEW t \in Tids, NEW k \in TimerKinds, Ignore(t, k)
  PROVE  IInv'
  <1> USE DEF IInv, TypeOK, Transaction, Tids, TimerKinds, Ignore, ends, Consume
  <1>1. TypeOK'
    BY DEF Machines, States, Finals
  <1>2. MachineFits'
    BY DEF MachineFits, FirstLife, EndTimers
  <1>3. StateFits'
    BY DEF StateFits
  <1>4. StaleTimed'
    BY DEF StaleTimed, StateFits
  <1>5. FirstLife'
    BY DEF FirstLife, StaleTimed, EndTimers
  <1>6. KeepsResending'
    BY DEF KeepsResending, StateFits
  <1>7. AnswerFits'
    BY DEF AnswerFits, StateFits, unanswered
  <1> QED BY <1>1, <1>2, <1>3, <1>4, <1>5, <1>6, <1>7

\* Nothing has arrived.
LEMMA InitIInv == Init => IInv
  BY ServerAssumption
  DEF Init, IInv, TypeOK, MachineFits, StateFits, StaleTimed, FirstLife, KeepsResending, AnswerFits,
      unanswered, Tids, TimerKinds, EndTimers, Transaction, Machines, States, Finals, NoTx

\* No step of the stack, the peer or the clock breaks the invariant.
LEMMA NextIInv == IInv /\ [Next]_vars => IInv'
  <1> SUFFICES ASSUME IInv, [Next]_vars PROVE IInv'
    OBVIOUS
  <1>1. CASE Wire
    BY <1>1, StepNewRequest, StepNewCancel, StepRetransmission, StepOverloaded, StepAck DEF Wire
  <1>2. CASE User
    BY <1>2, StepProvisional, StepFinal, StepSuccess, StepStaleResponse, StepFailure, StepAbandon
    DEF User
  <1>3. ASSUME NEW t \in Tids, Send100(t) PROVE IInv'
    BY <1>3, StepSend100
  <1>4. ASSUME NEW t \in Tids, NEW k \in TimerKinds, Timer(t, k) PROVE IInv'
    BY <1>4, StepEnd, StepIgnore DEF Timer
  <1>5. CASE ResendFailure
    BY <1>5, StepResendFailure
  <1>6. CASE UNCHANGED vars
    BY <1>6 DEF vars, IInv, TypeOK, MachineFits, StateFits, StaleTimed, FirstLife,
                KeepsResending, AnswerFits, unanswered
  <1> QED BY <1>1, <1>2, <1>3, <1>4, <1>5, <1>6 DEF Next

\* The invariant of the proof holds in every reachable state.
LEMMA SpecIInv == Spec => []IInv
  <1> QED BY InitIInv, NextIInv, PTL DEF Spec

\* The variables keep their types for any number of lives of an identifier.
THEOREM TypeCorrect == Spec => []TypeOK
  <1>1. IInv => TypeOK
    BY DEF IInv
  <1> QED BY <1>1, SpecIInv, PTL

\* State and timers fit together: a failure that may get lost is always about to
\* be resent (processServerInvite), an ACK never reaches a stale transaction and
\* no timer of an earlier transaction trips the assert of processServerInvite.
THEOREM TransactionSound == Spec => []TransactionOK
  <1>1. IInv => StaleAckIsForTheUser
    BY DEF IInv, StateFits, StaleAckIsForTheUser, Tids
  <1>2. IInv => NoUnexpectedTimer
    BY DEF IInv, TypeOK, MachineFits, StaleTimed, NoUnexpectedTimer, Tids, TimerKinds
  <1>3. IInv => TransactionOK
    BY <1>1, <1>2 DEF IInv, TransactionOK
  <1> QED BY <1>3, SpecIInv, PTL

\* The transaction user is told of the end of a first transaction only after it
\* answered or gave up, although timers H and I test no state.
THEOREM EndsOnlyAnswered == Spec => []EndsAnswered
  <1>1. IInv => EndsAnswered
    BY DEF IInv, FirstLife, EndsAnswered
  <1> QED BY <1>1, SpecIInv, PTL

\* What a step puts on the wire once the transaction user has answered: that
\* answer again, the 503 of an overloaded one, or what it still says after a 2xx.
StaysAnswered ==
  \A t \in Tids :
    answer[t] # "none" /\ given'[t] = given[t] =>
      \/ wire'[t] \in {wire[t], responseOf(answer[t]), "503"}
      \/ t = "request" /\ \E response \in Responses : StaleResponse(response)

\* No handler but that of a stale transaction sends a second answer: the
\* transaction is gone, or it is past the states in which a response is accepted
\* and resends what it kept.
LEMMA StepStaysAnswered == IInv /\ [Next]_vars => StaysAnswered
  <1> SUFFICES ASSUME IInv, [Next]_vars PROVE StaysAnswered
    OBVIOUS
  <1> USE DEF IInv, StaysAnswered
  <1>1. ASSUME UNCHANGED wire PROVE StaysAnswered
    BY <1>1
  <1>2. ASSUME NEW t \in Tids, NEW response, sendToWire(t, response),
               response = "503" \/ answer[t] = "none" \/ response = responseOf(answer[t])
        PROVE  StaysAnswered
    BY <1>2 DEF sendToWire, TypeOK
  <1>3. ASSUME NEW t \in Tids, NEW machine, NEW reliable, Create(t, machine, reliable)
        PROVE  StaysAnswered
    <2>1. given'[t] # given[t]
      BY <1>3 DEF Create, TypeOK
    <2> QED BY <1>3, <2>1 DEF Create, TypeOK
  <1>4. ASSUME NEW t \in Tids, tx[t].machine \in {"ServerInvite", "ServerNonInvite"}, unanswered(t)
        PROVE  answer[t] = "none"
    BY <1>4 DEF AnswerFits
  <1>5. CASE Wire
    <2>1. ASSUME NEW t \in Tids, Retransmission(t)
          PROVE  tx[t].mMsgToRetransmit = responseOf(answer[t]) \/ answer[t] = "none"
      BY <2>1 DEF Retransmission, AnswerFits, unanswered
    <2>2. ASSUME NEW t \in Tids, Retransmission(t) PROVE StaysAnswered
      BY <1>2, <2>1, <2>2 DEF Retransmission
    <2>3. ASSUME NEW t \in Tids, TUOverloaded(t) PROVE StaysAnswered
      BY <1>2, <2>3 DEF TUOverloaded
    <2>4. CASE Ack
      BY <1>1, <2>4 DEF Ack
    <2>5. CASE NewCancel
      BY <1>3, <2>5 DEF NewCancel, Tids
    <2>6. ASSUME NEW method \in {"INVITE", "OTHER"}, NEW reliable \in BOOLEAN,
                 NewRequest(method, reliable)
          PROVE  StaysAnswered
      BY <1>3, <2>6 DEF NewRequest, Tids
    <2> QED BY <1>5, <2>2, <2>3, <2>4, <2>5, <2>6 DEF Wire
  <1>6. CASE User
    <2>1. ASSUME NEW t \in Tids, NEW response, tx[t].machine = "ServerNonInvite", absorb(t, response)
          PROVE  StaysAnswered
      <3>1. unanswered(t)
        BY <2>1 DEF absorb, acceptsFinal, StateFits, unanswered
      <3> QED BY <1>2, <1>4, <2>1, <3>1 DEF absorb
    <2>2. ASSUME NEW t \in Tids, Provisional(t) PROVE StaysAnswered
      BY <1>2, <1>4, <2>2 DEF Provisional, acceptsProvisional
    <2>3. CASE Success
      BY <1>2, <1>4, <2>3 DEF Success, acceptsFinal, Tids
    <2>4. CASE Failure
      BY <1>2, <1>4, <2>4 DEF Failure, acceptsFinal, Tids
    <2>5. ASSUME NEW t \in Tids, Final(t) PROVE StaysAnswered
      BY <2>1, <2>5 DEF Final
    <2>6. CASE AbandonServerTransaction
      BY <1>2, <1>4, <2>1, <2>6 DEF AbandonServerTransaction, Tids
    <2>7. ASSUME NEW response \in Responses, StaleResponse(response) PROVE StaysAnswered
      <3>1. wire'["cancel"] = wire["cancel"]
        BY <2>7 DEF StaleResponse, sendToWire, TypeOK, Tids
      <3> QED BY <2>7, <3>1 DEF Tids
    <2> QED BY <1>6, <2>2, <2>3, <2>4, <2>5, <2>6, <2>7 DEF User
  <1>7. ASSUME NEW t \in Tids, Send100(t) PROVE StaysAnswered
    BY <1>2, <1>4, <1>7 DEF Send100, unanswered
  <1>8. ASSUME NEW t \in Tids, NEW k \in TimerKinds, Timer(t, k) PROVE StaysAnswered
    BY <1>1, <1>8 DEF Timer, End, Ignore
  <1>9. CASE ResendFailure
    <2>1. tx["request"].mMsgToRetransmit = responseOf(answer["request"])
      BY <1>9 DEF ResendFailure, AnswerFits, Tids
    <2> QED BY <1>2, <1>9, <2>1 DEF ResendFailure, Tids
  <1>10. CASE UNCHANGED vars
    BY <1>1, <1>10 DEF vars
  <1> QED BY <1>5, <1>6, <1>7, <1>8, <1>9, <1>10 DEF Next

\* Once the transaction user has answered, a transaction sends that answer and no
\* other in this life of the identifier, whatever is repeated and whichever timer
\* fires; only an overloaded transaction user (503), and one that goes on talking
\* after its 2xx (processServerStale), put something else on the wire.
THEOREM AnsweredOnce == Spec => OneAnswer
  <1>1. IInv /\ [Next]_vars => [StaysAnswered]_vars
    BY StepStaysAnswered
  <1>2. Spec => [][StaysAnswered]_vars
    BY <1>1, SpecIInv, PTL DEF Spec
  <1> QED BY <1>2 DEF OneAnswer, StaysAnswered

=============================================================================
