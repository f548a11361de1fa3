----------------------- MODULE ClientTransactionProofs -----------------------
(***************************************************************************)
(* Proofs about ClientTransaction for any number of DNS results, ways and  *)
(* cancel requests: the right message is resent for as long as it has to   *)
(* be, the transaction user is told of one final response, and a cancelled *)
(* INVITE is cancelled at the endpoint that has it.                        *)
(***************************************************************************)
EXTENDS ClientTransaction, TLAPS

\* Before the request nothing has happened.
Fresh ==
  way = "none" =>
    /\ tx = [t \in Tids |-> NoTx]
    /\ timers = [t \in Tids |-> [k \in TimerKinds |-> 0]]
    /\ heard = [t \in Tids |-> NothingHeard]
    /\ left = Targets /\ out = {} /\ asked = 0 /\ cancelTo = 0

\* The states of each machine; the CANCEL is never an INVITE.
MachineFits ==
  /\ tx["request"].machine \in {"ClientInvite", "ClientStale"} =>
       tx["request"].mState \in {"Calling", "Proceeding", "Completed"}
  /\ tx["cancel"].machine \in {"None", "ClientNonInvite"}
  /\ \A t \in Tids :
       /\ tx[t].machine = "ClientNonInvite" => tx[t].mState \in {"Trying", "Proceeding", "Completed"}
       /\ tx[t].machine # "None" /\ tx[t].target = 0 =>
            tx[t].machine # "ClientStale" /\ tx[t].mState \in {"Calling", "Trying"}

\* The targets are the DNS results in their order, and until the first is taken
\* nothing was sent.
Targeted ==
  way \in {"dns", "slowDns"} =>
    /\ tx["request"].machine # "None" => tx["request"].target = Targets - left
    /\ left = Targets => /\ tx["request"].mIsReliable /\ out = {}
                         /\ tx["cancel"].machine = "None"

\* Unless the resolver is slow, a DNS answer is awaited only before that.
DnsInTime ==
  tx["request"].mWaitingForDnsResult /\ way # "slowDns" => way = "dns" /\ left = Targets

\* The promise to cancel is for an INVITE that has no CANCEL yet; a CANCEL went
\* to a target that the INVITE was sent to.
CancelFits ==
  /\ tx["request"].mIsAbandoned =>
       /\ tx["request"].machine \in {"ClientInvite", "ClientStale"}
       /\ tx["request"].mState = "Calling"
       /\ tx["cancel"].machine = "None"
  /\ asked = 0 => tx["cancel"].machine = "None" /\ ~tx["request"].mIsAbandoned
  /\ tx["cancel"].machine # "None" => cancelTo > 0
  /\ tx["request"].machine \in {"ClientInvite", "ClientStale"} => cancelTo <= tx["request"].target
  /\ /\ tx["request"].machine = "ClientInvite" /\ asked > 0
     /\ tx["request"].mState \in {"Calling", "Proceeding"}
     => tx["request"].mIsAbandoned \/ cancelTo > 0

\* The timers that retire an answered transaction are not there before the
\* answer, although their handlers test no state; for a CANCEL, whose identifier
\* is used again, none is left over.
RetireTimed ==
  /\ tx["request"].machine = "ClientInvite" /\ timers["request"]["D"] > 0 =>
       tx["request"].mState = "Completed"
  /\ tx["request"].machine = "ClientNonInvite" /\ timers["request"]["K"] > 0 =>
       tx["request"].mState = "Completed"
  /\ tx["cancel"].mState = "Completed" => ~tx["cancel"].mIsReliable
  /\ timers["cancel"]["K"] =
       IF tx["cancel"].machine = "ClientNonInvite" /\ tx["cancel"].mState = "Completed"
       THEN 1 ELSE 0

\* What the transaction user has heard fits the state of the transaction.
HeardFits ==
  way # "slowDns" =>
    /\ \A t \in Tids :
         /\ tx[t].machine # "None" => heard[t].over = 0
         /\ tx[t].machine \in {"ClientInvite", "ClientNonInvite"} =>
              /\ ~heard[t].ok
              /\ heard[t].finals = IF tx[t].mState = "Completed" THEN 1 ELSE 0
         /\ tx[t].machine = "ClientStale" => heard[t].ok
    /\ tx["request"].machine = "ClientInvite" /\ tx["request"].mState = "Completed" =>
         ~tx["request"].mIsReliable

\* What the proof carries from step to step.
IInv ==
  /\ TypeOK
  /\ Fresh
  /\ MachineFits
  /\ Targeted
  /\ DnsInTime
  /\ CancelFits
  /\ RetireTimed
  /\ HeardFits
  /\ ResendsTheRightMessage
  /\ KeepsResending
  /\ OneFinal
Timers == [Tids -> [TimerKinds -> Nat]]

Heard == [finals : 0 .. 2, ok : BOOLEAN, over : 0 .. 2]

Messages == {"INVITE", "CANCEL", "ACK", "OTHER"}

-----------------------------------------------------------------------------
(* What the operators of the model change *)

\* Arming a timer adds one to its count and leaves the others alone.
LEMMA ArmCounts ==
  ASSUME NEW tm \in Timers, NEW t \in Tids, NEW k \in TimerKinds
  PROVE  /\ Arm(tm, t, k) \in Timers
         /\ \A u \in Tids, j \in TimerKinds :
              Arm(tm, t, k)[u][j] = IF u = t /\ j = k THEN tm[u][j] + 1 ELSE tm[u][j]
  BY DEF Timers, Arm

\* A transport that turns out unreliable starts the timer of the first state.
LEMMA ReliabilityEffect ==
  ASSUME NEW tm \in Timers, NEW t \in Tids, NEW r \in Transaction, NEW reliable \in BOOLEAN
  PROVE  LET tn == processReliability(tm, t, r, reliable)
         IN /\ tn \in Timers
            /\ \A u \in Tids, k \in TimerKinds :
                 /\ tn[u][k] >= tm[u][k]
                 /\ u # t \/ k \notin {"A", "E1"} => tn[u][k] = tm[u][k]
            /\ ~reliable /\ r.mIsReliable /\ r.machine = "ClientInvite" => tn[t]["A"] > 0
            /\ ~reliable /\ r.mIsReliable /\ r.machine = "ClientNonInvite" => tn[t]["E1"] > 0
  <1> DEFINE k0 == IF r.machine = "ClientInvite" THEN "A" ELSE "E1"
             armed == Arm(tm, t, k0)
             changed == ~reliable /\ r.mIsReliable /\ r.machine # "ClientStale"
             tn == processReliability(tm, t, r, reliable)
  <1>1. k0 \in TimerKinds /\ k0 \in {"A", "E1"}
    BY DEF TimerKinds
  <1>2. /\ armed \in Timers
        /\ \A u \in Tids, j \in TimerKinds :
             armed[u][j] = IF u = t /\ j = k0 THEN tm[u][j] + 1 ELSE tm[u][j]
    <2> HIDE DEF k0
    <2> QED BY <1>1, ArmCounts
  <1>3. \A u \in Tids, j \in TimerKinds : tm[u][j] \in Nat
    BY DEF Timers
  <1>4. tn = IF changed THEN armed ELSE tm
    BY DEF processReliability
  <1>5. r.machine = "ClientInvite" => k0 = "A"
    OBVIOUS
  <1>6. r.machine = "ClientNonInvite" => k0 = "E1"
    OBVIOUS
  <1>7. armed[t][k0] > 0
    BY <1>1, <1>2, <1>3
  <1>8. /\ ~reliable /\ r.mIsReliable /\ r.machine = "ClientInvite" => tn[t]["A"] > 0
        /\ ~reliable /\ r.mIsReliable /\ r.machine = "ClientNonInvite" => tn[t]["E1"] > 0
    <2> HIDE DEF k0, armed, tn
    <2> QED BY <1>4, <1>5, <1>6, <1>7
  <1> HIDE DEF k0, armed, tn, changed
  <1>9. tn \in Timers
    BY <1>2, <1>4
  <1>10. \A u \in Tids, k \in TimerKinds :
           /\ tn[u][k] >= tm[u][k]
           /\ u # t \/ k \notin {"A", "E1"} => tn[u][k] = tm[u][k]
    BY <1>1, <1>2, <1>3, <1>4
  <1> QED BY <1>8, <1>9, <1>10 DEF tn

\* A transaction that is told a local answer is gone.
LEMMA GiveEffect ==
  ASSUME TypeOK, NEW t \in Tids, Give408Or503(t)
  PROVE  /\ tx' \in [Tids -> Transaction] /\ tx'[t] = NoTx
         /\ heard' \in [Tids -> Heard]
         /\ heard'[t].finals = Up(heard[t].finals) /\ heard'[t].over = Up(heard[t].over)
         /\ heard'[t].ok = heard[t].ok
         /\ \A u \in Tids \ {t} : tx'[u] = tx[u] /\ heard'[u] = heard[u]
  <1>1. NoTx \in Transaction
    BY ClientAssumption DEF NoTx, New, Transaction, Machines, States
  <1>2. tx' = [tx EXCEPT ![t] = NoTx]
    BY DEF Give408Or503
  <1>3. tx' \in [Tids -> Transaction] /\ tx'[t] = NoTx /\ \A u \in Tids \ {t} : tx'[u] = tx[u]
    BY <1>1, <1>2 DEF TypeOK
  <1>4. heard \in [Tids -> Heard] /\ heard[t] \in Heard
    BY DEF TypeOK, Heard
  <1> DEFINE told == [heard[t] EXCEPT !.finals = Up(@)]
             gone == [told EXCEPT !.over = Up(@)]
  <1>5. \A n \in 0 .. 2 : Up(n) \in 0 .. 2
    BY DEF Up
  <1>6. told \in Heard /\ told.finals = Up(heard[t].finals) /\ told.over = heard[t].over
        /\ told.ok = heard[t].ok
    BY <1>4, <1>5 DEF Heard
  <1>7. gone \in Heard /\ gone.finals = told.finals /\ gone.over = Up(told.over) /\ gone.ok = told.ok
    <2> HIDE DEF told
    <2> QED BY <1>5, <1>6 DEF Heard
  <1>8. sendToTU(heard, t) = [heard EXCEPT ![t] = told]
    BY <1>4 DEF sendToTU
  <1>9. heard' = [[heard EXCEPT ![t] = told] EXCEPT ![t].over = Up(@)]
    BY <1>8 DEF Give408Or503, terminateClientTransaction
  <1> HIDE DEF told
  <1>10. heard' = [heard EXCEPT ![t] = gone]
    BY <1>4, <1>6, <1>9
  <1> HIDE DEF gone
  <1>11. heard' \in [Tids -> Heard] /\ heard'[t] = gone /\ \A u \in Tids \ {t} : heard'[u] = heard[u]
    BY <1>4, <1>7, <1>10
  <1> QED BY <1>3, <1>6, <1>7, <1>11

\* The request goes to the next DNS result.
LEMMA SendEffect ==
  ASSUME TypeOK, NEW r \in Transaction, NEW reliable \in BOOLEAN, SendToNext(r, reliable)
  PROVE  /\ left > 0 /\ left' = left - 1 /\ left' \in 0 .. Targets
         /\ tx' \in [Tids -> Transaction] /\ tx'["cancel"] = tx["cancel"]
         /\ tx'["request"] = [r EXCEPT !.target = Targets - left', !.mIsReliable = reliable]
         /\ out' \subseteq Messages
         /\ timers' = processReliability(timers, "request", r, reliable)
         /\ heard' = heard
  <1> DEFINE next == [r EXCEPT !.target = Targets - left', !.mIsReliable = reliable]
  <1>1. left > 0 /\ left' = left - 1 /\ left' \in 0 .. Targets /\ Targets - left' \in 0 .. Targets
        /\ Targets - left + 1 = Targets - left'
    BY ClientAssumption DEF SendToNext, TypeOK
  <1>2. next \in Transaction
    BY <1>1 DEF Transaction
  <1>3. tx' = [tx EXCEPT !["request"] = next]
    BY <1>1 DEF SendToNext
  <1>4. tx' \in [Tids -> Transaction] /\ tx'["cancel"] = tx["cancel"] /\ tx'["request"] = next
    <2> HIDE DEF next
    <2> QED BY <1>2, <1>3 DEF TypeOK, Tids
  <1>5. out' \subseteq Messages
    BY DEF SendToNext, mMsgToRetransmit, Messages, TypeOK
  <1> QED BY <1>1, <1>4, <1>5 DEF SendToNext

\* A CANCEL transaction is made for an INVITE that has none.
LEMMA CancelEffect ==
  ASSUME TypeOK, NEW invite \in Transaction, handleInternalCancel(invite, timers)
  PROVE  /\ tx' \in [Tids -> Transaction] /\ tx'["request"] = invite
         /\ tx'["cancel"] = [New("ClientNonInvite", "Trying")
                               EXCEPT !.target = invite.target, !.mIsReliable = invite.mIsReliable]
         /\ timers' \in Timers
         /\ \A u \in Tids, k \in TimerKinds :
              /\ timers'[u][k] >= timers[u][k]
              /\ k \notin {"A", "E1", "F", "CleanUp"} => timers'[u][k] = timers[u][k]
         /\ ~invite.mIsReliable => timers'["cancel"]["E1"] > 0
         /\ out' \subseteq Messages /\ out' # {} /\ cancelTo' = invite.target
         /\ heard' \in [Tids -> Heard]
         /\ heard'["cancel"] = NothingHeard /\ heard'["request"] = heard["request"]
  <1> DEFINE fresh == New("ClientNonInvite", "Trying")
             cancel == [fresh EXCEPT !.target = invite.target, !.mIsReliable = invite.mIsReliable]
             t1 == processReliability(timers, "cancel", fresh, invite.mIsReliable)
             t2 == Arm(t1, "cancel", "F")
  <1>1. fresh \in Transaction /\ fresh.mIsReliable /\ fresh.machine = "ClientNonInvite"
    BY ClientAssumption DEF New, Transaction, Machines, States
  <1>2. cancel \in Transaction
    <2> HIDE DEF fresh
    <2> QED BY <1>1 DEF Transaction
  <1>3. tx' = [tx EXCEPT !["request"] = invite, !["cancel"] = cancel]
    BY DEF handleInternalCancel
  <1>4. tx' \in [Tids -> Transaction] /\ tx'["request"] = invite /\ tx'["cancel"] = cancel
    <2> HIDE DEF cancel
    <2> QED BY <1>2, <1>3 DEF TypeOK, Tids
  <1>5. /\ "cancel" \in Tids /\ "request" \in Tids /\ "F" \in TimerKinds
        /\ "CleanUp" \in TimerKinds /\ "E1" \in TimerKinds
    BY DEF Tids, TimerKinds
  <1>6. invite.mIsReliable \in BOOLEAN /\ timers \in Timers
    BY DEF Transaction, TypeOK, Timers
  <1>7. /\ t1 \in Timers
        /\ \A u \in Tids, k \in TimerKinds :
             /\ t1[u][k] >= timers[u][k]
             /\ u # "cancel" \/ k \notin {"A", "E1"} => t1[u][k] = timers[u][k]
        /\ ~invite.mIsReliable => t1["cancel"]["E1"] > 0
    <2> HIDE DEF fresh
    <2> QED BY <1>1, <1>5, <1>6, ReliabilityEffect
  <1>8. timers' = Arm(t2, "request", "CleanUp")
    BY DEF handleInternalCancel
  <1> HIDE DEF fresh, cancel, t1
  <1>9. /\ t2 \in Timers
        /\ \A u \in Tids, j \in TimerKinds :
             t2[u][j] = IF u = "cancel" /\ j = "F" THEN t1[u][j] + 1 ELSE t1[u][j]
    BY <1>5, <1>7, ArmCounts
  <1> HIDE DEF t2
  <1>10. /\ timers' \in Timers
         /\ \A u \in Tids, j \in TimerKinds :
              timers'[u][j] = IF u = "request" /\ j = "CleanUp" THEN t2[u][j] + 1 ELSE t2[u][j]
    <2>1. /\ Arm(t2, "request", "CleanUp") \in Timers
          /\ \A u \in Tids, j \in TimerKinds :
               Arm(t2, "request", "CleanUp")[u][j] =
                 IF u = "request" /\ j = "CleanUp" THEN t2[u][j] + 1 ELSE t2[u][j]
      BY <1>5, <1>9, ArmCounts
    <2> QED BY <1>8, <2>1
  <1>11. \A u \in Tids, k \in TimerKinds :
           /\ timers[u][k] \in Nat /\ t1[u][k] \in Nat
           /\ timers'[u][k] >= timers[u][k]
           /\ k \notin {"A", "E1", "F", "CleanUp"} => timers'[u][k] = timers[u][k]
    BY <1>6, <1>7, <1>9, <1>10 DEF Timers
  <1>12. ~invite.mIsReliable => timers'["cancel"]["E1"] > 0
    BY <1>5, <1>7, <1>9, <1>10
  <1>13. heard' \in [Tids -> Heard] /\ heard'["cancel"] = NothingHeard /\ heard'["request"] = heard["request"]
    BY DEF handleInternalCancel, TypeOK, Tids, Heard, NothingHeard
  <1>14. out' \subseteq Messages /\ out' # {} /\ cancelTo' = invite.target
    BY DEF handleInternalCancel, Messages, TypeOK
  <1> QED BY <1>4, <1>10, <1>11, <1>12, <1>13, <1>14 DEF cancel, fresh

\* How a transaction of the request starts.
LEMMA FirstFields ==
  ASSUME NEW method \in {"INVITE", "OTHER"}
  PROVE  LET r == New(Machine(method), FirstState(method))
         IN /\ r \in Transaction /\ r.machine = Machine(method) /\ r.mState = FirstState(method)
            /\ ~r.mIsAbandoned /\ r.mIsReliable /\ ~r.mWaitingForDnsResult
            /\ r.target = 0 /\ ~r.acked
  <1>1. Machine(method) \in Machines /\ FirstState(method) \in States /\ 0 \in 0 .. Targets
    BY ClientAssumption DEF Machine, FirstState, Machines, States
  <1> QED BY <1>1 DEF New, Transaction

\* A CANCEL goes to the endpoint that has the INVITE.
LEMMA StepCancelSent ==
  ASSUME IInv, NEW invite \in Transaction,
         tx["request"].machine \in {"ClientInvite", "ClientStale"},
         tx["request"].mState # "Completed", tx["request"].target > 0,
         tx["cancel"].machine = "None",
         invite.machine = tx["request"].machine, invite.mState = "Proceeding",
         ~invite.mIsAbandoned, invite.target = tx["request"].target,
         invite.mIsReliable = tx["request"].mIsReliable,
         invite.mWaitingForDnsResult = tx["request"].mWaitingForDnsResult,
         invite.acked = tx["request"].acked,
         handleInternalCancel(invite, timers),
         asked' \in Nat \ {0}, UNCHANGED <<way, left>>
  PROVE  IInv'
  <1> USE DEF IInv
  <1>1. way # "none"
    BY DEF Fresh, NoTx, New, Tids
  <1>2. /\ tx' \in [Tids -> Transaction] /\ tx'["request"] = invite
        /\ tx'["cancel"].machine = "ClientNonInvite" /\ tx'["cancel"].mState = "Trying"
        /\ tx'["cancel"].target = invite.target
        /\ tx'["cancel"].mIsReliable = invite.mIsReliable
    BY CancelEffect DEF New
  <1>3. /\ timers' \in Timers
        /\ \A u \in Tids, k \in TimerKinds :
             /\ timers'[u][k] >= timers[u][k]
             /\ k \notin {"A", "E1", "F", "CleanUp"} => timers'[u][k] = timers[u][k]
        /\ ~invite.mIsReliable => timers'["cancel"]["E1"] > 0
    BY CancelEffect
  <1>4. /\ out' \subseteq Messages /\ cancelTo' = invite.target /\ cancelTo' \in 0 .. Targets
        /\ heard' \in [Tids -> Heard]
        /\ heard'["cancel"] = NothingHeard /\ heard'["request"] = heard["request"]
    BY CancelEffect DEF Transaction
  <1>5. TypeOK'
    BY <1>1, <1>2, <1>3, <1>4 DEF TypeOK, Tids, Timers, Heard, Messages
  <1>6. Fresh'
    BY <1>1, <1>2, <1>3, <1>4 DEF Fresh
  <1>7. MachineFits'
    BY <1>1, <1>2, <1>3, <1>4 DEF MachineFits, TypeOK, Tids
  <1>8. Targeted'
    BY <1>1, <1>2, <1>3, <1>4 DEF Targeted, MachineFits, TypeOK, Tids
  <1>9. DnsInTime'
    BY <1>1, <1>2, <1>3, <1>4 DEF DnsInTime, Targeted, MachineFits, TypeOK, Tids
  <1>10. CancelFits'
    BY <1>1, <1>2, <1>3, <1>4 DEF CancelFits, MachineFits, Targeted, TypeOK, Tids
  <1>11. RetireTimed'
    BY <1>1, <1>2, <1>3, <1>4 DEF RetireTimed, CancelFits, TypeOK, Tids, TimerKinds
  <1>12. HeardFits'
    BY <1>1, <1>2, <1>3, <1>4 DEF HeardFits, Targeted, MachineFits, DnsInTime, TypeOK, Tids, Up,
       NothingHeard
  <1>13. ResendsTheRightMessage'
    BY <1>1, <1>2, <1>3, <1>4 DEF ResendsTheRightMessage, MachineFits, Tids
  <1>14. KeepsResending'
    BY <1>1, <1>2, <1>3, <1>4 DEF KeepsResending, MachineFits, Targeted, CancelFits, TypeOK, Tids,
       TimerKinds
  <1>15. OneFinal'
    BY <1>1, <1>2, <1>3, <1>4 DEF OneFinal, HeardFits, RetireTimed, Tids, Up, NothingHeard
  <1> QED BY <1>5, <1>6, <1>7, <1>8, <1>9, <1>10, <1>11, <1>12, <1>13, <1>14, <1>15

\* The promise to cancel an INVITE once a provisional response comes.
LEMMA StepPromised ==
  ASSUME IInv, tx["request"].machine \in {"ClientInvite", "ClientStale"},
         tx["request"].mState = "Calling", tx["cancel"].machine = "None",
         tx' = [tx EXCEPT !["request"].mIsAbandoned = TRUE],
         asked' \in Nat \ {0}, UNCHANGED <<timers, out, way, left, heard, cancelTo>>
  PROVE  IInv'
  <1> USE DEF IInv
  <1>1. way # "none"
    BY DEF Fresh, NoTx, New, Tids
  <1>2. /\ tx' \in [Tids -> Transaction] /\ tx'["cancel"] = tx["cancel"]
        /\ tx'["request"] = [tx["request"] EXCEPT !.mIsAbandoned = TRUE]
    BY ZenonT(60) DEF TypeOK, Tids, Transaction
  <1>3. /\ tx'["request"].machine = tx["request"].machine /\ tx'["request"].mState = tx["request"].mState
        /\ tx'["request"].mIsAbandoned /\ tx'["request"].mIsReliable = tx["request"].mIsReliable
        /\ tx'["request"].mWaitingForDnsResult = tx["request"].mWaitingForDnsResult
        /\ tx'["request"].target = tx["request"].target /\ tx'["request"].acked = tx["request"].acked
    BY <1>2 DEF TypeOK, Tids, Transaction
  <1>4. TypeOK'
    BY <1>1, <1>2, <1>3 DEF TypeOK, Tids, Timers, Heard, Messages
  <1>5. Fresh'
    BY <1>1, <1>2, <1>3 DEF Fresh
  <1>6. MachineFits'
    BY <1>1, <1>2, <1>3 DEF MachineFits, TypeOK, Tids
  <1>7. Targeted'
    BY <1>1, <1>2, <1>3 DEF Targeted, MachineFits, TypeOK, Tids
  <1>8. DnsInTime'
    BY <1>1, <1>2, <1>3 DEF DnsInTime, Targeted, MachineFits, TypeOK, Tids
  <1>9. CancelFits'
    BY <1>1, <1>2, <1>3 DEF CancelFits, MachineFits, Targeted, TypeOK, Tids
  <1>10. RetireTimed'
    BY <1>1, <1>2, <1>3 DEF RetireTimed, CancelFits, TypeOK, Tids, TimerKinds
  <1>11. HeardFits'
    BY <1>1, <1>2, <1>3 DEF HeardFits, Targeted, MachineFits, DnsInTime, TypeOK, Tids, Up,
       NothingHeard
  <1>12. ResendsTheRightMessage'
    BY <1>1, <1>2, <1>3 DEF ResendsTheRightMessage, MachineFits, Tids
  <1>13. KeepsResending'
    BY <1>1, <1>2, <1>3 DEF KeepsResending, MachineFits, Targeted, CancelFits, TypeOK, Tids,
       TimerKinds
  <1>14. OneFinal'
    BY <1>1, <1>2, <1>3 DEF OneFinal, HeardFits, RetireTimed, Tids, Up, NothingHeard
  <1> QED BY <1>4, <1>5, <1>6, <1>7, <1>8, <1>9, <1>10, <1>11, <1>12, <1>13, <1>14

\* The request goes to the next DNS result, with the state it had or back in Calling.
LEMMA StepSent ==
  ASSUME IInv, NEW r \in Transaction, NEW reliable \in BOOLEAN,
         way \in {"dns", "slowDns"}, tx["request"].machine # "None",
         r.machine = tx["request"].machine,
         \/ r.mState = tx["request"].mState
         \/ r.machine = "ClientInvite" /\ tx["request"].mState = "Proceeding" /\ r.mState = "Calling",
         r.mIsAbandoned = tx["request"].mIsAbandoned,
         r.mIsReliable = tx["request"].mIsReliable,
         way = "dns" => ~r.mWaitingForDnsResult, r.acked = tx["request"].acked,
         way = "dns" => r.machine # "ClientStale" /\ r.mState # "Completed",
         SendToNext(r, reliable), UNCHANGED <<way, asked, cancelTo>>
  PROVE  IInv'
  <1> USE DEF IInv
  <1>1. /\ left > 0 /\ left' = left - 1 /\ left' \in 0 .. Targets
        /\ tx' \in [Tids -> Transaction] /\ tx'["cancel"] = tx["cancel"]
        /\ out' \subseteq Messages /\ heard' = heard
    BY SendEffect
  <1>2. /\ tx'["request"].machine = r.machine /\ tx'["request"].mState = r.mState
        /\ tx'["request"].mIsAbandoned = r.mIsAbandoned /\ tx'["request"].mIsReliable = reliable
        /\ tx'["request"].mWaitingForDnsResult = r.mWaitingForDnsResult
        /\ tx'["request"].target = Targets - left' /\ tx'["request"].acked = r.acked
    BY ZenonT(60), SendEffect DEF Transaction
  <1>3. /\ timers' \in Timers
        /\ \A u \in Tids, k \in TimerKinds :
             /\ timers'[u][k] >= timers[u][k]
             /\ u # "request" \/ k \notin {"A", "E1"} => timers'[u][k] = timers[u][k]
        /\ ~reliable /\ r.mIsReliable /\ r.machine = "ClientInvite" => timers'["request"]["A"] > 0
        /\ ~reliable /\ r.mIsReliable /\ r.machine = "ClientNonInvite" => timers'["request"]["E1"] > 0
    <2>1. timers \in Timers /\ "request" \in Tids
      BY DEF TypeOK, Timers, Tids
    <2>2. timers' = processReliability(timers, "request", r, reliable)
      BY SendEffect
    <2> QED BY <2>1, <2>2, ReliabilityEffect
  <1>4. Targets \in Nat \ {0} /\ tx["request"].target = Targets - left
    BY ClientAssumption DEF Targeted
  <1>5. TypeOK'
    BY <1>1, <1>2, <1>3, <1>4 DEF TypeOK, Tids, Timers, Heard, Messages
  <1>6. Fresh'
    BY <1>1, <1>2, <1>3, <1>4 DEF Fresh
  <1>7. MachineFits'
    BY <1>1, <1>2, <1>3, <1>4 DEF MachineFits, TypeOK, Tids
  <1>8. Targeted'
    BY <1>1, <1>2, <1>3, <1>4 DEF Targeted, MachineFits, TypeOK, Tids
  <1>9. DnsInTime'
    BY <1>1, <1>2, <1>3, <1>4 DEF DnsInTime, Targeted, MachineFits, TypeOK, Tids
  <1>10. CancelFits'
    BY <1>1, <1>2, <1>3, <1>4 DEF CancelFits, MachineFits, Targeted, TypeOK, Tids
  <1>11. RetireTimed'
    BY <1>1, <1>2, <1>3, <1>4 DEF RetireTimed, CancelFits, TypeOK, Tids, TimerKinds
  <1>12. HeardFits'
    BY <1>1, <1>2, <1>3, <1>4 DEF HeardFits, Targeted, MachineFits, DnsInTime, TypeOK, Tids, Up,
       NothingHeard
  <1>13. ResendsTheRightMessage'
    BY <1>1, <1>2, <1>3, <1>4 DEF ResendsTheRightMessage, MachineFits, Tids
  <1>14. KeepsResending'
    BY <1>1, <1>2, <1>3, <1>4 DEF KeepsResending, MachineFits, Targeted, CancelFits, TypeOK, Tids,
       TimerKinds
  <1>15. OneFinal'
    BY <1>1, <1>2, <1>3, <1>4 DEF OneFinal, HeardFits, RetireTimed, Tids, Up, NothingHeard
  <1> QED BY <1>5, <1>6, <1>7, <1>8, <1>9, <1>10, <1>11, <1>12, <1>13, <1>14, <1>15

\* A final answer that the stack makes up ends an unanswered transaction.
LEMMA StepGivenUp ==
  ASSUME IInv, NEW t \in Tids, Give408Or503(t), tx[t].machine # "None",
         t = "cancel" \/ way # "slowDns" =>
           tx[t].machine \in {"ClientInvite", "ClientNonInvite"} /\ tx[t].mState # "Completed",
         timers' \in Timers,
         \A u \in Tids, k \in TimerKinds \ {"B", "F", "CleanUp"} : timers'[u][k] = timers[u][k],
         out' \subseteq Messages,
         way \in {"dns", "slowDns"} /\ left = Targets => out' \subseteq out,
         UNCHANGED <<way, left, asked, cancelTo>>
  PROVE  IInv'
  <1> USE DEF IInv
  <1>1. way # "none"
    BY DEF Fresh, NoTx, New, Tids
  <1>2. /\ tx' \in [Tids -> Transaction] /\ tx'[t] = NoTx
        /\ heard' \in [Tids -> Heard]
        /\ heard'[t].finals = Up(heard[t].finals) /\ heard'[t].over = Up(heard[t].over)
        /\ heard'[t].ok = heard[t].ok
        /\ \A u \in Tids \ {t} : tx'[u] = tx[u] /\ heard'[u] = heard[u]
    BY GiveEffect
  <1>3. /\ NoTx.machine = "None" /\ ~NoTx.mIsAbandoned /\ NoTx.target = 0 /\ NoTx.mIsReliable
        /\ ~NoTx.mWaitingForDnsResult /\ NoTx.mState # "Completed"
    BY DEF NoTx, New
  <1>4. TypeOK'
    BY <1>1, <1>2, <1>3 DEF TypeOK, Tids, Timers, Heard, Messages
  <1>5. Fresh'
    BY <1>1, <1>2, <1>3 DEF Fresh
  <1>6. MachineFits'
    BY <1>1, <1>2, <1>3 DEF MachineFits, TypeOK, Tids
  <1>7. Targeted'
    BY <1>1, <1>2, <1>3 DEF Targeted, MachineFits, TypeOK, Tids
  <1>8. DnsInTime'
    BY <1>1, <1>2, <1>3 DEF DnsInTime, Targeted, MachineFits, TypeOK, Tids
  <1>9. CancelFits'
    BY <1>1, <1>2, <1>3 DEF CancelFits, MachineFits, Targeted, TypeOK, Tids
  <1>10. RetireTimed'
    BY <1>1, <1>2, <1>3 DEF RetireTimed, CancelFits, TypeOK, Tids, TimerKinds
  <1>11. HeardFits'
    BY <1>1, <1>2, <1>3 DEF HeardFits, Targeted, MachineFits, DnsInTime, TypeOK, Tids, Up,
       NothingHeard
  <1>12. ResendsTheRightMessage'
    BY <1>1, <1>2, <1>3 DEF ResendsTheRightMessage, MachineFits, Tids
  <1>13. KeepsResending'
    BY <1>1, <1>2, <1>3 DEF KeepsResending, MachineFits, Targeted, CancelFits, TypeOK, Tids,
       TimerKinds
  <1>14. OneFinal'
    BY <1>1, <1>2, <1>3 DEF OneFinal, HeardFits, RetireTimed, Tids, Up, NothingHeard
  <1> QED BY <1>4, <1>5, <1>6, <1>7, <1>8, <1>9, <1>10, <1>11, <1>12, <1>13, <1>14

\* A request whose targets DNS still has to find.
LEMMA StepRequestByDns ==
  ASSUME IInv, NEW method \in {"INVITE", "OTHER"}, RequestByDns(method)
  PROVE  IInv'
  <1> USE DEF IInv
  <1>1. /\ way = "none" /\ tx = [t \in Tids |-> NoTx]
        /\ timers = [t \in Tids |-> [k \in TimerKinds |-> 0]]
        /\ heard = [t \in Tids |-> NothingHeard]
        /\ left = Targets /\ out = {} /\ asked = 0 /\ cancelTo = 0
    BY DEF RequestByDns, Fresh
  <1>2. /\ way' \in Ways /\ way' \in {"dns", "slowDns"}
        /\ UNCHANGED <<out, left, heard, asked, cancelTo>>
    BY ClientAssumption DEF RequestByDns
  <1>3. /\ tx' \in [Tids -> Transaction] /\ tx'["cancel"] = NoTx
        /\ tx'["request"] = [New(Machine(method), FirstState(method))
                               EXCEPT !.mWaitingForDnsResult = TRUE]
    <2> DEFINE r == New(Machine(method), FirstState(method))
               new == [r EXCEPT !.mWaitingForDnsResult = TRUE]
    <2>1. new \in Transaction
      <3>1. r \in Transaction
        BY FirstFields
      <3> HIDE DEF r
      <3> QED BY <3>1 DEF Transaction
    <2>2. tx' = [tx EXCEPT !["request"] = new]
      BY DEF RequestByDns
    <2> HIDE DEF new
    <2>3. tx' \in [Tids -> Transaction] /\ tx'["request"] = new /\ tx'["cancel"] = tx["cancel"]
      BY <2>1, <2>2 DEF TypeOK, Tids
    <2> QED BY <1>1, <2>3 DEF new, Tids
  <1>4. /\ tx'["request"].machine \in {"ClientInvite", "ClientNonInvite"}
        /\ tx'["request"].machine = "ClientInvite" => tx'["request"].mState = "Calling"
        /\ tx'["request"].machine = "ClientNonInvite" => tx'["request"].mState = "Trying"
        /\ ~tx'["request"].mIsAbandoned /\ tx'["request"].mIsReliable
        /\ tx'["request"].target = 0 /\ ~tx'["request"].acked
    BY <1>3, FirstFields DEF Machine, FirstState, Transaction
  <1>5. /\ timers' \in Timers
        /\ \A u \in Tids, k \in TimerKinds : k \notin {"B", "F"} => timers'[u][k] = 0
    <2>1. /\ timers \in Timers /\ "request" \in Tids /\ LifeTimer(method) \in TimerKinds
          /\ LifeTimer(method) \in {"B", "F"}
      BY DEF TypeOK, Timers, Tids, LifeTimer, TimerKinds
    <2>2. timers' = Arm(timers, "request", LifeTimer(method))
      BY DEF RequestByDns
    <2>3. /\ timers' \in Timers
          /\ \A u \in Tids, k \in TimerKinds : k \notin {"B", "F"} => timers'[u][k] = timers[u][k]
      BY <2>1, <2>2, ArmCounts
    <2> QED BY <1>1, <2>3
  <1>6. /\ NoTx.machine = "None" /\ ~NoTx.mIsAbandoned /\ NoTx.target = 0
        /\ "cancel" \in Tids /\ "request" \in Tids /\ "K" \in TimerKinds /\ "D" \in TimerKinds
    BY DEF NoTx, New, Tids, TimerKinds
  <1>7. TypeOK'
    BY <1>1, <1>2, <1>3, <1>4, <1>5, <1>6 DEF TypeOK, Tids, Timers, Heard, Messages
  <1>8. Fresh'
    BY <1>1, <1>2, <1>3, <1>4, <1>5, <1>6 DEF Fresh
  <1>9. MachineFits'
    BY <1>1, <1>2, <1>3, <1>4, <1>5, <1>6 DEF MachineFits, TypeOK, Tids
  <1>10. Targeted'
    BY <1>1, <1>2, <1>3, <1>4, <1>5, <1>6 DEF Targeted, MachineFits, TypeOK, Tids
  <1>11. DnsInTime'
    BY <1>1, <1>2, <1>3, <1>4, <1>5, <1>6 DEF DnsInTime, Targeted, MachineFits, TypeOK, Tids
  <1>12. CancelFits'
    BY <1>1, <1>2, <1>3, <1>4, <1>5, <1>6 DEF CancelFits, MachineFits, Targeted, TypeOK, Tids
  <1>13. RetireTimed'
    BY <1>1, <1>2, <1>3, <1>4, <1>5, <1>6 DEF RetireTimed, CancelFits, TypeOK, Tids, TimerKinds
  <1>14. HeardFits'
    BY <1>1, <1>2, <1>3, <1>4, <1>5, <1>6 DEF HeardFits, Targeted, MachineFits, DnsInTime, TypeOK,
       Tids, Up, NothingHeard
  <1>15. ResendsTheRightMessage'
    BY <1>1, <1>2, <1>3, <1>4, <1>5, <1>6 DEF ResendsTheRightMessage, MachineFits, Tids
  <1>16. KeepsResending'
    BY <1>1, <1>2, <1>3, <1>4, <1>5, <1>6 DEF KeepsResending, MachineFits, Targeted, CancelFits,
       TypeOK, Tids, TimerKinds
  <1>17. OneFinal'
    BY <1>1, <1>2, <1>3, <1>4, <1>5, <1>6 DEF OneFinal, HeardFits, RetireTimed, Tids, Up,
       NothingHeard
  <1> QED BY <1>7, <1>8, <1>9, <1>10, <1>11, <1>12, <1>13, <1>14, <1>15, <1>16, <1>17

\* A request on the connection its Route names is sent at once.
LEMMA StepRequestOnFlow ==
  ASSUME IInv, NEW method \in {"INVITE", "OTHER"}, NEW reliable \in BOOLEAN,
         RequestOnFlow(method, reliable)
  PROVE  IInv'
  <1> USE DEF IInv
  <1>1. /\ way = "none" /\ tx = [t \in Tids |-> NoTx]
        /\ timers = [t \in Tids |-> [k \in TimerKinds |-> 0]]
        /\ heard = [t \in Tids |-> NothingHeard]
        /\ left = Targets /\ out = {} /\ asked = 0 /\ cancelTo = 0
    BY DEF RequestOnFlow, Fresh
  <1>2. /\ way' \in Ways /\ way' = "flow" /\ out' \subseteq Messages
        /\ UNCHANGED <<left, heard, asked, cancelTo>>
    BY DEF RequestOnFlow, Messages
  <1>3. /\ tx' \in [Tids -> Transaction] /\ tx'["cancel"] = NoTx
        /\ tx'["request"] = [New(Machine(method), FirstState(method))
                               EXCEPT !.target = 1, !.mIsReliable = reliable]
    <2> DEFINE r == New(Machine(method), FirstState(method))
               new == [r EXCEPT !.target = 1, !.mIsReliable = reliable]
    <2>1. new \in Transaction
      <3>1. r \in Transaction
        BY FirstFields
      <3>2. 1 \in 0 .. Targets
        BY ClientAssumption
      <3> HIDE DEF r
      <3> QED BY <3>1, <3>2 DEF Transaction
    <2>2. tx' = [tx EXCEPT !["request"] = new]
      BY DEF RequestOnFlow
    <2> HIDE DEF new
    <2>3. tx' \in [Tids -> Transaction] /\ tx'["request"] = new /\ tx'["cancel"] = tx["cancel"]
      BY <2>1, <2>2 DEF TypeOK, Tids
    <2> QED BY <1>1, <2>3 DEF new, Tids
  <1>4. /\ tx'["request"].machine \in {"ClientInvite", "ClientNonInvite"}
        /\ tx'["request"].machine = "ClientInvite" => tx'["request"].mState = "Calling"
        /\ tx'["request"].machine = "ClientNonInvite" => tx'["request"].mState = "Trying"
        /\ ~tx'["request"].mIsAbandoned /\ ~tx'["request"].mWaitingForDnsResult
        /\ tx'["request"].target = 1 /\ ~tx'["request"].acked
    BY <1>3, FirstFields DEF Machine, FirstState, Transaction
  <1>5. /\ timers' \in Timers
        /\ \A u \in Tids, k \in TimerKinds : k \notin {"A", "E1", "B", "F"} => timers'[u][k] = 0
    <2> DEFINE new == New(Machine(method), FirstState(method))
               armed == Arm(timers, "request", LifeTimer(method))
    <2>1. /\ timers \in Timers /\ "request" \in Tids /\ LifeTimer(method) \in TimerKinds
          /\ LifeTimer(method) \in {"B", "F"}
      BY DEF TypeOK, Timers, Tids, LifeTimer, TimerKinds
    <2>2. new \in Transaction
      BY FirstFields
    <2>3. timers' = processReliability(armed, "request", new, reliable)
      BY DEF RequestOnFlow
    <2>4. armed \in Timers /\ \A u \in Tids, k \in TimerKinds :
            k \notin {"B", "F"} => armed[u][k] = timers[u][k]
      BY <2>1, ArmCounts
    <2> HIDE DEF new, armed
    <2>5. timers' \in Timers /\ \A u \in Tids, k \in TimerKinds :
            k \notin {"A", "E1"} => timers'[u][k] = armed[u][k]
      BY <2>1, <2>2, <2>3, <2>4, ReliabilityEffect
    <2> QED BY <1>1, <2>4, <2>5
  <1>6. /\ NoTx.machine = "None" /\ ~NoTx.mIsAbandoned /\ NoTx.target = 0
        /\ "cancel" \in Tids /\ "request" \in Tids /\ "K" \in TimerKinds /\ "D" \in TimerKinds
    BY DEF NoTx, New, Tids, TimerKinds
  <1>7. TypeOK'
    BY <1>1, <1>2, <1>3, <1>4, <1>5, <1>6 DEF TypeOK, Tids, Timers, Heard, Messages
  <1>8. Fresh'
    BY <1>1, <1>2, <1>3, <1>4, <1>5, <1>6 DEF Fresh
  <1>9. MachineFits'
    BY <1>1, <1>2, <1>3, <1>4, <1>5, <1>6 DEF MachineFits, TypeOK, Tids
  <1>10. Targeted'
    BY <1>1, <1>2, <1>3, <1>4, <1>5, <1>6 DEF Targeted, MachineFits, TypeOK, Tids
  <1>11. DnsInTime'
    BY <1>1, <1>2, <1>3, <1>4, <1>5, <1>6 DEF DnsInTime, Targeted, MachineFits, TypeOK, Tids
  <1>12. CancelFits'
    BY <1>1, <1>2, <1>3, <1>4, <1>5, <1>6 DEF CancelFits, MachineFits, Targeted, TypeOK, Tids
  <1>13. RetireTimed'
    BY <1>1, <1>2, <1>3, <1>4, <1>5, <1>6 DEF RetireTimed, CancelFits, TypeOK, Tids, TimerKinds
  <1>14. HeardFits'
    BY <1>1, <1>2, <1>3, <1>4, <1>5, <1>6 DEF HeardFits, Targeted, MachineFits, DnsInTime, TypeOK,
       Tids, Up, NothingHeard
  <1>15. ResendsTheRightMessage'
    BY <1>1, <1>2, <1>3, <1>4, <1>5, <1>6 DEF ResendsTheRightMessage, MachineFits, Tids
  <1>16. KeepsResending'
    BY <1>1, <1>2, <1>3, <1>4, <1>5, <1>6 DEF KeepsResending, MachineFits, Targeted, CancelFits,
       TypeOK, Tids, TimerKinds
  <1>17. OneFinal'
    BY <1>1, <1>2, <1>3, <1>4, <1>5, <1>6 DEF OneFinal, HeardFits, RetireTimed, Tids, Up,
       NothingHeard
  <1> QED BY <1>7, <1>8, <1>9, <1>10, <1>11, <1>12, <1>13, <1>14, <1>15, <1>16, <1>17

\* A CANCEL the way of the proxy.
LEMMA StepCancel ==
  ASSUME IInv, CancelClientInviteTransaction
  PROVE  IInv'
  <1> DEFINE r == tx["request"]
  <1>1. r \in Transaction /\ asked' \in Nat \ {0} /\ r.machine = "ClientInvite" /\ UNCHANGED <<way, left>>
        /\ tx["cancel"].machine = "None"
    BY DEF IInv, TypeOK, Tids, CancelClientInviteTransaction, CancelFits
  <1>2. CASE r.mState = "Proceeding" /\ handleInternalCancel(r, timers)
    <2>1. ~r.mIsAbandoned /\ r.target > 0
      BY <1>1, <1>2 DEF IInv, CancelFits, MachineFits, TypeOK, Tids, Transaction
    <2> QED BY <1>1, <1>2, <2>1, StepCancelSent
  <1>3. CASE r.mState = "Calling" /\ tx' = [tx EXCEPT !["request"].mIsAbandoned = TRUE]
             /\ UNCHANGED <<timers, out, heard, cancelTo>>
    BY <1>1, <1>3, StepPromised
  <1> QED BY <1>2, <1>3 DEF CancelClientInviteTransaction

\* A CANCEL the way of the dialog usage manager.
LEMMA StepCancelRequest ==
  ASSUME IInv, CancelRequest
  PROVE  IInv'
  <1> DEFINE r == tx["request"]
  <1>1. r \in Transaction /\ asked' \in Nat \ {0} /\ UNCHANGED <<way, left>>
    BY DEF IInv, TypeOK, Tids, CancelRequest
  <1> DEFINE known == tx["cancel"].machine = "None" /\ r.machine \in {"ClientInvite", "ClientStale"}
  <1>2. CASE tx["cancel"].machine # "None" /\ UNCHANGED <<tx, heard, cancelTo>>
             /\ timers' = Arm(timers, "cancel", "F") /\ out' = out \cup {"CANCEL"}
    <2>1. timers \in Timers /\ timers' \in Timers
          /\ \A u \in Tids, k \in TimerKinds :
               /\ timers'[u][k] >= timers[u][k]
               /\ k # "F" => timers'[u][k] = timers[u][k]
      <3>1. timers \in Timers /\ "cancel" \in Tids /\ "F" \in TimerKinds
        BY DEF IInv, TypeOK, Timers, Tids, TimerKinds
      <3>2. /\ Arm(timers, "cancel", "F") \in Timers
            /\ \A u \in Tids, k \in TimerKinds :
                 Arm(timers, "cancel", "F")[u][k] =
                   IF u = "cancel" /\ k = "F" THEN timers[u][k] + 1 ELSE timers[u][k]
        BY <3>1, ArmCounts
      <3>3. \A u \in Tids, k \in TimerKinds : timers[u][k] \in Nat
        BY <3>1 DEF Timers
      <3> QED BY <1>2, <3>1, <3>2, <3>3
    <2>2. TypeOK'
      BY <1>1, <1>2, <2>1 DEF IInv, TypeOK, Timers
    <2>3. Fresh' /\ MachineFits' /\ DnsInTime' /\ HeardFits' /\ ResendsTheRightMessage' /\ OneFinal'
      BY <1>1, <1>2
      DEF IInv, Fresh, NoTx, New, MachineFits, DnsInTime, HeardFits, ResendsTheRightMessage,
          OneFinal, Tids
    <2>4. Targeted' /\ CancelFits'
      BY <1>1, <1>2 DEF IInv, Targeted, CancelFits
    <2>5. RetireTimed' /\ KeepsResending'
      BY <1>1, <1>2, <2>1
      DEF IInv, RetireTimed, KeepsResending, TypeOK, Timers, Tids, TimerKinds
    <2> QED BY <2>2, <2>3, <2>4, <2>5 DEF IInv
  <1>3. CASE known /\ r.mState = "Calling"
             /\ tx' = [tx EXCEPT !["request"].mIsAbandoned = TRUE]
             /\ UNCHANGED <<timers, out, heard, cancelTo>>
    BY <1>1, <1>3, StepPromised
  <1>4. CASE known /\ r.mState = "Completed"
             /\ UNCHANGED <<tx, timers, out, heard, cancelTo>>
    BY <1>1, <1>4
    DEF IInv, TypeOK, Fresh, NoTx, New, MachineFits, DnsInTime, HeardFits, ResendsTheRightMessage,
        OneFinal, Targeted, CancelFits, RetireTimed, KeepsResending, Tids
  <1>5. CASE known /\ r.mState = "Proceeding"
             /\ handleInternalCancel(r, timers)
    <2>1. ~r.mIsAbandoned /\ r.target > 0
      BY <1>1, <1>5 DEF IInv, CancelFits, MachineFits, TypeOK, Tids, Transaction
    <2> QED BY <1>1, <1>5, <2>1, StepCancelSent
  <1> QED BY <1>2, <1>3, <1>4, <1>5 DEF CancelRequest

\* A timer that gives the user a 408.
LEMMA StepExpire ==
  ASSUME IInv, NEW t \in Tids, NEW k \in TimerKinds, Expire(t, k)
  PROVE  IInv'
  <1>1. /\ k \in {"B", "F", "CleanUp"} /\ timers[t][k] > 0 /\ Give408Or503(t)
        /\ tx[t].machine \in {"ClientInvite", "ClientNonInvite"} /\ tx[t].mState # "Completed"
        /\ timers' = Consume(timers, t, k) /\ UNCHANGED <<out, way, left, asked, cancelTo>>
    BY DEF Expire, reacts, machineOf, statesOf
  <1>2. timers' \in Timers
        /\ \A u \in Tids, j \in TimerKinds \ {"B", "F", "CleanUp"} : timers'[u][j] = timers[u][j]
    BY <1>1 DEF IInv, TypeOK, Timers, Consume
  <1>3. out' \subseteq Messages
    BY <1>1 DEF IInv, TypeOK, Messages
  <1> QED BY <1>1, <1>2, <1>3, StepGivenUp

\* A provisional response starts the slower resending of a request that is not an INVITE.
LEMMA StepProvisionalToNonInvite ==
  ASSUME IInv, NEW t \in Tids, ProvisionalToNonInvite(t)
  PROVE  IInv'
  <1> USE ClientAssumption DEF IInv, TypeOK, Transaction, Tids, TimerKinds,
                               ProvisionalToNonInvite, Arm
  <1>1. TypeOK'
    BY DEF Machines, States
  <1>2. Fresh'
    BY DEF Fresh, NoTx, New
  <1>3. MachineFits'
    BY DEF MachineFits
  <1>4. Targeted'
    BY DEF Targeted
  <1>5. DnsInTime'
    BY DEF DnsInTime, Targeted
  <1>6. CancelFits'
    BY DEF CancelFits, MachineFits, Targeted
  <1>7. RetireTimed'
    BY DEF RetireTimed, MachineFits, CancelFits
  <1>8. HeardFits'
    BY DEF HeardFits, MachineFits, Targeted, DnsInTime, OneFinal
  <1>9. ResendsTheRightMessage'
    BY DEF ResendsTheRightMessage, MachineFits
  <1>10. KeepsResending'
    BY DEF KeepsResending, MachineFits, Targeted, DnsInTime
  <1>11. OneFinal'
    BY DEF OneFinal, HeardFits, MachineFits, RetireTimed
  <1> QED BY <1>1, <1>2, <1>3, <1>4, <1>5, <1>6, <1>7, <1>8, <1>9, <1>10, <1>11

\* A 2xx leaves a transaction that only passes further 2xx up.
LEMMA StepSuccess ==
  ASSUME IInv, SuccessToInvite
  PROVE  IInv'
  <1> USE ClientAssumption DEF IInv, TypeOK, Transaction, Tids, TimerKinds,
                               SuccessToInvite, stale, Arm
  <1>1. TypeOK'
    <2> DEFINE r == stale(tx["request"])
    <2>1. r \in Transaction
      <3>1. tx["request"] \in Transaction
        OBVIOUS
      <3> QED BY <3>1 DEF Machines
    <2>2. tx' = [tx EXCEPT !["request"] = r]
      BY DEF SuccessToInvite
    <2>3. tx' \in [Tids -> Transaction]
      <3> HIDE DEF r, Transaction
      <3> QED BY <2>1, <2>2
    <2>4. heard' \in [Tids -> [finals : 0 .. 2, ok : BOOLEAN, over : 0 .. 2]]
      BY ZenonT(60) DEF SuccessToInvite
    <2>5. timers' \in [Tids -> [TimerKinds -> Nat]]
      BY ArmCounts DEF Timers
    <2> QED BY <2>3, <2>4, <2>5
  <1>2. Fresh'
    BY DEF Fresh, NoTx, New
  <1>3. MachineFits'
    BY DEF MachineFits
  <1>4. Targeted'
    BY DEF Targeted
  <1>5. DnsInTime'
    BY DEF DnsInTime, Targeted
  <1>6. CancelFits'
    BY DEF CancelFits, MachineFits, Targeted
  <1>7. RetireTimed'
    BY DEF RetireTimed, MachineFits, CancelFits
  <1>8. HeardFits'
    BY DEF HeardFits, MachineFits, Targeted, DnsInTime, OneFinal
  <1>9. ResendsTheRightMessage'
    BY DEF ResendsTheRightMessage, MachineFits
  <1>10. KeepsResending'
    BY DEF KeepsResending, MachineFits, Targeted, DnsInTime
  <1>11. OneFinal'
    BY DEF OneFinal, HeardFits, MachineFits, RetireTimed
  <1> QED BY <1>1, <1>2, <1>3, <1>4, <1>5, <1>6, <1>7, <1>8, <1>9, <1>10, <1>11

\* A timer that sends the request again.
LEMMA StepRetransmit ==
  ASSUME IInv, NEW t \in Tids, NEW k \in TimerKinds, Retransmit(t, k)
  PROVE  IInv'
  <1> USE ClientAssumption DEF IInv, TypeOK, Transaction, Tids, TimerKinds,
                               Retransmit, reacts, machineOf, statesOf, mMsgToRetransmit
  <1>1. TypeOK'
    BY DEF Machines, States
  <1>2. Fresh'
    BY DEF Fresh, NoTx, New
  <1>3. MachineFits'
    BY DEF MachineFits
  <1>4. Targeted'
    BY DEF Targeted
  <1>5. DnsInTime'
    BY DEF DnsInTime, Targeted
  <1>6. CancelFits'
    BY DEF CancelFits, MachineFits, Targeted
  <1>7. RetireTimed'
    BY DEF RetireTimed, MachineFits, CancelFits
  <1>8. HeardFits'
    BY DEF HeardFits, MachineFits, Targeted, DnsInTime, OneFinal
  <1>9. ResendsTheRightMessage'
    BY DEF ResendsTheRightMessage, MachineFits
  <1>10. KeepsResending'
    BY DEF KeepsResending, MachineFits, Targeted, DnsInTime
  <1>11. OneFinal'
    BY DEF OneFinal, HeardFits, MachineFits, RetireTimed
  <1> QED BY <1>1, <1>2, <1>3, <1>4, <1>5, <1>6, <1>7, <1>8, <1>9, <1>10, <1>11

\* The handlers of timers D and K test no state: RetireTimed says that the
\* answer was given.
LEMMA StepRetire ==
  ASSUME IInv, NEW t \in Tids, NEW k \in TimerKinds, Retire(t, k)
  PROVE  IInv'
  <1> USE ClientAssumption DEF IInv, TypeOK, Transaction, Tids, TimerKinds,
                               Retire, reacts, machineOf, statesOf, NoTx, New, Consume, Up,
                                 terminateClientTransaction
  <1>1. TypeOK'
    BY DEF Machines, States
  <1>2. Fresh'
    BY DEF Fresh, NoTx, New
  <1>3. MachineFits'
    BY DEF MachineFits
  <1>4. Targeted'
    BY DEF Targeted
  <1>5. DnsInTime'
    BY DEF DnsInTime, Targeted
  <1>6. CancelFits'
    BY DEF CancelFits, MachineFits, Targeted
  <1>7. RetireTimed'
    BY DEF RetireTimed, MachineFits, CancelFits
  <1>8. HeardFits'
    BY DEF HeardFits, MachineFits, Targeted, DnsInTime, OneFinal
  <1>9. ResendsTheRightMessage'
    BY DEF ResendsTheRightMessage, MachineFits
  <1>10. KeepsResending'
    BY DEF KeepsResending, MachineFits, Targeted, DnsInTime
  <1>11. OneFinal'
    BY DEF OneFinal, HeardFits, MachineFits, RetireTimed
  <1> QED BY <1>1, <1>2, <1>3, <1>4, <1>5, <1>6, <1>7, <1>8, <1>9, <1>10, <1>11

\* A timer without effect is not one that KeepsResending counts on.
LEMMA StepIgnore ==
  ASSUME IInv, NEW t \in Tids, NEW k \in TimerKinds, Ignore(t, k)
  PROVE  IInv'
  <1> USE ClientAssumption DEF IInv, TypeOK, Transaction, Tids, TimerKinds,
                               Ignore, reacts, machineOf, statesOf, Consume
  <1>1. TypeOK'
    BY DEF Machines, States
  <1>2. Fresh'
    BY DEF Fresh, NoTx, New
  <1>3. MachineFits'
    BY DEF MachineFits
  <1>4. Targeted'
    BY DEF Targeted
  <1>5. DnsInTime'
    BY DEF DnsInTime, Targeted
  <1>6. CancelFits'
    BY DEF CancelFits, MachineFits, Targeted
  <1>7. RetireTimed'
    BY DEF RetireTimed, MachineFits, CancelFits
  <1>8. HeardFits'
    BY DEF HeardFits, MachineFits, Targeted, DnsInTime, OneFinal
  <1>9. ResendsTheRightMessage'
    BY DEF ResendsTheRightMessage, MachineFits
  <1>10. KeepsResending'
    BY DEF KeepsResending, MachineFits, Targeted, DnsInTime
  <1>11. OneFinal'
    BY DEF OneFinal, HeardFits, MachineFits, RetireTimed
  <1> QED BY <1>1, <1>2, <1>3, <1>4, <1>5, <1>6, <1>7, <1>8, <1>9, <1>10, <1>11

\* The transport has written a message.
LEMMA StepDelivered ==
  ASSUME IInv, NEW m \in {"INVITE", "CANCEL", "ACK", "OTHER"}, Delivered(m)
  PROVE  IInv'
  <1> USE ClientAssumption DEF IInv, TypeOK, Transaction, Tids, TimerKinds,
                               Delivered
  <1>1. TypeOK'
    BY DEF Machines, States
  <1>2. Fresh'
    BY DEF Fresh, NoTx, New
  <1>3. MachineFits'
    BY DEF MachineFits
  <1>4. Targeted'
    BY DEF Targeted
  <1>5. DnsInTime'
    BY DEF DnsInTime, Targeted
  <1>6. CancelFits'
    BY DEF CancelFits, MachineFits, Targeted
  <1>7. RetireTimed'
    BY DEF RetireTimed, MachineFits, CancelFits
  <1>8. HeardFits'
    BY DEF HeardFits, MachineFits, Targeted, DnsInTime, OneFinal
  <1>9. ResendsTheRightMessage'
    BY DEF ResendsTheRightMessage, MachineFits
  <1>10. KeepsResending'
    BY DEF KeepsResending, MachineFits, Targeted, DnsInTime
  <1>11. OneFinal'
    BY DEF OneFinal, HeardFits, MachineFits, RetireTimed
  <1> QED BY <1>1, <1>2, <1>3, <1>4, <1>5, <1>6, <1>7, <1>8, <1>9, <1>10, <1>11

\* The first final answer is told, a repeated one is not.
LEMMA ToldEffect ==
  ASSUME TypeOK, NEW t \in Tids, NEW h,
         h = IF firstFinal(tx[t]) THEN sendToTU(heard, t) ELSE heard,
         tx[t].mState \in {"Trying", "Calling", "Proceeding", "Completed"}
  PROVE  /\ h \in [Tids -> Heard]
         /\ h[t].finals = IF tx[t].mState = "Completed" THEN heard[t].finals
                                                        ELSE Up(heard[t].finals)
         /\ h[t].ok = heard[t].ok /\ h[t].over = heard[t].over
         /\ \A u \in Tids \ {t} : h[u] = heard[u]
  <1>1. heard \in [Tids -> Heard] /\ heard[t] \in Heard
    BY DEF TypeOK, Heard
  <1>2. Up(heard[t].finals) \in 0 .. 2
    BY <1>1 DEF Up, Heard
  <1> DEFINE told == [heard[t] EXCEPT !.finals = Up(@)]
  <1>3. told \in Heard /\ told.finals = Up(heard[t].finals) /\ told.ok = heard[t].ok
        /\ told.over = heard[t].over
    BY <1>1, <1>2 DEF Heard
  <1>4. sendToTU(heard, t) = [heard EXCEPT ![t] = told]
    BY <1>1 DEF sendToTU
  <1> HIDE DEF told
  <1> QED BY <1>1, <1>3, <1>4 DEF firstFinal

\* One more report of the end.
LEMMA TerminateEffect ==
  ASSUME NEW h \in [Tids -> Heard], NEW t \in Tids
  PROVE  LET g == terminateClientTransaction(h, t)
         IN /\ g \in [Tids -> Heard]
            /\ g[t].finals = h[t].finals /\ g[t].ok = h[t].ok /\ g[t].over = Up(h[t].over)
            /\ \A u \in Tids \ {t} : g[u] = h[u]
  <1>1. Up(h[t].over) \in 0 .. 2 /\ h[t] \in Heard
    BY DEF Up, Heard
  <1> DEFINE gone == [h[t] EXCEPT !.over = Up(@)]
  <1>2. gone \in Heard /\ gone.finals = h[t].finals /\ gone.ok = h[t].ok /\ gone.over = Up(h[t].over)
    BY <1>1 DEF Heard
  <1>3. terminateClientTransaction(h, t) = [h EXCEPT ![t] = gone]
    BY DEF terminateClientTransaction
  <1> HIDE DEF gone
  <1> QED BY <1>2, <1>3

\* A final response on a reliable transport ends the transaction at once.
LEMMA StepFinalEnds ==
  ASSUME IInv, NEW t \in Tids, FinalToNonInvite(t), tx[t].mIsReliable
  PROVE  IInv'
  <1> USE DEF IInv
  <1>1. way # "none"
    BY DEF Fresh, NoTx, New, Tids, FinalToNonInvite
  <1>2. /\ tx[t].machine = "ClientNonInvite" /\ tx[t].mState \in {"Trying", "Proceeding", "Completed"}
        /\ UNCHANGED <<timers, out, way, left, asked, cancelTo>>
    BY DEF FinalToNonInvite, MachineFits, TypeOK
  <1>3. tx' \in [Tids -> Transaction] /\ tx'[t] = NoTx /\ \A u \in Tids \ {t} : tx'[u] = tx[u]
    <2>1. NoTx \in Transaction
      BY ClientAssumption DEF NoTx, New, Transaction, Machines, States
    <2>2. tx' = [tx EXCEPT ![t] = NoTx]
      BY DEF FinalToNonInvite
    <2> QED BY <2>1, <2>2 DEF TypeOK
  <1>4. /\ heard' \in [Tids -> Heard]
        /\ heard'[t].finals = IF tx[t].mState = "Completed" THEN heard[t].finals
                                                            ELSE Up(heard[t].finals)
        /\ heard'[t].ok = heard[t].ok
        /\ \A u \in Tids \ {t} : heard'[u] = heard[u] /\ heard'[t].over = Up(heard[t].over)
    <2> DEFINE told == IF firstFinal(tx[t]) THEN sendToTU(heard, t) ELSE heard
    <2>1. heard' = terminateClientTransaction(told, t)
      BY DEF FinalToNonInvite
    <2>2. /\ told \in [Tids -> Heard]
          /\ told[t].finals = IF tx[t].mState = "Completed" THEN heard[t].finals
                                                            ELSE Up(heard[t].finals)
          /\ told[t].ok = heard[t].ok /\ told[t].over = heard[t].over
          /\ \A u \in Tids \ {t} : told[u] = heard[u]
      BY <1>2, ToldEffect
    <2> HIDE DEF told
    <2> QED BY <2>1, <2>2, TerminateEffect
  <1>5. /\ NoTx.machine = "None" /\ ~NoTx.mIsAbandoned /\ NoTx.target = 0 /\ NoTx.mIsReliable
        /\ ~NoTx.mWaitingForDnsResult /\ NoTx.mState # "Completed" 
    BY DEF NoTx, New
  <1>6. TypeOK'
    BY <1>1, <1>2, <1>3, <1>4, <1>5 DEF TypeOK, Tids, Timers, Heard, Messages
  <1>7. Fresh'
    BY <1>1, <1>2, <1>3, <1>4, <1>5 DEF Fresh
  <1>8. MachineFits'
    BY <1>1, <1>2, <1>3, <1>4, <1>5 DEF MachineFits, TypeOK, Tids
  <1>9. Targeted'
    BY <1>1, <1>2, <1>3, <1>4, <1>5 DEF Targeted, MachineFits, TypeOK, Tids
  <1>10. DnsInTime'
    BY <1>1, <1>2, <1>3, <1>4, <1>5 DEF DnsInTime, Targeted, MachineFits, TypeOK, Tids
  <1>11. CancelFits'
    BY <1>1, <1>2, <1>3, <1>4, <1>5 DEF CancelFits, MachineFits, Targeted, TypeOK, Tids
  <1>12. RetireTimed'
    BY <1>1, <1>2, <1>3, <1>4, <1>5 DEF RetireTimed, CancelFits, TypeOK, Tids, TimerKinds
  <1>13. HeardFits'
    BY <1>1, <1>2, <1>3, <1>4, <1>5 DEF HeardFits, Targeted, MachineFits, DnsInTime, TypeOK, Tids,
       Up, NothingHeard
  <1>14. ResendsTheRightMessage'
    BY <1>1, <1>2, <1>3, <1>4, <1>5 DEF ResendsTheRightMessage, MachineFits, Tids
  <1>15. KeepsResending'
    BY <1>1, <1>2, <1>3, <1>4, <1>5 DEF KeepsResending, MachineFits, Targeted, CancelFits, TypeOK,
       Tids, TimerKinds
  <1>16. OneFinal'
    BY <1>1, <1>2, <1>3, <1>4, <1>5 DEF OneFinal, HeardFits, RetireTimed, Tids, Up, NothingHeard
  <1> QED BY <1>6, <1>7, <1>8, <1>9, <1>10, <1>11, <1>12, <1>13, <1>14, <1>15, <1>16

\* A final response on an unreliable transport is kept until timer K.
LEMMA StepFinalKept ==
  ASSUME IInv, NEW t \in Tids, FinalToNonInvite(t), ~tx[t].mIsReliable
  PROVE  IInv'
  <1> USE DEF IInv
  <1>1. way # "none"
    BY DEF Fresh, NoTx, New, Tids, FinalToNonInvite
  <1>2. /\ tx[t].machine = "ClientNonInvite" /\ tx[t].mState \in {"Trying", "Proceeding", "Completed"}
        /\ tx[t].target > 0 /\ tx[t] \in Transaction
        /\ UNCHANGED <<out, way, left, asked, cancelTo>>
    BY DEF FinalToNonInvite, MachineFits, TypeOK
  <1>3. /\ tx' \in [Tids -> Transaction]
        /\ tx'[t].machine = tx[t].machine /\ tx'[t].mState = "Completed"
        /\ tx'[t].mIsAbandoned = tx[t].mIsAbandoned /\ ~tx'[t].mIsReliable
        /\ tx'[t].mWaitingForDnsResult = tx[t].mWaitingForDnsResult
        /\ tx'[t].target = tx[t].target /\ tx'[t].acked = tx[t].acked
        /\ \A u \in Tids \ {t} : tx'[u] = tx[u]
    <2> DEFINE r == [tx[t] EXCEPT !.mState = "Completed"]
    <2>1. /\ r \in Transaction /\ r.machine = tx[t].machine /\ r.mState = "Completed"
          /\ r.mIsAbandoned = tx[t].mIsAbandoned /\ r.mIsReliable = tx[t].mIsReliable
          /\ r.mWaitingForDnsResult = tx[t].mWaitingForDnsResult
          /\ r.target = tx[t].target /\ r.acked = tx[t].acked
      BY <1>2 DEF Transaction, States
    <2>2. tx' = [tx EXCEPT ![t] = r]
      BY <1>2 DEF FinalToNonInvite, TypeOK
    <2> HIDE DEF r
    <2>3. tx' \in [Tids -> Transaction] /\ tx'[t] = r /\ \A u \in Tids \ {t} : tx'[u] = tx[u]
      BY <2>1, <2>2 DEF TypeOK
    <2> QED BY <2>1, <2>3
  <1>4. /\ heard' \in [Tids -> Heard]
        /\ heard'[t].finals = IF tx[t].mState = "Completed" THEN heard[t].finals
                                                            ELSE Up(heard[t].finals)
        /\ heard'[t].ok = heard[t].ok
        /\ \A u \in Tids \ {t} : heard'[u] = heard[u] /\ heard'[t].over = heard[t].over
    BY <1>2, ToldEffect DEF FinalToNonInvite
  <1>5. /\ timers' \in Timers
        /\ \A u \in Tids, k \in TimerKinds :
             timers'[u][k] = IF u = t /\ k = "K" /\ tx[t].mState # "Completed"
                             THEN timers[u][k] + 1 ELSE timers[u][k]
    <2>1. timers \in Timers /\ "K" \in TimerKinds
      BY DEF TypeOK, Timers, TimerKinds
    <2>2. timers' = IF tx[t].mState # "Completed" THEN Arm(timers, t, "K") ELSE timers
      BY DEF FinalToNonInvite
    <2> QED BY <2>1, <2>2, ArmCounts
  <1>6. TypeOK'
    BY <1>1, <1>2, <1>3, <1>4, <1>5 DEF TypeOK, Tids, Timers, Heard, Messages
  <1>7. Fresh'
    BY <1>1, <1>2, <1>3, <1>4, <1>5 DEF Fresh
  <1>8. MachineFits'
    BY <1>1, <1>2, <1>3, <1>4, <1>5 DEF MachineFits, TypeOK, Tids
  <1>9. Targeted'
    BY <1>1, <1>2, <1>3, <1>4, <1>5 DEF Targeted, MachineFits, TypeOK, Tids
  <1>10. DnsInTime'
    BY <1>1, <1>2, <1>3, <1>4, <1>5 DEF DnsInTime, Targeted, MachineFits, TypeOK, Tids
  <1>11. CancelFits'
    BY <1>1, <1>2, <1>3, <1>4, <1>5 DEF CancelFits, MachineFits, Targeted, TypeOK, Tids
  <1>12. RetireTimed'
    BY <1>1, <1>2, <1>3, <1>4, <1>5 DEF RetireTimed, CancelFits, TypeOK, Tids, TimerKinds
  <1>13. HeardFits'
    BY <1>1, <1>2, <1>3, <1>4, <1>5 DEF HeardFits, Targeted, MachineFits, DnsInTime, TypeOK, Tids,
       Up, NothingHeard
  <1>14. ResendsTheRightMessage'
    BY <1>1, <1>2, <1>3, <1>4, <1>5 DEF ResendsTheRightMessage, MachineFits, Tids
  <1>15. KeepsResending'
    BY <1>1, <1>2, <1>3, <1>4, <1>5 DEF KeepsResending, MachineFits, Targeted, CancelFits, TypeOK,
       Tids, TimerKinds
  <1>16. OneFinal'
    BY <1>1, <1>2, <1>3, <1>4, <1>5 DEF OneFinal, HeardFits, RetireTimed, Tids, Up, NothingHeard
  <1> QED BY <1>6, <1>7, <1>8, <1>9, <1>10, <1>11, <1>12, <1>13, <1>14, <1>15, <1>16

\* A final response to a request that is not an INVITE.
LEMMA StepFinalToNonInvite ==
  ASSUME IInv, NEW t \in Tids, FinalToNonInvite(t)
  PROVE  IInv'
  BY StepFinalEnds, StepFinalKept

\* The first provisional response to an INVITE that nobody cancelled.
LEMMA StepProceeds ==
  ASSUME IInv, tx["request"].machine = "ClientInvite", tx["request"].target > 0,
         tx["request"].mState \in {"Calling", "Proceeding"}, ~tx["request"].mIsAbandoned,
         tx' = [tx EXCEPT !["request"].mState = "Proceeding"],
         UNCHANGED <<timers, out, way, left, heard, asked, cancelTo>>
  PROVE  IInv'
  <1> USE DEF IInv
  <1>1. way # "none"
    BY DEF Fresh, NoTx, New, Tids
  <1>2. /\ tx' \in [Tids -> Transaction] /\ tx'["cancel"] = tx["cancel"]
        /\ tx'["request"].machine = tx["request"].machine /\ tx'["request"].mState = "Proceeding"
        /\ ~tx'["request"].mIsAbandoned /\ tx'["request"].mIsReliable = tx["request"].mIsReliable
        /\ tx'["request"].mWaitingForDnsResult = tx["request"].mWaitingForDnsResult
        /\ tx'["request"].target = tx["request"].target /\ tx'["request"].acked = tx["request"].acked
    <2> DEFINE r == [tx["request"] EXCEPT !.mState = "Proceeding"]
    <2>1. tx["request"] \in Transaction
      BY DEF TypeOK, Tids
    <2>2. /\ r \in Transaction /\ r.machine = tx["request"].machine /\ r.mState = "Proceeding"
          /\ r.mIsAbandoned = tx["request"].mIsAbandoned /\ r.mIsReliable = tx["request"].mIsReliable
          /\ r.mWaitingForDnsResult = tx["request"].mWaitingForDnsResult
          /\ r.target = tx["request"].target /\ r.acked = tx["request"].acked
      BY <2>1 DEF Transaction, States
    <2>3. tx' = [tx EXCEPT !["request"] = r]
      BY DEF TypeOK
    <2> HIDE DEF r
    <2>4. tx' \in [Tids -> Transaction] /\ tx'["request"] = r /\ tx'["cancel"] = tx["cancel"]
      BY <2>2, <2>3 DEF TypeOK, Tids
    <2> QED BY <2>2, <2>4
  <1>3. TypeOK'
    BY <1>1, <1>2 DEF TypeOK, Tids, Timers, Heard, Messages
  <1>4. Fresh'
    BY <1>1, <1>2 DEF Fresh
  <1>5. MachineFits'
    BY <1>1, <1>2 DEF MachineFits, TypeOK, Tids
  <1>6. Targeted'
    BY <1>1, <1>2 DEF Targeted, MachineFits, TypeOK, Tids
  <1>7. DnsInTime'
    BY <1>1, <1>2 DEF DnsInTime, Targeted, MachineFits, TypeOK, Tids
  <1>8. CancelFits'
    BY <1>1, <1>2 DEF CancelFits, MachineFits, Targeted, TypeOK, Tids
  <1>9. RetireTimed'
    BY <1>1, <1>2 DEF RetireTimed, CancelFits, TypeOK, Tids, TimerKinds
  <1>10. HeardFits'
    BY <1>1, <1>2 DEF HeardFits, Targeted, MachineFits, DnsInTime, TypeOK, Tids, Up, NothingHeard
  <1>11. ResendsTheRightMessage'
    BY <1>1, <1>2 DEF ResendsTheRightMessage, MachineFits, Tids
  <1>12. KeepsResending'
    BY <1>1, <1>2 DEF KeepsResending, MachineFits, Targeted, CancelFits, TypeOK, Tids, TimerKinds
  <1>13. OneFinal'
    BY <1>1, <1>2 DEF OneFinal, HeardFits, RetireTimed, Tids, Up, NothingHeard
  <1> QED BY <1>3, <1>4, <1>5, <1>6, <1>7, <1>8, <1>9, <1>10, <1>11, <1>12, <1>13

\* A provisional response to an INVITE.
LEMMA StepProvisionalToInvite ==
  ASSUME IInv, ProvisionalToInvite
  PROVE  IInv'
  <1> DEFINE r == tx["request"]
             invite == [r EXCEPT !.mState = "Proceeding", !.mIsAbandoned = FALSE]
  <1>1. /\ r \in Transaction /\ r.machine = "ClientInvite" /\ r.target > 0
        /\ r.mState \in {"Calling", "Proceeding"} /\ UNCHANGED <<way, left, asked>>
    BY DEF IInv, TypeOK, Tids, ProvisionalToInvite
  <1>2. CASE r.mIsAbandoned /\ handleInternalCancel(invite, timers)
    <2>1. tx["cancel"].machine = "None" /\ asked' \in Nat \ {0}
      BY <1>1, <1>2 DEF IInv, CancelFits, TypeOK
    <2>2. /\ invite \in Transaction /\ invite.machine = r.machine /\ invite.mState = "Proceeding"
          /\ ~invite.mIsAbandoned /\ invite.target = r.target /\ invite.mIsReliable = r.mIsReliable
          /\ invite.mWaitingForDnsResult = r.mWaitingForDnsResult /\ invite.acked = r.acked
      <3> HIDE DEF r
      <3> QED BY <1>1 DEF Transaction, States
    <2> HIDE DEF invite
    <2> QED BY <1>1, <1>2, <2>1, <2>2, StepCancelSent
  <1>3. CASE ~r.mIsAbandoned /\ tx' = [tx EXCEPT !["request"].mState = "Proceeding"]
             /\ UNCHANGED <<timers, out, heard, cancelTo>>
    BY <1>1, <1>3, StepProceeds
  <1> QED BY <1>2, <1>3 DEF ProvisionalToInvite, abandoned

\* A failure that is acknowledged is kept until timer D, its ACK for resending.
LEMMA StepCompleted ==
  ASSUME IInv, tx["request"].machine = "ClientInvite", tx["request"].target > 0,
         ~tx["request"].mIsReliable, firstFinal(tx["request"]),
         tx' = [tx EXCEPT !["request"] = completed(@)],
         heard' = sendToTU(heard, "request"), timers' = Arm(timers, "request", "D"),
         out' = out \cup {"ACK"}, UNCHANGED <<way, left, asked, cancelTo>>
  PROVE  IInv'
  <1> USE DEF IInv
  <1>1. way # "none"
    BY DEF Fresh, NoTx, New, Tids
  <1>2. /\ tx' \in [Tids -> Transaction] /\ tx'["cancel"] = tx["cancel"]
        /\ tx'["request"].machine = "ClientInvite" /\ tx'["request"].mState = "Completed"
        /\ ~tx'["request"].mIsAbandoned /\ ~tx'["request"].mIsReliable
        /\ tx'["request"].mWaitingForDnsResult = tx["request"].mWaitingForDnsResult
        /\ tx'["request"].target = tx["request"].target /\ tx'["request"].acked
    <2> DEFINE q == tx["request"]
               r == completed(q)
    <2>1. q \in Transaction
      BY DEF TypeOK, Tids
    <2>2. /\ r \in Transaction /\ r.machine = q.machine /\ r.mState = "Completed"
          /\ ~r.mIsAbandoned /\ r.mIsReliable = q.mIsReliable
          /\ r.mWaitingForDnsResult = q.mWaitingForDnsResult
          /\ r.target = q.target /\ r.acked
      <3> HIDE DEF q
      <3> QED BY <2>1 DEF Transaction, States, completed
    <2>3. tx' = [tx EXCEPT !["request"] = r]
      OBVIOUS
    <2> HIDE DEF r
    <2>4. tx' \in [Tids -> Transaction] /\ tx'["request"] = r /\ tx'["cancel"] = tx["cancel"]
      BY <2>2, <2>3 DEF TypeOK, Tids
    <2> QED BY <2>2, <2>4
  <1>3. /\ timers' \in Timers
        /\ \A u \in Tids, k \in TimerKinds :
             timers'[u][k] = IF u = "request" /\ k = "D" THEN timers[u][k] + 1 ELSE timers[u][k]
    <2>1. timers \in Timers /\ "request" \in Tids /\ "D" \in TimerKinds
      BY DEF TypeOK, Timers, Tids, TimerKinds
    <2> QED BY <2>1, ArmCounts
  <1>4. /\ heard' \in [Tids -> Heard]
        /\ heard'["request"].finals = Up(heard["request"].finals)
        /\ heard'["request"].ok = heard["request"].ok
        /\ heard'["request"].over = heard["request"].over
        /\ heard'["cancel"] = heard["cancel"]
    BY ToldEffect DEF Tids, firstFinal
  <1>5. /\ out' \subseteq Messages
        /\ way \in {"dns", "slowDns"} => left # Targets
        /\ tx["request"].mState # "Completed" /\ asked' \in Nat
    BY DEF Messages, TypeOK, Targeted, firstFinal, Tids
  <1>6. TypeOK'
    BY <1>1, <1>2, <1>3, <1>4, <1>5 DEF TypeOK, Tids, Timers, Heard, Messages
  <1>7. Fresh'
    BY <1>1, <1>2, <1>3, <1>4, <1>5 DEF Fresh
  <1>8. MachineFits'
    BY <1>1, <1>2, <1>3, <1>4, <1>5 DEF MachineFits, TypeOK, Tids
  <1>9. Targeted'
    BY <1>1, <1>2, <1>3, <1>4, <1>5 DEF Targeted, MachineFits, TypeOK, Tids
  <1>10. DnsInTime'
    BY <1>1, <1>2, <1>3, <1>4, <1>5 DEF DnsInTime, Targeted, MachineFits, TypeOK, Tids
  <1>11. CancelFits'
    BY <1>1, <1>2, <1>3, <1>4, <1>5 DEF CancelFits, MachineFits, Targeted, TypeOK, Tids
  <1>12. RetireTimed'
    BY <1>1, <1>2, <1>3, <1>4, <1>5 DEF RetireTimed, CancelFits, TypeOK, Tids, TimerKinds
  <1>13. HeardFits'
    BY <1>1, <1>2, <1>3, <1>4, <1>5 DEF HeardFits, Targeted, MachineFits, DnsInTime, TypeOK, Tids,
       Up, NothingHeard
  <1>14. ResendsTheRightMessage'
    BY <1>1, <1>2, <1>3, <1>4, <1>5 DEF ResendsTheRightMessage, MachineFits, Tids
  <1>15. KeepsResending'
    BY <1>1, <1>2, <1>3, <1>4, <1>5 DEF KeepsResending, MachineFits, Targeted, CancelFits, TypeOK,
       Tids, TimerKinds
  <1>16. OneFinal'
    BY <1>1, <1>2, <1>3, <1>4, <1>5 DEF OneFinal, HeardFits, RetireTimed, Tids, Up, NothingHeard
  <1> QED BY <1>6, <1>7, <1>8, <1>9, <1>10, <1>11, <1>12, <1>13, <1>14, <1>15, <1>16

\* Messages come to or go from a transport, and nothing else changes.
LEMMA StepSentOnly ==
  ASSUME IInv, way # "none", out' \subseteq Messages,
         way \in {"dns", "slowDns"} /\ left = Targets => out' \subseteq out,
         UNCHANGED <<tx, timers, way, left, heard, asked, cancelTo>>
  PROVE  IInv'
  <1> USE DEF IInv
  <1>1. way' # "none"
    OBVIOUS
  <1>2. TypeOK'
    BY <1>1 DEF TypeOK, Tids, Timers, Heard, Messages
  <1>3. Fresh'
    BY <1>1 DEF Fresh
  <1>4. MachineFits'
    BY <1>1 DEF MachineFits, TypeOK, Tids
  <1>5. Targeted'
    BY <1>1 DEF Targeted, MachineFits, TypeOK, Tids
  <1>6. DnsInTime'
    BY <1>1 DEF DnsInTime, Targeted, MachineFits, TypeOK, Tids
  <1>7. CancelFits'
    BY <1>1 DEF CancelFits, MachineFits, Targeted, TypeOK, Tids
  <1>8. RetireTimed'
    BY <1>1 DEF RetireTimed, CancelFits, TypeOK, Tids, TimerKinds
  <1>9. HeardFits'
    BY <1>1 DEF HeardFits, Targeted, MachineFits, DnsInTime, TypeOK, Tids, Up, NothingHeard
  <1>10. ResendsTheRightMessage'
    BY <1>1 DEF ResendsTheRightMessage, MachineFits, Tids
  <1>11. KeepsResending'
    BY <1>1 DEF KeepsResending, MachineFits, Targeted, CancelFits, TypeOK, Tids, TimerKinds
  <1>12. OneFinal'
    BY <1>1 DEF OneFinal, HeardFits, RetireTimed, Tids, Up, NothingHeard
  <1> QED BY <1>2, <1>3, <1>4, <1>5, <1>6, <1>7, <1>8, <1>9, <1>10, <1>11, <1>12

\* A failure response to an INVITE.
LEMMA StepFailure ==
  ASSUME IInv, FailureToInvite
  PROVE  IInv'
  <1> DEFINE r == tx["request"]
  <1>1. /\ r \in Transaction /\ r.machine = "ClientInvite" /\ r.target > 0
        /\ out' = out \cup {"ACK"} /\ UNCHANGED <<way, left, asked, cancelTo>>
    BY DEF IInv, TypeOK, Tids, FailureToInvite
  <1>2. /\ out' \subseteq Messages /\ way # "none"
        /\ way \in {"dns", "slowDns"} => left # Targets
    BY <1>1 DEF IInv, TypeOK, Messages, Targeted, Fresh, NoTx, New, Tids
  <1>3. CASE r.mIsReliable /\ Give408Or503("request") /\ UNCHANGED timers
    <2>1. way # "slowDns" => r.mState # "Completed"
      BY <1>1, <1>3 DEF IInv, HeardFits
    <2>2. timers \in Timers /\ "request" \in Tids
      BY DEF IInv, TypeOK, Timers, Tids
    <2> QED BY <1>1, <1>2, <1>3, <2>1, <2>2, StepGivenUp
  <1>4. CASE /\ ~r.mIsReliable /\ firstFinal(r) /\ tx' = [tx EXCEPT !["request"] = completed(@)]
             /\ heard' = sendToTU(heard, "request") /\ timers' = Arm(timers, "request", "D")
    BY <1>1, <1>4, StepCompleted
  <1>5. CASE /\ ~r.mIsReliable /\ r.mState = "Completed"
             /\ tx' = [tx EXCEPT !["request"].mIsAbandoned = FALSE] /\ UNCHANGED <<timers, heard>>
    <2>1. r.mIsAbandoned = FALSE
      BY <1>1, <1>5 DEF IInv, CancelFits, Transaction
    <2>2. tx' = tx
      BY <1>5, <2>1 DEF IInv, TypeOK, Transaction, Tids
    <2> QED BY <1>1, <1>2, <1>5, <2>2, StepSentOnly
  <1> QED BY <1>3, <1>4, <1>5 DEF FailureToInvite

\* The request is back in Calling, or a DNS answer is awaited or not any more.
LEMMA StepReverted ==
  ASSUME IInv, way \in {"flow", "slowDns"}, NEW r \in Transaction,
         tx["request"].machine # "None", r.machine = tx["request"].machine,
         \/ r.mState = tx["request"].mState
         \/ r.machine = "ClientInvite" /\ tx["request"].mState = "Proceeding" /\ r.mState = "Calling",
         r.mIsAbandoned = tx["request"].mIsAbandoned, r.mIsReliable = tx["request"].mIsReliable,
         r.acked = tx["request"].acked, r.target = tx["request"].target,
         way = "flow" => r.mWaitingForDnsResult = tx["request"].mWaitingForDnsResult,
         tx' = [tx EXCEPT !["request"] = r], out' \subseteq out,
         UNCHANGED <<timers, way, left, heard, asked, cancelTo>>
  PROVE  IInv'
  <1> USE DEF IInv
  <1>1. tx' \in [Tids -> Transaction] /\ tx'["request"] = r /\ tx'["cancel"] = tx["cancel"]
    BY DEF TypeOK, Tids
  <1>2. TypeOK'
    BY <1>1 DEF TypeOK, Tids, Timers, Heard, Messages
  <1>3. Fresh'
    BY <1>1 DEF Fresh
  <1>4. MachineFits'
    BY <1>1 DEF MachineFits, TypeOK, Tids
  <1>5. Targeted'
    BY <1>1 DEF Targeted, MachineFits, TypeOK, Tids
  <1>6. DnsInTime'
    BY <1>1 DEF DnsInTime, Targeted, MachineFits, TypeOK, Tids
  <1>7. CancelFits'
    BY <1>1 DEF CancelFits, MachineFits, Targeted, TypeOK, Tids
  <1>8. RetireTimed'
    BY <1>1 DEF RetireTimed, CancelFits, TypeOK, Tids, TimerKinds
  <1>9. HeardFits'
    BY <1>1 DEF HeardFits, Targeted, MachineFits, DnsInTime, TypeOK, Tids, Up, NothingHeard
  <1>10. ResendsTheRightMessage'
    BY <1>1 DEF ResendsTheRightMessage, MachineFits, Tids
  <1>11. KeepsResending'
    BY <1>1 DEF KeepsResending, MachineFits, Targeted, CancelFits, TypeOK, Tids, TimerKinds
  <1>12. OneFinal'
    BY <1>1 DEF OneFinal, HeardFits, RetireTimed, Tids, Up, NothingHeard
  <1> QED BY <1>2, <1>3, <1>4, <1>5, <1>6, <1>7, <1>8, <1>9, <1>10, <1>11, <1>12

\* The answer of DNS a transaction waits for.
LEMMA StepDns ==
  ASSUME IInv, DnsAnswer
  PROVE  IInv'
  <1> DEFINE r == tx["request"]
             asks == [r EXCEPT !.mWaitingForDnsResult = FALSE]
  <1>1. /\ r \in Transaction /\ r.machine # "None" /\ r.mWaitingForDnsResult
        /\ UNCHANGED <<way, asked, cancelTo>>
    BY DEF IInv, TypeOK, Tids, DnsAnswer
  <1>2. way \in {"dns", "slowDns"} /\ (way = "dns" => left = Targets)
    BY <1>1 DEF IInv, DnsInTime
  <1>3. way = "dns" => r.machine # "ClientStale" /\ r.mState # "Completed"
    BY <1>1, <1>2 DEF IInv, Targeted, MachineFits, Tids, TypeOK
  <1>4. /\ asks \in Transaction /\ asks.machine = r.machine /\ asks.mState = r.mState
        /\ asks.mIsAbandoned = r.mIsAbandoned /\ asks.mIsReliable = r.mIsReliable
        /\ ~asks.mWaitingForDnsResult /\ asks.acked = r.acked /\ asks.target = r.target
    <2> HIDE DEF r
    <2> QED BY <1>1 DEF Transaction
  <1>5. ASSUME NEW reliable \in BOOLEAN, SendToNext(asks, reliable)
        PROVE  IInv'
    <2> HIDE DEF asks
    <2> QED BY <1>1, <1>2, <1>3, <1>4, <1>5, StepSent
  <1>6. CASE processNoDnsResults
    <2>1. /\ Give408Or503("request") /\ UNCHANGED <<timers, left, out>>
          /\ timers' \in Timers /\ out' \subseteq Messages /\ "request" \in Tids
      BY <1>6 DEF processNoDnsResults, IInv, TypeOK, Timers, Messages, Tids
    <2>2. way # "slowDns" =>
            r.machine \in {"ClientInvite", "ClientNonInvite"} /\ r.mState # "Completed"
      BY <1>1, <1>2, <1>3 DEF Transaction, Machines
    <2> QED BY <1>1, <2>1, <2>2, StepGivenUp
  <1>7. CASE /\ left = 0 /\ r.acked /\ UNCHANGED <<timers, left, out, heard>>
             /\ tx' = [tx EXCEPT !["request"].mWaitingForDnsResult = FALSE]
    <2>1. way = "slowDns"
      BY <1>2, <1>7, ClientAssumption
    <2>2. tx' = [tx EXCEPT !["request"] = asks]
      BY <1>7 DEF IInv, TypeOK
    <2> HIDE DEF asks
    <2> QED BY <1>1, <1>4, <1>7, <2>1, <2>2, StepReverted
  <1> QED BY <1>5, <1>6, <1>7 DEF DnsAnswer

\* A transport gives up on a message, and the next target may be tried.
LEMMA StepTransportFailure ==
  ASSUME IInv, NEW m \in {"INVITE", "CANCEL", "ACK", "OTHER"}, TransportFailure(m)
  PROVE  IInv'
  <1> DEFINE r == tx["request"]
             q == revert(r)
             asks == [q EXCEPT !.mWaitingForDnsResult = TRUE]
  <1>1. /\ r \in Transaction /\ m \in out /\ UNCHANGED <<way, asked, cancelTo>>
        /\ out \subseteq Messages /\ out # {} /\ timers \in Timers /\ "request" \in Tids
    BY DEF IInv, TypeOK, Tids, Timers, Messages, TransportFailure
  <1>2. way # "none" /\ (way \in {"dns", "slowDns"} => left # Targets)
    BY <1>1 DEF IInv, Fresh, Targeted
  <1>3. /\ q \in Transaction /\ q.machine = r.machine
        /\ q.mIsAbandoned = r.mIsAbandoned /\ q.mIsReliable = r.mIsReliable
        /\ q.mWaitingForDnsResult = r.mWaitingForDnsResult /\ q.acked = r.acked
        /\ q.target = r.target
        /\ \/ q.mState = r.mState
           \/ r.machine = "ClientInvite" /\ r.mState = "Proceeding" /\ q.mState = "Calling"
    <2> HIDE DEF r
    <2> QED BY <1>1 DEF Transaction, revert, States
  <1>4. CASE ~shouldFailover(r) /\ out' = out \ {m} /\ UNCHANGED <<tx, timers, left, heard>>
    BY <1>1, <1>2, <1>4, StepSentOnly
  <1>5. ASSUME shouldFailover(r)
        PROVE  r.machine \in {"ClientInvite", "ClientNonInvite"} /\ r.mState # "Completed"
    BY <1>5 DEF shouldFailover
  <1>6. CASE /\ shouldFailover(r) /\ way = "flow" /\ tx' = [tx EXCEPT !["request"] = q]
             /\ out' = out \ {m} /\ UNCHANGED <<timers, left, heard>>
    <2> HIDE DEF q
    <2> QED BY <1>1, <1>3, <1>5, <1>6, StepReverted
  <1>7. ASSUME shouldFailover(r), way # "flow", NEW reliable \in BOOLEAN, SendToNext(q, reliable)
        PROVE  IInv'
    <2>1. way \in {"dns", "slowDns"}
      BY <1>2, <1>7, ClientAssumption DEF IInv, TypeOK
    <2>2. way = "dns" => ~q.mWaitingForDnsResult
      BY <1>2, <1>3, <2>1 DEF IInv, DnsInTime
    <2>3. q.mState # "Completed" /\ q.machine # "ClientStale" /\ r.machine # "None"
      BY <1>3, <1>5, <1>7
    <2> HIDE DEF q
    <2> QED BY <1>1, <1>3, <1>7, <2>1, <2>2, <2>3, StepSent
  <1>8. CASE shouldFailover(r) /\ Give408Or503("request") /\ out' = out \ {m} /\ UNCHANGED <<timers, left>>
    BY <1>1, <1>2, <1>5, <1>8, StepGivenUp
  <1>9. CASE /\ shouldFailover(r) /\ way = "slowDns" /\ tx' = [tx EXCEPT !["request"] = asks]
             /\ out' = out \ {m} /\ UNCHANGED <<timers, left, heard>>
    <2>1. /\ asks \in Transaction /\ asks.machine = r.machine
          /\ asks.mIsAbandoned = r.mIsAbandoned /\ asks.mIsReliable = r.mIsReliable
          /\ asks.acked = r.acked /\ asks.target = r.target /\ asks.mState = q.mState
      <3> HIDE DEF q
      <3> QED BY <1>3 DEF Transaction
    <2> HIDE DEF q, asks
    <2> QED BY <1>1, <1>3, <1>5, <1>9, <2>1, StepReverted
  <1> QED BY <1>4, <1>6, <1>7, <1>8, <1>9 DEF TransportFailure

\* No identifier has been given.
LEMMA InitIInv == Init => IInv
  <1> SUFFICES ASSUME Init PROVE IInv
    OBVIOUS
  <1>1. NoTx \in Transaction /\ NoTx.machine = "None" /\ ~NoTx.mIsAbandoned /\ NoTx.mIsReliable
        /\ NoTx.target = 0 /\ ~NoTx.mWaitingForDnsResult /\ NoTx.mState = "Terminated"
    BY ClientAssumption DEF NoTx, New, Transaction, Machines, States
  <1>2. /\ tx["request"] = NoTx /\ tx["cancel"] = NoTx /\ tx \in [Tids -> Transaction]
        /\ \A t \in Tids : tx[t] = NoTx
    BY <1>1 DEF Init, Tids
  <1>3. TypeOK
    BY <1>2, ClientAssumption DEF Init, TypeOK, NothingHeard
  <1>4. Fresh /\ way = "none"
    BY DEF Init, Fresh
  <1>5. MachineFits /\ Targeted /\ DnsInTime /\ ResendsTheRightMessage /\ KeepsResending
    BY <1>1, <1>2, <1>4
    DEF MachineFits, Targeted, DnsInTime, ResendsTheRightMessage, KeepsResending
  <1>6. CancelFits /\ RetireTimed
    BY <1>1, <1>2 DEF Init, CancelFits, RetireTimed, Tids, TimerKinds
  <1>7. HeardFits /\ OneFinal
    BY <1>1, <1>2 DEF Init, HeardFits, OneFinal, NothingHeard
  <1> QED BY <1>3, <1>4, <1>5, <1>6, <1>7 DEF IInv

\* No step of the stack, the peer or the clock breaks the invariant.
LEMMA NextIInv == IInv /\ [Next]_vars => IInv'
  <1> SUFFICES ASSUME IInv, [Next]_vars PROVE IInv'
    OBVIOUS
  <1>1. CASE User
    BY <1>1, StepRequestByDns, StepRequestOnFlow, StepCancel, StepCancelRequest DEF User
  <1>2. CASE Wire
    BY <1>2, StepProvisionalToNonInvite, StepFinalToNonInvite, StepProvisionalToInvite,
       StepSuccess, StepFailure
    DEF Wire
  <1>3. ASSUME NEW t \in Tids, NEW k \in TimerKinds, Timer(t, k) PROVE IInv'
    BY <1>3, StepRetransmit, StepExpire, StepRetire, StepIgnore DEF Timer
  <1>4. CASE DnsAnswer
    BY <1>4, StepDns
  <1>5. CASE Transport
    BY <1>5, StepDelivered, StepTransportFailure DEF Transport
  <1>6. CASE UNCHANGED vars
    BY <1>6
    DEF vars, IInv, TypeOK, Fresh, MachineFits, Targeted, DnsInTime, CancelFits, RetireTimed,
        HeardFits, ResendsTheRightMessage, KeepsResending, OneFinal
  <1> QED BY <1>1, <1>2, <1>3, <1>4, <1>5, <1>6 DEF Next

\* Every reachable state satisfies the inductive invariant.
LEMMA SpecIInv == Spec => []IInv
  BY InitIInv, NextIInv, PTL DEF Spec

\* A transaction resends its ACK when it is completed and its request before (the
\* asserts of processClientInvite), and a request on an unreliable transport is
\* resent until it is answered, in whatever order timers and responses come.
THEOREM TransactionSound == Spec => []TransactionOK
  <1>1. IInv => TransactionOK
    BY DEF IInv, TransactionOK
  <1> QED BY <1>1, SpecIInv, PTL

\* The transaction user is told of at most one final response other than a 2xx
\* and of the end of a transaction at most once, and not before a final response,
\* unless the resolver answers after it.
THEOREM ToldOnce == Spec => []OneFinal
  <1>1. IInv => OneFinal
    BY DEF IInv
  <1> QED BY <1>1, SpecIInv, PTL

\* Once the first endpoint has answered provisionally, an INVITE that was
\* cancelled before or after has been cancelled there
\* (SipStack::cancelClientInviteTransaction).
THEOREM CancelReaches == Spec => []CancelFollowsInvite
  <1>1. ASSUME IInv PROVE CancelFollowsInvite
    <2> SUFFICES ASSUME tx["request"].target = 1, asked > 0,
                        tx["request"].machine = "ClientInvite", tx["request"].mState = "Proceeding"
                 PROVE  cancelTo = 1
      BY DEF CancelFollowsInvite
    <2>1. cancelTo \in Nat /\ cancelTo > 0 /\ cancelTo <= 1
      BY <1>1 DEF IInv, CancelFits, TypeOK
    <2> QED BY <2>1
  <1> QED BY <1>1, SpecIInv, PTL

\* The action behind NoFailureAfterSuccess.
KeepsSuccess ==
  heard["request"].ok /\ way # "slowDns" => heard'["request"].finals = heard["request"].finals

\* No step of the stack, the peer or the clock turns a success into a failure.
LEMMA StepKeepsSuccess == IInv /\ [Next]_vars => KeepsSuccess
  <1> SUFFICES ASSUME IInv, [Next]_vars, heard["request"].ok, way # "slowDns"
               PROVE  heard'["request"].finals = heard["request"].finals
    BY DEF KeepsSuccess
  <1>1. heard \in [Tids -> Heard] /\ "request" \in Tids /\ "cancel" \in Tids
    BY DEF IInv, TypeOK, Heard, Tids
  <1>2. tx["request"].machine \notin {"ClientInvite", "ClientNonInvite"}
    BY <1>1 DEF IInv, HeardFits
  <1>3. ASSUME NEW t \in Tids, t # "request",
               \/ heard' = sendToTU(heard, t)
               \/ heard' = terminateClientTransaction(heard, t)
               \/ heard' = terminateClientTransaction(sendToTU(heard, t), t)
        PROVE  heard'["request"] = heard["request"]
    BY <1>1, <1>3 DEF sendToTU, terminateClientTransaction
  <1>4. ASSUME heard' = terminateClientTransaction(heard, "request")
        PROVE  heard'["request"].finals = heard["request"].finals
    BY <1>1, <1>4, TerminateEffect
  <1>5. CASE User
    <2>1. way # "none"
      BY DEF IInv, Fresh, NothingHeard, Tids
    <2>2. CASE CancelRequest
      BY <1>1, <1>2, <2>2 DEF CancelRequest, handleInternalCancel
    <2> QED BY <1>2, <1>5, <2>1, <2>2
            DEF User, RequestByDns, RequestOnFlow, CancelClientInviteTransaction
  <1>6. CASE Wire
    <2>1. ASSUME NEW t \in Tids, FinalToNonInvite(t)
          PROVE  heard'["request"] = heard["request"]
      <3>1. t # "request"
        BY <1>2, <2>1 DEF FinalToNonInvite
      <3> QED BY <1>3, <2>1, <3>1 DEF FinalToNonInvite
    <2> QED BY <1>2, <1>6, <2>1
            DEF Wire, ProvisionalToNonInvite, ProvisionalToInvite, SuccessToInvite,
              FailureToInvite
  <1>7. ASSUME NEW t \in Tids, NEW k \in TimerKinds, Timer(t, k)
        PROVE  heard'["request"].finals = heard["request"].finals
    <2>1. CASE Expire(t, k)
      <3>1. t # "request"
        BY <1>2, <2>1 DEF Expire, reacts, machineOf
      <3> QED BY <1>3, <2>1, <3>1 DEF Expire, Give408Or503
    <2>2. CASE Retire(t, k)
      BY <1>3, <1>4, <2>2 DEF Retire
    <2> QED BY <1>7, <2>1, <2>2 DEF Timer, Retransmit, Ignore
  <1>8. CASE DnsAnswer
    <2>1. /\ tx["request"].machine = "ClientStale" /\ tx["request"].target > 0
          /\ tx["request"].mWaitingForDnsResult
      BY <1>1, <1>2, <1>8 DEF DnsAnswer, IInv, TypeOK, Transaction, Machines, MachineFits
    <2>2. tx["request"].target = 0
      BY <2>1 DEF IInv, DnsInTime, Targeted, TypeOK
    <2> QED BY <2>1, <2>2
  <1>9. CASE Transport
    BY <1>2, <1>9 DEF Transport, Delivered, TransportFailure, shouldFailover
  <1>10. CASE UNCHANGED vars
    BY <1>10 DEF vars
  <1> QED BY <1>5, <1>6, <1>7, <1>8, <1>9, <1>10 DEF Next

\* After a 2xx no retransmission, timer, transport failure or DNS answer in time
\* makes the transaction user hear of a failure.
THEOREM SuccessIsFinal == Spec => NoFailureAfterSuccess
  <1>1. Spec => [][KeepsSuccess]_vars
    BY StepKeepsSuccess, SpecIInv, PTL DEF Spec
  <1> QED BY <1>1 DEF NoFailureAfterSuccess, KeepsSuccess
=============================================================================
