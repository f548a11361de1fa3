---------------------- MODULE AlarmSubscriptionProofs ----------------------
(***************************************************************************)
(* Proofs about AlarmSubscription for any number of dialogs, devices and   *)
(* subscriptions: the index maps agree, an alarm never meets a stale       *)
(* handle, no subscription is deleted behind the handler's back, and every *)
(* live subscription has its timer.                                        *)
(***************************************************************************)
EXTENDS AlarmSubscription, TLAPS

\* A live subscription is in a dialog that is not being destroyed (so that
\* the destructors find no usages), and has been accepted exactly once.
LiveInDialog ==
  \A i \in live :
    /\ sub[i].dialog \in Dialog
    /\ dialog[sub[i].dialog] = "live"
    /\ sub[i].mTimerSeq = 1

\* Only the NOTIFY that ends a subscription may come on top of MaxNotify, and
\* an id that was not given yet has sent nothing.
Fresh ==
  \A i \in Id :
    /\ notifies[i] <= MaxNotify \/ (i <= mLastId /\ i \notin live)
    /\ i > mLastId => sub[i].mTimerSeq = 0 /\ notifies[i] = 0

\* What the proof carries from step to step.
IInv ==
  /\ TypeOK
  /\ MapsAgree
  /\ ~stale
  /\ LiveInDialog
  /\ Fresh
  /\ NeverDestroyedSilently
  /\ TimerArmed

\* The ids in the maps are those of live subscriptions.
LEMMA InvImpliesNoStaleHandle == IInv => NoStaleHandle
  BY AlarmAssumption DEF IInv, NoStaleHandle, MapsAgree, TypeOK, Id

LEMMA LiveIsId ==
  ASSUME IInv
  PROVE  /\ live \subseteq Id
         /\ mLastId \in Nat /\ \A i \in live : i <= mLastId
         /\ \A i \in Id : i \in Nat /\ notifies[i] \in Nat
  BY AlarmAssumption DEF IInv, TypeOK, Id

LEMMA InitInv == Init => IInv
  <1> SUFFICES ASSUME Init PROVE IInv
    OBVIOUS
  <1>1. /\ mForwardMap \in [Id -> [Device -> Nat]]
        /\ mInvertMap \in [Device -> [Id -> Nat]]
        /\ named \in [Id -> Body]
    BY AlarmAssumption DEF Init, Nowhere, Body
  <1>2. /\ sub \in [Id -> [dialog : Dialog \cup {NoDialog},
                           id : EventId \cup {NoEventId}, mTimerSeq : 0 .. 2]]
        /\ dialog \in [Dialog -> Phase] /\ ended \in [Id -> Callback]
    BY DEF Init, NoSub, Callback, Phase
  <1>3. stale \in BOOLEAN
    BY DEF Init
  <1>4. TypeOK
    BY <1>1, <1>2, <1>3, AlarmAssumption DEF Init, TypeOK
  <1>5. MapsAgree /\ Fresh
    BY AlarmAssumption DEF Init, MapsAgree, Nowhere, Fresh, NoSub
  <1>6. LiveInDialog /\ NeverDestroyedSilently /\ TimerArmed /\ ~stale
    BY DEF Init, LiveInDialog, NeverDestroyedSilently, TimerArmed
  <1> QED BY <1>4, <1>5, <1>6 DEF IInv

\* Ending a set of live subscriptions, by whatever callback the handler is
\* told of, keeps the maps each other's inverse and no usage in a dying dialog.
LEMMA TerminateMaps ==
  ASSUME IInv, NEW S \in SUBSET live, NEW why \in Callback \ {"destructor"},
         terminate(S, why), UNCHANGED named
  PROVE  /\ MapsAgree'
         /\ NeverDestroyedSilently'
         /\ mForwardMap' \in [Id -> [Device -> Nat]]
         /\ mInvertMap' \in [Device -> [Id -> Nat]]
         /\ ended' \in [Id -> Callback]
         /\ live' \subseteq 1 .. mLastId
  <1>1. /\ mForwardMap' \in [Id -> [Device -> Nat]]
        /\ mInvertMap' \in [Device -> [Id -> Nat]]
    BY DEF IInv, TypeOK, terminate, onTerminated, Nowhere
  <1>2. MapsAgree'
    <2> SUFFICES ASSUME NEW dev \in Device, NEW i \in Id
                 PROVE  /\ mForwardMap'[i][dev] = mInvertMap'[dev][i]
                        /\ mInvertMap'[dev][i] = IF i \in live' THEN named'[i][dev] ELSE 0
      BY DEF MapsAgree
    <2>1. /\ mForwardMap[i][dev] = mInvertMap[dev][i]
          /\ mInvertMap[dev][i] = IF i \in live THEN named[i][dev] ELSE 0
          /\ mForwardMap[i][dev] \in Nat
      BY DEF IInv, TypeOK, MapsAgree
    <2>2. /\ mInvertMap'[dev][i] =
               IF i \in S /\ mForwardMap[i][dev] > 0 THEN 0 ELSE mInvertMap[dev][i]
          /\ mForwardMap'[i][dev] = IF i \in S THEN 0 ELSE mForwardMap[i][dev]
          /\ live' = live \ S
      BY DEF IInv, TypeOK, terminate, onTerminated, Nowhere
    <2> QED BY <2>1, <2>2
  <1>3. NeverDestroyedSilently' /\ ended' \in [Id -> Callback]
    BY DEF IInv, TypeOK, terminate, NeverDestroyedSilently, Callback
  <1>4. live' \subseteq 1 .. mLastId
    BY DEF IInv, TypeOK, terminate
  <1> QED BY <1>1, <1>2, <1>3, <1>4

LEMMA TerminateDialogs ==
  ASSUME IInv, NEW S \in SUBSET live, NEW why \in Callback, terminate(S, why)
  PROVE  /\ dialog' \in [Dialog -> Phase]
         /\ \A i \in live' : i \in live /\ dialog'[sub[i].dialog] = "live"
  <1>1. dialog' \in [Dialog -> Phase]
    BY DEF IInv, TypeOK, terminate, possiblyDie, Phase
  <1>2. ASSUME NEW i \in live'
        PROVE  i \in live /\ dialog'[sub[i].dialog] = "live"
    <2>1. i \in live /\ i \notin S
      BY <1>2 DEF terminate
    <2>2. i \in Usages(sub[i].dialog)
      BY <2>1 DEF Usages
    <2> QED BY <2>1, <2>2 DEF IInv, LiveInDialog, terminate, possiblyDie
  <1> QED BY <1>1, <1>2

LEMMA StepSubscribe ==
  ASSUME IInv, NEW d \in Dialog, NEW e \in EventId \cup {NoEventId},
         NEW body \in Body, Subscribe(d, e, body)
  PROVE  IInv'
  <1> DEFINE i == mLastId + 1
  <1>1. i \in Id /\ i \notin live /\ mLastId' = i /\ live' = live \cup {i}
    BY AlarmAssumption DEF IInv, TypeOK, Subscribe, Creates, Id
  <1>0. sub[i].mTimerSeq = 0 /\ notifies[i] = 0
    BY <1>1, LiveIsId DEF IInv, Fresh
  <1>2. \A dev \in Device : mForwardMap[i][dev] = 0 /\ mInvertMap[dev][i] = 0
    BY <1>1 DEF IInv, MapsAgree
  <1>3. /\ mForwardMap' \in [Id -> [Device -> Nat]]
        /\ mInvertMap' \in [Device -> [Id -> Nat]]
    BY <1>1, AlarmAssumption DEF IInv, TypeOK, Subscribe, indexBody, Body
  <1>4. MapsAgree'
    BY <1>1, <1>2, AlarmAssumption
    DEF IInv, TypeOK, MapsAgree, Subscribe, indexBody, Body
  <1>5. TypeOK'
    <2>1. timers' \subseteq Id \X (1 .. 2)
      BY <1>0, <1>1 DEF IInv, TypeOK, Subscribe, sendAccept
    <2>2. /\ sub' \in [Id -> [dialog : Dialog \cup {NoDialog},
                              id : EventId \cup {NoEventId}, mTimerSeq : 0 .. 2]]
          /\ dialog' \in [Dialog -> Phase]
          /\ named' \in [Id -> Body]
      BY <1>1 DEF IInv, TypeOK, Subscribe, Phase
    <2>3. mLastId' \in 0 .. MaxHandle /\ live' \subseteq 1 .. mLastId'
      BY <1>1, AlarmAssumption DEF IInv, TypeOK, Id
    <2> QED BY <1>3, <2>1, <2>2, <2>3 DEF IInv, TypeOK, Subscribe
  <1>6. LiveInDialog'
    BY <1>1 DEF IInv, TypeOK, LiveInDialog, Subscribe, Creates, findDialog
  <1>7. TimerArmed'
    BY <1>0, <1>1, LiveIsId DEF IInv, TypeOK, TimerArmed, Subscribe, sendAccept
  <1>8. ~stale' /\ NeverDestroyedSilently'
    BY DEF IInv, Subscribe, NeverDestroyedSilently
  <1>9. Fresh'
    BY <1>0, <1>1, LiveIsId, AlarmAssumption DEF IInv, TypeOK, Fresh, Subscribe
  <1> QED BY <1>4, <1>5, <1>6, <1>7, <1>8, <1>9 DEF IInv

LEMMA StepPoll ==
  ASSUME IInv, NEW d \in Dialog, NEW e \in EventId \cup {NoEventId}, Poll(d, e)
  PROVE  IInv'
  <1> DEFINE i == mLastId + 1
  <1>1. i \in Id /\ i \notin live /\ mLastId' = i /\ live' = live
    BY AlarmAssumption DEF IInv, TypeOK, Poll, Creates, Id
  <1>0. sub[i].mTimerSeq = 0 /\ notifies[i] = 0
    BY <1>1, LiveIsId DEF IInv, Fresh
  <1>2. TypeOK'
    <2>1. timers' \subseteq Id \X (1 .. 2)
      BY <1>1 DEF IInv, TypeOK, Poll
    <2>2. notifies' \in [Id -> 0 .. MaxNotify + 1]
      BY <1>0, <1>1, AlarmAssumption DEF IInv, TypeOK, Poll
    <2>3. /\ sub' \in [Id -> [dialog : Dialog \cup {NoDialog},
                              id : EventId \cup {NoEventId}, mTimerSeq : 0 .. 2]]
          /\ dialog' \in [Dialog -> Phase]
          /\ ended' \in [Id -> Callback]
      BY <1>1 DEF IInv, TypeOK, Poll, passingUsage, Phase, Callback
    <2> QED BY <1>1, <2>1, <2>2, <2>3, AlarmAssumption DEF IInv, TypeOK, Poll, maps, history, Id
  <1>3. MapsAgree'
    BY <1>1 DEF IInv, MapsAgree, Poll, maps, history
  <1>4. LiveInDialog'
    BY <1>1 DEF IInv, TypeOK, LiveInDialog, Poll, passingUsage
  <1>5. TimerArmed'
    BY <1>1 DEF IInv, TypeOK, LiveInDialog, TimerArmed, Poll
  <1>6. ~stale' /\ NeverDestroyedSilently'
    BY DEF IInv, TypeOK, Poll, NeverDestroyedSilently
  <1>7. Fresh'
    BY <1>0, <1>1, LiveIsId, AlarmAssumption DEF IInv, TypeOK, Fresh, Poll
  <1> QED BY <1>2, <1>3, <1>4, <1>5, <1>6, <1>7 DEF IInv

LEMMA StepReject ==
  ASSUME IInv, NEW d \in Dialog, NEW e \in EventId \cup {NoEventId}, Reject(d, e)
  PROVE  IInv'
  <1> DEFINE i == mLastId + 1
  <1>1. i \in Id /\ i \notin live /\ mLastId' = i /\ live' = live
    BY AlarmAssumption DEF IInv, TypeOK, Reject, Creates, Id
  <1>0. sub[i].mTimerSeq = 0 /\ notifies[i] = 0
    BY <1>1, LiveIsId DEF IInv, Fresh
  <1>2. TypeOK'
    <2>1. /\ sub' \in [Id -> [dialog : Dialog \cup {NoDialog},
                             id : EventId \cup {NoEventId}, mTimerSeq : 0 .. 2]]
          /\ ended' \in [Id -> Callback]
      BY <1>1 DEF IInv, TypeOK, Reject, Callback
    <2>2. dialog' \in [Dialog -> Phase]
      BY DEF IInv, TypeOK, Reject, passingUsage, Phase
    <2>3. /\ mLastId' \in 0 .. MaxHandle /\ live' \subseteq 1 .. mLastId'
          /\ timers' \subseteq Id \X (1 .. 2)
      BY <1>1, AlarmAssumption DEF IInv, TypeOK, Reject, Id
    <2>4. UNCHANGED <<maps, notifies, unanswered, stale, named>>
      BY DEF Reject
    <2> QED BY <2>1, <2>2, <2>3, <2>4 DEF IInv, TypeOK, maps
  <1>3. MapsAgree'
    BY <1>1 DEF IInv, MapsAgree, Reject, maps, history
  <1>4. LiveInDialog'
    BY <1>1 DEF IInv, TypeOK, LiveInDialog, Reject, passingUsage
  <1>5. TimerArmed'
    BY <1>1 DEF IInv, TypeOK, LiveInDialog, TimerArmed, Reject
  <1>6. ~stale' /\ NeverDestroyedSilently'
    BY DEF IInv, TypeOK, Reject, NeverDestroyedSilently
  <1>7. Fresh'
    BY <1>0, <1>1, LiveIsId, AlarmAssumption DEF IInv, TypeOK, Fresh, Reject
  <1> QED BY <1>2, <1>3, <1>4, <1>5, <1>6, <1>7 DEF IInv

LEMMA StepRefresh ==
  ASSUME IInv, NEW d \in Dialog, NEW e \in EventId \cup {NoEventId}, Refresh(d, e)
  PROVE  IInv'
  <1>1. PICK i \in Id :
          /\ unanswered[i] < MaxRefresh
          /\ unanswered' = [unanswered EXCEPT ![i] = @ + 1]
          /\ onRefresh(i)
    BY LiveIsId DEF Refresh, findMatchingServerSub, Usages
  <1>2. TypeOK'
    BY <1>1, AlarmAssumption DEF IInv, TypeOK, Refresh, maps, history, onRefresh
  <1>3. MapsAgree'
    BY DEF IInv, MapsAgree, Refresh, maps, history
  <1>4. LiveInDialog' /\ TimerArmed' /\ Fresh'
    BY <1>1 DEF IInv, LiveInDialog, TimerArmed, Fresh, Refresh, onRefresh
  <1>5. NeverDestroyedSilently' /\ ~stale'
    BY DEF IInv, NeverDestroyedSilently, Refresh, history
  <1> QED BY <1>2, <1>3, <1>4, <1>5 DEF IInv

LEMMA StepUnsubscribe ==
  ASSUME IInv, NEW d \in Dialog, NEW e \in EventId \cup {NoEventId}, Unsubscribe(d, e)
  PROVE  IInv'
  <1>1. PICK i \in live :
          /\ sendAccept(i)
          /\ sub' = [sub EXCEPT ![i].mTimerSeq = @ + 1]
          /\ notifies' = [notifies EXCEPT ![i] = @ + 1]
          /\ terminate({i}, "onExpiredByClient")
    BY DEF Unsubscribe, findMatchingServerSub, Usages
  <1>2. i \in Id /\ sub[i].mTimerSeq = 1 /\ notifies[i] <= MaxNotify
    BY <1>1, LiveIsId DEF IInv, LiveInDialog, Fresh
  <1>3. UNCHANGED <<mLastId, unanswered, stale, named>>
    BY DEF Unsubscribe
  <1>4. "onExpiredByClient" \in Callback \ {"destructor"} /\ {i} \in SUBSET live
    BY DEF Callback
  <1>5. /\ MapsAgree' /\ NeverDestroyedSilently'
        /\ mForwardMap' \in [Id -> [Device -> Nat]]
        /\ mInvertMap' \in [Device -> [Id -> Nat]]
        /\ ended' \in [Id -> Callback] /\ live' \subseteq 1 .. mLastId
    BY <1>1, <1>3, <1>4, TerminateMaps
  <1>6. /\ dialog' \in [Dialog -> Phase]
        /\ \A j \in live' : j \in live /\ dialog'[sub[j].dialog] = "live"
    BY <1>1, <1>4, TerminateDialogs
  <1>7. /\ sub' \in [Id -> [dialog : Dialog \cup {NoDialog},
                            id : EventId \cup {NoEventId}, mTimerSeq : 0 .. 2]]
        /\ \A j \in Id : j # i => sub'[j] = sub[j]
    <2>1. sub[i].mTimerSeq + 1 \in 0 .. 2
      BY <1>2
    <2> QED BY <1>1, <1>2, <2>1 DEF IInv, TypeOK
  <1>8. i \notin live'
    BY <1>1 DEF terminate
  <1>9. TypeOK'
    <2>1. timers' \subseteq Id \X (1 .. 2)
      BY <1>1, <1>2 DEF IInv, TypeOK, sendAccept
    <2>2. notifies' \in [Id -> 0 .. MaxNotify + 1]
      BY <1>1, <1>2, AlarmAssumption DEF IInv, TypeOK
    <2> QED BY <1>3, <1>5, <1>6, <1>7, <2>1, <2>2 DEF IInv, TypeOK
  <1>10. LiveInDialog'
    BY <1>6, <1>7, <1>8, LiveIsId DEF IInv, LiveInDialog
  <1>11. TimerArmed'
    BY <1>1, <1>6, <1>7, <1>8, LiveIsId DEF IInv, TimerArmed, sendAccept
  <1>12. Fresh'
    <2>1. \A j \in Id : j # i => notifies'[j] = notifies[j]
      BY <1>1, <1>2 DEF IInv, TypeOK
    <2>2. i <= mLastId /\ live' = live \ {i} /\ mLastId' = mLastId
      BY <1>1, <1>3, LiveIsId DEF terminate
    <2> QED BY <1>2, <1>7, <2>1, <2>2, LiveIsId DEF IInv, Fresh
  <1> QED BY <1>3, <1>5, <1>9, <1>10, <1>11, <1>12 DEF IInv

LEMMA StepTimeout ==
  ASSUME IInv, NEW i \in Id, NEW seq \in 1 .. 2, Timeout(i, seq)
  PROVE  IInv'
  <1>1. UNCHANGED <<mLastId, sub, unanswered, stale, named>>
        /\ timers' = timers \ {<<i, seq>>}
    BY DEF Timeout
  <1>2. CASE i \in live /\ seq = sub[i].mTimerSeq
    <2>1. terminate({i}, "onExpired") /\ notifies' = [notifies EXCEPT ![i] = @ + 1]
      BY <1>2 DEF Timeout
    <2>2. "onExpired" \in Callback \ {"destructor"} /\ {i} \in SUBSET live
      BY <1>2 DEF Callback
    <2>3. /\ MapsAgree' /\ NeverDestroyedSilently'
          /\ mForwardMap' \in [Id -> [Device -> Nat]]
          /\ mInvertMap' \in [Device -> [Id -> Nat]]
          /\ ended' \in [Id -> Callback] /\ live' \subseteq 1 .. mLastId
      BY <1>1, <2>1, <2>2, TerminateMaps
    <2>4. /\ dialog' \in [Dialog -> Phase]
          /\ \A j \in live' : j \in live /\ dialog'[sub[j].dialog] = "live"
      BY <2>1, <2>2, TerminateDialogs
    <2>5. i \notin live'
      BY <2>1 DEF terminate
    <2>6. notifies' \in [Id -> 0 .. MaxNotify + 1]
      BY <1>2, <2>1, AlarmAssumption DEF IInv, TypeOK, Fresh
    <2>7. TypeOK'
      BY <1>1, <2>3, <2>4, <2>6 DEF IInv, TypeOK
    <2>8. LiveInDialog' /\ TimerArmed'
      BY <1>1, <2>4, <2>5 DEF IInv, LiveInDialog, TimerArmed
    <2>9. Fresh'
      <3>1. \A j \in Id : j # i => notifies'[j] = notifies[j]
        BY <2>1 DEF IInv, TypeOK
      <3>2. i <= mLastId /\ live' = live \ {i}
        BY <1>2, <2>1, LiveIsId DEF terminate
      <3> QED BY <1>1, <3>1, <3>2, LiveIsId DEF IInv, Fresh
    <2> QED BY <1>1, <2>3, <2>7, <2>8, <2>9 DEF IInv
  <1>3. CASE ~(i \in live /\ seq = sub[i].mTimerSeq)
    <2>1. UNCHANGED <<notifies, maps, live, ended, dialog>>
      BY <1>3 DEF Timeout
    <2>2. TypeOK'
      BY <1>1, <2>1 DEF IInv, TypeOK, maps
    <2>3. TimerArmed'
      BY <1>1, <1>3, <2>1 DEF IInv, TimerArmed
    <2> QED
      BY <1>1, <2>1, <2>2, <2>3
      DEF IInv, MapsAgree, LiveInDialog, Fresh, NeverDestroyedSilently, maps
  <1> QED BY <1>2, <1>3

LEMMA StepNotifyAnswered ==
  ASSUME IInv, NEW i \in Id, NEW effect \in Effect, NotifyAnswered(i, effect)
  PROVE  IInv'
  <1> DEFINE d == sub[i].dialog
  <1>1. /\ UNCHANGED <<mLastId, sub, timers, unanswered, stale, named>>
        /\ notifies[i] > 0 /\ notifies' = [notifies EXCEPT ![i] = @ - 1]
    BY DEF NotifyAnswered
  <1>2. notifies' \in [Id -> 0 .. MaxNotify + 1] /\ \A j \in Id : notifies'[j] <= notifies[j]
    BY <1>1, AlarmAssumption DEF IInv, TypeOK
  <1>3. CASE effect = "UsageTermination" /\ findDialog(d)
    <2>1. terminate(Usages(d), "onError")
      BY <1>3 DEF NotifyAnswered
    <2>2. "onError" \in Callback \ {"destructor"} /\ Usages(d) \in SUBSET live
      BY DEF Callback, Usages
    <2>3. /\ MapsAgree' /\ NeverDestroyedSilently'
          /\ mForwardMap' \in [Id -> [Device -> Nat]]
          /\ mInvertMap' \in [Device -> [Id -> Nat]]
          /\ ended' \in [Id -> Callback] /\ live' \subseteq 1 .. mLastId
      BY <1>1, <2>1, <2>2, TerminateMaps
    <2>4. /\ dialog' \in [Dialog -> Phase]
          /\ \A j \in live' : j \in live /\ dialog'[sub[j].dialog] = "live"
      BY <2>1, <2>2, TerminateDialogs
    <2>5. TypeOK'
      BY <1>1, <1>2, <2>1, <2>3, <2>4 DEF IInv, TypeOK
    <2>6. LiveInDialog' /\ TimerArmed'
      BY <1>1, <2>4 DEF IInv, LiveInDialog, TimerArmed
    <2>7. Fresh'
      BY <1>1, <1>2, <2>1, LiveIsId, AlarmAssumption DEF IInv, Fresh, terminate
    <2> QED BY <1>1, <2>3, <2>5, <2>6, <2>7 DEF IInv
  <1>4. CASE ~(effect = "UsageTermination" /\ findDialog(d))
    <2>1. UNCHANGED <<maps, live, ended, dialog>>
      BY <1>4 DEF NotifyAnswered
    <2>2. TypeOK'
      BY <1>1, <1>2, <2>1 DEF IInv, TypeOK, maps
    <2>3. Fresh'
      BY <1>1, <1>2, <2>1, LiveIsId, AlarmAssumption DEF IInv, Fresh
    <2> QED
      BY <1>1, <2>1, <2>2, <2>3
      DEF IInv, MapsAgree, LiveInDialog, NeverDestroyedSilently, TimerArmed, maps
  <1> QED BY <1>3, <1>4

LEMMA StepAlarm ==
  ASSUME IInv, NEW dev \in Device, Alarm(dev)
  PROVE  IInv'
  <1>1. ~ \E i \in Id : mInvertMap[dev][i] > 0 /\ i \notin live
    BY InvImpliesNoStaleHandle DEF NoStaleHandle
  <1>2. /\ notifies' = [i \in Id |-> notifies[i] + mInvertMap[dev][i]]
        /\ UNCHANGED stale
        /\ \A i \in Id : notifies[i] + mInvertMap[dev][i] <= MaxNotify \/ mInvertMap[dev][i] = 0
    BY <1>1 DEF Alarm, notifyCount
  <1>3. UNCHANGED <<mLastId, live, sub, dialog, maps, timers, unanswered, history>>
    BY DEF Alarm
  <1>4. notifies' \in [Id -> 0 .. MaxNotify + 1]
    <2>1. \A i \in Id : mInvertMap[dev][i] \in Nat /\ notifies[i] \in 0 .. MaxNotify + 1
      BY DEF IInv, TypeOK
    <2> QED BY <1>2, <2>1, AlarmAssumption
  <1>5. TypeOK'
    BY <1>2, <1>3, <1>4 DEF IInv, TypeOK, maps, history
  <1>6. Fresh'
    <2>1. \A i \in Id : mInvertMap[dev][i] \in Nat /\ notifies[i] \in Nat
      BY LiveIsId DEF IInv, TypeOK
    <2>2. \A i \in Id : i > mLastId => mInvertMap[dev][i] = 0
      BY LiveIsId DEF IInv, MapsAgree
    <2> QED BY <1>2, <1>3, <2>1, <2>2, LiveIsId, AlarmAssumption DEF IInv, Fresh
  <1> QED
    BY <1>2, <1>3, <1>5, <1>6
    DEF IInv, MapsAgree, LiveInDialog, NeverDestroyedSilently, TimerArmed, maps, history

LEMMA StepDestroy ==
  ASSUME IInv, NEW d \in Dialog, NEW from \in Phase \ {"live"},
         NEW to \in Phase, Destroy(d, from, to)
  PROVE  IInv'
  <1>1. Usages(d) = {}
    BY DEF IInv, LiveInDialog, Usages, Destroy
  <1>2. live' = live /\ ended' = ended
    BY <1>1 DEF Destroy, IInv, TypeOK
  <1>3. TypeOK'
    BY <1>2 DEF IInv, TypeOK, Destroy, maps
  <1>4. LiveInDialog'
    BY <1>1, <1>2 DEF IInv, TypeOK, LiveInDialog, Usages, Destroy
  <1> QED
    BY <1>2, <1>3, <1>4
    DEF IInv, MapsAgree, NeverDestroyedSilently, TimerArmed, Fresh, Destroy, maps

LEMMA StepInv == IInv /\ [Next]_vars => IInv'
  <1> SUFFICES ASSUME IInv, [Next]_vars PROVE IInv'
    OBVIOUS
  <1>1. CASE UNCHANGED vars
    BY <1>1 DEF vars, maps, history, IInv, TypeOK, MapsAgree, LiveInDialog, Fresh,
       NeverDestroyedSilently, TimerArmed
  <1>2. ASSUME NEW d \in Dialog, DestroyDialog(d) \/ DestroyDialogSet(d) PROVE IInv'
    BY <1>2, StepDestroy DEF DestroyDialog, DestroyDialogSet, Phase
  <1> QED
    BY <1>1, <1>2, StepSubscribe, StepPoll, StepReject, StepRefresh, StepUnsubscribe,
       StepTimeout, StepNotifyAnswered, StepAlarm
    DEF Next

\* Every reachable state satisfies the inductive invariant.
THEOREM SpecIInv == Spec => []IInv
  BY InitInv, StepInv, PTL DEF Spec

\* Every variable keeps its type.
THEOREM AlarmTypeCorrect == Spec => []TypeOK
  <1>1. IInv => TypeOK
    BY DEF IInv
  <1> QED BY <1>1, SpecIInv, PTL

\* NotifyUsers never turns an id into a handle whose subscription is gone.
THEOREM AlarmNeverStale == Spec => []NoStaleHandle
  BY InvImpliesNoStaleHandle, SpecIInv, PTL

\* The index by subscription and the index by device are inverse to each other
\* and hold what the live subscriptions asked for.
THEOREM AlarmMapsAgree == Spec => []MapsAgree
  <1>1. IInv => MapsAgree
    BY DEF IInv
  <1> QED BY <1>1, SpecIInv, PTL

\* The destructor of a dialog never finds a subscription to delete.
THEOREM AlarmNeverDestroyedSilently == Spec => []NeverDestroyedSilently
  <1>1. IInv => NeverDestroyedSilently
    BY DEF IInv
  <1> QED BY <1>1, SpecIInv, PTL

\* Every live subscription has a timer of its current sequence number.
THEOREM AlarmTimerArmed == Spec => []TimerArmed
  <1>1. IInv => TimerArmed
    BY DEF IInv
  <1> QED BY <1>1, SpecIInv, PTL

\* The four of them together.
THEOREM AlarmSubscriptionsSound == Spec => []SubscriptionsSound
  <1>1. NoStaleHandle /\ MapsAgree /\ NeverDestroyedSilently /\ TimerArmed => SubscriptionsSound
    BY DEF SubscriptionsSound
  <1> QED
    BY <1>1, AlarmNeverStale, AlarmMapsAgree, AlarmNeverDestroyedSilently, AlarmTimerArmed, PTL

\* An alarm reaches every live subscription that asked for its device.
THEOREM AlarmReaches == Spec => AlarmReachesAll
  <1>1. ASSUME IInv, [Next]_vars
        PROVE  [\A dev \in Device : Alarm(dev) =>
                  \A i \in live : named[i][dev] > 0 => notifies'[i] > notifies[i]]_vars
    <2> SUFFICES ASSUME NEW dev \in Device, Alarm(dev), NEW i \in live, named[i][dev] > 0
                 PROVE  notifies'[i] > notifies[i]
      OBVIOUS
    <2>1. i \in Id /\ notifies[i] \in Nat
      BY <1>1, LiveIsId
    <2>2. mInvertMap[dev][i] = named[i][dev] /\ mInvertMap[dev][i] \in Nat
      BY <1>1, <2>1 DEF IInv, TypeOK, MapsAgree
    <2>3. ~ \E j \in Id : mInvertMap[dev][j] > 0 /\ j \notin live
      BY <1>1, InvImpliesNoStaleHandle DEF NoStaleHandle
    <2>4. notifies'[i] = notifies[i] + mInvertMap[dev][i]
      BY <2>1, <2>3 DEF Alarm, notifyCount
    <2> QED BY <2>1, <2>2, <2>4
  <1> QED BY <1>1, SpecIInv, PTL DEF Spec, AlarmReachesAll
=============================================================================
