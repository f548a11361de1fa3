------------------------- MODULE AlarmSubscription -------------------------
(***************************************************************************)
(* Alarm subscriptions: the server subscriptions of the dialog usage       *)
(* manager and the two index maps of MegaServerSubscriptionHandler, which  *)
(* the server pager handler reads to forward an alarm to its subscribers.  *)
(* All of it runs in the thread of the dialog usage manager, one message   *)
(* of its queue at a time: a SUBSCRIBE, a MESSAGE, the answer to a NOTIFY, *)
(* a timer, or the deferred destruction of a dialog or dialog set.         *)
(***************************************************************************)
EXTENDS Integers

CONSTANTS
  Dialog,       \* dialogs, each in a dialog set of its own
  Device,       \* devices that raise alarms
  EventId,      \* values of the id parameter of the Event header
  NoEventId,    \* an Event header without id
  NoDialog,
  MaxHandle,    \* bound on the server subscriptions of a behaviour
  MaxNamed,     \* bound on the elements of a SUBSCRIBE body naming one device
  MaxNotify,    \* bound on the unanswered alarm NOTIFYs of a subscription
  MaxRefresh    \* bound on the unanswered refreshes of a subscription

ASSUME AlarmAssumption ==
  /\ NoEventId \notin EventId
  /\ NoDialog \notin Dialog
  /\ MaxHandle \in Nat /\ MaxNamed \in Nat
  /\ MaxNotify \in Nat /\ MaxRefresh \in Nat

Id == 1 .. MaxHandle
Body == [Device -> 0 .. MaxNamed]
Nowhere == [d \in Device |-> 0]

VARIABLES
  mLastId,       \* HandleManager: the last id given, never reused
  live,          \* ids the handle map holds
  sub,           \* dialog, event id and timer sequence of each subscription
  dialog,        \* where each dialog and its set are in their life
  mForwardMap,   \* how often each subscription lists a device
  mInvertMap,    \* how often each device lists a subscription
  timers,        \* Subscription timers not yet dispatched
  notifies,      \* NOTIFYs without a final response
  unanswered,    \* refreshing SUBSCRIBEs no response was sent to
  stale,         \* a handle without an object was dereferenced
  named,         \* (for the properties) devices of the first SUBSCRIBE
  ended          \* (for the properties) the callback before destruction

maps == <<mForwardMap, mInvertMap>>
history == <<named, ended>>
vars == <<mLastId, live, sub, dialog, maps, timers, notifies, unanswered,
          stale, history>>

NoSub == [dialog |-> NoDialog, id |-> NoEventId, mTimerSeq |-> 0]

Init ==
  /\ mLastId = 0
  /\ live = {}
  /\ sub = [i \in Id |-> NoSub]
  /\ dialog = [d \in Dialog |-> "none"]
  /\ mForwardMap = [i \in Id |-> Nowhere]
  /\ mInvertMap = [d \in Device |-> [i \in Id |-> 0]]
  /\ timers = {}
  /\ notifies = [i \in Id |-> 0]
  /\ unanswered = [i \in Id |-> 0]
  /\ stale = FALSE
  /\ named = [i \in Id |-> Nowhere]
  /\ ended = [i \in Id |-> "no"]

-----------------------------------------------------------------------------
(* The handler's maps.                                                     *)

\* The loop of onNewSubscription over the IE_HEADER elements of the body.
indexBody(i, body) ==
  /\ mForwardMap' = [mForwardMap EXCEPT ![i] =
                       [d \in Device |-> @[d] + body[d]]]
  /\ mInvertMap' = [d \in Device |->
                      [mInvertMap[d] EXCEPT ![i] = @ + body[d]]]

\* onTerminated, for every subscription of S: the id leaves the list of each
\* device that its forward list names, and the forward list is erased.
onTerminated(S) ==
  /\ mInvertMap' = [d \in Device |-> [i \in Id |->
       IF i \in S /\ mForwardMap[i][d] > 0 THEN 0 ELSE mInvertMap[d][i]]]
  /\ mForwardMap' = [i \in Id |-> IF i \in S THEN Nowhere ELSE mForwardMap[i]]

-----------------------------------------------------------------------------
(* Dialogs.  A dialog without usages asks the queue for its destruction;   *)
(* deleting it makes the set do the same.  Until then both are in the maps *)
(* of the dialog usage manager, marked as being destroyed.                 *)

Usages(d) == {i \in live : sub[i].dialog = d}

\* Mutant: requests are still given to a dialog set that is being destroyed.
setStillFound(d) == dialog[d] \in {"live", "setDestroying"}

\* findDialogSet and the isDestroying test of DialogSet::dispatch.
findDialog(d) == dialog[d] = "live"

\* possiblyDie of the dialogs that lose the usages S.
possiblyDie(S) ==
  dialog' = [d \in Dialog |->
    IF dialog[d] = "live" /\ Usages(d) # {} /\ Usages(d) \subseteq S
    THEN "destroying" ELSE dialog[d]]

\* onTerminated and delete this, for every subscription of S.
terminate(S, why) ==
  /\ onTerminated(S)
  /\ live' = live \ S
  /\ ended' = [i \in Id |-> IF i \in S THEN why ELSE ended[i]]
  /\ possiblyDie(S)

\* BaseSubscription::matches on the Event header of a SUBSCRIBE.
matches(i, e) == e = NoEventId \/ e = sub[i].id

\* Usages join their dialog's list in the order of their ids.
findMatchingServerSub(d, e) ==
  {i \in Usages(d) : matches(i, e) /\ \A j \in Usages(d) : matches(j, e) => i <= j}

\* Mutant: the timer takes the sequence number before it is incremented.
postIncrement(i) == timers' = timers \cup {<<i, sub[i].mTimerSeq>>}

\* ServerSubscription::send of a 2xx arms the expiry timer.
sendAccept(i) == timers' = timers \cup {<<i, sub[i].mTimerSeq + 1>>}

-----------------------------------------------------------------------------
(* SUBSCRIBE.                                                              *)

\* A SUBSCRIBE that opens dialog d, or one inside d that matches no
\* subscription of it, makes the subscription mLastId + 1.
Creates(d, e) ==
  /\ mLastId < MaxHandle
  /\ \/ dialog[d] = "none"
     \/ findDialog(d) /\ findMatchingServerSub(d, e) = {}
  /\ mLastId' = mLastId + 1

\* onNewSubscription: index the body, accept with 200.
Subscribe(d, e, body) ==
  /\ Creates(d, e)
  /\ LET i == mLastId + 1 IN
     /\ live' = live \cup {i}
     /\ sub' = [sub EXCEPT ![i] = [dialog |-> d, id |-> e, mTimerSeq |-> 1]]
     /\ named' = [named EXCEPT ![i] = body]
     /\ indexBody(i, body)
     /\ sendAccept(i)
  /\ dialog' = [dialog EXCEPT ![d] = IF @ = "none" THEN "live" ELSE @]
  /\ UNCHANGED <<notifies, unanswered, stale, ended>>

\* The usage that a single SUBSCRIBE creates and destroys is the dialog's
\* only one exactly when it opened the dialog.
passingUsage(d) ==
  dialog' = [dialog EXCEPT ![d] = IF @ = "none" THEN "destroying" ELSE @]

\* Expires: 0 in a first SUBSCRIBE.  onNewSubscription indexes and accepts,
\* a second 200 follows, then end(Timeout): NOTIFY, onTerminated, delete.
\* The maps end as they began, the two timers find no usage.
Poll(d, e) ==
  /\ Creates(d, e)
  /\ LET i == mLastId + 1 IN
     /\ sub' = [sub EXCEPT ![i] = [dialog |-> d, id |-> e, mTimerSeq |-> 2]]
     /\ timers' = timers \cup {<<i, 1>>, <<i, 2>>}
     /\ notifies' = [notifies EXCEPT ![i] = @ + 1]
     /\ ended' = [ended EXCEPT ![i] = "onExpiredByClient"]
  /\ passingUsage(d)
  /\ UNCHANGED <<live, maps, unanswered, stale, named>>

\* getExpires refuses a first SUBSCRIBE without Expires: onError, 400, and,
\* the state being Initial, onTerminated and delete.
Reject(d, e) ==
  /\ Creates(d, e)
  /\ LET i == mLastId + 1 IN
     /\ sub' = [sub EXCEPT ![i] = [dialog |-> d, id |-> e, mTimerSeq |-> 0]]
     /\ ended' = [ended EXCEPT ![i] = "onError"]
  /\ passingUsage(d)
  /\ UNCHANGED <<live, maps, timers, notifies, unanswered, stale, named>>

\* Mutant: the refresh drops the old timer without arming a new one.
refreshDisarms(i) ==
  /\ timers' = timers \ {<<i, sub[i].mTimerSeq>>}
  /\ UNCHANGED sub

\* onRefresh of the handler is empty: no response, no new timer.
onRefresh(i) == UNCHANGED <<timers, sub>>

Refresh(d, e) ==
  /\ findDialog(d)
  /\ \E i \in findMatchingServerSub(d, e) :
       /\ unanswered[i] < MaxRefresh
       /\ unanswered' = [unanswered EXCEPT ![i] = @ + 1]
       /\ onRefresh(i)
  /\ UNCHANGED <<mLastId, live, dialog, maps, notifies, stale, history>>

\* Expires: 0 in a later SUBSCRIBE: 200, end(Timeout).
Unsubscribe(d, e) ==
  /\ findDialog(d)
  /\ \E i \in findMatchingServerSub(d, e) :
       /\ sendAccept(i)
       /\ sub' = [sub EXCEPT ![i].mTimerSeq = @ + 1]
       /\ notifies' = [notifies EXCEPT ![i] = @ + 1]
       /\ terminate({i}, "onExpiredByClient")
  /\ UNCHANGED <<mLastId, unanswered, stale, named>>

-----------------------------------------------------------------------------
(* Timers, NOTIFYs and alarms.                                             *)

\* A timer of the queue: dropped without a usage, ignored with an old seq.
Timeout(i, seq) ==
  /\ <<i, seq>> \in timers
  /\ timers' = timers \ {<<i, seq>>}
  /\ IF i \in live /\ seq = sub[i].mTimerSeq
     THEN /\ notifies' = [notifies EXCEPT ![i] = @ + 1]
          /\ terminate({i}, "onExpired")
     ELSE UNCHANGED <<notifies, maps, live, ended, dialog>>
  /\ UNCHANGED <<mLastId, sub, unanswered, stale, named>>

\* The final response to a NOTIFY of subscription i.  A failure goes to every
\* server subscription of the dialog, whichever of them sent the NOTIFY.
NotifyAnswered(i, effect) ==
  /\ notifies[i] > 0
  /\ notifies' = [notifies EXCEPT ![i] = @ - 1]
  /\ LET d == sub[i].dialog IN
     IF effect = "UsageTermination" /\ findDialog(d)
     THEN terminate(Usages(d), "onError")
     ELSE UNCHANGED <<maps, live, ended, dialog>>
  /\ UNCHANGED <<mLastId, sub, timers, unanswered, stale, named>>

Effect == {"Success", "TransactionTermination", "UsageTermination"}

\* Mutant: only the first subscriber of the device is notified.
notifyFirst(dev, i) ==
  IF mInvertMap[dev][i] > 0 /\ \A j \in Id : mInvertMap[dev][j] > 0 => i <= j
  THEN mInvertMap[dev][i] ELSE 0

\* NotifyUsers sends one NOTIFY for every entry of the device's list.
notifyCount(dev, i) == mInvertMap[dev][i]

\* onMessageArrived with an alarm of device dev: 200, then NotifyUsers, which
\* turns each id of the list into a handle and dereferences it.
Alarm(dev) ==
  /\ \A i \in Id : notifyCount(dev, i) = 0
                   \/ notifies[i] + notifyCount(dev, i) <= MaxNotify
  /\ IF \E i \in Id : mInvertMap[dev][i] > 0 /\ i \notin live
     THEN stale' = TRUE /\ UNCHANGED notifies
     ELSE /\ notifies' = [i \in Id |-> notifies[i] + notifyCount(dev, i)]
          /\ UNCHANGED stale
  /\ UNCHANGED <<mLastId, live, sub, dialog, maps, timers, unanswered, history>>

\* DestroyUsage of a dialog or of its set: the destructors delete what usages
\* are left and call no handler.
Destroy(d, from, to) ==
  /\ dialog[d] = from
  /\ dialog' = [dialog EXCEPT ![d] = to]
  /\ live' = live \ Usages(d)
  /\ ended' = [i \in Id |-> IF i \in Usages(d) THEN "destructor" ELSE ended[i]]
  /\ UNCHANGED <<mLastId, sub, maps, timers, notifies, unanswered, stale,
                 named>>

DestroyDialog(d) == Destroy(d, "destroying", "setDestroying")
DestroyDialogSet(d) == Destroy(d, "setDestroying", "gone")

Next ==
  \/ \E d \in Dialog, e \in EventId \cup {NoEventId} :
       \/ \E body \in Body : Subscribe(d, e, body)
       \/ Poll(d, e)
       \/ Reject(d, e)
       \/ Refresh(d, e)
       \/ Unsubscribe(d, e)
  \/ \E i \in Id, seq \in 1 .. 2 : Timeout(i, seq)
  \/ \E i \in Id, effect \in Effect : NotifyAnswered(i, effect)
  \/ \E dev \in Device : Alarm(dev)
  \/ \E d \in Dialog : DestroyDialog(d) \/ DestroyDialogSet(d)

\* The timer queue is polled by the stack's thread, and the thread of the dialog
\* usage manager takes whatever is in its queue.
Fairness ==
  /\ \A i \in Id, seq \in 1 .. 2 : WF_vars(Timeout(i, seq))
  /\ \A d \in Dialog : WF_vars(DestroyDialog(d) \/ DestroyDialogSet(d))

Spec == Init /\ [][Next]_vars
FairSpec == Spec /\ Fairness

-----------------------------------------------------------------------------
(* Properties.                                                             *)

Callback == {"no", "onError", "onExpired", "onExpiredByClient", "destructor"}
Phase == {"none", "live", "destroying", "setDestroying", "gone"}

\* Every variable has its type.
TypeOK ==
  /\ mLastId \in 0 .. MaxHandle
  /\ live \subseteq 1 .. mLastId
  /\ sub \in [Id -> [dialog : Dialog \cup {NoDialog},
                     id : EventId \cup {NoEventId}, mTimerSeq : 0 .. 2]]
  /\ dialog \in [Dialog -> Phase]
  /\ mForwardMap \in [Id -> [Device -> Nat]]
  /\ mInvertMap \in [Device -> [Id -> Nat]]
  /\ timers \subseteq Id \X (1 .. 2)
  /\ notifies \in [Id -> 0 .. MaxNotify + 1]
  /\ unanswered \in [Id -> 0 .. MaxRefresh]
  /\ stale \in BOOLEAN
  /\ named \in [Id -> Body]
  /\ ended \in [Id -> Callback]

\* An alarm never meets a handle whose subscription is gone: whatever way a
\* subscription ends, its id has left the list of every device by then
\* (NotifyUsers dereferences the handle without a check).
NoStaleHandle ==
  /\ ~stale
  /\ \A dev \in Device, i \in Id : mInvertMap[dev][i] > 0 => i \in live

\* The two index maps are each other's inverse, with the same multiplicity,
\* and hold exactly what the first SUBSCRIBE of each live subscription named.
MapsAgree ==
  \A dev \in Device, i \in Id :
    /\ mForwardMap[i][dev] = mInvertMap[dev][i]
    /\ mInvertMap[dev][i] = IF i \in live THEN named[i][dev] ELSE 0

\* No subscription is deleted by the destructor of its dialog, behind the
\* handler's back: a dialog that is being destroyed takes no new usage.
NeverDestroyedSilently == \A i \in Id : ended[i] # "destructor"

\* A live subscription has a timer under way whose sequence number is still
\* its own, so that it cannot outlive its expiry.
TimerArmed == \A i \in live : <<i, sub[i].mTimerSeq>> \in timers

\* However subscriptions end and their dialogs are destroyed, the handler's maps
\* are exact, no handle is stale, no end goes unreported and none is without
\* the timer that will end it.
SubscriptionsSound == NoStaleHandle /\ MapsAgree /\ NeverDestroyedSilently /\ TimerArmed

\* An alarm that finds no stale handle is sent to every live subscription
\* that asked for the device.
AlarmReachesAll ==
  [][\A dev \in Device : Alarm(dev) =>
       \A i \in live : named[i][dev] > 0 => notifies'[i] > notifies[i]]_vars

\* Every subscription ends: by its subscriber, a refused NOTIFY or its timer.
EverySubscriptionEnds == \A i \in Id : (i \in live) ~> (i \notin live)
=============================================================================
