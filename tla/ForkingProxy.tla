---------------------------- MODULE ForkingProxy ----------------------------
(***************************************************************************)
(* One request that the repro proxy forks (repro/Proxy.cxx,                *)
(* RequestContext.cxx, ResponseContext.cxx and the target handlers of      *)
(* repro/monkeys).  The proxy thread takes one message at a time from its  *)
(* queue, so that every action below is one handler run to completion:     *)
(* the request, its CANCEL, the answer of the user database, a response of *)
(* a target, timer C, a fork-control timer, or the notice that a           *)
(* transaction of the stack has ended.                                     *)
(*                                                                         *)
(* The request context is the record rc; an operator that takes a context  *)
(* and returns one models a member function that modifies it.  Targets are *)
(* transaction ids (each Target object draws a fresh one); UriOf is the    *)
(* contact a target stands for, and two targets may share one.             *)
(***************************************************************************)
EXTENDS Integers, Sequences, FiniteSets, SequencesExt

CONSTANTS
  Target,             \* transaction ids of targets
  UriOf,              \* [Target -> contact]
  QOf,                \* [Target -> q value], 0 for a target without one
  Methods,            \* subset of {"INVITE", "OTHER"}
  AuthCodes,          \* codes that a monkey of the request chain refuses with
  Config,             \* how the proxy is set up and what its peers may do
  MaxSerial,          \* bound: timer C restarts
  MaxSent             \* bound: final responses sent upstream

None == -1 \* status code of a default-constructed response

Status == {"none", "Candidate", "Started", "Cancelled", "Terminated"}
Map    == {"none", "Candidate", "Active", "Terminated"}

\* A batch is what the request chain adds; every Target object is in one place of it.
ASSUME ConfigAssumption ==
  /\ IsFiniteSet(Target)
  /\ Methods \subseteq {"INVITE", "OTHER"} /\ AuthCodes \subseteq 300..699
  /\ \A c \in Config : c.Finals \subseteq 200..699
  /\ \A c \in Config :
       /\ c.QTarget \subseteq Target /\ c.Spare \subseteq Target
       /\ c.mForkBehavior \in {"FULL_SEQUENTIAL", "EQUAL_Q_PARALLEL", "FULL_PARALLEL"}
       /\ {c.mDoQValue, c.mCancelBetweenForkGroups, c.mWaitForTerminate, c.SameDelay, c.TimerC,
           c.mRecursiveRedirect, c.AsyncAuth, c.ViaLess, c.Stray2xx} \subseteq BOOLEAN
       /\ c.Batches \subseteq Seq(Seq(Target))
       /\ \A b \in c.Batches : \A i, j \in DOMAIN b : \A k \in DOMAIN b[i], l \in DOMAIN b[j] :
            b[i][k] = b[j][l] => i = j /\ k = l

VARIABLES
  config,    \* the member of Config in use; it never changes
  alive,     \* "none", "live" or "deleted": the RequestContext object
  rc,        \* its fields, and those of its ResponseContext
  server,    \* mServerRequestContexts has an entry for the request
  waiting,   \* the user database has been asked and has not answered
  cancelled, \* the caller has sent CANCEL
  answer,    \* final code a client transaction has given, 0 before
  ringing,   \* targets whose client transaction has given a provisional one
  heard      \* codes of the final responses weighed before the final answer

vars == <<config, alive, rc, server, waiting, cancelled, answer, ringing, heard>>

\* The options the proxy was started with
mDoQValue                == config.mDoQValue
mForkBehavior            == config.mForkBehavior
mCancelBetweenForkGroups == config.mCancelBetweenForkGroups
mWaitForTerminate        == config.mWaitForTerminate
SameDelay                == config.SameDelay \* of cancelling and beginning a group
TimerC                   == config.TimerC    \* mTimerC > 0
mRecursiveRedirect       == config.mRecursiveRedirect \* the lemur is installed
AsyncAuth                == config.AsyncAuth \* the user database answers later

\* What the request may meet
Batches  == config.Batches  \* what the request chain adds: sequences of queues
QTarget  == config.QTarget  \* targets that are QValueTarget objects
Spare    == config.Spare    \* targets that only the contacts of a 3xx add
Finals   == config.Finals   \* final status codes that targets answer with
ViaLess  == config.ViaLess  \* a target may strip our upstream Via
Stray2xx == config.Stray2xx \* a target that has failed may send a 2xx as well

\* Client transactions that have not given their final response
Owed == {t \in rc.clients : answer[t] = 0}

(***************************************************************************)
(* Reading a context.                                                      *)
(***************************************************************************)
In(r, m) == {t \in Target : r.where[t] = m}
hasActiveTransactions(r)    == In(r, "Active") # {}
hasCandidateTransactions(r) == ~r.mHaveSentFinalResponse /\ In(r, "Candidate") # {}
hasTargets(r) == hasCandidateTransactions(r) \/ hasActiveTransactions(r) \/ In(r, "Terminated") # {}
areAllTransactionsTerminated(r) == In(r, "Candidate") = {} /\ In(r, "Active") = {}

NewContext(method) ==
  [method |-> method, mHaveSentFinalResponse |-> FALSE,
   where |-> [t \in Target |-> "none"], status |-> [t \in Target |-> "none"],
   queues |-> <<>>, mTargetList |-> {}, best |-> None, mBestPriority |-> 50,
   mTransactionCount |-> 1, clients |-> {}, mTCSerial |-> 0,
   mInitialTimerCSet |-> FALSE, timers |-> {}, forks |-> {}, sent |-> <<>>]

(***************************************************************************)
(* RequestContext::sendResponse and updateTimerC.  sent keeps the final    *)
(* responses, and a response that has no status code at all.               *)
(***************************************************************************)
sendResponse(r, code) ==
  [r EXCEPT !.mHaveSentFinalResponse = @ \/ code > 199,
            !.sent = IF code \in 1..199 THEN @ ELSE Append(@, code)]

updateTimerC(r) ==
  [r EXCEPT !.mTCSerial = @ + 1,
            !.timers = IF TimerC THEN @ \cup {r.mTCSerial + 1} ELSE @]

(***************************************************************************)
(* Moving targets between the three maps.                                  *)
(***************************************************************************)
MoveTo(r, S, m, s) ==
  [r EXCEPT !.where  = [t \in Target |-> IF t \in S THEN m ELSE @[t]],
            !.status = [t \in Target |-> IF t \in S THEN s ELSE @[t]]]

\* cancelClientTransaction(Target*) on every target of S
cancelTargets(r, S) ==
  [r EXCEPT !.status = [t \in Target |->
     IF t \notin S THEN @[t]
     ELSE IF @[t] = "Started" THEN "Cancelled"
     ELSE IF @[t] = "Candidate" THEN "Terminated" ELSE @[t]]]

clearCandidateTransactions(r) ==
  LET S == In(r, "Candidate")
  IN  [cancelTargets(r, S) EXCEPT
         !.where = [t \in Target |-> IF t \in S THEN "Terminated" ELSE @[t]]]

cancelActiveClientTransactions(r) ==
  IF r.mHaveSentFinalResponse THEN r ELSE cancelTargets(r, In(r, "Active"))

sparesActive(r) == clearCandidateTransactions(r)
sparesCandidates(r) == cancelTargets(r, In(r, "Active"))
cancelAllClientTransactions(r) ==
  clearCandidateTransactions(
    IF r.method = "INVITE" THEN cancelTargets(r, In(r, "Active")) ELSE r)

\* cancelClientTransaction(tid) on every target of S
cancelClientTransaction(r, S) ==
  LET active == IF r.method = "INVITE" THEN S \cap In(r, "Active") ELSE {}
  IN  MoveTo(cancelTargets(r, active), S \cap In(r, "Candidate"), "Terminated", "Terminated")

terminateClientTransaction(r, t) ==
  IF r.where[t] \in {"Active", "Candidate"}
  THEN MoveTo(r, {t}, "Terminated", "Terminated") ELSE r

removeClientTransaction(r, t) == MoveTo(r, {t}, "none", "none")

(***************************************************************************)
(* Adding and starting targets.                                            *)
(***************************************************************************)
isDuplicate(r, t) == UriOf[t] \in r.mTargetList

\* addTarget and addTargetBatch for the queues of b
addBatch(r, b) ==
  IF r.mHaveSentFinalResponse THEN r
  ELSE [MoveTo(r, UNION {ToSet(q) : q \in ToSet(b)}, "Candidate", "Candidate") EXCEPT
          !.queues = @ \o b]

\* beginClientTransaction(Target*), the insertion in mActiveTransactionMap
\* and sendRequest
start(r, t) ==
  LET r1 == IF r.mInitialTimerCSet THEN r
            ELSE updateTimerC([r EXCEPT !.mInitialTimerCSet = TRUE])
  IN  [MoveTo(r1, {t}, "Active", "Started") EXCEPT
         !.mTargetList = @ \cup {UriOf[t]},
         !.clients = @ \cup {t}, !.mTransactionCount = @ + 1]

beginClientTransaction(r, t) ==
  IF r.where[t] # "Candidate" THEN r
  ELSE IF isDuplicate(r, t) \/ r.mHaveSentFinalResponse
       THEN MoveTo(r, {t}, "Terminated", "Terminated")
  ELSE start(r, t)

beginEach(r, q) == FoldLeft(beginClientTransaction, r, q)

\* Also beginClientTransactions(): every candidate, in the order of the map
beginClientTransactions(r) == beginEach(r, SetToSeq(In(r, "Candidate")))

(***************************************************************************)
(* The baboons.  SimpleTargetHandler starts one queue after the other      *)
(* until something is active, and everything else if nothing is.           *)
(***************************************************************************)
beginNext(r, q) == IF hasActiveTransactions(r) THEN r ELSE beginEach(r, q)

beginRest(r) == IF hasActiveTransactions(r) THEN r ELSE beginClientTransactions(r)

SimpleTargetHandler(r) == beginRest(FoldLeft(beginNext, r, r.queues))

\* fillNextTargetGroup: from the first candidate of the queue on
fromCandidate(r, q) ==
  LET ready == {i \in DOMAIN q : r.where[q[i]] = "Candidate"}
  IN  IF ready = {} THEN <<>> ELSE SubSeq(q, Min(ready), Len(q))

firstGroup(q) ==
  LET equal == {n \in 1..Len(q) : \A j \in 1..n : QOf[q[j]] = QOf[q[1]]}
  IN  IF q = <<>> THEN <<>>
      ELSE CASE mForkBehavior = "FULL_SEQUENTIAL"  -> <<q[1]>>
             [] mForkBehavior = "EQUAL_Q_PARALLEL" -> SubSeq(q, 1, Max(equal))
             [] mForkBehavior = "FULL_PARALLEL"    -> q

fillNextTargetGroup(r, q) == firstGroup(fromCandidate(r, q))

\* The elements of q that are in S, in their order
keepIn(q, S) == FoldLeft(LAMBDA kept, t : IF t \in S THEN Append(kept, t) ELSE kept, <<>>, q)

\* The inner loop of QValueTargetHandler: groups of one queue are begun until
\* something starts; the result keeps the started targets for cancellation.
startedOf(r, g, s) ==
  [rc |-> s, started |-> keepIn(g, In(r, "Candidate") \cap In(s, "Active"))]

beginGroup(r, g) == startedOf(r, g, beginEach(r, g))

nextGroup(p, q) ==
  IF p.started # <<>> THEN p ELSE beginGroup(p.rc, fillNextTargetGroup(p.rc, q))

beginGroups(r, q) == FoldLeft(LAMBDA p, t : nextGroup(p, q), [rc |-> r, started |-> <<>>], q)

isMyType(r, t) == r.where[t] # "none" /\ t \in QTarget

removeTerminated(r, q) == keepIn(q, Target \ In(r, "Terminated"))

isBusy(r, q) == \E t \in ToSet(q) : r.where[t] = "Active"

\* The outer loop after the groups g of queue q; a.queues are those already seen.
afterGroups(a, q, g) ==
  LET left == removeTerminated(g.rc, q)
      new  == g.started # <<>>
  IN  [rc     |-> g.rc,
       active |-> isBusy(a.rc, q) \/ new,
       cancel |-> IF mCancelBetweenForkGroups THEN a.cancel \o g.started ELSE a.cancel,
       begin  |-> IF new /\ ~mWaitForTerminate
                  THEN fillNextTargetGroup(g.rc, q) ELSE a.begin,
       queues |-> IF left = <<>> THEN a.queues ELSE Append(a.queues, left)]

\* One round of the outer loop.
tryQueue(a, q) ==
  IF q = <<>> /\ ~a.active THEN a
  ELSE IF a.active \/ ~isMyType(a.rc, Head(q)) THEN [a EXCEPT !.queues = Append(@, q)]
  ELSE afterGroups(a, q, IF isBusy(a.rc, q) THEN [rc |-> a.rc, started |-> <<>>]
                         ELSE beginGroups(a.rc, q))

\* The prologue of QValueTargetHandler::process for a ForkControlMessage
onForkControl(r, fc) ==
  LET r1 == IF mCancelBetweenForkGroups /\ hasCandidateTransactions(r)
            THEN cancelClientTransaction(r, ToSet(fc.cancel)) ELSE r
  IN  IF mWaitForTerminate THEN r1 ELSE beginEach(r1, fc.begin)

Posts(begin, cancel) ==
  IF begin = <<>> /\ cancel = <<>> THEN {}
  ELSE IF SameDelay THEN {[begin |-> begin, cancel |-> cancel]}
  ELSE {[begin |-> b, cancel |-> <<>>] : b \in {begin} \ {<<>>}} \cup
       {[begin |-> <<>>, cancel |-> c] : c \in {cancel} \ {<<>>}}

NoFork == [begin |-> <<>>, cancel |-> <<>>]

tryQueues(r, cancel) ==
  FoldLeft(tryQueue, [rc |-> r, active |-> FALSE, begin |-> <<>>, queues |-> <<>>,
                      cancel |-> cancel], r.queues)

\* The timers are posted; without a new branch the next handler has its turn.
schedule(a) == [a.rc EXCEPT !.queues = a.queues, !.forks = @ \cup Posts(a.begin, a.cancel)]

afterLoop(a, isFork) ==
  IF a.active \/ isFork THEN schedule(a) ELSE SimpleTargetHandler(schedule(a))

QValueTargetHandler(r, fc, isFork) ==
  afterLoop(IF ~isFork THEN tryQueues(r, <<>>)
            ELSE tryQueues(onForkControl(r, fc),
                           IF ~mWaitForTerminate /\ mCancelBetweenForkGroups
                           THEN fc.begin ELSE <<>>), isFork)

targetChain(r, fc, isFork) ==
  IF mDoQValue THEN QValueTargetHandler(r, fc, isFork) ELSE SimpleTargetHandler(r)

(***************************************************************************)
(* Responses.  The smaller the priority the better the response; 6xx is    *)
(* stored with priority 0.                                                 *)
(***************************************************************************)
getPriority(code) ==
  CASE code \in 300..399         -> 5
    [] code = 412                -> 1
    [] code = 484                -> 2
    [] code \in {422, 423}       -> 3
    [] code \in {401, 407}       -> 4
    [] code = 402                -> 6
    [] code = 493                -> 10
    [] code = 420                -> 12
    [] code \in {406, 415, 488}  -> 13
    [] code \in {416, 417}       -> 20
    [] code \in {405, 501}       -> 21
    [] code = 580                -> 22
    [] code = 485                -> 23
    [] code \in {428, 429, 494}  -> 24
    [] code \in {413, 414}       -> 25
    [] code = 421                -> 26
    [] code = 486                -> 30
    [] code = 480                -> 31
    [] code = 410                -> 32
    [] code \in {436, 437, 513}  -> 33
    [] code = 403                -> 34
    [] code = 404                -> 35
    [] code = 487                -> 36
    [] code \in {482, 483}       -> 41
    [] code \in (500..599) \ {501, 503, 513, 580} -> 42
    [] code = 408                -> 49
    [] OTHER                     -> 43

\* The code that goes upstream for the best response
visible(code, method) ==
  IF code = 503 \/ (code = 408 /\ method # "INVITE") THEN 480 ELSE code

forwardBestResponse(r) ==
  LET r1 == clearCandidateTransactions(r)
      r2 == IF r.method = "INVITE" THEN cancelActiveClientTransactions(r1) ELSE r1
      c  == visible(r.best, r.method)
  IN  sendResponse([r2 EXCEPT !.best = c], c)

forwardIfDone(r) == IF areAllTransactionsTerminated(r) THEN forwardBestResponse(r) ELSE r

\* Weighing a 3xx, 4xx or 5xx against the best response so far
keepLast(r, code) == [r EXCEPT !.best = code, !.mBestPriority = getPriority(code)]
weigh(r, code) ==
  LET p == getPriority(code)
  IN  IF p < r.mBestPriority THEN [r EXCEPT !.best = code, !.mBestPriority = p]
      ELSE IF p > r.mBestPriority THEN r
      ELSE [r EXCEPT !.best = IF code = 407 THEN 407
                              ELSE IF code \in 300..399 THEN 300 ELSE @]

onProvisional(r, code) ==
  LET r1 == updateTimerC(r)
  IN  IF r.mHaveSentFinalResponse \/ code = 100 THEN r1 ELSE sendResponse(r1, code)

onSuccess(r, t, code) ==
  LET r1 == terminateClientTransaction(r, t)
      r2 == IF r.method = "INVITE" THEN cancelAllClientTransactions(r1)
            ELSE clearCandidateTransactions(r1)
  IN  IF r.method = "INVITE" \/ ~r.mHaveSentFinalResponse
      THEN sendResponse([r2 EXCEPT !.best = code], code)
      ELSE r1

returnsEarly(r, t, code) ==
  IF r.mHaveSentFinalResponse THEN r
  ELSE forwardIfDone(weigh(terminateClientTransaction(r, t), code))
onFailure(r, t, code) ==
  LET r1 == terminateClientTransaction(r, t)
  IN  IF r1.mHaveSentFinalResponse THEN r1 ELSE forwardIfDone(weigh(r1, code))

onGlobalFailure(r, t, code) ==
  LET r1 == terminateClientTransaction(r, t)
      r2 == IF r1.best \div 100 = 6 THEN r1
            ELSE LET b == [r1 EXCEPT !.best = code, !.mBestPriority = 0]
                 IN  IF r.method = "INVITE" THEN cancelAllClientTransactions(b) ELSE b
  IN  IF r1.mHaveSentFinalResponse THEN r1 ELSE forwardIfDone(r2)

processResponse(r, t, code, via) ==
  IF ~via THEN (IF code > 199 THEN terminateClientTransaction(r, t) ELSE r)
  ELSE IF r.where[t] # "Active"
       THEN (IF code \in 200..299 THEN sendResponse(r, code) ELSE r)
  ELSE CASE code < 200          -> onProvisional(r, code)
         [] code \in 200..299   -> onSuccess(r, t, code)
         [] code \in 300..599   -> onFailure(r, t, code)
         [] code \in 600..699   -> onGlobalFailure(r, t, code)

\* The end of RequestContext::process: nothing is active and nothing was sent
onQuiescent(r) ==
  IF r.mHaveSentFinalResponse \/ hasActiveTransactions(r) THEN r
  ELSE IF hasCandidateTransactions(r) THEN sendResponse(r, 500)
  ELSE forwardBestResponse(r)

\* The part of RequestContext::process that follows the request chain
afterRequestChain(r) ==
  IF r.mHaveSentFinalResponse THEN r
  ELSE IF ~hasTargets(r) THEN sendResponse(r, 480)
  ELSE onQuiescent(targetChain(r, NoFork, FALSE))

\* The same part for the answer of the user database, which keeps a 408 back
afterAsyncChain(r) ==
  IF r.mHaveSentFinalResponse THEN r
  ELSE IF ~hasTargets(r) THEN sendResponse(r, 480)
  ELSE LET s == targetChain(r, NoFork, FALSE)
       IN  IF ~hasCandidateTransactions(s) /\ s.best = 408 THEN s ELSE onQuiescent(s)

sendsTwice(r) ==
  LET s == cancelAllClientTransactions(r)
  IN  sendResponse(s, 487)
processCancel(r) ==
  IF r.mHaveSentFinalResponse THEN r
  ELSE LET s == cancelAllClientTransactions(r)
       IN  IF hasActiveTransactions(s) THEN s ELSE sendResponse(s, 487)

spareOnTimerC(r) ==
  IF r.mHaveSentFinalResponse THEN r ELSE clearCandidateTransactions(r)
processTimerC(r) ==
  IF r.mHaveSentFinalResponse THEN r ELSE cancelAllClientTransactions(r)

(***************************************************************************)
(* Actions of the proxy thread.                                            *)
(***************************************************************************)
Init ==
  /\ config \in Config
  /\ alive = "none" /\ server = FALSE /\ waiting = FALSE /\ cancelled = FALSE
  /\ answer = [t \in Target |-> 0] /\ ringing = {} /\ heard = {}
  /\ \E m \in Methods : rc = NewContext(m)

stackVars == <<answer, ringing, heard>>

\* A new request; a monkey refuses it, waits for the user database, or the
\* request chain adds the queues b of targets
Request ==
  /\ alive = "none"
  /\ alive' = "live" /\ server' = TRUE
  /\ \/ /\ AsyncAuth /\ waiting' = TRUE /\ UNCHANGED rc
     \/ /\ waiting' = FALSE
        /\ \E c \in AuthCodes : rc' = afterRequestChain(sendResponse(rc, c))
     \/ /\ waiting' = FALSE
        /\ \E b \in Batches : rc' = afterRequestChain(addBatch(rc, b))
  /\ UNCHANGED <<config, cancelled, stackVars>>

\* The user database answers; the context may be gone
UserInfo ==
  /\ waiting /\ waiting' = FALSE
  /\ \/ ~server /\ UNCHANGED rc
     \/ server /\ \E c \in AuthCodes : rc' = afterAsyncChain(sendResponse(rc, c))
     \/ server /\ \E b \in Batches : rc' = afterAsyncChain(addBatch(rc, b))
  /\ UNCHANGED <<config, alive, server, cancelled, stackVars>>

Cancel ==
  /\ server /\ ~cancelled
  /\ cancelled' = TRUE
  /\ rc' = afterRequestChain(processCancel(rc))
  /\ UNCHANGED <<config, alive, server, waiting, stackVars>>

\* Every response ends with the target chain and the check for quiescence
afterResponse(r) == onQuiescent(targetChain(r, NoFork, FALSE))

Provisional(t, code) ==
  /\ t \in Owed
  /\ rc.mTCSerial < MaxSerial
  /\ ringing' = ringing \cup {t}
  /\ rc' = afterResponse(processResponse(rc, t, code, TRUE))
  /\ UNCHANGED <<config, alive, server, waiting, cancelled, answer, heard>>

Final(t, code, via) ==
  /\ t \in Owed
  /\ ~(mRecursiveRedirect /\ code \in 300..399)
  /\ answer' = [answer EXCEPT ![t] = code]
  /\ heard' = IF rc.mHaveSentFinalResponse \/ ~via THEN heard ELSE heard \cup {code}
  /\ rc' = afterResponse(processResponse(rc, t, code, via))
  /\ UNCHANGED <<config, alive, server, waiting, cancelled, ringing>>

\* A 3xx that RecursiveRedirect eats; N are targets for its contacts
Redirect(t, N) ==
  /\ mRecursiveRedirect
  /\ t \in Owed
  /\ \A n \in N : rc.where[n] = "none" /\ n \notin rc.clients /\ answer[n] = 0
  /\ answer' = [answer EXCEPT ![t] = 302]
  /\ rc' = afterResponse(terminateClientTransaction(
             addBatch(rc, [i \in 1..Cardinality(N) |-> <<SetToSeq(N)[i]>>]), t))
  /\ UNCHANGED <<config, alive, server, waiting, cancelled, ringing, heard>>

\* A 2xx for an INVITE that has had its final response: the stack passes on
\* every copy of a 2xx, and a 2xx that follows a failure
Late2xx(t, code) ==
  /\ rc.method = "INVITE" /\ t \in rc.clients \ Owed
  /\ answer[t] \in 200..299 \/ Stray2xx
  /\ Len(rc.sent) < MaxSent
  /\ rc' = afterResponse(processResponse(rc, t, code, TRUE))
  /\ UNCHANGED <<config, alive, server, waiting, cancelled, stackVars>>

\* Proxy::thread finds the context of a timer by the request's entry
FireTimerC(n) ==
  /\ n \in rc.timers
  /\ rc' = LET r == [rc EXCEPT !.timers = @ \ {n}]
           IN  IF server /\ n = rc.mTCSerial THEN processTimerC(r) ELSE r
  /\ UNCHANGED <<config, alive, server, waiting, cancelled, stackVars>>

FireForkControl(fc) ==
  /\ fc \in rc.forks
  /\ rc' = LET r == [rc EXCEPT !.forks = @ \ {fc}]
           IN  IF server THEN targetChain(r, fc, TRUE) ELSE r
  /\ UNCHANGED <<config, alive, server, waiting, cancelled, stackVars>>

\* RequestContext::process(TransactionTerminated): the last one deletes
release(r) == [r EXCEPT !.mTransactionCount = @ - 1]
onLast(r) == IF r.mTransactionCount = 0 THEN "deleted" ELSE alive

ServerTerminated ==
  /\ server /\ rc.mHaveSentFinalResponse
  /\ server' = FALSE
  /\ rc' = release(rc)
  /\ alive' = onLast(rc')
  /\ UNCHANGED <<config, waiting, cancelled, stackVars>>

ClientTerminated(t) ==
  /\ t \in rc.clients \ Owed
  /\ rc' = [release(removeClientTransaction(rc, t)) EXCEPT !.clients = @ \ {t}]
  /\ alive' = onLast(rc')
  /\ UNCHANGED <<config, server, waiting, cancelled, stackVars>>

Next ==
  \/ Request \/ UserInfo \/ Cancel \/ ServerTerminated
  \/ \E t \in Target :
       \/ \E code \in {100, 180} : Provisional(t, code)
       \/ \E code \in Finals, via \in {TRUE, ~ViaLess} : Final(t, code, via)
       \/ \E N \in SUBSET Spare : Redirect(t, N)
       \/ Late2xx(t, 200)
       \/ ClientTerminated(t)
  \/ \E n \in rc.timers : FireTimerC(n)
  \/ \E fc \in rc.forks : FireForkControl(fc)

Spec == Init /\ [][Next]_vars

(***************************************************************************)
(* Fairness.  The thread takes every message of its queue; the stack gives *)
(* a final response for every client transaction (its timers B and F make  *)
(* a 408) but for an INVITE that rings, which only timer C ends, and tells *)
(* the end of every transaction.  Weak fairness of the larger handlers is  *)
(* written out: either the handler is disabled again and again, or the     *)
(* change that only this handler makes happens again and again.            *)
(***************************************************************************)
MustEnd(t) == /\ t \in Owed
              /\ rc.method # "INVITE" \/ t \notin ringing \/ rc.status[t] = "Cancelled"

Fairness ==
  /\ WF_vars(ServerTerminated)
  /\ \A t \in Target : WF_vars(ClientTerminated(t))
  /\ []<>(alive # "none") \/ []<><<alive' = "live" /\ alive = "none">>_vars
  /\ []<>~waiting \/ []<><<waiting /\ ~waiting'>>_vars
  /\ \/ []<>(rc.mTCSerial \notin rc.timers)
     \/ []<><<rc.mTCSerial \in rc.timers /\ rc.mTCSerial \notin rc'.timers>>_vars
  /\ \A t \in Target :
       []<>~MustEnd(t) \/ []<><<answer[t] = 0 /\ answer'[t] # 0>>_vars

FairSpec == Spec /\ Fairness

(***************************************************************************)
(* Properties.                                                             *)
(***************************************************************************)
Code == {None} \cup 100..699

\* Every response reaches ResponseContext and can be forwarded
AllHeard == ~(mRecursiveRedirect \/ ViaLess)

\* A branch whose final response was a failure, or could not be forwarded, sends
\* no 2xx after it
NoStray == ~(Stray2xx \/ ViaLess)

\* The variables have their types: the context of RequestContext.hxx and
\* ResponseContext.hxx, and what the stack still owes it.
TypeOK ==
  /\ config \in Config
  /\ alive \in {"none", "live", "deleted"}
  /\ server \in BOOLEAN /\ waiting \in BOOLEAN /\ cancelled \in BOOLEAN
  /\ answer \in [Target -> {0} \cup Code] /\ ringing \subseteq Target /\ heard \subseteq Code
  /\ rc.method \in {"INVITE", "OTHER"} /\ rc.mHaveSentFinalResponse \in BOOLEAN
  /\ rc.where \in [Target -> Map] /\ rc.status \in [Target -> Status]
  /\ rc.best \in Code /\ rc.mBestPriority \in 0..50
  /\ rc.clients \subseteq Target /\ rc.mTransactionCount \in 0..(1 + Cardinality(Target))
  /\ \A i \in DOMAIN rc.queues : ToSet(rc.queues[i]) \subseteq Target
  /\ rc.timers \subseteq 0..rc.mTCSerial
  /\ \A fc \in rc.forks : ToSet(fc.begin) \cup ToSet(fc.cancel) \subseteq Target
  /\ \A i \in DOMAIN rc.sent : rc.sent[i] \in Code

\* A target's status always agrees with the map it is kept in, which is what
\* ResponseContext::getTarget and beginClientTransaction assert: no sequence of
\* starts, cancellations, timers and responses leaves them apart.
StatusMatchesMap ==
  \A t \in Target :
    CASE rc.where[t] = "none"       -> rc.status[t] = "none"
      [] rc.where[t] = "Candidate"  -> rc.status[t] = "Candidate"
      [] rc.where[t] = "Active"     -> rc.status[t] \in {"Started", "Cancelled"}
      [] rc.where[t] = "Terminated" -> rc.status[t] = "Terminated"

\* mTransactionCount counts the entries of the two maps of the proxy that point
\* to the context.  It is deleted with the last of them and never before, so
\* that no message is dispatched to a deleted context and none is leaked.
CountMatchesMaps ==
  /\ alive = "live" => rc.mTransactionCount = Cardinality(rc.clients) + (IF server THEN 1 ELSE 0)
  /\ alive = "deleted" <=> rc.mTransactionCount = 0
  /\ alive = "deleted" => rc.clients = {} /\ ~server

\* An active target is one whose client transaction still owes its final
\* response: TransactionTerminated never removes an active target, which
\* removeClientTransaction calls "very likely that something is broken".
ActiveIsOwed == \A t \in In(rc, "Active") : t \in Owed

\* A caller gets at most one final response that is not a 2xx, and it is the
\* first: neither late failures nor CANCEL nor timer C make the context answer
\* twice.  Only 2xx of an INVITE may follow (ResponseContext.cxx:881).  Left
\* out are a user database that answers late, whose 403 or 407 follows the 487 of
\* a CANCEL (DigestAuthenticator.cxx:124), and responses that are eaten or cannot
\* be forwarded, after which a response that was never filled in goes upstream.
OneFailure ==
  AllHeard /\ ~AsyncAuth =>
    \A i \in 2..Len(rc.sent) : rc.sent[i] \in 200..299 /\ rc.method = "INVITE"

Rank(code) == IF code >= 600 THEN 0 ELSE getPriority(code)
Forms(code, method) ==
  IF code \in 300..399 THEN {300, code}
  ELSE IF code \in {401, 407} THEN {401, 407} ELSE {visible(code, method)}

\* When every branch has failed, the failure sent upstream is one of the
\* responses received and none of them had a better rank, however they were
\* interleaved with cancellations and further targets (RFC 3261 16.7 step 6).
ForwardsBest ==
  (rc.sent # <<>> /\ rc.sent[1] >= 300 /\ heard # {}) =>
     \E c \in heard : /\ rc.sent[1] \in Forms(c, rc.method)
                      /\ \A d \in heard : Rank(c) <= Rank(d)

\* Once the answer to an INVITE has gone upstream, every branch still open has
\* been asked to stop and no candidate is left to be started; but a 2xx of a
\* branch that had failed is forwarded while the others go on ringing.
AnswerStopsBranches ==
  rc.mHaveSentFinalResponse /\ NoStray =>
    /\ In(rc, "Candidate") = {}
    /\ rc.method = "INVITE" => \A t \in Target : rc.status[t] # "Started"

\* The 500 of RequestContext for candidates that no target handler has started
\* ("Bad baboon?") is never sent: the handlers of the target chain leave
\* something active or no candidate, duplicates and cancelled groups included.
\* (A 500 is told from that of a target or of a monkey where these give none.)
NoBadBaboon == 500 \notin Finals \cup AuthCodes => 500 \notin ToSet(rc.sent)

\* A branch of an INVITE that rings and has not been cancelled has a timer C
\* with the current serial pending, so that a silent callee cannot hold the
\* request for ever although timer C is armed only once by the proxy itself.
TimerCArmed ==
  rc.method = "INVITE" /\ NoStray /\ TimerC =>
    \A t \in ringing : rc.status[t] = "Started" => rc.mTCSerial \in rc.timers

\* No queue has static routes and registered contacts (mParallelForkStaticRoutes)
Unmixed == \A b \in Batches : \A q \in ToSet(b) : ToSet(q) \subseteq QTarget \/ ToSet(q) \cap QTarget = {}

\* With mWaitForTerminate the q-value handler never has targets of two fork
\* groups active, whatever the fork-control timer cancels meanwhile.
OneGroupAtATime ==
  Unmixed /\ mDoQValue /\ mWaitForTerminate /\ mForkBehavior = "EQUAL_Q_PARALLEL" =>
    \A t, u \in In(rc, "Active") \cap QTarget : QOf[t] = QOf[u]

\* The context never loses track of a branch: every map, count, status and timer
\* says the same of each target, whatever order events come in.
ContextConsistent ==
  /\ TypeOK
  /\ StatusMatchesMap
  /\ CountMatchesMaps
  /\ ActiveIsOwed
  /\ TimerCArmed
  /\ OneGroupAtATime
  /\ NoBadBaboon

\* After the caller's CANCEL or the final response no branch is started, whatever
\* responses and fork-control timers follow; only a redirection that the proxy
\* follows itself brings a cancelled request new targets.
NoLateStart ==
  [][(cancelled /\ ~mRecursiveRedirect) \/ rc.mHaveSentFinalResponse
        => rc'.clients \subseteq rc.clients]_vars

\* Every request is answered, whatever the targets do: also when a callee rings
\* for ever, or the caller cancels while the user database is asked.  And its
\* context is deleted in the end.  (When the only response was eaten, the empty
\* one that goes upstream is no answer; a stray 2xx leaves branches ringing.)
RequestEnds ==
  /\ (alive = "live" /\ AllHeard) ~> rc.mHaveSentFinalResponse
  /\ (alive = "live" /\ AllHeard /\ NoStray) ~> (alive = "deleted")
=============================================================================
