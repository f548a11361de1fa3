------------------------- MODULE ForkingProxyProofs -------------------------
(***************************************************************************)
(* Theorems about module ForkingProxy, for every set of targets, every set *)
(* of setups and every bound.                                              *)
(*                                                                         *)
(* The inductive invariant IInv says of a context that its maps, statuses, *)
(* client transactions and count agree, that what was sent upstream is the *)
(* best of what was heard, that no branch outlives the final response and  *)
(* that timer C is armed; GInv says of the queues of the q-value handler   *)
(* that one fork group is active at a time.  The handlers are chains of    *)
(* small changes of the context, many of them folds over queues.  A fold   *)
(* is unrolled into the sequence of its results (FoldExists), and what     *)
(* each step keeps the fold keeps (Induction, by least counterexample).    *)
(***************************************************************************)
EXTENDS ForkingProxy, FiniteSetTheorems, WellFoundedInduction, TLAPS
-----------------------------------------------------------------------------
(* The invariant. *)
Wheres   == [Target -> Map]
Statuses == [Target -> Status]
Queues   == Seq(Seq(Target))
Contacts == SUBSET {UriOf[t] : t \in Target}
Forks    == SUBSET [begin : Seq(Target), cancel : Seq(Target)]
Sents    == Seq(Code)

Context ==
  [method : {"INVITE", "OTHER"}, mHaveSentFinalResponse : BOOLEAN,
   where : Wheres, status : Statuses, queues : Queues, mTargetList : Contacts,
   best : Code, mBestPriority : 0..50, mTransactionCount : Int, clients : SUBSET Target,
   mTCSerial : Nat, mInitialTimerCSet : BOOLEAN, timers : SUBSET Nat, forks : Forks,
   sent : Sents]

\* Status, map and client transaction of a target agree.
Tracked(r) ==
  /\ r \in Context
  /\ \A t \in Target :
       /\ r.where[t] = "none" <=> r.status[t] = "none"
       /\ r.where[t] = "Candidate" <=> r.status[t] = "Candidate"
       /\ r.where[t] = "Active" <=> r.status[t] \in {"Started", "Cancelled"}
       /\ r.where[t] = "Candidate" => t \notin r.clients
       /\ r.where[t] = "Active" => t \in r.clients
  /\ r.timers \subseteq 0..r.mTCSerial

Counted(r, al, sv) ==
  /\ al # "deleted" => r.mTransactionCount = Cardinality(r.clients) + (IF sv \/ al = "none" THEN 1 ELSE 0)
  /\ al = "deleted" <=> r.mTransactionCount = 0
  /\ al = "deleted" => r.clients = {} /\ ~sv

\* No target has been added yet.
Untouched(r, an, ri, he) ==
  /\ \A t \in Target : r.where[t] = "none" /\ an[t] = 0
  /\ r.mTargetList = {} /\ r.clients = {} /\ r.queues = <<>> /\ r.forks = {}
  /\ r.best = None /\ r.mBestPriority = 50 /\ ri = {} /\ he = {}

\* The active targets are those whose final response is owed; only they ring.
Open(r, an, ri) ==
  /\ ri \subseteq Target
  /\ \A t \in Target :
       /\ r.where[t] = "Active" <=> t \in r.clients /\ an[t] = 0
       /\ r.where[t] = "Candidate" => an[t] = 0 /\ t \notin ri
       /\ t \in ri => t \in r.clients \/ an[t] # 0

\* After the final response no branch is left to itself.
Stopped(r) ==
  r.mHaveSentFinalResponse /\ NoStray =>
    \A t \in Target :
      /\ r.where[t] # "Candidate"
      /\ r.method = "INVITE" => r.status[t] # "Started"

\* A 2xx has been forwarded.
Answered(r, an) ==
  NoStray /\ r.method = "INVITE" =>
    \A t \in Target : t \in r.clients /\ an[t] \in 200..299 => r.mHaveSentFinalResponse

Armed(r, ri) ==
  r.method = "INVITE" /\ NoStray /\ TimerC =>
    \A t \in ri : r.status[t] = "Started" => r.mTCSerial \in r.timers

\* What has gone upstream.
Upstream(r) ==
  /\ r.sent # <<>> /\ (r.sent[1] > 199 \/ (AllHeard /\ ~AsyncAuth)) => r.mHaveSentFinalResponse
  /\ AllHeard /\ ~AsyncAuth =>
       \A i \in 2..Len(r.sent) : r.sent[i] \in 200..299 /\ r.method = "INVITE"
  /\ 500 \notin Finals \cup AuthCodes => r.best # 500 /\ \A i \in 1..Len(r.sent) : r.sent[i] # 500

\* c is one of the responses with the best rank, and b stands for it.
Stands(b, c) ==
  b = c \/ (c \in 300..399 /\ b = 300) \/ {b, c} \subseteq {401, 407}

BestOf(c, he) == c \in he /\ \A d \in he : Rank(c) <= Rank(d)

Weighed(r, he) ==
  ~r.mHaveSentFinalResponse =>
    /\ he \subseteq 300..699
    /\ he = {} => r.best = None /\ r.mBestPriority = 50
    /\ he # {} => \E c \in he : BestOf(c, he) /\ r.mBestPriority = Rank(c) /\ Stands(r.best, c)

Forwarded(r, he) ==
  r.sent # <<>> /\ r.sent[1] >= 300 /\ he # {} =>
    \E c \in he : BestOf(c, he) /\ r.sent[1] \in Forms(c, r.method)

Ended(r, ca, wt) ==
  ca /\ ~r.mHaveSentFinalResponse =>
    /\ ~wt
    /\ ~mRecursiveRedirect => \A t \in Target : r.where[t] # "Candidate"

\* Nothing is left to wait for.
Quiet(r, al, wt, he) ==
  al # "none" /\ ~wt /\ ~r.mHaveSentFinalResponse /\ (\A t \in Target : r.where[t] # "Active") =>
    /\ \A t \in Target : r.where[t] # "Candidate"
    /\ he = {} /\ ~AllHeard

Typed(r, al, sv, wt, ca, an, ri, he) ==
  /\ al \in {"none", "live", "deleted"}
  /\ sv \in BOOLEAN /\ wt \in BOOLEAN /\ ca \in BOOLEAN
  /\ an \in [Target -> {0} \cup Code] /\ ri \subseteq Target /\ he \subseteq Code
  /\ al = "none" => ~wt /\ ~sv /\ ~ca /\ ~r.mHaveSentFinalResponse /\ r.sent = <<>>
  /\ wt => AsyncAuth
  /\ al # "none" /\ ~sv => r.mHaveSentFinalResponse
  /\ al = "none" \/ wt => Untouched(r, an, ri, he)
-----------------------------------------------------------------------------
(* Folds.  A set that contains 0 and the successors of its elements contains *)
(* the natural numbers, because a least number outside cannot exist.         *)
LEMMA Induction ==
  ASSUME NEW S, 0 \in S, \A n \in Nat : n \in S => n + 1 \in S
  PROVE  Nat \subseteq S
<1> DEFINE R == OpToRel(<, Nat)
<1> DEFINE T == Nat \ S
<1>1. IsWellFoundedOn(R, Nat)
  BY NatLessThanWellFounded
<1>2. \A x, y \in Nat : x < y => <<x, y>> \in R
  BY DEF OpToRel
<1> HIDE DEF R
<1>3. T # {} => \E x \in T : \A y \in T : ~ (<<y, x>> \in R)
  BY <1>1, WFMin, T \subseteq Nat
<1>4. ASSUME NEW x \in T, \A y \in T : ~ (<<y, x>> \in R)
      PROVE  FALSE
  <2>1. x \in Nat /\ x # 0 /\ x - 1 \in Nat
    BY <1>4
  <2>2. <<x - 1, x>> \in R
    BY <1>2, <2>1
  <2>3. x - 1 \in S
    BY <1>4, <2>1, <2>2
  <2> QED BY <2>1, <2>3, x - 1 + 1 = x
<1> QED BY <1>3, <1>4

\* The greatest index of a set of indices, which a fold takes off first.
Top(s) == CHOOSE x \in s : \A y \in s : x >= y

LEMMA TopIs ==
  ASSUME NEW n \in Nat, NEW s \in SUBSET (1..(n + 1)), n + 1 \in s
  PROVE  Top(s) = n + 1
<1>1. n + 1 \in s /\ \A y \in s : n + 1 >= y
  OBVIOUS
<1>2. Top(s) \in s /\ \A y \in s : Top(s) >= y
  BY <1>1, Zenon DEF Top
<1>3. Top(s) \in 1..(n + 1)
  BY <1>2
<1> QED BY <1>1, <1>2, <1>3

\* The kinds of folds; keepIn has the set as its parameter.
Kind(name)  == [name |-> name, set |-> {}]
KeepKind(S) == [name |-> "keepIn", set |-> S]

\* One step of the fold of kind k: v is the value so far, x the next element and w the
\* whole sequence.
Move(k, w, v, x) ==
  CASE k.name = "beginEach"   -> beginClientTransaction(v, x)
    [] k.name = "beginNext"   -> beginNext(v, x)
    [] k.name = "beginGroups" -> nextGroup(v, w)
    [] k.name = "tryQueues"   -> tryQueue(v, x)
    [] k.name = "keepIn"      -> IF x \in k.set THEN Append(v, x) ELSE v

\* f[s] is the value after the elements with an index in s.
Folds(f, k, w, v, n) ==
  f = [s \in SUBSET (1..n) |->
         IF s = {} THEN v ELSE Move(k, w, f[s \ {Top(s)}], w[Top(s)])]

LEMMA FoldExists ==
  ASSUME NEW k, NEW w, NEW v, NEW m \in Nat
  PROVE  \E f : Folds(f, k, w, v, m)
<1> DEFINE P == {n \in Nat : \E f : Folds(f, k, w, v, n)}
<1>1. 0 \in P
  <2>1. Folds([s \in SUBSET (1..0) |-> v], k, w, v, 0)
    BY SUBSET (1..0) = {{}} DEF Folds
  <2> QED BY <2>1
<1>2. ASSUME NEW n \in Nat, n \in P
      PROVE  n + 1 \in P
  <2>1. PICK f : Folds(f, k, w, v, n)
    BY <1>2
  <2> DEFINE g == [s \in SUBSET (1..(n+1)) |->
                     IF n + 1 \in s THEN Move(k, w, f[s \ {n+1}], w[n+1]) ELSE f[s]]
  <2> DEFINE h == [s \in SUBSET (1..(n+1)) |->
                     IF s = {} THEN v ELSE Move(k, w, g[s \ {Top(s)}], w[Top(s)])]
  <2>2. ASSUME NEW s \in SUBSET (1..(n+1))
        PROVE  g[s] = h[s]
    <3>1. CASE n + 1 \in s
      BY <3>1, TopIs, g[s \ {n+1}] = f[s \ {n+1}]
    <3>2. CASE n + 1 \notin s
      <4>1. s \in SUBSET (1..n)
        BY <3>2
      <4>2. \A z \in SUBSET (1..n) : g[z] = f[z]
        OBVIOUS
      <4>3. s # {} => s \ {Top(s)} \in SUBSET (1..n)
        BY <4>1
      <4>4. h[s] = IF s = {} THEN v ELSE Move(k, w, g[s \ {Top(s)}], w[Top(s)])
        OBVIOUS
      <4> HIDE DEF g, h
      <4> QED BY <4>1, <4>2, <4>3, <4>4, <2>1 DEF Folds
    <3> QED BY <3>1, <3>2
  <2>3. g = h
    BY <2>2, Zenon
  <2>4. Folds(g, k, w, v, n+1)
    BY <2>3 DEF Folds
  <2> HIDE DEF g
  <2> QED BY <2>4
<1> HIDE DEF P
<1>3. m \in P
  BY <1>1, <1>2, Induction
<1> QED BY <1>3 DEF P

\* run lists the values that the fold of kind k takes on its way from v to u.
Runs(run, k, w, v, u) ==
  /\ run[0] = v /\ run[Len(w)] = u
  /\ \A i \in 1..Len(w) : run[i] = Move(k, w, run[i-1], w[i])

LEMMA FoldRuns ==
  ASSUME NEW k, NEW w, NEW v, NEW f, Len(w) \in Nat, Folds(f, k, w, v, Len(w))
  PROVE  \E run : Runs(run, k, w, v, f[1..Len(w)])
<1> DEFINE run == [i \in 0..Len(w) |-> f[1..i]]
<1>1. ASSUME NEW i \in 1..Len(w)
      PROVE  run[i] = Move(k, w, run[i-1], w[i])
  <2>1. (1..i) \ {i} = 1..(i-1) /\ i \in 1..i /\ 1..i \in SUBSET (1..Len(w)) /\ i - 1 \in 0..Len(w)
    OBVIOUS
  <2>2. Top(1..i) = i
    BY <2>1, TopIs, i - 1 \in Nat, i - 1 + 1 = i
  <2>3. f[1..i] = Move(k, w, f[1..(i-1)], w[i])
    BY <2>1, <2>2 DEF Folds
  <2> QED BY <2>1, <2>3
<1>2. run[0] = v /\ run[Len(w)] = f[1..Len(w)]
  BY 1..0 = {} DEF Folds
<1> HIDE DEF run
<1>3. Runs(run, k, w, v, f[1..Len(w)])
  BY <1>1, <1>2 DEF Runs
<1> QED BY <1>3

LEMMA BeginRuns ==
  ASSUME NEW r, NEW q \in Seq(Target)
  PROVE  \E run : Runs(run, Kind("beginEach"), q, r, beginEach(r, q))
<1>0. Len(q) \in Nat /\ DOMAIN q = 1..Len(q)
  OBVIOUS
<1> DEFINE Is(f) == f = [s \in SUBSET (1..Len(q)) |->
                           IF s = {} THEN r
                           ELSE beginClientTransaction(f[s \ {Top(s)}], q[Top(s)])]
<1>1. \A f : Is(f) <=> Folds(f, Kind("beginEach"), q, r, Len(q))
  BY DEF Folds, Move, Kind
<1> DEFINE F == CHOOSE f : Is(f)
<1>2. Is(F)
  <2> HIDE DEF Is
  <2> QED BY <1>0, <1>1, FoldExists
<1>3. beginEach(r, q) = F[1..Len(q)]
  BY <1>0 DEF beginEach, FoldLeft, MapThenFoldSet, Top, Max
<1> HIDE DEF F, Is
<1> QED BY <1>0, <1>1, <1>2, <1>3, FoldRuns

LEMMA NextRuns ==
  ASSUME NEW r, r.queues \in Seq(Seq(Target))
  PROVE  \E run : Runs(run, Kind("beginNext"), r.queues, r, FoldLeft(beginNext, r, r.queues))
<1> DEFINE q == r.queues
<1>0. Len(q) \in Nat /\ DOMAIN q = 1..Len(q)
  OBVIOUS
<1> DEFINE Is(f) == f = [s \in SUBSET (1..Len(q)) |->
                           IF s = {} THEN r ELSE beginNext(f[s \ {Top(s)}], q[Top(s)])]
<1>1. \A f : Is(f) <=> Folds(f, Kind("beginNext"), q, r, Len(q))
  BY DEF Folds, Move, Kind
<1> DEFINE F == CHOOSE f : Is(f)
<1>2. Is(F)
  <2> HIDE DEF Is
  <2> QED BY <1>0, <1>1, FoldExists
<1>3. FoldLeft(beginNext, r, q) = F[1..Len(q)]
  BY <1>0 DEF FoldLeft, MapThenFoldSet, Top, Max
<1> HIDE DEF F, Is
<1> QED BY <1>0, <1>1, <1>2, <1>3, FoldRuns

NoneStarted(r) == [rc |-> r, started |-> <<>>]

LEMMA GroupRuns ==
  ASSUME NEW r, NEW q \in Seq(Target)
  PROVE  \E run : Runs(run, Kind("beginGroups"), q, NoneStarted(r), beginGroups(r, q))
<1>0. Len(q) \in Nat /\ DOMAIN q = 1..Len(q)
  OBVIOUS
<1> DEFINE Is(f) == f = [s \in SUBSET (1..Len(q)) |->
                           IF s = {} THEN NoneStarted(r) ELSE nextGroup(f[s \ {Top(s)}], q)]
<1>1. \A f : Is(f) <=> Folds(f, Kind("beginGroups"), q, NoneStarted(r), Len(q))
  BY DEF Folds, Move, Kind
<1> DEFINE F == CHOOSE f : Is(f)
<1>2. Is(F)
  <2> HIDE DEF Is
  <2> QED BY <1>0, <1>1, FoldExists
<1>3. beginGroups(r, q) = F[1..Len(q)]
  BY <1>0 DEF beginGroups, NoneStarted, FoldLeft, MapThenFoldSet, Top, Max
<1> HIDE DEF F, Is
<1> QED BY <1>0, <1>1, <1>2, <1>3, FoldRuns

NoneTried(r, cancel) ==
  [rc |-> r, active |-> FALSE, begin |-> <<>>, queues |-> <<>>, cancel |-> cancel]

LEMMA QueueRuns ==
  ASSUME NEW r, NEW c, r.queues \in Seq(Seq(Target))
  PROVE  \E run : Runs(run, Kind("tryQueues"), r.queues, NoneTried(r, c), tryQueues(r, c))
<1> DEFINE q == r.queues
<1>0. Len(q) \in Nat /\ DOMAIN q = 1..Len(q)
  OBVIOUS
<1> DEFINE Is(f) == f = [s \in SUBSET (1..Len(q)) |->
                           IF s = {} THEN NoneTried(r, c) ELSE tryQueue(f[s \ {Top(s)}], q[Top(s)])]
<1>1. \A f : Is(f) <=> Folds(f, Kind("tryQueues"), q, NoneTried(r, c), Len(q))
  BY DEF Folds, Move, Kind
<1> DEFINE F == CHOOSE f : Is(f)
<1>2. Is(F)
  <2> HIDE DEF Is
  <2> QED BY <1>0, <1>1, FoldExists
<1>3. tryQueues(r, c) = F[1..Len(q)]
  BY <1>0 DEF tryQueues, NoneTried, FoldLeft, MapThenFoldSet, Top, Max
<1> HIDE DEF F, Is
<1> QED BY <1>0, <1>1, <1>2, <1>3, FoldRuns

LEMMA KeepRuns ==
  ASSUME NEW S, NEW q, Len(q) \in Nat, DOMAIN q = 1..Len(q)
  PROVE  \E run : Runs(run, KeepKind(S), q, <<>>, keepIn(q, S))
<1> DEFINE Is(f) == f = [s \in SUBSET (1..Len(q)) |->
                           IF s = {} THEN <<>>
                           ELSE IF q[Top(s)] \in S THEN Append(f[s \ {Top(s)}], q[Top(s)])
                                ELSE f[s \ {Top(s)}]]
<1>1. \A f : Is(f) <=> Folds(f, KeepKind(S), q, <<>>, Len(q))
  BY DEF Folds, Move, KeepKind
<1> DEFINE F == CHOOSE f : Is(f)
<1>2. Is(F)
  <2> HIDE DEF Is
  <2> QED BY <1>1, FoldExists
<1>3. keepIn(q, S) = F[1..Len(q)]
  BY DEF keepIn, FoldLeft, MapThenFoldSet, Top, Max
<1> HIDE DEF F, Is
<1> QED BY <1>1, <1>2, <1>3, FoldRuns

\* The elements of a sequence.
LEMMA Elements ==
  ASSUME NEW T
  PROVE  /\ ToSet(<<>>) = {}
         /\ \A q \in Seq(T) : ToSet(q) \subseteq T /\ ToSet(q) = {q[i] : i \in 1..Len(q)}
         /\ \A q \in Seq(T), x \in T : ToSet(Append(q, x)) = ToSet(q) \cup {x}
         /\ \A q \in Seq(T), p \in Seq(T) : ToSet(q \o p) = ToSet(q) \cup ToSet(p)
<1>1. ToSet(<<>>) = {}
  BY DEF ToSet
<1>2. ASSUME NEW q \in Seq(T)
      PROVE  ToSet(q) \subseteq T /\ ToSet(q) = {q[i] : i \in 1..Len(q)}
  BY DEF ToSet
<1>3. ASSUME NEW q \in Seq(T), NEW x \in T
      PROVE  ToSet(Append(q, x)) = ToSet(q) \cup {x}
  <2> DEFINE a == Append(q, x)
  <2>1. DOMAIN q = 1..Len(q) /\ DOMAIN a = 1..(Len(q) + 1) /\ Len(q) \in Nat
    OBVIOUS
  <2>2. a[Len(q) + 1] = x /\ \A i \in 1..Len(q) : a[i] = q[i]
    OBVIOUS
  <2> HIDE DEF a
  <2>3. {a[i] : i \in DOMAIN a} = {q[i] : i \in DOMAIN q} \cup {x}
    BY <2>1, <2>2
  <2> QED BY <2>3 DEF a, ToSet
<1>4. ASSUME NEW q \in Seq(T), NEW p \in Seq(T)
      PROVE  ToSet(q \o p) = ToSet(q) \cup ToSet(p)
  <2> DEFINE a == q \o p
  <2>1. /\ DOMAIN q = 1..Len(q) /\ DOMAIN p = 1..Len(p) /\ DOMAIN a = 1..(Len(q) + Len(p))
        /\ Len(q) \in Nat /\ Len(p) \in Nat
    OBVIOUS
  <2>2. /\ \A i \in 1..Len(q) : a[i] = q[i]
        /\ \A i \in 1..Len(p) : a[Len(q) + i] = p[i]
    OBVIOUS
  <2> HIDE DEF a
  <2>3. ASSUME NEW i \in DOMAIN a
        PROVE  a[i] \in ToSet(q) \cup ToSet(p)
    <3>1. CASE i <= Len(q)
      BY <2>1, <2>2, <2>3, <3>1 DEF ToSet
    <3>2. CASE i > Len(q)
      <4>1. i - Len(q) \in 1..Len(p) /\ Len(q) + (i - Len(q)) = i
        BY <2>1, <3>2
      <4> QED BY <2>1, <2>2, <4>1 DEF ToSet
    <3> QED BY <2>1, <3>1, <3>2
  <2>4. ASSUME NEW i \in DOMAIN p
        PROVE  Len(q) + i \in DOMAIN a /\ a[Len(q) + i] = p[i]
    BY <2>1, <2>2
  <2>5. ToSet(p) \subseteq ToSet(a)
    BY <2>4 DEF ToSet
  <2>6. ToSet(q) \subseteq ToSet(a)
    BY <2>1, <2>2 DEF ToSet
  <2>7. ToSet(a) \subseteq ToSet(q) \cup ToSet(p)
    BY <2>3 DEF ToSet
  <2> QED BY <2>5, <2>6, <2>7 DEF a
<1> QED BY <1>1, <1>2, <1>3, <1>4

\* keepIn gives a sequence of the elements of q that are in S.
LEMMA KeepInKeeps ==
  ASSUME NEW T, NEW q \in Seq(T), NEW S
  PROVE  /\ keepIn(q, S) \in Seq(T)
         /\ ToSet(keepIn(q, S)) = ToSet(q) \cap S
<1>0. Len(q) \in Nat /\ DOMAIN q = 1..Len(q)
  OBVIOUS
<1>1. PICK run : Runs(run, KeepKind(S), q, <<>>, keepIn(q, S))
  BY <1>0, KeepRuns
<1> DEFINE P == {n \in Nat : n <= Len(q) =>
                   run[n] \in Seq(T) /\ ToSet(run[n]) = {q[i] : i \in 1..n} \cap S}
<1>2. 0 \in P
  <2>1. run[0] = <<>> /\ {q[i] : i \in 1..0} = {}
    BY <1>1, 1..0 = {} DEF Runs
  <2>2. ToSet(<<>>) = {} /\ <<>> \in Seq(T)
    BY Elements
  <2> QED BY <2>1, <2>2
<1>3. ASSUME NEW n \in Nat, n \in P
      PROVE  n + 1 \in P
  <2> SUFFICES ASSUME n + 1 <= Len(q)
               PROVE  run[n + 1] \in Seq(T) /\ ToSet(run[n + 1]) = {q[i] : i \in 1..(n + 1)} \cap S
    OBVIOUS
  <2>1. run[n] \in Seq(T) /\ ToSet(run[n]) = {q[i] : i \in 1..n} \cap S
    BY <1>3
  <2>2. run[n + 1] = IF q[n + 1] \in S THEN Append(run[n], q[n + 1]) ELSE run[n]
    BY <1>0, <1>1, n + 1 \in 1..Len(q), n + 1 - 1 = n DEF Runs, Move, KeepKind
  <2>3. {q[i] : i \in 1..(n + 1)} = {q[i] : i \in 1..n} \cup {q[n + 1]}
    OBVIOUS
  <2>5. q[n + 1] \in T
    BY <1>0
  <2>4. ToSet(Append(run[n], q[n + 1])) = ToSet(run[n]) \cup {q[n + 1]}
    BY <2>1, <2>5, Elements
  <2> QED BY <2>1, <2>2, <2>3, <2>4, <2>5
<1> HIDE DEF P
<1>4. Len(q) \in P
  BY <1>0, <1>2, <1>3, Induction
<1>5. run[Len(q)] = keepIn(q, S)
  BY <1>1 DEF Runs
<1> QED BY <1>0, <1>4, <1>5, Elements DEF P

\* SetToSeq lists the elements of a finite set.
LEMMA SetToSeqLists ==
  ASSUME NEW S, IsFiniteSet(S)
  PROVE  /\ SetToSeq(S) \in Seq(S) /\ Len(SetToSeq(S)) = Cardinality(S)
         /\ ToSet(SetToSeq(S)) = S /\ IsInjective(SetToSeq(S))
<1> DEFINE n == Cardinality(S)
<1> DEFINE f == SetToSeq(S)
<1>1. n \in Nat /\ ExistsBijection(1..n, S)
  BY FS_CardinalityType
<1>2. \E g \in [1..n -> S] : IsInjective(g)
  BY <1>1 DEF ExistsBijection, Bijection, Injection
<1>3. f \in [1..n -> S] /\ IsInjective(f)
  BY <1>2, Zenon DEF SetToSeq
<1>4. f \in Injection(1..n, S)
  BY <1>3 DEF Injection
<1>5. Cardinality(1..n) = n
  BY <1>1, FS_Interval
<1>6. f \in Surjection(1..n, S)
  <2> HIDE DEF f
  <2> QED BY <1>4, <1>5, FS_Injection
<1> HIDE DEF f, n
<1>7. f \in Seq(S) /\ Len(f) = n /\ DOMAIN f = 1..n
  BY <1>1, <1>3
<1>8. ToSet(f) = S
  BY <1>3, <1>6, <1>7 DEF ToSet, Surjection
<1> QED BY <1>3, <1>7, <1>8 DEF f, n
-----------------------------------------------------------------------------
(* What the target handlers may do to a context. *)

\* Targets that are started on the way from r to s.
Started(r, s) == {t \in Target : r.where[t] = "Candidate" /\ s.where[t] = "Active"}

\* Candidates are started or given up, and active targets are cancelled.
Proceeds(r, s) ==
  /\ Tracked(s)
  /\ s.method = r.method /\ s.mHaveSentFinalResponse = r.mHaveSentFinalResponse
  /\ s.best = r.best /\ s.mBestPriority = r.mBestPriority /\ s.sent = r.sent
  /\ \A t \in Target :
       \/ /\ s.where[t] = r.where[t]
          /\ s.status[t] = r.status[t] \/ (r.status[t] = "Started" /\ s.status[t] = "Cancelled")
       \/ /\ r.where[t] = "Candidate"
          /\ (s.where[t] = "Active" /\ ~r.mHaveSentFinalResponse) \/ s.where[t] = "Terminated"
  /\ s.clients = r.clients \cup Started(r, s)
  /\ s.mTransactionCount - Cardinality(s.clients) = r.mTransactionCount - Cardinality(r.clients)
  /\ TimerC /\ r.mTCSerial \in r.timers => s.mTCSerial \in s.timers

\* Nothing is cancelled: a candidate is given up if its contact has been tried.
Starts(r, s) ==
  /\ Proceeds(r, s)
  /\ r.mTargetList \subseteq s.mTargetList
  /\ s.mTargetList \subseteq r.mTargetList \cup {UriOf[t] : t \in Started(r, s)}
  /\ \A t \in Target : r.where[t] = "Candidate" /\ s.where[t] # "Candidate" =>
       r.mHaveSentFinalResponse \/ UriOf[t] \in s.mTargetList

LEMMA ProceedsRefl ==
  ASSUME NEW r, Tracked(r)
  PROVE  Proceeds(r, r) /\ Starts(r, r)
BY DEF Proceeds, Starts, Started, Tracked, Context

LEMMA ProceedsTrans ==
  ASSUME NEW r, NEW s, NEW u, Tracked(r), Proceeds(r, s), Proceeds(s, u)
  PROVE  Proceeds(r, u)
<1>1. Started(r, u) = Started(r, s) \cup Started(s, u)
  BY DEF Proceeds, Started
<1>2. \A t \in Target :
       \/ /\ u.where[t] = r.where[t]
          /\ u.status[t] = r.status[t] \/ (r.status[t] = "Started" /\ u.status[t] = "Cancelled")
       \/ /\ r.where[t] = "Candidate"
          /\ (u.where[t] = "Active" /\ ~r.mHaveSentFinalResponse) \/ u.where[t] = "Terminated"
  BY DEF Proceeds
<1> QED BY <1>1, <1>2 DEF Proceeds

LEMMA StartsTrans ==
  ASSUME NEW r, NEW s, NEW u, Tracked(r), Starts(r, s), Starts(s, u)
  PROVE  Starts(r, u)
<1>1. Proceeds(r, u)
  BY ProceedsTrans DEF Starts
<1>2. Started(r, u) = Started(r, s) \cup Started(s, u)
  BY DEF Starts, Proceeds, Started
<1>3. \A t \in Target : r.where[t] = "Candidate" /\ u.where[t] # "Candidate" =>
       r.mHaveSentFinalResponse \/ UriOf[t] \in u.mTargetList
  BY DEF Starts, Proceeds
<1> QED BY <1>1, <1>2, <1>3 DEF Starts

LEMMA OneMore ==
  ASSUME NEW S \in SUBSET Target, NEW t \in Target, t \notin S
  PROVE  Cardinality(S \cup {t}) = Cardinality(S) + 1 /\ Cardinality(S) \in Nat
BY ConfigAssumption, FS_Subset, FS_AddElement, FS_CardinalityType

\* A context with the same fields but where and status.
Same(r, s) ==
  /\ s.method = r.method /\ s.mHaveSentFinalResponse = r.mHaveSentFinalResponse
  /\ s.queues = r.queues /\ s.mTargetList = r.mTargetList /\ s.best = r.best
  /\ s.mBestPriority = r.mBestPriority /\ s.mTransactionCount = r.mTransactionCount
  /\ s.clients = r.clients /\ s.mTCSerial = r.mTCSerial
  /\ s.mInitialTimerCSet = r.mInitialTimerCSet /\ s.timers = r.timers
  /\ s.forks = r.forks /\ s.sent = r.sent

\* A context with other values of where and status.
remap(r, w, x) == [r EXCEPT !.where = w, !.status = x]

LEMMA Remap ==
  ASSUME NEW r \in Context, NEW w \in Wheres, NEW x \in Statuses
  PROVE  /\ remap(r, w, x) \in Context /\ Same(r, remap(r, w, x))
         /\ remap(r, w, x).where = w /\ remap(r, w, x).status = x
<1> DEFINE s == remap(r, w, x)
<1>1. Same(r, s) /\ s.where = w /\ s.status = x
  BY DEF Same, Context, remap
<1>2. s \in Context
  BY DEF Context, remap
<1> QED BY <1>1, <1>2

Moved(r, s, S, m, x) ==
  /\ s \in Context /\ Same(r, s)
  /\ \A t \in Target : /\ s.where[t] = IF t \in S THEN m ELSE r.where[t]
                       /\ s.status[t] = IF t \in S THEN x ELSE r.status[t]

LEMMA MoveToMoves ==
  ASSUME NEW r \in Context, NEW S, NEW m \in Map, NEW x \in Status
  PROVE  Moved(r, MoveTo(r, S, m, x), S, m, x)
<1> DEFINE w == [t \in Target |-> IF t \in S THEN m ELSE r.where[t]]
<1> DEFINE y == [t \in Target |-> IF t \in S THEN x ELSE r.status[t]]
<1>1. w \in Wheres /\ y \in Statuses
  BY DEF Wheres, Statuses, Context
<1>2. MoveTo(r, S, m, x) = remap(r, w, y)
  BY DEF MoveTo, remap
<1>3. \A t \in Target : /\ w[t] = IF t \in S THEN m ELSE r.where[t]
                       /\ y[t] = IF t \in S THEN x ELSE r.status[t]
  OBVIOUS
<1> HIDE DEF w, y
<1> QED BY <1>1, <1>2, <1>3, Remap DEF Moved

\* cancelClientTransaction(Target*) on the active targets of S, and on candidates.
LEMMA CancelTargetsCancels ==
  ASSUME NEW r \in Context, NEW S, NEW s, s = cancelTargets(r, S)
  PROVE  /\ s \in Context /\ Same(r, s) /\ s.where = r.where
         /\ \A t \in Target : s.status[t] =
              IF t \notin S THEN r.status[t]
              ELSE IF r.status[t] = "Started" THEN "Cancelled"
              ELSE IF r.status[t] = "Candidate" THEN "Terminated" ELSE r.status[t]
<1> DEFINE y == [t \in Target |->
                   IF t \notin S THEN r.status[t]
                   ELSE IF r.status[t] = "Started" THEN "Cancelled"
                   ELSE IF r.status[t] = "Candidate" THEN "Terminated" ELSE r.status[t]]
<1>1. r.where \in Wheres /\ y \in Statuses
  BY DEF Wheres, Statuses, Context, Status
<1>2. s = remap(r, r.where, y)
  BY DEF cancelTargets, Context, remap
<1>3. \A t \in Target : y[t] =
              IF t \notin S THEN r.status[t]
              ELSE IF r.status[t] = "Started" THEN "Cancelled"
              ELSE IF r.status[t] = "Candidate" THEN "Terminated" ELSE r.status[t]
  OBVIOUS
<1> HIDE DEF y
<1> QED BY <1>1, <1>2, <1>3, Remap
\* updateTimerC, with the flag of the first branch.
LEMMA TimerCRestarts ==
  ASSUME NEW r \in Context
  PROVE  LET s == updateTimerC(r)
         IN  /\ s \in Context /\ s.where = r.where /\ s.status = r.status
             /\ s.method = r.method /\ s.mHaveSentFinalResponse = r.mHaveSentFinalResponse
             /\ s.queues = r.queues /\ s.mTargetList = r.mTargetList /\ s.best = r.best
             /\ s.mBestPriority = r.mBestPriority /\ s.mTransactionCount = r.mTransactionCount
             /\ s.clients = r.clients /\ s.forks = r.forks /\ s.sent = r.sent
             /\ s.mTCSerial = r.mTCSerial + 1
             /\ s.timers = IF TimerC THEN r.timers \cup {r.mTCSerial + 1} ELSE r.timers
<1> DEFINE s == updateTimerC(r)
<1> DEFINE n == r.mTCSerial + 1
<1> DEFINE S == IF TimerC THEN r.timers \cup {n} ELSE r.timers
<1>0. n \in Nat /\ S \in SUBSET Nat
  BY DEF Context
<1>1. s \in Context
  <2>1. s = [r EXCEPT !.mTCSerial = n, !.timers = S]
    BY DEF updateTimerC
  <2> HIDE DEF n, S, s
  <2> QED BY <2>1, <1>0 DEF Context
<1> QED BY <1>1 DEF updateTimerC, Context

flagged(r) == [r EXCEPT !.mInitialTimerCSet = TRUE]

LEMMA FlagSet ==
  ASSUME NEW r \in Context
  PROVE  LET s == flagged(r)
         IN  /\ s \in Context /\ s.where = r.where /\ s.status = r.status
             /\ s.method = r.method /\ s.mHaveSentFinalResponse = r.mHaveSentFinalResponse
             /\ s.queues = r.queues /\ s.mTargetList = r.mTargetList /\ s.best = r.best
             /\ s.mBestPriority = r.mBestPriority /\ s.mTransactionCount = r.mTransactionCount
             /\ s.clients = r.clients /\ s.forks = r.forks /\ s.sent = r.sent
             /\ s.mTCSerial = r.mTCSerial /\ s.timers = r.timers
<1> DEFINE s == flagged(r)
<1>1. s \in Context
  BY DEF flagged, Context
<1> QED BY <1>1 DEF flagged, Context

withClient(r, t) ==
  [r EXCEPT !.mTargetList = @ \cup {UriOf[t]}, !.clients = @ \cup {t},
            !.mTransactionCount = @ + 1]

LEMMA ClientAdded ==
  ASSUME NEW r \in Context, NEW t \in Target
  PROVE  LET s == withClient(r, t)
         IN  /\ s \in Context /\ s.where = r.where /\ s.status = r.status
             /\ s.method = r.method /\ s.mHaveSentFinalResponse = r.mHaveSentFinalResponse
             /\ s.queues = r.queues /\ s.best = r.best
             /\ s.mBestPriority = r.mBestPriority
             /\ s.forks = r.forks /\ s.sent = r.sent
             /\ s.mTCSerial = r.mTCSerial /\ s.timers = r.timers
             /\ s.mTargetList = r.mTargetList \cup {UriOf[t]}
             /\ s.clients = r.clients \cup {t}
             /\ s.mTransactionCount = r.mTransactionCount + 1
<1> DEFINE s == withClient(r, t)
<1> DEFINE l == r.mTargetList \cup {UriOf[t]}
<1> DEFINE S == r.clients \cup {t}
<1> DEFINE n == r.mTransactionCount + 1
<1>0. l \in Contacts /\ S \in SUBSET Target /\ n \in Int
  BY DEF Context, Contacts
<1>1. s \in Context
  <2>1. s = [r EXCEPT !.mTargetList = l, !.clients = S, !.mTransactionCount = n]
    BY DEF withClient
  <2> HIDE DEF l, S, n, s
  <2> QED BY <2>1, <1>0 DEF Context
<1> QED BY <1>1 DEF withClient, Context

\* The start of a branch.
LEMMA StartIs ==
  ASSUME NEW r \in Context, NEW t \in Target
  PROVE  LET s == start(r, t)
         IN  /\ s \in Context
             /\ \A u \in Target : /\ s.where[u] = IF u = t THEN "Active" ELSE r.where[u]
                                  /\ s.status[u] = IF u = t THEN "Started" ELSE r.status[u]
             /\ s.method = r.method /\ s.mHaveSentFinalResponse = r.mHaveSentFinalResponse
             /\ s.queues = r.queues /\ s.best = r.best
             /\ s.mBestPriority = r.mBestPriority
             /\ s.forks = r.forks /\ s.sent = r.sent
             /\ s.mTargetList = r.mTargetList \cup {UriOf[t]}
             /\ s.clients = r.clients \cup {t}
             /\ s.mTransactionCount = r.mTransactionCount + 1
             /\ \/ s.mTCSerial = r.mTCSerial /\ s.timers = r.timers
                \/ /\ s.mTCSerial = r.mTCSerial + 1
                   /\ s.timers = IF TimerC THEN r.timers \cup {r.mTCSerial + 1} ELSE r.timers
<1> DEFINE r1 == IF r.mInitialTimerCSet THEN r ELSE updateTimerC(flagged(r))
<1> DEFINE r2 == MoveTo(r1, {t}, "Active", "Started")
<1>1. start(r, t) = withClient(r2, t)
  BY DEF start, withClient, flagged
<1>2. /\ r1 \in Context /\ r1.where = r.where /\ r1.status = r.status
      /\ r1.method = r.method /\ r1.mHaveSentFinalResponse = r.mHaveSentFinalResponse
      /\ r1.queues = r.queues /\ r1.mTargetList = r.mTargetList /\ r1.best = r.best
      /\ r1.mBestPriority = r.mBestPriority /\ r1.mTransactionCount = r.mTransactionCount
      /\ r1.clients = r.clients /\ r1.forks = r.forks /\ r1.sent = r.sent
      /\ \/ r1.mTCSerial = r.mTCSerial /\ r1.timers = r.timers
         \/ /\ r1.mTCSerial = r.mTCSerial + 1
            /\ r1.timers = IF TimerC THEN r.timers \cup {r.mTCSerial + 1} ELSE r.timers
  BY FlagSet, TimerCRestarts
<1> HIDE DEF r1
<1>3. Moved(r1, r2, {t}, "Active", "Started")
  BY <1>2, MoveToMoves DEF Map, Status
<1> HIDE DEF r2
<1>4. r2 \in Context /\ Same(r1, r2)
      /\ \A u \in Target : /\ r2.where[u] = IF u = t THEN "Active" ELSE r1.where[u]
                           /\ r2.status[u] = IF u = t THEN "Started" ELSE r1.status[u]
  BY <1>3 DEF Moved
<1> DEFINE s == withClient(r2, t)
<1>5. /\ s \in Context /\ s.where = r2.where /\ s.status = r2.status
      /\ s.method = r2.method /\ s.mHaveSentFinalResponse = r2.mHaveSentFinalResponse
      /\ s.queues = r2.queues /\ s.best = r2.best
      /\ s.mBestPriority = r2.mBestPriority
      /\ s.forks = r2.forks /\ s.sent = r2.sent
      /\ s.mTCSerial = r2.mTCSerial /\ s.timers = r2.timers
      /\ s.mTargetList = r2.mTargetList \cup {UriOf[t]}
      /\ s.clients = r2.clients \cup {t}
      /\ s.mTransactionCount = r2.mTransactionCount + 1
  BY <1>4, ClientAdded
<1> HIDE DEF s
<1>6. /\ \A u \in Target : /\ s.where[u] = IF u = t THEN "Active" ELSE r.where[u]
                           /\ s.status[u] = IF u = t THEN "Started" ELSE r.status[u]
      /\ s.method = r.method /\ s.mHaveSentFinalResponse = r.mHaveSentFinalResponse
      /\ s.queues = r.queues /\ s.best = r.best
      /\ s.mBestPriority = r.mBestPriority
      /\ s.forks = r.forks /\ s.sent = r.sent
      /\ s.mTargetList = r.mTargetList \cup {UriOf[t]}
      /\ s.clients = r.clients \cup {t}
      /\ s.mTransactionCount = r.mTransactionCount + 1
  BY <1>2, <1>4, <1>5 DEF Same
<1>7. \/ s.mTCSerial = r.mTCSerial /\ s.timers = r.timers
      \/ /\ s.mTCSerial = r.mTCSerial + 1
         /\ s.timers = IF TimerC THEN r.timers \cup {r.mTCSerial + 1} ELSE r.timers
  BY <1>2, <1>4, <1>5 DEF Same
<1> QED BY <1>1, <1>5, <1>6, <1>7 DEF s

\* beginClientTransaction, of one target.
LEMMA BeginStarts ==
  ASSUME NEW r, NEW t \in Target, Tracked(r)
  PROVE  LET s == beginClientTransaction(r, t)
         IN  /\ Starts(r, s) /\ s.where[t] # "Candidate" /\ s.queues = r.queues
             /\ \A u \in Target \ {t} : s.where[u] = r.where[u]
<1> DEFINE s == beginClientTransaction(r, t)
<1>0. r \in Context
  BY DEF Tracked
<1>1. CASE r.where[t] # "Candidate"
  BY <1>1, ProceedsRefl DEF beginClientTransaction
<1>2. CASE r.where[t] = "Candidate" /\ (isDuplicate(r, t) \/ r.mHaveSentFinalResponse)
  <2>1. s = MoveTo(r, {t}, "Terminated", "Terminated")
    BY <1>2 DEF beginClientTransaction
  <2>2. Moved(r, s, {t}, "Terminated", "Terminated")
    BY <2>1, <1>0, MoveToMoves DEF Map, Status
  <2> HIDE DEF s
  <2>3. Tracked(s)
    BY <2>2 DEF Tracked, Moved, Same
  <2>4. Started(r, s) = {}
    BY <2>2 DEF Started, Moved
  <2>5. Proceeds(r, s)
    BY <2>2, <2>3, <2>4, <1>0, <1>2 DEF Proceeds, Moved, Same, Context
  <2>6. /\ Starts(r, s) /\ s.where[t] # "Candidate" /\ s.queues = r.queues
        /\ \A u \in Target \ {t} : s.where[u] = r.where[u]
    BY <2>2, <2>5, <1>2 DEF Starts, Moved, Same, isDuplicate
  <2> QED BY <2>6 DEF s
<1>3. CASE r.where[t] = "Candidate" /\ ~isDuplicate(r, t) /\ ~r.mHaveSentFinalResponse
  <2>1. s = start(r, t)
    BY <1>3 DEF beginClientTransaction
  <2>2. /\ s \in Context
        /\ \A u \in Target : /\ s.where[u] = IF u = t THEN "Active" ELSE r.where[u]
                             /\ s.status[u] = IF u = t THEN "Started" ELSE r.status[u]
        /\ s.method = r.method /\ s.mHaveSentFinalResponse = r.mHaveSentFinalResponse
        /\ s.queues = r.queues /\ s.best = r.best
        /\ s.mBestPriority = r.mBestPriority
        /\ s.forks = r.forks /\ s.sent = r.sent
        /\ s.mTargetList = r.mTargetList \cup {UriOf[t]}
        /\ s.clients = r.clients \cup {t}
        /\ s.mTransactionCount = r.mTransactionCount + 1
        /\ \/ s.mTCSerial = r.mTCSerial /\ s.timers = r.timers
           \/ /\ s.mTCSerial = r.mTCSerial + 1
              /\ s.timers = IF TimerC THEN r.timers \cup {r.mTCSerial + 1} ELSE r.timers
    BY <2>1, <1>0, StartIs
  <2> HIDE DEF s
  <2>3. r.mTCSerial \in Nat /\ r.mTransactionCount \in Int /\ r.clients \in SUBSET Target
    BY <1>0 DEF Context
  <2>4. Tracked(s)
    BY <2>2, <2>3, <1>3 DEF Tracked
  <2>5. Started(r, s) = {t}
    BY <2>2, <1>3 DEF Started
  <2>6. s.mTransactionCount - Cardinality(s.clients) = r.mTransactionCount - Cardinality(r.clients)
    BY <2>2, <2>3, <1>3, OneMore DEF Tracked
  <2>7. Proceeds(r, s)
    BY <2>2, <2>3, <2>4, <2>5, <2>6, <1>3 DEF Proceeds
  <2>8. Starts(r, s) /\ s.where[t] # "Candidate"
    BY <2>2, <2>5, <2>7, <1>3 DEF Starts
  <2> QED BY <2>2, <2>8 DEF s
<1> QED BY <1>1, <1>2, <1>3
-----------------------------------------------------------------------------
(* The target handlers. *)
LEMMA BeginEachStarts ==
  ASSUME NEW r, NEW q \in Seq(Target), Tracked(r)
  PROVE  /\ Starts(r, beginEach(r, q)) /\ beginEach(r, q).queues = r.queues
         /\ \A t \in ToSet(q) : beginEach(r, q).where[t] # "Candidate"
         /\ \A t \in Target \ ToSet(q) : beginEach(r, q).where[t] = r.where[t]
<1>0. Len(q) \in Nat /\ DOMAIN q = 1..Len(q)
  OBVIOUS
<1>1. PICK run : Runs(run, Kind("beginEach"), q, r, beginEach(r, q))
  BY BeginRuns
<1> DEFINE P == {n \in Nat : n <= Len(q) =>
                   /\ Starts(r, run[n]) /\ run[n].queues = r.queues
                   /\ \A i \in 1..n : run[n].where[q[i]] # "Candidate"
                   /\ \A t \in Target \ ToSet(q) : run[n].where[t] = r.where[t]}
<1>2. 0 \in P
  BY <1>1, ProceedsRefl, 1..0 = {} DEF Runs
<1>3. ASSUME NEW n \in Nat, n \in P
      PROVE  n + 1 \in P
  <2> SUFFICES ASSUME n + 1 <= Len(q)
               PROVE  /\ Starts(r, run[n + 1]) /\ run[n + 1].queues = r.queues
                      /\ \A i \in 1..(n + 1) : run[n + 1].where[q[i]] # "Candidate"
                      /\ \A t \in Target \ ToSet(q) : run[n + 1].where[t] = r.where[t]
    OBVIOUS
  <2>1. /\ Starts(r, run[n]) /\ run[n].queues = r.queues
        /\ \A i \in 1..n : run[n].where[q[i]] # "Candidate"
        /\ \A t \in Target \ ToSet(q) : run[n].where[t] = r.where[t]
    BY <1>3
  <2>2. run[n + 1] = beginClientTransaction(run[n], q[n + 1])
    BY <1>0, <1>1, n + 1 \in 1..Len(q), n + 1 - 1 = n DEF Runs, Move, Kind
  <2>3. q[n + 1] \in Target /\ Tracked(run[n])
    BY <1>0, <2>1 DEF Starts, Proceeds
  <2>4. /\ Starts(run[n], run[n + 1]) /\ run[n + 1].where[q[n + 1]] # "Candidate"
        /\ run[n + 1].queues = run[n].queues
        /\ \A t \in Target \ {q[n + 1]} : run[n + 1].where[t] = run[n].where[t]
    BY <2>2, <2>3, BeginStarts
  <2>5. \A t \in Target : run[n].where[t] # "Candidate" => run[n + 1].where[t] # "Candidate"
    BY <2>4 DEF Starts, Proceeds
  <2>6. \A i \in 1..n : q[i] \in Target
    BY <1>0
  <2>7. \A i \in 1..(n + 1) : i \in 1..n \/ i = n + 1
    OBVIOUS
  <2>8. q[n + 1] \in ToSet(q)
    BY <1>0 DEF ToSet
  <2> QED BY <2>1, <2>4, <2>5, <2>6, <2>7, <2>8, StartsTrans
<1> HIDE DEF P
<1>4. Len(q) \in P
  BY <1>0, <1>2, <1>3, Induction
<1>5. run[Len(q)] = beginEach(r, q)
  BY <1>1 DEF Runs
<1> QED BY <1>0, <1>4, <1>5 DEF P, ToSet

LEMMA BeginNextStarts ==
  ASSUME NEW r, NEW q \in Seq(Target), Tracked(r)
  PROVE  Starts(r, beginNext(r, q)) /\ beginNext(r, q).queues = r.queues
BY BeginEachStarts, ProceedsRefl DEF beginNext

\* Something is active, or no candidate is left.
Settled(r) == In(r, "Active") # {} \/ In(r, "Candidate") = {}

LEMMA SimpleStarts ==
  ASSUME NEW r, Tracked(r)
  PROVE  /\ Starts(r, SimpleTargetHandler(r)) /\ Settled(SimpleTargetHandler(r))
         /\ SimpleTargetHandler(r).queues = r.queues
<1> DEFINE q == r.queues
<1> DEFINE m == FoldLeft(beginNext, r, q)
<1>0. q \in Seq(Seq(Target)) /\ Len(q) \in Nat /\ DOMAIN q = 1..Len(q)
  BY DEF Tracked, Context, Queues
<1>1. PICK run : Runs(run, Kind("beginNext"), q, r, m)
  BY <1>0, NextRuns
<1> DEFINE P == {n \in Nat : n <= Len(q) => Starts(r, run[n]) /\ run[n].queues = q}
<1>2. 0 \in P
  BY <1>1, ProceedsRefl DEF Runs
<1>3. ASSUME NEW n \in Nat, n \in P
      PROVE  n + 1 \in P
  <2> SUFFICES ASSUME n + 1 <= Len(q)
               PROVE  Starts(r, run[n + 1]) /\ run[n + 1].queues = q
    OBVIOUS
  <2>1. run[n + 1] = beginNext(run[n], q[n + 1])
    BY <1>0, <1>1, n + 1 \in 1..Len(q), n + 1 - 1 = n DEF Runs, Move, Kind
  <2>2. Starts(r, run[n]) /\ run[n].queues = q /\ Tracked(run[n]) /\ q[n + 1] \in Seq(Target)
    BY <1>0, <1>3 DEF Starts, Proceeds
  <2> QED BY <2>1, <2>2, BeginNextStarts, StartsTrans
<1> HIDE DEF P
<1>4. Starts(r, m) /\ m.queues = q
  <2>1. Len(q) \in P
    BY <1>0, <1>2, <1>3, Induction
  <2> QED BY <1>0, <1>1, <2>1 DEF P, Runs
<1>5. Tracked(m)
  BY <1>4 DEF Starts, Proceeds
<1>6. SimpleTargetHandler(r) = IF In(m, "Active") # {} THEN m
                               ELSE beginEach(m, SetToSeq(In(m, "Candidate")))
  BY DEF SimpleTargetHandler, beginRest, hasActiveTransactions, beginClientTransactions
<1> HIDE DEF m
<1> DEFINE c == SetToSeq(In(m, "Candidate"))
<1>7. c \in Seq(Target) /\ ToSet(c) = In(m, "Candidate")
  <2>1. In(m, "Candidate") \in SUBSET Target
    BY DEF In
  <2>2. IsFiniteSet(In(m, "Candidate"))
    BY <2>1, FS_Subset, ConfigAssumption
  <2>3. c \in Seq(In(m, "Candidate")) /\ ToSet(c) = In(m, "Candidate")
    BY <2>2, SetToSeqLists
  <2> HIDE DEF c
  <2> QED BY <2>1, <2>3
<1> HIDE DEF c
<1>8. CASE In(m, "Active") # {}
  BY <1>4, <1>6, <1>8 DEF Settled
<1>9. CASE In(m, "Active") = {}
  <2> DEFINE s == beginEach(m, c)
  <2>1. SimpleTargetHandler(r) = s
    BY <1>6, <1>9 DEF c
  <2>2. Starts(m, s) /\ s.queues = m.queues /\ \A t \in ToSet(c) : s.where[t] # "Candidate"
    BY <1>5, <1>7, BeginEachStarts
  <2> HIDE DEF s
  <2>3. In(s, "Candidate") = {}
    BY <1>7, <2>2 DEF In, Starts, Proceeds
  <2> QED BY <1>4, <2>1, <2>2, <2>3, StartsTrans DEF Settled
<1> QED BY <1>8, <1>9
-----------------------------------------------------------------------------
(* Parts of a queue. *)
LEMMA MinIs ==
  ASSUME NEW S \in SUBSET Nat, S # {}
  PROVE  Min(S) \in S /\ \A x \in S : Min(S) <= x
<1> DEFINE R == OpToRel(<, Nat)
<1>1. IsWellFoundedOn(R, Nat)
  BY NatLessThanWellFounded
<1>2. \A x, y \in Nat : x < y => <<x, y>> \in R
  BY DEF OpToRel
<1> HIDE DEF R
<1>3. PICK x \in S : \A y \in S : ~ (<<y, x>> \in R)
  BY <1>1, WFMin
<1>4. \A y \in S : x <= y
  <2>1. \A y \in S : y \in Nat /\ x \in Nat
    OBVIOUS
  <2>2. \A y \in S : ~ (y < x)
    BY <1>2, <1>3, <2>1
  <2> QED BY <2>1, <2>2
<1> QED BY <1>4, Zenon DEF Min

LEMMA MaxIs ==
  ASSUME NEW n \in Nat, NEW S \in SUBSET (1..n), S # {}
  PROVE  Max(S) \in S /\ \A x \in S : Max(S) >= x
<1> DEFINE U == {k \in Nat : \A x \in S : x <= k}
<1>1. n \in U /\ U \in SUBSET Nat
  OBVIOUS
<1>2. Min(U) \in U /\ \A x \in U : Min(U) <= x
  BY <1>1, MinIs
<1>3. Min(U) \in S
  <2> SUFFICES ASSUME Min(U) \notin S
               PROVE  FALSE
    OBVIOUS
  <2>1. PICK x \in S : TRUE
    OBVIOUS
  <2>2. Min(U) - 1 \in U
    BY <1>2, <2>1
  <2> QED BY <1>2, <2>2
<1>4. \E y \in S : \A x \in S : y >= x
  BY <1>2, <1>3
<1> QED BY <1>4, Zenon DEF Max

LEMMA PartOf ==
  ASSUME NEW T, NEW q \in Seq(T), NEW m \in 1..Len(q), NEW n \in 1..Len(q)
  PROVE  /\ SubSeq(q, m, n) \in Seq(T) /\ ToSet(SubSeq(q, m, n)) \subseteq ToSet(q)
         /\ m <= n => SubSeq(q, m, n) # <<>> /\ SubSeq(q, m, n)[1] = q[m]
         /\ \A i \in DOMAIN SubSeq(q, m, n) : m + i - 1 \in m..n /\ SubSeq(q, m, n)[i] = q[m + i - 1]
<1> DEFINE s == SubSeq(q, m, n)
<1>1. s \in Seq(T)
  OBVIOUS
<1>2. \A i \in DOMAIN s : m + i - 1 \in m..n /\ s[i] = q[m + i - 1]
  OBVIOUS
<1>3. m <= n => s # <<>> /\ s[1] = q[m]
  OBVIOUS
<1>4. DOMAIN q = 1..Len(q) /\ Len(q) \in Nat
  OBVIOUS
<1> HIDE DEF s
<1>5. ToSet(s) \subseteq ToSet(q)
  BY <1>2, <1>4 DEF ToSet
<1> QED BY <1>1, <1>2, <1>3, <1>5 DEF s

\* The next group of a queue is a part of it.
LEMMA FromCandidateIs ==
  ASSUME NEW r, NEW q \in Seq(Target)
  PROVE  /\ fromCandidate(r, q) \in Seq(Target)
         /\ ToSet(fromCandidate(r, q)) \subseteq ToSet(q)
<1> DEFINE ready == {i \in DOMAIN q : r.where[q[i]] = "Candidate"}
<1>1. CASE ready = {}
  BY <1>1, Elements DEF fromCandidate
<1>2. CASE ready # {}
  <2>1. ready \in SUBSET Nat /\ ready \subseteq 1..Len(q) /\ Len(q) \in Nat
    OBVIOUS
  <2>2. Min(ready) \in ready
    BY <2>1, <1>2, MinIs
  <2>4. Min(ready) \in 1..Len(q) /\ Len(q) \in 1..Len(q)
    BY <2>1, <2>2
  <2>3. fromCandidate(r, q) = SubSeq(q, Min(ready), Len(q))
    BY <1>2 DEF fromCandidate
  <2> HIDE DEF ready
  <2> QED BY <2>3, <2>4, PartOf
<1> QED BY <1>1, <1>2

LEMMA FirstGroupIs ==
  ASSUME NEW q \in Seq(Target), config \in Config
  PROVE  /\ firstGroup(q) \in Seq(Target)
         /\ ToSet(firstGroup(q)) \subseteq ToSet(q)
         /\ mForkBehavior = "EQUAL_Q_PARALLEL" => \A t \in ToSet(firstGroup(q)) : QOf[t] = QOf[q[1]]
<1>1. CASE q = <<>>
  BY <1>1, Elements DEF firstGroup
<1>2. CASE q # <<>>
  <2>0. Len(q) \in Nat /\ 1 \in 1..Len(q) /\ DOMAIN q = 1..Len(q)
    BY <1>2
  <2>1. mForkBehavior \in {"FULL_SEQUENTIAL", "EQUAL_Q_PARALLEL", "FULL_PARALLEL"}
    BY ConfigAssumption DEF mForkBehavior
  <2>2. CASE mForkBehavior = "FULL_SEQUENTIAL"
    <3>1. firstGroup(q) = <<q[1]>>
      BY <1>2, <2>2 DEF firstGroup
    <3>2. ToSet(<<q[1]>>) = {q[1]}
      BY DEF ToSet
    <3>3. q[1] \in ToSet(q) /\ q[1] \in Target
      BY <2>0 DEF ToSet
    <3> QED BY <2>2, <3>1, <3>2, <3>3
  <2>3. CASE mForkBehavior = "FULL_PARALLEL"
    BY <1>2, <2>3 DEF firstGroup
  <2>4. CASE mForkBehavior = "EQUAL_Q_PARALLEL"
    <3> DEFINE equal == {n \in 1..Len(q) : \A j \in 1..n : QOf[q[j]] = QOf[q[1]]}
    <3> DEFINE g == SubSeq(q, 1, Max(equal))
    <3>1. firstGroup(q) = g
      BY <1>2, <2>4 DEF firstGroup
    <3>2. 1 \in equal /\ equal \in SUBSET (1..Len(q))
      BY <2>0
    <3>3. Max(equal) \in equal
      BY <2>0, <3>2, MaxIs
    <3>4. Max(equal) \in 1..Len(q)
      BY <3>3
    <3>5. g \in Seq(Target) /\ ToSet(g) \subseteq ToSet(q)
      BY <2>0, <3>4, PartOf
    <3>6. \A i \in DOMAIN g : QOf[g[i]] = QOf[q[1]]
      <4> HIDE DEF equal
      <4>1. \A i \in DOMAIN g : 1 + i - 1 \in 1..Max(equal) /\ g[i] = q[1 + i - 1]
        BY <2>0, <3>4, PartOf
      <4> USE DEF equal
      <4> QED BY <3>3, <4>1
    <3> HIDE DEF g
    <3> QED BY <3>1, <3>5, <3>6 DEF ToSet
  <2> QED BY <2>1, <2>2, <2>3, <2>4
<1> QED BY <1>1, <1>2

LEMMA FirstGroupHas ==
  ASSUME NEW q \in Seq(Target), config \in Config, q # <<>>
  PROVE  q[1] \in ToSet(firstGroup(q))
<1>0. Len(q) \in Nat /\ 1 \in 1..Len(q) /\ DOMAIN q = 1..Len(q)
  OBVIOUS
<1>1. mForkBehavior \in {"FULL_SEQUENTIAL", "EQUAL_Q_PARALLEL", "FULL_PARALLEL"}
  BY ConfigAssumption DEF mForkBehavior
<1>2. CASE mForkBehavior = "FULL_SEQUENTIAL"
  <2>1. firstGroup(q) = <<q[1]>>
    BY <1>2 DEF firstGroup
  <2> QED BY <2>1 DEF ToSet
<1>3. CASE mForkBehavior = "FULL_PARALLEL"
  <2>1. firstGroup(q) = q
    BY <1>3 DEF firstGroup
  <2> QED BY <1>0, <2>1 DEF ToSet
<1>4. CASE mForkBehavior = "EQUAL_Q_PARALLEL"
  <2> DEFINE equal == {n \in 1..Len(q) : \A j \in 1..n : QOf[q[j]] = QOf[q[1]]}
  <2>1. firstGroup(q) = SubSeq(q, 1, Max(equal))
    BY <1>4 DEF firstGroup
  <2>2. 1 \in equal /\ equal \in SUBSET (1..Len(q))
    BY <1>0
  <2>3. Max(equal) \in equal
    BY <1>0, <2>2, MaxIs
  <2>4. Max(equal) \in 1..Len(q)
    BY <2>3
  <2> DEFINE g == SubSeq(q, 1, Max(equal))
  <2> HIDE DEF equal
  <2>5. g \in Seq(Target) /\ g # <<>> /\ g[1] = q[1]
    BY <1>0, <2>4, PartOf
  <2>6. 1 \in DOMAIN g
    <3> HIDE DEF g
    <3> QED BY <2>5
  <2> HIDE DEF g
  <2> QED BY <2>1, <2>5, <2>6 DEF ToSet, g
<1> QED BY <1>1, <1>2, <1>3, <1>4

LEMMA GroupIs ==
  ASSUME NEW r, NEW q \in Seq(Target), config \in Config
  PROVE  /\ fillNextTargetGroup(r, q) \in Seq(Target)
         /\ ToSet(fillNextTargetGroup(r, q)) \subseteq ToSet(q)
         /\ mForkBehavior = "EQUAL_Q_PARALLEL" =>
              \A t, u \in ToSet(fillNextTargetGroup(r, q)) : QOf[t] = QOf[u]
BY FromCandidateIs, FirstGroupIs DEF fillNextTargetGroup
-----------------------------------------------------------------------------
(* The q-value handler. *)

\* beginGroups begins targets of the queue only, one group at the end of it, and if
\* nothing starts then it has given up every candidate of the queue.
LEMMA GroupsStart ==
  ASSUME NEW r, NEW q \in Seq(Target), Tracked(r), config \in Config,
         NEW b, b = beginGroups(r, q)
  PROVE  /\ Starts(r, b.rc) /\ b.rc.queues = r.queues
         /\ \A t \in Target \ ToSet(q) : b.rc.where[t] = r.where[t]
         /\ b.started \in Seq(Target)
         /\ \A t \in ToSet(q) : b.started = <<>> => b.rc.where[t] # "Candidate"
         /\ ToSet(b.started) = Started(r, b.rc)
         /\ mForkBehavior = "EQUAL_Q_PARALLEL" =>
              \A t, u \in ToSet(b.started) : QOf[t] = QOf[u]
<1>0. Len(q) \in Nat /\ DOMAIN q = 1..Len(q) /\ ToSet(q) \subseteq Target
  BY DEF ToSet
<1>1. PICK run : Runs(run, Kind("beginGroups"), q, NoneStarted(r), b)
  BY GroupRuns
<1> DEFINE Good(p, n) ==
             /\ Starts(r, p.rc) /\ p.rc.queues = r.queues
             /\ \A t \in Target \ ToSet(q) : p.rc.where[t] = r.where[t]
             /\ p.started \in Seq(Target)
             /\ p.started = <<>> => \A i \in 1..n : p.rc.where[q[i]] # "Candidate"
             /\ ToSet(p.started) = Started(r, p.rc)
             /\ mForkBehavior = "EQUAL_Q_PARALLEL" =>
                  \A t, u \in ToSet(p.started) : QOf[t] = QOf[u]
<1> DEFINE P == {n \in Nat : n <= Len(q) => Good(run[n], n)}
<1>2. 0 \in P
  <2>1. run[0] = NoneStarted(r)
    BY <1>1 DEF Runs
  <2>2. run[0].rc = r /\ run[0].started = <<>>
    BY <2>1 DEF NoneStarted
  <2>3. <<>> \in Seq(Target) /\ ToSet(<<>>) = {}
    BY Elements
  <2>4. Started(r, r) = {}
    BY DEF Started
  <2> QED BY <2>2, <2>3, <2>4, ProceedsRefl, 1..0 = {}
<1>3. ASSUME NEW n \in Nat, n \in P
      PROVE  n + 1 \in P
  <2> SUFFICES ASSUME n + 1 <= Len(q)
               PROVE  Good(run[n + 1], n + 1)
    OBVIOUS
  <2> DEFINE p == run[n]
  <2>1. Good(p, n)
    BY <1>3
  <2>2. run[n + 1] = nextGroup(p, q)
    BY <1>0, <1>1, n + 1 \in 1..Len(q), n + 1 - 1 = n DEF Runs, Move, Kind
  <2> HIDE DEF p
  <2>3. CASE p.started # <<>>
    BY <2>1, <2>2, <2>3 DEF nextGroup
  <2>4. CASE p.started = <<>>
    <3> DEFINE g == fillNextTargetGroup(p.rc, q)
    <3> DEFINE s == beginEach(p.rc, g)
    <3> DEFINE new == keepIn(g, In(p.rc, "Candidate") \cap In(s, "Active"))
    <3>1. run[n + 1] = [rc |-> s, started |-> new]
      BY <2>2, <2>4 DEF nextGroup, beginGroup, startedOf
    <3>2. Tracked(p.rc)
      BY <2>1 DEF Starts, Proceeds
    <3>3. /\ g \in Seq(Target) /\ ToSet(g) \subseteq ToSet(q)
          /\ mForkBehavior = "EQUAL_Q_PARALLEL" => \A t, u \in ToSet(g) : QOf[t] = QOf[u]
      BY GroupIs
    <3>4. /\ Starts(p.rc, s) /\ s.queues = p.rc.queues
          /\ \A t \in ToSet(g) : s.where[t] # "Candidate"
          /\ \A t \in Target \ ToSet(g) : s.where[t] = p.rc.where[t]
      BY <3>2, <3>3, BeginEachStarts
    <3>5. new \in Seq(Target) /\ ToSet(new) = ToSet(g) \cap (In(p.rc, "Candidate") \cap In(s, "Active"))
      BY <3>3, KeepInKeeps
    <3>6. \A i \in 1..(n + 1) : s.where[q[i]] # "Candidate"
      <4> SUFFICES ASSUME NEW i \in 1..(n + 1), s.where[q[i]] = "Candidate"
                   PROVE  FALSE
        OBVIOUS
      <4>1. q[i] \in Target /\ p.rc.where[q[i]] = "Candidate" /\ q[i] \notin ToSet(g)
        BY <1>0, <3>4 DEF Starts, Proceeds
      <4>2. i = n + 1
        BY <2>1, <2>4, <4>1
      <4> DEFINE ready == {k \in DOMAIN q : p.rc.where[q[k]] = "Candidate"}
      <4>3. i \in ready /\ ready \in SUBSET Nat /\ ready \subseteq 1..Len(q)
        BY <1>0, <4>1
      <4>4. Min(ready) \in ready /\ Min(ready) <= i
        BY <4>3, MinIs
      <4>5. Min(ready) = i
        <5>1. Min(ready) \in 1..Len(q) /\ p.rc.where[q[Min(ready)]] = "Candidate"
          BY <4>3, <4>4
        <5>2. Min(ready) \notin 1..n
          BY <2>1, <2>4, <5>1
        <5> HIDE DEF ready
        <5> QED BY <4>2, <4>4, <5>1, <5>2
      <4>6. fromCandidate(p.rc, q) = SubSeq(q, i, Len(q))
        <5>1. fromCandidate(p.rc, q) = SubSeq(q, Min(ready), Len(q))
          BY <4>3 DEF fromCandidate
        <5> QED BY <5>1, <4>5
      <4> DEFINE f == fromCandidate(p.rc, q)
      <4>7. f \in Seq(Target) /\ f # <<>> /\ f[1] = q[i]
        <5>1. i \in 1..Len(q) /\ Len(q) \in 1..Len(q) /\ i <= Len(q)
          BY <1>0, <4>2
        <5> DEFINE h == SubSeq(q, i, Len(q))
        <5>2. h \in Seq(Target) /\ h # <<>> /\ h[1] = q[i]
          BY <5>1, PartOf
        <5> HIDE DEF h
        <5>3. f = h
          BY <4>6 DEF h
        <5> QED BY <5>2, <5>3
      <4>8. g = firstGroup(f)
        BY DEF fillNextTargetGroup
      <4> HIDE DEF f, g
      <4>9. f[1] \in ToSet(g)
        BY <4>7, <4>8, FirstGroupHas
      <4> QED BY <4>1, <4>7, <4>9
    <3>7. Started(r, p.rc) = {}
      BY <2>1, <2>4, Elements
    <3> HIDE DEF g, s
    <3>8. ToSet(new) = Started(r, s)
      <4>1. Started(r, s) = {t \in Target : p.rc.where[t] = "Candidate" /\ s.where[t] = "Active"}
        BY <2>1, <3>4, <3>7 DEF Started, Starts, Proceeds
      <4>2. \A t \in Target : p.rc.where[t] = "Candidate" /\ s.where[t] = "Active" => t \in ToSet(g)
        BY <3>4
      <4> QED BY <3>3, <3>5, <4>1, <4>2, <1>0 DEF In
    <3>9. Starts(r, s) /\ s.queues = r.queues
      BY <2>1, <3>4, StartsTrans
    <3> HIDE DEF new
    <3>10. run[n + 1].rc = s /\ run[n + 1].started = new
      BY <3>1
    <3>11. \A t \in Target \ ToSet(q) : s.where[t] = r.where[t]
      BY <2>1, <3>3, <3>4
    <3> QED BY <3>3, <3>5, <3>6, <3>8, <3>9, <3>10, <3>11
  <2> QED BY <2>3, <2>4
<1> HIDE DEF P, Good
<1>4. Len(q) \in P
  BY <1>0, <1>2, <1>3, Induction
<1>5. Good(b, Len(q))
  BY <1>0, <1>1, <1>4 DEF P, Runs
<1>6. \A t \in ToSet(q) : \E i \in 1..Len(q) : q[i] = t
  BY <1>0 DEF ToSet
<1> QED BY <1>5, <1>6 DEF Good
\* The accumulator of the loop over the queues.
Loop == [rc : Context, active : BOOLEAN, begin : Seq(Target), queues : Queues,
         cancel : Seq(Target)]

Tries(r, a) ==
  /\ a \in Loop
  /\ Starts(r, a.rc) /\ a.rc.queues = r.queues
  /\ a.begin \in Seq(Target) /\ a.cancel \in Seq(Target) /\ a.queues \in Queues
  /\ a.active => In(a.rc, "Active") # {}

\* The groups that tryQueue begins in a queue.
groupsOf(a, q) ==
  IF isBusy(a.rc, q) THEN [rc |-> a.rc, started |-> <<>>] ELSE beginGroups(a.rc, q)

LEMMA AfterGroupsTries ==
  ASSUME NEW r, NEW a, NEW q \in Seq(Target), NEW g, Tracked(r), config \in Config, Tries(r, a),
         g = groupsOf(a, q), NEW b, b = afterGroups(a, q, g),
         NEW left, left = removeTerminated(g.rc, q)
  PROVE  /\ Tries(r, b) /\ b.rc = g.rc
         /\ b.queues = IF left = <<>> THEN a.queues ELSE Append(a.queues, left)
         /\ b.active <=> isBusy(a.rc, q) \/ g.started # <<>>
<1>0. Tracked(a.rc) /\ ToSet(q) \subseteq Target /\ DOMAIN q = 1..Len(q) /\ Len(q) \in Nat
  BY DEF Tries, Starts, Proceeds, ToSet
<1>1. /\ Starts(a.rc, g.rc) /\ g.started \in Seq(Target) /\ g.rc.queues = r.queues
      /\ g.started # <<>> => In(g.rc, "Active") # {}
  <2>1. CASE isBusy(a.rc, q)
    <3>1. g.rc = a.rc /\ g.started = <<>>
      BY <2>1 DEF groupsOf
    <3> QED BY <1>0, <3>1, ProceedsRefl DEF Tries
  <2>2. CASE ~isBusy(a.rc, q)
    <3>1. g = beginGroups(a.rc, q)
      BY <2>2 DEF groupsOf
    <3>2. /\ Starts(a.rc, g.rc) /\ g.started \in Seq(Target) /\ g.rc.queues = a.rc.queues
          /\ ToSet(g.started) = Started(a.rc, g.rc)
      BY <1>0, <3>1, GroupsStart
    <3>3. g.started # <<>> => g.started[1] \in ToSet(g.started)
      BY <3>2 DEF ToSet
    <3> QED BY <3>2, <3>3 DEF Tries, Started, In
  <2> QED BY <2>1, <2>2
<1>2. left \in Seq(Target)
  BY KeepInKeeps DEF removeTerminated
<1>3. a.cancel \o g.started \in Seq(Target) /\ fillNextTargetGroup(g.rc, q) \in Seq(Target)
  BY <1>1, GroupIs DEF Tries
<1>4. Append(a.queues, left) \in Queues
  BY <1>2 DEF Tries, Queues
<1>5. /\ b.rc = g.rc
      /\ b.queues = IF left = <<>> THEN a.queues ELSE Append(a.queues, left)
      /\ b.active <=> isBusy(a.rc, q) \/ g.started # <<>>
      /\ b.begin \in {fillNextTargetGroup(g.rc, q), a.begin}
      /\ b.cancel \in {a.cancel \o g.started, a.cancel}
  BY DEF afterGroups
<1>6. isBusy(a.rc, q) => In(g.rc, "Active") # {}
  BY <1>0, <1>1 DEF isBusy, In, Starts, Proceeds
<1>8. b \in Loop
  <2>1. g.rc \in Context
    BY <1>1 DEF Starts, Proceeds, Tracked
  <2>2. b = [rc |-> b.rc, active |-> b.active, begin |-> b.begin, queues |-> b.queues,
             cancel |-> b.cancel]
    BY DEF afterGroups
  <2>3. b.active \in BOOLEAN
    BY DEF afterGroups
  <2>4. b.begin \in Seq(Target) /\ b.cancel \in Seq(Target) /\ b.queues \in Queues
    BY <1>3, <1>4, <1>5 DEF Tries
  <2> QED BY ONLY <1>5, <2>1, <2>2, <2>3, <2>4 DEF Loop
<1>7. Tries(r, b)
  <2>1. Starts(r, b.rc) /\ b.rc.queues = r.queues
    BY <1>1, <1>5, StartsTrans DEF Tries
  <2>2. b.begin \in Seq(Target) /\ b.cancel \in Seq(Target) /\ b.queues \in Queues
    BY <1>3, <1>4, <1>5 DEF Tries
  <2>3. b.active => In(b.rc, "Active") # {}
    BY <1>1, <1>5, <1>6
  <2> QED BY <1>5, <1>8, <2>1, <2>2, <2>3 DEF Tries
<1> QED BY <1>5, <1>7

LEMMA TryQueueTries ==
  ASSUME NEW r, NEW a, NEW q \in Seq(Target), Tracked(r), config \in Config, Tries(r, a)
  PROVE  Tries(r, tryQueue(a, q))
<1>1. CASE q = <<>> /\ ~a.active
  BY <1>1 DEF tryQueue
<1>2. CASE ~(q = <<>> /\ ~a.active) /\ (a.active \/ ~isMyType(a.rc, Head(q)))
  <2> DEFINE b == [a EXCEPT !.queues = Append(@, q)]
  <2>1. tryQueue(a, q) = b
    BY <1>2 DEF tryQueue
  <2>2. Append(a.queues, q) \in Queues
    BY DEF Tries, Queues
  <2>3. /\ b \in Loop /\ b.rc = a.rc /\ b.active = a.active /\ b.begin = a.begin /\ b.cancel = a.cancel
        /\ b.queues = Append(a.queues, q)
    BY <2>2 DEF Tries, Loop
  <2> HIDE DEF b
  <2> QED BY <2>1, <2>2, <2>3 DEF Tries
<1>3. CASE ~(q = <<>> /\ ~a.active) /\ ~(a.active \/ ~isMyType(a.rc, Head(q)))
  <2>1. tryQueue(a, q) = afterGroups(a, q, groupsOf(a, q))
    BY <1>3 DEF tryQueue, groupsOf
  <2> QED BY <2>1, AfterGroupsTries
<1> QED BY <1>1, <1>2, <1>3

LEMMA TryQueuesTries ==
  ASSUME NEW r, NEW c \in Seq(Target), Tracked(r), config \in Config
  PROVE  Tries(r, tryQueues(r, c))
<1> DEFINE q == r.queues
<1>0. q \in Seq(Seq(Target)) /\ Len(q) \in Nat /\ DOMAIN q = 1..Len(q)
  BY DEF Tracked, Context, Queues
<1>1. PICK run : Runs(run, Kind("tryQueues"), q, NoneTried(r, c), tryQueues(r, c))
  BY <1>0, QueueRuns
<1> DEFINE P == {n \in Nat : n <= Len(q) => Tries(r, run[n])}
<1>2. 0 \in P
  <2>1. run[0] = NoneTried(r, c)
    BY <1>1 DEF Runs
  <2>2. <<>> \in Queues /\ <<>> \in Seq(Target)
    BY DEF Queues
  <2> DEFINE a == run[0]
  <2>3. /\ a \in Loop /\ a.rc = r /\ a.begin = <<>> /\ a.cancel = c /\ a.queues = <<>> /\ ~a.active
    BY <2>1, <2>2 DEF NoneTried, Loop, Tracked
  <2> HIDE DEF a
  <2>4. Tries(r, a)
    BY <2>2, <2>3, ProceedsRefl DEF Tries
  <2> QED BY <2>4 DEF a
<1>3. ASSUME NEW n \in Nat, n \in P
      PROVE  n + 1 \in P
  <2> SUFFICES ASSUME n + 1 <= Len(q)
               PROVE  Tries(r, run[n + 1])
    OBVIOUS
  <2>1. run[n + 1] = tryQueue(run[n], q[n + 1])
    <3>1. run[n + 1] = Move(Kind("tryQueues"), q, run[n], q[n + 1])
      BY <1>0, <1>1, n + 1 \in 1..Len(q), n + 1 - 1 = n DEF Runs
    <3> QED BY <3>1 DEF Move, Kind
  <2>2. q[n + 1] \in Seq(Target)
    BY <1>0
  <2> QED BY <1>3, <2>1, <2>2, TryQueueTries
<1> HIDE DEF P
<1>4. Len(q) \in P
  BY <1>0, <1>2, <1>3, Induction
<1> QED BY <1>0, <1>1, <1>4 DEF P, Runs

Fork == [begin : Seq(Target), cancel : Seq(Target)]

LEMMA PostsAreForks ==
  ASSUME NEW b \in Seq(Target), NEW c \in Seq(Target)
  PROVE  Posts(b, c) \subseteq Fork
<1>1. CASE b = <<>> /\ c = <<>>
  BY <1>1 DEF Posts
<1>2. CASE ~(b = <<>> /\ c = <<>>) /\ SameDelay
  BY <1>2 DEF Posts, Fork
<1>3. CASE ~(b = <<>> /\ c = <<>>) /\ ~SameDelay
  <2>1. \A x \in {b} \ {<<>>} : [begin |-> x, cancel |-> <<>>] \in Fork
    BY <<>> \in Seq(Target) DEF Fork
  <2>2. \A x \in {c} \ {<<>>} : [begin |-> <<>>, cancel |-> x] \in Fork
    BY <<>> \in Seq(Target) DEF Fork
  <2> QED BY <1>3, <2>1, <2>2 DEF Posts
<1> QED BY <1>1, <1>2, <1>3

\* schedule changes nothing but the queues and the timers.
LEMMA ScheduleKeeps ==
  ASSUME NEW r, NEW a, Tracked(r), Tries(r, a)
  PROVE  LET s == schedule(a)
         IN  Starts(r, s) /\ s.where = a.rc.where /\ s.queues = a.queues
             /\ s.clients = a.rc.clients
<1> DEFINE s == schedule(a)
<1> DEFINE f == a.rc.forks \cup Posts(a.begin, a.cancel)
<1>0. Starts(r, a.rc) /\ Tracked(a.rc) /\ a.rc \in Context /\ a.queues \in Queues
  BY DEF Tries, Starts, Proceeds, Tracked
<1>1. f \in Forks
  <2>1. a.rc.forks \in Forks
    BY <1>0 DEF Context
  <2> QED BY <2>1, PostsAreForks DEF Tries, Forks, Fork
<1>2. s = [a.rc EXCEPT !.queues = a.queues, !.forks = f]
  BY DEF schedule
<1> HIDE DEF f
<1>3. s \in Context
  BY <1>0, <1>1, <1>2 DEF Context
<1>4. /\ s.where = a.rc.where /\ s.status = a.rc.status
      /\ s.method = a.rc.method /\ s.mHaveSentFinalResponse = a.rc.mHaveSentFinalResponse
      /\ s.best = a.rc.best /\ s.mBestPriority = a.rc.mBestPriority /\ s.sent = a.rc.sent
      /\ s.mTargetList = a.rc.mTargetList /\ s.clients = a.rc.clients
      /\ s.mTransactionCount = a.rc.mTransactionCount /\ s.mTCSerial = a.rc.mTCSerial
      /\ s.timers = a.rc.timers /\ s.queues = a.queues
  BY <1>0, <1>2 DEF Context
<1> HIDE DEF s
<1>5. Tracked(s)
  BY <1>0, <1>3, <1>4 DEF Tracked
<1>6. Started(a.rc, s) = {}
  BY <1>4 DEF Started
<1>7. Started(a.rc, a.rc) = {}
  BY DEF Started
<1>8. Proceeds(a.rc, a.rc) /\ Starts(a.rc, a.rc)
  BY <1>0, ProceedsRefl
<1>9. Proceeds(a.rc, s)
  BY <1>4, <1>5, <1>6, <1>7, <1>8 DEF Proceeds
<1>10. Starts(a.rc, s)
  BY <1>4, <1>6, <1>9 DEF Starts
<1> QED BY <1>0, <1>4, <1>10, StartsTrans DEF s

\* cancelClientTransaction(tid) on the targets of S.
LEMMA CancelProceeds ==
  ASSUME NEW r, Tracked(r), NEW S
  PROVE  LET s == cancelClientTransaction(r, S)
         IN  /\ Proceeds(r, s) /\ s.queues = r.queues
             /\ \A t \in Target : s.where[t] = IF t \in S /\ r.where[t] = "Candidate"
                                              THEN "Terminated" ELSE r.where[t]
<1> DEFINE A == IF r.method = "INVITE" THEN S \cap In(r, "Active") ELSE {}
<1> DEFINE C == S \cap In(r, "Candidate")
<1> DEFINE r1 == cancelTargets(r, A)
<1> DEFINE s == MoveTo(r1, C, "Terminated", "Terminated")
<1>0. r \in Context
  BY DEF Tracked
<1>1. cancelClientTransaction(r, S) = s
  BY DEF cancelClientTransaction
<1>2. /\ \A t \in Target : t \in A => r.where[t] = "Active"
      /\ \A t \in Target : t \in C <=> t \in S /\ r.where[t] = "Candidate"
  BY DEF In
<1> HIDE DEF A, C
<1>3. /\ r1 \in Context /\ Same(r, r1) /\ r1.where = r.where
      /\ \A t \in Target : r1.status[t] =
           IF t \notin A THEN r.status[t]
           ELSE IF r.status[t] = "Started" THEN "Cancelled"
           ELSE IF r.status[t] = "Candidate" THEN "Terminated" ELSE r.status[t]
  BY <1>0, CancelTargetsCancels
<1> HIDE DEF r1
<1>4. Moved(r1, s, C, "Terminated", "Terminated")
  BY <1>3, MoveToMoves DEF Map, Status
<1> HIDE DEF s
<1>5. /\ s \in Context /\ Same(r, s)
      /\ \A t \in Target : s.where[t] = IF t \in C THEN "Terminated" ELSE r.where[t]
      /\ \A t \in Target : s.status[t] =
           IF t \in C THEN "Terminated"
           ELSE IF t \in A /\ r.status[t] = "Started" THEN "Cancelled" ELSE r.status[t]
  <2>1. \A t \in Target : t \in A => r.status[t] \in {"Started", "Cancelled"}
    BY <1>2 DEF Tracked
  <2> QED BY <1>3, <1>4, <2>1 DEF Moved, Same
<1>6. Tracked(s)
  BY <1>2, <1>5 DEF Tracked, Same
<1>7. Started(r, s) = {}
  BY <1>5 DEF Started
<1>8. Proceeds(r, s)
  BY <1>0, <1>2, <1>5, <1>6, <1>7 DEF Proceeds, Same, Context
<1> QED BY <1>1, <1>2, <1>5, <1>8 DEF Same

LEMMA ForkControlProceeds ==
  ASSUME NEW r, Tracked(r), NEW fc \in Fork
  PROVE  /\ Proceeds(r, onForkControl(r, fc)) /\ onForkControl(r, fc).queues = r.queues
         /\ mWaitForTerminate =>
              \A t \in Target : onForkControl(r, fc).where[t] =
                                IF /\ mCancelBetweenForkGroups /\ hasCandidateTransactions(r)
                                   /\ t \in ToSet(fc.cancel) /\ r.where[t] = "Candidate"
                                THEN "Terminated" ELSE r.where[t]
<1> DEFINE r1 == IF mCancelBetweenForkGroups /\ hasCandidateTransactions(r)
                 THEN cancelClientTransaction(r, ToSet(fc.cancel)) ELSE r
<1>1. /\ Proceeds(r, r1) /\ r1.queues = r.queues
      /\ \A t \in Target : r1.where[t] =
                           IF /\ mCancelBetweenForkGroups /\ hasCandidateTransactions(r)
                              /\ t \in ToSet(fc.cancel) /\ r.where[t] = "Candidate"
                           THEN "Terminated" ELSE r.where[t]
  BY ProceedsRefl, CancelProceeds
<1>2. onForkControl(r, fc) = IF mWaitForTerminate THEN r1 ELSE beginEach(r1, fc.begin)
  BY DEF onForkControl
<1> HIDE DEF r1
<1>3. fc.begin \in Seq(Target) /\ Tracked(r1)
  BY <1>1 DEF Fork, Proceeds
<1>4. Proceeds(r1, beginEach(r1, fc.begin)) /\ beginEach(r1, fc.begin).queues = r1.queues
  BY <1>3, BeginEachStarts DEF Starts
<1> QED BY <1>1, <1>2, <1>4, ProceedsTrans

\* The whole target chain, for a request or a response and for a fork-control timer.
LEMMA ChainStarts ==
  ASSUME NEW r, Tracked(r), config \in Config
  PROVE  /\ Starts(r, targetChain(r, NoFork, FALSE))
         /\ Settled(targetChain(r, NoFork, FALSE))
<1>1. CASE ~mDoQValue
  BY <1>1, SimpleStarts DEF targetChain
<1>2. CASE mDoQValue
  <2> DEFINE a == tryQueues(r, <<>>)
  <2> DEFINE s == schedule(a)
  <2>1. targetChain(r, NoFork, FALSE) = IF a.active THEN s ELSE SimpleTargetHandler(s)
    BY <1>2 DEF targetChain, QValueTargetHandler, afterLoop
  <2>2. Tries(r, a)
    BY TryQueuesTries, <<>> \in Seq(Target)
  <2> HIDE DEF a
  <2>3. Starts(r, s) /\ s.where = a.rc.where
    BY <2>2, ScheduleKeeps
  <2>4. Tracked(s) /\ (a.active => In(s, "Active") # {})
    BY <2>2, <2>3 DEF Starts, Proceeds, Tries, In
  <2> HIDE DEF s
  <2> QED BY <2>1, <2>3, <2>4, SimpleStarts, StartsTrans DEF Settled
<1> QED BY <1>1, <1>2

LEMMA ForkChainProceeds ==
  ASSUME NEW r, Tracked(r), config \in Config, NEW fc \in Fork
  PROVE  Proceeds(r, targetChain(r, fc, TRUE))
<1>1. CASE ~mDoQValue
  BY <1>1, SimpleStarts DEF targetChain, Starts
<1>2. CASE mDoQValue
  <2> DEFINE r1 == onForkControl(r, fc)
  <2> DEFINE c == IF ~mWaitForTerminate /\ mCancelBetweenForkGroups THEN fc.begin ELSE <<>>
  <2> DEFINE a == tryQueues(r1, c)
  <2>1. targetChain(r, fc, TRUE) = schedule(a)
    BY <1>2 DEF targetChain, QValueTargetHandler, afterLoop
  <2>2. c \in Seq(Target)
    BY DEF Fork
  <2>3. Proceeds(r, r1) /\ Tracked(r1)
    BY ForkControlProceeds DEF Proceeds
  <2> HIDE DEF r1, c
  <2>4. Tries(r1, a)
    BY <2>2, <2>3, TryQueuesTries
  <2> HIDE DEF a
  <2>5. Proceeds(r1, schedule(a))
    BY <2>3, <2>4, ScheduleKeeps DEF Starts
  <2> QED BY <2>1, <2>3, <2>5, ProceedsTrans
<1> QED BY <1>1, <1>2
-----------------------------------------------------------------------------
(* Responses. *)

\* Candidates are given up; with stop no branch is left to go on.
Closed(r, s, stop) ==
  /\ Tracked(s) /\ Same(r, s)
  /\ \A t \in Target :
       IF r.where[t] = "Candidate" THEN s.where[t] = "Terminated"
       ELSE /\ s.where[t] = r.where[t]
            /\ s.status[t] = r.status[t] \/ (r.status[t] = "Started" /\ s.status[t] = "Cancelled")
  /\ stop => \A t \in Target : s.status[t] # "Started"

LEMMA ClearCloses ==
  ASSUME NEW r, Tracked(r)
  PROVE  Closed(r, clearCandidateTransactions(r), FALSE)
<1> DEFINE S == In(r, "Candidate")
<1> DEFINE r1 == cancelTargets(r, S)
<1> DEFINE w == [t \in Target |-> IF t \in S THEN "Terminated" ELSE r1.where[t]]
<1> DEFINE s == remap(r1, w, r1.status)
<1>0. r \in Context /\ \A t \in Target : t \in S <=> r.where[t] = "Candidate"
  BY DEF Tracked, In
<1> HIDE DEF S
<1>1. /\ r1 \in Context /\ Same(r, r1) /\ r1.where = r.where
      /\ \A t \in Target : r1.status[t] =
           IF t \notin S THEN r.status[t]
           ELSE IF r.status[t] = "Started" THEN "Cancelled"
           ELSE IF r.status[t] = "Candidate" THEN "Terminated" ELSE r.status[t]
  BY <1>0, CancelTargetsCancels
<1>2. clearCandidateTransactions(r) = s
  <2>1. clearCandidateTransactions(r) = [r1 EXCEPT !.where = w]
    BY DEF clearCandidateTransactions, S
  <2> HIDE DEF r1, w
  <2>2. [r1 EXCEPT !.where = w] = [r1 EXCEPT !.where = w, !.status = r1.status]
    BY <1>1 DEF Context
  <2> QED BY <2>1, <2>2 DEF remap
<1> HIDE DEF r1
<1>3. w \in Wheres /\ r1.status \in Statuses
  BY <1>1 DEF Context, Wheres, Map
<1>4. \A t \in Target : w[t] = IF t \in S THEN "Terminated" ELSE r.where[t]
  BY <1>1
<1> HIDE DEF w
<1>5. s \in Context /\ Same(r1, s) /\ s.where = w /\ s.status = r1.status
  BY <1>1, <1>3, Remap
<1> HIDE DEF s
<1>6. Same(r, s)
  BY <1>1, <1>5 DEF Same
<1>7. \A t \in Target : s.status[t] = IF t \in S THEN "Terminated" ELSE r.status[t]
  BY <1>0, <1>1, <1>5 DEF Tracked
<1>8. \A t \in Target : s.where[t] = IF t \in S THEN "Terminated" ELSE r.where[t]
  BY <1>4, <1>5
<1>9. Tracked(s)
  BY <1>0, <1>5, <1>6, <1>7, <1>8 DEF Tracked, Same
<1> QED BY <1>0, <1>2, <1>6, <1>7, <1>8, <1>9 DEF Closed

\* Active branches are cancelled, all of them.
LEMMA CancelStops ==
  ASSUME NEW r, Tracked(r), NEW s, s = cancelTargets(r, In(r, "Active"))
  PROVE  /\ Tracked(s) /\ Same(r, s) /\ s.where = r.where
         /\ \A t \in Target : /\ s.status[t] # "Started"
                              /\ \/ s.status[t] = r.status[t]
                                 \/ r.status[t] = "Started" /\ s.status[t] = "Cancelled"
<1> DEFINE A == In(r, "Active")
<1>0. r \in Context /\ \A t \in Target : t \in A <=> r.where[t] = "Active"
  BY DEF Tracked, In
<1> HIDE DEF A
<1>1. /\ s \in Context /\ Same(r, s) /\ s.where = r.where
      /\ \A t \in Target : s.status[t] =
           IF t \notin A THEN r.status[t]
           ELSE IF r.status[t] = "Started" THEN "Cancelled"
           ELSE IF r.status[t] = "Candidate" THEN "Terminated" ELSE r.status[t]
  BY <1>0, CancelTargetsCancels DEF A
<1>2. \A t \in Target : IF t \in A /\ r.status[t] = "Started" THEN s.status[t] = "Cancelled"
                        ELSE s.status[t] = r.status[t] /\ r.status[t] # "Started"
  BY <1>0, <1>1 DEF Tracked
<1>3. Tracked(s)
  BY <1>0, <1>1, <1>2 DEF Tracked, Same
<1> QED BY <1>1, <1>2, <1>3

LEMMA ClosedTwice ==
  ASSUME NEW r, NEW s, NEW u, NEW stop, Tracked(r), Tracked(s), Same(r, s), s.where = r.where,
         \A t \in Target : /\ stop => s.status[t] # "Started"
                           /\ \/ s.status[t] = r.status[t]
                              \/ r.status[t] = "Started" /\ s.status[t] = "Cancelled",
         Closed(s, u, FALSE)
  PROVE  Closed(r, u, stop)
<1>1. \A t \in Target :
       IF r.where[t] = "Candidate" THEN u.where[t] = "Terminated"
       ELSE /\ u.where[t] = r.where[t]
            /\ u.status[t] = r.status[t] \/ (r.status[t] = "Started" /\ u.status[t] = "Cancelled")
  BY DEF Closed
<1>2. stop => \A t \in Target : u.status[t] # "Started"
  BY DEF Closed, Tracked
<1> QED BY <1>1, <1>2 DEF Closed, Same

LEMMA CancelAllCloses ==
  ASSUME NEW r, Tracked(r)
  PROVE  Closed(r, cancelAllClientTransactions(r), r.method = "INVITE")
<1> DEFINE s == IF r.method = "INVITE" THEN cancelTargets(r, In(r, "Active")) ELSE r
<1>1. cancelAllClientTransactions(r) = clearCandidateTransactions(s)
  BY DEF cancelAllClientTransactions
<1>2. /\ Tracked(s) /\ Same(r, s) /\ s.where = r.where
      /\ \A t \in Target : /\ r.method = "INVITE" => s.status[t] # "Started"
                           /\ \/ s.status[t] = r.status[t]
                              \/ r.status[t] = "Started" /\ s.status[t] = "Cancelled"
  BY CancelStops DEF Same
<1> HIDE DEF s
<1>3. Closed(s, clearCandidateTransactions(s), FALSE)
  BY <1>2, ClearCloses
<1> DEFINE u == clearCandidateTransactions(s)
<1> HIDE DEF u
<1>4. Closed(r, u, r.method = "INVITE")
  BY <1>2, <1>3, ClosedTwice DEF u
<1> QED BY <1>1, <1>4 DEF u

\* The fields that neither a response nor its weighing changes.
SameBranches(r, s) ==
  /\ s.method = r.method /\ s.where = r.where /\ s.status = r.status
  /\ s.queues = r.queues /\ s.mTargetList = r.mTargetList
  /\ s.mTransactionCount = r.mTransactionCount
  /\ s.clients = r.clients /\ s.mTCSerial = r.mTCSerial
  /\ s.mInitialTimerCSet = r.mInitialTimerCSet /\ s.timers = r.timers /\ s.forks = r.forks

Sends(r, s, code) ==
  /\ s \in Context /\ SameBranches(r, s)
  /\ s.best = r.best /\ s.mBestPriority = r.mBestPriority
  /\ s.mHaveSentFinalResponse <=> r.mHaveSentFinalResponse \/ code > 199
  /\ s.sent = IF code \in 1..199 THEN r.sent ELSE Append(r.sent, code)

LEMMA SendIs ==
  ASSUME NEW r \in Context, NEW code \in Code
  PROVE  Sends(r, sendResponse(r, code), code)
<1> DEFINE h == r.mHaveSentFinalResponse \/ code > 199
<1> DEFINE q == IF code \in 1..199 THEN r.sent ELSE Append(r.sent, code)
<1> DEFINE s == [r EXCEPT !.mHaveSentFinalResponse = h, !.sent = q]
<1>0. h \in BOOLEAN /\ q \in Sents
  BY DEF Sents, Context
<1>1. sendResponse(r, code) = s
  BY DEF sendResponse
<1>2. (h <=> r.mHaveSentFinalResponse \/ code > 199)
  OBVIOUS
<1> HIDE DEF h, q
<1>3. s \in Context
  BY <1>0 DEF Context
<1>4. SameBranches(r, s) /\ s.best = r.best /\ s.mBestPriority = r.mBestPriority
  BY DEF SameBranches, Context
<1>5. s.mHaveSentFinalResponse = h /\ s.sent = q
  BY DEF Context
<1> HIDE DEF s
<1> QED BY <1>1, <1>2, <1>3, <1>4, <1>5 DEF Sends, q

\* The best response so far, and its priority.
ranked(r, b, p) == [r EXCEPT !.best = b, !.mBestPriority = p]

Ranks(r, s, b, p) ==
  /\ s \in Context /\ SameBranches(r, s)
  /\ s.mHaveSentFinalResponse = r.mHaveSentFinalResponse /\ s.sent = r.sent
  /\ s.best = b /\ s.mBestPriority = p

LEMMA RankedIs ==
  ASSUME NEW r \in Context, NEW b \in Code, NEW p \in 0..50
  PROVE  Ranks(r, ranked(r, b, p), b, p)
<1> DEFINE s == ranked(r, b, p)
<1>1. s \in Context
  BY DEF Context, ranked
<1>2. SameBranches(r, s)
  BY DEF SameBranches, Context, ranked
<1>3. /\ s.mHaveSentFinalResponse = r.mHaveSentFinalResponse /\ s.sent = r.sent
      /\ s.best = b /\ s.mBestPriority = p
  BY DEF Context, ranked
<1> QED BY <1>1, <1>2, <1>3 DEF Ranks

LEMMA TrackedBranches ==
  ASSUME NEW r, NEW s, Tracked(r), s \in Context, SameBranches(r, s)
  PROVE  Tracked(s)
BY DEF Tracked, SameBranches

LEMMA TerminateIs ==
  ASSUME NEW r, Tracked(r), NEW t \in Target, r.where[t] = "Active"
  PROVE  LET s == terminateClientTransaction(r, t)
         IN  Tracked(s) /\ Moved(r, s, {t}, "Terminated", "Terminated")
<1> DEFINE s == terminateClientTransaction(r, t)
<1>1. s = MoveTo(r, {t}, "Terminated", "Terminated")
  BY DEF terminateClientTransaction
<1>2. Moved(r, s, {t}, "Terminated", "Terminated")
  BY <1>1, MoveToMoves DEF Map, Status, Tracked
<1> HIDE DEF s
<1>3. Tracked(s)
  BY <1>2 DEF Tracked, Moved, Same
<1> QED BY <1>2, <1>3 DEF s
-----------------------------------------------------------------------------
(* The invariant but for Quiet, which holds again when the target chain has run. *)
Mid(r, an, ri, he, ca, wt) ==
  /\ Tracked(r)
  /\ Open(r, an, ri)
  /\ Stopped(r)
  /\ Answered(r, an)
  /\ Armed(r, ri)
  /\ Upstream(r)
  /\ Weighed(r, he)
  /\ Forwarded(r, he)
  /\ Ended(r, ca, wt)

\* When nothing is active a response has been heard, or the first branch is to start.
Due(r, he) ==
  ~r.mHaveSentFinalResponse /\ (\A t \in Target : r.where[t] # "Active") =>
    \/ AllHeard => he # {}
    \/ r.mTargetList = {} /\ \E t \in Target : r.where[t] = "Candidate"

LEMMA Priorities ==
  ASSUME NEW code \in 300..699
  PROVE  /\ code <= 599 => getPriority(code) \in 1..49 /\ Rank(code) = getPriority(code)
         /\ code > 599 => Rank(code) = 0
         /\ Rank(code) \in 0..49
<1>1. code <= 599 => getPriority(code) \in 1..49
  BY DEF getPriority
<1> QED BY <1>1 DEF Rank

\* The target chain keeps everything.
LEMMA StartsMid ==
  ASSUME NEW r, NEW s, NEW an, NEW ri, NEW he, NEW ca, NEW wt,
         Mid(r, an, ri, he, ca, wt), Proceeds(r, s)
  PROVE  Mid(s, an, ri, he, ca, wt)
<1>1. Tracked(s) /\ Tracked(r)
  BY DEF Proceeds, Mid
<1>2. Open(s, an, ri)
  <2> SUFFICES ASSUME NEW t \in Target
               PROVE  /\ s.where[t] = "Active" <=> t \in s.clients /\ an[t] = 0
                      /\ s.where[t] = "Candidate" => an[t] = 0 /\ t \notin ri
                      /\ t \in ri => t \in s.clients \/ an[t] # 0
    BY DEF Open, Mid
  <2>1. /\ r.where[t] = "Active" <=> t \in r.clients /\ an[t] = 0
        /\ r.where[t] = "Candidate" => an[t] = 0 /\ t \notin ri
        /\ t \in ri => t \in r.clients \/ an[t] # 0
    BY DEF Mid, Open
  <2>2. t \in s.clients <=> t \in r.clients \/ (r.where[t] = "Candidate" /\ s.where[t] = "Active")
    BY DEF Proceeds, Started
  <2>3. r.where[t] = "Candidate" => t \notin r.clients
    BY <1>1 DEF Tracked
  <2> QED BY <2>1, <2>2, <2>3 DEF Proceeds
<1>3. Stopped(s)
  <2>1. \A t \in Target : r.mHaveSentFinalResponse /\ s.status[t] = "Started" =>
          r.status[t] = "Started"
    BY <1>1 DEF Proceeds, Tracked
  <2> QED BY <2>1 DEF Proceeds, Mid, Stopped
<1>4. Answered(s, an)
  BY DEF Proceeds, Mid, Answered, Started, Open
<1>5. Armed(s, ri)
  <2>1. \A t \in ri : s.status[t] = "Started" => r.status[t] = "Started"
    BY <1>1 DEF Proceeds, Mid, Open, Tracked
  <2> QED BY <2>1 DEF Proceeds, Mid, Armed
<1>6. Upstream(s)
  BY DEF Proceeds, Mid, Upstream
<1>7. Weighed(s, he) /\ Forwarded(s, he)
  BY DEF Proceeds, Mid, Weighed, Forwarded
<1>8. Ended(s, ca, wt)
  BY DEF Proceeds, Mid, Ended
<1> QED BY <1>1, <1>2, <1>3, <1>4, <1>5, <1>6, <1>7, <1>8 DEF Mid
\* Nothing is active, and an answer has been sent unless none was heard.
Done(r, he) ==
  ~r.mHaveSentFinalResponse /\ (\A t \in Target : r.where[t] # "Active") =>
    /\ \A t \in Target : r.where[t] # "Candidate"
    /\ he = {} /\ ~AllHeard

LEMMA Codes == \A x \in Code : x \in Int /\ (x = -1 \/ x \in 100..699)
BY DEF Code, None

LEMMA VisibleIs ==
  ASSUME NEW b \in Code, NEW m
  PROVE  /\ visible(b, m) \in Code
         /\ b = None => visible(b, m) = None
         /\ b > 199 => visible(b, m) > 199
         /\ b # 500 => visible(b, m) # 500
BY DEF visible, Code, None

LEMMA VisibleStands ==
  ASSUME NEW b \in Code, NEW m, NEW c \in 300..699, Stands(b, c)
  PROVE  visible(b, m) \in Forms(c, m) /\ b > 199
BY DEF visible, Code, None, Stands, Forms

LEMMA AppendIs ==
  ASSUME NEW T, NEW q \in Seq(T), NEW x \in T
  PROVE  /\ Append(q, x) \in Seq(T) /\ Append(q, x) # <<>>
         /\ Len(q) \in Nat /\ Len(Append(q, x)) = Len(q) + 1
         /\ Append(q, x)[Len(q) + 1] = x
         /\ \A i \in 1..Len(q) : Append(q, x)[i] = q[i]
         /\ \A i \in 1..(Len(q) + 1) : i \in 1..Len(q) \/ i = Len(q) + 1
         /\ q = <<>> => Len(q) = 0 /\ Append(q, x)[1] = x
         /\ q # <<>> => Len(q) > 0 /\ 1 \in 1..Len(q) /\ Append(q, x)[1] = q[1] /\ q[1] \in T
<1>1. /\ Append(q, x) \in Seq(T) /\ Append(q, x) # <<>>
      /\ Len(q) \in Nat /\ Len(Append(q, x)) = Len(q) + 1
      /\ Append(q, x)[Len(q) + 1] = x
      /\ \A i \in 1..Len(q) : Append(q, x)[i] = q[i]
  OBVIOUS
<1>2. q = <<>> => Len(q) = 0
  OBVIOUS
<1>3. q # <<>> => Len(q) > 0 /\ 1 \in 1..Len(q) /\ q[1] \in T
  OBVIOUS
<1> QED BY <1>1, <1>2, <1>3

LEMMA ForwardBestMid ==
  ASSUME NEW r, NEW an, NEW ri, NEW he, NEW ca, NEW wt,
         Mid(r, an, ri, he, ca, wt), ~r.mHaveSentFinalResponse,
         \A t \in Target : r.where[t] \notin {"Active", "Candidate"},
         AllHeard => he # {}
  PROVE  LET s == forwardBestResponse(r)
         IN  /\ Mid(s, an, ri, he, ca, wt) /\ Done(s, he) /\ s.clients = r.clients
             /\ s.where = r.where /\ s.method = r.method /\ s.mTransactionCount = r.mTransactionCount
             /\ s.queues = r.queues
<1> DEFINE r1 == clearCandidateTransactions(r)
<1> DEFINE r2 == IF r.method = "INVITE" THEN cancelActiveClientTransactions(r1) ELSE r1
<1> DEFINE c == visible(r.best, r.method)
<1> DEFINE r3 == [r2 EXCEPT !.best = c]
<1> DEFINE s == sendResponse(r3, c)
<1>0. Tracked(r) /\ r \in Context
  BY DEF Mid, Tracked
<1>1. forwardBestResponse(r) = s
  BY DEF forwardBestResponse
<1>2. Closed(r, r1, FALSE)
  BY <1>0, ClearCloses
<1> HIDE DEF r1
<1>3. Tracked(r2) /\ Same(r, r2) /\ r2.where = r.where /\ r2.status = r.status
  <2>1. Tracked(r1) /\ Same(r, r1) /\ \A t \in Target : r1.where[t] = r.where[t] /\ r1.status[t] = r.status[t]
    BY <1>0, <1>2 DEF Closed, Tracked
  <2>2. r1.where = r.where /\ r1.status = r.status
    BY <1>0, <2>1 DEF Tracked, Context, Wheres, Statuses
  <2>3. CASE r.method = "INVITE"
    <3>1. r2 = cancelTargets(r1, In(r1, "Active"))
      BY <2>1, <2>3 DEF cancelActiveClientTransactions, Same
    <3>2. /\ Tracked(r2) /\ Same(r1, r2) /\ r2.where = r1.where
          /\ \A t \in Target : \/ r2.status[t] = r1.status[t]
                               \/ r1.status[t] = "Started" /\ r2.status[t] = "Cancelled"
      BY <2>1, <3>1, CancelStops
    <3> HIDE DEF r2
    <3>3. \A t \in Target : r2.status[t] = r1.status[t]
      BY <2>1, <2>2, <3>2 DEF Tracked
    <3>4. r2.status = r1.status
      BY <2>1, <3>2, <3>3 DEF Tracked, Context, Statuses
    <3> QED BY <2>1, <2>2, <3>2, <3>4 DEF Same
  <2>4. CASE r.method # "INVITE"
    BY <2>1, <2>2, <2>4
  <2> QED BY <2>3, <2>4
<1> HIDE DEF r2
<1>4. r.best \in Code /\ c \in Code
  BY <1>0, VisibleIs DEF Context
<1> HIDE DEF c
<1>5. r3 = ranked(r2, c, r2.mBestPriority) /\ r2.mBestPriority \in 0..50 /\ r2 \in Context
  BY <1>3 DEF Tracked, Context, ranked
<1>6. Ranks(r2, r3, c, r2.mBestPriority)
  BY <1>4, <1>5, RankedIs
<1> HIDE DEF r3
<1>7. Sends(r3, s, c)
  BY <1>4, <1>6, SendIs DEF Ranks
<1> HIDE DEF s
<1>8. /\ s \in Context /\ SameBranches(r, s) /\ s.best = c
      /\ s.mBestPriority = r.mBestPriority
      /\ s.mHaveSentFinalResponse <=> c > 199
      /\ s.sent = IF c \in 1..199 THEN r.sent ELSE Append(r.sent, c)
  BY <1>3, <1>6, <1>7 DEF Ranks, Sends, SameBranches, Same
<1>9. Tracked(s)
  BY <1>0, <1>8, TrackedBranches
<1>10. Open(s, an, ri) /\ Armed(s, ri) /\ Answered(s, an) /\ Ended(s, ca, wt)
  <2>1. Open(s, an, ri) /\ Armed(s, ri)
    BY <1>8 DEF SameBranches, Mid, Open, Armed
  <2>2. Answered(s, an)
    BY <1>8 DEF SameBranches, Mid, Answered
  <2>3. Ended(s, ca, wt)
    BY <1>8 DEF SameBranches, Mid, Ended
  <2> QED BY <2>1, <2>2, <2>3
<1>11. Stopped(s)
  BY <1>0, <1>8 DEF SameBranches, Stopped, Tracked
<1>12. /\ he = {} => c = None /\ r.best = None
       /\ he # {} => c > 199 /\ \E d \in he : BestOf(d, he) /\ c \in Forms(d, r.method)
  <2>1. Weighed(r, he)
    BY DEF Mid
  <2>2. CASE he = {}
    BY <2>1, <2>2, <1>4, VisibleIs DEF Weighed, c
  <2>3. CASE he # {}
    <3>1. PICK d \in he : d \in 300..699 /\ BestOf(d, he) /\ Stands(r.best, d)
      BY <2>1, <2>3 DEF Weighed
    <3>2. r.best > 199 /\ visible(r.best, r.method) \in Forms(d, r.method)
      BY <1>4, <3>1, VisibleStands
    <3> QED BY <1>4, <2>3, <3>1, <3>2, VisibleIs DEF c
  <2> QED BY <2>2, <2>3
<1>13. r.sent \in Seq(Code) /\ (r.sent = <<>> \/ (r.sent[1] <= 199 /\ ~(AllHeard /\ ~AsyncAuth)))
  <2>1. r.sent \in Seq(Code)
    BY <1>0 DEF Context, Sents
  <2>2. r.sent # <<>> => r.sent[1] \in Code
    BY <2>1
  <2>3. r.sent # <<>> => ~(r.sent[1] > 199 \/ (AllHeard /\ ~AsyncAuth))
    BY DEF Mid, Upstream
  <2> HIDE DEF AllHeard, AsyncAuth
  <2>4. r.sent # <<>> => r.sent[1] <= 199
    BY <2>2, <2>3, Codes
  <2> QED BY <2>1, <2>3, <2>4
<1>14. c \notin 1..199
  BY <1>12 DEF None
<1>15. /\ s.sent = Append(r.sent, c) /\ Len(s.sent) = Len(r.sent) + 1 /\ Len(r.sent) \in Nat
       /\ s.sent # <<>> /\ s.sent[Len(r.sent) + 1] = c
       /\ \A i \in 1..Len(r.sent) : s.sent[i] = r.sent[i]
       /\ (r.sent = <<>> => Len(r.sent) = 0)
       /\ \A i \in 1..(Len(r.sent) + 1) : i \in 1..Len(r.sent) \/ i = Len(r.sent) + 1
       /\ s.sent[1] = IF r.sent = <<>> THEN c ELSE r.sent[1]
  <2>1. s.sent = Append(r.sent, c)
    BY <1>8, <1>14
  <2> QED BY <2>1, <1>4, <1>13, AppendIs
<1>16. s.sent[1] = IF r.sent = <<>> THEN c ELSE r.sent[1]
  BY <1>15
<1>17. Upstream(s)
  <2>1. s.sent[1] > 199 \/ (AllHeard /\ ~AsyncAuth) => s.mHaveSentFinalResponse
    <3>1. CASE r.sent = <<>>
      <4>1. CASE he = {}
        <5>1. s.sent[1] = -1 /\ ~AllHeard
          BY <1>12, <1>16, <3>1, <4>1 DEF None
        <5> QED BY <5>1
      <4>2. CASE he # {}
        BY <1>8, <1>12, <4>2
      <4> QED BY <4>1, <4>2
    <3>2. CASE r.sent # <<>>
      <4>1. r.sent[1] \in Code
        BY <1>13, <3>2
      <4> QED BY <1>13, <1>16, <3>2, <4>1, Codes
    <3> QED BY <3>1, <3>2
  <2>2. AllHeard /\ ~AsyncAuth => Len(s.sent) = 1
    BY <1>13, <1>15, Len(r.sent) = 0 => Len(s.sent) = 1
  <2>3. 500 \notin Finals \cup AuthCodes => s.best # 500 /\ \A i \in 1..Len(s.sent) : s.sent[i] # 500
    <3> SUFFICES ASSUME 500 \notin Finals \cup AuthCodes
                 PROVE  s.best # 500 /\ \A i \in 1..Len(s.sent) : s.sent[i] # 500
      OBVIOUS
    <3>1. r.best # 500 /\ \A i \in 1..Len(r.sent) : r.sent[i] # 500
      BY DEF Mid, Upstream
    <3>2. c # 500
      BY <1>4, <3>1, VisibleIs DEF c
    <3>3. \A i \in 1..(Len(r.sent) + 1) : s.sent[i] # 500
      BY <1>15, <3>1, <3>2
    <3>4. Len(s.sent) = Len(r.sent) + 1 /\ s.best = c
      BY <1>8, <1>15
    <3> QED BY <3>2, <3>3, <3>4
  <2>4. Len(s.sent) = 1 => \A i \in 2..Len(s.sent) : s.sent[i] \in 200..299 /\ s.method = "INVITE"
    OBVIOUS
  <2> QED BY <2>1, <2>2, <2>3, <2>4 DEF Upstream
<1>18. Weighed(s, he)
  BY <1>8, <1>12 DEF Mid, Weighed, None
<1>19. Forwarded(s, he)
  <2>1. s.sent[1] >= 300 => r.sent = <<>>
    <3>1. r.sent # <<>> => r.sent[1] \in Code
      BY <1>13
    <3> QED BY <1>13, <1>16, <3>1, Codes
  <2> QED BY <1>8, <1>12, <1>16, <2>1 DEF Forwarded, SameBranches
<1>20. Done(s, he)
  BY <1>8, <1>12 DEF Done, SameBranches
<1> QED BY <1>1, <1>8, <1>9, <1>10, <1>11, <1>17, <1>18, <1>19, <1>20 DEF Mid, SameBranches

\* The target chain and the check for quiescence after it.
LEMMA Settles ==
  ASSUME NEW r, NEW s, NEW an, NEW ri, NEW he, NEW ca, NEW wt,
         Mid(r, an, ri, he, ca, wt), Due(r, he), Starts(r, s), Settled(s)
  PROVE  LET u == onQuiescent(s)
         IN  /\ Mid(u, an, ri, he, ca, wt) /\ Done(u, he) /\ u.clients = s.clients
             /\ u.where = s.where /\ u.method = s.method /\ u.mTransactionCount = s.mTransactionCount
<1>1. Mid(s, an, ri, he, ca, wt)
  BY StartsMid DEF Starts
<1>2. CASE s.mHaveSentFinalResponse \/ In(s, "Active") # {}
  <2>1. onQuiescent(s) = s
    BY <1>2 DEF onQuiescent, hasActiveTransactions
  <2>2. Done(s, he)
    BY <1>2 DEF Done, In
  <2> QED BY <1>1, <2>1, <2>2
<1>3. CASE ~s.mHaveSentFinalResponse /\ In(s, "Active") = {}
  <2>1. \A t \in Target : s.where[t] \notin {"Active", "Candidate"}
    BY <1>3 DEF Settled, In
  <2>2. onQuiescent(s) = forwardBestResponse(s)
    BY <1>3, <2>1 DEF onQuiescent, hasActiveTransactions, hasCandidateTransactions, In
  <2>3. AllHeard => he # {}
    <3>1. \A t \in Target : r.where[t] # "Active"
      BY <2>1 DEF Starts, Proceeds
    <3>2. Started(r, s) = {}
      BY <2>1 DEF Started
    <3>3. ~(r.mTargetList = {} /\ \E t \in Target : r.where[t] = "Candidate")
      BY <1>3, <2>1, <3>2 DEF Starts, Proceeds
    <3> QED BY <1>3, <3>1, <3>3 DEF Due, Starts, Proceeds
  <2> QED BY <1>1, <1>3, <2>1, <2>2, <2>3, ForwardBestMid
<1> QED BY <1>2, <1>3

\* The same without the check, when a branch is active.
LEMMA StartsDone ==
  ASSUME NEW s, NEW he, In(s, "Active") # {}
  PROVE  Done(s, he)
BY DEF Done, In
-----------------------------------------------------------------------------
(* What a response, or its end, does to the parts of the invariant. *)
Parts(r, an, ri) == Tracked(r) /\ Open(r, an, ri) /\ Armed(r, ri)

LEMMA ClosedParts ==
  ASSUME NEW r, NEW s, NEW stop, NEW an, NEW ri, Parts(r, an, ri), Closed(r, s, stop)
  PROVE  Parts(s, an, ri)
<1>1. \A t \in Target : s.status[t] = "Started" => r.status[t] = "Started"
  BY DEF Closed, Parts, Tracked
<1>2. Armed(s, ri)
  BY <1>1 DEF Parts, Open, Armed, Closed, Same
<1>3. Open(s, an, ri)
  BY DEF Parts, Open, Closed, Same
<1> QED BY <1>2, <1>3 DEF Parts, Closed

LEMMA ClosedMid ==
  ASSUME NEW r, NEW s, NEW stop, NEW an, NEW ri, NEW he, NEW ca, NEW wt,
         Mid(r, an, ri, he, ca, wt), Closed(r, s, stop)
  PROVE  Mid(s, an, ri, he, ca, wt)
<1>1. Parts(s, an, ri)
  BY ClosedParts DEF Mid, Parts
<1>2. \A t \in Target : s.status[t] = "Started" => r.status[t] = "Started"
  BY DEF Closed, Mid, Tracked
<1>3. Stopped(s)
  BY <1>2 DEF Mid, Stopped, Closed, Same
<1>4. Answered(s, an)
  BY DEF Mid, Answered, Closed, Same
<1>5. Upstream(s)
  BY DEF Mid, Upstream, Closed, Same
<1>6. Weighed(s, he) /\ Forwarded(s, he)
  BY DEF Mid, Weighed, Forwarded, Closed, Same
<1>7. Ended(s, ca, wt)
  BY DEF Mid, Ended, Closed, Same
<1> QED BY <1>1, <1>3, <1>4, <1>5, <1>6, <1>7 DEF Parts, Mid

\* A final response may be sent.
MaySend(r, an, ri, he, code) ==
  /\ code \in 200..699
  /\ Parts(r, an, ri) /\ Upstream(r)
  /\ code < 300 \/ he = {}
  /\ r.mHaveSentFinalResponse => Forwarded(r, he)
  /\ NoStray => \A t \in Target : /\ r.where[t] # "Candidate"
                                  /\ r.method = "INVITE" => r.status[t] # "Started"
  /\ r.mHaveSentFinalResponse /\ AllHeard /\ ~AsyncAuth => code \in 200..299 /\ r.method = "INVITE"
  /\ 500 \notin Finals \cup AuthCodes => code # 500

LEMMA SendsMid ==
  ASSUME NEW r, NEW an, NEW ri, NEW he, NEW ca, NEW wt, NEW code, MaySend(r, an, ri, he, code)
  PROVE  Mid(sendResponse(r, code), an, ri, he, ca, wt) /\ Sends(r, sendResponse(r, code), code)
<1> DEFINE s == sendResponse(r, code)
<1>a. /\ code \in 200..699 /\ Parts(r, an, ri) /\ Upstream(r) /\ (code < 300 \/ he = {})
      /\ r.mHaveSentFinalResponse => Forwarded(r, he)
      /\ NoStray => \A t \in Target : /\ r.where[t] # "Candidate"
                                      /\ r.method = "INVITE" => r.status[t] # "Started"
      /\ r.mHaveSentFinalResponse /\ AllHeard /\ ~AsyncAuth => code \in 200..299 /\ r.method = "INVITE"
      /\ 500 \notin Finals \cup AuthCodes => code # 500
  BY DEF MaySend
<1>0. r \in Context /\ code \in Code /\ r.sent \in Seq(Code)
  BY <1>a DEF Parts, Tracked, Code, Context, Sents
<1>1. Sends(r, s, code)
  BY <1>0, SendIs
<1> HIDE DEF s
<1>2. /\ s \in Context /\ SameBranches(r, s) /\ s.mHaveSentFinalResponse
      /\ s.best = r.best /\ s.sent = Append(r.sent, code)
  BY <1>1, <1>a DEF Sends
<1>3. Tracked(s)
  BY <1>2, <1>a, TrackedBranches DEF Parts
<1>4. Open(s, an, ri) /\ Armed(s, ri)
  BY <1>2, <1>a DEF SameBranches, Parts, Open, Armed
<1>5. Stopped(s)
  BY <1>2, <1>a DEF SameBranches, Stopped
<1>6. Answered(s, an) /\ Ended(s, ca, wt) /\ Weighed(s, he)
  BY <1>2 DEF Answered, Ended, Weighed
<1>7. /\ Len(r.sent) \in Nat /\ Len(s.sent) = Len(r.sent) + 1 /\ s.sent # <<>>
      /\ s.sent[Len(r.sent) + 1] = code
      /\ \A i \in 1..Len(r.sent) : s.sent[i] = r.sent[i]
      /\ \A i \in 1..(Len(r.sent) + 1) : i \in 1..Len(r.sent) \/ i = Len(r.sent) + 1
      /\ r.sent = <<>> => Len(r.sent) = 0 /\ s.sent[1] = code
      /\ r.sent # <<>> => Len(r.sent) > 0 /\ s.sent[1] = r.sent[1] /\ r.sent[1] \in Code
  BY <1>0, <1>2, AppendIs
<1>8. Upstream(s)
  <2>1. ASSUME AllHeard /\ ~AsyncAuth, NEW i \in 2..(Len(r.sent) + 1)
        PROVE  s.sent[i] \in 200..299 /\ s.method = "INVITE"
    <3>1. r.sent # <<>> /\ r.mHaveSentFinalResponse
      BY <1>7, <1>a, <2>1 DEF Upstream
    <3>2. code \in 200..299 /\ r.method = "INVITE"
      BY <1>a, <2>1, <3>1
    <3>3. CASE i \in 1..Len(r.sent)
      <4>1. i \in 2..Len(r.sent)
        BY <1>7, <3>3
      <4> QED BY <1>2, <1>7, <1>a, <2>1, <3>3, <4>1 DEF Upstream, SameBranches
    <3>4. CASE i = Len(r.sent) + 1
      BY <1>2, <1>7, <3>2, <3>4 DEF SameBranches
    <3> QED BY <1>7, <3>3, <3>4
  <2>2. ASSUME 500 \notin Finals \cup AuthCodes
        PROVE  s.best # 500 /\ \A i \in 1..(Len(r.sent) + 1) : s.sent[i] # 500
    BY <1>2, <1>7, <1>a, <2>2 DEF Upstream
  <2> QED BY <1>2, <1>7, <1>a, <2>1, <2>2 DEF Upstream
<1>9. Forwarded(s, he)
  <2> SUFFICES ASSUME s.sent[1] >= 300, he # {}
               PROVE  \E c \in he : BestOf(c, he) /\ s.sent[1] \in Forms(c, s.method)
    BY DEF Forwarded
  <2>1. r.sent # <<>>
    <3>1. code < 300 /\ code \in Int
      BY <1>a
    <3> QED BY <1>7, <3>1
  <2>2. r.sent[1] \in Int
    BY <1>7, <2>1, Codes
  <2>3. r.mHaveSentFinalResponse
    BY <1>7, <1>a, <2>1, <2>2 DEF Upstream
  <2> QED BY <1>2, <1>7, <1>a, <2>1, <2>3 DEF Forwarded, SameBranches
<1> QED BY <1>1, <1>3, <1>4, <1>5, <1>6, <1>8, <1>9 DEF Mid, s

\* A response is weighed.
Weighs(r, s, he, code) ==
  /\ s \in Context /\ SameBranches(r, s) /\ s.sent = r.sent
  /\ s.mHaveSentFinalResponse = r.mHaveSentFinalResponse
  /\ Weighed(s, he \cup {code})
  /\ s.best \in {r.best, code, 300, 407}

LEMMA WeighIs ==
  ASSUME NEW r, NEW he, NEW code, r \in Context, code \in 300..599, Weighed(r, he),
         ~r.mHaveSentFinalResponse
  PROVE  Weighs(r, weigh(r, code), he, code)
<1> DEFINE p == getPriority(code)
<1> DEFINE s == weigh(r, code)
<1> DEFINE b == IF code = 407 THEN 407 ELSE IF code \in 300..399 THEN 300 ELSE r.best
<1>0. p \in 1..49 /\ Rank(code) = p /\ r.mBestPriority \in 0..50 /\ r.best \in Code
  <2>1. code \in 300..699 /\ code <= 599
    OBVIOUS
  <2> QED BY <2>1, Priorities DEF Context
<1>00. code \in Code /\ b \in Code
  BY <1>0 DEF Code
<1>1. /\ p < r.mBestPriority => s = ranked(r, code, p)
      /\ p > r.mBestPriority => s = r
      /\ p = r.mBestPriority => s = [r EXCEPT !.best = b]
  BY <1>0 DEF weigh, ranked
<1> HIDE DEF p, s, b
<1>2. CASE p < r.mBestPriority
  <2>1. Ranks(r, s, code, p)
    BY <1>0, <1>00, <1>1, <1>2, RankedIs
  <2>2. BestOf(code, he \cup {code})
    <3>0. \A d \in he : d \in 300..699
      BY DEF Weighed
    <3>1. ASSUME NEW d \in he
          PROVE  d \in 300..699 /\ Rank(d) \in 0..49
      <4>1. d \in 300..699
        BY <3>0
      <4> QED BY <4>1, Priorities
    <3>2. \A d \in he : Rank(d) >= r.mBestPriority
      BY <1>0, <3>1 DEF Weighed, BestOf
    <3> QED BY <1>0, <1>2, <3>1, <3>2 DEF BestOf
  <2>3. Weighed(s, he \cup {code})
    BY <1>0, <2>1, <2>2 DEF Weighed, Ranks, Stands
  <2> QED BY <2>1, <2>3 DEF Weighs, Ranks, s
<1>3. CASE p > r.mBestPriority
  <2>1. Ranks(r, s, r.best, r.mBestPriority)
    BY <1>0, <1>1, <1>3 DEF Ranks, SameBranches
  <2>2. PICK c \in he : BestOf(c, he) /\ r.mBestPriority = Rank(c) /\ Stands(r.best, c)
    BY <1>0, <1>3 DEF Weighed
  <2>3. BestOf(c, he \cup {code})
    BY <1>0, <1>3, <2>2 DEF BestOf
  <2>4. Weighed(s, he \cup {code})
    BY <2>1, <2>2, <2>3 DEF Weighed, Ranks
  <2> QED BY <2>1, <2>4 DEF Weighs, Ranks, s
<1>4. CASE p = r.mBestPriority
  <2>0. s = ranked(r, b, p)
    BY <1>0, <1>1, <1>4 DEF ranked, Context
  <2>1. Ranks(r, s, b, p)
    BY <1>0, <1>00, <2>0, RankedIs
  <2>2. PICK c \in he : BestOf(c, he) /\ r.mBestPriority = Rank(c) /\ Stands(r.best, c)
    BY <1>0, <1>4 DEF Weighed
  <2>3. BestOf(c, he \cup {code}) /\ BestOf(code, he \cup {code})
    BY <1>0, <1>4, <2>2 DEF BestOf
  <2>4. Stands(b, code) \/ Stands(b, c)
    BY <2>2 DEF Stands, b
  <2>5. Weighed(s, he \cup {code})
    BY <1>0, <1>4, <2>1, <2>2, <2>3, <2>4 DEF Weighed, Ranks
  <2> QED BY <2>1, <2>5 DEF Weighs, Ranks, s, b
<1> QED BY <1>0, <1>2, <1>3, <1>4
-----------------------------------------------------------------------------
(* The final response of a branch. *)

\* Targets only terminate, nothing becomes a client; a final response stays sent.
Narrows(r, s) ==
  /\ s.clients = r.clients /\ s.mTransactionCount = r.mTransactionCount
  /\ s.method = r.method /\ s.queues = r.queues
  /\ r.mHaveSentFinalResponse => s.mHaveSentFinalResponse
  /\ \A t \in Target :
       \/ s.where[t] = r.where[t]
       \/ r.where[t] \in {"Candidate", "Active"} /\ s.where[t] = "Terminated"

\* A branch has given its final response.
answers(an, t, code) == [an EXCEPT ![t] = code]

LEMMA BranchParts ==
  ASSUME NEW r, NEW an, NEW ri, NEW t \in Target, NEW code, code # 0, Parts(r, an, ri),
         r.where[t] = "Active", an \in [Target -> {0} \cup Code]
  PROVE  /\ Parts(terminateClientTransaction(r, t), answers(an, t, code), ri)
         /\ Moved(r, terminateClientTransaction(r, t), {t}, "Terminated", "Terminated")
<1> DEFINE s == terminateClientTransaction(r, t)
<1> DEFINE bn == answers(an, t, code)
<1>0. Tracked(r) /\ Open(r, an, ri)
  BY DEF Parts
<1>1. Tracked(s) /\ Moved(r, s, {t}, "Terminated", "Terminated")
  BY <1>0, TerminateIs
<1>3. /\ bn[t] = code /\ code # 0
      /\ \A u \in Target : u # t => bn[u] = an[u]
  BY DEF answers
<1> HIDE DEF s, bn
<1>2. /\ Same(r, s)
      /\ \A u \in Target : /\ s.where[u] = IF u = t THEN "Terminated" ELSE r.where[u]
                           /\ s.status[u] = IF u = t THEN "Terminated" ELSE r.status[u]
  BY <1>1 DEF Moved
<1>4. Open(s, bn, ri)
  <2> SUFFICES ASSUME NEW u \in Target
               PROVE  /\ s.where[u] = "Active" <=> u \in s.clients /\ bn[u] = 0
                      /\ s.where[u] = "Candidate" => bn[u] = 0 /\ u \notin ri
                      /\ u \in ri => u \in s.clients \/ bn[u] # 0
    BY <1>0 DEF Open
  <2> QED BY <1>0, <1>2, <1>3 DEF Open, Same
<1>5. Armed(s, ri)
  <2>1. \A u \in ri : s.status[u] = "Started" => r.status[u] = "Started"
    BY <1>0, <1>2 DEF Open
  <2> QED BY <1>2, <2>1 DEF Parts, Armed, Same
<1> QED BY <1>1, <1>4, <1>5 DEF Parts, s, bn

\* The rest of the invariant does not mind.
LEMMA BranchRest ==
  ASSUME NEW r, NEW s, NEW an, NEW ri, NEW he, NEW ca, NEW wt, NEW t \in Target,
         Mid(r, an, ri, he, ca, wt), Moved(r, s, {t}, "Terminated", "Terminated"),
         r.where[t] = "Active"
  PROVE  /\ Stopped(s) /\ Ended(s, ca, wt) /\ Narrows(r, s) /\ Same(r, s)
         /\ Upstream(s) /\ Weighed(s, he) /\ Forwarded(s, he)
<1>2. /\ Same(r, s)
      /\ \A u \in Target : /\ s.where[u] = IF u = t THEN "Terminated" ELSE r.where[u]
                           /\ s.status[u] = IF u = t THEN "Terminated" ELSE r.status[u]
  BY DEF Moved
<1>6. Stopped(s) /\ Ended(s, ca, wt)
  BY <1>2 DEF Mid, Stopped, Ended, Same
<1>3. /\ s.method = r.method /\ s.sent = r.sent /\ s.best = r.best
      /\ s.mHaveSentFinalResponse = r.mHaveSentFinalResponse /\ s.mBestPriority = r.mBestPriority
  BY <1>2 DEF Same
<1>4. Upstream(r) /\ Weighed(r, he) /\ Forwarded(r, he)
  BY DEF Mid
<1>5. Upstream(s)
  BY <1>3, <1>4 DEF Upstream
<1>7. Weighed(s, he) /\ Forwarded(s, he)
  BY <1>3, <1>4 DEF Weighed, Forwarded
<1>8. Narrows(r, s)
  BY <1>2 DEF Narrows, Same
<1> QED BY <1>2, <1>5, <1>6, <1>7, <1>8

LEMMA BranchAnswered ==
  ASSUME NEW r, NEW s, NEW an, NEW t \in Target, NEW code, Answered(r, an), Same(r, s),
         an \in [Target -> {0} \cup Code],
         code \notin 200..299 \/ ViaLess \/ r.mHaveSentFinalResponse
  PROVE  Answered(s, answers(an, t, code))
<1> DEFINE bn == answers(an, t, code)
<1>3. /\ bn[t] = code
      /\ \A u \in Target : u # t => bn[u] = an[u]
  BY DEF answers
<1> HIDE DEF bn
<1>4. Answered(s, bn)
  <2> SUFFICES ASSUME NoStray, r.method = "INVITE", NEW u \in Target,
                      u \in r.clients, bn[u] \in 200..299
               PROVE  r.mHaveSentFinalResponse
    BY DEF Answered, Same
  <2> QED BY <1>3 DEF Answered, NoStray
<1> QED BY <1>4 DEF bn

LEMMA RankAtLeast ==
  ASSUME NEW c \in 300..699
  PROVE  0 <= Rank(c)
<1>1. Rank(c) \in 0..49
  BY Priorities
<1> QED BY <1>1

LEMMA NarrowsTrans ==
  ASSUME NEW r, NEW s, NEW u, Narrows(r, s), Narrows(s, u)
  PROVE  Narrows(r, u)
BY DEF Narrows

\* The best response goes upstream when the last branch has failed.
LEMMA IfDoneMid ==
  ASSUME NEW r, NEW an, NEW ri, NEW he, NEW ca, NEW wt,
         Mid(r, an, ri, he, ca, wt), ~r.mHaveSentFinalResponse, he # {}
  PROVE  Mid(forwardIfDone(r), an, ri, he, ca, wt) /\ Narrows(r, forwardIfDone(r))
<1>1. CASE areAllTransactionsTerminated(r)
  <2>1. forwardIfDone(r) = forwardBestResponse(r)
    BY <1>1 DEF forwardIfDone
  <2>2. \A t \in Target : r.where[t] \notin {"Active", "Candidate"}
    BY <1>1 DEF areAllTransactionsTerminated, In
  <2> QED BY <2>1, <2>2, ForwardBestMid DEF Narrows
<1>2. CASE ~areAllTransactionsTerminated(r)
  BY <1>2 DEF forwardIfDone, Narrows
<1> QED BY <1>1, <1>2

\* The final responses heard after one of a context.
heardOf(r, he, code) == IF r.mHaveSentFinalResponse THEN he ELSE he \cup {code}

\* s is r after the final response code of target t.
Ends(r, s, an, ri, he, ca, wt, t, code) ==
  Mid(s, answers(an, t, code), ri, heardOf(r, he, code), ca, wt) /\ Narrows(r, s)

LEMMA FailureMid ==
  ASSUME NEW r, NEW an, NEW ri, NEW he, NEW ca, NEW wt, NEW t \in Target, NEW code,
         code \in 300..599, code \in Finals,
         Mid(r, an, ri, he, ca, wt), r.where[t] = "Active", an \in [Target -> {0} \cup Code]
  PROVE  Ends(r, onFailure(r, t, code), an, ri, he, ca, wt, t, code)
<1> DEFINE bn == answers(an, t, code)
<1> DEFINE hf == heardOf(r, he, code)
<1>0. hf = IF r.mHaveSentFinalResponse THEN he ELSE he \cup {code}
  BY DEF heardOf
<1> DEFINE r1 == terminateClientTransaction(r, t)
<1>1. /\ Parts(r1, bn, ri) /\ Stopped(r1) /\ Ended(r1, ca, wt) /\ Same(r, r1)
      /\ Answered(r1, bn) /\ Narrows(r, r1) /\ Upstream(r1) /\ Weighed(r1, he) /\ Forwarded(r1, he)
  <2>1. code # 0 /\ code \notin 200..299
    OBVIOUS
  <2>2. Parts(r, an, ri) /\ Answered(r, an)
    BY DEF Mid, Parts
  <2>3. Parts(r1, bn, ri) /\ Moved(r, r1, {t}, "Terminated", "Terminated")
    <3>1. t \in Target /\ r.where[t] = "Active" /\ an \in [Target -> {0} \cup Code] /\ code # 0
      BY <2>1
    <3> HIDE DEF bn
    <3>2. /\ Parts(r1, answers(an, t, code), ri)
          /\ Moved(r, r1, {t}, "Terminated", "Terminated")
      BY ONLY <3>1, <2>2, BranchParts
    <3> QED BY <3>2 DEF bn
  <2> HIDE DEF r1
  <2>4. /\ Stopped(r1) /\ Ended(r1, ca, wt) /\ Narrows(r, r1) /\ Same(r, r1)
        /\ Upstream(r1) /\ Weighed(r1, he) /\ Forwarded(r1, he)
    BY <2>3, BranchRest
  <2>5. Answered(r1, bn)
    BY <2>1, <2>2, <2>4, BranchAnswered
  <2> QED BY <2>3, <2>4, <2>5
<1>2. onFailure(r, t, code) = IF r1.mHaveSentFinalResponse THEN r1 ELSE forwardIfDone(weigh(r1, code))
  BY DEF onFailure
<1> HIDE DEF r1, bn, hf
<1>3. Upstream(r1) /\ Weighed(r1, he) /\ Forwarded(r1, he)
  BY <1>1
<1>4. ASSUME r1.mHaveSentFinalResponse
      PROVE  Mid(onFailure(r, t, code), bn, ri, hf, ca, wt) /\ Narrows(r, onFailure(r, t, code))
  <2>1. hf = he
    BY <1>0, <1>1, <1>4 DEF Same
  <2> QED BY <1>1, <1>2, <1>3, <1>4, <2>1 DEF Mid, Parts
<1>5. ASSUME ~r1.mHaveSentFinalResponse
      PROVE  Mid(onFailure(r, t, code), bn, ri, hf, ca, wt) /\ Narrows(r, onFailure(r, t, code))
  <2>0. r1 \in Context /\ hf = he \cup {code}
    BY <1>0, <1>1, <1>5 DEF Parts, Tracked, Same
  <2> DEFINE u == weigh(r1, code)
  <2>1. /\ u \in Context /\ SameBranches(r1, u) /\ u.sent = r1.sent
        /\ u.mHaveSentFinalResponse = r1.mHaveSentFinalResponse
        /\ Weighed(u, he \cup {code}) /\ u.best \in {r1.best, code, 300, 407}
    <3>1. r1 \in Context /\ code \in 300..599 /\ Weighed(r1, he) /\ ~r1.mHaveSentFinalResponse
      BY <1>3, <1>5, <2>0
    <3>2. Weighs(r1, u, he, code)
      BY ONLY <3>1, WeighIs
    <3> QED BY ONLY <3>2 DEF Weighs
  <2>11. Weighed(u, hf)
    BY <2>0, <2>1
  <2> HIDE DEF u
  <2>2. Upstream(u)
    BY <1>3, <2>1 DEF Upstream, SameBranches
  <2>3. Forwarded(u, hf)
    <3>1. r1.sent # <<>> => r1.sent[1] \in Int
      <4>1. r1.sent \in Seq(Code)
        BY <2>0 DEF Context, Sents
      <4> QED BY <4>1, Codes
    <3>2. r1.sent # <<>> => ~ (r1.sent[1] >= 300)
      BY <1>3, <1>5, <3>1 DEF Upstream
    <3> QED BY <2>1, <3>2 DEF Forwarded
  <2>4. Tracked(u) /\ Open(u, bn, ri) /\ Armed(u, ri) /\ Stopped(u) /\ Answered(u, bn) /\ Ended(u, ca, wt)
    <3>1. Tracked(u)
      BY <1>1, <2>1, TrackedBranches DEF Parts
    <3>2. Open(u, bn, ri) /\ Armed(u, ri)
      BY <1>1, <2>1 DEF Parts, Open, Armed, SameBranches
    <3>3. Stopped(u) /\ Answered(u, bn) /\ Ended(u, ca, wt)
      BY <1>1, <2>1 DEF Stopped, Answered, Ended, SameBranches
    <3> QED BY <3>1, <3>2, <3>3
  <2>5. Mid(u, bn, ri, hf, ca, wt)
    BY <2>11, <2>2, <2>3, <2>4 DEF Mid
  <2>6. Narrows(r1, u)
    BY <2>1 DEF Narrows, SameBranches
  <2>7. Mid(forwardIfDone(u), bn, ri, hf, ca, wt) /\ Narrows(u, forwardIfDone(u))
    BY <1>5, <2>0, <2>1, <2>5, IfDoneMid
  <2>8. onFailure(r, t, code) = forwardIfDone(u)
    BY <1>2, <1>5 DEF u
  <2> QED BY <1>1, <2>6, <2>7, <2>8, NarrowsTrans
<1> QED BY <1>4, <1>5 DEF Ends, bn, hf

LEMMA GlobalFailureMid ==
  ASSUME NEW r, NEW an, NEW ri, NEW he, NEW ca, NEW wt, NEW t \in Target, NEW code,
         code \in 600..699, code \in Finals,
         Mid(r, an, ri, he, ca, wt), r.where[t] = "Active", an \in [Target -> {0} \cup Code]
  PROVE  Ends(r, onGlobalFailure(r, t, code), an, ri, he, ca, wt, t, code)
<1> DEFINE bn == answers(an, t, code)
<1> DEFINE hf == heardOf(r, he, code)
<1>0. hf = IF r.mHaveSentFinalResponse THEN he ELSE he \cup {code}
  BY DEF heardOf
<1> DEFINE r1 == terminateClientTransaction(r, t)
<1>1. /\ Parts(r1, bn, ri) /\ Stopped(r1) /\ Ended(r1, ca, wt) /\ Same(r, r1)
      /\ Answered(r1, bn) /\ Narrows(r, r1) /\ Upstream(r1) /\ Weighed(r1, he) /\ Forwarded(r1, he)
  <2>1. code # 0 /\ code \notin 200..299
    OBVIOUS
  <2>2. Parts(r, an, ri) /\ Answered(r, an)
    BY DEF Mid, Parts
  <2>3. Parts(r1, bn, ri) /\ Moved(r, r1, {t}, "Terminated", "Terminated")
    <3>1. t \in Target /\ r.where[t] = "Active" /\ an \in [Target -> {0} \cup Code] /\ code # 0
      BY <2>1
    <3> HIDE DEF bn
    <3>2. /\ Parts(r1, answers(an, t, code), ri)
          /\ Moved(r, r1, {t}, "Terminated", "Terminated")
      BY ONLY <3>1, <2>2, BranchParts
    <3> QED BY <3>2 DEF bn
  <2> HIDE DEF r1
  <2>4. /\ Stopped(r1) /\ Ended(r1, ca, wt) /\ Narrows(r, r1) /\ Same(r, r1)
        /\ Upstream(r1) /\ Weighed(r1, he) /\ Forwarded(r1, he)
    BY <2>3, BranchRest
  <2>5. Answered(r1, bn)
    BY <2>1, <2>2, <2>4, BranchAnswered
  <2> QED BY <2>3, <2>4, <2>5
<1> DEFINE b == ranked(r1, code, 0)
<1> DEFINE r2 == IF r1.best \div 100 = 6 THEN r1
                 ELSE IF r.method = "INVITE" THEN cancelAllClientTransactions(b) ELSE b
<1>2. onGlobalFailure(r, t, code) = IF r1.mHaveSentFinalResponse THEN r1 ELSE forwardIfDone(r2)
  BY DEF onGlobalFailure, ranked
<1> HIDE DEF r1, bn, hf
<1>3. Upstream(r1) /\ Weighed(r1, he) /\ Forwarded(r1, he)
  BY <1>1
<1>4. ASSUME r1.mHaveSentFinalResponse
      PROVE  Mid(onGlobalFailure(r, t, code), bn, ri, hf, ca, wt) /\ Narrows(r, onGlobalFailure(r, t, code))
  <2>1. hf = he
    BY <1>0, <1>1, <1>4 DEF Same
  <2> QED BY <1>1, <1>2, <1>3, <1>4, <2>1 DEF Mid, Parts
<1>5. ASSUME ~r1.mHaveSentFinalResponse
      PROVE  Mid(onGlobalFailure(r, t, code), bn, ri, hf, ca, wt) /\ Narrows(r, onGlobalFailure(r, t, code))
  <2>0. r1 \in Context /\ hf = he \cup {code} /\ r1.best \in Code
    BY <1>0, <1>1, <1>5 DEF Parts, Tracked, Same, Context
  <2>00. Rank(code) = 0 /\ \A d \in he : d \in 300..699
    BY <1>3, <1>5, Priorities DEF Weighed
  <2>01. BestOf(code, hf)
    <3>1. ASSUME NEW d \in he
          PROVE  0 <= Rank(d)
      <4>1. d \in 300..699
        BY <2>00
      <4> QED BY <4>1, RankAtLeast
    <3> QED BY <2>0, <2>00, <3>1 DEF BestOf
  <2>02. r1.sent # <<>> => ~ (r1.sent[1] >= 300)
    <3>1. r1.sent # <<>> => r1.sent[1] \in Int
      <4>1. r1.sent \in Seq(Code)
        BY <2>0 DEF Context, Sents
      <4> QED BY <4>1, Codes
    <3> QED BY <1>3, <1>5, <3>1 DEF Upstream
  <2> DEFINE c == IF r1.best \div 100 = 6 THEN r1 ELSE b
  <2>1. /\ Tracked(c) /\ SameBranches(r1, c) /\ c.sent = r1.sent
        /\ c.mHaveSentFinalResponse = r1.mHaveSentFinalResponse
        /\ Weighed(c, hf) /\ c.best \in {r1.best, code}
    <3>1. CASE r1.best \div 100 = 6
      <4>1. r1.best \in 600..699
        <5>1. r1.best \in Int
          BY <2>0, Codes
        <5> QED BY <3>1, <5>1
      <4>2. he # {}
        BY <1>3, <1>5, <4>1 DEF Weighed, None
      <4>3. PICK d \in he : BestOf(d, he) /\ r1.mBestPriority = Rank(d) /\ Stands(r1.best, d)
        BY <1>3, <1>5, <4>2 DEF Weighed
      <4>4. d = r1.best
        BY <4>1, <4>3 DEF Stands
      <4>5. Rank(d) = 0
        BY <4>1, <4>4, Priorities
      <4>6. BestOf(d, hf)
        BY <2>0, <2>00, <4>3, <4>5 DEF BestOf
      <4>7. Weighed(r1, hf)
        BY <1>3, <1>5, <2>0, <4>3, <4>6 DEF Weighed
      <4> QED BY <1>1, <3>1, <4>7 DEF Parts, SameBranches
    <3>2. CASE ~ (r1.best \div 100 = 6)
      <4>1. code \in Code /\ 0 \in 0..50
        BY DEF Code
      <4>2. Ranks(r1, b, code, 0)
        BY <2>0, <4>1, RankedIs
      <4> HIDE DEF b
      <4>3. Weighed(b, hf)
        BY <1>3, <1>5, <2>0, <2>00, <2>01, <4>2 DEF Weighed, Ranks, Stands
      <4>4. Tracked(b)
        BY <1>1, <4>2, TrackedBranches DEF Ranks, Parts
      <4> QED BY <3>2, <4>2, <4>3, <4>4 DEF Ranks
    <3> QED BY <3>1, <3>2
  <2>11. r2 = IF r.method = "INVITE" /\ ~ (r1.best \div 100 = 6)
              THEN cancelAllClientTransactions(c) ELSE c
    OBVIOUS
  <2> HIDE DEF b, c
  <2>2. Upstream(c)
    <3>1. c.best = 500 => r1.best = 500
      BY <2>1
    <3> QED BY <1>3, <2>1, <3>1 DEF Upstream, SameBranches
  <2>3. Forwarded(c, hf)
    BY <2>1, <2>02 DEF Forwarded
  <2>4. Open(c, bn, ri) /\ Armed(c, ri) /\ Stopped(c) /\ Answered(c, bn) /\ Ended(c, ca, wt)
    <3>2. Open(c, bn, ri) /\ Armed(c, ri)
      BY <1>1, <2>1 DEF Parts, Open, Armed, SameBranches
    <3>3. Stopped(c) /\ Answered(c, bn) /\ Ended(c, ca, wt)
      BY <1>1, <2>1 DEF Stopped, Answered, Ended, SameBranches
    <3> QED BY <3>2, <3>3
  <2>5. Mid(c, bn, ri, hf, ca, wt)
    BY <2>1, <2>2, <2>3, <2>4 DEF Mid
  <2>6. Narrows(r1, c)
    BY <2>1 DEF Narrows, SameBranches
  <2> HIDE DEF r2
  <2>7. Mid(r2, bn, ri, hf, ca, wt) /\ Narrows(c, r2) /\ ~r2.mHaveSentFinalResponse
    <3>1. CASE r.method = "INVITE" /\ ~ (r1.best \div 100 = 6)
      <4> DEFINE d == cancelAllClientTransactions(c)
      <4>1. Closed(c, d, c.method = "INVITE")
        BY <2>1, CancelAllCloses
      <4> HIDE DEF d
      <4>2. Mid(d, bn, ri, hf, ca, wt)
        BY <2>5, <4>1, ClosedMid
      <4>3. Narrows(c, d) /\ ~d.mHaveSentFinalResponse
        BY <1>5, <2>1, <4>1 DEF Closed, Same, Narrows
      <4> QED BY <2>11, <3>1, <4>2, <4>3 DEF d
    <3>2. CASE ~ (r.method = "INVITE" /\ ~ (r1.best \div 100 = 6))
      BY <1>5, <2>1, <2>5, <2>11, <3>2 DEF Narrows
    <3> QED BY <3>1, <3>2
  <2>8. Mid(forwardIfDone(r2), bn, ri, hf, ca, wt) /\ Narrows(r2, forwardIfDone(r2))
    BY <2>0, <2>7, IfDoneMid
  <2>9. onGlobalFailure(r, t, code) = forwardIfDone(r2)
    BY <1>2, <1>5
  <2>10. Narrows(r, r1)
    BY <1>1
  <2> QED BY <2>6, <2>7, <2>8, <2>9, <2>10, NarrowsTrans
<1> QED BY <1>4, <1>5 DEF Ends, bn, hf

LEMMA SuccessMid ==
  ASSUME NEW r, NEW an, NEW ri, NEW he, NEW ca, NEW wt, NEW t \in Target, NEW code,
         code \in 200..299, code \in Finals,
         Mid(r, an, ri, he, ca, wt), r.where[t] = "Active", an \in [Target -> {0} \cup Code]
  PROVE  Ends(r, onSuccess(r, t, code), an, ri, he, ca, wt, t, code)
<1> DEFINE bn == answers(an, t, code)
<1> DEFINE hf == heardOf(r, he, code)
<1>0. hf = IF r.mHaveSentFinalResponse THEN he ELSE he \cup {code}
  BY DEF heardOf
<1> DEFINE r1 == terminateClientTransaction(r, t)
<1>1. /\ Parts(r1, bn, ri) /\ Stopped(r1) /\ Ended(r1, ca, wt) /\ Same(r, r1)
      /\ r.mHaveSentFinalResponse => Answered(r1, bn)
      /\ Narrows(r, r1) /\ Upstream(r1) /\ Weighed(r1, he) /\ Forwarded(r1, he)
  <2>1. code # 0 
    OBVIOUS
  <2>2. Parts(r, an, ri) /\ Answered(r, an)
    BY DEF Mid, Parts
  <2>3. Parts(r1, bn, ri) /\ Moved(r, r1, {t}, "Terminated", "Terminated")
    <3>1. t \in Target /\ r.where[t] = "Active" /\ an \in [Target -> {0} \cup Code] /\ code # 0
      BY <2>1
    <3> HIDE DEF bn
    <3>2. /\ Parts(r1, answers(an, t, code), ri)
          /\ Moved(r, r1, {t}, "Terminated", "Terminated")
      BY ONLY <3>1, <2>2, BranchParts
    <3> QED BY <3>2 DEF bn
  <2> HIDE DEF r1
  <2>4. /\ Stopped(r1) /\ Ended(r1, ca, wt) /\ Narrows(r, r1) /\ Same(r, r1)
        /\ Upstream(r1) /\ Weighed(r1, he) /\ Forwarded(r1, he)
    BY <2>3, BranchRest
  <2>5. r.mHaveSentFinalResponse => Answered(r1, bn)
    BY <2>1, <2>2, <2>4, BranchAnswered
  <2> QED BY <2>3, <2>4, <2>5
<1> DEFINE r2 == IF r.method = "INVITE" THEN cancelAllClientTransactions(r1)
                 ELSE clearCandidateTransactions(r1)
<1> DEFINE r3 == ranked(r2, code, r2.mBestPriority)
<1> DEFINE s == sendResponse(r3, code)
<1> HIDE DEF r1, bn, hf
<1>2. Closed(r1, r2, r.method = "INVITE")
  <2>1. Tracked(r1) /\ r1.method = r.method
    BY <1>1 DEF Parts, Same
  <2>2. CASE r.method = "INVITE"
    BY <2>1, <2>2, CancelAllCloses
  <2>3. CASE r.method # "INVITE"
    <3>1. Closed(r1, clearCandidateTransactions(r1), FALSE)
      BY <2>1, ClearCloses
    <3> QED BY <2>3, <3>1 DEF Closed
  <2> QED BY <2>2, <2>3
<1>3. onSuccess(r, t, code) = IF r.method = "INVITE" \/ ~r.mHaveSentFinalResponse THEN s ELSE r1
  <2>1. r2 \in Context
    BY <1>2 DEF Closed, Tracked
  <2>2. onSuccess(r, t, code) = IF r.method = "INVITE" \/ ~r.mHaveSentFinalResponse
                                THEN sendResponse([r2 EXCEPT !.best = code], code) ELSE r1
    BY DEF onSuccess, r1
  <2> HIDE DEF r2
  <2>3. [r2 EXCEPT !.best = code] = ranked(r2, code, r2.mBestPriority)
    BY <2>1 DEF ranked, Context
  <2> QED BY <2>2, <2>3
<1> HIDE DEF r2
<1>4. ASSUME ~(r.method = "INVITE" \/ ~r.mHaveSentFinalResponse)
      PROVE  Mid(onSuccess(r, t, code), bn, ri, hf, ca, wt) /\ Narrows(r, onSuccess(r, t, code))
  <2>1. hf = he /\ onSuccess(r, t, code) = r1
    BY <1>0, <1>3, <1>4
  <2>2. Upstream(r1) /\ Weighed(r1, he) /\ Forwarded(r1, he) /\ r1.mHaveSentFinalResponse
    BY <1>1, <1>4 DEF Same, Mid, Upstream, Weighed, Forwarded
  <2> QED BY <1>1, <1>4, <2>1, <2>2 DEF Mid, Parts
<1>5. ASSUME r.method = "INVITE" \/ ~r.mHaveSentFinalResponse
      PROVE  Mid(onSuccess(r, t, code), bn, ri, hf, ca, wt) /\ Narrows(r, onSuccess(r, t, code))
  <2>0. /\ Parts(r2, bn, ri) /\ Tracked(r2) /\ r2 \in Context /\ Narrows(r1, r2) /\ Same(r, r2)
        /\ \A u \in Target : r2.where[u] # "Candidate"
        /\ r.method = "INVITE" => \A u \in Target : r2.status[u] # "Started"
    <3>1. Parts(r2, bn, ri)
      BY <1>1, <1>2, ClosedParts
    <3>2. Narrows(r1, r2) /\ Same(r, r2)
      BY <1>1, <1>2 DEF Closed, Same, Narrows
    <3>3. \A u \in Target : r2.where[u] # "Candidate"
      BY <1>2 DEF Closed
    <3> QED BY <1>2, <3>1, <3>2, <3>3 DEF Closed, Tracked
  <2>1. code \in Code /\ r2.mBestPriority \in 0..50
    BY <2>0 DEF Code, Context
  <2>2. Ranks(r2, r3, code, r2.mBestPriority)
    BY <2>0, <2>1, RankedIs
  <2> HIDE DEF r3
  <2>3. Parts(r3, bn, ri)
    <3>1. Tracked(r3)
      BY <2>0, <2>2, TrackedBranches DEF Ranks
    <3>2. Open(r3, bn, ri) /\ Armed(r3, ri)
      BY <2>0, <2>2 DEF Parts, Open, Armed, Ranks, SameBranches
    <3> QED BY <3>1, <3>2 DEF Parts
  <2>4. /\ r3.method = r.method /\ r3.mHaveSentFinalResponse = r.mHaveSentFinalResponse
        /\ r3.sent = r.sent /\ r3.best = code
        /\ r3.clients = r.clients /\ r3.mTransactionCount = r.mTransactionCount
        /\ \A u \in Target : r3.where[u] # "Candidate"
        /\ r.method = "INVITE" => \A u \in Target : r3.status[u] # "Started"
    BY <2>0, <2>2 DEF Ranks, SameBranches, Same
  <2>5. Upstream(r3)
    BY <2>4 DEF Mid, Upstream
  <2>6. r3.mHaveSentFinalResponse => Forwarded(r3, hf)
    <3>1. Forwarded(r, he)
      BY DEF Mid
    <3>2. r.mHaveSentFinalResponse => hf = he
      BY <1>0
    <3> QED BY <2>4, <3>1, <3>2 DEF Forwarded
  <2>7. r3.mHaveSentFinalResponse /\ AllHeard /\ ~AsyncAuth => code \in 200..299 /\ r3.method = "INVITE"
    BY <1>5, <2>4
  <2>8. code \in 200..699 /\ code < 300 /\ code # 500
    OBVIOUS
  <2>11. NoStray => \A u \in Target : /\ r3.where[u] # "Candidate"
                                      /\ r3.method = "INVITE" => r3.status[u] # "Started"
    BY <2>4
  <2>12. code < 300 \/ hf = {}
    BY <2>8
  <2>13. 500 \notin Finals \cup AuthCodes => code # 500
    BY <2>8
  <2>14. code \in 200..699
    BY <2>8
  <2>15. MaySend(r3, bn, ri, hf, code)
    BY <2>3, <2>5, <2>6, <2>7, <2>11, <2>12, <2>13, <2>14 DEF MaySend
  <2>9. Mid(s, bn, ri, hf, ca, wt) /\ Sends(r3, s, code)
    BY <2>15, SendsMid
  <2> HIDE DEF s
  <2>16. /\ s.clients = r3.clients /\ s.mTransactionCount = r3.mTransactionCount
         /\ s.method = r3.method /\ s.queues = r3.queues /\ s.where = r3.where
         /\ r3.mHaveSentFinalResponse => s.mHaveSentFinalResponse
    BY <2>9 DEF Sends, SameBranches
  <2>17. Narrows(r3, s)
    BY <2>16 DEF Narrows
  <2>18. Narrows(r2, r3)
    BY <2>2 DEF Ranks, SameBranches, Narrows
  <2>19. Narrows(r, r1) /\ Narrows(r1, r2)
    BY <1>1, <2>0
  <2>10. Narrows(r, s)
    BY <2>17, <2>18, <2>19, NarrowsTrans
  <2> QED BY <1>3, <1>5, <2>9, <2>10
<1> QED BY <1>4, <1>5 DEF Ends, bn, hf

-----------------------------------------------------------------------------
(* What the assumption says of the member in use. *)
LEMMA ConfigIs ==
  ASSUME config \in Config
  PROVE  /\ Finals \subseteq 200..699 /\ Spare \subseteq Target /\ QTarget \subseteq Target
         /\ Batches \subseteq Seq(Seq(Target))
         /\ \A b \in Batches : \A i, j \in DOMAIN b : \A k \in DOMAIN b[i], l \in DOMAIN b[j] :
              b[i][k] = b[j][l] => i = j /\ k = l
<1>1. \A c \in Config : c.Finals \subseteq 200..699
  BY ConfigAssumption, Zenon
<1>2. \A c \in Config : c.Spare \subseteq Target /\ c.QTarget \subseteq Target
  BY ConfigAssumption
<1>3. \A c \in Config : c.Batches \subseteq Seq(Seq(Target))
  BY ConfigAssumption
<1>4. \A c \in Config :
        \A b \in c.Batches : \A i, j \in DOMAIN b : \A k \in DOMAIN b[i], l \in DOMAIN b[j] :
              b[i][k] = b[j][l] => i = j /\ k = l
  BY ConfigAssumption
<1>5. Finals \subseteq 200..699
  BY <1>1 DEF Finals
<1>6. Spare \subseteq Target /\ QTarget \subseteq Target
  BY <1>2 DEF Spare, QTarget
<1>7. Batches \subseteq Seq(Seq(Target))
  BY <1>3 DEF Batches
<1>8. \A b \in Batches : \A i, j \in DOMAIN b : \A k \in DOMAIN b[i], l \in DOMAIN b[j] :
        b[i][k] = b[j][l] => i = j /\ k = l
  BY <1>4, Zenon DEF Batches
<1> QED BY <1>5, <1>6, <1>7, <1>8
-----------------------------------------------------------------------------
(* Responses, and what follows each. *)
Whole(r, al, sv, wt, ca, an, ri, he) ==
  /\ Typed(r, al, sv, wt, ca, an, ri, he)
  /\ Mid(r, an, ri, he, ca, wt)
  /\ Counted(r, al, sv)
  /\ Quiet(r, al, wt, he)

IInv == config \in Config /\ Whole(rc, alive, server, waiting, cancelled, answer, ringing, heard)

\* What an action makes of the context.
Kept == Whole(rc', alive', server', waiting', cancelled', answer', ringing', heard')

\* No client transaction is forgotten or lost.
Grows(r, s) ==
  /\ s.mTransactionCount - Cardinality(s.clients) = r.mTransactionCount - Cardinality(r.clients)
  /\ s.method = r.method
  /\ r.mHaveSentFinalResponse => s.mHaveSentFinalResponse
  /\ r.clients \subseteq s.clients

\* Only candidates of a context without a final response become clients.
Follows(r, s) ==
  /\ Grows(r, s)
  /\ \A t \in Target : s.where[t] = "Candidate" => r.where[t] = "Candidate"
  /\ \A t \in s.clients \ r.clients : r.where[t] = "Candidate" /\ ~r.mHaveSentFinalResponse

\* No client of s is new if the request has been cancelled or answered.
NoLate(r, s, ca) ==
  (ca /\ ~mRecursiveRedirect) \/ r.mHaveSentFinalResponse => s.clients \subseteq r.clients

LEMMA FollowsNoLate ==
  ASSUME NEW r, NEW s, NEW an, NEW ri, NEW he, NEW ca, NEW wt,
         Mid(r, an, ri, he, ca, wt), Follows(r, s), s.clients \subseteq Target
  PROVE  NoLate(r, s, ca)
BY DEF Mid, Ended, Follows, NoLate

LEMMA FollowsTrans ==
  ASSUME NEW r, NEW s, NEW u, Follows(r, s), Follows(s, u), s.clients \subseteq Target,
         u.clients \subseteq Target
  PROVE  Follows(r, u)
<1>1. \A t \in u.clients \ r.clients : r.where[t] = "Candidate" /\ ~r.mHaveSentFinalResponse
  BY DEF Follows, Grows
<1>2. \A t \in Target : u.where[t] = "Candidate" => r.where[t] = "Candidate"
  BY DEF Follows
<1> QED BY <1>1, <1>2 DEF Follows, Grows

LEMMA NarrowsFollows ==
  ASSUME NEW r, NEW s, Narrows(r, s)
  PROVE  Follows(r, s)
BY DEF Narrows, Follows, Grows

LEMMA ProceedsFollows ==
  ASSUME NEW r, NEW s, Proceeds(r, s), Tracked(r)
  PROVE  Follows(r, s)
<1>1. \A t \in Target : s.where[t] = "Candidate" => r.where[t] = "Candidate"
  BY DEF Proceeds
<1>2. \A t \in s.clients \ r.clients : r.where[t] = "Candidate" /\ ~r.mHaveSentFinalResponse
  <2> SUFFICES ASSUME NEW t \in s.clients \ r.clients
               PROVE  r.where[t] = "Candidate" /\ ~r.mHaveSentFinalResponse
    OBVIOUS
  <2>1. t \in Started(r, s)
    BY DEF Proceeds
  <2> QED BY <2>1 DEF Started, Proceeds
<1> QED BY <1>1, <1>2 DEF Proceeds, Follows, Grows

LEMMA ClientsAreTargets ==
  ASSUME NEW r, Tracked(r)
  PROVE  r.clients \subseteq Target
BY DEF Tracked, Context

\* The target chain and the check for quiescence after a response.
LEMMA ChainKeeps ==
  ASSUME NEW r, NEW an, NEW ri, NEW he, NEW ca, NEW wt,
         Mid(r, an, ri, he, ca, wt), Due(r, he), config \in Config
  PROVE  /\ Mid(afterResponse(r), an, ri, he, ca, wt)
         /\ Done(afterResponse(r), he) /\ Follows(r, afterResponse(r))
         /\ Follows(targetChain(r, NoFork, FALSE), afterResponse(r))
<1> DEFINE s == targetChain(r, NoFork, FALSE)
<1> DEFINE u == onQuiescent(s)
<1>0. Tracked(r)
  BY DEF Mid
<1>1. Starts(r, s) /\ Settled(s)
  BY <1>0, ChainStarts
<1>2. afterResponse(r) = u
  BY DEF afterResponse
<1> HIDE DEF s
<1>3. /\ Mid(u, an, ri, he, ca, wt) /\ Done(u, he) /\ u.clients = s.clients
      /\ u.where = s.where /\ u.method = s.method /\ u.mTransactionCount = s.mTransactionCount
  BY <1>1, Settles
<1>4. s.mHaveSentFinalResponse => u = s
  BY DEF onQuiescent
<1> HIDE DEF u
<1>5. Follows(r, s)
  BY <1>0, <1>1, ProceedsFollows DEF Starts
<1>6. Follows(s, u)
  BY <1>3, <1>4 DEF Follows, Grows
<1>7. s.clients \subseteq Target /\ u.clients \subseteq Target
  BY <1>1, <1>3, ClientsAreTargets DEF Mid, Starts, Proceeds
<1>8. Follows(r, u)
  BY <1>5, <1>6, <1>7, FollowsTrans
<1> QED BY <1>2, <1>3, <1>6, <1>8 DEF s

\* The final response of a branch, forwarded or not.
LEMMA FinalMid ==
  ASSUME NEW r, NEW an, NEW ri, NEW he, NEW ca, NEW wt, NEW t \in Target, NEW code, NEW via,
         NEW hf, code \in Finals, code \in 200..699,
         Mid(r, an, ri, he, ca, wt), r.where[t] = "Active", an \in [Target -> {0} \cup Code],
         ~via => ViaLess,
         hf = IF r.mHaveSentFinalResponse \/ ~via THEN he ELSE he \cup {code}
  PROVE  /\ Mid(processResponse(r, t, code, via), answers(an, t, code), ri, hf, ca, wt)
         /\ Narrows(r, processResponse(r, t, code, via))
         /\ Due(processResponse(r, t, code, via), hf)
<1> DEFINE s == processResponse(r, t, code, via)
<1> DEFINE bn == answers(an, t, code)
<1>1. CASE ~via
  <2>0. code > 199 /\ code # 0
    OBVIOUS
  <2>1. s = terminateClientTransaction(r, t)
    BY <1>1, <2>0 DEF processResponse
  <2>2. Parts(r, an, ri) /\ Answered(r, an)
    BY DEF Mid, Parts
  <2>3. Parts(s, bn, ri) /\ Moved(r, s, {t}, "Terminated", "Terminated")
    BY <2>0, <2>1, <2>2, BranchParts
  <2> HIDE DEF s
  <2>4. /\ Stopped(s) /\ Ended(s, ca, wt) /\ Narrows(r, s) /\ Same(r, s)
        /\ Upstream(s) /\ Weighed(s, he) /\ Forwarded(s, he)
    BY <2>3, BranchRest
  <2>5. Answered(s, bn)
    BY <1>1, <2>2, <2>4, BranchAnswered
  <2>6. hf = he /\ ~AllHeard
    BY <1>1 DEF AllHeard
  <2>7. Mid(s, bn, ri, hf, ca, wt)
    BY <2>3, <2>4, <2>5, <2>6 DEF Mid, Parts
  <2>8. Due(s, hf)
    BY <2>6 DEF Due
  <2> QED BY <2>4, <2>7, <2>8 DEF s
<1>2. CASE via
  <2>1. Ends(r, s, an, ri, he, ca, wt, t, code)
    <3>1. CASE code \in 200..299
      <4>0. code \notin 300..599 /\ code \notin 600..699 /\ ~(code < 200)
        BY <3>1
      <4>1. s = onSuccess(r, t, code)
        BY <1>2, <3>1, <4>0 DEF processResponse
      <4> QED BY <3>1, <4>1, SuccessMid
    <3>2. CASE code \in 300..599
      <4>1. s = onFailure(r, t, code)
        BY <1>2, <3>2 DEF processResponse
      <4> QED BY <3>2, <4>1, FailureMid
    <3>3. CASE code \in 600..699
      <4>1. s = onGlobalFailure(r, t, code)
        BY <1>2, <3>3 DEF processResponse
      <4> QED BY <3>3, <4>1, GlobalFailureMid
    <3> QED BY <3>1, <3>2, <3>3
  <2>2. hf = heardOf(r, he, code)
    BY <1>2 DEF heardOf
  <2> HIDE DEF s
  <2>3. Mid(s, bn, ri, hf, ca, wt) /\ Narrows(r, s)
    BY <2>1, <2>2 DEF Ends
  <2>4. Due(s, hf)
    <3>1. ~s.mHaveSentFinalResponse => code \in hf
      BY <1>2, <2>3 DEF Narrows
    <3> QED BY <3>1 DEF Due
  <2> QED BY <2>3, <2>4 DEF s
<1> QED BY <1>1, <1>2
-----------------------------------------------------------------------------
(* The actions on a live context. *)
LEMMA LiveOwed ==
  ASSUME NEW r, NEW al, NEW sv, NEW wt, NEW ca, NEW an, NEW ri, NEW he, NEW t \in Target,
         Whole(r, al, sv, wt, ca, an, ri, he), t \in r.clients
  PROVE  al = "live" /\ ~wt /\ (an[t] = 0 => r.where[t] = "Active")
<1>1. al \in {"none", "live", "deleted"} /\ (al = "none" \/ wt => Untouched(r, an, ri, he))
  BY DEF Whole, Typed
<1>2. ~(al = "none" \/ wt)
  BY <1>1 DEF Untouched
<1>3. al # "deleted"
  BY DEF Whole, Counted
<1>4. an[t] = 0 => r.where[t] = "Active"
  BY DEF Whole, Mid, Open
<1> QED BY <1>1, <1>2, <1>3, <1>4

\* A context that grows keeps its count.
LEMMA GrowsWhole ==
  ASSUME NEW r, NEW sv \in BOOLEAN, Counted(r, "live", sv), ~sv => r.mHaveSentFinalResponse,
         NEW s, NEW bn, NEW ro, NEW hf, NEW cb, NEW wb, Grows(r, s), Mid(s, bn, ro, hf, cb, wb),
         wb \/ Done(s, hf), bn \in [Target -> {0} \cup Code], ro \subseteq Target, hf \subseteq Code,
         cb \in BOOLEAN, wb \in BOOLEAN, wb => AsyncAuth /\ Untouched(s, bn, ro, hf)
  PROVE  Whole(s, "live", sv, wb, cb, bn, ro, hf)
<1>1. Typed(s, "live", sv, wb, cb, bn, ro, hf)
  BY DEF Typed, Grows
<1>2. Counted(s, "live", sv)
  <2>1. r.mTransactionCount = Cardinality(r.clients) + (IF sv THEN 1 ELSE 0)
        /\ r.mTransactionCount # 0
    BY DEF Counted
  <2>2. Cardinality(r.clients) \in Nat /\ Cardinality(s.clients) \in Nat
        /\ Cardinality(r.clients) <= Cardinality(s.clients)
    <3>1. s.clients \in SUBSET Target /\ r.clients \subseteq s.clients
      BY ClientsAreTargets DEF Mid, Grows
    <3>2. IsFiniteSet(s.clients) /\ r.clients \subseteq s.clients
      BY <3>1, ConfigAssumption, FS_Subset
    <3> QED BY <3>2, FS_Subset, FS_CardinalityType
  <2>3. s.mTransactionCount \in Int
    BY DEF Mid, Tracked, Context
  <2>4. s.mTransactionCount - Cardinality(s.clients) = r.mTransactionCount - Cardinality(r.clients)
    BY DEF Grows
  <2>5. s.mTransactionCount = Cardinality(s.clients) + (IF sv THEN 1 ELSE 0)
    BY <2>1, <2>2, <2>3, <2>4
  <2>6. s.mTransactionCount # 0
    BY <2>1, <2>2, <2>5
  <2> QED BY <2>5, <2>6 DEF Counted
<1>3. Quiet(s, "live", wb, hf)
  BY DEF Quiet, Done
<1> QED BY <1>1, <1>2, <1>3 DEF Whole

\* The same for a handler that ends with the target chain and keeps the rest.
LEMMA FollowsKept ==
  ASSUME NEW r, NEW s, NEW an, NEW ri, NEW he, NEW ca, NEW sv, NEW wt,
         NEW bn, NEW ro, NEW hf, NEW cb,
         Whole(r, "live", sv, wt, ca, an, ri, he), ~wt, Follows(r, s),
         Mid(s, bn, ro, hf, cb, wt), Done(s, hf),
         bn \in [Target -> {0} \cup Code], ro \subseteq Target, hf \subseteq Code, cb \in BOOLEAN
  PROVE  Whole(s, "live", sv, wt, cb, bn, ro, hf) /\ NoLate(r, s, ca)
<1>1. Counted(r, "live", sv) /\ sv \in BOOLEAN /\ wt \in BOOLEAN /\ (~sv => r.mHaveSentFinalResponse)
  BY DEF Whole, Typed
<1>2. Grows(r, s) /\ Mid(r, an, ri, he, ca, wt)
  BY DEF Follows, Whole
<1>3. Whole(s, "live", sv, wt, cb, bn, ro, hf)
  BY <1>1, <1>2, GrowsWhole
<1>4. NoLate(r, s, ca)
  BY <1>2, FollowsNoLate, ClientsAreTargets DEF Mid
<1> QED BY <1>3, <1>4

LEMMA FinalKeeps ==
  ASSUME IInv, NEW t \in Target, NEW code \in Finals, NEW via \in {TRUE, ~ViaLess},
         Final(t, code, via)
  PROVE  Kept /\ NoLate(rc, rc', cancelled)
<1> DEFINE s == processResponse(rc, t, code, via)
<1> DEFINE hf == IF rc.mHaveSentFinalResponse \/ ~via THEN heard ELSE heard \cup {code}
<1>1. /\ Whole(rc, alive, server, waiting, cancelled, answer, ringing, heard)
      /\ config \in Config
  BY DEF IInv
<1>2. /\ t \in rc.clients /\ answer[t] = 0 /\ answer' = answers(answer, t, code)
      /\ heard' = hf /\ rc' = afterResponse(s)
      /\ alive' = alive /\ server' = server /\ waiting' = waiting /\ cancelled' = cancelled
      /\ ringing' = ringing
  BY DEF Final, Owed, answers
<1>3. code \in 200..699 /\ code \in Code /\ (~via => ViaLess)
  <2>1. Finals \subseteq 200..699
    BY <1>1, ConfigIs
  <2>2. code \in 200..699
    BY <2>1
  <2>3. code \in Code
    BY <2>2 DEF Code
  <2>4. ~via => ViaLess
    BY <1>1
  <2> QED BY <2>2, <2>3, <2>4
<1> HIDE DEF s
<1>4. /\ Mid(rc, answer, ringing, heard, cancelled, waiting)
      /\ answer \in [Target -> {0} \cup Code] /\ ringing \subseteq Target /\ heard \subseteq Code
      /\ cancelled \in BOOLEAN
  BY <1>1 DEF Whole, Typed
<1>5. alive = "live" /\ ~waiting /\ rc.where[t] = "Active"
  BY <1>1, <1>2, LiveOwed
<1>6. /\ Mid(s, answer', ringing, hf, cancelled, waiting) /\ Narrows(rc, s) /\ Due(s, hf)
  <2>1. code \in Finals /\ hf = IF rc.mHaveSentFinalResponse \/ ~via THEN heard ELSE heard \cup {code}
    OBVIOUS
  <2> HIDE DEF hf
  <2>2. /\ Mid(processResponse(rc, t, code, via), answers(answer, t, code), ringing, hf,
               cancelled, waiting)
        /\ Narrows(rc, processResponse(rc, t, code, via))
        /\ Due(processResponse(rc, t, code, via), hf)
    BY <1>3, <1>4, <1>5, <2>1, FinalMid
  <2> QED BY <1>2, <2>2 DEF s
<1>7. hf \subseteq Code
  BY <1>3, <1>4
<1>8. answer' \in [Target -> {0} \cup Code]
  BY <1>2, <1>3, <1>4 DEF answers
<1> HIDE DEF hf
<1>9. /\ Mid(rc', answer', ringing, hf, cancelled, waiting)
      /\ Done(rc', hf) /\ Follows(s, rc')
  BY <1>1, <1>2, <1>6, ChainKeeps
<1>10. Follows(rc, rc')
  <2>1. Follows(rc, s)
    BY <1>6, NarrowsFollows
  <2>2. s.clients \subseteq Target /\ rc'.clients \subseteq Target
    BY <1>6, <1>9, ClientsAreTargets DEF Mid
  <2> QED BY <1>9, <2>1, <2>2, FollowsTrans
<1>11. Whole(rc, "live", server, waiting, cancelled, answer, ringing, heard)
  BY <1>1, <1>5
<1>12. /\ Whole(rc', "live", server, waiting, cancelled, answer', ringing, hf)
       /\ NoLate(rc, rc', cancelled)
  <2>2. /\ Whole(rc, "live", server, waiting, cancelled, answer, ringing, heard) /\ ~waiting
        /\ Mid(rc', answer', ringing, hf, cancelled, waiting)
        /\ Follows(rc, rc') /\ Done(rc', hf) /\ answer' \in [Target -> {0} \cup Code]
        /\ ringing \subseteq Target /\ hf \subseteq Code /\ cancelled \in BOOLEAN
    BY <1>4, <1>5, <1>7, <1>8, <1>9, <1>10, <1>11
  <2> QED BY ONLY <2>2, FollowsKept
<1> QED BY <1>2, <1>5, <1>12 DEF Kept
\* A response that follows a context of the same clients keeps everything.
LEMMA AfterKept ==
  ASSUME NEW r, NEW m, NEW an, NEW ri, NEW he, NEW ca, NEW sv, NEW wt, NEW bn, NEW ro, NEW hf,
         Whole(r, "live", sv, wt, ca, an, ri, he), ~wt, Follows(r, m),
         Mid(m, bn, ro, hf, ca, wt), Due(m, hf), config \in Config,
         bn \in [Target -> {0} \cup Code], ro \subseteq Target, hf \subseteq Code
  PROVE  /\ Whole(afterResponse(m), "live", sv, wt, ca, bn, ro, hf)
         /\ NoLate(r, afterResponse(m), ca)
<1> DEFINE s == afterResponse(m)
<1>1. Mid(s, bn, ro, hf, ca, wt) /\ Done(s, hf) /\ Follows(m, s)
  BY ChainKeeps
<1> HIDE DEF s
<1>2. m.clients \subseteq Target /\ s.clients \subseteq Target
  BY <1>1, ClientsAreTargets DEF Mid
<1>3. Follows(r, s)
  BY <1>1, <1>2, FollowsTrans
<1>4. ca \in BOOLEAN
  BY DEF Whole, Typed
<1>5. /\ Whole(r, "live", sv, wt, ca, an, ri, he) /\ ~wt /\ Follows(r, s)
      /\ Mid(s, bn, ro, hf, ca, wt) /\ Done(s, hf)
      /\ bn \in [Target -> {0} \cup Code] /\ ro \subseteq Target /\ hf \subseteq Code /\ ca \in BOOLEAN
  BY <1>1, <1>3, <1>4
<1>6. Whole(s, "live", sv, wt, ca, bn, ro, hf) /\ NoLate(r, s, ca)
  BY ONLY <1>5, FollowsKept
<1> QED BY <1>6 DEF s

LEMMA ProvisionalMid ==
  ASSUME NEW r, NEW an, NEW ri, NEW he, NEW ca, NEW wt, NEW t \in Target, NEW code \in {100, 180},
         Mid(r, an, ri, he, ca, wt), r.where[t] = "Active"
  PROVE  /\ Mid(onProvisional(r, code), an, ri \cup {t}, he, ca, wt)
         /\ Narrows(r, onProvisional(r, code)) /\ Due(onProvisional(r, code), he)
<1> DEFINE u == updateTimerC(r)
<1> DEFINE s == onProvisional(r, code)
<1> DEFINE ro == ri \cup {t}
<1>0. r \in Context /\ Tracked(r) /\ code \in Code /\ code \in 1..199 /\ r.mTCSerial \in Nat
  BY DEF Mid, Tracked, Code, Context
<1>1. /\ u \in Context /\ u.where = r.where /\ u.status = r.status
      /\ u.method = r.method /\ u.mHaveSentFinalResponse = r.mHaveSentFinalResponse
      /\ u.best = r.best /\ u.mBestPriority = r.mBestPriority
      /\ u.mTransactionCount = r.mTransactionCount
      /\ u.clients = r.clients /\ u.sent = r.sent /\ u.queues = r.queues
      /\ u.mTCSerial = r.mTCSerial + 1
      /\ u.timers = IF TimerC THEN r.timers \cup {r.mTCSerial + 1} ELSE r.timers
  BY <1>0, TimerCRestarts
<1>2. s = u \/ s = sendResponse(u, code)
  BY DEF onProvisional
<1> HIDE DEF u, s
<1>3. Sends(u, sendResponse(u, code), code)
  BY <1>0, <1>1, SendIs
<1>4. /\ s \in Context /\ s.where = r.where /\ s.status = r.status
      /\ s.method = r.method /\ (s.mHaveSentFinalResponse <=> r.mHaveSentFinalResponse)
      /\ s.best = r.best /\ s.mBestPriority = r.mBestPriority
      /\ s.mTransactionCount = r.mTransactionCount
      /\ s.clients = r.clients /\ s.sent = r.sent /\ s.queues = r.queues
      /\ s.mTCSerial = r.mTCSerial + 1
      /\ s.timers = IF TimerC THEN r.timers \cup {r.mTCSerial + 1} ELSE r.timers
  BY <1>0, <1>1, <1>2, <1>3 DEF Sends, SameBranches
<1>5. Tracked(s)
  <2>1. r.timers \subseteq 0..r.mTCSerial
    BY <1>0 DEF Tracked
  <2>2. s.timers \subseteq 0..s.mTCSerial
    BY <1>0, <1>4, <2>1
  <2> QED BY <1>0, <1>4, <2>2 DEF Tracked
<1>6. Open(s, an, ro)
  BY <1>4 DEF Mid, Open
<1>7. Armed(s, ro)
  BY <1>4 DEF Armed
<1>8. Stopped(s) /\ Answered(s, an) /\ Upstream(s)
  BY <1>4 DEF Mid, Stopped, Answered, Upstream
<1>9. Weighed(s, he) /\ Forwarded(s, he) /\ Ended(s, ca, wt)
  BY <1>4 DEF Mid, Weighed, Forwarded, Ended
<1>10. Due(s, he)
  BY <1>4 DEF Due
<1>11. Narrows(r, s)
  BY <1>4 DEF Narrows
<1> QED BY <1>5, <1>6, <1>7, <1>8, <1>9, <1>10, <1>11 DEF Mid, s

LEMMA ProvisionalKeeps ==
  ASSUME IInv, NEW t \in Target, NEW code \in {100, 180}, Provisional(t, code)
  PROVE  Kept /\ NoLate(rc, rc', cancelled)
<1> DEFINE m == processResponse(rc, t, code, TRUE)
<1>1. /\ Whole(rc, alive, server, waiting, cancelled, answer, ringing, heard)
      /\ config \in Config
  BY DEF IInv
<1>2. /\ t \in rc.clients /\ answer[t] = 0 /\ answer' = answer
      /\ heard' = heard /\ rc' = afterResponse(m)
      /\ alive' = alive /\ server' = server /\ waiting' = waiting /\ cancelled' = cancelled
      /\ ringing' = ringing \cup {t}
  BY DEF Provisional, Owed
<1> HIDE DEF m
<1>3. alive = "live" /\ ~waiting /\ rc.where[t] = "Active"
  <2>1. t \in rc.clients /\ answer[t] = 0
    BY <1>2
  <2> QED BY ONLY <1>1, <2>1, LiveOwed
<1>4. m = onProvisional(rc, code)
  BY <1>3 DEF processResponse, m
<1>5. /\ Mid(rc, answer, ringing, heard, cancelled, waiting)
      /\ answer \in [Target -> {0} \cup Code] /\ ringing \subseteq Target /\ heard \subseteq Code
  BY <1>1 DEF Whole, Typed
<1>6. Mid(m, answer, ringing', heard, cancelled, waiting) /\ Narrows(rc, m) /\ Due(m, heard)
  BY <1>2, <1>3, <1>4, <1>5, ProvisionalMid
<1>7. /\ Whole(rc, "live", server, waiting, cancelled, answer, ringing, heard) /\ ~waiting
      /\ Follows(rc, m) /\ ringing' \subseteq Target /\ heard \subseteq Code /\ config \in Config
      /\ answer \in [Target -> {0} \cup Code]
  BY <1>1, <1>2, <1>3, <1>5, <1>6, NarrowsFollows
<1>8. /\ Whole(afterResponse(m), "live", server, waiting, cancelled, answer, ringing', heard)
      /\ NoLate(rc, afterResponse(m), cancelled)
  BY ONLY <1>6, <1>7, AfterKept
<1> QED BY <1>2, <1>3, <1>8 DEF Kept

LEMMA Late2xxKeeps ==
  ASSUME IInv, NEW t \in Target, Late2xx(t, 200)
  PROVE  Kept /\ NoLate(rc, rc', cancelled)
<1> DEFINE m == sendResponse(rc, 200)
<1>1. /\ Whole(rc, alive, server, waiting, cancelled, answer, ringing, heard)
      /\ config \in Config
  BY DEF IInv
<1>2. /\ t \in rc.clients /\ answer[t] # 0 /\ answer' = answer /\ rc.method = "INVITE"
      /\ answer[t] \in 200..299 \/ Stray2xx
      /\ heard' = heard /\ rc' = afterResponse(processResponse(rc, t, 200, TRUE))
      /\ alive' = alive /\ server' = server /\ waiting' = waiting /\ cancelled' = cancelled
      /\ ringing' = ringing
  BY DEF Late2xx, Owed, stackVars
<1>3. alive = "live" /\ ~waiting
  BY <1>1, <1>2, LiveOwed
<1>5. /\ Mid(rc, answer, ringing, heard, cancelled, waiting)
      /\ answer \in [Target -> {0} \cup Code] /\ ringing \subseteq Target /\ heard \subseteq Code
  BY <1>1 DEF Whole, Typed
<1>4. processResponse(rc, t, 200, TRUE) = m
  <2>1. rc.where[t] # "Active"
    BY <1>2, <1>5 DEF Mid, Open
  <2> QED BY <2>1 DEF processResponse
<1>6. MaySend(rc, answer, ringing, heard, 200)
  <2>1. NoStray => \A u \in Target : /\ rc.where[u] # "Candidate"
                                     /\ rc.method = "INVITE" => rc.status[u] # "Started"
    <3>1. NoStray => answer[t] \in 200..299
      BY <1>2 DEF NoStray
    <3>2. NoStray => rc.mHaveSentFinalResponse
      BY <1>2, <1>5, <3>1 DEF Mid, Answered
    <3> QED BY <1>5, <3>2 DEF Mid, Stopped
  <2> QED BY <1>2, <1>5, <2>1 DEF MaySend, Mid, Parts
<1>7. Mid(m, answer, ringing, heard, cancelled, waiting) /\ Sends(rc, m, 200)
  BY <1>6, SendsMid
<1> HIDE DEF m
<1>8. Due(m, heard) /\ Follows(rc, m)
  BY <1>7 DEF Due, Sends, SameBranches, Follows, Grows
<1>9. /\ Whole(rc, "live", server, waiting, cancelled, answer, ringing, heard) /\ ~waiting
      /\ config \in Config
  BY <1>1, <1>3
<1>10. /\ Whole(afterResponse(m), "live", server, waiting, cancelled, answer, ringing, heard)
       /\ NoLate(rc, afterResponse(m), cancelled)
  BY ONLY <1>5, <1>7, <1>8, <1>9, AfterKept
<1> QED BY <1>2, <1>3, <1>4, <1>10 DEF Kept
-----------------------------------------------------------------------------
(* Timers, and the end of transactions. *)
untimed(r, n) == [r EXCEPT !.timers = @ \ {n}]
unforked(r, fc) == [r EXCEPT !.forks = @ \ {fc}]

\* A context with the same fields but timers and forks.
SameButTimers(r, s) ==
  /\ s.where = r.where /\ s.status = r.status
  /\ s.method = r.method /\ s.mHaveSentFinalResponse = r.mHaveSentFinalResponse
  /\ s.queues = r.queues /\ s.mTargetList = r.mTargetList /\ s.best = r.best
  /\ s.mBestPriority = r.mBestPriority /\ s.mTransactionCount = r.mTransactionCount
  /\ s.clients = r.clients /\ s.mTCSerial = r.mTCSerial /\ s.sent = r.sent

LEMMA UntimedIs ==
  ASSUME NEW r, Tracked(r), NEW n
  PROVE  /\ SameButTimers(r, untimed(r, n)) /\ Tracked(untimed(r, n))
         /\ untimed(r, n).timers = r.timers \ {n} /\ untimed(r, n).forks = r.forks
<1> DEFINE s == untimed(r, n)
<1>1. SameButTimers(r, s) /\ s.timers = r.timers \ {n} /\ s.forks = r.forks
  BY DEF untimed, SameButTimers, Tracked, Context
<1>2. s \in Context
  BY DEF untimed, Tracked, Context
<1> HIDE DEF s
<1>3. Tracked(s)
  BY <1>1, <1>2 DEF Tracked, SameButTimers
<1> QED BY <1>1, <1>3 DEF s

LEMMA UnforkedIs ==
  ASSUME NEW r, Tracked(r), NEW fc
  PROVE  /\ SameButTimers(r, unforked(r, fc)) /\ Tracked(unforked(r, fc))
         /\ unforked(r, fc).timers = r.timers /\ unforked(r, fc).forks \subseteq r.forks
<1> DEFINE s == unforked(r, fc)
<1> DEFINE f == r.forks \ {fc}
<1>0. f \in Forks
  BY DEF Tracked, Context, Forks
<1>1. SameButTimers(r, s) /\ s.timers = r.timers /\ s.forks = f
  BY DEF unforked, SameButTimers, Tracked, Context
<1>2. s = [r EXCEPT !.forks = f]
  BY DEF unforked
<1> HIDE DEF f
<1>3. s \in Context
  BY <1>0, <1>2 DEF Tracked, Context
<1> HIDE DEF s
<1>4. Tracked(s)
  BY <1>1, <1>3 DEF Tracked, SameButTimers
<1> QED BY <1>1, <1>4 DEF s, f

\* A context that lost a timer, and may have been closed, is whole if timer C
\* is still armed.
LEMMA TimerWhole ==
  ASSUME NEW r, NEW s, NEW u, NEW stop, NEW al, NEW sv, NEW wt, NEW ca, NEW an, NEW ri, NEW he,
         Whole(r, al, sv, wt, ca, an, ri, he), SameButTimers(r, s), Tracked(s),
         s.forks \subseteq r.forks, u = s \/ Closed(s, u, stop), Armed(u, ri)
  PROVE  Whole(u, al, sv, wt, ca, an, ri, he)
<1>0. Mid(r, an, ri, he, ca, wt) /\ Tracked(r)
  BY DEF Whole, Mid
<1>1. /\ u.method = r.method /\ u.mHaveSentFinalResponse = r.mHaveSentFinalResponse
      /\ u.queues = r.queues /\ u.mTargetList = r.mTargetList /\ u.best = r.best
      /\ u.mBestPriority = r.mBestPriority /\ u.mTransactionCount = r.mTransactionCount
      /\ u.clients = r.clients /\ u.sent = r.sent /\ u.forks \subseteq r.forks /\ Tracked(u)
  BY DEF SameButTimers, Closed, Same
<1>2. \A t \in Target :
        /\ r.where[t] # "Candidate" => u.where[t] = r.where[t]
        /\ r.where[t] = "Candidate" => u.where[t] \in {"Candidate", "Terminated"}
        /\ u.status[t] = "Started" => r.status[t] = "Started"
  <2> SUFFICES ASSUME NEW t \in Target
               PROVE  /\ r.where[t] # "Candidate" => u.where[t] = r.where[t]
                      /\ r.where[t] = "Candidate" => u.where[t] \in {"Candidate", "Terminated"}
                      /\ u.status[t] = "Started" => r.status[t] = "Started"
    OBVIOUS
  <2>1. s.where[t] = r.where[t] /\ s.status[t] = r.status[t]
    BY DEF SameButTimers
  <2> QED BY <1>1, <2>1 DEF Closed, Tracked
<1>3. Open(u, an, ri)
  BY <1>0, <1>1, <1>2 DEF Mid, Open
<1>4. Stopped(u) /\ Answered(u, an) /\ Upstream(u)
  BY <1>0, <1>1, <1>2 DEF Mid, Stopped, Answered, Upstream
<1>5. Weighed(u, he) /\ Forwarded(u, he) /\ Ended(u, ca, wt)
  BY <1>0, <1>1, <1>2 DEF Mid, Weighed, Forwarded, Ended
<1>6. Mid(u, an, ri, he, ca, wt)
  BY <1>1, <1>3, <1>4, <1>5 DEF Mid
<1>7. Counted(u, al, sv)
  BY <1>1 DEF Whole, Counted
<1>8. Quiet(u, al, wt, he)
  <2>1. (\A t \in Target : u.where[t] # "Active") => (\A t \in Target : r.where[t] # "Active")
    BY <1>2
  <2>2. (\A t \in Target : r.where[t] # "Candidate") => (\A t \in Target : u.where[t] # "Candidate")
    BY <1>2
  <2> QED BY <1>1, <2>1, <2>2 DEF Whole, Quiet
<1>9. Untouched(r, an, ri, he) => Untouched(u, an, ri, he)
  BY <1>1, <1>2 DEF Untouched
<1>10. Typed(u, al, sv, wt, ca, an, ri, he)
  BY <1>1, <1>9 DEF Whole, Typed
<1> QED BY <1>6, <1>7, <1>8, <1>10 DEF Whole

\* Timer C of a request; the proxy looks it up by its server transaction.
LEMMA FireTimerCKeeps ==
  ASSUME IInv, NEW n \in rc.timers, FireTimerC(n)
  PROVE  Kept /\ NoLate(rc, rc', cancelled)
<1> DEFINE s == untimed(rc, n)
<1> DEFINE u == IF server /\ n = rc.mTCSerial THEN processTimerC(s) ELSE s
<1>1. Whole(rc, alive, server, waiting, cancelled, answer, ringing, heard)
  BY DEF IInv
<1>2. /\ rc' = u /\ alive' = alive /\ server' = server /\ waiting' = waiting
      /\ cancelled' = cancelled /\ answer' = answer /\ ringing' = ringing /\ heard' = heard
  BY DEF FireTimerC, stackVars, untimed
<1>3. /\ Mid(rc, answer, ringing, heard, cancelled, waiting) /\ Tracked(rc)
      /\ ringing \subseteq Target /\ rc \in Context
  BY <1>1 DEF Whole, Typed, Mid, Tracked
<1>4. SameButTimers(rc, s) /\ Tracked(s) /\ s.timers = rc.timers \ {n} /\ s.forks = rc.forks
  BY <1>3, UntimedIs
<1> HIDE DEF s
<1> DEFINE stop == s.method = "INVITE"
<1>5. Closed(s, cancelAllClientTransactions(s), stop)
  BY <1>4, CancelAllCloses
<1>6. \/ u = s /\ (server => n # rc.mTCSerial \/ s.mHaveSentFinalResponse)
      \/ u = cancelAllClientTransactions(s)
  BY DEF processTimerC
<1> HIDE DEF u
<1>7. Armed(u, ringing)
  <2>1. CASE u = s /\ (server => n # rc.mTCSerial \/ s.mHaveSentFinalResponse)
    <3>1. CASE n # rc.mTCSerial
      BY <1>3, <1>4, <2>1, <3>1 DEF Mid, Armed, SameButTimers
    <3>2. CASE rc.mHaveSentFinalResponse
      BY <1>3, <1>4, <2>1, <3>2 DEF Mid, Stopped, Armed, SameButTimers
    <3>3. CASE alive = "none"
      <4>1. \A t \in Target : rc.where[t] = "none"
        BY <1>1, <3>3 DEF Whole, Typed, Untouched
      <4>2. \A t \in Target : s.status[t] = "none"
        BY <1>3, <1>4, <4>1 DEF Tracked, SameButTimers
      <4> QED BY <1>3, <2>1, <4>2 DEF Armed
    <3>4. alive # "none" /\ ~server => rc.mHaveSentFinalResponse
      BY <1>1 DEF Whole, Typed
    <3>5. s.mHaveSentFinalResponse = rc.mHaveSentFinalResponse
      BY <1>4 DEF SameButTimers
    <3> QED BY <2>1, <3>1, <3>2, <3>3, <3>4, <3>5
  <2>2. CASE u = cancelAllClientTransactions(s)
    <3>1. u.method = s.method /\ (u.method = "INVITE" => \A t \in Target : u.status[t] # "Started")
      BY <1>5, <2>2 DEF Closed, Same
    <3> QED BY <1>3, <3>1 DEF Armed
  <2> QED BY <1>6, <2>1, <2>2
<1>8. u = s \/ Closed(s, u, stop)
  BY <1>5, <1>6
<1> HIDE DEF stop
<1>9. s.forks \subseteq rc.forks
  BY <1>4
<1>10. Whole(u, alive, server, waiting, cancelled, answer, ringing, heard)
  BY ONLY <1>1, <1>4, <1>7, <1>8, <1>9, TimerWhole
<1>11. u.clients = rc.clients
  BY <1>4, <1>8 DEF SameButTimers, Closed, Same
<1> QED BY <1>2, <1>10, <1>11 DEF Kept, NoLate
LEMMA FireForkControlKeeps ==
  ASSUME IInv, NEW fc \in rc.forks, FireForkControl(fc)
  PROVE  Kept /\ NoLate(rc, rc', cancelled)
<1> DEFINE s == unforked(rc, fc)
<1> DEFINE u == targetChain(s, fc, TRUE)
<1>1. Whole(rc, alive, server, waiting, cancelled, answer, ringing, heard) /\ config \in Config
  BY DEF IInv
<1>2. /\ rc' = (IF server THEN u ELSE s) /\ alive' = alive /\ server' = server /\ waiting' = waiting
      /\ cancelled' = cancelled /\ answer' = answer /\ ringing' = ringing /\ heard' = heard
  BY DEF FireForkControl, stackVars, unforked
<1>3. /\ Mid(rc, answer, ringing, heard, cancelled, waiting) /\ Tracked(rc)
      /\ ringing \subseteq Target /\ answer \in [Target -> {0} \cup Code] /\ heard \subseteq Code
      /\ cancelled \in BOOLEAN
  BY <1>1 DEF Whole, Typed, Mid
<1>4. SameButTimers(rc, s) /\ Tracked(s) /\ s.timers = rc.timers /\ s.forks \subseteq rc.forks
  BY <1>3, UnforkedIs
<1>5. fc \in Fork
  BY <1>3 DEF Tracked, Context, Forks, Fork
<1> HIDE DEF s
<1> DEFINE stop == FALSE
<1>6. s = s \/ Closed(s, s, stop)
  OBVIOUS
<1> HIDE DEF stop
<1>7. Armed(s, ringing)
  BY <1>3, <1>4 DEF Mid, Armed, SameButTimers
<1>8. Whole(s, alive, server, waiting, cancelled, answer, ringing, heard)
  BY ONLY <1>1, <1>4, <1>6, <1>7, TimerWhole
<1>9. CASE ~server
  <2>1. rc' = s /\ s.clients = rc.clients
    BY <1>2, <1>4, <1>9 DEF SameButTimers
  <2> QED BY <1>2, <1>8, <2>1 DEF Kept, NoLate
<1>10. CASE server
  <2>1. alive = "live" /\ ~waiting
    <3>1. ~waiting /\ alive # "none"
      BY <1>1 DEF Whole, Typed, Untouched
    <3>2. alive # "deleted" /\ alive \in {"none", "live", "deleted"}
      BY <1>1, <1>10 DEF Whole, Counted, Typed
    <3> QED BY <3>1, <3>2
  <2>2. Proceeds(s, u)
    BY <1>1, <1>4, <1>5, ForkChainProceeds
  <2> HIDE DEF u
  <2>3. Mid(s, answer, ringing, heard, cancelled, waiting) /\ Quiet(s, alive, waiting, heard)
    BY <1>8 DEF Whole
  <2>4. Mid(u, answer, ringing, heard, cancelled, waiting)
    BY <2>2, <2>3, StartsMid
  <2>5. Follows(s, u)
    BY <1>4, <2>2, ProceedsFollows
  <2>6. Done(u, heard)
    <3> SUFFICES ASSUME ~u.mHaveSentFinalResponse, \A t \in Target : u.where[t] # "Active"
                 PROVE  (\A t \in Target : u.where[t] # "Candidate") /\ heard = {} /\ ~AllHeard
      BY DEF Done
    <3>1. \A t \in Target : s.where[t] # "Active"
      BY <2>2 DEF Proceeds
    <3>2. ~s.mHaveSentFinalResponse
      BY <2>2 DEF Proceeds
    <3>3. (\A t \in Target : s.where[t] # "Candidate") /\ heard = {} /\ ~AllHeard
      BY <2>1, <2>3, <3>1, <3>2 DEF Quiet
    <3> QED BY <2>2, <3>3 DEF Proceeds
  <2>7. Whole(s, "live", server, waiting, cancelled, answer, ringing, heard)
    BY <1>8, <2>1
  <2>8. /\ Whole(u, "live", server, waiting, cancelled, answer, ringing, heard)
        /\ NoLate(s, u, cancelled)
    BY ONLY <1>3, <2>1, <2>4, <2>5, <2>6, <2>7, FollowsKept
  <2>9. NoLate(rc, u, cancelled)
    BY <1>4, <2>8 DEF NoLate, SameButTimers
  <2> QED BY <1>2, <1>10, <2>1, <2>8, <2>9 DEF Kept
<1> QED BY <1>9, <1>10

\* The context loses an entry of the proxy's maps.
released(r, w, x, C) ==
  [r EXCEPT !.where = w, !.status = x, !.clients = C, !.mTransactionCount = @ - 1]

Released(r, s) ==
  /\ s.method = r.method /\ s.mHaveSentFinalResponse = r.mHaveSentFinalResponse
  /\ s.best = r.best /\ s.mBestPriority = r.mBestPriority /\ s.mTCSerial = r.mTCSerial
  /\ s.timers = r.timers /\ s.sent = r.sent
  /\ s.mTransactionCount = r.mTransactionCount - 1

LEMMA ReleasedIs ==
  ASSUME NEW r \in Context, NEW w \in Wheres, NEW x \in Statuses, NEW C \in SUBSET Target
  PROVE  /\ released(r, w, x, C) \in Context /\ Released(r, released(r, w, x, C))
         /\ released(r, w, x, C).where = w /\ released(r, w, x, C).status = x
         /\ released(r, w, x, C).clients = C
<1> DEFINE s == released(r, w, x, C)
<1>1. Released(r, s) /\ s.where = w /\ s.status = x /\ s.clients = C
  BY DEF released, Released, Context
<1> DEFINE n == r.mTransactionCount - 1
<1>2. s = [r EXCEPT !.where = w, !.status = x, !.clients = C, !.mTransactionCount = n] /\ n \in Int
  BY DEF released, Context
<1> HIDE DEF n
<1>3. s \in Context
  BY <1>2 DEF Context
<1> QED BY <1>1, <1>3

LEMMA ServerTerminatedKeeps ==
  ASSUME IInv, ServerTerminated
  PROVE  Kept /\ NoLate(rc, rc', cancelled)
<1> DEFINE s == released(rc, rc.where, rc.status, rc.clients)
<1> DEFINE al == IF s.mTransactionCount = 0 THEN "deleted" ELSE alive
<1>1. Whole(rc, alive, server, waiting, cancelled, answer, ringing, heard)
  BY DEF IInv
<1>3. /\ Mid(rc, answer, ringing, heard, cancelled, waiting) /\ Tracked(rc) /\ rc \in Context
      /\ rc.where \in Wheres /\ rc.status \in Statuses /\ rc.clients \in SUBSET Target
      /\ rc.mTransactionCount \in Int
  BY <1>1 DEF Whole, Mid, Tracked, Context
<1>0. s = release(rc)
  BY <1>3 DEF released, release, Context
<1>2. /\ server /\ rc.mHaveSentFinalResponse
      /\ rc' = s /\ alive' = al /\ server' = FALSE /\ waiting' = waiting
      /\ cancelled' = cancelled /\ answer' = answer /\ ringing' = ringing /\ heard' = heard
  BY <1>0 DEF ServerTerminated, stackVars, onLast
<1>4. /\ s \in Context /\ Released(rc, s) /\ s.where = rc.where /\ s.status = rc.status
      /\ s.clients = rc.clients
  BY <1>3, ReleasedIs
<1> HIDE DEF s
<1>5. Tracked(s)
  BY <1>3, <1>4 DEF Tracked, Released
<1>6. Mid(s, answer, ringing, heard, cancelled, waiting)
  <2>1. Open(s, answer, ringing) /\ Stopped(s) /\ Answered(s, answer) /\ Armed(s, ringing)
    BY <1>3, <1>4 DEF Mid, Open, Stopped, Answered, Armed, Released
  <2>2. Upstream(s) /\ Weighed(s, heard) /\ Forwarded(s, heard) /\ Ended(s, cancelled, waiting)
    BY <1>3, <1>4 DEF Mid, Upstream, Weighed, Forwarded, Ended, Released
  <2> QED BY <1>5, <2>1, <2>2 DEF Mid
<1>7. alive = "live"
  BY <1>1, <1>2 DEF Whole, Typed, Counted
<1> DEFINE gone == FALSE
<1>8. Counted(s, al, gone)
  <2>1. rc.mTransactionCount = Cardinality(rc.clients) + 1
    BY <1>1, <1>2, <1>7 DEF Whole, Counted
  <2>2. s.mTransactionCount = Cardinality(s.clients)
    <3>1. Cardinality(rc.clients) \in Nat
      BY <1>3, ConfigAssumption, FS_Subset, FS_CardinalityType
    <3> QED BY <1>3, <1>4, <2>1, <3>1 DEF Released
  <2>3. IsFiniteSet(s.clients)
    BY <1>3, <1>4, ConfigAssumption, FS_Subset
  <2>4. s.mTransactionCount = 0 => s.clients = {}
    BY <2>2, <2>3, FS_EmptySet
  <2>5. s.mTransactionCount = Cardinality(s.clients) + 0
    <3>1. Cardinality(s.clients) \in Nat
      BY <2>3, FS_CardinalityType
    <3> QED BY <2>2, <3>1
  <2> QED BY <1>7, <2>2, <2>4, <2>5 DEF Counted
<1>9. Typed(s, al, gone, waiting, cancelled, answer, ringing, heard)
  <2>1. Untouched(rc, answer, ringing, heard) => s.queues = rc.queues /\ s.forks = rc.forks
                                                 /\ s.mTargetList = rc.mTargetList
    BY <1>3, <1>0, <1>4 DEF s, released, Context
  <2>2. Untouched(rc, answer, ringing, heard) => Untouched(s, answer, ringing, heard)
    BY <1>4, <2>1 DEF Untouched, Released
  <2>3. al \in {"live", "deleted"}
    BY <1>7
  <2> HIDE DEF al
  <2> QED BY <1>1, <1>2, <1>4, <2>2, <2>3 DEF Whole, Typed, Released
<1>10. Quiet(s, al, waiting, heard)
  BY <1>2, <1>4 DEF Quiet, Released
<1> HIDE DEF al
<1>11. Whole(s, al, gone, waiting, cancelled, answer, ringing, heard)
  BY <1>6, <1>8, <1>9, <1>10 DEF Whole
<1> QED BY <1>2, <1>4, <1>11 DEF Kept, NoLate

LEMMA ClientTerminatedKeeps ==
  ASSUME IInv, NEW t \in Target, ClientTerminated(t)
  PROVE  Kept /\ NoLate(rc, rc', cancelled)
<1> DEFINE w == [u \in Target |-> IF u = t THEN "none" ELSE rc.where[u]]
<1> DEFINE x == [u \in Target |-> IF u = t THEN "none" ELSE rc.status[u]]
<1> DEFINE C == rc.clients \ {t}
<1> DEFINE s == released(rc, w, x, C)
<1> DEFINE al == IF s.mTransactionCount = 0 THEN "deleted" ELSE alive
<1>1. Whole(rc, alive, server, waiting, cancelled, answer, ringing, heard)
  BY DEF IInv
<1>3. /\ Mid(rc, answer, ringing, heard, cancelled, waiting) /\ Tracked(rc) /\ rc \in Context
      /\ rc.where \in Wheres /\ rc.status \in Statuses /\ rc.clients \in SUBSET Target
      /\ rc.mTransactionCount \in Int
  BY <1>1 DEF Whole, Mid, Tracked, Context
<1>0. s = [release(removeClientTransaction(rc, t)) EXCEPT !.clients = @ \ {t}]
  <2>1. /\ w = [u \in Target |-> IF u \in {t} THEN "none" ELSE rc.where[u]]
        /\ x = [u \in Target |-> IF u \in {t} THEN "none" ELSE rc.status[u]]
    OBVIOUS
  <2> HIDE DEF w, x
  <2> QED BY <1>3, <2>1 DEF released, release, removeClientTransaction, MoveTo, Context
<1>2. /\ t \in rc.clients /\ answer[t] # 0
      /\ rc' = s /\ alive' = al /\ server' = server /\ waiting' = waiting
      /\ cancelled' = cancelled /\ answer' = answer /\ ringing' = ringing /\ heard' = heard
  BY <1>0 DEF ClientTerminated, stackVars, onLast, Owed
<1>00. w \in Wheres /\ x \in Statuses /\ C \in SUBSET Target
  BY <1>3 DEF Wheres, Statuses, Map, Status
<1>01. \A u \in Target : /\ w[u] = IF u = t THEN "none" ELSE rc.where[u]
                         /\ x[u] = IF u = t THEN "none" ELSE rc.status[u]
  OBVIOUS
<1> HIDE DEF w, x
<1>4. /\ s \in Context /\ Released(rc, s) /\ s.where = w /\ s.status = x /\ s.clients = C
  BY <1>3, <1>00, ReleasedIs
<1> HIDE DEF s
<1>5. Tracked(s)
  BY <1>3, <1>4, <1>01 DEF Tracked, Released
<1>6. Mid(s, answer, ringing, heard, cancelled, waiting)
  <2>1. Open(s, answer, ringing)
    BY <1>2, <1>3, <1>4, <1>01 DEF Mid, Open
  <2>2. Stopped(s) /\ Answered(s, answer)
    BY <1>3, <1>4, <1>01 DEF Mid, Stopped, Answered, Released
  <2>3. Armed(s, ringing)
    <3>1. \A u \in ringing : s.status[u] = "Started" => rc.status[u] = "Started"
      BY <1>3, <1>4, <1>01 DEF Mid, Open
    <3> QED BY <1>3, <1>4, <3>1 DEF Mid, Armed, Released
  <2>4. Upstream(s) /\ Weighed(s, heard) /\ Forwarded(s, heard)
    <3>1. Upstream(rc) /\ Weighed(rc, heard) /\ Forwarded(rc, heard)
      BY <1>3 DEF Mid
    <3>2. /\ s.method = rc.method /\ s.mHaveSentFinalResponse = rc.mHaveSentFinalResponse
          /\ s.best = rc.best /\ s.mBestPriority = rc.mBestPriority /\ s.sent = rc.sent
      BY <1>4 DEF Released
    <3>3. Upstream(s)
      BY ONLY <3>1, <3>2 DEF Upstream
    <3>4. Weighed(s, heard)
      BY ONLY <3>1, <3>2 DEF Weighed
    <3>5. Forwarded(s, heard)
      BY ONLY <3>1, <3>2 DEF Forwarded
    <3> QED BY <3>3, <3>4, <3>5
  <2>5. Ended(s, cancelled, waiting)
    BY <1>3, <1>4, <1>01 DEF Mid, Ended, Released
  <2> QED BY <1>5, <2>1, <2>2, <2>3, <2>4, <2>5 DEF Mid
<1>7. alive = "live" /\ ~waiting
  <2>1. t \in rc.clients
    BY <1>2
  <2> QED BY ONLY <1>1, <2>1, LiveOwed
<1>8. Counted(s, al, server)
  <2>1. rc.mTransactionCount = Cardinality(rc.clients) + (IF server THEN 1 ELSE 0)
    BY <1>1, <1>7 DEF Whole, Counted
  <2>2. /\ IsFiniteSet(rc.clients) /\ IsFiniteSet(C) /\ Cardinality(rc.clients) \in Nat
        /\ Cardinality(C) = Cardinality(rc.clients) - 1 /\ Cardinality(C) \in Nat
    <3>1. IsFiniteSet(rc.clients)
      BY <1>3, ConfigAssumption, FS_Subset
    <3> QED BY <1>2, <3>1, FS_RemoveElement, FS_CardinalityType
  <2>3. s.mTransactionCount = Cardinality(s.clients) + (IF server THEN 1 ELSE 0)
    BY <1>4, <2>1, <2>2 DEF Released
  <2>4. s.mTransactionCount = 0 => Cardinality(s.clients) = 0 /\ ~server
    BY <1>4, <2>2, <2>3
  <2>5. s.mTransactionCount = 0 => s.clients = {} /\ ~server
    BY <1>4, <2>2, <2>4, FS_EmptySet
  <2> QED BY <1>7, <2>3, <2>5 DEF Counted
<1>9. Typed(s, al, server, waiting, cancelled, answer, ringing, heard)
  <2>3. al \in {"live", "deleted"}
    BY <1>7
  <2> HIDE DEF al
  <2> QED BY <1>1, <1>7, <1>4, <2>3 DEF Whole, Typed, Released
<1>10. Quiet(s, al, waiting, heard)
  <2>1. rc.where[t] # "Active"
    BY <1>2, <1>3 DEF Mid, Open
  <2>2. (\A u \in Target : s.where[u] # "Active") => (\A u \in Target : rc.where[u] # "Active")
    BY <1>4, <1>01, <2>1
  <2>3. (\A u \in Target : rc.where[u] # "Candidate") => (\A u \in Target : s.where[u] # "Candidate")
    BY <1>4, <1>01
  <2> QED BY <1>1, <1>4, <1>7, <2>2, <2>3 DEF Whole, Quiet, Released
<1> HIDE DEF al
<1>11. Whole(s, al, server, waiting, cancelled, answer, ringing, heard)
  BY <1>6, <1>8, <1>9, <1>10 DEF Whole
<1>12. s.clients \subseteq rc.clients
  BY <1>4
<1> QED BY <1>2, <1>11, <1>12 DEF Kept, NoLate
-----------------------------------------------------------------------------
(* Adding targets, the request, its CANCEL and redirections. *)
targetsOf(b) == UNION {ToSet(q) : q \in ToSet(b)}

\* New are targets that the context has not seen.
New(r, an, N) == \A t \in N : t \in Target /\ r.where[t] = "none" /\ t \notin r.clients /\ an[t] = 0

\* s is r with the targets of N as candidates.
Adds(r, s, N) ==
  /\ s.method = r.method /\ s.mHaveSentFinalResponse = r.mHaveSentFinalResponse
  /\ s.mTargetList = r.mTargetList /\ s.best = r.best
  /\ s.mBestPriority = r.mBestPriority /\ s.mTransactionCount = r.mTransactionCount
  /\ s.clients = r.clients /\ s.mTCSerial = r.mTCSerial
  /\ s.timers = r.timers /\ s.sent = r.sent
  /\ r.mHaveSentFinalResponse => s = r
  /\ \A t \in Target :
       LET new == t \in N /\ ~r.mHaveSentFinalResponse
       IN  /\ s.where[t] = IF new THEN "Candidate" ELSE r.where[t]
           /\ s.status[t] = IF new THEN "Candidate" ELSE r.status[t]

LEMMA AddBatchAdds ==
  ASSUME NEW r, Tracked(r), NEW b, b \in Seq(Seq(Target)), NEW an, New(r, an, targetsOf(b))
  PROVE  /\ Tracked(addBatch(r, b)) /\ Adds(r, addBatch(r, b), targetsOf(b))
         /\ ~r.mHaveSentFinalResponse => addBatch(r, b).queues = r.queues \o b
<1> DEFINE N == targetsOf(b)
<1> DEFINE s == addBatch(r, b)
<1>1. CASE r.mHaveSentFinalResponse
  <2>1. s = r
    BY <1>1 DEF addBatch
  <2> QED BY <1>1, <2>1 DEF Adds
<1>2. CASE ~r.mHaveSentFinalResponse
  <2> DEFINE m == MoveTo(r, N, "Candidate", "Candidate")
  <2> DEFINE f == m.queues \o b
  <2>0. r \in Context
    BY DEF Tracked
  <2>1. s = [m EXCEPT !.queues = f]
    BY <1>2 DEF addBatch, targetsOf
  <2>2. Moved(r, m, N, "Candidate", "Candidate")
    BY <2>0, MoveToMoves DEF Map, Status
  <2> HIDE DEF m, s
  <2>3. m \in Context /\ Same(r, m)
    BY <2>2 DEF Moved
  <2>4. f \in Queues
    <3>1. m.queues \in Seq(Seq(Target))
      BY <2>3 DEF Context, Queues
    <3> DEFINE T == Seq(Target)
    <3>2. m.queues \in Seq(T) /\ b \in Seq(T)
      BY <3>1
    <3> HIDE DEF T
    <3>3. m.queues \o b \in Seq(T)
      BY <3>2
    <3> QED BY <3>3 DEF T, Queues
  <2>9. f = r.queues \o b
    BY <2>3 DEF Same
  <2> HIDE DEF f
  <2>10. s.queues = f
    BY <2>1, <2>3 DEF Context
  <2>5. s \in Context
    BY <2>1, <2>3, <2>4 DEF Context
  <2>6. /\ s.where = m.where /\ s.status = m.status
        /\ s.method = m.method /\ s.mHaveSentFinalResponse = m.mHaveSentFinalResponse
        /\ s.mTargetList = m.mTargetList /\ s.best = m.best
        /\ s.mBestPriority = m.mBestPriority /\ s.mTransactionCount = m.mTransactionCount
        /\ s.clients = m.clients /\ s.mTCSerial = m.mTCSerial
        /\ s.timers = m.timers /\ s.sent = m.sent
    BY <2>1, <2>3 DEF Context
  <2>7. Adds(r, s, N)
    BY <1>2, <2>2, <2>3, <2>6 DEF Adds, Moved, Same
  <2>8. Tracked(s)
    <3> SUFFICES ASSUME NEW t \in Target
                 PROVE  /\ s.where[t] = "none" <=> s.status[t] = "none"
                        /\ s.where[t] = "Candidate" <=> s.status[t] = "Candidate"
                        /\ s.where[t] = "Active" <=> s.status[t] \in {"Started", "Cancelled"}
                        /\ s.where[t] = "Candidate" => t \notin s.clients
                        /\ s.where[t] = "Active" => t \in s.clients
      BY <2>5, <2>7 DEF Tracked, Adds
    <3>1. t \in N => t \notin r.clients
      BY DEF New
    <3> QED BY <1>2, <2>7, <3>1 DEF Tracked, Adds
  <2> QED BY <2>7, <2>8, <2>9, <2>10 DEF s
<1> QED BY <1>1, <1>2

LEMMA AddMid ==
  ASSUME NEW r, NEW s, NEW N, NEW an, NEW ri, NEW he, NEW ca, NEW wt,
         Mid(r, an, ri, he, ca, wt), Adds(r, s, N), Tracked(s), New(r, an, N),
         ca => mRecursiveRedirect
  PROVE  Mid(s, an, ri, he, ca, wt) /\ Grows(r, s)
<1>1. CASE r.mHaveSentFinalResponse
  BY <1>1 DEF Adds, Grows
<1>2. CASE ~r.mHaveSentFinalResponse
  <2>1. \A t \in Target : /\ s.where[t] = IF t \in N THEN "Candidate" ELSE r.where[t]
                         /\ s.status[t] = IF t \in N THEN "Candidate" ELSE r.status[t]
    BY <1>2 DEF Adds
  <2>2. Open(s, an, ri)
    <3> SUFFICES ASSUME NEW t \in Target
                 PROVE  /\ s.where[t] = "Active" <=> t \in s.clients /\ an[t] = 0
                        /\ s.where[t] = "Candidate" => an[t] = 0 /\ t \notin ri
                        /\ t \in ri => t \in s.clients \/ an[t] # 0
      BY DEF Mid, Open
    <3>1. t \in N => r.where[t] = "none" /\ t \notin r.clients /\ an[t] = 0
      BY DEF New
    <3> QED BY <2>1, <3>1 DEF Mid, Open, Adds
  <2>3. Stopped(s) /\ Answered(s, an)
    BY <1>2 DEF Mid, Stopped, Answered, Adds
  <2>4. Armed(s, ri)
    <3>1. \A t \in ri : s.status[t] = "Started" => r.status[t] = "Started"
      BY <2>1 DEF Mid, Open
    <3> QED BY <3>1 DEF Mid, Armed, Adds
  <2>5. Upstream(s) /\ Weighed(s, he) /\ Forwarded(s, he)
    <3>1. /\ s.method = r.method /\ s.mHaveSentFinalResponse = r.mHaveSentFinalResponse
          /\ s.best = r.best /\ s.mBestPriority = r.mBestPriority /\ s.sent = r.sent
      BY DEF Adds
    <3>2. Upstream(r) /\ Weighed(r, he) /\ Forwarded(r, he)
      BY DEF Mid
    <3>3. Upstream(s)
      BY <3>1, <3>2 DEF Upstream
    <3> QED BY <3>1, <3>2, <3>3 DEF Weighed, Forwarded
  <2>6. Ended(s, ca, wt)
    BY DEF Mid, Ended, Adds
  <2> QED BY <2>2, <2>3, <2>4, <2>5, <2>6 DEF Mid, Grows, Adds
<1> QED BY <1>1, <1>2

\* The first targets of a request: some are started, or a 480 is sent.
LEMMA FirstTargets ==
  ASSUME NEW r, NEW an, NEW ri, NEW he, NEW ca, NEW wt, NEW b, b \in Seq(Seq(Target)),
         Mid(r, an, ri, he, ca, wt), Untouched(r, an, ri, he), ~ca, config \in Config
  PROVE  /\ Mid(afterRequestChain(addBatch(r, b)), an, ri, he, ca, wt)
         /\ Grows(r, afterRequestChain(addBatch(r, b)))
         /\ Done(afterRequestChain(addBatch(r, b)), he)
         /\ afterAsyncChain(addBatch(r, b)) = afterRequestChain(addBatch(r, b))
<1> DEFINE s == addBatch(r, b)
<1> DEFINE N == targetsOf(b)
<1> DEFINE u == afterRequestChain(s)
<1> DEFINE c == targetChain(s, NoFork, FALSE)
<1>1. New(r, an, N)
  <2>1. \A q \in ToSet(b) : q \in Seq(Target)
    BY DEF ToSet
  <2>2. \A q \in Seq(Target) : ToSet(q) \subseteq Target
    BY DEF ToSet
  <2>3. N \subseteq Target
    BY <2>1, <2>2 DEF targetsOf
  <2> QED BY <2>3 DEF New, Untouched
<1>2. Tracked(s) /\ Adds(r, s, N)
  BY <1>1, AddBatchAdds DEF Mid
<1> HIDE DEF s, N
<1>3. Mid(s, an, ri, he, ca, wt) /\ Grows(r, s)
  BY <1>1, <1>2, AddMid
<1>4. he = {} /\ s.mTargetList = {} /\ s.best = None
  BY <1>2 DEF Untouched, Adds
<1>5. Starts(s, c) /\ c.best = None
  BY <1>2, <1>4, ChainStarts DEF Starts, Proceeds
<1>6. afterResponse(s) = onQuiescent(c)
  BY DEF afterResponse
<1> HIDE DEF c
<1>7. c.best # 408
  <2>1. None # 408
    BY DEF None
  <2> QED BY <1>5, <2>1
<1>8. afterAsyncChain(s) = u
  BY <1>7 DEF afterAsyncChain, afterRequestChain, c
<1>9. \A t \in Target : s.where[t] \in {"none", "Candidate"}
  BY <1>2 DEF Adds, Untouched
<1>10. CASE s.mHaveSentFinalResponse
  <2>1. u = s
    BY <1>10 DEF afterRequestChain
  <2>2. Done(s, he)
    BY <1>10 DEF Done
  <2> QED BY <1>3, <1>8, <2>1, <2>2 DEF s
<1>11. CASE ~s.mHaveSentFinalResponse /\ ~hasTargets(s)
  <2>1. u = sendResponse(s, 480)
    BY <1>11 DEF afterRequestChain
  <2>2. \A t \in Target : s.where[t] = "none"
    BY <1>9, <1>11 DEF hasTargets, hasCandidateTransactions, In
  <2>3. \A t \in Target : s.status[t] = "none"
    BY <1>2, <2>2 DEF Tracked
  <2>4. MaySend(s, an, ri, he, 480)
    BY <1>3, <1>4, <1>11, <2>2, <2>3 DEF MaySend, Mid, Parts
  <2>5. Mid(u, an, ri, he, ca, wt) /\ Sends(s, u, 480)
    BY <2>1, <2>4, SendsMid
  <2> HIDE DEF u
  <2>6. Grows(r, u)
    BY <1>3, <2>5 DEF Grows, Sends, SameBranches
  <2>7. Done(u, he)
    BY <2>5 DEF Done, Sends
  <2> QED BY <1>8, <2>5, <2>6, <2>7 DEF s, u
<1>12. CASE ~s.mHaveSentFinalResponse /\ hasTargets(s)
  <2>1. u = afterResponse(s)
    BY <1>6, <1>12 DEF afterRequestChain, c
  <2>2. \E t \in Target : s.where[t] = "Candidate"
    <3>1. PICK t \in Target : s.where[t] # "none"
      BY <1>12 DEF hasTargets, hasCandidateTransactions, hasActiveTransactions, In
    <3> QED BY <1>9, <3>1
  <2>3. Due(s, he)
    BY <1>4, <2>2 DEF Due
  <2>4. Mid(u, an, ri, he, ca, wt) /\ Done(u, he) /\ Follows(s, u)
    BY <1>3, <2>1, <2>3, ChainKeeps
  <2> HIDE DEF u
  <2>5. Grows(r, u)
    <3>1. Grows(s, u)
      BY <2>4 DEF Follows
    <3> QED BY <1>3, <3>1 DEF Grows
  <2> QED BY <1>8, <2>4, <2>5 DEF s, u
<1> QED BY <1>10, <1>11, <1>12

LEMMA RequestKeeps ==
  ASSUME IInv, Request
  PROVE  Kept /\ NoLate(rc, rc', cancelled)
<1>1. Whole(rc, alive, server, waiting, cancelled, answer, ringing, heard) /\ config \in Config
  BY DEF IInv
<1>2. /\ alive = "none" /\ alive' = "live" /\ server' = TRUE
      /\ cancelled' = cancelled /\ answer' = answer /\ ringing' = ringing /\ heard' = heard
  BY DEF Request, stackVars
<1>3. /\ Mid(rc, answer, ringing, heard, cancelled, waiting) /\ Tracked(rc)
      /\ ringing \subseteq Target /\ answer \in [Target -> {0} \cup Code] /\ heard \subseteq Code
      /\ cancelled \in BOOLEAN /\ Untouched(rc, answer, ringing, heard)
      /\ ~waiting /\ waiting \in BOOLEAN /\ ~cancelled /\ ~rc.mHaveSentFinalResponse
  BY <1>1, <1>2 DEF Whole, Typed, Mid
<1>4. \A sv \in BOOLEAN : sv => Counted(rc, "live", sv)
  BY <1>1, <1>2 DEF Whole, Counted
<1>5. NoLate(rc, rc', cancelled)
  BY <1>3 DEF NoLate
<1>6. CASE AsyncAuth /\ waiting' = TRUE /\ UNCHANGED rc
  <2>1. Mid(rc, answer, ringing, heard, cancelled, waiting')
    BY <1>3 DEF Mid, Ended
  <2>2. Grows(rc, rc)
    BY DEF Grows
  <2>3. waiting' \in BOOLEAN /\ waiting' /\ server' \in BOOLEAN /\ server' /\ Counted(rc, "live", server')
    BY <1>2, <1>4, <1>6
  <2>4. Whole(rc, "live", server', waiting', cancelled, answer, ringing, heard)
    BY <1>3, <1>6, <2>1, <2>2, <2>3, GrowsWhole
  <2> QED BY <1>2, <1>5, <1>6, <2>4 DEF Kept
<1>7. ASSUME waiting' = FALSE, Mid(rc', answer, ringing, heard, cancelled, waiting), Grows(rc, rc'),
             Done(rc', heard)
      PROVE  Kept
  <2>1. waiting' = waiting
    BY <1>3, <1>7
  <2>3. waiting \in BOOLEAN /\ server' \in BOOLEAN /\ server' /\ Counted(rc, "live", server')
    BY <1>2, <1>3, <1>4
  <2>4. Whole(rc', "live", server', waiting, cancelled, answer, ringing, heard)
    BY <1>3, <1>7, <2>3, GrowsWhole
  <2> QED BY <1>2, <2>1, <2>4 DEF Kept
<1>8. ASSUME NEW c \in AuthCodes, waiting' = FALSE, rc' = afterRequestChain(sendResponse(rc, c))
      PROVE  Kept
  <2> DEFINE s == sendResponse(rc, c)
  <2>1. c \in 300..699
    BY ConfigAssumption
  <2>2. \A t \in Target : rc.where[t] = "none" /\ rc.status[t] = "none"
    BY <1>3 DEF Untouched, Tracked
  <2>3. MaySend(rc, answer, ringing, heard, c)
    BY <1>3, <2>1, <2>2 DEF MaySend, Mid, Parts, Untouched
  <2>4. Mid(s, answer, ringing, heard, cancelled, waiting) /\ Sends(rc, s, c)
    BY <2>3, SendsMid
  <2> HIDE DEF s
  <2>5. s.mHaveSentFinalResponse
    BY <2>1, <2>4 DEF Sends
  <2>6. rc' = s
    BY <1>8, <2>5 DEF afterRequestChain, s
  <2>7. Grows(rc, s) /\ Done(s, heard)
    BY <2>4, <2>5 DEF Grows, Sends, SameBranches, Done
  <2> QED BY <1>7, <1>8, <2>4, <2>6, <2>7
<1>9. ASSUME NEW b \in Batches, waiting' = FALSE, rc' = afterRequestChain(addBatch(rc, b))
      PROVE  Kept
  <2>1. b \in Seq(Seq(Target))
    BY <1>1, ConfigIs
  <2>2. /\ Mid(afterRequestChain(addBatch(rc, b)), answer, ringing, heard, cancelled, waiting)
        /\ Grows(rc, afterRequestChain(addBatch(rc, b)))
        /\ Done(afterRequestChain(addBatch(rc, b)), heard)
    BY <1>1, <1>3, <2>1, FirstTargets
  <2> QED BY <1>7, <1>9, <2>2
<1> QED BY <1>5, <1>6, <1>8, <1>9 DEF Request

LEMMA UserInfoKeeps ==
  ASSUME IInv, UserInfo
  PROVE  Kept /\ NoLate(rc, rc', cancelled)
<1>1. Whole(rc, alive, server, waiting, cancelled, answer, ringing, heard) /\ config \in Config
  BY DEF IInv
<1>2. /\ waiting /\ waiting' = FALSE /\ alive' = alive /\ server' = server
      /\ cancelled' = cancelled /\ answer' = answer /\ ringing' = ringing /\ heard' = heard
  BY DEF UserInfo, stackVars
<1>3. /\ Mid(rc, answer, ringing, heard, cancelled, waiting) /\ Tracked(rc)
      /\ ringing \subseteq Target /\ answer \in [Target -> {0} \cup Code] /\ heard \subseteq Code
      /\ cancelled \in BOOLEAN /\ Untouched(rc, answer, ringing, heard) /\ server \in BOOLEAN
      /\ alive # "none" /\ AsyncAuth
  BY <1>1, <1>2 DEF Whole, Typed, Mid
<1>33. cancelled => rc.mHaveSentFinalResponse
  BY <1>2, <1>3 DEF Mid, Ended
<1>34. \A s : NoLate(rc, s, cancelled) <=> (rc.mHaveSentFinalResponse => s.clients \subseteq rc.clients)
  BY <1>33 DEF NoLate
<1>4. server => alive = "live" /\ Counted(rc, "live", server)
  BY <1>1, <1>3 DEF Whole, Counted, Typed
<1>5. CASE ~server /\ UNCHANGED rc
  <2>1. rc.mHaveSentFinalResponse
    BY <1>1, <1>3, <1>5 DEF Whole, Typed
  <2>2. Mid(rc, answer, ringing, heard, cancelled, waiting')
    BY <1>3, <2>1 DEF Mid, Ended
  <2>3. Quiet(rc, alive, waiting', heard)
    BY <2>1 DEF Quiet
  <2>4. Typed(rc, alive, server, waiting', cancelled, answer, ringing, heard)
    BY <1>1, <1>2, <1>3 DEF Whole, Typed
  <2>5. Whole(rc, alive, server, waiting', cancelled, answer, ringing, heard)
    BY <1>1, <2>2, <2>3, <2>4 DEF Whole
  <2> QED BY <1>2, <1>5, <1>34, <2>5 DEF Kept
<1>6. ASSUME server, Mid(rc', answer, ringing, heard, cancelled, waiting'), Grows(rc, rc'),
             Done(rc', heard)
      PROVE  Kept
  <2>3. waiting' \in BOOLEAN /\ ~waiting' /\ server \in BOOLEAN /\ Counted(rc, "live", server)
    BY <1>2, <1>3, <1>4, <1>6
  <2>4. Whole(rc', "live", server, waiting', cancelled, answer, ringing, heard)
    BY <1>3, <1>6, <2>3, GrowsWhole
  <2> QED BY <1>2, <1>4, <1>6, <2>4 DEF Kept
<1>8. ASSUME server, NEW c \in AuthCodes, rc' = afterAsyncChain(sendResponse(rc, c))
      PROVE  Kept /\ NoLate(rc, rc', cancelled)
  <2> DEFINE s == sendResponse(rc, c)
  <2>1. c \in 300..699
    BY ConfigAssumption
  <2>2. \A t \in Target : rc.where[t] = "none" /\ rc.status[t] = "none"
    BY <1>3 DEF Untouched, Tracked
  <2>3. MaySend(rc, answer, ringing, heard, c)
    BY <1>3, <2>1, <2>2 DEF MaySend, Mid, Parts, Untouched
  <2>4. Mid(s, answer, ringing, heard, cancelled, waiting') /\ Sends(rc, s, c)
    BY <2>3, SendsMid
  <2> HIDE DEF s
  <2>5. s.mHaveSentFinalResponse
    BY <2>1, <2>4 DEF Sends
  <2>6. rc' = s
    BY <1>8, <2>5 DEF afterAsyncChain, s
  <2>7. Grows(rc, s) /\ Done(s, heard) /\ s.clients = rc.clients
    BY <2>4, <2>5 DEF Grows, Sends, SameBranches, Done
  <2> QED BY <1>6, <1>8, <1>34, <2>4, <2>6, <2>7
<1>9. ASSUME server, NEW b \in Batches, rc' = afterAsyncChain(addBatch(rc, b))
      PROVE  Kept /\ NoLate(rc, rc', cancelled)
  <2>1. b \in Seq(Seq(Target))
    BY <1>1, ConfigIs
  <2>2. CASE ~rc.mHaveSentFinalResponse
    <3>1. Mid(rc, answer, ringing, heard, cancelled, waiting') /\ ~cancelled
      BY <1>3, <1>33, <2>2 DEF Mid, Ended
    <3>2. /\ Mid(afterRequestChain(addBatch(rc, b)), answer, ringing, heard, cancelled, waiting')
          /\ Grows(rc, afterRequestChain(addBatch(rc, b)))
          /\ Done(afterRequestChain(addBatch(rc, b)), heard)
          /\ afterAsyncChain(addBatch(rc, b)) = afterRequestChain(addBatch(rc, b))
      BY <1>1, <1>3, <2>1, <3>1, FirstTargets
    <3> QED BY <1>6, <1>9, <1>34, <2>2, <3>2
  <2>3. CASE rc.mHaveSentFinalResponse
    <3>1. rc' = rc
      BY <1>9, <2>3 DEF addBatch, afterAsyncChain
    <3>2. Mid(rc, answer, ringing, heard, cancelled, waiting')
      BY <1>3, <2>3 DEF Mid, Ended
    <3>3. Grows(rc, rc) /\ Done(rc, heard)
      BY <2>3 DEF Grows, Done
    <3> QED BY <1>6, <1>9, <1>34, <3>1, <3>2, <3>3
  <2> QED BY <2>2, <2>3
<1> QED BY <1>5, <1>8, <1>9 DEF UserInfo

LEMMA CancelKeeps ==
  ASSUME IInv, Cancel
  PROVE  Kept /\ NoLate(rc, rc', cancelled)
<1> DEFINE s == cancelAllClientTransactions(rc)
<1>1. Whole(rc, alive, server, waiting, cancelled, answer, ringing, heard) /\ config \in Config
  BY DEF IInv
<1>2. /\ server /\ ~cancelled /\ cancelled' = TRUE
      /\ rc' = afterRequestChain(processCancel(rc))
      /\ alive' = alive /\ server' = server /\ waiting' = waiting
      /\ answer' = answer /\ ringing' = ringing /\ heard' = heard
  BY DEF Cancel, stackVars
<1>3. /\ Mid(rc, answer, ringing, heard, cancelled, waiting) /\ Tracked(rc)
      /\ ringing \subseteq Target /\ answer \in [Target -> {0} \cup Code] /\ heard \subseteq Code
      /\ server \in BOOLEAN /\ waiting \in BOOLEAN /\ cancelled' \in BOOLEAN
      /\ waiting => AsyncAuth /\ Untouched(rc, answer, ringing, heard)
  BY <1>1, <1>2 DEF Whole, Typed, Mid
<1>4. alive = "live" /\ Counted(rc, "live", server)
  BY <1>1, <1>2 DEF Whole, Counted, Typed
<1>5. Quiet(rc, "live", waiting, heard)
  BY <1>1, <1>4 DEF Whole
<1>6. ASSUME NEW u, rc' = u, Mid(u, answer, ringing, heard, cancelled', waiting),
             Grows(rc, u), waiting \/ Done(u, heard),
             waiting => Untouched(u, answer, ringing, heard)
      PROVE  Kept
  <2>1. Whole(u, "live", server, waiting, cancelled', answer, ringing, heard)
    BY <1>2, <1>3, <1>4, <1>6, GrowsWhole
  <2> QED BY <1>2, <1>4, <1>6, <2>1 DEF Kept
<1>7. CASE rc.mHaveSentFinalResponse
  <2>1. rc' = rc
    BY <1>2, <1>7 DEF processCancel, afterRequestChain
  <2>2. Mid(rc, answer, ringing, heard, cancelled', waiting)
    BY <1>3, <1>7 DEF Mid, Ended
  <2>3. Grows(rc, rc) /\ Done(rc, heard)
    BY <1>7 DEF Grows, Done
  <2>4. Kept
    BY <1>3, <1>6, <2>1, <2>2, <2>3
  <2> QED BY <2>1, <2>4 DEF NoLate
<1>8. CASE ~rc.mHaveSentFinalResponse
  <2>0. Closed(rc, s, rc.method = "INVITE")
    BY <1>3, CancelAllCloses
  <2>00. processCancel(rc) = IF hasActiveTransactions(s) THEN s ELSE sendResponse(s, 487)
    BY <1>8 DEF processCancel
  <2> HIDE DEF s
  <2> DEFINE stop == rc.method = "INVITE"
  <2>1. Closed(rc, s, stop)
    BY <2>0
  <2> HIDE DEF stop
  <2>2. Mid(s, answer, ringing, heard, cancelled, waiting)
    BY ONLY <1>3, <2>1, ClosedMid
  <2>3. /\ Same(rc, s) /\ Tracked(s)
        /\ \A t \in Target : /\ s.where[t] # "Candidate"
                             /\ rc.where[t] # "Candidate" => s.where[t] = rc.where[t]
                             /\ s.where[t] = "Active" <=> rc.where[t] = "Active"
        /\ rc.method = "INVITE" => \A t \in Target : s.status[t] # "Started"
    BY <2>0 DEF Closed
  <2>4. Follows(rc, s)
    BY <2>3 DEF Follows, Grows, Same
  <2>5. s.mHaveSentFinalResponse = FALSE
    BY <1>8, <2>3 DEF Same
  <2>6. CASE hasActiveTransactions(s)
    <3>1. PICK t \in Target : s.where[t] = "Active"
      BY <2>6 DEF hasActiveTransactions, In
    <3>2. ~waiting
      <4>1. rc.where[t] = "Active"
        BY <2>3, <3>1
      <4> QED BY <1>3, <4>1 DEF Untouched
    <3>3. rc' = afterResponse(s)
      BY <1>2, <2>00, <2>5, <2>6 DEF afterRequestChain, hasTargets, hasActiveTransactions, afterResponse
    <3>4. Due(s, heard)
      BY <3>1 DEF Due
    <3>5. Mid(s, answer, ringing, heard, cancelled', waiting)
      BY <2>2, <2>3, <3>2 DEF Mid, Ended
    <3> DEFINE u == afterResponse(s)
    <3>6. Mid(u, answer, ringing, heard, cancelled', waiting) /\ Done(u, heard) /\ Follows(s, u)
      BY <1>1, <3>4, <3>5, ChainKeeps
    <3> HIDE DEF u
    <3>7. Follows(rc, u) /\ u.clients \subseteq Target
      BY <2>2, <2>4, <3>6, FollowsTrans, ClientsAreTargets DEF Mid
    <3>8. Kept
      BY <1>6, <3>2, <3>3, <3>6, <3>7 DEF Follows, u
    <3>9. NoLate(rc, u, cancelled)
      BY <1>3, <3>7, FollowsNoLate
    <3> QED BY <3>3, <3>8, <3>9 DEF u
  <2>7. CASE ~hasActiveTransactions(s)
    <3> DEFINE u == sendResponse(s, 487)
    <3>1. \A t \in Target : rc.where[t] # "Active"
      BY <2>3, <2>7 DEF hasActiveTransactions, In
    <3>2. heard = {}
      <4>1. CASE waiting
        BY <1>3, <4>1 DEF Untouched
      <4>2. CASE ~waiting
        BY <1>5, <1>8, <3>1, <4>2 DEF Quiet
      <4> QED BY <4>1, <4>2
    <3>3. MaySend(s, answer, ringing, heard, 487)
      BY <2>2, <2>3, <2>5, <3>2 DEF MaySend, Mid, Parts, Same
    <3>4. Mid(u, answer, ringing, heard, cancelled', waiting) /\ Sends(s, u, 487)
      BY <3>3, SendsMid
    <3> HIDE DEF u
    <3>5. u.mHaveSentFinalResponse
      BY <3>4 DEF Sends
    <3>6. rc' = u
      BY <1>2, <2>00, <2>7, <3>5 DEF afterRequestChain, u
    <3>7. Grows(rc, u) /\ Done(u, heard) /\ u.clients = rc.clients
      BY <2>3, <3>4, <3>5 DEF Grows, Sends, SameBranches, Done, Same
    <3>8. waiting => Untouched(u, answer, ringing, heard)
      BY <1>3, <2>3, <3>4 DEF Untouched, Sends, SameBranches, Same
    <3>9. Kept
      BY <1>6, <3>4, <3>6, <3>7, <3>8
    <3> QED BY <3>6, <3>7, <3>9 DEF NoLate
  <2> QED BY <2>6, <2>7
<1> QED BY <1>7, <1>8

\* The lists that a redirection adds, one target each.
LEMMA RedirectLists ==
  ASSUME NEW N, N \subseteq Target
  PROVE  LET b == [i \in 1..Cardinality(N) |-> <<SetToSeq(N)[i]>>]
         IN  b \in Seq(Seq(Target)) /\ targetsOf(b) \subseteq N
<1> DEFINE f == SetToSeq(N)
<1> DEFINE n == Cardinality(N)
<1> DEFINE b == [i \in 1..n |-> <<f[i]>>]
<1>0. IsFiniteSet(N) /\ n \in Nat
  BY ConfigAssumption, FS_Subset, FS_CardinalityType
<1>1. f \in Seq(N) /\ Len(f) = n
  BY <1>0, SetToSeqLists
<1> HIDE DEF f, n
<1>2. \A i \in 1..n : f[i] \in N
  BY <1>0, <1>1
<1>3. \A i \in 1..n : <<f[i]>> \in Seq(Target) /\ ToSet(<<f[i]>>) \subseteq N
  <2> SUFFICES ASSUME NEW i \in 1..n
               PROVE  <<f[i]>> \in Seq(Target) /\ ToSet(<<f[i]>>) \subseteq N
    OBVIOUS
  <2>1. f[i] \in N /\ f[i] \in Target
    BY <1>2
  <2> DEFINE x == f[i]
  <2> HIDE DEF x
  <2>2. x \in N /\ x \in Target => <<x>> \in Seq(Target) /\ ToSet(<<x>>) \subseteq N
    BY DEF ToSet
  <2> QED BY <2>1, <2>2 DEF x
<1>4. b \in Seq(Seq(Target))
  <2> DEFINE T == Seq(Target)
  <2>1. b \in [1..n -> T]
    BY <1>3
  <2> HIDE DEF T, b
  <2>2. b \in Seq(T)
    BY <1>0, <2>1
  <2> QED BY <2>2 DEF T
<1>5. targetsOf(b) \subseteq N
  <2>1. \A q \in ToSet(b) : ToSet(q) \subseteq N
    <3> SUFFICES ASSUME NEW q \in ToSet(b)
                 PROVE  ToSet(q) \subseteq N
      OBVIOUS
    <3>1. DOMAIN b = 1..n /\ \A i \in 1..n : b[i] = <<f[i]>>
      OBVIOUS
    <3> HIDE DEF b
    <3>2. PICK i \in 1..n : q = b[i]
      BY <3>1 DEF ToSet
    <3> QED BY <1>3, <3>1, <3>2
  <2> QED BY <2>1 DEF targetsOf
<1> QED BY <1>4, <1>5 DEF f, n

LEMMA RedirectKeeps ==
  ASSUME IInv, NEW t \in Target, NEW N \in SUBSET Spare, Redirect(t, N)
  PROVE  Kept /\ NoLate(rc, rc', cancelled)
<1> DEFINE b == [i \in 1..Cardinality(N) |-> <<SetToSeq(N)[i]>>]
<1> DEFINE r == addBatch(rc, b)
<1> DEFINE s == terminateClientTransaction(r, t)
<1> DEFINE u == afterResponse(s)
<1>1. Whole(rc, alive, server, waiting, cancelled, answer, ringing, heard) /\ config \in Config
  BY DEF IInv
<1>2. /\ mRecursiveRedirect /\ t \in rc.clients /\ answer[t] = 0
      /\ \A n \in N : rc.where[n] = "none" /\ n \notin rc.clients /\ answer[n] = 0
      /\ answer' = answers(answer, t, 302) /\ rc' = u
      /\ alive' = alive /\ server' = server /\ waiting' = waiting /\ cancelled' = cancelled
      /\ ringing' = ringing /\ heard' = heard
  BY DEF Redirect, Owed, answers
<1>3. /\ Mid(rc, answer, ringing, heard, cancelled, waiting) /\ Tracked(rc)
      /\ ringing \subseteq Target /\ answer \in [Target -> {0} \cup Code] /\ heard \subseteq Code
      /\ cancelled \in BOOLEAN
  BY <1>1 DEF Whole, Typed, Mid
<1> HIDE DEF u, s, r, b
<1>4. alive = "live" /\ ~waiting /\ rc.where[t] = "Active"
  <2>1. t \in rc.clients /\ answer[t] = 0
    BY <1>2
  <2> QED BY ONLY <1>1, <2>1, LiveOwed
<1>5. b \in Seq(Seq(Target)) /\ New(rc, answer, targetsOf(b))
  <2>1. N \subseteq Target
    BY <1>1, ConfigIs
  <2>2. b \in Seq(Seq(Target)) /\ targetsOf(b) \subseteq N
    BY <2>1, RedirectLists DEF b
  <2> QED BY <1>2, <2>1, <2>2 DEF New
<1>6. Tracked(r) /\ Adds(rc, r, targetsOf(b))
  BY <1>3, <1>5, AddBatchAdds DEF r
<1>7. Mid(r, answer, ringing, heard, cancelled, waiting) /\ Grows(rc, r)
  BY <1>2, <1>3, <1>5, <1>6, AddMid
<1>8. r.where[t] = "Active"
  <2>1. t \notin targetsOf(b)
    BY <1>4, <1>5 DEF New
  <2> QED BY <1>4, <1>6, <2>1 DEF Adds
<1>9. Parts(s, answer', ringing) /\ Moved(r, s, {t}, "Terminated", "Terminated")
  <2>1. Parts(r, answer, ringing)
    BY <1>7 DEF Mid, Parts
  <2>2. 302 # 0 /\ answer \in [Target -> {0} \cup Code]
    BY <1>3
  <2> QED BY <1>2, <1>8, <2>1, <2>2, BranchParts DEF s
<1>10. /\ Stopped(s) /\ Ended(s, cancelled, waiting) /\ Narrows(r, s) /\ Same(r, s)
       /\ Upstream(s) /\ Weighed(s, heard) /\ Forwarded(s, heard)
  BY <1>7, <1>8, <1>9, BranchRest
<1>11. Answered(s, answer')
  <2>1. 302 \notin 200..299 /\ Answered(r, answer)
    BY <1>7 DEF Mid
  <2> QED BY <1>2, <1>3, <1>10, <2>1, BranchAnswered
<1>12. Mid(s, answer', ringing, heard, cancelled, waiting)
  BY <1>9, <1>10, <1>11 DEF Mid, Parts
<1>13. Due(s, heard)
  BY <1>2 DEF Due, AllHeard
<1>14. /\ Mid(u, answer', ringing, heard, cancelled, waiting) /\ Done(u, heard)
       /\ Follows(s, u)
  BY <1>1, <1>12, <1>13, ChainKeeps DEF u
<1>15. Follows(r, u)
  <2>1. Follows(r, s)
    BY <1>10, NarrowsFollows
  <2> QED BY <1>12, <1>14, <2>1, FollowsTrans, ClientsAreTargets DEF Mid
<1>16. Grows(rc, u)
  BY <1>7, <1>15 DEF Follows, Grows
<1>17. NoLate(rc, u, cancelled)
  <2>1. rc.mHaveSentFinalResponse => r = rc
    BY <1>6 DEF Adds
  <2> QED BY <1>2, <1>15, <2>1 DEF NoLate, Follows
<1>18. Whole(u, "live", server, waiting, cancelled, answer', ringing, heard)
  <2>1. /\ server \in BOOLEAN /\ waiting \in BOOLEAN /\ Counted(rc, "live", server)
        /\ ~server => rc.mHaveSentFinalResponse
    BY <1>1, <1>4 DEF Whole, Typed
  <2>2. answer' \in [Target -> {0} \cup Code]
    BY <1>2, <1>3 DEF answers, Code
  <2> QED BY <1>3, <1>4, <1>14, <1>16, <2>1, <2>2, GrowsWhole
<1> QED BY <1>2, <1>4, <1>17, <1>18 DEF Kept
-----------------------------------------------------------------------------
(* The invariant is inductive. *)
LEMMA InitWhole == Init => IInv
<1> SUFFICES ASSUME Init
             PROVE  IInv
  OBVIOUS
<1> DEFINE w == [t \in Target |-> "none"]
<1>0. w \in Wheres /\ w \in Statuses /\ \A t \in Target : w[t] = "none"
  BY DEF Wheres, Statuses, Map, Status
<1> HIDE DEF w
<1>1. PICK m \in Methods : rc = NewContext(m)
  BY DEF Init
<1>2. /\ rc.method = m /\ ~rc.mHaveSentFinalResponse
      /\ rc.where = w /\ rc.status = w /\ rc.queues = <<>> /\ rc.mTargetList = {}
      /\ rc.best = None /\ rc.mBestPriority = 50 /\ rc.mTransactionCount = 1 /\ rc.clients = {}
      /\ rc.mTCSerial = 0 /\ rc.timers = {} /\ rc.forks = {} /\ rc.sent = <<>>
  BY <1>1 DEF NewContext, w
<1>3. rc \in Context
  <2>1. <<>> \in Queues /\ {} \in Contacts /\ {} \in Forks /\ <<>> \in Sents /\ None \in Code
    BY DEF Queues, Contacts, Forks, Sents, Code
  <2>2. m \in {"INVITE", "OTHER"}
    BY ConfigAssumption
  <2>3. rc = [method |-> m, mHaveSentFinalResponse |-> FALSE,
              where |-> w, status |-> w, queues |-> <<>>, mTargetList |-> {}, best |-> None,
              mBestPriority |-> 50, mTransactionCount |-> 1, clients |-> {}, mTCSerial |-> 0,
              mInitialTimerCSet |-> FALSE, timers |-> {}, forks |-> {}, sent |-> <<>>]
    BY <1>1 DEF NewContext, w
  <2> QED BY <1>0, <2>1, <2>2, <2>3 DEF Context
<1>4. /\ config \in Config /\ alive = "none" /\ server = FALSE /\ waiting = FALSE /\ cancelled = FALSE
      /\ ringing = {} /\ heard = {} /\ answer = [t \in Target |-> 0]
  BY DEF Init
<1>5. answer \in [Target -> {0} \cup Code] /\ \A t \in Target : answer[t] = 0
  BY <1>4
<1>6. Untouched(rc, answer, ringing, heard)
  BY <1>0, <1>2, <1>4, <1>5 DEF Untouched
<1>7. Typed(rc, alive, server, waiting, cancelled, answer, ringing, heard)
  BY <1>2, <1>4, <1>5, <1>6 DEF Typed
<1>8. Tracked(rc)
  BY <1>0, <1>2, <1>3 DEF Tracked
<1>9. Counted(rc, alive, server)
  <2>1. Cardinality(rc.clients) = 0
    BY <1>2, FS_EmptySet
  <2> QED BY <1>2, <1>4, <2>1 DEF Counted
<1>10. Open(rc, answer, ringing) /\ Armed(rc, ringing)
  BY <1>0, <1>2, <1>4, <1>5 DEF Open, Armed
<1>11. Stopped(rc) /\ Answered(rc, answer)
  BY <1>2 DEF Stopped, Answered
<1>12. Upstream(rc)
  <2>1. Len(rc.sent) = 0
    BY <1>2
  <2> QED BY <1>2, <2>1 DEF Upstream, None
<1>13. Weighed(rc, heard) /\ Forwarded(rc, heard) /\ Ended(rc, cancelled, waiting)
  BY <1>2, <1>4 DEF Weighed, Forwarded, Ended
<1>14. Quiet(rc, alive, waiting, heard)
  BY <1>4 DEF Quiet
<1> QED BY <1>4, <1>7, <1>8, <1>9, <1>10, <1>11, <1>12, <1>13, <1>14 DEF IInv, Whole, Mid

LEMMA StepKeeps ==
  ASSUME IInv, Next
  PROVE  Kept /\ NoLate(rc, rc', cancelled)
<1>1. CASE Request
  BY <1>1, RequestKeeps
<1>2. CASE UserInfo
  BY <1>2, UserInfoKeeps
<1>3. CASE Cancel
  BY <1>3, CancelKeeps
<1>4. CASE ServerTerminated
  BY <1>4, ServerTerminatedKeeps
<1>5. ASSUME NEW t \in Target, NEW code \in {100, 180}, Provisional(t, code)
      PROVE  Kept /\ NoLate(rc, rc', cancelled)
  BY <1>5, ProvisionalKeeps
<1>6. ASSUME NEW t \in Target, NEW code \in Finals, NEW via \in {TRUE, ~ViaLess}, Final(t, code, via)
      PROVE  Kept /\ NoLate(rc, rc', cancelled)
  BY <1>6, FinalKeeps
<1>7. ASSUME NEW t \in Target, NEW N \in SUBSET Spare, Redirect(t, N)
      PROVE  Kept /\ NoLate(rc, rc', cancelled)
  BY <1>7, RedirectKeeps
<1>8. ASSUME NEW t \in Target, Late2xx(t, 200)
      PROVE  Kept /\ NoLate(rc, rc', cancelled)
  BY <1>8, Late2xxKeeps
<1>9. ASSUME NEW t \in Target, ClientTerminated(t)
      PROVE  Kept /\ NoLate(rc, rc', cancelled)
  BY <1>9, ClientTerminatedKeeps
<1>10. ASSUME NEW n \in rc.timers, FireTimerC(n)
       PROVE  Kept /\ NoLate(rc, rc', cancelled)
  BY <1>10, FireTimerCKeeps
<1>11. ASSUME NEW fc \in rc.forks, FireForkControl(fc)
       PROVE  Kept /\ NoLate(rc, rc', cancelled)
  BY <1>11, FireForkControlKeeps
<1> QED BY <1>1, <1>2, <1>3, <1>4, <1>5, <1>6, <1>7, <1>8, <1>9, <1>10, <1>11 DEF Next

\* The options in use never change.
LEMMA ConfigStays ==
  ASSUME Next
  PROVE  config' = config
BY DEF Next, Request, UserInfo, Cancel, ServerTerminated, Provisional, Final, Redirect, Late2xx,
       ClientTerminated, FireTimerC, FireForkControl

\* So that the invariant of the next state is the one in the options of this one.
LEMMA WholeNext ==
  ASSUME config' = config, config \in Config, Kept
  PROVE  IInv'
<1> DEFINE W == Whole(rc, alive, server, waiting, cancelled, answer, ringing, heard)
<1>1. /\ Typed(rc', alive', server', waiting', cancelled', answer', ringing', heard')
      /\ Mid(rc', answer', ringing', heard', cancelled', waiting')
      /\ Counted(rc', alive', server')
      /\ Quiet(rc', alive', waiting', heard')
  BY DEF Kept, Whole
<1>2. Typed(rc, alive, server, waiting, cancelled, answer, ringing, heard)'
  BY <1>1 DEF Typed, Untouched, AsyncAuth
<1>3. Counted(rc, alive, server)'
  BY <1>1 DEF Counted
<1>4. Quiet(rc, alive, waiting, heard)'
  BY <1>1 DEF Quiet, AllHeard, mRecursiveRedirect, ViaLess
<1>5. Mid(rc, answer, ringing, heard, cancelled, waiting)'
  <2>1. Tracked(rc)' /\ Open(rc, answer, ringing)'
    BY <1>1 DEF Mid, Tracked, Open
  <2>2. Stopped(rc)' /\ Answered(rc, answer)'
    BY <1>1 DEF Mid, Stopped, Answered, NoStray, Stray2xx, ViaLess
  <2>3. Armed(rc, ringing)'
    BY <1>1 DEF Mid, Armed, NoStray, Stray2xx, ViaLess, TimerC
  <2>4. Upstream(rc)'
    BY <1>1 DEF Mid, Upstream, AllHeard, mRecursiveRedirect, ViaLess, AsyncAuth, Finals
  <2>5. Weighed(rc, heard)' /\ Forwarded(rc, heard)'
    BY <1>1 DEF Mid, Weighed, Forwarded, Stands
  <2>6. Ended(rc, cancelled, waiting)'
    BY <1>1 DEF Mid, Ended, mRecursiveRedirect
  <2> QED BY <2>1, <2>2, <2>3, <2>4, <2>5, <2>6 DEF Mid
<1> QED BY <1>2, <1>3, <1>4, <1>5 DEF IInv, Whole

\* IInv is kept by every handler of the proxy thread that Next stands for.
THEOREM Invariance == Spec => []IInv
<1>1. IInv /\ [Next]_vars => IInv'
  <2> SUFFICES ASSUME IInv, [Next]_vars
               PROVE  IInv'
    OBVIOUS
  <2>1. CASE Next
    <3>1. Kept /\ config' = config
      BY <2>1, StepKeeps, ConfigStays
    <3>2. config \in Config
      BY DEF IInv
    <3> QED BY <3>1, <3>2, WholeNext
  <2>2. CASE UNCHANGED vars
    <3>1. config' = config /\ config \in Config
      BY <2>2 DEF vars, IInv
    <3>2. Kept
      BY <2>2 DEF vars, IInv, Kept
    <3> QED BY <3>1, <3>2, WholeNext
  <2> QED BY <2>1, <2>2
<1> QED BY InitWhole, <1>1, PTL DEF Spec

\* Every field of RequestContext and ResponseContext keeps its type, also
\* mTransactionCount, which never exceeds the targets and the server transaction.
THEOREM TypesKept == Spec => []TypeOK
<1>1. IInv => TypeOK
  <2> SUFFICES ASSUME IInv
               PROVE  TypeOK
    OBVIOUS
  <2>1. Whole(rc, alive, server, waiting, cancelled, answer, ringing, heard)
    BY DEF IInv
  <2>2. Typed(rc, alive, server, waiting, cancelled, answer, ringing, heard)
        /\ Tracked(rc) /\ rc \in Context /\ Counted(rc, alive, server)
    BY <2>1 DEF Whole, Mid, Tracked
  <2>3. /\ rc.method \in {"INVITE", "OTHER"} /\ rc.mHaveSentFinalResponse \in BOOLEAN
        /\ rc.where \in [Target -> Map] /\ rc.status \in [Target -> Status]
        /\ rc.best \in Code /\ rc.mBestPriority \in 0..50 /\ rc.clients \subseteq Target
        /\ rc.mTransactionCount \in Int /\ rc.queues \in Seq(Seq(Target))
        /\ rc.forks \in SUBSET [begin : Seq(Target), cancel : Seq(Target)] /\ rc.sent \in Seq(Code)
    BY <2>2 DEF Context, Wheres, Statuses, Queues, Forks, Sents
  <2>4. rc.mTransactionCount \in 0..(1 + Cardinality(Target))
    <3>1. /\ Cardinality(rc.clients) \in Nat /\ Cardinality(Target) \in Nat
          /\ Cardinality(rc.clients) <= Cardinality(Target)
      BY <2>3, ConfigAssumption, FS_Subset, FS_CardinalityType
    <3> QED BY <2>2, <2>3, <3>1 DEF Counted
  <2>5. \A i \in DOMAIN rc.queues : ToSet(rc.queues[i]) \subseteq Target
    <3> DEFINE T == Seq(Target)
    <3>1. rc.queues \in Seq(T)
      BY <2>3
    <3> HIDE DEF T
    <3>2. \A i \in DOMAIN rc.queues : rc.queues[i] \in T
      BY <3>1
    <3>3. \A q \in Seq(Target) : ToSet(q) \subseteq Target
      BY DEF ToSet
    <3> QED BY <3>2, <3>3 DEF T
  <2>6. \A fc \in rc.forks : ToSet(fc.begin) \cup ToSet(fc.cancel) \subseteq Target
    <3>1. \A fc \in rc.forks : fc.begin \in Seq(Target) /\ fc.cancel \in Seq(Target)
      BY <2>3
    <3> QED BY <3>1 DEF ToSet
  <2>7. \A i \in DOMAIN rc.sent : rc.sent[i] \in Code
    BY <2>3
  <2>8. rc.timers \subseteq 0..rc.mTCSerial /\ config \in Config
    BY <2>2 DEF Tracked, IInv
  <2> QED BY <2>2, <2>3, <2>4, <2>5, <2>6, <2>7, <2>8 DEF TypeOK, Typed
<1> QED BY Invariance, <1>1, PTL

\* Nothing loses track of a branch: ResponseContext's maps, the states of the
\* targets, mTransactionCount and the client transactions always agree, and a
\* branch that rings has timer C pending.
THEOREM BranchesTracked ==
  Spec => [](StatusMatchesMap /\ CountMatchesMaps /\ ActiveIsOwed /\ TimerCArmed)
<1>1. IInv => StatusMatchesMap /\ CountMatchesMaps /\ ActiveIsOwed /\ TimerCArmed
  <2> SUFFICES ASSUME IInv
               PROVE  StatusMatchesMap /\ CountMatchesMaps /\ ActiveIsOwed /\ TimerCArmed
    OBVIOUS
  <2>1. Whole(rc, alive, server, waiting, cancelled, answer, ringing, heard)
    BY DEF IInv
  <2>2. Typed(rc, alive, server, waiting, cancelled, answer, ringing, heard)
        /\ Tracked(rc) /\ Open(rc, answer, ringing) /\ Armed(rc, ringing) /\ Counted(rc, alive, server)
    BY <2>1 DEF Whole, Mid
  <2>3. StatusMatchesMap
    <3>1. rc.where \in [Target -> Map] /\ rc.status \in [Target -> Status]
      BY <2>2 DEF Tracked, Context, Wheres, Statuses
    <3> SUFFICES ASSUME NEW t \in Target
                 PROVE  CASE rc.where[t] = "none"       -> rc.status[t] = "none"
                          [] rc.where[t] = "Candidate"  -> rc.status[t] = "Candidate"
                          [] rc.where[t] = "Active"     -> rc.status[t] \in {"Started", "Cancelled"}
                          [] rc.where[t] = "Terminated" -> rc.status[t] = "Terminated"
      BY DEF StatusMatchesMap
    <3>2. rc.where[t] \in Map /\ rc.status[t] \in Status
      BY <3>1
    <3>3. /\ rc.where[t] = "none" <=> rc.status[t] = "none"
          /\ rc.where[t] = "Candidate" <=> rc.status[t] = "Candidate"
          /\ rc.where[t] = "Active" <=> rc.status[t] \in {"Started", "Cancelled"}
      BY <2>2 DEF Tracked
    <3> QED BY <3>2, <3>3 DEF Map, Status
  <2>4. CountMatchesMaps
    BY <2>2 DEF Counted, CountMatchesMaps, Typed
  <2>5. ActiveIsOwed
    BY <2>2 DEF Open, ActiveIsOwed, In, Owed
  <2>6. TimerCArmed
    BY <2>2 DEF Armed, TimerCArmed
  <2> QED BY <2>3, <2>4, <2>5, <2>6
<1> QED BY Invariance, <1>1, PTL

\* "Bad baboon?" cannot happen: the target chain leaves a branch active or no
\* candidate, so that RequestContext::process never sends its own 500.
THEOREM BaboonsAreGood == Spec => []NoBadBaboon
<1>1. IInv => NoBadBaboon
  <2> SUFFICES ASSUME IInv, 500 \notin Finals \cup AuthCodes
               PROVE  500 \notin ToSet(rc.sent)
    BY DEF NoBadBaboon
  <2>1. Upstream(rc) /\ rc.sent \in Seq(Code)
    BY DEF IInv, Whole, Mid, Tracked, Context, Sents
  <2>2. \A i \in 1..Len(rc.sent) : rc.sent[i] # 500
    BY <2>1 DEF Upstream
  <2> QED BY <2>1, <2>2 DEF ToSet
<1> QED BY Invariance, <1>1, PTL

\* The caller gets one final response that is not a 2xx at most, and it is the
\* first, whatever sends it: a branch, the best response, a monkey or CANCEL.
THEOREM AnsweredOnce == Spec => []OneFailure
<1>1. IInv => OneFailure
  BY DEF IInv, Whole, Mid, Upstream, OneFailure
<1> QED BY Invariance, <1>1, PTL

\* What ResponseContext::forwardBestResponse sends is the best of the responses
\* received, although mBestResponse is overwritten by later ones of equal rank.
THEOREM BestIsForwarded == Spec => []ForwardsBest
<1>1. IInv => ForwardsBest
  BY DEF IInv, Whole, Mid, Forwarded, BestOf, ForwardsBest
<1> QED BY Invariance, <1>1, PTL

\* The final response of an INVITE leaves no branch to itself.
THEOREM NoBranchIsLeft == Spec => []AnswerStopsBranches
<1>1. IInv => AnswerStopsBranches
  BY DEF IInv, Whole, Mid, Stopped, AnswerStopsBranches, In
<1> QED BY Invariance, <1>1, PTL

\* No handler starts a branch after CANCEL or the final response.
THEOREM NothingStartsLate == Spec => NoLateStart
<1>1. IInv /\ [Next]_vars =>
        [(cancelled /\ ~mRecursiveRedirect) \/ rc.mHaveSentFinalResponse
           => rc'.clients \subseteq rc.clients]_vars
  <2> SUFFICES ASSUME IInv, Next
               PROVE  (cancelled /\ ~mRecursiveRedirect) \/ rc.mHaveSentFinalResponse
                        => rc'.clients \subseteq rc.clients
    OBVIOUS
  <2> QED BY StepKeeps DEF NoLate
<1> QED BY Invariance, <1>1, PTL DEF Spec, NoLateStart
-----------------------------------------------------------------------------
(* One fork group at a time. *)

\* The setups of which OneGroupAtATime speaks.
Grouping ==
  Unmixed /\ mDoQValue /\ mWaitForTerminate /\ mForkBehavior = "EQUAL_Q_PARALLEL"

\* The targets of the q-value handler in a queue.
QIn(q) == ToSet(q) \cap QTarget

\* What the queues say of the targets of the q-value handler, also within a handler: a queue
\* is before all others with such targets if one of its targets has a client transaction.
Ordered(r, qs) ==
  /\ \A i \in DOMAIN qs : ToSet(qs[i]) \subseteq QTarget \/ QIn(qs[i]) = {}
  /\ \A i \in DOMAIN qs : \A t \in QIn(qs[i]) : r.where[t] # "none"
  /\ \A i, j \in DOMAIN qs :
       i < j => /\ QIn(qs[i]) \cap QIn(qs[j]) = {}
                /\ QIn(qs[j]) \cap r.clients # {} => QIn(qs[i]) = {}

\* A branch that may still be begun or is under way.
Alive(r, t) == r.where[t] \in {"Candidate", "Active"}

\* Candidates and active targets are queued.
Queued(r, qs) ==
  \A t \in QTarget : Alive(r, t) => \E i \in DOMAIN qs : t \in ToSet(qs[i])

\* Between handlers a queue has no targets that have failed.
Cleared(r, qs) ==
  \A i \in DOMAIN qs : \A t \in QIn(qs[i]) : r.where[t] = "Terminated" => t \notin r.clients

OneGroup(r) ==
  \A t, u \in In(r, "Active") \cap QTarget : QOf[t] = QOf[u]

\* Within a handler, before the target chain.
Lined(r) ==
  /\ OneGroup(r)
  /\ ~r.mHaveSentFinalResponse => Ordered(r, r.queues) /\ Queued(r, r.queues)

Grouped(r) ==
  /\ Lined(r)
  /\ ~r.mHaveSentFinalResponse => Cleared(r, r.queues)

LEMMA NarrowsLined ==
  ASSUME NEW r, NEW s, Lined(r), Narrows(r, s), QTarget \subseteq Target, Tracked(r)
  PROVE  /\ Lined(s)
         /\ Grouped(r) /\ (\A t \in Target : r.where[t] = "Active" => s.where[t] = "Active")
              => Grouped(s)
<1>1. /\ s.clients = r.clients /\ s.queues = r.queues
      /\ ~s.mHaveSentFinalResponse => ~r.mHaveSentFinalResponse
      /\ \A t \in Target :
           \/ s.where[t] = r.where[t]
           \/ r.where[t] \in {"Candidate", "Active"} /\ s.where[t] = "Terminated"
  BY DEF Narrows
<1>2. \A t \in Target : s.where[t] = "Active" => r.where[t] = "Active"
  BY <1>1
<1>3. OneGroup(s)
  BY <1>2 DEF Lined, OneGroup, In
<1>4. ASSUME ~s.mHaveSentFinalResponse
      PROVE  Ordered(s, s.queues) /\ Queued(s, s.queues)
  <2>1. Ordered(r, r.queues) /\ Queued(r, r.queues)
    BY <1>1, <1>4 DEF Lined
  <2>2. \A t \in QTarget : Alive(s, t) => Alive(r, t)
    BY <1>1 DEF Alive
  <2>3. Queued(s, s.queues)
    BY <1>1, <2>1, <2>2 DEF Queued
  <2>4. \A t \in QTarget : r.where[t] # "none" => s.where[t] # "none"
    BY <1>1
  <2>5. \A q : QIn(q) \subseteq QTarget
    BY DEF QIn
  <2>6. Ordered(s, s.queues)
    BY <1>1, <2>1, <2>4, <2>5 DEF Ordered
  <2> QED BY <2>3, <2>6
<1>5. ASSUME Grouped(r), ~s.mHaveSentFinalResponse,
             \A t \in Target : r.where[t] = "Active" => s.where[t] = "Active"
      PROVE  Cleared(s, s.queues)
  <2>1. Cleared(r, r.queues)
    BY <1>1, <1>5 DEF Grouped
  <2>2. \A t \in Target : s.where[t] = "Terminated" => r.where[t] = "Terminated" \/ t \notin r.clients
    <3>1. \A t \in Target : r.where[t] = "Candidate" => t \notin r.clients
      BY DEF Tracked
    <3>2. \A t \in Target : s.where[t] = "Terminated" => r.where[t] \in {"Terminated", "Candidate"}
      BY <1>1, <1>5
    <3> QED BY <3>1, <3>2
  <2>3. \A q : QIn(q) \subseteq Target
    BY DEF QIn
  <2> QED BY <1>1, <2>1, <2>2, <2>3 DEF Cleared
<1> QED BY <1>3, <1>4, <1>5 DEF Lined, Grouped

\* forwardBestResponse and the check for quiescence leave the active targets alone.
LEMMA QuietGroups ==
  ASSUME NEW r, Tracked(r), Grouped(r), QTarget \subseteq Target
  PROVE  Grouped(onQuiescent(r))
<1> DEFINE u == onQuiescent(r)
<1>0. r \in Context
  BY DEF Tracked
<1>1. CASE r.mHaveSentFinalResponse \/ hasActiveTransactions(r)
  BY <1>1 DEF onQuiescent
<1>2. CASE ~(r.mHaveSentFinalResponse \/ hasActiveTransactions(r)) /\ hasCandidateTransactions(r)
  <2>1. u = sendResponse(r, 500)
    BY <1>2 DEF onQuiescent
  <2>2. Sends(r, u, 500)
    BY <1>0, <2>1, SendIs, 500 \in Code DEF Code
  <2> HIDE DEF u
  <2>3. /\ u.clients = r.clients /\ u.mTransactionCount = r.mTransactionCount
        /\ u.method = r.method /\ u.queues = r.queues /\ u.where = r.where
        /\ r.mHaveSentFinalResponse => u.mHaveSentFinalResponse
    BY <2>2 DEF Sends, SameBranches
  <2>4. Narrows(r, u)
    BY <2>3 DEF Narrows
  <2>5. Lined(r) /\ \A t \in Target : r.where[t] = "Active" => u.where[t] = "Active"
    BY <2>3 DEF Grouped
  <2> QED BY <2>4, <2>5, NarrowsLined DEF u
<1>3. CASE ~(r.mHaveSentFinalResponse \/ hasActiveTransactions(r)) /\ ~hasCandidateTransactions(r)
  <2>1. u = forwardBestResponse(r)
    BY <1>3 DEF onQuiescent
  <2> DEFINE r1 == clearCandidateTransactions(r)
  <2> DEFINE r2 == IF r.method = "INVITE" THEN cancelActiveClientTransactions(r1) ELSE r1
  <2> DEFINE c == visible(r.best, r.method)
  <2> DEFINE r3 == ranked(r2, c, r2.mBestPriority)
  <2>2. Closed(r, r1, FALSE)
    BY ClearCloses
  <2>3. r1 \in Context /\ Same(r, r1)
    BY <2>2 DEF Closed, Tracked
  <2>4. c \in Code
    BY <1>0, VisibleIs DEF Context
  <2>5. r2 \in Context /\ Same(r1, r2) /\ r2.where = r1.where
    <3> HIDE DEF r1
    <3>1. r2 = r1 \/ r2 = cancelTargets(r1, In(r1, "Active"))
      BY DEF cancelActiveClientTransactions
    <3>2. CASE r2 = r1
      BY <2>3, <3>2 DEF Same
    <3>3. CASE r2 = cancelTargets(r1, In(r1, "Active"))
      <4> HIDE DEF r2
      <4> QED BY <2>3, <3>3, CancelTargetsCancels
    <3> QED BY <3>1, <3>2, <3>3
  <2>6. u = sendResponse(r3, c)
    <3>1. u = sendResponse([r2 EXCEPT !.best = c], c)
      BY <2>1 DEF forwardBestResponse
    <3> HIDE DEF r2, c
    <3>2. [r2 EXCEPT !.best = c] = r3
      BY <2>5 DEF ranked, Context
    <3> QED BY <3>1, <3>2
  <2> HIDE DEF u, r1, r2, c
  <2>7. Ranks(r2, r3, c, r2.mBestPriority)
    <3>1. r2.mBestPriority \in 0..50
      BY <2>5 DEF Context
    <3> QED BY <2>4, <2>5, <3>1, RankedIs
  <2> HIDE DEF r3
  <2>8. Sends(r3, u, c)
    BY <2>4, <2>6, <2>7, SendIs DEF Ranks
  <2>9. /\ u.clients = r.clients /\ u.mTransactionCount = r.mTransactionCount
        /\ u.method = r.method /\ u.queues = r.queues /\ u.where = r1.where
        /\ r.mHaveSentFinalResponse => u.mHaveSentFinalResponse
    BY <2>3, <2>5, <2>7, <2>8 DEF Sends, SameBranches, Ranks, Same
  <2>10. Narrows(r, u)
    BY <2>2, <2>9 DEF Narrows, Closed
  <2>11. Lined(r) /\ \A t \in Target : r.where[t] = "Active" => u.where[t] = "Active"
    BY <2>2, <2>9 DEF Grouped, Closed
  <2> QED BY <2>10, <2>11, NarrowsLined DEF u
<1> QED BY <1>1, <1>2, <1>3

\* The loop of the q-value handler over the queues qs of r, after n of them: nothing is active
\* yet and the targets seen are given up, or all that is active is in one group of the queues
\* seen, and those to come have no branch.
Idle(r, qs, a, n) ==
  /\ Started(r, a.rc) = {}
  /\ \A i \in 1..n : \A t \in QIn(qs[i]) : ~Alive(a.rc, t)
  /\ \A i \in DOMAIN a.queues : QIn(a.queues[i]) = {}

Busy(qs, a, n) ==
  /\ OneGroup(a.rc) /\ Ordered(a.rc, a.queues) /\ Cleared(a.rc, a.queues)
  /\ \A j \in DOMAIN qs : j > n =>
       /\ QIn(qs[j]) \cap a.rc.clients = {}
       /\ \A i \in DOMAIN a.queues : QIn(qs[j]) \cap QIn(a.queues[i]) = {}
  /\ \A t \in QTarget : Alive(a.rc, t) =>
       \/ \E i \in DOMAIN a.queues : t \in ToSet(a.queues[i])
       \/ \E j \in DOMAIN qs : j > n /\ t \in ToSet(qs[j])

Seen(r, qs, a, n) == IF a.active THEN Busy(qs, a, n) ELSE Idle(r, qs, a, n)

\* A queue without branches is put behind the others.
LEMMA AppendOrdered ==
  ASSUME NEW r, NEW qs \in Seq(Seq(Target)), NEW q \in Seq(Target), Ordered(r, qs), Cleared(r, qs),
         ToSet(q) \subseteq QTarget \/ QIn(q) = {},
         \A t \in QIn(q) : r.where[t] # "none",
         \A t \in QIn(q) : r.where[t] = "Terminated" => t \notin r.clients,
         \A i \in DOMAIN qs : QIn(qs[i]) \cap QIn(q) = {},
         QIn(q) \cap r.clients # {} => \A i \in DOMAIN qs : QIn(qs[i]) = {}
  PROVE  Ordered(r, Append(qs, q)) /\ Cleared(r, Append(qs, q))
<1> DEFINE T == Seq(Target)
<1> DEFINE ps == Append(qs, q)
<1> DEFINE n == Len(qs)
<1>0. qs \in Seq(T) /\ q \in T
  OBVIOUS
<1> HIDE DEF T
<1>1. /\ n \in Nat /\ DOMAIN qs = 1..n /\ DOMAIN ps = 1..(n + 1)
      /\ ps[n + 1] = q /\ \A i \in 1..n : ps[i] = qs[i]
      /\ \A i \in 1..(n + 1) : i \in 1..n \/ i = n + 1
  BY <1>0
<1> HIDE DEF ps, n
<1>2. ASSUME NEW i \in DOMAIN ps
      PROVE  /\ ToSet(ps[i]) \subseteq QTarget \/ QIn(ps[i]) = {}
             /\ \A t \in QIn(ps[i]) : r.where[t] # "none"
             /\ \A t \in QIn(ps[i]) : r.where[t] = "Terminated" => t \notin r.clients
  <2>1. CASE i \in 1..n
    BY <1>1, <2>1 DEF Ordered, Cleared
  <2>2. CASE i = n + 1
    BY <1>1, <2>2
  <2> QED BY <1>1, <2>1, <2>2
<1>3. ASSUME NEW i \in DOMAIN ps, NEW j \in DOMAIN ps, i < j
      PROVE  /\ QIn(ps[i]) \cap QIn(ps[j]) = {}
             /\ QIn(ps[j]) \cap r.clients # {} => QIn(ps[i]) = {}
  <2>0. i \in 1..n
    BY <1>1, <1>3
  <2>1. CASE j \in 1..n
    BY <1>1, <1>3, <2>0, <2>1 DEF Ordered
  <2>2. CASE j = n + 1
    BY <1>1, <2>0, <2>2
  <2> QED BY <1>1, <2>1, <2>2
<1> QED BY <1>2, <1>3 DEF Ordered, Cleared, ps

\* What the target handlers leave as it is.
LEMMA StartsWhere ==
  ASSUME NEW r, NEW s, Starts(r, s)
  PROVE  /\ \A t \in Target : r.where[t] # "none" => s.where[t] # "none"
         /\ \A t \in Target : Alive(s, t) => Alive(r, t)
         /\ \A t \in Target : r.where[t] = "Active" => s.where[t] = "Active"
         /\ \A t \in Target : s.where[t] = "Active" => r.where[t] = "Active" \/ t \in Started(r, s)
         /\ s.clients = r.clients \cup Started(r, s)
         /\ Tracked(s)
BY DEF Starts, Proceeds, Started, Alive

\* A queue that is not looked at.
LEMMA PassSeen ==
  ASSUME NEW r, NEW qs \in Seq(Seq(Target)), NEW a, NEW n \in Nat, n + 1 \in DOMAIN qs,
         Tries(r, a), Ordered(r, qs), Seen(r, qs, a, n), QTarget \subseteq Target,
         NEW b, b.rc = a.rc, b.active = a.active, b.queues = Append(a.queues, qs[n + 1]),
         ~a.active => QIn(qs[n + 1]) = {}
  PROVE  Seen(r, qs, b, n + 1)
<1> DEFINE q == qs[n + 1]
<1> DEFINE T == Seq(Target)
<1>0. qs \in Seq(T)
  OBVIOUS
<1>1. q \in T /\ a.queues \in Seq(T)
  <2>1. a.queues \in Seq(T)
    BY DEF Tries, Queues
  <2> HIDE DEF T
  <2> QED BY <1>0, <2>1
<1>2. DOMAIN qs = 1..Len(qs) /\ Len(qs) \in Nat
  OBVIOUS
<1> DEFINE m == Len(a.queues)
<1>3. /\ m \in Nat /\ DOMAIN a.queues = 1..m /\ DOMAIN b.queues = 1..(m + 1)
      /\ b.queues[m + 1] = q /\ \A i \in 1..m : b.queues[i] = a.queues[i]
      /\ \A i \in 1..(m + 1) : i \in 1..m \/ i = m + 1
  <2> HIDE DEF T, q
  <2> QED BY <1>1 DEF q
<1> HIDE DEF q, m, T
<1>4. CASE ~a.active
  <2>1. Idle(r, qs, a, n)
    BY <1>4 DEF Seen
  <2>2. QIn(q) = {}
    BY <1>4 DEF q
  <2>3. \A i \in 1..(n + 1) : i \in 1..n \/ i = n + 1
    OBVIOUS
  <2>4. \A i \in 1..(n + 1) : \A t \in QIn(qs[i]) : ~Alive(b.rc, t)
    BY <2>1, <2>2, <2>3 DEF Idle, q
  <2>5. \A i \in DOMAIN b.queues : QIn(b.queues[i]) = {}
    BY <1>3, <2>1, <2>2 DEF Idle
  <2> QED BY <1>4, <2>1, <2>4, <2>5 DEF Seen, Idle
<1>5. CASE a.active
  <2>1. Busy(qs, a, n)
    BY <1>5 DEF Seen
  <2>2. /\ QIn(q) \cap a.rc.clients = {}
        /\ \A i \in DOMAIN a.queues : QIn(q) \cap QIn(a.queues[i]) = {}
    <3>1. n + 1 > n
      OBVIOUS
    <3> QED BY <2>1, <3>1 DEF Busy, q
  <2>3. ToSet(q) \subseteq QTarget \/ QIn(q) = {}
    BY DEF Ordered, q
  <2>4. \A t \in QIn(q) : a.rc.where[t] # "none"
    <3>1. \A t \in QIn(q) : r.where[t] # "none"
      BY DEF Ordered, q
    <3>2. QIn(q) \subseteq Target
      BY DEF QIn
    <3> QED BY <3>1, <3>2, StartsWhere DEF Tries
  <2>5. Ordered(a.rc, Append(a.queues, q)) /\ Cleared(a.rc, Append(a.queues, q))
    <3>1. /\ \A t \in QIn(q) : a.rc.where[t] = "Terminated" => t \notin a.rc.clients
          /\ \A i \in DOMAIN a.queues : QIn(a.queues[i]) \cap QIn(q) = {}
          /\ QIn(q) \cap a.rc.clients # {} => \A i \in DOMAIN a.queues : QIn(a.queues[i]) = {}
      BY <2>2
    <3>2. a.queues \in Seq(Seq(Target)) /\ q \in Seq(Target)
          /\ Ordered(a.rc, a.queues) /\ Cleared(a.rc, a.queues)
      BY <1>1, <2>1 DEF Busy, T
    <3> QED BY ONLY <2>3, <2>4, <3>1, <3>2, AppendOrdered
  <2>6. ASSUME NEW j \in DOMAIN qs, j > n + 1
        PROVE  /\ QIn(qs[j]) \cap b.rc.clients = {}
               /\ \A i \in DOMAIN b.queues : QIn(qs[j]) \cap QIn(b.queues[i]) = {}
    <3>1. j > n /\ n + 1 < j
      BY <1>2, <2>6
    <3>2. QIn(qs[j]) \cap QIn(q) = {}
      BY <3>1 DEF Ordered, q
    <3>3. /\ QIn(qs[j]) \cap a.rc.clients = {}
          /\ \A i \in DOMAIN a.queues : QIn(qs[j]) \cap QIn(a.queues[i]) = {}
      BY <2>1, <3>1 DEF Busy
    <3> QED BY <1>3, <3>2, <3>3
  <2>7. ASSUME NEW t \in QTarget, Alive(b.rc, t)
        PROVE  \/ \E i \in DOMAIN b.queues : t \in ToSet(b.queues[i])
               \/ \E j \in DOMAIN qs : j > n + 1 /\ t \in ToSet(qs[j])
    <3>1. ASSUME NEW i \in DOMAIN a.queues, t \in ToSet(a.queues[i])
          PROVE  \E k \in DOMAIN b.queues : t \in ToSet(b.queues[k])
      <4>1. i \in DOMAIN b.queues /\ b.queues[i] = a.queues[i]
        BY <1>3
      <4> QED BY <3>1, <4>1
    <3>2. ASSUME NEW j \in DOMAIN qs, j > n, t \in ToSet(qs[j])
          PROVE  \/ \E i \in DOMAIN b.queues : t \in ToSet(b.queues[i])
                 \/ \E k \in DOMAIN qs : k > n + 1 /\ t \in ToSet(qs[k])
      <4>1. j = n + 1 \/ j > n + 1
        BY <1>2, <3>2
      <4>2. CASE j = n + 1
        <5>1. t \in ToSet(b.queues[m + 1]) /\ m + 1 \in DOMAIN b.queues
          BY <1>3, <3>2, <4>2 DEF q
        <5> QED BY <5>1
      <4> QED BY <3>2, <4>1, <4>2
    <3> QED BY <2>1, <2>7, <3>1, <3>2 DEF Busy
  <2>8. b.queues = Append(a.queues, q)
    BY DEF q
  <2>9. OneGroup(b.rc) /\ Ordered(b.rc, b.queues) /\ Cleared(b.rc, b.queues)
    BY <2>1, <2>5, <2>8 DEF Busy
  <2>10. Busy(qs, b, n + 1)
    BY <2>6, <2>7, <2>9 DEF Busy
  <2> QED BY <1>5, <2>10 DEF Seen
<1> QED BY <1>4, <1>5

\* The loop comes to a queue with targets of the q-value handler before anything is active.
LEMMA GroupSeen ==
  ASSUME NEW r, NEW qs \in Seq(Seq(Target)), NEW a, NEW n \in Nat, n + 1 \in DOMAIN qs,
         NEW q, q = qs[n + 1], q # <<>>, isMyType(a.rc, Head(q)), ~a.active,
         Tracked(r), config \in Config, Grouping,
         Tries(r, a), OneGroup(r), Ordered(r, qs), Queued(r, qs), Idle(r, qs, a, n),
         NEW g, g = groupsOf(a, q), NEW b, b = afterGroups(a, q, g), QTarget \subseteq Target
  PROVE  Seen(r, qs, b, n + 1)
<1> DEFINE left == removeTerminated(g.rc, q)
<1>1. /\ q \in Seq(Target) /\ DOMAIN qs = 1..Len(qs) /\ Len(qs) \in Nat
      /\ \A i \in 1..(n + 1) : i \in 1..n \/ i = n + 1
      /\ \A i \in 1..Len(qs) : i \in 1..n \/ i = n + 1 \/ i > n + 1
      /\ \A i \in 1..n : i \in DOMAIN qs
  <2> DEFINE T == Seq(Target)
  <2>1. qs \in Seq(T)
    OBVIOUS
  <2> HIDE DEF T
  <2>2. qs[n + 1] \in T /\ DOMAIN qs = 1..Len(qs) /\ Len(qs) \in Nat
    BY <2>1
  <2> QED BY <2>2 DEF T
<1>2. /\ Head(q) \in ToSet(q) /\ Head(q) \in QTarget
      /\ ToSet(q) \subseteq QTarget /\ QIn(q) = ToSet(q) /\ QIn(q) # {}
  <2>1. 1 \in DOMAIN q /\ Head(q) = q[1]
    BY <1>1
  <2>2. Head(q) \in ToSet(q) /\ Head(q) \in QTarget
    BY <2>1 DEF ToSet, isMyType
  <2>3. ToSet(q) \subseteq QTarget \/ QIn(q) = {}
    BY DEF Ordered
  <2> QED BY <2>2, <2>3 DEF QIn
<1>3. /\ Tries(r, b) /\ b.rc = g.rc
      /\ b.queues = IF left = <<>> THEN a.queues ELSE Append(a.queues, left)
      /\ b.active <=> isBusy(a.rc, q) \/ g.started # <<>>
  <2>1. left = removeTerminated(g.rc, q)
    OBVIOUS
  <2> HIDE DEF left
  <2>2. /\ q \in Seq(Target) /\ Tracked(r) /\ config \in Config /\ Tries(r, a)
        /\ g = groupsOf(a, q) /\ b = afterGroups(a, q, g)
    BY <1>1
  <2>3. Tries(r, b)
    BY ONLY <2>1, <2>2, AfterGroupsTries
  <2>4. /\ b.rc = g.rc
        /\ b.queues = IF left = <<>> THEN a.queues ELSE Append(a.queues, left)
        /\ b.active <=> isBusy(a.rc, q) \/ g.started # <<>>
    BY ONLY <2>1, <2>2 DEF afterGroups
  <2> QED BY <2>3, <2>4
<1>4. left \in Seq(Target) /\ ToSet(left) = ToSet(q) \cap (Target \ In(g.rc, "Terminated"))
  BY <1>1, KeepInKeeps DEF removeTerminated
<1> HIDE DEF left
<1>5. left # <<>> => \E t \in ToSet(q) : g.rc.where[t] # "Terminated"
  <2>1. left # <<>> => left[1] \in ToSet(left)
    BY <1>4 DEF ToSet
  <2> QED BY <1>4, <2>1 DEF In
<1>6. Started(r, a.rc) = {} /\ Tracked(a.rc) /\ Starts(r, a.rc)
  BY DEF Idle, Tries, Starts, Proceeds
<1>7. /\ Starts(a.rc, b.rc)
      /\ \A t \in Target \ ToSet(q) : b.rc.where[t] = a.rc.where[t]
      /\ Started(a.rc, b.rc) \subseteq ToSet(q)
      /\ g.started = <<>> => Started(a.rc, b.rc) = {}
      /\ isBusy(a.rc, q) => b.rc = a.rc
      /\ ~isBusy(a.rc, q) /\ g.started = <<>> => \A t \in ToSet(q) : b.rc.where[t] # "Candidate"
      /\ \A t, u \in Started(a.rc, b.rc) : QOf[t] = QOf[u]
  <2>1. CASE isBusy(a.rc, q)
    <3>1. b.rc = a.rc
      BY <1>3, <2>1 DEF groupsOf
    <3>2. Started(a.rc, b.rc) = {}
      BY <3>1 DEF Started
    <3>3. Starts(a.rc, b.rc)
      BY <1>6, <3>1, ProceedsRefl
    <3> QED BY <2>1, <3>1, <3>2, <3>3
  <2>2. CASE ~isBusy(a.rc, q)
    <3>1. g = beginGroups(a.rc, q)
      BY <2>2 DEF groupsOf
    <3>2. mForkBehavior = "EQUAL_Q_PARALLEL"
      BY DEF Grouping
    <3>3. /\ Starts(a.rc, g.rc) /\ g.rc.queues = a.rc.queues
          /\ \A t \in Target \ ToSet(q) : g.rc.where[t] = a.rc.where[t]
          /\ \A t \in ToSet(q) : g.started = <<>> => g.rc.where[t] # "Candidate"
          /\ ToSet(g.started) = Started(a.rc, g.rc)
          /\ \A t, u \in ToSet(g.started) : QOf[t] = QOf[u]
      <4>1. q \in Seq(Target) /\ Tracked(a.rc) /\ config \in Config
        BY <1>1, <1>6
      <4> QED BY ONLY <3>1, <3>2, <4>1, GroupsStart
    <3>4. Started(a.rc, g.rc) \subseteq ToSet(q)
      BY <3>3 DEF Started
    <3>5. g.started = <<>> => Started(a.rc, g.rc) = {}
      BY <3>3, Elements
    <3> QED BY <1>3, <2>2, <3>3, <3>4, <3>5
  <2> QED BY <2>1, <2>2
<1>8. /\ \A t \in Target : r.where[t] # "none" => b.rc.where[t] # "none"
      /\ \A t \in Target : Alive(b.rc, t) => Alive(a.rc, t) /\ Alive(r, t)
      /\ \A t \in Target : b.rc.where[t] = "Active" => a.rc.where[t] = "Active" \/ t \in Started(a.rc, b.rc)
      /\ \A t \in Target : a.rc.where[t] = "Active" => r.where[t] = "Active"
      /\ b.rc.clients = r.clients \cup Started(a.rc, b.rc)
  <2>1. a.rc.clients = r.clients
    <3>1. a.rc.clients = r.clients \cup Started(r, a.rc)
      BY <1>6, StartsWhere
    <3> QED BY <1>6, <3>1
  <2>2. \A t \in Target : a.rc.where[t] = "Active" => r.where[t] = "Active"
    BY <1>6, StartsWhere
  <2>3. \A t \in Target : Alive(a.rc, t) => Alive(r, t)
    BY <1>6, StartsWhere
  <2>4. \A t \in Target : r.where[t] # "none" => a.rc.where[t] # "none"
    BY <1>6, StartsWhere
  <2>5. /\ \A t \in Target : a.rc.where[t] # "none" => b.rc.where[t] # "none"
        /\ \A t \in Target : Alive(b.rc, t) => Alive(a.rc, t)
        /\ \A t \in Target : b.rc.where[t] = "Active" => a.rc.where[t] = "Active" \/ t \in Started(a.rc, b.rc)
        /\ b.rc.clients = a.rc.clients \cup Started(a.rc, b.rc)
    BY <1>7, StartsWhere
  <2> QED BY <2>1, <2>2, <2>3, <2>4, <2>5
<1>9. \A j \in DOMAIN qs : j > n + 1 =>
        QIn(qs[j]) \cap QIn(q) = {} /\ QIn(qs[j]) \cap r.clients = {}
  BY <1>1, <1>2 DEF Ordered
<1>10. \A t \in QTarget : Alive(b.rc, t) =>
         t \in ToSet(q) \/ \E j \in DOMAIN qs : j > n + 1 /\ t \in ToSet(qs[j])
  <2> SUFFICES ASSUME NEW t \in QTarget, Alive(b.rc, t)
               PROVE  t \in ToSet(q) \/ \E j \in DOMAIN qs : j > n + 1 /\ t \in ToSet(qs[j])
    OBVIOUS
  <2>1. Alive(a.rc, t) /\ Alive(r, t)
    BY <1>8
  <2>2. PICK i \in DOMAIN qs : t \in ToSet(qs[i])
    BY <2>1 DEF Queued
  <2>3. i \notin 1..n
    BY <2>1, <2>2 DEF Idle, QIn
  <2> QED BY <1>1, <2>2, <2>3
<1>11. CASE b.active
  <2>1. OneGroup(b.rc)
    <3>1. CASE isBusy(a.rc, q)
      <4>1. \A t \in Target : b.rc.where[t] = "Active" => r.where[t] = "Active"
        BY <1>7, <1>8, <3>1
      <4> QED BY <4>1 DEF OneGroup, In
    <3>2. CASE ~isBusy(a.rc, q)
      <4>1. ASSUME NEW t \in QTarget, b.rc.where[t] = "Active"
            PROVE  t \in Started(a.rc, b.rc)
        <5> SUFFICES ASSUME t \notin Started(a.rc, b.rc)
                     PROVE  FALSE
          OBVIOUS
        <5>1. a.rc.where[t] = "Active" /\ r.where[t] = "Active" /\ Alive(b.rc, t)
          BY <1>8, <4>1 DEF Alive
        <5>2. t \notin ToSet(q)
          BY <3>2, <5>1 DEF isBusy
        <5>3. PICK j \in DOMAIN qs : j > n + 1 /\ t \in ToSet(qs[j])
          BY <1>10, <5>1, <5>2
        <5>4. t \in r.clients
          BY <5>1 DEF Tracked
        <5> QED BY <1>9, <5>3, <5>4 DEF QIn
      <4>2. In(b.rc, "Active") \cap QTarget \subseteq Started(a.rc, b.rc)
        BY <4>1 DEF In
      <4> QED BY <1>7, <4>2 DEF OneGroup
    <3> QED BY <3>1, <3>2
  <2>2. QIn(left) \subseteq QIn(q) /\ \A t \in QIn(left) : b.rc.where[t] \notin {"none", "Terminated"}
    <3>1. \A t \in QIn(q) : t \in Target /\ b.rc.where[t] # "none"
      BY <1>8 DEF Ordered, QIn
    <3> QED BY <1>3, <1>4, <3>1 DEF QIn, In
  <2>3. Ordered(b.rc, a.queues) /\ Cleared(b.rc, a.queues)
    <3>1. \A i \in DOMAIN a.queues : QIn(a.queues[i]) = {}
      BY DEF Idle
    <3> QED BY <3>1 DEF Ordered, Cleared
  <2>4. Ordered(b.rc, b.queues) /\ Cleared(b.rc, b.queues)
    <3>1. CASE left = <<>>
      BY <1>3, <2>3, <3>1
    <3>2. CASE left # <<>>
      <4>1. a.queues \in Seq(Seq(Target)) /\ left \in Seq(Target)
        BY <1>4 DEF Tries, Queues
      <4>2. ToSet(left) \subseteq QTarget \/ QIn(left) = {}
        BY <1>2, <1>4
      <4>3. /\ \A t \in QIn(left) : b.rc.where[t] # "none"
            /\ \A t \in QIn(left) : b.rc.where[t] = "Terminated" => t \notin b.rc.clients
        BY <2>2
      <4>4. /\ \A i \in DOMAIN a.queues : QIn(a.queues[i]) \cap QIn(left) = {}
            /\ QIn(left) \cap b.rc.clients # {} => \A i \in DOMAIN a.queues : QIn(a.queues[i]) = {}
        BY DEF Idle
      <4>5. Ordered(b.rc, Append(a.queues, left)) /\ Cleared(b.rc, Append(a.queues, left))
        BY ONLY <2>3, <4>1, <4>2, <4>3, <4>4, AppendOrdered
      <4> QED BY <1>3, <3>2, <4>5
    <3> QED BY <3>1, <3>2
  <2>5. \A i \in DOMAIN b.queues : QIn(b.queues[i]) \subseteq QIn(q)
    <3>1. \A i \in DOMAIN a.queues : QIn(a.queues[i]) = {}
      BY DEF Idle
    <3>2. CASE left = <<>>
      BY <1>3, <3>1, <3>2
    <3>3. CASE left # <<>>
      <4> DEFINE m == Len(a.queues)
      <4>1. a.queues \in Seq(Seq(Target))
        BY DEF Tries, Queues
      <4>2. /\ m \in Nat /\ DOMAIN a.queues = 1..m /\ DOMAIN Append(a.queues, left) = 1..(m + 1)
            /\ Append(a.queues, left)[m + 1] = left
            /\ \A i \in 1..m : Append(a.queues, left)[i] = a.queues[i]
            /\ \A i \in 1..(m + 1) : i \in 1..m \/ i = m + 1
        <5> DEFINE T == Seq(Target)
        <5>1. a.queues \in Seq(T) /\ left \in T
          BY <1>4, <4>1
        <5> HIDE DEF T
        <5> QED BY <5>1
      <4> HIDE DEF m
      <4> QED BY <1>3, <2>2, <3>1, <3>3, <4>2
    <3> QED BY <3>2, <3>3
  <2>6. \A j \in DOMAIN qs : j > n + 1 =>
          /\ QIn(qs[j]) \cap b.rc.clients = {}
          /\ \A i \in DOMAIN b.queues : QIn(qs[j]) \cap QIn(b.queues[i]) = {}
    BY <1>2, <1>7, <1>8, <1>9, <2>5
  <2>7. ASSUME NEW t \in QTarget, Alive(b.rc, t)
        PROVE  \/ \E i \in DOMAIN b.queues : t \in ToSet(b.queues[i])
               \/ \E j \in DOMAIN qs : j > n + 1 /\ t \in ToSet(qs[j])
    <3>1. CASE t \in ToSet(q)
      <4>1. t \in ToSet(left) /\ left # <<>>
        <5>1. t \in ToSet(left)
          BY <1>3, <1>4, <2>7, <3>1 DEF Alive, In
        <5> QED BY <5>1, Elements
      <4>2. a.queues \in Seq(Seq(Target))
        BY DEF Tries, Queues
      <4>3. \E i \in DOMAIN Append(a.queues, left) : Append(a.queues, left)[i] = left
        <5> DEFINE T == Seq(Target)
        <5>1. a.queues \in Seq(T) /\ left \in T
          BY <1>4, <4>2
        <5> HIDE DEF T
        <5>2. /\ Len(a.queues) + 1 \in DOMAIN Append(a.queues, left)
              /\ Append(a.queues, left)[Len(a.queues) + 1] = left
          BY <5>1
        <5> QED BY <5>2
      <4> QED BY <1>3, <4>1, <4>3
    <3>2. CASE t \notin ToSet(q)
      BY <1>10, <2>7, <3>2
    <3> QED BY <3>1, <3>2
  <2>8. Busy(qs, b, n + 1)
    BY <2>1, <2>4, <2>6, <2>7 DEF Busy
  <2> QED BY <1>11, <2>8 DEF Seen
<1>12. CASE ~b.active
  <2>1. ~isBusy(a.rc, q) /\ g.started = <<>>
    BY <1>3, <1>12
  <2>2. \A t \in ToSet(q) : ~Alive(b.rc, t) /\ b.rc.where[t] = "Terminated"
    <3> SUFFICES ASSUME NEW t \in ToSet(q)
                 PROVE  ~Alive(b.rc, t) /\ b.rc.where[t] = "Terminated"
      OBVIOUS
    <3>1. t \in QIn(q) /\ t \in Target
      BY <1>2
    <3>2. b.rc.where[t] # "Candidate"
      BY <1>7, <2>1
    <3>3. b.rc.where[t] # "Active"
      BY <1>7, <1>8, <2>1, <3>1 DEF isBusy
    <3>4. b.rc.where[t] # "none"
      BY <1>8, <3>1 DEF Ordered
    <3>5. b.rc.where \in [Target -> Map]
      BY <1>3 DEF Tries, Starts, Proceeds, Tracked, Context, Wheres
    <3>6. b.rc.where[t] \in Map
      BY <3>1, <3>5
    <3> QED BY <3>2, <3>3, <3>4, <3>6 DEF Map, Alive
  <2>3. left = <<>> /\ b.queues = a.queues
    BY <1>3, <1>5, <2>2
  <2>4. Started(r, b.rc) = {}
    <3>1. \A t \in Target : b.rc.where[t] = "Active" => a.rc.where[t] = "Active"
      BY <1>7, <1>8, <2>1
    <3> QED BY <1>8, <3>1 DEF Started
  <2>5. \A i \in 1..(n + 1) : \A t \in QIn(qs[i]) : ~Alive(b.rc, t)
    <3> SUFFICES ASSUME NEW i \in 1..(n + 1), NEW t \in QIn(qs[i])
                 PROVE  ~Alive(b.rc, t)
      OBVIOUS
    <3>1. CASE i \in 1..n
      <4>1. ~Alive(a.rc, t) /\ t \in Target
        BY <3>1 DEF Idle, QIn
      <4> QED BY <1>8, <4>1
    <3>2. CASE i = n + 1
      BY <2>2, <3>2 DEF QIn
    <3> QED BY <1>1, <3>1, <3>2
  <2> QED BY <1>12, <2>3, <2>4, <2>5 DEF Seen, Idle
<1> QED BY <1>11, <1>12

\* One round of the loop.
LEMMA TrySeen ==
  ASSUME NEW r, NEW qs \in Seq(Seq(Target)), NEW a, NEW n \in Nat, n + 1 \in DOMAIN qs,
         Tracked(r), config \in Config, Grouping, QTarget \subseteq Target,
         Tries(r, a), OneGroup(r), Ordered(r, qs), Queued(r, qs), Seen(r, qs, a, n),
         NEW q, q = qs[n + 1], NEW b, b = tryQueue(a, q)
  PROVE  Seen(r, qs, b, n + 1)
<1>1. q \in Seq(Target)
  <2> DEFINE T == Seq(Target)
  <2>1. qs \in Seq(T)
    OBVIOUS
  <2> HIDE DEF T
  <2>2. q \in T
    BY <2>1
  <2> QED BY <2>2 DEF T
<1>2. CASE q = <<>> /\ ~a.active
  <2>1. b = a
    BY <1>2 DEF tryQueue
  <2>2. QIn(q) = {}
    <3>1. ToSet(<<>>) = {}
      BY Elements
    <3> QED BY <1>2, <3>1 DEF QIn
  <2>3. Idle(r, qs, a, n)
    BY <1>2 DEF Seen
  <2>4. \A i \in 1..(n + 1) : i \in 1..n \/ i = n + 1
    OBVIOUS
  <2>5. Idle(r, qs, a, n + 1)
    BY <2>2, <2>3, <2>4 DEF Idle
  <2> QED BY <1>2, <2>1, <2>5 DEF Seen
<1>3. CASE ~(q = <<>> /\ ~a.active) /\ (a.active \/ ~isMyType(a.rc, Head(q)))
  <2>1. b = [a EXCEPT !.queues = Append(@, q)]
    BY <1>3 DEF tryQueue
  <2>2. b.rc = a.rc /\ b.active = a.active /\ b.queues = Append(a.queues, q)
    BY <2>1 DEF Tries, Loop
  <2>3. ASSUME ~a.active
        PROVE  QIn(q) = {}
    <3>1. q # <<>> /\ ~isMyType(a.rc, Head(q))
      BY <1>3, <2>3
    <3>2. Head(q) \in ToSet(q) /\ Head(q) \in Target
      <4>1. 1 \in DOMAIN q /\ Head(q) = q[1]
        BY <1>1, <3>1
      <4> QED BY <1>1, <4>1 DEF ToSet
    <3>3. Head(q) \notin QTarget
      <4> SUFFICES ASSUME Head(q) \in QTarget
                   PROVE  FALSE
        OBVIOUS
      <4>1. Head(q) \in QIn(q)
        BY <3>2 DEF QIn
      <4>2. r.where[Head(q)] # "none"
        BY <4>1 DEF Ordered
      <4>3. a.rc.where[Head(q)] # "none"
        BY <3>2, <4>2, StartsWhere DEF Tries
      <4> QED BY <3>1, <4>3 DEF isMyType
    <3> QED BY <3>2, <3>3 DEF Ordered
  <2>4. b.queues = Append(a.queues, qs[n + 1]) /\ (~a.active => QIn(qs[n + 1]) = {})
    BY <2>2, <2>3
  <2> QED BY <2>2, <2>4, PassSeen
<1>4. CASE ~(q = <<>> /\ ~a.active) /\ ~(a.active \/ ~isMyType(a.rc, Head(q)))
  <2> DEFINE g == groupsOf(a, q)
  <2>1. b = afterGroups(a, q, g) /\ g = groupsOf(a, q)
    BY <1>4 DEF tryQueue, groupsOf
  <2> HIDE DEF g
  <2>2. /\ q # <<>> /\ isMyType(a.rc, Head(q)) /\ ~a.active /\ Idle(r, qs, a, n)
    BY <1>4 DEF Seen
  <2> QED BY <2>1, <2>2, GroupSeen
<1> QED BY <1>2, <1>3, <1>4

\* The whole loop.
LEMMA LoopSeen ==
  ASSUME NEW r, Tracked(r), config \in Config, Grouping, QTarget \subseteq Target,
         NEW qs, qs = r.queues, OneGroup(r), Ordered(r, qs), Queued(r, qs),
         NEW c \in Seq(Target), NEW a, a = tryQueues(r, c)
  PROVE  qs \in Seq(Seq(Target)) /\ Tries(r, a) /\ Seen(r, qs, a, Len(qs))
<1>0. qs \in Seq(Seq(Target)) /\ Len(qs) \in Nat /\ DOMAIN qs = 1..Len(qs)
  BY DEF Tracked, Context, Queues
<1>1. PICK run : Runs(run, Kind("tryQueues"), qs, NoneTried(r, c), a)
  BY <1>0, QueueRuns
<1> DEFINE P == {n \in Nat : n <= Len(qs) => Tries(r, run[n]) /\ Seen(r, qs, run[n], n)}
<1>2. 0 \in P
  <2>1. run[0] = NoneTried(r, c)
    BY <1>1 DEF Runs
  <2>2. <<>> \in Queues /\ <<>> \in Seq(Target)
    BY DEF Queues
  <2> DEFINE b == run[0]
  <2>3. /\ b \in Loop /\ b.rc = r /\ b.begin = <<>> /\ b.cancel = c /\ b.queues = <<>> /\ ~b.active
    BY <2>1, <2>2 DEF NoneTried, Loop, Tracked
  <2> HIDE DEF b
  <2>4. Tries(r, b)
    BY <2>2, <2>3, ProceedsRefl DEF Tries
  <2>5. Started(r, b.rc) = {} /\ 1..0 = {} /\ DOMAIN b.queues = {}
    BY <2>3 DEF Started
  <2>6. Seen(r, qs, b, 0)
    BY <2>3, <2>5 DEF Seen, Idle
  <2> QED BY <2>4, <2>6 DEF b
<1>3. ASSUME NEW n \in Nat, n \in P
      PROVE  n + 1 \in P
  <2> SUFFICES ASSUME n + 1 <= Len(qs)
               PROVE  Tries(r, run[n + 1]) /\ Seen(r, qs, run[n + 1], n + 1)
    OBVIOUS
  <2> DEFINE x == run[n]
  <2> DEFINE y == run[n + 1]
  <2> DEFINE q == qs[n + 1]
  <2>1. y = tryQueue(x, q)
    <3>1. run[n + 1] = Move(Kind("tryQueues"), qs, run[n], qs[n + 1])
      BY <1>0, <1>1, n + 1 \in 1..Len(qs), n + 1 - 1 = n DEF Runs
    <3> QED BY <3>1 DEF Move, Kind
  <2>2. q \in Seq(Target) /\ n + 1 \in DOMAIN qs /\ q = qs[n + 1]
    BY <1>0
  <2>3. Tries(r, x) /\ Seen(r, qs, x, n)
    BY <1>0, <1>3
  <2> HIDE DEF x, y, q
  <2>4. Tries(r, y)
    BY <2>1, <2>2, <2>3, TryQueueTries
  <2>5. Seen(r, qs, y, n + 1)
    BY <1>0, <2>1, <2>2, <2>3, TrySeen
  <2> QED BY <2>4, <2>5 DEF y
<1> HIDE DEF P
<1>4. Len(qs) \in P
  BY <1>0, <1>2, <1>3, Induction
<1> QED BY <1>0, <1>1, <1>4 DEF P, Runs

\* Nothing of the q-value handler is left.
LEMMA NoneAlive ==
  ASSUME NEW s, \A t \in QTarget : ~Alive(s, t), \A i \in DOMAIN s.queues : QIn(s.queues[i]) = {}
  PROVE  Grouped(s)
<1>1. OneGroup(s)
  BY DEF OneGroup, In, Alive
<1>2. Ordered(s, s.queues) /\ Queued(s, s.queues) /\ Cleared(s, s.queues)
  BY DEF Ordered, Queued, Cleared
<1> QED BY <1>1, <1>2 DEF Grouped, Lined

LEMMA LoopGroups ==
  ASSUME NEW r, Tracked(r), config \in Config, Grouping, QTarget \subseteq Target,
         Lined(r), ~r.mHaveSentFinalResponse, NEW c \in Seq(Target), NEW a, a = tryQueues(r, c)
  PROVE  Grouped(schedule(a)) /\ (~a.active => Grouped(SimpleTargetHandler(schedule(a))))
<1> DEFINE qs == r.queues
<1> DEFINE s == schedule(a)
<1>1. OneGroup(r) /\ Ordered(r, qs) /\ Queued(r, qs)
  BY DEF Lined
<1>2. qs \in Seq(Seq(Target)) /\ Tries(r, a) /\ Seen(r, qs, a, Len(qs))
  <2>1. qs = r.queues
    OBVIOUS
  <2> HIDE DEF qs
  <2> QED BY <1>1, <2>1, LoopSeen
<1>3. Starts(r, s) /\ s.where = a.rc.where /\ s.queues = a.queues /\ s.clients = a.rc.clients
  BY <1>2, ScheduleKeeps
<1>4. Len(qs) \in Nat /\ DOMAIN qs = 1..Len(qs)
  BY <1>2
<1> HIDE DEF s, qs
<1>5. \A t : Alive(s, t) <=> Alive(a.rc, t)
  BY <1>3 DEF Alive
<1>6. CASE a.active
  <2>1. Busy(qs, a, Len(qs))
    BY <1>2, <1>6 DEF Seen
  <2>2. \A j \in DOMAIN qs : ~(j > Len(qs))
    BY <1>4
  <2>3. OneGroup(s)
    BY <1>3, <2>1 DEF Busy, OneGroup, In
  <2>4. Ordered(s, s.queues)
    BY <1>3, <2>1 DEF Busy, Ordered
  <2>5. Cleared(s, s.queues)
    BY <1>3, <2>1 DEF Busy, Cleared
  <2>6. Queued(s, s.queues)
    BY <1>3, <1>5, <2>1, <2>2 DEF Busy, Queued
  <2> QED BY <1>6, <2>3, <2>4, <2>5, <2>6 DEF Grouped, Lined, s
<1>7. CASE ~a.active
  <2>1. Idle(r, qs, a, Len(qs))
    BY <1>2, <1>7 DEF Seen
  <2>2. \A t \in QTarget : ~Alive(s, t)
    <3> SUFFICES ASSUME NEW t \in QTarget, Alive(s, t)
                 PROVE  FALSE
      OBVIOUS
    <3>1. Alive(a.rc, t) /\ Alive(r, t)
      BY <1>3, <1>5, StartsWhere
    <3>2. PICK i \in DOMAIN qs : t \in ToSet(qs[i])
      BY <1>1, <3>1 DEF Queued
    <3> QED BY <1>4, <2>1, <3>1, <3>2 DEF Idle, QIn
  <2>3. \A i \in DOMAIN s.queues : QIn(s.queues[i]) = {}
    BY <1>3, <2>1 DEF Idle
  <2> DEFINE u == SimpleTargetHandler(s)
  <2>4. Starts(s, u) /\ u.queues = s.queues
    BY <1>3, SimpleStarts DEF Starts, Proceeds
  <2> HIDE DEF u
  <2>5. \A t \in QTarget : ~Alive(u, t)
    BY <2>2, <2>4, StartsWhere
  <2>6. \A i \in DOMAIN u.queues : QIn(u.queues[i]) = {}
    BY <2>3, <2>4
  <2>7. Grouped(s) /\ Grouped(u)
    BY <2>2, <2>3, <2>5, <2>6, NoneAlive
  <2> QED BY <2>7 DEF s, u
<1> QED BY <1>6, <1>7

\* After the final response nothing is begun.
LEMMA AnsweredGroups ==
  ASSUME NEW r, NEW s, Lined(r), Proceeds(r, s), r.mHaveSentFinalResponse, QTarget \subseteq Target
  PROVE  Grouped(s)
<1>1. \A t \in Target : s.where[t] = "Active" => r.where[t] = "Active"
  BY DEF Proceeds
<1>2. s.mHaveSentFinalResponse
  BY DEF Proceeds
<1> QED BY <1>1, <1>2 DEF Grouped, Lined, OneGroup, In

LEMMA ChainGroups ==
  ASSUME NEW r, Tracked(r), config \in Config, Grouping, QTarget \subseteq Target, Lined(r)
  PROVE  Grouped(targetChain(r, NoFork, FALSE))
<1> DEFINE a == tryQueues(r, <<>>)
<1>1. targetChain(r, NoFork, FALSE) =
        IF a.active THEN schedule(a) ELSE SimpleTargetHandler(schedule(a))
  BY DEF targetChain, QValueTargetHandler, afterLoop, Grouping
<1>2. CASE r.mHaveSentFinalResponse
  BY <1>2, ChainStarts, AnsweredGroups DEF Starts
<1>3. CASE ~r.mHaveSentFinalResponse
  <2>1. <<>> \in Seq(Target) /\ a = tryQueues(r, <<>>)
    OBVIOUS
  <2> HIDE DEF a
  <2>2. Grouped(schedule(a)) /\ (~a.active => Grouped(SimpleTargetHandler(schedule(a))))
    BY <1>3, <2>1, LoopGroups
  <2> QED BY <1>1, <2>2
<1> QED BY <1>2, <1>3

LEMMA ForkGroups ==
  ASSUME NEW r, Tracked(r), config \in Config, Grouping, QTarget \subseteq Target, Lined(r),
         NEW fc \in Fork
  PROVE  Grouped(targetChain(r, fc, TRUE))
<1> DEFINE s == onForkControl(r, fc)
<1> DEFINE a == tryQueues(s, <<>>)
<1>1. targetChain(r, fc, TRUE) = schedule(a)
  BY DEF targetChain, QValueTargetHandler, afterLoop, Grouping
<1>2. CASE r.mHaveSentFinalResponse
  BY <1>2, ForkChainProceeds, AnsweredGroups
<1>3. CASE ~r.mHaveSentFinalResponse
  <2>1. /\ Proceeds(r, s) /\ s.queues = r.queues
        /\ \A t \in Target : \/ s.where[t] = r.where[t]
                             \/ r.where[t] = "Candidate" /\ s.where[t] = "Terminated"
    BY ForkControlProceeds DEF Grouping
  <2> HIDE DEF s
  <2>2. Started(r, s) = {}
    BY <2>1 DEF Started
  <2>3. Narrows(r, s) /\ Tracked(s) /\ ~s.mHaveSentFinalResponse
    <3>1. s.clients = r.clients /\ Tracked(s)
      BY <2>1, <2>2 DEF Proceeds
    <3>2. s.mTransactionCount = r.mTransactionCount
      <4>1. Cardinality(r.clients) \in Nat
        BY ConfigAssumption, FS_Subset, FS_CardinalityType DEF Tracked, Context
      <4>2. s.mTransactionCount \in Int /\ r.mTransactionCount \in Int
        BY <3>1 DEF Tracked, Context
      <4>3. s.mTransactionCount - Cardinality(s.clients) = r.mTransactionCount - Cardinality(r.clients)
        BY <2>1 DEF Proceeds
      <4> QED BY <3>1, <4>1, <4>2, <4>3
    <3>3. /\ s.method = r.method /\ s.mHaveSentFinalResponse = r.mHaveSentFinalResponse
          /\ ~s.mHaveSentFinalResponse
      BY <1>3, <2>1 DEF Proceeds
    <3> QED BY <2>1, <3>1, <3>2, <3>3 DEF Narrows
  <2>4. Lined(s)
    BY <2>3, NarrowsLined
  <2>5. <<>> \in Seq(Target) /\ a = tryQueues(s, <<>>)
    OBVIOUS
  <2> HIDE DEF a
  <2>6. Grouped(schedule(a))
    BY <2>3, <2>4, <2>5, LoopGroups
  <2> QED BY <1>1, <2>6
<1> QED BY <1>2, <1>3
-----------------------------------------------------------------------------
(* What the handlers do before and after the target chain. *)

\* No queue of b has targets of both kinds, and none is in two queues.
Fits(b) ==
  /\ \A i \in DOMAIN b : ToSet(b[i]) \subseteq QTarget \/ QIn(b[i]) = {}
  /\ \A i, j \in DOMAIN b : i < j => QIn(b[i]) \cap QIn(b[j]) = {}

LEMMA AddLined ==
  ASSUME NEW r, Tracked(r), Lined(r), QTarget \subseteq Target, NEW b, b \in Seq(Seq(Target)),
         Fits(b), NEW an, New(r, an, targetsOf(b)), NEW s, s = addBatch(r, b)
  PROVE  Lined(s)
<1> DEFINE N == targetsOf(b)
<1> DEFINE qs == r.queues
<1> DEFINE ps == qs \o b
<1> DEFINE m == Len(qs)
<1> DEFINE n == Len(b)
<1>1. CASE r.mHaveSentFinalResponse
  BY <1>1 DEF addBatch
<1>2. CASE ~r.mHaveSentFinalResponse
  <2>1. Adds(r, s, N) /\ s.queues = ps
    BY <1>2, AddBatchAdds
  <2>2. /\ s.clients = r.clients /\ ~s.mHaveSentFinalResponse
        /\ \A t \in Target : s.where[t] = IF t \in N THEN "Candidate" ELSE r.where[t]
    BY <1>2, <2>1 DEF Adds
  <2>3. /\ m \in Nat /\ n \in Nat /\ DOMAIN qs = 1..m /\ DOMAIN b = 1..n
        /\ DOMAIN ps = 1..(m + n)
        /\ \A i \in 1..m : ps[i] = qs[i]
        /\ \A i \in 1..n : m + i \in DOMAIN ps /\ ps[m + i] = b[i]
        /\ \A i \in 1..(m + n) : i \in 1..m \/ (i - m \in 1..n /\ ps[i] = b[i - m])
    <3> DEFINE T == Seq(Target)
    <3>1. qs \in Seq(T) /\ b \in Seq(T)
      BY DEF Tracked, Context, Queues
    <3> HIDE DEF T, qs
    <3>2. /\ m \in Nat /\ n \in Nat /\ DOMAIN qs = 1..m /\ DOMAIN b = 1..n
          /\ DOMAIN ps = 1..(m + n)
          /\ \A i \in 1..m : ps[i] = qs[i]
          /\ \A i \in 1..n : ps[m + i] = b[i]
      BY <3>1
    <3> HIDE DEF ps, m, n
    <3>3. ASSUME NEW i \in 1..(m + n)
          PROVE  i \in 1..m \/ (i - m \in 1..n /\ ps[i] = b[i - m])
      <4>1. i \in 1..m \/ (i - m \in 1..n /\ m + (i - m) = i)
        BY <3>2
      <4> QED BY <3>2, <4>1
    <3>4. \A i \in 1..n : m + i \in 1..(m + n)
      BY <3>2
    <3> QED BY <3>2, <3>3, <3>4
  <2>4. \A t \in N : t \in Target /\ r.where[t] = "none" /\ t \notin r.clients
    BY DEF New
  <2>5. \A i \in DOMAIN b : ToSet(b[i]) \subseteq N
    <3>1. \A i \in DOMAIN b : b[i] \in ToSet(b)
      BY DEF ToSet
    <3> QED BY <3>1 DEF targetsOf
  <2>6. OneGroup(r) /\ Ordered(r, qs) /\ Queued(r, qs)
    BY <1>2 DEF Lined
  <2> HIDE DEF N, qs, ps, m, n
  <2>7. OneGroup(s)
    <3>1. \A t \in Target : s.where[t] = "Active" => r.where[t] = "Active"
      BY <2>2
    <3> QED BY <2>6, <3>1 DEF OneGroup, In
  <2>8. \A i \in 1..m : \A t \in QIn(qs[i]) : t \in Target /\ t \notin N /\ r.where[t] # "none"
    BY <2>3, <2>4, <2>6 DEF Ordered, QIn
  <2>9. \A i \in 1..n : \A t \in QIn(b[i]) : t \in Target /\ t \in N
    BY <2>3, <2>4, <2>5 DEF QIn
  <2>10. ASSUME NEW i \in DOMAIN ps
         PROVE  /\ ToSet(ps[i]) \subseteq QTarget \/ QIn(ps[i]) = {}
                /\ \A t \in QIn(ps[i]) : s.where[t] # "none"
    <3>1. CASE i \in 1..m
      <4>1. ps[i] = qs[i] /\ i \in DOMAIN qs
        BY <2>3, <3>1
      <4> QED BY <2>2, <2>6, <2>8, <3>1, <4>1 DEF Ordered
    <3>2. CASE i - m \in 1..n /\ ps[i] = b[i - m]
      <4>1. i - m \in DOMAIN b
        BY <2>3, <3>2
      <4> QED BY <2>2, <2>9, <3>2, <4>1 DEF Fits
    <3> QED BY <2>3, <2>10, <3>1, <3>2
  <2>11. ASSUME NEW i \in DOMAIN ps, NEW j \in DOMAIN ps, i < j
         PROVE  /\ QIn(ps[i]) \cap QIn(ps[j]) = {}
                /\ QIn(ps[j]) \cap s.clients # {} => QIn(ps[i]) = {}
    <3>1. CASE j \in 1..m
      <4>1. i \in DOMAIN qs /\ j \in DOMAIN qs /\ ps[i] = qs[i] /\ ps[j] = qs[j]
        BY <2>3, <2>11, <3>1
      <4> QED BY <2>2, <2>6, <2>11, <4>1 DEF Ordered
    <3>2. CASE j - m \in 1..n /\ ps[j] = b[j - m]
      <4>1. QIn(ps[j]) \cap s.clients = {}
        BY <2>2, <2>4, <2>9, <3>2
      <4>2. CASE i \in 1..m
        <5>1. ps[i] = qs[i]
          BY <2>3, <4>2
        <5> QED BY <2>8, <2>9, <3>2, <4>1, <4>2, <5>1
      <4>3. CASE i - m \in 1..n /\ ps[i] = b[i - m]
        <5>1. i - m < j - m /\ i - m \in DOMAIN b /\ j - m \in DOMAIN b
          BY <2>3, <2>11, <3>2, <4>3
        <5>2. QIn(b[i - m]) \cap QIn(b[j - m]) = {}
          BY <5>1 DEF Fits
        <5> QED BY <3>2, <4>1, <4>3, <5>2
      <4> QED BY <2>3, <2>11, <4>2, <4>3
    <3> QED BY <2>3, <2>11, <3>1, <3>2
  <2>12. ASSUME NEW t \in QTarget, Alive(s, t)
         PROVE  \E i \in DOMAIN ps : t \in ToSet(ps[i])
    <3>1. CASE t \in N
      <4>1. PICK i \in DOMAIN b : t \in ToSet(b[i])
        BY <3>1 DEF N, targetsOf, ToSet
      <4>2. m + i \in DOMAIN ps /\ ps[m + i] = b[i]
        BY <2>3
      <4> QED BY <4>1, <4>2
    <3>2. CASE t \notin N
      <4>1. Alive(r, t)
        BY <2>2, <2>12, <3>2 DEF Alive
      <4>2. PICK i \in DOMAIN qs : t \in ToSet(qs[i])
        BY <2>6, <4>1 DEF Queued
      <4>3. i \in DOMAIN ps /\ ps[i] = qs[i]
        BY <2>3
      <4> QED BY <4>2, <4>3
    <3> QED BY <3>1, <3>2
  <2>13. Ordered(s, s.queues) /\ Queued(s, s.queues)
    BY <2>1, <2>10, <2>11, <2>12 DEF Ordered, Queued
  <2> QED BY <2>7, <2>13 DEF Lined
<1> QED BY <1>1, <1>2

\* The batches of the request chain.
LEMMA BatchFits ==
  ASSUME config \in Config, Grouping, NEW b \in Batches
  PROVE  Fits(b)
<1>1. \A q \in ToSet(b) : ToSet(q) \subseteq QTarget \/ ToSet(q) \cap QTarget = {}
  BY DEF Grouping, Unmixed
<1>2. \A i \in DOMAIN b : b[i] \in ToSet(b)
  BY DEF ToSet
<1>3. \A i, j \in DOMAIN b : \A k \in DOMAIN b[i], l \in DOMAIN b[j] :
        b[i][k] = b[j][l] => i = j /\ k = l
  BY ConfigIs
<1>4. b \in Seq(Seq(Target))
  BY ConfigIs
<1>5. ASSUME NEW i \in DOMAIN b, NEW j \in DOMAIN b, i < j
      PROVE  QIn(b[i]) \cap QIn(b[j]) = {}
  <2> SUFFICES ASSUME NEW t \in ToSet(b[i]), t \in ToSet(b[j])
               PROVE  FALSE
    BY DEF QIn
  <2>1. PICK k \in DOMAIN b[i] : t = b[i][k]
    BY DEF ToSet
  <2>2. PICK l \in DOMAIN b[j] : t = b[j][l]
    BY DEF ToSet
  <2>3. i = j
    BY <1>3, <2>1, <2>2
  <2>4. i \in Int
    <3> DEFINE T == Seq(Target)
    <3>1. b \in Seq(T)
      BY <1>4
    <3> HIDE DEF T
    <3> QED BY <3>1
  <2> QED BY <1>5, <2>3, <2>4
<1> QED BY <1>1, <1>2, <1>5 DEF Fits, QIn

\* The lists of a redirection.
LEMMA RedirectFits ==
  ASSUME NEW N, N \subseteq Target, NEW b, b = [i \in 1..Cardinality(N) |-> <<SetToSeq(N)[i]>>]
  PROVE  Fits(b)
<1> DEFINE f == SetToSeq(N)
<1> DEFINE n == Cardinality(N)
<1>0. IsFiniteSet(N) /\ n \in Nat
  BY ConfigAssumption, FS_Subset, FS_CardinalityType
<1>1. f \in Seq(N) /\ Len(f) = n /\ IsInjective(f)
  BY <1>0, SetToSeqLists
<1> HIDE DEF f, n
<1>2. DOMAIN b = 1..n /\ \A i \in 1..n : b[i] = <<f[i]>>
  BY DEF f, n
<1>3. \A i, j \in 1..n : f[i] = f[j] => i = j
  <2>1. DOMAIN f = 1..n
    BY <1>0, <1>1
  <2> QED BY <1>1, <2>1 DEF IsInjective
<1>4. \A x : ToSet(<<x>>) = {x}
  BY DEF ToSet
<1>5. \A i \in 1..n : QIn(b[i]) \subseteq {f[i]} /\ ToSet(b[i]) = {f[i]}
  BY <1>2, <1>4 DEF QIn
<1>6. \A i \in DOMAIN b : ToSet(b[i]) \subseteq QTarget \/ QIn(b[i]) = {}
  <2> SUFFICES ASSUME NEW i \in 1..n, QIn(b[i]) # {}
               PROVE  ToSet(b[i]) \subseteq QTarget
    BY <1>2
  <2>1. f[i] \in QTarget
    BY <1>5 DEF QIn
  <2> QED BY <1>5, <2>1
<1>7. \A i, j \in DOMAIN b : i < j => QIn(b[i]) \cap QIn(b[j]) = {}
  <2> SUFFICES ASSUME NEW i \in 1..n, NEW j \in 1..n, i < j, NEW t \in QIn(b[i]), t \in QIn(b[j])
               PROVE  FALSE
    BY <1>2
  <2>1. f[i] = f[j]
    BY <1>5
  <2>2. i = j
    BY <1>3, <2>1
  <2> QED BY <2>2
<1> QED BY <1>6, <1>7 DEF Fits

LEMMA SentLined ==
  ASSUME NEW r, Tracked(r), Lined(r), QTarget \subseteq Target, NEW c \in Code, c > 199,
         NEW s, s = sendResponse(r, c)
  PROVE  Grouped(s) /\ Tracked(s) /\ s.mHaveSentFinalResponse
<1>1. Sends(r, s, c)
  BY SendIs DEF Tracked
<1>2. /\ s.where = r.where /\ s.status = r.status /\ s.clients = r.clients /\ s.timers = r.timers
      /\ s.mTCSerial = r.mTCSerial /\ s \in Context /\ s.mHaveSentFinalResponse
  BY <1>1 DEF Sends, SameBranches
<1>3. Tracked(s)
  BY <1>2 DEF Tracked
<1> QED BY <1>2, <1>3 DEF Grouped, Lined, OneGroup, In

\* From the target chain to the end of the handler.
LEMMA HandlerGroups ==
  ASSUME NEW r, Tracked(r), config \in Config, Grouping, QTarget \subseteq Target, Lined(r)
  PROVE  /\ Grouped(afterResponse(r)) /\ Grouped(afterRequestChain(r))
         /\ Grouped(afterAsyncChain(r))
<1> DEFINE c == targetChain(r, NoFork, FALSE)
<1> DEFINE u == sendResponse(r, 480)
<1>1. afterResponse(r) = onQuiescent(c)
  BY DEF afterResponse
<1>2. afterRequestChain(r) \in {r, u, onQuiescent(c)}
      /\ (~r.mHaveSentFinalResponse => afterRequestChain(r) \in {u, onQuiescent(c)})
  BY DEF afterRequestChain
<1>3. afterAsyncChain(r) \in {r, u, c, onQuiescent(c)}
      /\ (~r.mHaveSentFinalResponse => afterAsyncChain(r) \in {u, c, onQuiescent(c)})
  BY DEF afterAsyncChain
<1>4. Tracked(c) /\ Grouped(c)
  BY ChainStarts, ChainGroups DEF Starts, Proceeds
<1> HIDE DEF c
<1>5. Grouped(onQuiescent(c))
  BY <1>4, QuietGroups
<1>6. 480 \in Code /\ 480 > 199
  BY DEF Code
<1>7. Grouped(u)
  BY <1>6, SentLined
<1>8. r.mHaveSentFinalResponse => Grouped(r)
  BY DEF Grouped
<1> QED BY <1>1, <1>2, <1>3, <1>4, <1>5, <1>7, <1>8
-----------------------------------------------------------------------------
(* The groups after every handler. *)

LEMMA GroupedContext ==
  ASSUME IInv, Grouping, Grouped(rc)
  PROVE  /\ Tracked(rc) /\ config \in Config /\ QTarget \subseteq Target /\ Lined(rc)
         /\ Whole(rc, alive, server, waiting, cancelled, answer, ringing, heard)
         /\ Mid(rc, answer, ringing, heard, cancelled, waiting)
         /\ answer \in [Target -> {0} \cup Code]
BY ConfigIs DEF IInv, Whole, Mid, Typed, Grouped

LEMMA FinalGroups ==
  ASSUME IInv, Grouping, Grouped(rc), NEW t \in Target, NEW code \in Finals,
         NEW via \in {TRUE, ~ViaLess}, Final(t, code, via)
  PROVE  Grouped(rc')
<1> DEFINE s == processResponse(rc, t, code, via)
<1> DEFINE hf == IF rc.mHaveSentFinalResponse \/ ~via THEN heard ELSE heard \cup {code}
<1> DEFINE bn == answers(answer, t, code)
<1>1. /\ Tracked(rc) /\ config \in Config /\ QTarget \subseteq Target /\ Lined(rc)
      /\ Whole(rc, alive, server, waiting, cancelled, answer, ringing, heard)
      /\ Mid(rc, answer, ringing, heard, cancelled, waiting)
      /\ answer \in [Target -> {0} \cup Code]
  BY GroupedContext
<1>2. t \in rc.clients /\ answer[t] = 0 /\ rc' = afterResponse(s)
  BY DEF Final, Owed
<1>3. code \in 200..699 /\ (~via => ViaLess)
  <2>1. Finals \subseteq 200..699
    BY <1>1, ConfigIs
  <2>2. code \in 200..699
    BY <2>1
  <2> QED BY <2>2
<1>4. rc.where[t] = "Active"
  BY <1>1, <1>2 DEF Mid, Open
<1>5. Mid(s, bn, ringing, hf, cancelled, waiting) /\ Narrows(rc, s)
  <2>1. code \in Finals /\ hf = IF rc.mHaveSentFinalResponse \/ ~via THEN heard ELSE heard \cup {code}
    OBVIOUS
  <2> HIDE DEF hf
  <2> QED BY <1>1, <1>3, <1>4, <2>1, FinalMid
<1> HIDE DEF s, hf, bn
<1>6. Tracked(s) /\ Lined(s)
  BY <1>1, <1>5, NarrowsLined DEF Mid
<1> QED BY <1>1, <1>2, <1>6, HandlerGroups

LEMMA ProvisionalGroups ==
  ASSUME IInv, Grouping, Grouped(rc), NEW t \in Target, NEW code \in {100, 180},
         Provisional(t, code)
  PROVE  Grouped(rc')
<1> DEFINE s == onProvisional(rc, code)
<1>1. /\ Tracked(rc) /\ config \in Config /\ QTarget \subseteq Target /\ Lined(rc)
      /\ Mid(rc, answer, ringing, heard, cancelled, waiting)
  BY GroupedContext
<1>2. /\ t \in rc.clients /\ answer[t] = 0
      /\ rc' = afterResponse(processResponse(rc, t, code, TRUE))
  BY DEF Provisional, Owed
<1>3. rc.where[t] = "Active"
  BY <1>1, <1>2 DEF Mid, Open
<1>4. processResponse(rc, t, code, TRUE) = s
  BY <1>3 DEF processResponse
<1>5. Mid(s, answer, ringing \cup {t}, heard, cancelled, waiting) /\ Narrows(rc, s)
  BY <1>1, <1>3, ProvisionalMid
<1> HIDE DEF s
<1>6. Tracked(s) /\ Lined(s)
  BY <1>1, <1>5, NarrowsLined DEF Mid
<1> QED BY <1>1, <1>2, <1>4, <1>6, HandlerGroups

LEMMA Late2xxGroups ==
  ASSUME IInv, Grouping, Grouped(rc), NEW t \in Target, Late2xx(t, 200)
  PROVE  Grouped(rc')
<1> DEFINE s == sendResponse(rc, 200)
<1>1. /\ Tracked(rc) /\ config \in Config /\ QTarget \subseteq Target /\ Lined(rc)
      /\ Mid(rc, answer, ringing, heard, cancelled, waiting)
  BY GroupedContext
<1>2. answer[t] # 0 /\ rc' = afterResponse(processResponse(rc, t, 200, TRUE))
  BY DEF Late2xx, Owed
<1>3. processResponse(rc, t, 200, TRUE) = s
  <2>1. rc.where[t] # "Active"
    BY <1>1, <1>2 DEF Mid, Open
  <2> QED BY <2>1 DEF processResponse
<1>4. 200 \in Code /\ 200 > 199
  BY DEF Code
<1> HIDE DEF s
<1>5. Tracked(s) /\ Lined(s)
  BY <1>1, <1>4, SentLined DEF s, Grouped
<1> QED BY <1>1, <1>2, <1>3, <1>5, HandlerGroups

\* A context that lost a timer, and whose candidates may have been given up.
LEMMA TimerGroups ==
  ASSUME NEW r, Tracked(r), Grouped(r), QTarget \subseteq Target, NEW s, SameButTimers(r, s),
         NEW u, NEW stop, u = s \/ Closed(s, u, stop)
  PROVE  Grouped(u)
<1>1. /\ u.clients = r.clients /\ u.mTransactionCount = r.mTransactionCount
      /\ u.method = r.method /\ u.queues = r.queues
      /\ u.mHaveSentFinalResponse = r.mHaveSentFinalResponse
  BY DEF SameButTimers, Closed, Same
<1>2. \A t \in Target : \/ u.where[t] = r.where[t]
                        \/ r.where[t] = "Candidate" /\ u.where[t] = "Terminated"
  BY DEF SameButTimers, Closed
<1>3. Narrows(r, u) /\ \A t \in Target : r.where[t] = "Active" => u.where[t] = "Active"
  BY <1>1, <1>2 DEF Narrows
<1> QED BY <1>3, NarrowsLined DEF Grouped

LEMMA FireTimerCGroups ==
  ASSUME IInv, Grouping, Grouped(rc), NEW n \in rc.timers, FireTimerC(n)
  PROVE  Grouped(rc')
<1> DEFINE s == untimed(rc, n)
<1>1. Tracked(rc) /\ QTarget \subseteq Target
  BY GroupedContext
<1>2. rc' = IF server /\ n = rc.mTCSerial THEN processTimerC(s) ELSE s
  BY DEF FireTimerC, untimed
<1>3. SameButTimers(rc, s) /\ Tracked(s)
  BY <1>1, UntimedIs
<1> HIDE DEF s
<1> DEFINE stop == s.method = "INVITE"
<1>4. Closed(s, cancelAllClientTransactions(s), stop)
  BY <1>3, CancelAllCloses
<1>5. rc' = s \/ rc' = cancelAllClientTransactions(s)
  BY <1>2 DEF processTimerC
<1>6. rc' = s \/ Closed(s, rc', stop)
  BY <1>4, <1>5
<1> HIDE DEF stop
<1> DEFINE u == rc'
<1>7. u = s \/ Closed(s, u, stop)
  BY <1>6
<1> HIDE DEF u
<1>8. Grouped(u)
  BY <1>1, <1>3, <1>7, TimerGroups
<1> QED BY <1>8 DEF u

LEMMA FireForkControlGroups ==
  ASSUME IInv, Grouping, Grouped(rc), NEW fc \in rc.forks, FireForkControl(fc)
  PROVE  Grouped(rc')
<1> DEFINE s == unforked(rc, fc)
<1>1. Tracked(rc) /\ config \in Config /\ QTarget \subseteq Target
  BY GroupedContext
<1>2. rc' = IF server THEN targetChain(s, fc, TRUE) ELSE s
  BY DEF FireForkControl, unforked
<1>3. SameButTimers(rc, s) /\ Tracked(s)
  BY <1>1, UnforkedIs
<1>4. fc \in Fork
  BY <1>1 DEF Tracked, Context, Forks, Fork
<1> HIDE DEF s
<1> DEFINE stop == FALSE
<1>5. s = s \/ Closed(s, s, stop)
  OBVIOUS
<1> HIDE DEF stop
<1>6. Grouped(s) /\ Lined(s)
  BY <1>1, <1>3, <1>5, TimerGroups DEF Grouped
<1>7. Grouped(targetChain(s, fc, TRUE))
  BY <1>1, <1>3, <1>4, <1>6, ForkGroups
<1> QED BY <1>2, <1>6, <1>7

LEMMA ServerTerminatedGroups ==
  ASSUME IInv, Grouping, Grouped(rc), ServerTerminated
  PROVE  Grouped(rc')
<1>1. rc \in Context /\ Lined(rc)
  BY GroupedContext DEF Tracked
<1>2. rc' = release(rc) /\ rc.mHaveSentFinalResponse
  BY DEF ServerTerminated
<1>3. rc'.where = rc.where /\ rc'.mHaveSentFinalResponse
  BY <1>1, <1>2 DEF release, Context
<1> QED BY <1>1, <1>3 DEF Grouped, Lined, OneGroup, In

LEMMA ClientTerminatedGroups ==
  ASSUME IInv, Grouping, Grouped(rc), NEW t \in Target, ClientTerminated(t)
  PROVE  Grouped(rc')
<1> DEFINE w == [u \in Target |-> IF u = t THEN "none" ELSE rc.where[u]]
<1> DEFINE x == [u \in Target |-> IF u = t THEN "none" ELSE rc.status[u]]
<1> DEFINE C == rc.clients \ {t}
<1> DEFINE s == released(rc, w, x, C)
<1>1. /\ Tracked(rc) /\ rc \in Context /\ QTarget \subseteq Target /\ Lined(rc)
      /\ Mid(rc, answer, ringing, heard, cancelled, waiting)
  BY GroupedContext DEF Tracked
<1>2. t \in rc.clients /\ answer[t] # 0
      /\ rc' = [release(removeClientTransaction(rc, t)) EXCEPT !.clients = @ \ {t}]
  BY DEF ClientTerminated, Owed
<1>3. rc' = s
  <2>1. /\ w = [u \in Target |-> IF u \in {t} THEN "none" ELSE rc.where[u]]
        /\ x = [u \in Target |-> IF u \in {t} THEN "none" ELSE rc.status[u]]
    OBVIOUS
  <2> HIDE DEF w, x
  <2> QED BY <1>1, <1>2, <2>1 DEF released, release, removeClientTransaction, MoveTo, Context
<1>4. \A u \in Target : w[u] = IF u = t THEN "none" ELSE rc.where[u]
  OBVIOUS
<1> HIDE DEF w, x
<1>5. /\ s.where = w /\ s.clients = C /\ s.queues = rc.queues
      /\ s.mHaveSentFinalResponse = rc.mHaveSentFinalResponse
  BY <1>1 DEF released, Context
<1> HIDE DEF s, C
<1>6. /\ \A u \in Target : s.where[u] = IF u = t THEN "none" ELSE rc.where[u]
      /\ s.clients = rc.clients \ {t}
  BY <1>4, <1>5 DEF C
<1>7. OneGroup(s)
  <2>1. \A u \in Target : s.where[u] = "Active" => rc.where[u] = "Active"
    BY <1>6
  <2> QED BY <1>1, <2>1 DEF Lined, OneGroup, In
<1>8. ASSUME ~s.mHaveSentFinalResponse
      PROVE  Ordered(s, s.queues) /\ Queued(s, s.queues) /\ Cleared(s, s.queues)
  <2>1. Ordered(rc, rc.queues) /\ Queued(rc, rc.queues) /\ Cleared(rc, rc.queues)
    BY <1>5, <1>8 DEF Grouped, Lined
  <2>2. rc.where[t] \in {"none", "Terminated"}
    <3>1. rc.where[t] # "Active" /\ rc.where[t] # "Candidate"
      BY <1>1, <1>2 DEF Mid, Open, Tracked
    <3>2. rc.where[t] \in Map
      BY <1>1 DEF Context, Wheres
    <3> QED BY <3>1, <3>2 DEF Map
  <2>3. \A i \in DOMAIN rc.queues : t \notin QIn(rc.queues[i])
    BY <1>2, <2>1, <2>2 DEF Ordered, Cleared
  <2>4. \A i \in DOMAIN rc.queues : \A u \in QIn(rc.queues[i]) :
          u \in Target /\ u # t /\ s.where[u] = rc.where[u]
    <3>1. \A i \in DOMAIN rc.queues : \A u \in QIn(rc.queues[i]) : u \in Target
      BY <1>1 DEF QIn
    <3> QED BY <1>6, <2>3, <3>1
  <2>5. Ordered(s, rc.queues)
    BY <1>6, <2>1, <2>4 DEF Ordered
  <2>6. Cleared(s, rc.queues)
    BY <1>6, <2>1, <2>4 DEF Cleared
  <2>7. Queued(s, rc.queues)
    <3>1. \A u \in QTarget : Alive(s, u) => Alive(rc, u)
      BY <1>1, <1>6 DEF Alive
    <3> QED BY <2>1, <3>1 DEF Queued
  <2> QED BY <1>5, <2>5, <2>6, <2>7
<1> QED BY <1>3, <1>7, <1>8 DEF Grouped, Lined

LEMMA CancelGroups ==
  ASSUME IInv, Grouping, Grouped(rc), Cancel
  PROVE  Grouped(rc')
<1> DEFINE s == cancelAllClientTransactions(rc)
<1> DEFINE m == processCancel(rc)
<1>1. /\ Tracked(rc) /\ config \in Config /\ QTarget \subseteq Target /\ Lined(rc)
  BY GroupedContext
<1>2. rc' = afterRequestChain(m)
  BY DEF Cancel
<1>3. m = rc \/ m = s \/ m = sendResponse(s, 487)
  BY DEF processCancel
<1> DEFINE stop == rc.method = "INVITE"
<1>4. Closed(rc, s, stop)
  BY <1>1, CancelAllCloses
<1> HIDE DEF stop, s, m
<1>5. Narrows(rc, s) /\ Tracked(s)
  BY <1>4 DEF Closed, Same, Narrows
<1>6. Lined(s)
  BY <1>1, <1>5, NarrowsLined
<1>7. 487 \in Code /\ 487 > 199
  BY DEF Code
<1> DEFINE v == sendResponse(s, 487)
<1>8. Lined(v) /\ Tracked(v)
  BY <1>1, <1>5, <1>6, <1>7, SentLined DEF Grouped
<1> HIDE DEF v
<1>9. m = rc \/ m = s \/ m = v
  BY <1>3 DEF v
<1>10. Lined(m) /\ Tracked(m)
  BY <1>1, <1>5, <1>6, <1>8, <1>9
<1> QED BY <1>1, <1>2, <1>10, HandlerGroups

\* The queues that the request chain adds to a context that has none.
LEMMA BatchLined ==
  ASSUME config \in Config, Grouping, Tracked(rc), Lined(rc), QTarget \subseteq Target,
         Untouched(rc, answer, ringing, heard), NEW b \in Batches
  PROVE  Tracked(addBatch(rc, b)) /\ Lined(addBatch(rc, b))
<1> DEFINE N == targetsOf(b)
<1> DEFINE s == addBatch(rc, b)
<1>1. b \in Seq(Seq(Target))
  BY ConfigIs
<1>2. New(rc, answer, N)
  <2>1. \A q \in ToSet(b) : q \in Seq(Target)
    BY <1>1 DEF ToSet
  <2>2. \A q \in Seq(Target) : ToSet(q) \subseteq Target
    BY DEF ToSet
  <2>3. N \subseteq Target
    BY <2>1, <2>2 DEF targetsOf
  <2> QED BY <2>3 DEF New, Untouched
<1>3. Fits(b)
  BY BatchFits
<1>4. Tracked(s)
  BY <1>1, <1>2, AddBatchAdds
<1>5. s = addBatch(rc, b)
  OBVIOUS
<1> HIDE DEF s
<1>6. Lined(s)
  BY <1>1, <1>2, <1>3, <1>5, AddLined
<1> QED BY <1>4, <1>6 DEF s

\* A refusal by a monkey.
LEMMA AuthLined ==
  ASSUME Tracked(rc), Lined(rc), QTarget \subseteq Target, NEW c \in AuthCodes
  PROVE  Tracked(sendResponse(rc, c)) /\ Lined(sendResponse(rc, c))
<1> DEFINE s == sendResponse(rc, c)
<1>1. c \in Code /\ c > 199
  <2>1. c \in 300..699
    BY ConfigAssumption
  <2> QED BY <2>1 DEF Code
<1>2. s = sendResponse(rc, c)
  OBVIOUS
<1> HIDE DEF s
<1>3. Grouped(s) /\ Tracked(s)
  BY <1>1, <1>2, SentLined
<1> QED BY <1>3 DEF Grouped, s

LEMMA RequestGroups ==
  ASSUME IInv, Grouping, Grouped(rc), Request
  PROVE  Grouped(rc')
<1>1. /\ Tracked(rc) /\ config \in Config /\ QTarget \subseteq Target /\ Lined(rc)
      /\ Whole(rc, alive, server, waiting, cancelled, answer, ringing, heard)
  BY GroupedContext
<1>2. Untouched(rc, answer, ringing, heard)
  BY <1>1 DEF Request, Whole, Typed
<1>3. CASE UNCHANGED rc
  BY <1>3
<1>4. ASSUME NEW c \in AuthCodes, rc' = afterRequestChain(sendResponse(rc, c))
      PROVE  Grouped(rc')
  BY <1>1, <1>4, AuthLined, HandlerGroups
<1>5. ASSUME NEW b \in Batches, rc' = afterRequestChain(addBatch(rc, b))
      PROVE  Grouped(rc')
  BY <1>1, <1>2, <1>5, BatchLined, HandlerGroups
<1> QED BY <1>3, <1>4, <1>5 DEF Request

LEMMA UserInfoGroups ==
  ASSUME IInv, Grouping, Grouped(rc), UserInfo
  PROVE  Grouped(rc')
<1>1. /\ Tracked(rc) /\ config \in Config /\ QTarget \subseteq Target /\ Lined(rc)
      /\ Whole(rc, alive, server, waiting, cancelled, answer, ringing, heard)
  BY GroupedContext
<1>2. Untouched(rc, answer, ringing, heard)
  BY <1>1 DEF UserInfo, Whole, Typed
<1>3. CASE UNCHANGED rc
  BY <1>3
<1>4. ASSUME NEW c \in AuthCodes, rc' = afterAsyncChain(sendResponse(rc, c))
      PROVE  Grouped(rc')
  BY <1>1, <1>4, AuthLined, HandlerGroups
<1>5. ASSUME NEW b \in Batches, rc' = afterAsyncChain(addBatch(rc, b))
      PROVE  Grouped(rc')
  BY <1>1, <1>2, <1>5, BatchLined, HandlerGroups
<1> QED BY <1>3, <1>4, <1>5 DEF UserInfo

LEMMA RedirectGroups ==
  ASSUME IInv, Grouping, Grouped(rc), NEW t \in Target, NEW N \in SUBSET Spare, Redirect(t, N)
  PROVE  Grouped(rc')
<1> DEFINE b == [i \in 1..Cardinality(N) |-> <<SetToSeq(N)[i]>>]
<1> DEFINE r == addBatch(rc, b)
<1> DEFINE s == terminateClientTransaction(r, t)
<1>1. /\ Tracked(rc) /\ config \in Config /\ QTarget \subseteq Target /\ Lined(rc)
      /\ Mid(rc, answer, ringing, heard, cancelled, waiting)
  BY GroupedContext
<1>2. /\ t \in rc.clients /\ answer[t] = 0
      /\ \A n \in N : rc.where[n] = "none" /\ n \notin rc.clients /\ answer[n] = 0
      /\ rc' = afterResponse(s)
  BY DEF Redirect, Owed
<1>3. N \subseteq Target
  BY <1>1, ConfigIs
<1>4. b = [i \in 1..Cardinality(N) |-> <<SetToSeq(N)[i]>>]
  OBVIOUS
<1>5. b \in Seq(Seq(Target)) /\ targetsOf(b) \subseteq N
  BY <1>3, RedirectLists
<1> HIDE DEF b
<1>6. New(rc, answer, targetsOf(b))
  BY <1>2, <1>3, <1>5 DEF New
<1>7. Fits(b)
  BY <1>3, <1>4, RedirectFits
<1>8. r = addBatch(rc, b) /\ Tracked(r) /\ Adds(rc, r, targetsOf(b))
  BY <1>1, <1>5, <1>6, AddBatchAdds
<1> HIDE DEF r
<1>9. Lined(r)
  BY <1>1, <1>5, <1>6, <1>7, <1>8, AddLined
<1>10. r.where[t] = "Active"
  <2>1. rc.where[t] = "Active"
    BY <1>1, <1>2 DEF Mid, Open
  <2>2. t \notin targetsOf(b)
    BY <2>1, <1>6 DEF New
  <2> QED BY <1>8, <2>1, <2>2 DEF Adds
<1>11. Tracked(s) /\ Moved(r, s, {t}, "Terminated", "Terminated")
  BY <1>8, <1>10, TerminateIs
<1> HIDE DEF s
<1>12. Narrows(r, s)
  BY <1>10, <1>11 DEF Narrows, Moved, Same
<1>13. Lined(s)
  BY <1>1, <1>8, <1>9, <1>12, NarrowsLined
<1> QED BY <1>1, <1>2, <1>11, <1>13, HandlerGroups

\* The queues are in order in the setups that OneGroupAtATime speaks of.
GInv == Grouping => Grouped(rc)

LEMMA InitGroups == Init => GInv
<1> SUFFICES ASSUME Init
             PROVE  Grouped(rc)
  BY DEF GInv
<1>1. PICK m \in Methods : rc = NewContext(m)
  BY DEF Init
<1>2. rc.queues = <<>> /\ rc.where = [t \in Target |-> "none"]
  BY <1>1 DEF NewContext
<1>3. DOMAIN rc.queues = {} /\ QTarget \subseteq Target
  BY <1>2, ConfigIs DEF Init
<1>4. \A t \in QTarget : ~Alive(rc, t)
  BY <1>2, <1>3 DEF Alive
<1> QED BY <1>3, <1>4, NoneAlive

LEMMA StepGroups ==
  ASSUME IInv, Grouping, Grouped(rc), Next
  PROVE  Grouped(rc')
<1>1. CASE Request
  BY <1>1, RequestGroups
<1>2. CASE UserInfo
  BY <1>2, UserInfoGroups
<1>3. CASE Cancel
  BY <1>3, CancelGroups
<1>4. CASE ServerTerminated
  BY <1>4, ServerTerminatedGroups
<1>5. ASSUME NEW t \in Target, NEW code \in {100, 180}, Provisional(t, code)
      PROVE  Grouped(rc')
  BY <1>5, ProvisionalGroups
<1>6. ASSUME NEW t \in Target, NEW code \in Finals, NEW via \in {TRUE, ~ViaLess}, Final(t, code, via)
      PROVE  Grouped(rc')
  BY <1>6, FinalGroups
<1>7. ASSUME NEW t \in Target, NEW N \in SUBSET Spare, Redirect(t, N)
      PROVE  Grouped(rc')
  BY <1>7, RedirectGroups
<1>8. ASSUME NEW t \in Target, Late2xx(t, 200)
      PROVE  Grouped(rc')
  BY <1>8, Late2xxGroups
<1>9. ASSUME NEW t \in Target, ClientTerminated(t)
      PROVE  Grouped(rc')
  BY <1>9, ClientTerminatedGroups
<1>10. ASSUME NEW n \in rc.timers, FireTimerC(n)
       PROVE  Grouped(rc')
  BY <1>10, FireTimerCGroups
<1>11. ASSUME NEW fc \in rc.forks, FireForkControl(fc)
       PROVE  Grouped(rc')
  BY <1>11, FireForkControlGroups
<1> QED BY <1>1, <1>2, <1>3, <1>4, <1>5, <1>6, <1>7, <1>8, <1>9, <1>10, <1>11 DEF Next

LEMMA GroupsNext ==
  ASSUME config' = config, Grouping => Grouped(rc')
  PROVE  GInv'
<1>1. Grouping' <=> Grouping
  BY DEF Grouping, Unmixed, Batches, QTarget, mDoQValue, mWaitForTerminate, mForkBehavior
<1>2. QTarget' = QTarget /\ \A q : QIn(q)' = QIn(q)
  BY DEF QTarget, QIn
<1>3. Grouped(rc') => Grouped(rc)'
  BY <1>2 DEF Grouped, Lined, OneGroup, Ordered, Queued, Cleared, Alive, In, QIn
<1> QED BY <1>1, <1>3 DEF GInv

\* With mWaitForTerminate QValueTargetHandler has one fork group active at most: the
\* next one is begun when nothing of the queues before it is left to wait for.
THEOREM GroupsInTurn == Spec => []OneGroupAtATime
<1>1. IInv /\ GInv /\ [Next]_vars => GInv'
  <2> SUFFICES ASSUME IInv, GInv, [Next]_vars
               PROVE  GInv'
    OBVIOUS
  <2>1. CASE Next
    <3>1. config' = config
      BY <2>1, ConfigStays
    <3>2. Grouping => Grouped(rc')
      BY <2>1, StepGroups DEF GInv
    <3> QED BY <3>1, <3>2, GroupsNext
  <2>2. CASE UNCHANGED vars
    <3>1. config' = config /\ rc' = rc
      BY <2>2 DEF vars
    <3>2. Grouping => Grouped(rc')
      BY <3>1 DEF GInv
    <3> QED BY <3>1, <3>2, GroupsNext
  <2> QED BY <2>1, <2>2
<1>2. GInv => OneGroupAtATime
  BY DEF GInv, Grouping, Grouped, Lined, OneGroup, OneGroupAtATime
<1> QED BY Invariance, InitGroups, <1>1, <1>2, PTL DEF Spec

\* The request context stays consistent: types, maps, counts, owed answers, timers
\* and groups, through every handler of the proxy thread.
THEOREM ContextKept == Spec => []ContextConsistent
<1>1. TypeOK /\ (StatusMatchesMap /\ CountMatchesMaps /\ ActiveIsOwed /\ TimerCArmed)
      /\ OneGroupAtATime /\ NoBadBaboon => ContextConsistent
  BY DEF ContextConsistent
<1> QED BY TypesKept, BranchesTracked, GroupsInTurn, BaboonsAreGood, <1>1, PTL

=============================================================================
