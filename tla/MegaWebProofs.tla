--------------------------- MODULE MegaWebProofs ---------------------------
(***************************************************************************)
(* Proofs about MegaWeb for any number of slots, clients and SIP requests: *)
(* no answer is lost on its way from the callback of the dialog usage      *)
(* manager to the connection that asked last, although msgmap and          *)
(* resultmap are shared without a lock, and no connection is overwritten.  *)
(***************************************************************************)
EXTENDS MegaWeb, TLAPS

\* The last request of a slot has been sent, its answer will be looked up under
\* that slot, and the slot has an entry in the result map to put it in.
Asked(s) ==
  mConnection[s].req # 0 =>
    /\ mConnection[s].req <= sent
    /\ msgmap[mConnection[s].req] = s
    /\ resultmap[s].known

\* The requests that are under way have been sent.
PendingSent == \A i \in pending : i <= sent

IInv == TypeOK /\ PendingSent /\ (\A s \in Slot : Asked(s)) /\ NoAnswerLost

-----------------------------------------------------------------------------
(* The operators of the web thread *)

\* Slots are numbered from 0, and the one after a slot that is not the last is a slot.
LEMMA SlotFacts ==
  /\ 0 \in Slot /\ Slot \subseteq Nat
  /\ \A s \in Slot : s # MaxConnections - 1 => s + 1 \in Slot
  BY MegaWebAssumption DEF Slot

\* The next search starts at a slot.
LEMMA FollowingSlot == \A s \in Slot : following(s) \in Slot
  <1> SUFFICES ASSUME NEW s \in Slot PROVE following(s) \in Slot
    OBVIOUS
  <1>1. s + 1 \in Int /\ MaxConnections \in Nat \ {0}
    BY MegaWebAssumption DEF Slot
  <1>2. (s + 1) % MaxConnections \in 0 .. MaxConnections - 1
    BY <1>1
  <1> QED BY <1>2 DEF following, Slot

\* After any slot the loop polls the next one or goes back to select.
LEMMA AfterTyped ==
  ASSUME NEW s \in Slot
  PROVE  after(s) \in [pc : {"select", "read"}, slot : Slot]
  BY SlotFacts, MegaWebAssumption DEF after, Slot

\* A connection without a client has nothing else either.
LEMMA NoConnectionTyped == NoConnection \in Connection
  BY DEF NoConnection, Connection

\* The web thread takes a snapshot of its descriptors.
LEMMA StepSelect ==
  ASSUME IInv, Select
  PROVE  IInv'
  <1> USE DEF IInv, Select, webVars, sipVars
  <1>1. TypeOK'
    BY SlotFacts, FollowingSlot, AfterTyped, NoConnectionTyped, MegaWebAssumption DEF TypeOK,
       Open, Connection, Id, Result
  <1>2. PendingSent'
    BY DEF PendingSent, TypeOK, Id
  <1>3. (\A u \in Slot : Asked(u))'
    BY DEF Asked, TypeOK, Open, Connection, Id, Result, NoConnection, PendingSent
  <1>4. NoAnswerLost'
    BY DEF NoAnswerLost, Asked, TypeOK, Open, Connection, Id, Result, NoConnection, PendingSent
  <1> QED BY <1>1, <1>2, <1>3, <1>4

\* A slot that is free keeps nothing of the connection it held before.
LEMMA StepAccept ==
  ASSUME IInv, NEW c \in Client, Accept(c)
  PROVE  IInv'
  <1> USE DEF IInv
  <1> DEFINE new == [NoConnection EXCEPT !.who = c]
  <1>1. /\ waiting' \in SUBSET Client
        /\ UNCHANGED <<fdset, resultmap, sipVars, handler>>
    BY DEF Accept, TypeOK
  <1>2. CASE Open = Slot /\ web' = [pc |-> "searching", slot |-> 0]
                         /\ UNCHANGED <<mConnection, nextConnection>>
    <2>1. TypeOK'
      BY <1>1, <1>2, SlotFacts DEF TypeOK, sipVars
    <2> QED BY <1>1, <1>2, <2>1 DEF PendingSent, Asked, NoAnswerLost, Open, sipVars
  <1>3. ASSUME NEW s \in Slot, mConnection' = [mConnection EXCEPT ![s] = new],
               nextConnection' = following(s), web' = [pc |-> "read", slot |-> 0]
        PROVE  IInv'
    <2>1. new \in Connection /\ new.req = 0
      BY NoConnectionTyped DEF Connection, NoConnection
    <2> HIDE DEF new
    <2>2. /\ mConnection' \in [Slot -> Connection]
          /\ mConnection'[s].req = 0
          /\ \A u \in Slot \ {s} : mConnection'[u] = mConnection[u]
      BY <1>3, <2>1 DEF TypeOK
    <2>3. TypeOK'
      BY <1>1, <1>3, <2>2, SlotFacts, FollowingSlot DEF TypeOK, sipVars
    <2>4. PendingSent'
      BY <1>1 DEF PendingSent, sipVars
    <2>5. (\A u \in Slot : Asked(u))'
      BY <1>1, <2>2 DEF Asked, sipVars
    <2>6. NoAnswerLost'
      BY <1>1, <2>2 DEF NoAnswerLost, Open, sipVars
    <2> QED BY <2>3, <2>4, <2>5, <2>6
  <1> QED BY <1>2, <1>3 DEF Accept

\* Nobody is waiting, or the listening descriptor is not ready.
LEMMA StepNoAccept ==
  ASSUME IInv, NoAccept
  PROVE  IInv'
  <1> USE DEF IInv, NoAccept, webVars, sipVars
  <1>1. TypeOK'
    BY SlotFacts, FollowingSlot, AfterTyped, NoConnectionTyped, MegaWebAssumption DEF TypeOK,
       Open, Connection, Id, Result
  <1>2. PendingSent'
    BY DEF PendingSent, TypeOK, Id
  <1>3. (\A u \in Slot : Asked(u))'
    BY DEF Asked, TypeOK, Open, Connection, Id, Result, NoConnection, PendingSent
  <1>4. NoAnswerLost'
    BY DEF NoAnswerLost, Asked, TypeOK, Open, Connection, Id, Result, NoConnection, PendingSent
  <1> QED BY <1>1, <1>2, <1>3, <1>4

\* A slot that is closed is passed over.
LEMMA StepSkipSlot ==
  ASSUME IInv, SkipSlot
  PROVE  IInv'
  <1> USE DEF IInv, SkipSlot, webVars, sipVars
  <1>1. TypeOK'
    BY SlotFacts, FollowingSlot, AfterTyped, NoConnectionTyped, MegaWebAssumption DEF TypeOK,
       Open, Connection, Id, Result
  <1>2. PendingSent'
    BY DEF PendingSent, TypeOK, Id
  <1>3. (\A u \in Slot : Asked(u))'
    BY DEF Asked, TypeOK, Open, Connection, Id, Result, NoConnection, PendingSent
  <1>4. NoAnswerLost'
    BY DEF NoAnswerLost, Asked, TypeOK, Open, Connection, Id, Result, NoConnection, PendingSent
  <1> QED BY <1>1, <1>2, <1>3, <1>4

\* A connection that is done is closed and its slot emptied.
LEMMA StepCloses ==
  ASSUME IInv, ProcessCloses
  PROVE  IInv'
  <1> USE DEF IInv, ProcessCloses, close, webVars, sipVars
  <1>1. TypeOK'
    BY SlotFacts, FollowingSlot, AfterTyped, NoConnectionTyped, MegaWebAssumption DEF TypeOK,
       Open, Connection, Id, Result
  <1>2. PendingSent'
    BY DEF PendingSent, TypeOK, Id
  <1>3. (\A u \in Slot : Asked(u))'
    BY DEF Asked, TypeOK, Open, Connection, Id, Result, NoConnection, PendingSent
  <1>4. NoAnswerLost'
    BY DEF NoAnswerLost, Asked, TypeOK, Open, Connection, Id, Result, NoConnection, PendingSent
  <1> QED BY <1>1, <1>2, <1>3, <1>4

\* A connection that has sent nothing is left for the next round.
LEMMA StepReadsNothing ==
  ASSUME IInv, ProcessReadsNothing
  PROVE  IInv'
  <1> USE DEF IInv, ProcessReadsNothing, webVars, sipVars
  <1>1. TypeOK'
    BY SlotFacts, FollowingSlot, AfterTyped, NoConnectionTyped, MegaWebAssumption DEF TypeOK,
       Open, Connection, Id, Result
  <1>2. PendingSent'
    BY DEF PendingSent, TypeOK, Id
  <1>3. (\A u \in Slot : Asked(u))'
    BY DEF Asked, TypeOK, Open, Connection, Id, Result, NoConnection, PendingSent
  <1>4. NoAnswerLost'
    BY DEF NoAnswerLost, Asked, TypeOK, Open, Connection, Id, Result, NoConnection, PendingSent
  <1> QED BY <1>1, <1>2, <1>3, <1>4

\* A new request takes a number that no slot has yet; the other slots keep theirs.
LEMMA StepSends ==
  ASSUME IInv, ProcessSends
  PROVE  IInv'
  <1> USE DEF IInv
  <1> DEFINE s == web.slot
             conn == [mConnection[s] EXCEPT !.req = sent']
  <1>1. /\ s \in Slot
        /\ sent' = sent + 1 /\ sent' \in Id /\ sent' \in 0 .. MaxMessages
    BY MegaWebAssumption DEF ProcessSends, sipReq, TypeOK, Open, Id
  <1>2. /\ resultmap' = [resultmap EXCEPT ![s] = Result]
        /\ msgmap' = [msgmap EXCEPT ![sent'] = s]
        /\ pending' = pending \cup {sent'}
        /\ asker' = [asker EXCEPT ![sent'] = mConnection[s].who]
        /\ mConnection' = [mConnection EXCEPT ![s] = conn]
        /\ web' = [web EXCEPT !.pc = "result"]
        /\ UNCHANGED <<waiting, nextConnection, fdset, handler>>
    BY DEF ProcessSends, sipReq
  <1>3. conn \in Connection /\ conn.req = sent'
    <2>1. mConnection[s] \in Connection
      BY <1>1 DEF TypeOK
    <2> QED BY <1>1, <2>1 DEF Connection
  <1> HIDE DEF s, conn
  <1>4. /\ mConnection' \in [Slot -> Connection]
        /\ mConnection'[s].req = sent'
        /\ \A u \in Slot \ {s} : mConnection'[u] = mConnection[u]
    BY <1>1, <1>2, <1>3 DEF TypeOK
  <1>5. TypeOK'
    <2>1. resultmap' \in [Slot -> [known : BOOLEAN, end : BOOLEAN, data : Client \cup {NoClient}]]
      BY <1>2 DEF TypeOK, Result
    <2>2. /\ msgmap' \in [Id -> Slot]
          /\ asker' \in [Id -> Client \cup {NoClient}]
      BY <1>1, <1>2 DEF TypeOK, Connection
    <2> QED BY <1>1, <1>2, <1>4, <2>1, <2>2 DEF TypeOK
  <1>6. PendingSent'
    BY <1>1, <1>2 DEF PendingSent, TypeOK, Id
  <1>7. (\A u \in Slot : Asked(u))'
    <2>1. ASSUME NEW u \in Slot \ {s}, mConnection[u].req # 0
          PROVE  /\ mConnection[u].req <= sent' /\ msgmap'[mConnection[u].req] = u
                 /\ resultmap'[u].known
      <3>1. mConnection[u].req \in Id /\ mConnection[u].req # sent'
        BY <1>1, <2>1 DEF Asked, TypeOK, Connection, Id
      <3> QED BY <1>1, <1>2, <2>1, <3>1 DEF Asked, TypeOK, Id
    <2>2. msgmap'[sent'] = s /\ resultmap'[s].known /\ sent' <= sent'
      BY <1>1, <1>2 DEF TypeOK, Result
    <2> QED BY <1>4, <2>1, <2>2 DEF Asked
  <1>8. NoAnswerLost'
    <2>1. \A u \in Slot \ {s} : resultmap'[u] = resultmap[u]
      BY <1>2 DEF TypeOK
    <2> QED BY <1>2, <1>4, <2>1 DEF NoAnswerLost, Open
  <1> QED BY <1>5, <1>6, <1>7, <1>8

\* A request that cannot be sent leaves the slot as it is.
LEMMA StepThrows ==
  ASSUME IInv, ProcessThrows
  PROVE  IInv'
  <1> USE DEF IInv, ProcessThrows, webVars, sipVars
  <1>1. TypeOK'
    BY ZenonT(60), SlotFacts, FollowingSlot, AfterTyped, NoConnectionTyped, MegaWebAssumption
       DEF TypeOK, Open, Connection, Id, Result
  <1>2. PendingSent'
    BY DEF PendingSent, TypeOK, Id
  <1>3. (\A u \in Slot : Asked(u))'
    BY DEF Asked, TypeOK, Open, Connection, Id, Result, NoConnection, PendingSent
  <1>4. NoAnswerLost'
    BY DEF NoAnswerLost, Asked, TypeOK, Open, Connection, Id, Result, NoConnection, PendingSent
  <1> QED BY <1>1, <1>2, <1>3, <1>4

\* A finished result is taken out of the result map into the output buffer.
LEMMA StepResult ==
  ASSUME IInv, ProcessResult
  PROVE  IInv'
  <1> USE DEF IInv
  <1> DEFINE s == web.slot
             conn == [mConnection[s] EXCEPT !.tx = setResp(s)]
             read == [resultmap[s] EXCEPT !.known = TRUE, !.end = FALSE]
  <1>1. /\ s \in Slot
        /\ UNCHANGED <<waiting, nextConnection, fdset, sipVars, handler>>
        /\ web' = after(s)
    BY DEF ProcessResult, TypeOK
  <1>2. \/ mConnection' = [mConnection EXCEPT ![s] = conn]
        \/ mConnection' = [mConnection EXCEPT ![s] = NoConnection]
    BY DEF ProcessResult, processSomeWrites
  <1>3. resultmap' = [resultmap EXCEPT ![s] = read]
    BY DEF ProcessResult, TypeOK
  <1>4. /\ conn \in Connection /\ conn.req = mConnection[s].req /\ conn.who = mConnection[s].who
        /\ conn.tx = setResp(s)
    <2>1. mConnection[s] \in Connection
      BY <1>1 DEF TypeOK
    <2>2. setResp(s) \in SUBSET (Client \cup {NoClient})
      BY <1>1, <2>1 DEF TypeOK, Connection, setResp
    <2> HIDE DEF s
    <2> QED BY <2>1, <2>2 DEF Connection
  <1>5. /\ read \in [known : BOOLEAN, end : BOOLEAN, data : Client \cup {NoClient}]
        /\ read.known
    BY ZenonT(60), <1>1 DEF TypeOK
  <1>6. resultmap[s].end \/ mConnection[s].tx # {} => setResp(s) # {}
    BY DEF setResp
  <1> HIDE DEF s, conn, read
  <1>7. /\ mConnection' \in [Slot -> Connection]
        /\ mConnection'[s] \in {conn, NoConnection}
        /\ \A u \in Slot \ {s} : mConnection'[u] = mConnection[u]
    BY <1>1, <1>2, <1>4, NoConnectionTyped DEF TypeOK
  <1>8. /\ resultmap' \in [Slot -> [known : BOOLEAN, end : BOOLEAN, data : Client \cup {NoClient}]]
        /\ resultmap'[s].known
        /\ \A u \in Slot \ {s} : resultmap'[u] = resultmap[u]
    BY <1>1, <1>3, <1>5 DEF TypeOK
  <1>9. TypeOK'
    <2>1. web' \in [pc : {"select", "accept", "read", "result", "searching"}, slot : Slot]
      BY <1>1, AfterTyped
    <2> QED BY <1>1, <1>7, <1>8, <2>1 DEF TypeOK, sipVars
  <1>10. PendingSent'
    BY <1>1 DEF PendingSent, sipVars
  <1>11. (\A u \in Slot : Asked(u))'
    BY <1>1, <1>4, <1>7, <1>8 DEF Asked, sipVars, NoConnection
  <1>12. NoAnswerLost'
    <2>1. ASSUME NEW u \in Slot \ {s}, mConnection'[u].who # NoClient, mConnection'[u].req # 0
          PROVE  \/ mConnection[u].req \in pending
                 \/ handler.pc # "idle" /\ handler.pn = u
                 \/ resultmap[u].end \/ mConnection[u].tx # {}
      BY <1>7, <2>1 DEF NoAnswerLost, Open
    <2>2. ASSUME mConnection'[s].who # NoClient, mConnection'[s].req # 0
          PROVE  \/ mConnection[s].req \in pending
                 \/ handler.pc # "idle" /\ handler.pn = s
                 \/ setResp(s) # {}
      <3>1. mConnection[s].who # NoClient /\ mConnection[s].req # 0
        BY <1>4, <1>7, <2>2 DEF NoConnection
      <3> QED BY <1>1, <1>6, <3>1 DEF NoAnswerLost, Open
    <2>3. mConnection'[s].req # 0 =>
            mConnection'[s].req = mConnection[s].req /\ mConnection'[s].tx = setResp(s)
      BY <1>4, <1>7 DEF NoConnection
    <2> QED BY <1>1, <1>7, <1>8, <2>1, <2>2, <2>3 DEF NoAnswerLost, Open, sipVars
  <1> QED BY <1>9, <1>10, <1>11, <1>12

\* The connections that are open grow older.
LEMMA StepTimePasses ==
  ASSUME IInv, NEW s \in Slot, TimePasses(s)
  PROVE  IInv'
  <1> USE DEF IInv, TimePasses, webVars, sipVars
  <1>1. TypeOK'
    BY ZenonT(60), SlotFacts, FollowingSlot, AfterTyped, NoConnectionTyped, MegaWebAssumption
       DEF TypeOK, Open, Connection, Id, Result
  <1>2. PendingSent'
    BY DEF PendingSent, TypeOK, Id
  <1>3. (\A u \in Slot : Asked(u))'
    BY DEF Asked, TypeOK, Open, Connection, Id, Result, NoConnection, PendingSent
  <1>4. NoAnswerLost'
    BY DEF NoAnswerLost, Asked, TypeOK, Open, Connection, Id, Result, NoConnection, PendingSent
  <1> QED BY <1>1, <1>2, <1>3, <1>4

\* The dialog usage manager takes up an answer.
LEMMA StepResponseArrives ==
  ASSUME IInv, NEW i \in Id, ResponseArrives(i)
  PROVE  IInv'
  <1> USE DEF IInv, ResponseArrives, Idle, webVars, sipVars
  <1>1. TypeOK'
    BY SlotFacts, FollowingSlot, AfterTyped, NoConnectionTyped, MegaWebAssumption DEF TypeOK,
       Open, Connection, Id, Result
  <1>2. PendingSent'
    BY DEF PendingSent, TypeOK, Id
  <1>3. (\A u \in Slot : Asked(u))'
    BY DEF Asked, TypeOK, Open, Connection, Id, Result, NoConnection, PendingSent
  <1>4. NoAnswerLost'
    BY DEF NoAnswerLost, Asked, TypeOK, Open, Connection, Id, Result, NoConnection, PendingSent
  <1> QED BY <1>1, <1>2, <1>3, <1>4

\* The first half of the callback: the text of the answer.
LEMMA StepStoreResult ==
  ASSUME IInv, StoreResult
  PROVE  IInv'
  <1> USE DEF IInv, StoreResult, webVars, sipVars
  <1>1. TypeOK'
    <2> DEFINE r == [resultmap[handler.pn] EXCEPT !.data = handler.who]
    <2>0. resultmap[handler.pn] \in [known : BOOLEAN, end : BOOLEAN, data : Client \cup {NoClient}]
      BY DEF TypeOK
    <2>1. r \in [known : BOOLEAN, end : BOOLEAN, data : Client \cup {NoClient}]
      BY <2>0 DEF TypeOK
    <2>2. resultmap' = [resultmap EXCEPT ![handler.pn] = r]
      BY DEF TypeOK
    <2>3. handler' \in [pc : {"idle", "store", "finish"}, pn : Slot, who : Client \cup {NoClient}]
      BY SlotFacts DEF TypeOK
    <2>4. UNCHANGED <<webVars, sipVars>>
      OBVIOUS
    <2> HIDE DEF r, FinishResult, StoreResult
    <2> QED BY <2>1, <2>2, <2>3, <2>4 DEF TypeOK
  <1>2. PendingSent'
    BY DEF PendingSent, TypeOK, Id
  <1>3. (\A u \in Slot : Asked(u))'
    BY DEF Asked, TypeOK, Open, Connection, Id, Result, NoConnection, PendingSent
  <1>4. NoAnswerLost'
    BY DEF NoAnswerLost, Asked, TypeOK, Open, Connection, Id, Result, NoConnection, PendingSent
  <1> QED BY <1>1, <1>2, <1>3, <1>4

\* The second half of the callback: the answer is marked as complete.
LEMMA StepFinishResult ==
  ASSUME IInv, FinishResult
  PROVE  IInv'
  <1> USE DEF IInv, FinishResult, Idle, webVars, sipVars
  <1>1. TypeOK'
    <2> DEFINE r == [resultmap[handler.pn] EXCEPT !.end = TRUE]
    <2>0. resultmap[handler.pn] \in [known : BOOLEAN, end : BOOLEAN, data : Client \cup {NoClient}]
      BY DEF TypeOK
    <2>1. r \in [known : BOOLEAN, end : BOOLEAN, data : Client \cup {NoClient}]
      BY <2>0 DEF TypeOK
    <2>2. resultmap' = [resultmap EXCEPT ![handler.pn] = r]
      BY DEF TypeOK
    <2>3. handler' \in [pc : {"idle", "store", "finish"}, pn : Slot, who : Client \cup {NoClient}]
      BY SlotFacts DEF TypeOK
    <2>4. UNCHANGED <<webVars, sipVars>>
      OBVIOUS
    <2> HIDE DEF r, FinishResult, StoreResult
    <2> QED BY <2>1, <2>2, <2>3, <2>4 DEF TypeOK
  <1>2. PendingSent'
    BY DEF PendingSent, TypeOK, Id
  <1>3. (\A u \in Slot : Asked(u))'
    BY DEF Asked, TypeOK, Open, Connection, Id, Result, NoConnection, PendingSent
  <1>4. NoAnswerLost'
    BY DEF NoAnswerLost, Asked, TypeOK, Open, Connection, Id, Result, NoConnection, PendingSent
  <1> QED BY <1>1, <1>2, <1>3, <1>4

\* No connection is open and nothing has been asked.
LEMMA InitIInv == Init => IInv
  <1> SUFFICES ASSUME Init PROVE IInv
    OBVIOUS
  <1>1. \A s \in Slot : mConnection[s] = NoConnection
    BY DEF Init
  <1>2. mConnection \in [Slot -> Connection]
    BY NoConnectionTyped DEF Init
  <1>3. resultmap \in [Slot -> [known : BOOLEAN, end : BOOLEAN, data : Client \cup {NoClient}]]
    BY DEF Init, Result
  <1>4. sent \in 0 .. MaxMessages
    BY MegaWebAssumption DEF Init
  <1>5. TypeOK
    BY <1>2, <1>3, <1>4, SlotFacts DEF Init, TypeOK, Idle
  <1>6. PendingSent
    <2>1. pending = {}
      BY DEF Init
    <2>2. \A i \in pending : FALSE
      BY <2>1
    <2> QED BY <2>2, Zenon DEF PendingSent
  <1> QED BY <1>1, <1>5, <1>6 DEF IInv, Asked, NoAnswerLost, Open, NoConnection

\* No step of either thread breaks the invariant.
LEMMA NextIInv == IInv /\ [Next]_vars => IInv'
  <1> SUFFICES ASSUME IInv, [Next]_vars PROVE IInv'
    OBVIOUS
  <1>1. CASE WebThread
    BY <1>1, StepSelect, StepAccept, StepNoAccept, StepSkipSlot, StepCloses, StepReadsNothing,
       StepSends, StepThrows, StepResult
    DEF WebThread
  <1>2. CASE UNCHANGED vars
    BY <1>2 DEF vars, webVars, sipVars, IInv, TypeOK, PendingSent, Asked, NoAnswerLost, Open
  <1>3. CASE Searching
    BY <1>2, <1>3 DEF Searching
  <1> QED
    BY <1>1, <1>2, <1>3, StepTimePasses, StepResponseArrives, StepStoreResult, StepFinishResult
    DEF Next

\* Every reachable state satisfies the inductive invariant.
LEMMA SpecIInv == Spec => []IInv
  BY InitIInv, NextIInv, PTL DEF Spec

\* The variables keep their types for any number of slots, clients and requests
\* (MegaWebServer.hxx, Common.hxx).
THEOREM TypeCorrect == Spec => []TypeOK
  <1>1. IInv => TypeOK
    BY DEF IInv
  <1> QED BY <1>1, SpecIInv, PTL

\* A connection that has asked will be answered, or has been: wherever the two
\* threads are, its last request is pending, its answer is being stored, waits
\* in the result map or is in the output buffer
\* (MegaClientPagerMessageHandler::onSuccess, MegaHttpConnection::process).
THEOREM AnswerNeverLost == Spec => []NoAnswerLost
  <1>1. IInv => NoAnswerLost
    BY DEF IInv
  <1> QED BY <1>1, SpecIInv, PTL

\* A client gets a slot only when its last connection has been deleted: the round
\* robin of MegaWebServer::process never overwrites one that is in use.
THEOREM SlotNeverOverwritten == Spec => SlotKept
  <1>1. ASSUME TypeOK, [Next]_vars
        PROVE  [\A s \in Open : mConnection'[s].who \in {mConnection[s].who, NoClient}]_vars
    <2> USE <1>1 DEF Open
    <2>1. CASE WebThread
      <3>1. CASE Select \/ NoAccept \/ SkipSlot \/ ProcessReadsNothing
        BY <3>1 DEF Select, NoAccept, SkipSlot, ProcessReadsNothing
      <3>2. ASSUME NEW c \in Client, Accept(c)
            PROVE  \A s \in Open : mConnection'[s].who = mConnection[s].who
        BY <3>2 DEF Accept, freeSlot, TypeOK
      <3>3. CASE ProcessCloses
        BY <3>3 DEF ProcessCloses, close, TypeOK, NoConnection
      <3>4. CASE ProcessSends
        BY <3>4 DEF ProcessSends, sipReq, TypeOK, Connection
      <3>5. CASE ProcessThrows
        BY <3>5 DEF ProcessThrows, TypeOK, Connection
      <3>6. CASE ProcessResult
        <4>1. ASSUME NEW tx, mConnection' = [mConnection EXCEPT ![web.slot].tx = tx]
              PROVE  \A s \in Open : mConnection'[s].who = mConnection[s].who
          BY <4>1 DEF TypeOK, Connection
        <4>2. CASE mConnection' = [mConnection EXCEPT ![web.slot] = NoConnection]
          BY <4>2 DEF TypeOK, NoConnection
        <4> QED BY <3>6, <4>1, <4>2 DEF ProcessResult, processSomeWrites
      <3> QED BY <2>1, <3>1, <3>2, <3>3, <3>4, <3>5, <3>6 DEF WebThread
    <2>2. ASSUME NEW s \in Slot, TimePasses(s)
          PROVE  \A u \in Open : mConnection'[u].who = mConnection[u].who
      BY <2>2 DEF TimePasses, TypeOK, Connection
    <2>3. ASSUME UNCHANGED mConnection
          PROVE  \A s \in Open : mConnection'[s].who = mConnection[s].who
      BY <2>3
    <2> QED BY <2>1, <2>2, <2>3
            DEF Next, Searching, ResponseArrives, StoreResult, FinishResult, vars, webVars
  <1> QED BY <1>1, TypeCorrect, PTL DEF Spec, SlotKept

=============================================================================
