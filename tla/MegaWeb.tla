------------------------------ MODULE MegaWeb ------------------------------
(***************************************************************************)
(* The gateway that turns an HTTP request into a SIP MESSAGE and its       *)
(* answer into the HTTP response (repro/megaeyes).  The web server thread  *)
(* accepts connections into a table of slots and polls every connection in *)
(* turn; the thread of the dialog usage manager stores each SIP answer     *)
(* under the slot number of the connection that asked.  Both share msgmap  *)
(* and resultmap without a lock.                                           *)
(***************************************************************************)
EXTENDS Integers, FiniteSets

CONSTANTS
  MaxConnections,  \* slots of the connection table
  Client,          \* HTTP connections, each made at most once
  NoClient,
  MaxMessages,     \* bound on the SIP requests of a behaviour
  AcceptErrors     \* may accept() fail?

ASSUME MegaWebAssumption ==
  /\ MaxConnections \in Nat \ {0}
  /\ NoClient \notin Client
  /\ MaxMessages \in Nat
  /\ AcceptErrors \in BOOLEAN

Slot == 0 .. MaxConnections - 1
Id == 1 .. MaxMessages          \* handle ids, never reused

VARIABLES
  waiting,        \* clients that have not been accepted yet
  mConnection,    \* the slot table
  nextConnection,
  fdset,          \* slots whose sockets the last select looked at
  web,            \* where the web thread is
  resultmap,      \* the result of each slot
  msgmap,         \* the slot of each SIP request, never erased
  sent,           \* number of SIP requests so far
  pending,        \* SIP requests without a final response
  asker,          \* (for the properties) the client behind each request
  handler         \* where the callback of the dialog usage manager is

webVars == <<waiting, mConnection, nextConnection, fdset, web>>
sipVars == <<msgmap, sent, pending, asker>>
vars == <<webVars, resultmap, sipVars, handler>>

\* tx holds the askers of the answers in mTxBuffer, req the SIP request of
\* the connection's last HTTP request (0: none), late that it is older than 30 s.
NoConnection == [who |-> NoClient, late |-> FALSE, tx |-> {}, req |-> 0]
Connection == [who : Client \cup {NoClient}, late : BOOLEAN,
               tx : SUBSET (Client \cup {NoClient}), req : {0} \cup Id]
Open == {s \in Slot : mConnection[s].who # NoClient}

\* known: the map has an entry; data: whose answer it holds.
Result == [known |-> TRUE, end |-> FALSE, data |-> NoClient]
Idle == [pc |-> "idle", pn |-> 0, who |-> NoClient]

Init ==
  /\ waiting = Client
  /\ mConnection = [s \in Slot |-> NoConnection]
  /\ nextConnection = 0
  /\ fdset = {}
  /\ web = [pc |-> "select", slot |-> 0]
  /\ resultmap = [s \in Slot |-> [Result EXCEPT !.known = FALSE]]
  /\ msgmap = [i \in Id |-> 0]
  /\ sent = 0
  /\ pending = {}
  /\ asker = [i \in Id |-> NoClient]
  /\ handler = Idle

-----------------------------------------------------------------------------
(* The web server thread.                                                  *)

\* buildFdSet and select.
Select ==
  /\ web.pc = "select"
  /\ fdset' = Open
  /\ web' = [pc |-> "accept", slot |-> 0]
  /\ UNCHANGED <<waiting, mConnection, nextConnection, resultmap, sipVars, handler>>

\* The slot that the search, round robin from nextConnection, ends at.
freeSlot(s) ==
  /\ s \notin Open
  /\ \A t \in Slot \ Open :
       (s - nextConnection) % MaxConnections <= (t - nextConnection) % MaxConnections

\* Mutant: the round robin does not wrap.
successor(s) == s + 1

\* Where the next search starts.
following(s) == (s + 1) % MaxConnections

\* A new connection.  If every slot is in use the search never ends.
Accept(c) ==
  /\ web.pc = "accept"
  /\ c \in waiting
  /\ waiting' = waiting \ {c}
  /\ \/ /\ Open = Slot
        /\ web' = [pc |-> "searching", slot |-> 0]
        /\ UNCHANGED <<mConnection, nextConnection>>
     \/ \E s \in Slot :
          /\ freeSlot(s)
          /\ mConnection' = [mConnection EXCEPT ![s] = [NoConnection EXCEPT !.who = c]]
          /\ nextConnection' = following(s)
          /\ web' = [pc |-> "read", slot |-> 0]
  /\ UNCHANGED <<fdset, resultmap, sipVars, handler>>

\* Nobody connects, or accept() fails and the connections are not polled.
NoAccept ==
  /\ web.pc = "accept"
  /\ \/ web' = [pc |-> "read", slot |-> 0]
     \/ AcceptErrors /\ web' = [pc |-> "select", slot |-> 0]
  /\ UNCHANGED <<waiting, mConnection, nextConnection, fdset, resultmap, sipVars, handler>>

\* After slot s the loop goes on with the next one.
after(s) == IF s + 1 = MaxConnections THEN [pc |-> "select", slot |-> 0]
                                       ELSE [pc |-> "read", slot |-> s + 1]

SkipSlot ==
  /\ web.pc = "read"
  /\ web.slot \notin Open
  /\ web' = after(web.slot)
  /\ UNCHANGED <<waiting, mConnection, nextConnection, fdset, resultmap, sipVars, handler>>

\* process returns false: the connection is deleted.  Nothing else is touched.
close(s) ==
  /\ mConnection' = [mConnection EXCEPT ![s] = NoConnection]
  /\ web' = after(s)
  /\ UNCHANGED <<waiting, nextConnection, fdset, resultmap, sipVars, handler>>

\* Mutant: the age of a connection is not looked at.
neverExpired(s) == FALSE

expired(s) == mConnection[s].late

\* The 30 s limit, an exception or read error, or the client closed.
ProcessCloses ==
  /\ web.pc = "read"
  /\ web.slot \in Open
  /\ expired(web.slot) \/ web.slot \in fdset
  /\ close(web.slot)

\* Nothing to read, or the request is not complete.
ProcessReadsNothing ==
  /\ web.pc = "read"
  /\ web.slot \in Open
  /\ ~ expired(web.slot)
  /\ web' = [web EXCEPT !.pc = "result"]
  /\ UNCHANGED <<waiting, mConnection, nextConnection, fdset, resultmap, sipVars, handler>>

\* sipReq: the slot's result is reset before the request is sent, so no answer
\* comes between the two.
sipReq(s) ==
  /\ sent < MaxMessages
  /\ sent' = sent + 1
  /\ resultmap' = [resultmap EXCEPT ![s] = Result]
  /\ msgmap' = [msgmap EXCEPT ![sent'] = s]
  /\ pending' = pending \cup {sent'}
  /\ asker' = [asker EXCEPT ![sent'] = mConnection[s].who]
  /\ mConnection' = [mConnection EXCEPT ![s].req = sent']

\* The request is complete.  Later bytes on the connection parse it again.
ProcessSends ==
  /\ web.pc = "read"
  /\ web.slot \in Open \cap fdset
  /\ ~ expired(web.slot)
  /\ sipReq(web.slot)
  /\ web' = [web EXCEPT !.pc = "result"]
  /\ UNCHANGED <<waiting, nextConnection, fdset, handler>>

\* The destination is no SIP address: the exception of NameAddr ends the whole
\* round, with the result already reset and no request behind it.
ProcessThrows ==
  /\ web.pc = "read"
  /\ web.slot \in Open \cap fdset
  /\ ~ expired(web.slot)
  /\ resultmap' = [resultmap EXCEPT ![web.slot] = Result]
  /\ mConnection' = [mConnection EXCEPT ![web.slot].req = 0]
  /\ web' = [pc |-> "select", slot |-> 0]
  /\ UNCHANGED <<waiting, nextConnection, fdset, sipVars, handler>>

\* setResp: a finished result becomes part of mTxBuffer.
setResp(s) == mConnection[s].tx \cup
              (IF resultmap[s].end THEN {resultmap[s].data} ELSE {})

\* processSomeWrites: mTxBuffer is written in part, or completely or with an
\* error, and then the connection ends.
processSomeWrites(s, tx) ==
  \/ mConnection' = [mConnection EXCEPT ![s].tx = tx]
  \/ tx # {} /\ mConnection' = [mConnection EXCEPT ![s] = NoConnection]

\* The rest of process; looking for the result makes an entry for it.
ProcessResult ==
  /\ web.pc = "result"
  /\ processSomeWrites(web.slot, setResp(web.slot))
  /\ resultmap' = [resultmap EXCEPT ![web.slot].known = TRUE, ![web.slot].end = FALSE]
  /\ web' = after(web.slot)
  /\ UNCHANGED <<waiting, nextConnection, fdset, sipVars, handler>>

\* A connection becomes older than 30 s.
TimePasses(s) ==
  /\ s \in Open
  /\ ~ mConnection[s].late
  /\ mConnection' = [mConnection EXCEPT ![s].late = TRUE]
  /\ UNCHANGED <<waiting, nextConnection, fdset, web, resultmap, sipVars, handler>>

-----------------------------------------------------------------------------
(* onSuccess and onFailure in the thread of the dialog usage manager.      *)

\* The final response (or the transaction's timeout, a 408) of request i.  An
\* answer is dropped if the slot has an unread one or no entry.
ResponseArrives(i) ==
  /\ handler.pc = "idle"
  /\ i \in pending
  /\ pending' = pending \ {i}
  /\ handler' = IF resultmap[msgmap[i]].known /\ ~ resultmap[msgmap[i]].end
                  THEN [pc |-> "store", pn |-> msgmap[i], who |-> asker[i]]
                  ELSE Idle
  /\ UNCHANGED <<webVars, resultmap, msgmap, sent, asker>>

StoreResult ==
  /\ handler.pc = "store"
  /\ resultmap' = [resultmap EXCEPT ![handler.pn].data = handler.who]
  /\ handler' = [handler EXCEPT !.pc = "finish"]
  /\ UNCHANGED <<webVars, sipVars>>

\* Mutant: end is not set.
forgetEnd ==
  /\ handler.pc = "finish"
  /\ UNCHANGED resultmap
  /\ handler' = Idle
  /\ UNCHANGED <<webVars, sipVars>>

FinishResult ==
  /\ handler.pc = "finish"
  /\ resultmap' = [resultmap EXCEPT ![handler.pn].end = TRUE]
  /\ handler' = Idle
  /\ UNCHANGED <<webVars, sipVars>>

-----------------------------------------------------------------------------
WebThread ==
  \/ Select
  \/ \E c \in Client : Accept(c)
  \/ NoAccept
  \/ SkipSlot
  \/ ProcessCloses
  \/ ProcessReadsNothing
  \/ ProcessSends
  \/ ProcessThrows
  \/ ProcessResult

\* The search for a free slot goes on for ever.
Searching == web.pc = "searching" /\ UNCHANGED vars

Next ==
  \/ WebThread
  \/ Searching
  \/ \E s \in Slot : TimePasses(s)
  \/ \E i \in Id : ResponseArrives(i)
  \/ StoreResult
  \/ FinishResult

Spec == Init /\ [][Next]_vars

\* The web thread keeps polling, connections grow old, and the callback returns.
Fairness ==
  /\ WF_vars(WebThread)
  /\ \A s \in Slot : WF_vars(TimePasses(s))
  /\ WF_vars(StoreResult \/ FinishResult)

FairSpec == Spec /\ Fairness
-----------------------------------------------------------------------------
(* Properties.                                                             *)

\* Every variable has its type (MegaWebServer.hxx, Common.hxx).
TypeOK ==
  /\ waiting \in SUBSET Client
  /\ mConnection \in [Slot -> Connection]
  /\ nextConnection \in Slot
  /\ fdset \in SUBSET Slot
  /\ web \in [pc : {"select", "accept", "read", "result", "searching"}, slot : Slot]
  /\ resultmap \in [Slot -> [known : BOOLEAN, end : BOOLEAN, data : Client \cup {NoClient}]]
  /\ msgmap \in [Id -> Slot]
  /\ sent \in 0 .. MaxMessages
  /\ pending \in SUBSET Id
  /\ asker \in [Id -> Client \cup {NoClient}]
  /\ handler \in [pc : {"idle", "store", "finish"}, pn : Slot, who : Client \cup {NoClient}]

\* No connection writes to its client the answer to another client's request
\* (MegaClientPagerMessageHandler::onSuccess, MegaHttpConnection::process).
AnswerToAsker ==
  \A s \in Open : mConnection[s].tx \subseteq {mConnection[s].who, NoClient}

\* A connection that has asked will be answered, or has been: its last request
\* is pending, its answer is being stored, or an answer waits to be written.
NoAnswerLost ==
  \A s \in Open : mConnection[s].req # 0 =>
    \/ mConnection[s].req \in pending
    \/ handler.pc # "idle" /\ handler.pn = s
    \/ resultmap[s].end
    \/ mConnection[s].tx # {}

\* A slot goes from one client to another only through the deletion of the
\* connection, so accepting never overwrites (and leaks) a connection in use
\* (the search and the polling loop of MegaWebServer::process).
SlotKept ==
  [][\A s \in Open : mConnection'[s].who \in {mConnection[s].who, NoClient}]_vars

\* A connection keeps its slot until it is closed, and it is closed (the 30 s
\* limit of process), whatever client and camera do, as long as the server gets
\* to polling: it does not when the table is full or accept() goes on failing
\* (MegaWebServer::process).
ConnectionEnds ==
  /\ SlotKept
  /\ []<>(web.pc = "read") => \A s \in Slot : s \in Open ~> s \notin Open
=============================================================================
