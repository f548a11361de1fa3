--------------------------- MODULE CallLifecycle ---------------------------
(***************************************************************************)
(* What the B2BUA promises of its calls, without states, legs or messages: *)
(* the reported status of a call (B2BCall::getStatus) only moves forward,  *)
(* a caller is connected only to a camera that has picked up, a call       *)
(* becomes Connected only when its camera picks up, nobody is left         *)
(* connected when a call is gone, and no call is opened after a shutdown   *)
(* has been requested.                                                     *)
(***************************************************************************)
EXTENDS Naturals

CONSTANTS Call, Leg

VARIABLES
  status,    \* reported status of each call
  served,    \* callers of each call that have been connected
  picked,    \* has the call's camera picked up and not hung up?
  accepting  \* are new calls accepted?

vars == <<status, served, picked, accepting>>

Rank(s) ==
  CASE s = "None" -> 0 [] s = "PreDial" -> 1 [] s = "Dialing" -> 2
    [] s = "Connected" -> 3 [] s = "Finishing" -> 4 [] s = "Deleted" -> 5

Statuses == {"None", "PreDial", "Dialing", "Connected", "Finishing", "Deleted"}

Init ==
  /\ status = [k \in Call |-> "None"]
  /\ served = [k \in Call |-> {}]
  /\ picked = [k \in Call |-> FALSE]
  /\ accepting = TRUE

\* A caller opens a call; one that cannot be relayed is finished at once.
Open(k) ==
  /\ accepting
  /\ status[k] = "None"
  /\ \E s \in {"PreDial", "Finishing"} : status' = [status EXCEPT ![k] = s]
  /\ UNCHANGED <<served, picked, accepting>>

\* The camera picks up: the call is connected unless it is finishing already.
PickUp(k) ==
  /\ Rank(status[k]) \in 2 .. 4
  /\ ~ picked[k]
  /\ picked' = [picked EXCEPT ![k] = TRUE]
  /\ \E s \in Statuses : /\ Rank(s) \in Rank(status[k]) .. 4
                         /\ status' = [status EXCEPT ![k] = s]
  /\ \E u \in SUBSET Leg : /\ served[k] \subseteq u
                           /\ served' = [served EXCEPT ![k] = u]
  /\ UNCHANGED accepting

\* A picked-up camera is shown to more callers.
Serve(k) ==
  /\ picked[k]
  /\ status[k] # "Deleted"
  /\ \E u \in SUBSET Leg : /\ served[k] \subseteq u
                           /\ served' = [served EXCEPT ![k] = u]
  /\ UNCHANGED <<status, picked, accepting>>

\* The call moves on: parties may leave, and all of them do when it is deleted.
Advance(k) ==
  /\ Rank(status[k]) \in 1 .. 4
  /\ \E s \in Statuses, u \in SUBSET served[k], p \in BOOLEAN :
       /\ Rank(s) >= Rank(status[k])
       /\ s = "Connected" => status[k] = "Connected"
       /\ p => picked[k]
       /\ s = "Deleted" => u = {} /\ ~ p
       /\ status' = [status EXCEPT ![k] = s]
       /\ served' = [served EXCEPT ![k] = u]
       /\ picked' = [picked EXCEPT ![k] = p]
  /\ UNCHANGED accepting

\* A shutdown: no new calls, and the calls that exist are told to finish.
Shutdown ==
  /\ accepting' = FALSE
  /\ UNCHANGED <<status, served, picked>>

\* A call that is being refused already keeps its status until it is finished.
FinishAll ==
  /\ ~ accepting
  /\ \E F \in SUBSET Call :
       status' = [k \in Call |-> IF k \in F /\ Rank(status[k]) \in 1 .. 3
                                   THEN "Finishing" ELSE status[k]]
  /\ UNCHANGED <<served, picked, accepting>>

Next ==
  \/ \E k \in Call : Open(k) \/ PickUp(k) \/ Serve(k) \/ Advance(k)
  \/ Shutdown
  \/ FinishAll

Spec == Init /\ [][Next]_vars
=============================================================================
