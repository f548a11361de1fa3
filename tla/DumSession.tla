----------------------------- MODULE DumSession -----------------------------
(***************************************************************************)
(* The two kinds of INVITE session that a call of the B2BUA owns, as the   *)
(* dialog usage manager (resip/dum) implements them: the server session of *)
(* an A leg (ServerInviteSession, InviteSession) and the client session of *)
(* the B leg with its dialog set (ClientInviteSession, DialogSet).         *)
(*                                                                         *)
(* A method that the application calls is a function from the session      *)
(* states in which the code accepts the call to the state it leaves behind.*)
(* Outside its domain the method either throws DialogUsage::Exception (the *)
(* ...Throws sets) or runs into assert(0).                                 *)
(***************************************************************************)

\* A server session before its final response.  The Early and non-Early
\* variants of ServerInviteSession differ only in the 1xx already sent.
EarlyUas == {"Offer", "NoOffer", "Answered", "Offered"}

\* A server session that sent its 2xx and is not hung up.
UpUas == {"Accepted", "WaitOffer", "WaitAnswer", "Connected", "Reinvited", "Reoffered"}

\* A server session that has been hung up or rejected: WaitHangup sends its BYE
\* when the ACK comes, Ended waits for the answer to its BYE, Dying has a
\* DestroyUsage message queued, Gone is deleted.
OverUas == {"WaitHangup", "Ended", "Dying", "Gone"}

UasState == {"Idle"} \cup EarlyUas \cup UpUas \cup OverUas

Uas_provisional == [s \in EarlyUas |-> s]

Uas_reject == [s \in EarlyUas \cup {"Reinvited"} |->
                 IF s = "Reinvited" THEN "Connected" ELSE "Dying"]

Uas_provideAnswer == [s \in {"Offer", "Reinvited"} |->
                        IF s = "Offer" THEN "Answered" ELSE "Connected"]
UasAnswerThrows == {"Connected", "Reoffered", "Ended", "Dying"}

Uas_provideOffer == [s \in {"NoOffer", "Accepted", "Connected"} |->
                       CASE s = "NoOffer"   -> "Offered"
                         [] s = "Accepted"  -> "WaitOffer"
                         [] s = "Connected" -> "Reoffered"]
UasOfferThrows == {"Reinvited", "Reoffered", "Ended", "Dying"}

Uas_accept == [s \in {"Answered", "Offered"} |->
                 IF s = "Answered" THEN "Accepted" ELSE "WaitAnswer"]

Uas_end == [s \in (EarlyUas \cup UpUas \cup OverUas) \ {"Gone"} |->
              CASE s \in EarlyUas -> "Dying"
                [] s \in {"Accepted", "WaitOffer", "WaitAnswer"} -> "WaitHangup"
                [] s \in {"Connected", "Reinvited", "Reoffered"} -> "Ended"
                [] OTHER -> s]

-----------------------------------------------------------------------------
\* The B leg: its dialog set before a dialog exists (Calling, Trying), the
\* client session of its one dialog, and what is left after end().
PendingUac == {"Calling", "Trying", "Early"}
UpUac == {"Answered", "Connected", "Reinvited", "Reoffered"}
OverUac == {"Ending", "Dying", "Gone"}

UacState == {"None"} \cup PendingUac \cup UpUac \cup OverUac

Uac_provideOffer == [s \in {"Connected"} |-> "Reoffered"]

Uac_provideAnswer == [s \in {"Answered", "Reinvited"} |-> "Connected"]

\* DialogSet::end: without a dialog after a provisional response the set sends
\* CANCEL and is destroyed at once; every other live set waits for its peer.
Uac_end == [s \in UacState |->
              CASE s = "Trying" -> "Dying"
                [] s \in (PendingUac \ {"Trying"}) \cup UpUac -> "Ending"
                [] OTHER -> s]
=============================================================================
