---------------------------- MODULE MCInviteDialog ----------------------------
(***************************************************************************)
(* Small instances of InviteDialog.                                        *)
(***************************************************************************)
EXTENDS InviteDialog

\* Offers by re-INVITE from both ends, over a network that loses and repeats
Reinvite ==
  [Update |-> FALSE, Askers |-> {"a", "b"}, Kinds |-> {"offer", "request"},
   Rejects |-> FALSE, Ends |-> FALSE, Quits |-> {TRUE, FALSE},
   Expire |-> {"408", "expired"}, Loss |-> TRUE, MaxMods |-> 3, MaxAsks |-> 1]

\* Offers that are rejected
Rejecting == [Reinvite EXCEPT !.Kinds = {"offer"}, !.Rejects = TRUE]

\* One end modifies the session again before everything of the first time is over
Again == [Reinvite EXCEPT !.Askers = {"a"}, !.MaxAsks = 2]

\* Offers by UPDATE, session refreshes and 422
Updates ==
  [Reinvite EXCEPT !.Update = TRUE, !.Kinds = {"offer", "request", "refresh"},
                   !.Ends = TRUE, !.Expire = {"408"}, !.Loss = FALSE]

\* UPDATEs that are rejected, and followed by others
UpdatesAgain ==
  [Updates EXCEPT !.Kinds = {"offer", "refresh"}, !.Askers = {"a"}, !.Rejects = TRUE, !.MaxAsks = 2]

\* Applications that end the session when they like or are told of trouble
Endings ==
  [Reinvite EXCEPT !.Ends = TRUE, !.Quits = {TRUE}, !.Expire = {"408", "ack", "stale"},
                   !.Loss = FALSE, !.MaxMods = 2]

MCSetups == {Reinvite, Rejecting, Again, Updates, UpdatesAgain, Endings}
=============================================================================
