--------------------------- MODULE MCForkingProxy ---------------------------
(***************************************************************************)
(* Small instances of ForkingProxy.                                        *)
(***************************************************************************)
EXTENDS ForkingProxy

CONSTANTS t1, t2, t3, t4

\* t1, t2 and t3 are contacts the request chain finds; t4 is the contact of t1
\* again and is found by the request chain or by a redirect
MCUriOf == [t \in Target |-> IF t = t4 THEN t1 ELSE t]
MCQOf   == [t \in Target |-> IF t = t1 THEN 9 ELSE 5]

\* Forking in parallel, or a static route before registered contacts, one of
\* which is tried already
Plain ==
  [mDoQValue |-> FALSE, mForkBehavior |-> "EQUAL_Q_PARALLEL",
   mCancelBetweenForkGroups |-> TRUE, mWaitForTerminate |-> TRUE,
   SameDelay |-> TRUE, TimerC |-> TRUE, mRecursiveRedirect |-> FALSE,
   AsyncAuth |-> FALSE, QTarget |-> {}, Spare |-> {},
   Batches |-> {<<>>, <<<<t1, t2>>>>, <<<<t1>>, <<t4>>, <<t2, t3>>>>},
   Finals |-> {200, 302, 407, 603}, ViaLess |-> FALSE, Stray2xx |-> FALSE]

\* The user database answers later
Async == [Plain EXCEPT !.AsyncAuth = TRUE, !.Finals = {200, 486, 503},
                       !.Batches = {<<>>, <<<<t1>>, <<t2>>>>}]

\* The default options of the q-value handler, and fork groups that are begun
\* and cancelled by timers
QValue == [Plain EXCEPT !.mDoQValue = TRUE, !.QTarget = {t1, t2, t3, t4},
                        !.Finals = {200, 486},
                        !.Batches = {<<<<t1, t2, t3>>>>, <<<<t1, t4>>, <<t2>>>>}]
Timed  == [QValue EXCEPT !.mWaitForTerminate = FALSE, !.SameDelay = FALSE,
                         !.Batches = {<<<<t1, t2>>>>, <<<<t1, t4>>>>}]

\* Three contacts in two groups, which all accept or all refuse
Accept == [Timed EXCEPT !.Finals = {200}, !.Batches = {<<<<t1, t2, t3>>>>}]
Refuse == [Accept EXCEPT !.Finals = {486}]

\* Redirections are followed
Follow == [Plain EXCEPT !.mRecursiveRedirect = TRUE, !.Spare = {t3, t4},
                        !.Finals = {200, 302, 486}, !.Batches = {<<<<t1, t2>>>>}]

\* A target strips our Via
Strip == [Plain EXCEPT !.ViaLess = TRUE, !.Finals = {200, 486},
                       !.Batches = {<<<<t1, t2>>>>}]

\* A branch that has failed sends a 2xx all the same
Stray == [Plain EXCEPT !.Stray2xx = TRUE, !.Finals = {200, 486},
                       !.Batches = {<<<<t1, t2>>>>}]

MCConfig == {Plain, Async, QValue, Timed, Accept, Refuse, Follow, Strip, Stray}
=============================================================================
