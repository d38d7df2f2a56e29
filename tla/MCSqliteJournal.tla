--------------------------- MODULE MCSqliteJournal ---------------------------
(* Two callers in one process, so that they compete for its RLock, and one   *)
(* in another, so that the connections compete for the file; two threads,    *)
(* which give two rows, enough to tell a wrong key apart, and two digests,   *)
(* so that an operation raises inside its transaction.  One single-use       *)
(* grant: MCGovernedGraph has forged and multi-use ones.                     *)
EXTENDS SqliteJournal, TLC

CONSTANTS c1, c2, c3, p1, p2, t1, t2, d1, d2

MCCallers   == {c1, c2, c3}
MCProcesses == {p1, p2}
MCHome      == (c1 :> p1) @@ (c2 :> p1) @@ (c3 :> p2)
MCThreads   == {t1, t2}
MCSteps     == {"step-1"}
MCDigests   == {d1, d2}
MCGrants    == {[authorization_id |-> "auth-1", workflow_id |-> "wf-1", single_use |-> TRUE]}
MCOutcomes  == {"pass", "fail"}
MCFailures  == {"fail"}
=============================================================================
