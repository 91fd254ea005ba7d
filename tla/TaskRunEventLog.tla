---------------------------- MODULE TaskRunEventLog ----------------------------
(***************************************************************************)
(* TaskRunLifecycle implements EventLog: however the writers of the run's  *)
(* row interleave, fail and die, what they log and deliver is a behaviour  *)
(* of the abstract event log.                                              *)
(***************************************************************************)
EXTENDS TaskRunLifecycle

\* Every envelope the run has logged: delivered, or still in its outbox.
Logged == events \cup {run.outbox[i] : i \in DOMAIN run.outbox}

\* What the run logged under a sequence number; an event that is in neither
\* place has been lost.
KindLogged(n) ==
    LET found == {e \in Logged : e.seq = n} IN
    IF found = {} THEN "lost" ELSE (CHOOSE e \in found : TRUE).kind

Reader == INSTANCE EventLog WITH
    Kinds   <- EventKinds,
    Final   <- Terminal,
    Failed  <- "failed",
    Open    <- "open",
    posted  <- [n \in 1 .. run.seq |-> KindLogged(n)],
    shown   <- events,
    verdict <- IF run.status \in Terminal THEN run.status ELSE "open"

\* The event log of a run has no gap, no duplicate and no event after the
\* verdict, it ends with the verdict unless the message could not be published,
\* and the verdict is never revised, although every envelope is written by one
\* process, delivered by any and deleted by a third (_mutate, flush_outbox,
\* recover_outboxes).
LogRefined == Reader!Spec

=============================================================================
