----------------------------- MODULE TaskRunHead -----------------------------
(***************************************************************************)
(* Admission of runs to one task.  The TaskRunHead row names the one run    *)
(* that may be active; enqueue requests, deletions, finished runs and the   *)
(* recovery pass compete for it with a compare-and-set on its version.      *)
(*                                                                         *)
(* A request reserves the head for a run id that has no row yet, inserts    *)
(* the row, and looks at the head again.  A reservation without a row may   *)
(* belong to a creator that is merely slow, so only the recovery pass frees *)
(* it, and only after a timeout.  That such a slow creator has existed is   *)
(* remembered in late; the partial unique index on active runs, which not   *)
(* every database has, is a parameter.                                      *)
(*                                                                         *)
(* A read of the head, reads of rows that can only have become terminal     *)
(* since, and the compare-and-set are one step: the version certifies the   *)
(* head.  latest_run_id is left out; it only shortens a lookup.  A missing  *)
(* head row is a head of version 0.                                         *)
(***************************************************************************)
EXTENDS Naturals, FiniteSets

CONSTANTS
    Creators,       \* enqueue requests; each is also the id of its run
    Deleters,       \* DELETE requests
    Recoverers,     \* recovery passes
    NoRun,          \* active_run_id is NULL
    UniqueIndex,    \* ux_task_runs_one_active exists (SQLite, PostgreSQL)
    Timeout,        \* reservation_timeout_seconds
    MaxCrashes      \* bound: requests that die half-way

Requests == Creators \cup Deleters

ASSUME HeadAssumption ==
    /\ Creators \cap Deleters = {} /\ NoRun \notin Creators
    /\ UniqueIndex \in BOOLEAN
    /\ Timeout \in Nat \ {0} /\ MaxCrashes \in Nat

VARIABLES
    head,           \* the TaskRunHead row
    left,           \* time left until head.updated_at is Timeout ago
    row,            \* row[c]: the TaskRun row of c
    taskDeleted,    \* Task.deleted_at is set
    pc,             \* pc[p]: how far request p has come
    history,        \* history[p]: the active run p found in the run history
    seen,           \* seen[r]: the head version r found abandoned, 0 = none
    admitted,       \* the runs whose create_queued has returned
    crashes,
    late            \* history: a reservation timed out before its INSERT

vars == <<head, left, row, taskDeleted, pc, history, seen, admitted, crashes, late>>

Places == {"start", "history", "reconcile", "conflict",
           "reserve", "insert", "restore", "verify", "withdraw",
           "check", "cancel", "publish", "published",
           "tombstone", "project", "done"}

TypeOK ==
    /\ head \in [active: Creators \cup {NoRun}, deleted: BOOLEAN, version: Nat]
    /\ left \in 0 .. Timeout
    /\ row \in [Creators -> {"none", "active", "terminal"}]
    /\ taskDeleted \in BOOLEAN
    /\ pc \in [Requests -> Places]
    /\ history \in [Requests -> Creators \cup {NoRun}]
    /\ seen \in [Recoverers -> Nat]
    /\ \A r \in Recoverers :             \* a version stands for one head
          /\ seen[r] <= head.version
          /\ seen[r] = head.version /\ seen[r] # 0 => head.active # NoRun
    /\ admitted \subseteq Creators
    /\ crashes \in Nat /\ late \in BOOLEAN

Init ==
    /\ head = [active |-> NoRun, deleted |-> FALSE, version |-> 0]
    /\ left = 0
    /\ row = [c \in Creators |-> "none"]
    /\ taskDeleted = FALSE
    /\ pc = [p \in Requests |-> "start"]
    /\ history = [p \in Requests |-> NoRun]
    /\ seen = [r \in Recoverers |-> 0]
    /\ admitted = {}
    /\ crashes = 0 /\ late = FALSE

-----------------------------------------------------------------------------
(* The head row.                                                           *)

ActiveRows == {c \in Creators : row[c] = "active"}

\* A compare-and-set that wins: the version moves and updated_at is now.
SetHead(active, deleted) ==
    /\ head' = [active |-> active, deleted |-> deleted, version |-> head.version + 1]
    /\ left' = Timeout
KeepHead == UNCHANGED <<head, left>>

Goto(p, place) == pc' = [pc EXCEPT ![p] = place]

\* Mutant: once the row is there, the unique index is trusted to refuse a second.
OccupiedUntilInserted(active) == active # NoRun /\ row[active] = "none"

\* A missing row does not prove the reservation stale (_reserve_head).
Occupied(active) == active # NoRun /\ row[active] # "terminal"

-----------------------------------------------------------------------------
(* reconcile_task_head, the first half of enqueueing and of deleting.      *)

\* The history is read before the head, once.
ReadHistory(p) ==
    /\ pc[p] = "history"
    /\ IF Cardinality(ActiveRows) > 1
       THEN Goto(p, "conflict") /\ UNCHANGED history
       ELSE /\ history' = [history EXCEPT ![p] =
                              IF ActiveRows = {} THEN NoRun
                              ELSE CHOOSE c \in ActiveRows : TRUE]
            /\ Goto(p, "reconcile")
    /\ UNCHANGED <<head, left, row, taskDeleted, seen, admitted, crashes, late>>

After(p) == IF p \in Creators THEN "reserve" ELSE "tombstone"

\* Mutant: the head of a deleted task is repaired like any other.
LeaveHeadIfReserved == head.active # NoRun /\ row[head.active] = "none"

\* A tombstone and a reservation without a row are left alone.
LeaveHead == head.deleted \/ (head.active # NoRun /\ row[head.active] = "none")

Reconcile(p) ==
    LET holds == head.active # NoRun /\ row[head.active] = "active"
        wanted == IF holds THEN head.active ELSE history[p]
    IN
    /\ pc[p] = "reconcile"
    /\ \/ LeaveHead /\ KeepHead /\ Goto(p, After(p))
       \/ /\ ~LeaveHead /\ holds /\ history[p] \notin {NoRun, head.active}
          /\ KeepHead /\ Goto(p, "conflict")
       \/ /\ ~LeaveHead /\ ~(holds /\ history[p] \notin {NoRun, head.active})
          /\ \/ SetHead(wanted, FALSE)      \* also to correct latest_run_id
             \/ wanted = head.active /\ KeepHead
          /\ Goto(p, After(p))
    /\ UNCHANGED <<row, taskDeleted, history, seen, admitted, crashes, late>>

-----------------------------------------------------------------------------
(* An enqueue request: _enqueue_task_start and create_queued.              *)

\* The first check of the Task row.
Start(c) ==
    /\ pc[c] = "start"
    /\ Goto(c, IF taskDeleted THEN "done" ELSE "history")
    /\ UNCHANGED <<head, left, row, taskDeleted, history, seen, admitted, crashes, late>>

Reserve(c) ==
    /\ pc[c] = "reserve"
    /\ IF head.deleted \/ Occupied(head.active)
       THEN KeepHead /\ Goto(c, "done")
       ELSE SetHead(c, FALSE) /\ Goto(c, "insert")
    /\ UNCHANGED <<row, taskDeleted, history, seen, admitted, crashes, late>>

IndexRefuses == UniqueIndex /\ ActiveRows # {}

\* The INSERT may also fail for a reason of its own.
Insert(c) ==
    /\ pc[c] = "insert"
    /\ \/ /\ ~IndexRefuses
          /\ row' = [row EXCEPT ![c] = "active"]
          /\ Goto(c, "verify")
       \/ UNCHANGED row /\ Goto(c, "restore")
    /\ UNCHANGED <<head, left, taskDeleted, history, seen, admitted, crashes, late>>

\* _restore_head_after_failed_create
Restore(c) ==
    /\ pc[c] = "restore"
    /\ IF head.active = c THEN SetHead(NoRun, head.deleted) ELSE KeepHead
    /\ Goto(c, "done")
    /\ UNCHANGED <<row, taskDeleted, history, seen, admitted, crashes, late>>

\* Recovery may have given the reservation away while the creator was paused.
Verify(c) ==
    /\ pc[c] = "verify"
    /\ IF head.active = c
       THEN admitted' = admitted \cup {c} /\ Goto(c, "check")
       ELSE UNCHANGED admitted /\ Goto(c, "withdraw")
    /\ UNCHANGED <<head, left, row, taskDeleted, history, seen, crashes, late>>

Withdraw(c) ==
    /\ pc[c] = "withdraw"
    /\ row' = [row EXCEPT ![c] = "none"]
    /\ Goto(c, "done")
    /\ UNCHANGED <<head, left, taskDeleted, history, seen, admitted, crashes, late>>

\* The second check of the Task row, before the first external effect.
Check(c) ==
    /\ pc[c] = "check"
    /\ Goto(c, IF taskDeleted THEN "cancel" ELSE "publish")
    /\ UNCHANGED <<head, left, row, taskDeleted, history, seen, admitted, crashes, late>>

\* request_cancel ends a queued run at once; its head is freed by Release.
Cancel(c) ==
    /\ pc[c] = "cancel"
    /\ row' = [row EXCEPT ![c] = "terminal"]
    /\ Goto(c, "done")
    /\ UNCHANGED <<head, left, taskDeleted, history, seen, admitted, crashes, late>>

Publish(c) ==
    /\ pc[c] = "publish"
    /\ Goto(c, "published")
    /\ UNCHANGED <<head, left, row, taskDeleted, history, seen, admitted, crashes, late>>

-----------------------------------------------------------------------------
(* A DELETE request: delete_task and tombstone_task.                       *)

\* The Task row is read whether it is deleted or not: repeating DELETE repairs
\* a crash between the tombstone and its projection.
StartDelete(d) ==
    /\ pc[d] = "start"
    /\ Goto(d, "history")
    /\ UNCHANGED <<head, left, row, taskDeleted, history, seen, admitted, crashes, late>>

Tombstone(d) ==
    /\ pc[d] = "tombstone"
    /\ \/ head.deleted /\ KeepHead /\ Goto(d, "project")
       \/ ~head.deleted /\ Occupied(head.active) /\ KeepHead /\ Goto(d, "done")
       \/ /\ ~head.deleted /\ ~Occupied(head.active)
          /\ SetHead(NoRun, TRUE) /\ Goto(d, "project")
    /\ UNCHANGED <<row, taskDeleted, history, seen, admitted, crashes, late>>

Project(d) ==
    /\ pc[d] = "project"
    /\ taskDeleted' = TRUE
    /\ Goto(d, "done")
    /\ UNCHANGED <<head, left, row, history, seen, admitted, crashes, late>>

-----------------------------------------------------------------------------
(* The life of the runs, and the recovery pass.                            *)

\* A run ends: its worker, a cancellation, or the recovery of a lost one.
EndRun(c) ==
    /\ row[c] = "active"
    /\ row' = [row EXCEPT ![c] = "terminal"]
    /\ UNCHANGED <<head, left, taskDeleted, pc, history, seen, admitted, crashes, late>>

\* Whoever ended it frees the head, or the recovery pass does in its stead.
Release(c) ==
    /\ row[c] = "terminal" /\ head.active = c
    /\ SetHead(NoRun, head.deleted)
    /\ UNCHANGED <<row, taskDeleted, pc, history, seen, admitted, crashes, late>>

\* recover_stale_reservations: the head, then the row, then updated_at ...
RecoverRead(r) ==
    /\ seen[r] = 0
    /\ head.active # NoRun /\ row[head.active] = "none" /\ left = 0
    /\ seen' = [seen EXCEPT ![r] = head.version]
    /\ UNCHANGED <<head, left, row, taskDeleted, pc, history, admitted, crashes, late>>

\* Mutant: an abandoned reservation is kept for ever.
RecoverNothing(r) == FALSE

\* ... and the compare-and-set, on the head that was read.
RecoverFree(r) ==
    /\ seen[r] # 0
    /\ IF head.version = seen[r] THEN SetHead(NoRun, head.deleted) ELSE KeepHead
    /\ seen' = [seen EXCEPT ![r] = 0]
    /\ UNCHANGED <<row, taskDeleted, pc, history, admitted, crashes, late>>

-----------------------------------------------------------------------------
(* The environment.                                                        *)

\* A request dies; what it has written stays.
Crash(p) ==
    /\ crashes < MaxCrashes
    /\ pc[p] \notin {"start", "published", "done"}
    /\ Goto(p, "done")
    /\ crashes' = crashes + 1
    /\ UNCHANGED <<head, left, row, taskDeleted, history, seen, admitted, late>>

\* The creator that holds the reservation is about to insert its row.
Inserting == head.active # NoRun /\ pc[head.active] = "insert"

Tick ==
    /\ left > 0
    /\ left' = left - 1
    /\ late' = (late \/ (left = 1 /\ Inserting))
    /\ UNCHANGED <<head, row, taskDeleted, pc, history, seen, admitted, crashes>>

CreatorStep(c) ==
    \/ Start(c) \/ Reserve(c) \/ Insert(c) \/ Restore(c) \/ Verify(c)
    \/ Withdraw(c) \/ Check(c) \/ Cancel(c) \/ Publish(c)
    \/ EndRun(c) \/ Release(c)

Next ==
    \/ \E p \in Requests : ReadHistory(p) \/ Reconcile(p) \/ Crash(p)
    \/ \E c \in Creators : CreatorStep(c)
    \/ \E d \in Deleters : StartDelete(d) \/ Tombstone(d) \/ Project(d)
    \/ \E r \in Recoverers : RecoverRead(r) \/ RecoverFree(r)
    \/ Tick

\* The recovery pass runs every so often, and the clock goes on.
Fairness ==
    /\ WF_vars(Tick)
    /\ \A r \in Recoverers : WF_vars(RecoverRead(r)) /\ WF_vars(RecoverFree(r))

Spec == Init /\ [][Next]_vars
FairSpec == Spec /\ Fairness

-----------------------------------------------------------------------------
(* What admission promises.                                                *)

\* A task never has two active runs that create_queued let in, not when creators
\* race, not when one dies half-way: with the unique index in any case, without
\* it as long as no creator was late (create_queued, _reserve_head).
OneActiveRun ==
    UniqueIndex \/ ~late =>
        \A b, c \in admitted : row[b] = "active" /\ row[c] = "active" => b = c

\* A run that was let in stays the head of its task while it is active, so
\* that cancelling, deleting and enqueueing all find it (TaskRunHead).
Headed == ~late => \A c \in admitted : row[c] = "active" => head.active = c

\* A committed deletion is final, and no message is published for an active run
\* of a task that is deleted (tombstone_task, _enqueue_task_start).
DeletionFences ==
    [][~late =>
       /\ head.deleted => head'.deleted
       /\ \A c \in Creators :
             /\ pc[c] = "publish" /\ pc'[c] = "published" /\ row[c] = "active"
             => ~head.deleted]_vars

\* A reservation whose creator died before it inserted the row does not block
\* the task for ever (recover_stale_reservations).
ReservationFreed ==
    \A c \in Creators :
        (head.active = c /\ row[c] = "none" /\ pc[c] = "done")
            ~> (head.active # c \/ row[c] # "none")

=============================================================================
