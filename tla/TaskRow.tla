------------------------------- MODULE TaskRow -------------------------------
(***************************************************************************)
(* The Task row beside the runs of the task.  The runs are authoritative;   *)
(* the row repeats their status and remembers the deletion, and the worker  *)
(* still looks at it once: a task whose status is cancelled is not started. *)
(*                                                                         *)
(* The row has no version.  Requests, workers, Celery signals, the recovery *)
(* pass and edits write it, some of them columns, some of them the whole    *)
(* row as they once read it.  What a run does in between is the business of *)
(* TaskRunLifecycle and TaskRunHead: here every write of a run is one       *)
(* atomic step, at most one run is active, and the head is free as soon as  *)
(* the run has ended.                                                       *)
(***************************************************************************)
EXTENDS Naturals, FiniteSets, Sequences, SequencesExt

CONSTANTS
    Runs,           \* enqueue requests, each with the run it may create; they
                    \* are numbered in the order they come in
    Cancellers,     \* clients of POST /tasks/{id}/cancel, that ask again while
                    \* the run is cancelling
    Authors,        \* POST /tasks requests that edit the task
    Deleters,       \* DELETE /tasks/{id} requests
    Projectors,     \* recovery passes
    NoRun,          \* pid is NULL
    Prompt,         \* a run starts only when every process of the runs before
                    \* has come to its end, and the task is deleted then; an
                    \* edit may be under way at the deletion
    MaxTroubles,    \* bound: processes that die half-way or come too late, and
                    \* edits, together
    MaxEdited       \* bound: the runs the task has had when an edit comes

ASSUME RowAssumption ==
    /\ Runs \subseteq Nat /\ NoRun \notin Runs /\ Prompt \in BOOLEAN /\ MaxTroubles \in Nat
    /\ MaxEdited \in Nat

Requests    == {"request"} \X Runs
Workers     == {"worker"} \X Runs
Cancels     == {"cancel"} \X Cancellers
Edits       == {"edit"} \X Authors
Deletions   == {"delete"} \X Deleters
Projections == {"project"} \X (Projectors \cup Runs)  \* a worker ends with one
Processes   == UNION {Requests, Workers, Cancels, Edits, Deletions, Projections}

VARIABLES
    task,           \* Task.status, Task.pid and Task.deleted_at
    tomb,           \* TaskRunHead.deleted_at is set
    run,            \* run[r]: TaskRun.status, "none" before the row exists
    order,          \* the runs in the order of their creation
    asked,          \* runs that a committed cancel request names
    jobs,           \* runs with a queue_job_id
    doing,          \* doing[p]: what process p does next
    copy,           \* copy[p]: the Task row as p read it
    found,          \* found[p]: the run as p read it
    report,         \* report[r]: the task status the worker of r will write
    troubles,       \* processes that died or came too late so far
    guessed         \* history: the backstop of Celery has written an end that is
                    \* that of no run

runVars == <<run, order, asked, jobs>>
notes == <<copy, found, report>>
taskVars == <<task, tomb, runVars, doing, notes, troubles, guessed>>

Active   == {"queued", "running", "cancelling"}
Terminal == {"completed", "failed", "cancelled"}
TaskRows == [status: {"pending", "in_progress"} \cup Terminal,
             pid: Runs \cup {NoRun}, deleted: BOOLEAN]

ActiveRuns == {r \in Runs : run[r] \in Active}
Nothing    == [run |-> NoRun, status |-> "none"]
Newest     == IF order = <<>> THEN Nothing
              ELSE [run |-> Last(order), status |-> run[Last(order)]]

\* _TASK_STATUS: what the row should say of a run.
Shown(status) == IF status \in Active THEN "in_progress" ELSE status

RowTypeOK ==
    /\ task \in TaskRows /\ tomb \in BOOLEAN
    /\ run \in [Runs -> {"none"} \cup Active \cup Terminal]
    /\ ToSet(order) = {r \in Runs : run[r] # "none"} /\ IsInjective(order)
    /\ asked \subseteq ToSet(order) /\ jobs \subseteq ToSet(order)
    /\ doing \in [Processes -> STRING]
    /\ copy \in [Processes -> TaskRows]
    /\ \A p \in Processes : found[p].run \in Runs \cup {NoRun}
    /\ report \in [Runs -> Terminal \cup {"none"}]
    /\ troubles \in 0 .. MaxTroubles /\ guessed \in BOOLEAN
    /\ \A r \in ActiveRuns : r = Newest.run      \* so at most one is active

Fresh == [status |-> "pending", pid |-> NoRun, deleted |-> FALSE]

RowInit ==
    /\ task = Fresh
    /\ tomb = FALSE
    /\ run = [r \in Runs |-> "none"]
    /\ order = <<>> /\ asked = {} /\ jobs = {}
    /\ doing = [p \in Processes |-> "idle"]
    /\ copy = [p \in Processes |-> Fresh]
    /\ found = [p \in Processes |-> Nothing]
    /\ report = [r \in Runs |-> "none"]
    /\ troubles = 0 /\ guessed = FALSE

Turn(p, here, there) == doing[p] = here /\ doing' = [doing EXCEPT ![p] = there]
Read(p) == copy' = [copy EXCEPT ![p] = task]
\* What p read is not used any more.
Forget(p) == copy' = [copy EXCEPT ![p] = Fresh]
Unfind(p) == found' = [found EXCEPT ![p] = Nothing]
Find(p) == found' = [found EXCEPT ![p] = Newest]
\* The bound on crashes, delays and edits.
Spared == troubles + Cardinality({p \in Edits : doing[p] # "idle"}) < MaxTroubles

SetRun(r, status) == run' = [run EXCEPT ![r] = status]

\* Every process that knows a run has come to its end.
Quiet ==
    /\ \A p \in Requests : doing[p] \in {"idle", "create", "done"}
    /\ \A p \in Workers : doing[p] \in {"idle", "done"}
    /\ \A p \in Cancels \cup Deletions \cup Projections : doing[p] \in {"idle", "done"}

-----------------------------------------------------------------------------
(* _enqueue_task_start.                                                    *)

Ask(p) ==
    /\ \A r \in Runs : r < p[2] => doing[<<"request", r>>] # "idle"
    /\ Turn(p, "idle", IF task.deleted THEN "done" ELSE "create")
    /\ Read(p)
    /\ UNCHANGED <<task, tomb, runVars, found, report, troubles, guessed>>

Admits == ~tomb /\ ActiveRuns = {}

Create(p) ==
    /\ Prompt => Quiet /\ \A e \in Edits : doing[e] # "save"
    /\ IF Admits
       THEN /\ Turn(p, "create", "check") /\ UNCHANGED copy
            /\ SetRun(p[2], "queued") /\ order' = Append(order, p[2])
       ELSE Turn(p, "create", "done") /\ Forget(p) /\ UNCHANGED <<run, order>>
    /\ UNCHANGED <<task, tomb, asked, jobs, found, report, troubles, guessed>>

\* The task was deleted after it was read: the run is cancelled again.
Check(p) ==
    /\ Turn(p, "check", IF task.deleted THEN "done" ELSE "move")
    /\ IF task.deleted /\ run[p[2]] = "queued"
       THEN SetRun(p[2], "cancelled") /\ asked' = asked \cup {p[2]}
       ELSE UNCHANGED <<run, asked>>
    /\ IF task.deleted THEN Forget(p) ELSE UNCHANGED copy
    /\ UNCHANGED <<task, tomb, order, jobs, found, report, troubles, guessed>>

Moved == [task EXCEPT !.status = "in_progress", !.pid = NoRun]

\* "Move the legacy compatibility cache first", before anybody can take the job.
Move(p) ==
    /\ Turn(p, "move", "publish")
    /\ task' = Moved
    /\ UNCHANGED <<tomb, runVars, notes, troubles, guessed>>

Publish(p) ==
    /\ doing[p] = "publish"
    /\ \/ doing' = [doing EXCEPT ![p] = "attach", ![<<"worker", p[2]>>] = "sent"] /\ Forget(p)
       \/ doing' = [doing EXCEPT ![p] = "fail"] /\ UNCHANGED copy
    /\ UNCHANGED <<task, tomb, runVars, found, report, troubles, guessed>>

\* A run that is no longer queued makes mutate raise: nothing is restored.
FailRun(p) ==
    /\ IF run[p[2]] = "queued"
       THEN Turn(p, "fail", "restore") /\ SetRun(p[2], "failed") /\ UNCHANGED copy
       ELSE Turn(p, "fail", "done") /\ UNCHANGED run /\ Forget(p)
    /\ UNCHANGED <<task, tomb, order, asked, jobs, found, report, troubles, guessed>>

Restore(p) ==
    /\ Turn(p, "restore", "done")
    /\ task' = IF task.status = "in_progress"
              THEN [task EXCEPT !.status = copy[p].status, !.pid = copy[p].pid]
              ELSE task
    /\ Forget(p)
    /\ UNCHANGED <<tomb, runVars, found, report, troubles, guessed>>

Attach(p) ==
    /\ Turn(p, "attach", "pid")
    /\ jobs' = jobs \cup {p[2]}
    /\ UNCHANGED <<task, tomb, run, order, asked, notes, troubles, guessed>>

WritePid(p) ==
    /\ Turn(p, "pid", "done")
    /\ task' = [task EXCEPT !.pid = p[2]]
    /\ UNCHANGED <<tomb, runVars, notes, troubles, guessed>>

Request(p) ==
    \/ Ask(p) \/ Create(p) \/ Check(p) \/ Move(p) \/ Publish(p)
    \/ FailRun(p) \/ Restore(p) \/ Attach(p) \/ WritePid(p)

-----------------------------------------------------------------------------
(* The worker: task_prerun, orchestrator.run, task_postrun.                *)

\* task_prerun_handler finds the task by its pid, if that is written already.
PrerunRead(p) ==
    /\ IF task.pid = p[2] /\ task.status \in {"pending", "in_progress"}
       THEN Turn(p, "sent", "prerun") /\ Read(p)
       ELSE Turn(p, "sent", "claim") /\ UNCHANGED copy
    /\ UNCHANGED <<task, tomb, runVars, found, report, troubles, guessed>>

\* Task.save: the whole row as it was read.
PrerunSave(p) ==
    /\ Turn(p, "prerun", "claim")
    /\ task' = [copy[p] EXCEPT !.status = "in_progress"]
    /\ Forget(p)
    /\ UNCHANGED <<tomb, runVars, found, report, troubles, guessed>>

ClaimRun(p) ==
    /\ IF run[p[2]] = "queued"
       THEN Turn(p, "claim", "guard") /\ SetRun(p[2], "running")
       ELSE Turn(p, "claim", "post") /\ UNCHANGED run
    /\ UNCHANGED <<task, tomb, order, asked, jobs, notes, troubles, guessed>>

\* "cancelled before pickup - skipping run"
Guard(p) ==
    /\ Turn(p, "guard", IF task.status = "cancelled" THEN "refuse" ELSE "mark")
    /\ UNCHANGED <<task, tomb, runVars, notes, troubles, guessed>>

Refuse(p) ==
    /\ Turn(p, "refuse", "post")
    /\ IF run[p[2]] \in Active THEN SetRun(p[2], "cancelled") ELSE UNCHANGED run
    /\ UNCHANGED <<task, tomb, order, asked, jobs, notes, troubles, guessed>>

Mark(p) ==
    /\ Turn(p, "mark", "body")
    /\ task' = [task EXCEPT !.status = "in_progress"]
    /\ UNCHANGED <<tomb, runVars, notes, troubles, guessed>>

\* Mutant: the task shows what the worker wanted the run to be.
ReportedAsWanted(r, want, final) == want

\* The task follows a run that this worker ended, or that was cancelled.
Reported(r, want, final) ==
    IF final = "cancelled" \/ run[r] = "running" THEN final ELSE "none"

\* _set_run_status: a terminal run stays as it is, a cancellation wins.  A
\* worker that notices its lost lease instead reports nothing.
EndRun(p) ==
    LET r == p[2] IN
    \E want \in {"completed", "failed"} \cup IF run[r] = "running" THEN {} ELSE {"cancelled"} :
    LET final == CASE run[r] = "running"    -> want
                   [] run[r] = "cancelling" -> "cancelled"
                   [] OTHER                 -> run[r]
    IN  \E said \in {Reported(r, want, final)} \cup IF run[r] \in Terminal THEN {"none"} ELSE {} :
        /\ \E here \in {"mark", "body"} : Turn(p, here, IF said = "none" THEN "post" ELSE "write")
        /\ SetRun(r, final)
        /\ report' = [report EXCEPT ![r] = said]
        /\ UNCHANGED <<task, tomb, order, asked, jobs, copy, found, troubles, guessed>>

\* _set_task_status
WriteStatus(p) ==
    /\ Turn(p, "write", "post")
    /\ task' = [task EXCEPT !.status = report[p[2]]]
    /\ report' = [report EXCEPT ![p[2]] = "none"]
    /\ UNCHANGED <<tomb, runVars, copy, found, troubles, guessed>>

\* task_postrun_handler projects if the job id leads it to the run.
Post(p) ==
    /\ doing[p] = "post"
    /\ doing' = IF p[2] \in jobs
             THEN [doing EXCEPT ![p] = "done", ![<<"project", p[2]>>] = "read"]
             ELSE [doing EXCEPT ![p] = "lookup"]
    /\ UNCHANGED <<task, tomb, runVars, notes, troubles, guessed>>

\* "Backstop only": the job id and the pid may have been written since.
PostRead(p) ==
    /\ IF task.pid = p[2] /\ task.status = "in_progress"
       THEN Turn(p, "lookup", "rescue") /\ Read(p)
       ELSE Turn(p, "lookup", "done") /\ UNCHANGED copy
    /\ UNCHANGED <<task, tomb, runVars, found, report, troubles, guessed>>

\* The job returned or raised, whatever has become of the run.
PostSave(p) ==
    \E end \in {"completed", "failed"} :
        /\ Turn(p, "rescue", "done")
        /\ task' = [copy[p] EXCEPT !.status = end]
        /\ guessed' = (guessed \/ \A r \in Runs : run[r] # end)
        /\ Forget(p)
        /\ UNCHANGED <<tomb, runVars, found, report, troubles>>

Worker(p) ==
    \/ PrerunRead(p) \/ PrerunSave(p) \/ ClaimRun(p) \/ Guard(p) \/ Refuse(p)
    \/ Mark(p) \/ EndRun(p) \/ WriteStatus(p) \/ Post(p) \/ PostRead(p) \/ PostSave(p)

-----------------------------------------------------------------------------
(* project_task_status and the recovery pass.                              *)

\* Mutant: only a task that seems to be running is repaired.
StaleIfOpen == Newest.status \in Terminal /\ task.status = "in_progress"

Stale == Newest.status \in Terminal /\ task.status # Newest.status

\* reconcile_terminal_task_statuses
Reconcile(p) ==
    /\ p[2] \in Projectors /\ Stale
    /\ Turn(p, "idle", "read")
    /\ UNCHANGED <<task, tomb, runVars, notes, troubles, guessed>>

ProjectRead(p) ==
    /\ Turn(p, "read", "write")
    /\ Find(p)
    /\ UNCHANGED <<task, tomb, runVars, copy, report, troubles, guessed>>

ProjectWrite(p) ==
    /\ Turn(p, "write", "check")
    /\ task' = [task EXCEPT !.status = Shown(found[p].status)]
    /\ UNCHANGED <<tomb, runVars, notes, troubles, guessed>>

\* The projection is repeated if the run has moved meanwhile.
ProjectCheck(p) ==
    /\ Turn(p, "check", IF Newest = found[p] THEN "idle" ELSE "read")
    /\ Unfind(p)
    /\ UNCHANGED <<task, tomb, runVars, copy, report, troubles, guessed>>

Project(p) == Reconcile(p) \/ ProjectRead(p) \/ ProjectWrite(p) \/ ProjectCheck(p)

\* A run is ended whose lease expired, or that was not taken.  Nobody executes
\* it any more, or whoever does is delayed and comes back too late.
Recover(r) ==
    /\ run[r] \in Active
    /\ SetRun(r, IF r \in asked THEN "cancelled" ELSE "failed")
    /\ IF doing[<<"worker", r>>] \in {"idle", "done"} /\ doing[<<"request", r>>] = "done"
       THEN UNCHANGED troubles
       ELSE Spared /\ troubles' = troubles + 1
    /\ UNCHANGED <<task, tomb, order, asked, jobs, doing, notes, guessed>>

-----------------------------------------------------------------------------
(* cancel_task.                                                            *)

CancelRead(p) ==
    /\ Turn(p, "idle", IF task.deleted THEN "done" ELSE "find")
    /\ Read(p)
    /\ UNCHANGED <<task, tomb, runVars, found, report, troubles, guessed>>

\* Without an active run a task that still says in_progress is cancelled itself.
CancelFind(p) ==
    /\ Turn(p, "find", CASE Newest.status \in {"queued", "running"}  -> "request"
                       [] Newest.status = "cancelling"             -> "force"
                       [] copy[p].status = "in_progress"           -> "save"
                       [] OTHER                                    -> "done")
    /\ IF doing'[p] = "save" THEN UNCHANGED copy ELSE Forget(p)
    /\ IF doing'[p] \in {"request", "force"} THEN Find(p) ELSE UNCHANGED found
    /\ UNCHANGED <<task, tomb, runVars, report, troubles, guessed>>

RequestCancel(p) ==
    LET r == found[p].run
        next == CASE run[r] = "queued"  -> "cancelled"
                 [] run[r] = "running" -> "cancelling"
                 [] OTHER              -> run[r]
    IN  /\ doing[p] = "request"
        /\ Turn(p, "request", CASE next = "cancelled"  -> "write"
                              [] next = "cancelling" -> "idle"
                              [] OTHER              -> "done")
        /\ SetRun(r, next)
        /\ asked' = IF run[r] \in Active THEN asked \cup {r} ELSE asked
        /\ Unfind(p)
        /\ UNCHANGED <<task, tomb, order, jobs, copy, report, troubles, guessed>>

\* Within the grace period of a live lease the second request changes nothing.
ForceCancel(p) ==
    LET r == found[p].run
    IN  /\ doing[p] = "force"
        /\ \E next \in {run[r]} \cup IF run[r] = "cancelling" THEN {"cancelled"} ELSE {} :
              /\ Turn(p, "force", IF next = "cancelled" THEN "write" ELSE "done")
              /\ SetRun(r, next)
        /\ Unfind(p)
        /\ UNCHANGED <<task, tomb, order, asked, jobs, copy, report, troubles, guessed>>

CancelWrite(p) ==
    /\ Turn(p, "write", "done")
    /\ task' = [task EXCEPT !.status = "cancelled"]
    /\ UNCHANGED <<tomb, runVars, notes, troubles, guessed>>

\* Task.save again.
CancelSave(p) ==
    /\ Turn(p, "save", "done")
    /\ task' = [copy[p] EXCEPT !.status = "cancelled"]
    /\ Forget(p)
    /\ UNCHANGED <<tomb, runVars, found, report, troubles, guessed>>

Cancel(p) ==
    \/ CancelRead(p) \/ CancelFind(p) \/ RequestCancel(p) \/ ForceCancel(p)
    \/ CancelWrite(p) \/ CancelSave(p)

-----------------------------------------------------------------------------
(* delete_task and save_task.                                              *)

Tombstone(p) ==
    /\ Prompt => Quiet
    /\ IF ActiveRuns = {}
       THEN Turn(p, "idle", "delete") /\ tomb' = TRUE
       ELSE Turn(p, "idle", "done") /\ UNCHANGED tomb
    /\ UNCHANGED <<task, runVars, notes, troubles, guessed>>

DeleteRow(p) ==
    /\ Turn(p, "delete", "done")
    /\ task' = [task EXCEPT !.deleted = TRUE]
    /\ UNCHANGED <<tomb, runVars, notes, troubles, guessed>>

\* The client sends the row back as it saw it, with the fields it edited.
OpenEdit(p) ==
    /\ Spared /\ Len(order) <= MaxEdited
    /\ Turn(p, "idle", IF task.deleted THEN "done" ELSE "save")
    /\ Read(p)
    /\ UNCHANGED <<task, tomb, runVars, found, report, troubles, guessed>>

\* Mutant: the deletion is looked for when the task is read, not when it is saved.
LiveWhenRead(p) == ~copy[p].deleted

Live(p) == ~task.deleted /\ ~tomb

\* _update_existing_task_if_live
SaveEdit(p) ==
    /\ Turn(p, "save", "done")
    /\ task' = IF Live(p) THEN copy[p] ELSE task
    /\ Forget(p)
    /\ UNCHANGED <<tomb, runVars, found, report, troubles, guessed>>

\* A request or a worker dies; the broker does not deliver the job again
\* before recovery has ended the run, and then it is not claimed.
Perish(p) ==
    /\ Spared
    /\ doing[p] \notin {"idle", "sent", "done"}
    /\ troubles' = troubles + 1
    /\ doing' = [doing EXCEPT ![p] = "done"]
    /\ Forget(p) /\ Unfind(p)
    /\ UNCHANGED <<task, tomb, runVars, report, guessed>>

-----------------------------------------------------------------------------

RowNext ==
    \/ \E p \in Requests : Request(p)
    \/ \E p \in Workers : Worker(p)
    \/ \E p \in Cancels : Cancel(p)
    \/ \E p \in Projections : Project(p)
    \/ \E p \in Deletions : Tombstone(p) \/ DeleteRow(p)
    \/ \E p \in Edits : OpenEdit(p) \/ SaveEdit(p)
    \/ \E p \in Requests \cup Workers \cup Cancels \cup Deletions : Perish(p)
    \/ \E r \in Runs : Recover(r)

\* The recovery loop comes back for ever; nobody else has to do anything.
RowFairness == \A p \in Projections : WF_taskVars(Project(p))

RowSpec == RowInit /\ [][RowNext]_taskVars
RowFairSpec == RowSpec /\ RowFairness

-----------------------------------------------------------------------------
(* What the row promises.                                                  *)

\* The task says completed or failed only if some run of it is just that, also
\* when a cancellation or the recovery pass ended the run under its worker
\* (_set_task_status after _set_run_status); until the backstop guessed wrong.
ShownIsTrue ==
    ~guessed /\ task.status \in {"completed", "failed"} =>
        \E r \in Runs : run[r] = task.status

\* An edit whose client read the task before the deletion does not bring it back,
\* however late it is saved ("Full-row creates/edits cannot hide or resurrect a
\* task", save_task).
EditKeepsDeletion ==
    task.deleted /\ (\E p \in Edits : doing[p] = "save" /\ doing'[p] = "done") => task'.deleted

\* No write, however late, makes the row say what is not so.
RowIsTrue == [][ShownIsTrue' /\ EditKeepsDeletion]_taskVars

\* Whoever wrote the row last, and whoever died before writing it: in the end it
\* agrees with the newest run, once that has ended ("Repair stale legacy
\* Task.status caches from terminal run heads").
RowAgrees == <>[](Newest.status \in Terminal => task.status = Newest.status)

=============================================================================
