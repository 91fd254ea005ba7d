------------------------------ MODULE TaskSteps ------------------------------
(***************************************************************************)
(* The steps of a task: compiling a plan into step rows, run_dag scheduling *)
(* them, and a later run that resumes a failed or cancelled one.            *)
(*                                                                         *)
(* Runs are numbered in the order they are admitted; TaskRunHead shows that *)
(* one is created only when the ones before it are terminal.  The worker of *)
(* a run that was ended from outside does not know it yet and goes on: its  *)
(* writes repeat the lease in their WHERE clause.  Claiming, renewing and    *)
(* finishing are those of TaskRunLifecycle, taken here as one step each.    *)
(*                                                                         *)
(* A step row is read and updated in one step: only the worker of its run   *)
(* writes it.  A task of the event loop is a body; what the body says to    *)
(* the model and the reviewer is left out, except that a rejected first     *)
(* attempt is stored before the second.                                     *)
(***************************************************************************)
EXTENDS Naturals, FiniteSets

CONSTANTS
    Steps,          \* the step indexes a plan may use
    Plans,          \* the plans a planner may answer with: the dependencies of
                    \* each of their steps
    Resumed,        \* bound: the plans a further run is admitted for
    MaxParallel,    \* max_parallel of run_dag
    MaxRuns,        \* bound: runs of the task
    MaxTroubles     \* bound, by plan: workers that die, runs ended from outside
                    \* under a live worker and failed database writes together

Runs == 1 .. MaxRuns

ASSUME StepsAssumption ==
    /\ Steps \subseteq Nat /\ IsFiniteSet(Steps) /\ Steps # {}
    /\ Plans # {} /\ Resumed \subseteq Plans
    /\ \A p \in Plans : /\ DOMAIN p \subseteq Steps /\ DOMAIN p # {}
                         /\ \A s \in DOMAIN p : p[s] \subseteq Nat
    /\ MaxParallel \in Nat \ {0} /\ MaxRuns \in Nat
    /\ MaxTroubles \in [Plans -> Nat]

VARIABLES
    deps,       \* deps[s]: what the planner says s depends on
    status,     \* status[r]: the TaskRun row
    cancelReq,  \* cancel_requested_at is set: the row is cancelling
    source,     \* source[r]: the run r resumes, 0 = none
    own,        \* own[r]: its worker wrote the terminal status
    plan,       \* plan[r][s]: the entry to be compiled
    rows,       \* rows[r][s]: the TaskRunStep row
    pc,         \* where the worker of r is
    body,       \* body[r][s]: the asyncio task of s, and how it ended
    active,     \* the tasks run_dag holds
    results,    \* the results run_dag holds
    batch,      \* the nodes the current loop of run_dag goes through
    event,      \* cancel_event of r, and who set it
    honor,      \* this tick also saw the cancel event
    verdict,    \* how the worker will end
    crashes, lost, faults

vars == <<deps, status, cancelReq, source, own, plan, rows, pc, body, active, results,
          batch, event, honor, verdict, crashes, lost, faults>>

Terminal == {"completed", "failed", "cancelled"}
Open == {"pending", "running"}
Working == {"first", "second"}

Statuses == {"none", "running"} \cup Terminal
RowKinds == {"none", "pending", "running", "done", "failed", "cancelled"}
Places == {"idle", "compile", "loop", "start", "wait", "reap", "unwind", "settle", "sweep",
           "finish", "over"}
BodyKinds == Working \cup {"none", "ok", "error", "cancelled"}

Kinds ==
    /\ deps \in Plans /\ status \in [Runs -> Statuses] /\ cancelReq \in [Runs -> BOOLEAN]
    /\ source \in [Runs -> 0 .. MaxRuns] /\ own \in [Runs -> BOOLEAN]
    /\ plan \in [Runs -> [Steps -> {"none", "pending", "done"}]]
    /\ rows \in [Runs -> [Steps -> RowKinds]] /\ pc \in [Runs -> Places]
    /\ body \in [Runs -> [Steps -> BodyKinds]]
    /\ active \in [Runs -> SUBSET Steps] /\ results \in [Runs -> SUBSET Steps]
    /\ batch \in [Runs -> SUBSET Steps]
    /\ event \in [Runs -> {"no", "cancel", "lease"}] /\ honor \in [Runs -> BOOLEAN]
    /\ verdict \in [Runs -> Terminal]

Typed ==
    /\ Kinds
    /\ {crashes, lost, faults} \subseteq Nat
    /\ crashes + lost + faults <= MaxTroubles[deps]

\* What run_dag holds: at most MaxParallel bodies at work, and stored results.
TypeOK ==
    /\ Typed
    /\ \A r \in Runs : Cardinality({s \in active[r] : body[r][s] \in Working}) <= MaxParallel
    /\ \A r \in Runs : results[r] \subseteq {s \in Steps : rows[r][s] = "done"}

Init ==
    /\ deps \in Plans
    /\ status = [r \in Runs |-> "none"]
    /\ cancelReq = [r \in Runs |-> FALSE]
    /\ source = [r \in Runs |-> 0]
    /\ own = [r \in Runs |-> FALSE]
    /\ plan = [r \in Runs |-> [s \in Steps |-> "none"]]
    /\ rows = [r \in Runs |-> [s \in Steps |-> "none"]]
    /\ pc = [r \in Runs |-> "idle"]
    /\ body = [r \in Runs |-> [s \in Steps |-> "none"]]
    /\ active = [r \in Runs |-> {}]
    /\ results = [r \in Runs |-> {}]
    /\ batch = [r \in Runs |-> {}]
    /\ event = [r \in Runs |-> "no"]
    /\ honor = [r \in Runs |-> FALSE]
    /\ verdict = [r \in Runs |-> "completed"]
    /\ crashes = 0 /\ lost = 0 /\ faults = 0

-----------------------------------------------------------------------------
(* Helpers.                                                                *)

Least(S) == CHOOSE s \in S : \A t \in S : s <= t

Goto(r, place) == pc' = [pc EXCEPT ![r] = place]

RowsIn(r, statuses) == {s \in Steps : rows[r][s] \in statuses}
Present(r) == {s \in Steps : rows[r][s] # "none"}

\* The bound on what may go wrong.
Spared == crashes + lost + faults < MaxTroubles[deps]

\* An exception leaves run_dag: its finally clause runs next.
Raise(r, how) ==
    /\ verdict' = [verdict EXCEPT ![r] = how]
    /\ batch' = [batch EXCEPT ![r] = {}]
    /\ Goto(r, "unwind")

\* Mutant: the UPDATE does not ask whether the lease is still held.
AnyWrite(r) == TRUE

\* The run predicate in the WHERE clause of a step write.
Fenced(r) == status[r] = "running"

\* transition_step: the write and whether it raises.  A write that raises may
\* have been done: the event that follows it can fail too.
Write(r, s, to) == rows' = [rows EXCEPT ![r][s] = to] /\ UNCHANGED faults
Refused(r) == ~Fenced(r) /\ UNCHANGED <<rows, faults>>
Faulty(r, s, to) ==
    /\ Fenced(r) /\ Spared /\ faults' = faults + 1
    /\ rows' \in {rows, [rows EXCEPT ![r][s] = to]}
WriteRaises(r, s, to) == Refused(r) \/ Faulty(r, s, to)

-----------------------------------------------------------------------------
(* Admission, and what happens to a run from outside.                      *)

Resumable == {q \in Runs : status[q] \in {"failed", "cancelled"}}
Newest(S) == CHOOSE q \in S : \A p \in S : p <= q

\* Mutant: a finished step is planned again.
SeedAll(q) == [s \in Steps |-> IF rows[q][s] = "none" THEN "none" ELSE "pending"]

\* seed_resume_steps keeps what is done and starts the rest again.
SeedOf(q) ==
    [s \in Steps |-> IF rows[q][s] = "none" THEN "none"
                     ELSE IF rows[q][s] = "done" THEN "done" ELSE "pending"]

FreshPlan == [s \in Steps |-> IF s \in DOMAIN deps THEN "pending" ELSE "none"]

\* A run is admitted, claimed, and finds its plan: its source's rows, or if
\* there are none a fresh one.
Begin(r) ==
    /\ pc[r] = "idle" /\ \A q \in Runs : q < r => status[q] \in Terminal
    /\ r > 1 => deps \in Resumed
    /\ \E q \in {0} \cup (IF Resumable = {} THEN {} ELSE {Newest(Resumable)}) :
          /\ source' = [source EXCEPT ![r] = q]
          /\ plan' = [plan EXCEPT ![r] =
                        IF q = 0 THEN FreshPlan
                        ELSE IF Present(q) = {} THEN FreshPlan ELSE SeedOf(q)]
    /\ status' = [status EXCEPT ![r] = "running"]
    /\ Goto(r, "compile")
    /\ UNCHANGED <<deps, cancelReq, own, rows, body, active, results, batch, event, honor,
                   verdict, crashes, lost, faults>>

RequestCancel(r) ==
    /\ status[r] = "running" /\ ~cancelReq[r]
    /\ cancelReq' = [cancelReq EXCEPT ![r] = TRUE]
    /\ UNCHANGED <<deps, status, source, own, plan, rows, pc, body, active, results, batch,
                   event, honor, verdict, crashes, lost, faults>>

\* _watch_run_cancellation, and watch_lease_failure for a run that was ended.
Notice(r) ==
    /\ pc[r] \notin {"idle", "over"}
    /\ \/ event[r] = "no" /\ (cancelReq[r] \/ status[r] = "cancelled")
          /\ event' = [event EXCEPT ![r] = "cancel"]
       \/ event[r] # "lease" /\ ~Fenced(r)
          /\ event' = [event EXCEPT ![r] = "lease"]
    /\ UNCHANGED <<deps, status, cancelReq, source, own, plan, rows, pc, body, active, results,
                   batch, honor, verdict, crashes, lost, faults>>

\* Mutant: only a lease that expires under a live worker is looked for.
EndedUnderWorker(r) ==
    /\ status[r] = "running" /\ pc[r] # "over" /\ Spared
    /\ lost' = lost + 1
    /\ status' = [status EXCEPT ![r] = IF cancelReq[r] THEN "cancelled" ELSE "failed"]
    /\ UNCHANGED <<deps, cancelReq, source, own, plan, rows, pc, body, active, results, batch,
                   event, honor, verdict, crashes, faults>>

\* Recovery or a forced cancel ends a run, also that of a worker that is only
\* slow.
EndedOutside(r) ==
    /\ status[r] = "running"
    /\ \/ pc[r] = "over" /\ UNCHANGED lost
       \/ pc[r] # "over" /\ Spared /\ lost' = lost + 1
    /\ status' = [status EXCEPT ![r] = IF cancelReq[r] THEN "cancelled" ELSE "failed"]
    /\ UNCHANGED <<deps, cancelReq, source, own, plan, rows, pc, body, active, results, batch,
                   event, honor, verdict, crashes, faults>>

Crash(r) ==
    /\ pc[r] \notin {"idle", "over"} /\ Spared
    /\ crashes' = crashes + 1
    /\ Goto(r, "over")
    /\ active' = [active EXCEPT ![r] = {}]
    /\ UNCHANGED <<deps, status, cancelReq, source, own, plan, rows, body, results, batch, event,
                   honor, verdict, lost, faults>>

-----------------------------------------------------------------------------
(* compile_steps: one row after the other.                                 *)

Missing(r) == {s \in Steps : plan[r][s] # "none" /\ rows[r][s] = "none"}

\* _validated_nodes: known dependencies and no cycle.
Valid(S) ==
    /\ \A s \in S : deps[s] \subseteq S
    /\ \A T \in SUBSET S : T # {} => \E s \in T : deps[s] \cap T = {}

CompileRow(r) ==
    /\ pc[r] = "compile" /\ Missing(r) # {}
    /\ LET s == Least(Missing(r)) IN
       \/ Fenced(r) /\ Write(r, s, plan[r][s]) /\ UNCHANGED <<pc, verdict>>
       \/ /\ WriteRaises(r, s, plan[r][s])
          /\ verdict' = [verdict EXCEPT ![r] = "failed"] /\ Goto(r, "sweep")
    /\ UNCHANGED <<deps, status, cancelReq, source, own, plan, body, active, results, batch,
                   event, honor, crashes, lost>>

\* All rows are there: run_dag validates them and takes over what is done.
Compiled(r) ==
    /\ pc[r] = "compile" /\ Missing(r) = {}
    /\ results' = [results EXCEPT ![r] = RowsIn(r, {"done"})]
    /\ IF Valid(Present(r))
       THEN Goto(r, "loop") /\ UNCHANGED verdict
       ELSE verdict' = [verdict EXCEPT ![r] = "failed"] /\ Goto(r, "sweep")
    /\ UNCHANGED <<deps, status, cancelReq, source, own, plan, rows, body, active, batch, event,
                   honor, crashes, lost, faults>>

-----------------------------------------------------------------------------
(* run_dag.                                                                *)

Pending(r) == {s \in Present(r) : s \notin results[r] /\ body[r][s] = "none"}

\* Mutant: a dependency that was started counts.
ReadyEarly(r) == {s \in Pending(r) : \A d \in deps[s] : body[r][d] # "none" \/ d \in results[r]}

Ready(r) == {s \in Pending(r) : deps[s] \subseteq results[r]}

\* The first k of S in the order of their indexes.
FirstOf(k, S) == {s \in S : Cardinality({t \in S : t < s}) < k}

Startable(r) == FirstOf(MaxParallel - Cardinality(active[r]), Ready(r))

\* The top of the loop.
Loop(r) ==
    /\ pc[r] = "loop"
    /\ \/ /\ Pending(r) = {} /\ active[r] = {}         \* run_dag returns
          /\ IF event[r] # "no" \/ cancelReq[r] \/ status[r] = "cancelled"
             THEN Raise(r, "cancelled")
             ELSE /\ verdict' = [verdict EXCEPT ![r] = "completed"]
                  /\ Goto(r, "finish") /\ UNCHANGED batch
       \/ /\ Pending(r) # {} \/ active[r] # {}
          /\ event[r] # "no" /\ Raise(r, "cancelled")
       \/ /\ Pending(r) # {} \/ active[r] # {}
          /\ event[r] = "no"
          /\ batch' = [batch EXCEPT ![r] = Startable(r)]
          /\ Goto(r, "start") /\ UNCHANGED verdict
    /\ UNCHANGED <<deps, status, cancelReq, source, own, plan, rows, body, active, results, event,
                   honor, crashes, lost, faults>>

\* The row is running before the body exists.
StartNode(r) ==
    /\ pc[r] = "start" /\ batch[r] # {}
    /\ LET s == Least(batch[r]) IN
       \/ /\ Fenced(r) /\ Write(r, s, "running")
          /\ body' = [body EXCEPT ![r][s] = "first"]
          /\ active' = [active EXCEPT ![r] = @ \cup {s}]
          /\ batch' = [batch EXCEPT ![r] = @ \ {s}]
          /\ UNCHANGED <<pc, verdict>>
       \/ /\ WriteRaises(r, s, "running") /\ Raise(r, "failed")
          /\ UNCHANGED <<body, active>>
    /\ UNCHANGED <<deps, status, cancelReq, source, own, plan, results, event, honor, crashes, lost>>

\* With nothing to run and nothing running run_dag gives up, which validation
\* is said to make unreachable.
Started(r) ==
    /\ pc[r] = "start" /\ batch[r] = {}
    /\ IF active[r] = {} THEN Raise(r, "failed")
                         ELSE Goto(r, "wait") /\ UNCHANGED <<batch, verdict>>
    /\ UNCHANGED <<deps, status, cancelReq, source, own, plan, rows, body, active, results,
                   event, honor, crashes, lost, faults>>

Ended(r) == {s \in active[r] : body[r][s] \notin Working}

\* asyncio.wait returns; the task that watches the event may lag behind it.
Wake(r) ==
    /\ pc[r] = "wait"
    /\ \E seen \in BOOLEAN :
          /\ seen => event[r] # "no"
          /\ Ended(r) # {} \/ seen
          /\ honor' = [honor EXCEPT ![r] = seen]
    /\ batch' = [batch EXCEPT ![r] = Ended(r)]
    /\ verdict' = [verdict EXCEPT ![r] = "completed"]
    /\ Goto(r, "reap")
    /\ UNCHANGED <<deps, status, cancelReq, source, own, plan, rows, body, active, results, event,
                   crashes, lost, faults>>

RowAfter(how) == CASE how = "ok" -> "done" [] how = "error" -> "failed"
                   [] how = "cancelled" -> "cancelled"

\* One ended node: it leaves active, then its row is written.
Reap(r) ==
    /\ pc[r] = "reap" /\ batch[r] # {}
    /\ LET s == Least(batch[r])
           how == body[r][s]
       IN
       /\ active' = [active EXCEPT ![r] = @ \ {s}]
       /\ \/ /\ Fenced(r) /\ Write(r, s, RowAfter(how))
             /\ results' = IF how = "ok" THEN [results EXCEPT ![r] = @ \cup {s}]
                                         ELSE results
             /\ \/ how = "ok" /\ batch' = [batch EXCEPT ![r] = @ \ {s}]
                   /\ UNCHANGED <<pc, verdict>>
                \/ how = "error" /\ batch' = [batch EXCEPT ![r] = @ \ {s}]
                   /\ verdict' = [verdict EXCEPT ![r] = "failed"] /\ UNCHANGED pc
                \/ how = "cancelled" /\ Raise(r, "cancelled")
          \/ /\ WriteRaises(r, s, RowAfter(how)) /\ Raise(r, "failed")
             /\ UNCHANGED results
    /\ UNCHANGED <<deps, status, cancelReq, source, own, plan, body, event, honor, crashes, lost>>

\* Cancellation is honoured before a failure.
Reaped(r) ==
    /\ pc[r] = "reap" /\ batch[r] = {}
    /\ IF honor[r] THEN Raise(r, "cancelled")
       ELSE IF verdict[r] = "failed" THEN Raise(r, "failed")
       ELSE Goto(r, "loop") /\ UNCHANGED <<verdict, batch>>
    /\ UNCHANGED <<deps, status, cancelReq, source, own, plan, rows, body, active, results, event,
                   honor, crashes, lost, faults>>

\* cleanup_active: cancel what still works and wait for it ...
Unwind(r) ==
    /\ pc[r] = "unwind"
    /\ \E how \in [active[r] -> {"cancelled", "error"}] :
          body' = [body EXCEPT ![r] =
                     [s \in Steps |-> IF s \in active[r] /\ @[s] \in Working
                                      THEN how[s] ELSE @[s]]]
    /\ Goto(r, "settle")
    /\ UNCHANGED <<deps, status, cancelReq, source, own, plan, rows, active, results, batch, event,
                   honor, verdict, crashes, lost, faults>>

\* Mutant: what is left when run_dag raises is written off.
SettleCancelled(how) == "cancelled"

SettleAs(how) == RowAfter(how)

\* ... then store how each one ended, whatever goes wrong.
Settle(r) ==
    /\ pc[r] = "settle" /\ active[r] # {}
    /\ \E s \in active[r] :
          /\ active' = [active EXCEPT ![r] = @ \ {s}]
          /\ \/ Fenced(r) /\ Write(r, s, SettleAs(body[r][s]))
             \/ WriteRaises(r, s, SettleAs(body[r][s]))
    /\ UNCHANGED <<deps, status, cancelReq, source, own, plan, pc, body, results, batch, event,
                   honor, verdict, crashes, lost>>

\* A lost lease is re-raised and ends the worker on the spot.
Settled(r) ==
    /\ pc[r] = "settle" /\ active[r] = {}
    /\ Goto(r, IF verdict[r] = "cancelled" /\ event[r] = "lease" THEN "over" ELSE "sweep")
    /\ UNCHANGED <<deps, status, cancelReq, source, own, plan, rows, body, active, results, batch,
                   event, honor, verdict, crashes, lost, faults>>

-----------------------------------------------------------------------------
(* The end of orchestrator.run.                                            *)

Unfinished(r) == RowsIn(r, Open)

\* _cancel_unfinished_steps; after a failure its own errors are only logged.
Sweep(r) ==
    /\ pc[r] = "sweep"
    /\ \/ /\ Unfinished(r) = {} /\ Goto(r, "finish")
          /\ UNCHANGED <<rows, faults>>
       \/ /\ Unfinished(r) # {}
          /\ LET s == Least(Unfinished(r)) IN
             \/ Fenced(r) /\ Write(r, s, "cancelled") /\ UNCHANGED pc
             \/ /\ WriteRaises(r, s, "cancelled")
                /\ Goto(r, IF verdict[r] = "failed" THEN "finish" ELSE "over")
    /\ UNCHANGED <<deps, status, cancelReq, source, own, plan, body, active, results, batch, event,
                   honor, verdict, crashes, lost>>

\* _set_run_status: a durable cancel request wins (TaskRunLifecycle).
Finish(r) ==
    /\ pc[r] = "finish"
    /\ IF Fenced(r)
       THEN /\ status' = [status EXCEPT ![r] = IF cancelReq[r] THEN "cancelled"
                                               ELSE verdict[r]]
            /\ own' = [own EXCEPT ![r] = TRUE]
       ELSE UNCHANGED <<deps, status, own>>
    /\ Goto(r, "over")
    /\ UNCHANGED <<deps, cancelReq, source, plan, rows, body, active, results, batch, event, honor,
                   verdict, crashes, lost, faults>>

-----------------------------------------------------------------------------
(* The bodies: execute, the event-loop tasks beside run_dag.               *)

Live(r, s) == s \in active[r] /\ body[r][s] \in Working /\ pc[r] # "over"

EndBody(r, s, how) ==
    /\ body' = [body EXCEPT ![r][s] = how]
    /\ UNCHANGED <<deps, status, cancelReq, source, own, plan, rows, pc, active, results, batch,
                   event, honor, verdict, crashes, lost, faults>>

\* The result is returned after the usage was stored under the lease.
BodyOk(r, s) == Live(r, s) /\ Fenced(r) /\ EndBody(r, s, "ok")
BodyError(r, s) == Live(r, s) /\ EndBody(r, s, "error")
BodyCancelled(r, s) == Live(r, s) /\ event[r] # "no" /\ EndBody(r, s, "cancelled")

\* The reviewer rejects the first attempt; it is stored with the row still running.
BodyRetry(r, s) ==
    /\ Live(r, s) /\ body[r][s] = "first" /\ Fenced(r) /\ rows[r][s] = "running"
    /\ EndBody(r, s, "second")

-----------------------------------------------------------------------------

WorkerStep(r) ==
    \/ CompileRow(r) \/ Compiled(r)
    \/ Loop(r) \/ StartNode(r) \/ Started(r) \/ Wake(r) \/ Reap(r) \/ Reaped(r)
    \/ Unwind(r) \/ Settle(r) \/ Settled(r) \/ Sweep(r) \/ Finish(r)

BodyStep(r, s) ==
    BodyOk(r, s) \/ BodyError(r, s) \/ BodyCancelled(r, s) \/ BodyRetry(r, s)

RunStep(r) ==
    \/ Begin(r) \/ RequestCancel(r) \/ Notice(r) \/ EndedOutside(r) \/ Crash(r)
    \/ WorkerStep(r)
    \/ \E s \in Steps : BodyStep(r, s)

Next == \E r \in Runs : RunStep(r)

\* The event loop runs what is ready, a body has a timeout, and the recovery
\* pass ends the run of a dead worker.
Fairness ==
    \A r \in Runs :
        /\ WF_vars(WorkerStep(r))
        /\ \A s \in Steps : WF_vars(BodyOk(r, s) \/ BodyError(r, s) \/ BodyCancelled(r, s))
        /\ WF_vars(EndedOutside(r) /\ pc[r] = "over")

Spec == Init /\ [][Next]_vars
FairSpec == Spec /\ Fairness

-----------------------------------------------------------------------------
(* What the steps promise.                                                 *)

\* A body runs only when the result of every step it depends on is stored
\* (run_dag, _durable_step_prompt).
DependenciesFirst ==
    \A r \in Runs, s \in Steps :
        body[r][s] \in Working => \A d \in deps[s] : d \in Steps /\ rows[r][d] = "done"

\* A validated plan never stalls ("Validation makes this unreachable", run_dag).
NeverStalls ==
    \A r \in Runs : ~(pc[r] = "start" /\ batch[r] = {} /\ active[r] = {})

\* What was done in a run is taken over by the run that resumes it and is not
\* executed again (seed_resume_steps).
DoneIsKept ==
    \A r, q \in Runs, s \in Steps :
        source[r] = q /\ rows[q][s] = "done" =>
            /\ body[r][s] = "none"
            /\ rows[r][s] \in {"none", "done"}
            /\ pc[r] = "loop" => s \in results[r]

\* The rows of a run that was ended do not change any more, whatever its worker
\* still tries (_fenced_step_update).
RowsFrozen == [][\A r \in Runs : status[r] \in Terminal => rows'[r] = rows[r]]_vars

\* A worker that ends its run leaves no open row, and keeps every result its
\* bodies returned, also those that lost against a cancellation or a failure in
\* the same tick (cleanup_active, _cancel_unfinished_steps) ...
ResultsKept ==
    \A r \in Runs, s \in Steps : own[r] /\ faults = 0 =>
        /\ rows[r][s] \notin Open
        /\ body[r][s] = "ok" => rows[r][s] = "done"

\* ... and a run completes only when each of its rows is done (orchestrator.run).
CompletedIsDone ==
    \A r \in Runs : status[r] = "completed" => Present(r) # {} /\ Present(r) = RowsIn(r, {"done"})

\* The books of a run are closed with it: its rows say what its bodies did, its
\* status says what its rows do, and the run that resumes it goes on from there.
BooksClosed == ResultsKept /\ CompletedIsDone /\ DoneIsKept

\* A run completes only when the whole plan is done, however often it was
\* resumed ("silently deleting them would turn a bad plan into different work",
\* plan_task; "a retried compile can finish a partially inserted plan",
\* compile_steps): seed_resume_steps takes the rows of a run that died half-way
\* through compile_steps for its whole plan.
WholePlan == \A r \in Runs : status[r] = "completed" => DOMAIN deps \subseteq RowsIn(r, {"done"})

\* Every run that begins ends, with or without its worker: in the end none is
\* left running (run_dag, run_recovery_pass).
RunsEnd == <>[](\A r \in Runs : status[r] # "running")

=============================================================================
