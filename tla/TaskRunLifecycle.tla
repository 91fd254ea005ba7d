--------------------------- MODULE TaskRunLifecycle ---------------------------
(***************************************************************************)
(* One durable task run: the TaskRun row, the head reservation that keeps  *)
(* it the active run of its task, and the event rows its outbox feeds.     *)
(* Every writer of the row is a process of its own: the workers that were  *)
(* handed the queue message, the API requests that cancel, the recovery    *)
(* passes, and the request that published the message.                     *)
(*                                                                         *)
(* A repository method reads the row, decides, and issues one conditional  *)
(* UPDATE; the read and the UPDATE are two steps here, because every other *)
(* process can run between them.  op[p] is what process p is in the middle *)
(* of, and op[p].snap the row as p read it.                                *)
(*                                                                         *)
(* Deadlines are kept as the time that is left of them, so time needs no   *)
(* horizon: timer.lease is lease_expires_at - now and so on, 0 = passed.   *)
(***************************************************************************)
EXTENDS Integers, Sequences, FiniteSets

CONSTANTS
    Workers,        \* deliveries of the queue message to Celery workers
    Clients,        \* concurrent cancel requests to the API
    Recoverers,     \* recovery loops (one per web process)
    Publisher,      \* the request that enqueued the run
    NoProc,         \* "nobody"
    LeaseTime,      \* lease_seconds
    QueueTime,      \* queue_timeout_seconds
    GraceTime,      \* force_grace_seconds
    Skew,           \* how far a process clock may run ahead of the database
    MaxBeats,       \* bound: heartbeats of one claim
    MaxEmits,       \* bound: step events a worker emits
    MaxCrashes,     \* bound: process crashes
    MaxFaults       \* bound: failed event-store inserts

Procs == Workers \cup Clients \cup Recoverers \cup {Publisher}

ASSUME ProcsAssumption ==
    /\ Workers \cap Clients = {} /\ Workers \cap Recoverers = {}
    /\ Clients \cap Recoverers = {}
    /\ Publisher \notin Workers \cup Clients \cup Recoverers
    /\ NoProc \notin Workers \cup Clients \cup Recoverers \cup {Publisher}

ASSUME TimesAssumption ==
    /\ LeaseTime \in Nat \ {0}
    /\ {QueueTime, GraceTime, Skew} \subseteq Nat
    /\ {MaxBeats, MaxEmits, MaxCrashes, MaxFaults} \subseteq Nat

-----------------------------------------------------------------------------
(* The data.                                                               *)

Leased   == {"running", "cancelling"}
Active   == {"queued"} \cup Leased
Terminal == {"completed", "failed", "cancelled"}
Statuses == Active \cup Terminal

ErrorCodes == {"none", "error", "cancelled", "worker_lost", "queue_timeout",
               "publish_failed"}

\* An event envelope: its sequence number and what it reports.
EventKinds == {"step"} \cup Statuses
Envelopes  == [seq: Nat \ {0}, kind: EventKinds]

Rows == [status: Statuses, version: Nat, generation: Nat,
         cancel: BOOLEAN,           \* cancel_requested_at is set
         error: ErrorCodes,
         job: BOOLEAN,              \* queue_job_id is set
         seq: Nat,                  \* next_event_sequence
         outbox: Seq(Envelopes)]    \* event_outbox

NewRow == [status |-> "queued", version |-> 0, generation |-> 0,
           cancel |-> FALSE, error |-> "none", job |-> FALSE,
           seq |-> 0, outbox |-> <<>>]

\* What a process is in the middle of.
Places == {"idle",      \* between two operations
           "publish",   \* about to hand the message to the broker
           "commit",    \* holds a snapshot, about to run the UPDATE
           "release",   \* the terminal UPDATE is done, the head is still held
           "flush",     \* about to deliver the first envelope of the outbox
           "drop"}      \* delivered it, about to take it out of the outbox
Kinds  == {"none", "claim", "running", "step", "completed", "failed",
           "cancelled", "request", "force", "recover", "attach", "failqueued"}
Ops    == [at: Places, kind: Kinds, snap: Rows]

Idle == [at |-> "idle", kind |-> "none", snap |-> NewRow]

VARIABLES
    run,        \* the TaskRun row
    head,       \* TaskRunHead.active_run_id = this run
    events,     \* the TaskRunEvent rows
    timer,      \* what is left of the queue timeout, the lease and the grace
    op,         \* op[p]: the operation p is in the middle of
    body,       \* body[w]: where worker w is in orchestrator.run
    claim,      \* claim[w]: the generation of w's LeaseClaim, 0 = none
    beats,      \* beats[w]: heartbeats so far
    emits,      \* step events so far
    finisher,   \* history: the process whose UPDATE made the run terminal
    crashes, faults

vars == <<run, head, events, timer, op, body, claim, beats, emits,
          finisher, crashes, faults>>

\* "new": message received; "claimed": run_status(running) not yet emitted;
\* "running"; "closing": a LeaseLost or another error is being handled.
Bodies == {"new", "claimed", "running", "closing", "done"}

TypeOK ==
    /\ run \in Rows
    /\ head \in BOOLEAN
    /\ events \subseteq Envelopes
    /\ timer \in [queue: Nat, lease: Nat, grace: Nat]
    /\ op \in [Procs -> Ops]
    /\ body \in [Workers -> Bodies]
    /\ claim \in [Workers -> Nat]
    /\ beats \in [Workers -> Nat]
    /\ emits \in Nat /\ crashes \in Nat /\ faults \in Nat
    /\ finisher \in Procs \cup {NoProc}

\* create_queued has returned and the message is about to be published.
Init ==
    /\ run = NewRow /\ head = TRUE /\ events = {}
    /\ timer = [queue |-> QueueTime, lease |-> 0, grace |-> 0]
    /\ op = [p \in Procs |-> IF p = Publisher
                             THEN [Idle EXCEPT !.at = "publish"] ELSE Idle]
    /\ body = [w \in Workers |-> "new"]
    /\ claim = [w \in Workers |-> 0]
    /\ beats = [w \in Workers |-> 0]
    /\ emits = 0 /\ crashes = 0 /\ faults = 0
    /\ finisher = NoProc

-----------------------------------------------------------------------------
(* The conditional UPDATEs.                                                *)

At(p, place, kind) == op[p].at = place /\ op[p].kind = kind

\* The WHERE clause every writer of the row shares.
Unchanged(snap) == run.version = snap.version /\ run.status = snap.status

\* The WHERE clause of a write under a lease (_fenced_run_update).
LeaseFenced(w, snap) ==
    /\ Unchanged(snap)
    /\ run.generation = claim[w]
    /\ timer.lease > 0

\* _require_step_write: the failed write of w was not a mere version race.
LeaseIsLost(w) ==
    run.status \notin Leased \/ run.generation # claim[w] \/ timer.lease = 0

\* The row a write leaves, and the same with one more envelope.
Bump(row, snap) == [row EXCEPT !.version = snap.version + 1]
Log(row, snap, kind) ==
    [row EXCEPT !.seq = snap.seq + 1,
                !.outbox = Append(snap.outbox,
                                  [seq |-> snap.seq + 1, kind |-> kind])]

Snapshot(p, kind) == op' = [op EXCEPT ![p] = [at |-> "commit", kind |-> kind,
                                              snap |-> run]]
Goto(p, place, kind) ==
    op' = [op EXCEPT ![p] = [at |-> place, kind |-> kind, snap |-> NewRow]]
Go(p, place) == Goto(p, place, op[p].kind)
Done(p) == op' = [op EXCEPT ![p] = Idle]

-----------------------------------------------------------------------------
(* The worker: celery_worker.run_task, orchestrator.run, LeaseController.  *)

\* A delivery of the message claims the run, or finds it no longer queued.
ClaimRead(w) ==
    /\ body[w] = "new" /\ At(w, "idle", "none")
    /\ IF run.status = "queued"
       THEN Snapshot(w, "claim") /\ UNCHANGED body
       ELSE body' = [body EXCEPT ![w] = "done"] /\ UNCHANGED op
    /\ UNCHANGED <<run, head, events, timer, claim, beats, emits, finisher,
                   crashes, faults>>

\* Mutant: the claim is saved without comparing the row it was read from.
ClaimUpdateUnchecked(snap) == run.status \notin Terminal

ClaimUpdateMatches(snap) == Unchanged(snap)

ClaimCommit(w) ==
    LET snap == op[w].snap IN
    /\ At(w, "commit", "claim")
    /\ IF ClaimUpdateMatches(snap)
       THEN /\ run' = Bump([run EXCEPT !.status = "running",
                                       !.generation = snap.generation + 1], snap)
            /\ timer' = [timer EXCEPT !.lease = LeaseTime]
            /\ claim' = [claim EXCEPT ![w] = snap.generation + 1]
            /\ body' = [body EXCEPT ![w] = "claimed"]
       ELSE UNCHANGED <<run, timer, claim, body>>
    /\ Done(w)
    /\ UNCHANGED <<head, events, beats, emits, finisher, crashes, faults>>

\* LeaseController renews the lease beside the body.  Its read and its UPDATE
\* are one step: the UPDATE repeats every test made on the row that was read.
HeartbeatMatches(w) ==
    /\ run.status \in Leased
    /\ run.generation = claim[w]
    /\ timer.lease > 0

\* LeaseController beats from the claim until its worker leaves it.
Beating(w) == body[w] \in {"claimed", "running", "closing"} /\ beats[w] < MaxBeats

Heartbeat(w) ==
    /\ Beating(w)
    /\ HeartbeatMatches(w)
    /\ run' = Bump(run, run)
    /\ timer' = [timer EXCEPT !.lease = LeaseTime]
    /\ beats' = [beats EXCEPT ![w] = @ + 1]
    /\ UNCHANGED <<head, events, op, body, claim, emits, finisher, crashes, faults>>

\* The body writes an event under its lease (emit_event): first the status
\* "running", then what the steps do.  On a row that is no longer its own the
\* emitter raises, which is BodyFails.
EmitRead(w) ==
    /\ At(w, "idle", "none")
    /\ \/ body[w] = "claimed" /\ Snapshot(w, "running") /\ UNCHANGED emits
       \/ /\ body[w] = "running" /\ emits < MaxEmits
          /\ Snapshot(w, "step") /\ emits' = emits + 1
    /\ run.generation = claim[w] /\ run.status \notin Terminal
    /\ UNCHANGED <<run, head, events, timer, body, claim, beats, finisher,
                   crashes, faults>>

EmitCommit(w) ==
    LET snap == op[w].snap IN
    /\ op[w].at = "commit" /\ op[w].kind \in {"running", "step"}
    /\ IF LeaseFenced(w, snap)
       THEN /\ run' = Bump(Log(run, snap, op[w].kind), snap)
            /\ body' = [body EXCEPT ![w] = "running"]
            /\ Go(w, "flush")
       ELSE /\ UNCHANGED run
            /\ IF LeaseIsLost(w)
               THEN body' = [body EXCEPT ![w] = "closing"] /\ Done(w)
               ELSE Snapshot(w, op[w].kind) /\ UNCHANGED body
    /\ UNCHANGED <<head, events, timer, claim, beats, emits, finisher, crashes,
                   faults>>

\* The body raises: a step failed, the heartbeat reported a lost lease.
BodyFails(w) ==
    /\ body[w] \in {"claimed", "running"} /\ At(w, "idle", "none")
    /\ body' = [body EXCEPT ![w] = "closing"]
    /\ UNCHANGED <<run, head, events, timer, op, claim, beats, emits, finisher,
                   crashes, faults>>

\* Mutant: the durable cancellation is not looked at.
OutcomeAsAsked(asked) == asked

\* _set_run_status: a terminal row is authoritative, and a cancellation that
\* is already durable turns every outcome into "cancelled".  A body that runs
\* may also find the task row cancelled before pickup and ask for "cancelled".
Outcome(asked) == IF run.status = "cancelling" THEN "cancelled" ELSE asked

FinishRead(w) ==
    /\ At(w, "idle", "none")
    /\ \E asked \in {"completed", "failed", "cancelled"} :
        /\ \/ body[w] = "running" /\ asked \in {"completed", "cancelled"}
           \/ body[w] = "closing" /\ asked = "failed"
        /\ IF run.status \in Terminal \/ run.generation # claim[w]
           THEN body' = [body EXCEPT ![w] = "done"] /\ UNCHANGED op
           ELSE Snapshot(w, Outcome(asked)) /\ UNCHANGED body
    /\ UNCHANGED <<run, head, events, timer, claim, beats, emits, finisher,
                   crashes, faults>>

\* After a lost CAS: a cancellation that won the race is finalized as
\* cancelled, a version race is tried again, and a lost lease ends the write.
FinishRetry(w) ==
    IF LeaseIsLost(w)
    THEN /\ Done(w)
         /\ body' = [body EXCEPT ![w] =
                        IF body[w] = "running" THEN "closing" ELSE "done"]
    ELSE /\ Snapshot(w, Outcome(op[w].kind))
         /\ UNCHANGED body

FinishCommit(w) ==
    LET snap == op[w].snap
        kind == op[w].kind
    IN
    /\ op[w].at = "commit" /\ kind \in Terminal
    /\ IF LeaseFenced(w, snap)
       THEN /\ run' = Bump(Log([run EXCEPT !.status = kind,
                                           !.error = IF kind = "failed"
                                                     THEN "error" ELSE @],
                               snap, kind), snap)
            /\ finisher' = w
            /\ body' = [body EXCEPT ![w] = "done"]
            /\ Go(w, "release")
       ELSE FinishRetry(w) /\ UNCHANGED <<run, finisher>>
    /\ UNCHANGED <<head, events, timer, claim, beats, emits, crashes, faults>>

-----------------------------------------------------------------------------
(* The API: the publishing request and the cancel requests.                *)

\* apply_async returns a job id, or raises although the broker may have the
\* message: workers may hold it in both cases.  Then the row is read again, to
\* attach the job id or to fail the run if it is still queued.
FailQueuedRead(p) ==
    IF run.status = "queued" THEN Snapshot(p, "failqueued") ELSE Done(p)

Publish ==
    /\ At(Publisher, "publish", "none")
    /\ Snapshot(Publisher, "attach") \/ FailQueuedRead(Publisher)
    /\ UNCHANGED <<run, head, events, timer, body, claim, beats, emits, finisher,
                   crashes, faults>>

\* attach_queue_job_id: a CAS on the version alone, whatever the status.
AttachCommit ==
    LET snap == op[Publisher].snap IN
    /\ At(Publisher, "commit", "attach")
    /\ IF run.version = snap.version
       THEN run' = Bump([run EXCEPT !.job = TRUE], snap) /\ Done(Publisher)
       ELSE UNCHANGED run /\ Snapshot(Publisher, "attach")
    /\ UNCHANGED <<head, events, timer, body, claim, beats, emits, finisher,
                   crashes, faults>>

\* A worker whose task row is gone fails the queued run the same way.
TaskMissing(w) ==
    /\ body[w] = "new" /\ At(w, "idle", "none")
    /\ FailQueuedRead(w)
    /\ body' = [body EXCEPT ![w] = "done"]
    /\ UNCHANGED <<run, head, events, timer, claim, beats, emits, finisher,
                   crashes, faults>>

\* This terminal write carries no event.
FailQueuedCommit(p) ==
    LET snap == op[p].snap IN
    /\ At(p, "commit", "failqueued")
    /\ IF Unchanged(snap)
       THEN /\ run' = Bump([run EXCEPT !.status = "failed",
                                       !.error = "publish_failed"], snap)
            /\ finisher' = p
            /\ Go(p, "release")
       ELSE FailQueuedRead(p) /\ UNCHANGED <<run, finisher>>
    /\ UNCHANGED <<head, events, timer, body, claim, beats, emits, crashes, faults>>

\* request_cancel: a terminal run is only tidied up, a cancelling one is left
\* to its worker, a queued or running one is about to be written.
RequestRead(c) ==
    /\ At(c, "idle", "none")
    /\ \/ run.status \in Terminal           /\ Goto(c, "release", "request")
       \/ run.status = "cancelling"         /\ Goto(c, "flush", "request")
       \/ run.status \in {"queued", "running"} /\ Snapshot(c, "request")
    /\ UNCHANGED <<run, head, events, timer, body, claim, beats, emits, finisher,
                   crashes, faults>>

\* _force_cancel_ready, on the clock of the API process.
ForceReady == timer.lease <= Skew \/ (run.cancel /\ timer.grace <= Skew)

\* force_cancel: the repeated request for a run that is already cancelling.
ForceRead(c) ==
    /\ At(c, "idle", "none")
    /\ \/ /\ run.status \in Terminal
          /\ Goto(c, "release", "force")
       \/ /\ run.status = "cancelling" /\ ForceReady
          /\ Snapshot(c, "force")
       \/ /\ run.status = "cancelling" /\ ~ForceReady
          /\ Goto(c, "flush", "force")
    /\ UNCHANGED <<run, head, events, timer, body, claim, beats, emits, finisher,
                   crashes, faults>>

\* A lost CAS is followed by another read, which is RequestRead or ForceRead.
CancelUpdateMatches(snap) ==
    Unchanged(snap) /\ run.generation = snap.generation

\* Mutant: the cancelled worker keeps its token.
ForcedGenerationKept(snap) == snap.generation

\* Forcing advances the fencing token.
ForcedGeneration(snap) == snap.generation + 1

CancelCommit(c) ==
    LET snap == op[c].snap
        kind == op[c].kind
        ends == kind = "force" \/ snap.status = "queued"
        target == IF ends THEN "cancelled" ELSE "cancelling"
    IN
    /\ op[c].at = "commit" /\ kind \in {"request", "force"}
    /\ IF CancelUpdateMatches(snap)
       THEN /\ run' = Bump(Log([run EXCEPT !.status = target, !.cancel = TRUE,
                                   !.generation = IF kind = "force"
                                                  THEN ForcedGeneration(snap)
                                                  ELSE @],
                               snap, target), snap)
            /\ timer' = [timer EXCEPT !.grace = IF snap.cancel THEN @ ELSE GraceTime]
            /\ finisher' = IF ends THEN c ELSE finisher
            /\ Go(c, IF ends THEN "release" ELSE "flush")
       ELSE Done(c) /\ UNCHANGED <<run, timer, finisher>>
    /\ UNCHANGED <<head, events, body, claim, beats, emits, crashes, faults>>

-----------------------------------------------------------------------------
(* The recovery pass: recovery.run_recovery_pass.                          *)

\* Mutant: a worker that stopped renewing its lease is not looked for.
LooksStaleQueued == run.status = "queued" /\ timer.queue <= Skew

\* _recovery_action, on the clock of the recovering process.
LooksStale == \/ run.status = "queued" /\ timer.queue <= Skew
              \/ run.status \in Leased /\ timer.lease <= Skew

RecoverRead(r) ==
    /\ At(r, "idle", "none")
    /\ LooksStale
    /\ Snapshot(r, "recover")
    /\ UNCHANGED <<run, head, events, timer, body, claim, beats, emits, finisher,
                   crashes, faults>>

\* Mutant: the UPDATE trusts the clock of the recovering process.
StaleOnOwnClock(snap) == IF snap.status = "queued" THEN timer.queue <= Skew
                                                   ELSE timer.lease <= Skew

\* _recovery_stale_predicate: the UPDATE asks the database clock again.
StaleNow(snap) == IF snap.status = "queued" THEN timer.queue = 0
                                            ELSE timer.lease = 0

\* Mutant: the recovery UPDATE does not compare status and version.
RecoverUpdateByToken(snap) ==
    run.generation = snap.generation /\ StaleNow(snap)

RecoverUpdateMatches(snap) ==
    /\ Unchanged(snap)
    /\ run.generation = snap.generation
    /\ StaleNow(snap)

\* A durable cancellation decides the cause, not the expiry.
RecoveredStatus(snap) ==
    IF snap.status \in Leased /\ snap.cancel THEN "cancelled" ELSE "failed"
RecoveredError(snap) ==
    CASE snap.status = "queued" -> "queue_timeout"
      [] snap.status \in Leased /\ snap.cancel -> "cancelled"
      [] OTHER -> "worker_lost"

RecoverCommit(r) ==
    LET snap == op[r].snap IN
    /\ At(r, "commit", "recover")
    /\ IF RecoverUpdateMatches(snap)
       THEN /\ run' = Bump(Log([run EXCEPT
                                   !.status = RecoveredStatus(snap),
                                   !.error = RecoveredError(snap),
                                   !.generation = IF snap.status \in Leased
                                                  THEN snap.generation + 1 ELSE @],
                               snap, RecoveredStatus(snap)), snap)
            /\ finisher' = r
            /\ Go(r, "release")
       ELSE Done(r) /\ UNCHANGED <<run, finisher>>
    /\ UNCHANGED <<head, events, timer, body, claim, beats, emits, crashes, faults>>

\* recover_stale_reservations frees the head a crashed finisher still holds.
RecoverHead(r) ==
    /\ At(r, "idle", "none")
    /\ head /\ run.status \in Terminal
    /\ head' = FALSE
    /\ UNCHANGED <<run, events, timer, op, body, claim, beats, emits, finisher,
                   crashes, faults>>

\* recover_outboxes drains what a crashed or refused flush left behind.
RecoverOutbox(r) ==
    /\ At(r, "idle", "none")
    /\ run.outbox # <<>>
    /\ Goto(r, "flush", "recover")
    /\ UNCHANGED <<run, head, events, timer, body, claim, beats, emits, finisher,
                   crashes, faults>>

-----------------------------------------------------------------------------
(* What every process does after its UPDATE: _release_active, flush_outbox. *)

Release(p) ==
    /\ op[p].at = "release"
    /\ head' = FALSE
    /\ IF op[p].kind = "failqueued" THEN Done(p) ELSE Go(p, "flush")
    /\ UNCHANGED <<run, events, timer, body, claim, beats, emits, finisher,
                   crashes, faults>>

\* _mutate ends with another read: a run that was made terminal meanwhile is
\* released once more.
FlushEnd(p) ==
    /\ op[p].at = "flush" /\ run.outbox = <<>>
    /\ IF op[p].kind \in {"running", "step"} /\ run.status \in Terminal
       THEN head' = FALSE ELSE UNCHANGED head
    /\ Done(p)
    /\ UNCHANGED <<run, events, timer, body, claim, beats, emits, finisher,
                   crashes, faults>>

\* (run_id, sequence) is unique: a second insert finds the row there.
Persist(envelope) ==
    IF \E e \in events : e.seq = envelope.seq THEN events
                                              ELSE events \cup {envelope}

\* Read the row, insert its first envelope.  An insert that comes late inserts
\* an envelope that is already there, so the two are one step.
FlushInsert(p) ==
    /\ op[p].at = "flush" /\ run.outbox # <<>>
    /\ events' = Persist(Head(run.outbox))
    /\ op' = [op EXCEPT ![p] = [at |-> "drop", kind |-> op[p].kind, snap |-> run]]
    /\ UNCHANGED <<run, head, timer, body, claim, beats, emits, finisher,
                   crashes, faults>>

\* event_outbox[1:]
Rest(outbox) == SubSeq(outbox, 2, Len(outbox))

\* Mutant: the shorter outbox is saved over whatever the row holds by now.
DropUnchecked(snap) == TRUE

DropMatches(snap) == run.version = snap.version

FlushDrop(p) ==
    LET snap == op[p].snap IN
    /\ op[p].at = "drop"
    /\ IF DropMatches(snap)
       THEN run' = Bump([run EXCEPT !.outbox = Rest(snap.outbox)], snap)
       ELSE UNCHANGED run
    /\ Go(p, "flush")
    /\ UNCHANGED <<head, events, timer, body, claim, beats, emits, finisher,
                   crashes, faults>>

\* The event store refuses the insert: the envelope stays in the outbox.
StoreFault(p) ==
    /\ op[p].at = "flush" /\ run.outbox # <<>> /\ faults < MaxFaults
    /\ faults' = faults + 1
    /\ Done(p)
    /\ UNCHANGED <<run, head, events, timer, body, claim, beats, emits, finisher,
                   crashes>>

-----------------------------------------------------------------------------
(* The environment.                                                        *)

\* The process dies: what it was doing is lost, what it wrote is not.
Crash(p) ==
    /\ crashes < MaxCrashes
    /\ \/ op[p].at # "idle"
       \/ p \in Workers /\ body[p] \in {"claimed", "running", "closing"}
    /\ crashes' = crashes + 1
    /\ Done(p)
    /\ body' = [w \in Workers |-> IF w = p THEN "done" ELSE body[w]]
    /\ UNCHANGED <<run, head, events, timer, claim, beats, emits, finisher, faults>>

Less(n) == IF n = 0 THEN 0 ELSE n - 1

\* Time passes on the deadlines the status gives a meaning to.
Tick ==
    /\ \/ run.status = "queued" /\ timer.queue > 0
       \/ run.status \in Leased /\ timer.lease + timer.grace > 0
    /\ timer' = IF run.status = "queued"
                THEN [timer EXCEPT !.queue = Less(@)]
                ELSE [timer EXCEPT !.lease = Less(@), !.grace = Less(@)]
    /\ UNCHANGED <<run, head, events, op, body, claim, beats, emits, finisher,
                   crashes, faults>>

WorkerStep(w) ==
    \/ TaskMissing(w) \/ ClaimRead(w) \/ ClaimCommit(w) \/ Heartbeat(w)
    \/ EmitRead(w) \/ EmitCommit(w) \/ BodyFails(w)
    \/ FinishRead(w) \/ FinishCommit(w)

ClientStep(c) == RequestRead(c) \/ ForceRead(c) \/ CancelCommit(c)

RecovererStep(r) ==
    RecoverRead(r) \/ RecoverCommit(r) \/ RecoverHead(r) \/ RecoverOutbox(r)

PublisherStep == Publish \/ AttachCommit

AnyStep(p) ==
    \/ FailQueuedCommit(p) \/ Release(p)
    \/ FlushEnd(p) \/ FlushInsert(p) \/ FlushDrop(p) \/ StoreFault(p)
    \/ Crash(p)

Next ==
    \/ \E w \in Workers : WorkerStep(w)
    \/ \E c \in Clients : ClientStep(c)
    \/ \E r \in Recoverers : RecovererStep(r)
    \/ PublisherStep
    \/ \E p \in Procs : AnyStep(p)
    \/ Tick

\* Only the recovery loops and the clock are sure to go on: a worker may hang,
\* a client may walk away, a message may never be delivered.
Fairness ==
    /\ WF_vars(Tick)
    /\ \A r \in Recoverers :
        /\ WF_vars(RecoverRead(r)) /\ WF_vars(RecoverCommit(r))
        /\ WF_vars(RecoverHead(r)) /\ WF_vars(RecoverOutbox(r))
        /\ WF_vars(Release(r)) /\ WF_vars(FlushEnd(r))
        /\ WF_vars(FlushInsert(r)) /\ WF_vars(FlushDrop(r))

Spec == Init /\ [][Next]_vars
FairSpec == Spec /\ Fairness

-----------------------------------------------------------------------------
(* What the lifecycle promises.                                            *)

\* A cancel request that committed decides the outcome: whatever the worker,
\* a recovery pass or a second request do afterwards, the run is never
\* reported completed or failed (_set_run_status, _recovery_action, _cancel).
CancelWins == run.status \in {"completed", "failed"} => ~run.cancel

\* The queue may deliver the message more than once, but a run is executed
\* under one claim: no two deliveries ever hold a LeaseClaim (claim).
OneExecution ==
    \A v, w \in Workers : claim[v] # 0 /\ claim[w] # 0 => v = w

\* Recovery never blames a live worker: "worker_lost" is only written once the
\* lease has expired on the database clock, "queue_timeout" only on a run that
\* no worker ever claimed, however far the recovering clock runs ahead.
RecoveryJustified ==
    /\ run.error = "worker_lost" => timer.lease = 0
    /\ run.error = "queue_timeout" => /\ timer.queue = 0
                                      /\ \A w \in Workers : claim[w] = 0

\* A terminal row that still carries a worker's generation was terminalized
\* by that worker: LeaseController may take a heartbeat that fails then as
\* its own race, because recovery and force-cancel advance the generation.
OwnTerminalToken ==
    run.status \in Terminal =>
        \A w \in Workers : claim[w] = run.generation /\ claim[w] # 0
                                => finisher = w

\* The first terminal write is final: no late worker, canceller or recovery
\* pass changes the outcome or adds an event, whatever snapshot it holds.
Outcomes(row) == [status |-> row.status, generation |-> row.generation,
                  cancel |-> row.cancel, error |-> row.error, seq |-> row.seq]
TerminalFrozen == [][run.status \in Terminal => Outcomes(run') = Outcomes(run)]_vars

\* Whatever happens to its message, its workers and its cancellations, a run
\* ends, gives its task back for the next run, and every event it logged
\* reaches the event table (run_recovery_pass).
RunSettles ==
    <>[](run.status \in Terminal /\ ~head /\ run.outbox = <<>>)

=============================================================================
