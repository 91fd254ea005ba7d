------------------------------ MODULE Scheduler ------------------------------
(***************************************************************************)
(* The schedule of one task.  A scheduler claims a due occurrence by a      *)
(* compare-and-set on next_run_at that moves the schedule on, and only then *)
(* starts a run; when that fails it puts its claim back.  Meanwhile the     *)
(* user pauses, resumes, redefines or deletes the schedule, or edits        *)
(* something else and saves the whole row as it was read.                   *)
(*                                                                         *)
(* The run itself is TaskRunLifecycle's and its admission TaskRunHead's:    *)
(* here it is active or not.  A schedule is one-shot or recurring (an       *)
(* interval; a cron expression differs only in the instant it computes).    *)
(***************************************************************************)
EXTENDS Naturals

CONSTANTS
    Schedulers,     \* processes with a scheduler_loop; one is the rule
    Editors,        \* requests that edit the task but not its schedule
    Kinds,          \* the schedules users define: "once", "every"
    Interval,       \* schedule_interval
    Never,          \* next_run_at is NULL
    MaxTime,        \* bound: the horizon
    MaxChanges,     \* bound: schedule changes by users
    MaxCrashes      \* bound: schedulers that die half-way

ASSUME ScheduleAssumption ==
    /\ Kinds \subseteq {"once", "every"} /\ Kinds # {}
    /\ Interval \in Nat \ {0} /\ Never \notin Nat
    /\ MaxTime \in Nat /\ MaxChanges \in Nat /\ MaxCrashes \in Nat

VARIABLES
    row,            \* the schedule columns of the Task row, and deleted_at
    now,            \* the clock
    busy,           \* a run of the task is active
    pc,             \* pc[s]: what scheduler or editor s does next
    seen,           \* seen[s]: the row as s read it
    tick,           \* tick[s]: the clock when the tick of s began
    claim,          \* claim[s]: the occurrence s has claimed
    started,        \* the occurrences that started a run
    twice,          \* history: an occurrence has started another one
    changes,        \* the schedule changes so far
    stale,          \* history: an edit has undone a change of the schedule
    late,           \* history: a start has failed after the job was published
    crossed,        \* history: a claim was put back after the schedule had changed
    crashes

scheduleVars == <<row, now, busy, changes>>
vars == <<scheduleVars, pc, seen, tick, claim, started, twice, stale, late, crossed, crashes>>

Times == 0 .. MaxTime + Interval
Rows  == [kind: {"once", "every"}, at: Times, next: Times \cup {Never},
          enabled: BOOLEAN, deleted: BOOLEAN]
Occurrences == [change: 0 .. MaxChanges, due: Times]

NoClaim == [change |-> 0, due |-> 0]

TypeOK ==
    /\ row \in Rows /\ now \in 0 .. MaxTime /\ busy \in BOOLEAN
    /\ pc \in [Schedulers \cup Editors -> {"idle", "claim", "start", "revert", "save", "done"}]
    /\ seen \in [Schedulers \cup Editors -> Rows]
    /\ tick \in [Schedulers -> 0 .. MaxTime]
    /\ claim \in [Schedulers -> Occurrences]
    /\ started \subseteq Occurrences /\ twice \in BOOLEAN
    /\ changes \in 0 .. MaxChanges
    /\ stale \in BOOLEAN /\ late \in BOOLEAN /\ crossed \in BOOLEAN /\ crashes \in 0 .. MaxCrashes
    /\ row.next # Never => row.enabled       \* what is armed can fire
    /\ row.enabled => row.next # Never

Blank(kind) == [kind |-> kind, at |-> 1, next |-> 1, enabled |-> TRUE, deleted |-> FALSE]

\* What a process holds that has nothing in hand.
NoRow == Blank("once")

Init ==
    /\ \E kind \in Kinds : row = Blank(kind)
    /\ now = 0 /\ busy = FALSE
    /\ pc = [s \in Schedulers \cup Editors |-> "idle"]
    /\ seen = [s \in Schedulers \cup Editors |-> NoRow]
    /\ tick = [s \in Schedulers |-> 0]
    /\ claim = [s \in Schedulers |-> NoClaim]
    /\ started = {} /\ twice = FALSE /\ changes = 0
    /\ stale = FALSE /\ late = FALSE /\ crossed = FALSE /\ crashes = 0

\* compute_next_run
NextRun(kind, at, time) == IF kind = "once" THEN at ELSE time + Interval

Go(s, there) == pc' = [pc EXCEPT ![s] = there]

\* The tick is over for this schedule.
Idle(s) ==
    /\ Go(s, "idle")
    /\ seen' = [seen EXCEPT ![s] = NoRow]
    /\ tick' = [tick EXCEPT ![s] = 0]
    /\ claim' = [claim EXCEPT ![s] = NoClaim]
Hold == UNCHANGED <<seen, tick, claim>>

-----------------------------------------------------------------------------
(* scheduler.tick.                                                         *)

Due == row.enabled /\ ~row.deleted /\ row.next # Never /\ row.next <= now

Scan(s) ==
    /\ pc[s] = "idle" /\ Due
    /\ seen' = [seen EXCEPT ![s] = row]
    /\ tick' = [tick EXCEPT ![s] = now]
    /\ Go(s, "claim")
    /\ UNCHANGED <<scheduleVars, claim, started, twice, stale, late, crossed, crashes>>

\* Mutant: the claim asks whether the schedule is enabled, not which instant it has.
ClaimMatchesEnabled(s) == row.enabled

ClaimMatches(s) == row.next = seen[s].next

\* What a claim leaves behind: a one-shot schedule is off, a recurring one moves on.
Claimed(s) ==
    IF seen[s].kind = "once"
    THEN [next |-> Never, enabled |-> FALSE]
    ELSE [next |-> NextRun("every", 0, tick[s]), enabled |-> row.enabled]

Claim(s) ==
    /\ pc[s] = "claim"
    /\ IF ClaimMatches(s)
       THEN /\ row' = [row EXCEPT !.next = Claimed(s).next, !.enabled = Claimed(s).enabled]
            /\ claim' = [claim EXCEPT ![s] = [change |-> changes, due |-> row.next]]
            /\ Go(s, "start") /\ UNCHANGED <<seen, tick>>
       ELSE Idle(s) /\ UNCHANGED row
    /\ UNCHANGED <<now, busy, started, twice, changes, stale, late, crossed, crashes>>

\* _enqueue_task_start succeeds only without an active run and a deletion.  What
\* it does after it has published the job may still raise.
Start(s) ==
    /\ pc[s] = "start" /\ ~busy /\ ~row.deleted
    /\ busy' = TRUE
    /\ started' = started \cup {claim[s]}
    /\ twice' = (twice \/ claim[s] \in started)
    /\ \/ Idle(s) /\ UNCHANGED late
       \/ ~late /\ late' = TRUE       \* bound: once
          /\ Go(s, "revert") /\ Hold
    /\ UNCHANGED <<row, now, changes, stale, crossed, crashes>>

\* Mutant: whatever overlaps an active run is dropped.
DropsAny(s) == busy

\* A recurring occurrence that overlaps an active run is dropped.
Drops(s) == busy /\ seen[s].kind = "every"

Overlap(s) ==
    /\ pc[s] = "start" /\ busy /\ ~row.deleted
    /\ IF Drops(s) THEN Idle(s) ELSE Go(s, "revert") /\ Hold
    /\ UNCHANGED <<scheduleVars, started, twice, stale, late, crossed, crashes>>

\* The broker is down (it is probed before the head is asked), the task is gone,
\* or anything else fails before publication.
Fail(s) ==
    /\ pc[s] = "start"
    /\ Go(s, "revert")
    /\ UNCHANGED <<scheduleVars, seen, tick, claim, started, twice, stale, late, crossed, crashes>>

\* claim_cond: the columns the claim set to something; NULL is not compared.
StillMine(s) ==
    IF seen[s].kind = "once" THEN ~row.enabled
    ELSE row.next = NextRun("every", 0, tick[s])

Revert(s) ==
    /\ pc[s] = "revert"
    /\ row' = IF StillMine(s)
              THEN [row EXCEPT !.next = claim[s].due, !.enabled = TRUE]
              ELSE row
    /\ crossed' = (crossed \/ (StillMine(s) /\ claim[s].change # changes))
    /\ Idle(s)
    /\ UNCHANGED <<now, busy, started, twice, changes, stale, late, crashes>>

-----------------------------------------------------------------------------
(* The user.                                                               *)

Changed ==
    /\ changes < MaxChanges
    /\ changes' = changes + 1

\* toggle_schedule
Pause ==
    /\ ~row.deleted
    /\ Changed
    /\ row' = [row EXCEPT !.next = Never, !.enabled = FALSE]
    /\ UNCHANGED <<now, busy, pc, seen, tick, claim, started, twice, stale, late, crossed, crashes>>

Resume ==
    /\ ~row.deleted
    /\ row.kind = "once" => row.at > now
    /\ Changed
    /\ row' = [row EXCEPT !.next = NextRun(row.kind, row.at, now), !.enabled = TRUE]
    /\ UNCHANGED <<now, busy, pc, seen, tick, claim, started, twice, stale, late, crossed, crashes>>

\* save_task with a schedule in the payload; a one-shot must lie in the future.
Redefine ==
    /\ ~row.deleted /\ now < MaxTime
    /\ Changed
    /\ \E kind \in Kinds :
          row' = [row EXCEPT !.kind = kind, !.at = now + 1, !.enabled = TRUE,
                             !.next = NextRun(kind, now + 1, now)]
    /\ UNCHANGED <<now, busy, pc, seen, tick, claim, started, twice, stale, late, crossed, crashes>>

\* delete_task, once its run has ended
Delete ==
    /\ ~row.deleted /\ ~busy
    /\ Changed
    /\ row' = [row EXCEPT !.deleted = TRUE, !.enabled = FALSE, !.next = Never]
    /\ UNCHANGED <<now, busy, pc, seen, tick, claim, started, twice, stale, late, crossed, crashes>>

\* save_task without a schedule carries over the one that it read.
EditRead(e) ==
    /\ pc[e] = "idle" /\ ~row.deleted
    /\ seen' = [seen EXCEPT ![e] = row]
    /\ Go(e, "save")
    /\ UNCHANGED <<scheduleVars, tick, claim, started, twice, stale, late, crossed, crashes>>

EditSave(e) ==
    /\ pc[e] = "save"
    /\ row' = IF row.deleted THEN row ELSE seen[e]
    /\ stale' = (stale \/ row' # row)
    /\ Go(e, "done")
    /\ seen' = [seen EXCEPT ![e] = NoRow]
    /\ UNCHANGED <<now, busy, tick, claim, started, twice, changes, late, crossed, crashes>>

-----------------------------------------------------------------------------
(* The environment.                                                        *)

Clock == now < MaxTime /\ now' = now + 1
         /\ UNCHANGED <<row, busy, pc, seen, tick, claim, started, twice, changes, stale, late, crossed, crashes>>

RunEnds == busy /\ busy' = FALSE
           /\ UNCHANGED <<row, now, pc, seen, tick, claim, started, twice, changes, stale, late, crossed, crashes>>

StartByHand == ~busy /\ ~row.deleted /\ busy' = TRUE
               /\ UNCHANGED <<row, now, pc, seen, tick, claim, started, twice, changes, stale, late, crossed, crashes>>

Crash(s) ==
    /\ crashes < MaxCrashes /\ pc[s] # "idle"
    /\ crashes' = crashes + 1
    /\ Idle(s)
    /\ UNCHANGED <<scheduleVars, started, twice, stale, late, crossed>>

Fire(s) == Scan(s) \/ Claim(s) \/ Start(s) \/ Overlap(s) \/ Fail(s) \/ Revert(s)

Next ==
    \/ \E s \in Schedulers : Fire(s) \/ Crash(s)
    \/ Pause \/ Resume \/ Redefine \/ Delete
    \/ \E e \in Editors : EditRead(e) \/ EditSave(e)
    \/ Clock \/ RunEnds \/ StartByHand

\* A tick every TICK_SECONDS, time passes, runs end.  Of the broker it is asked
\* that a start tried again and again succeeds once, and of the user not to start
\* the task by hand for ever.
Fairness ==
    /\ WF_vars(Clock) /\ WF_vars(RunEnds)
    /\ <>[][~StartByHand]_vars
    /\ \A s \in Schedulers : WF_vars(Fire(s)) /\ SF_vars(Start(s))

Spec == Init /\ [][Next]_vars
FairSpec == Spec /\ Fairness

-----------------------------------------------------------------------------
(* What the schedule promises.                                             *)

\* An occurrence starts one run at most, also when a scheduler dies mid-fire
\* ("loses at most one occurrence instead of double-firing").  It does not survive
\* a start that fails after publication, the save of an old schedule, and a claim
\* that is put back into a schedule that was changed in between.
\* None starts before it is due: a scheduler that read the schedule before it was
\* moved to a later instant does not fire the new one.
OnceEach ==
    /\ ~late /\ ~stale /\ ~crossed => ~twice
    /\ \A o \in started : o.due <= now

\* Putting a claim back does not enable a schedule that was changed since the
\* claim ("so a concurrent pause/edit isn't clobbered", tick).
PauseSticks ==
    [][\A s \in Schedulers :
         pc[s] = "revert" /\ pc'[s] # "revert" /\ claim[s].change # changes
         /\ ~row.enabled => ~row'.enabled]_vars

Fired(c) == \E o \in started : o.change = c

\* A one-shot schedule fires, however often the first starts fail, as far as the
\* horizon goes.
OneShotFires ==
    \A c \in 0 .. MaxChanges :
        row.kind = "once" /\ row.enabled /\ ~row.deleted /\ changes = c
            ~> \/ Fired(c) \/ changes > c \/ crashes > 0 \/ stale
               \/ row.next \in MaxTime + 1 .. MaxTime + Interval

=============================================================================
