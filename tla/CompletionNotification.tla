------------------------ MODULE CompletionNotification ------------------------
(***************************************************************************)
(* The completion webhook of one run.  The write that makes the run         *)
(* terminal leaves a notification in the row; the worker, the queue's       *)
(* post-run signal and every recovery pass try to deliver it.  A deliverer  *)
(* leases the notification, posts it, and acknowledges or gives it back.    *)
(*                                                                         *)
(* The lease is judged on the clock of the process that looks at it, which  *)
(* may run ahead.  A deliverer may outlive its lease: notify_completion      *)
(* gives itself 15 of the 60 seconds, but name resolution and a suspended   *)
(* process are not in that budget.  The history variable late records that  *)
(* one did, and what a property claims only of deliverers that keep within  *)
(* their lease has ~late as its premise.                                    *)
(*                                                                         *)
(* What ends the run, and the other writers of its row, are those of        *)
(* TaskRunLifecycle; here they only move the version.  Times count down.    *)
(***************************************************************************)
EXTENDS Naturals, FiniteSets

CONSTANTS
    Deliverers,     \* processes that try to deliver
    NoOne,          \* completion_notification_owner is NULL
    LeaseTime,      \* DEFAULT_NOTIFICATION_LEASE_SECONDS
    Backoff,        \* NOTIFICATION_BACKOFF_SECONDS, one value for all
    Skew,           \* how far a process clock may run ahead
    MaxAttempts,    \* MAX_NOTIFICATION_ATTEMPTS
    MaxCrashes,     \* bound: deliverers that die half-way
    MaxTouches,     \* bound: writes of the row by others
    MaxClaims       \* bound: claims, which late deliverers could go on with

ASSUME NotificationAssumption ==
    /\ NoOne \notin Deliverers
    /\ LeaseTime \in Nat /\ Skew \in Nat /\ Skew < LeaseTime
    /\ Backoff \in Nat
    /\ MaxAttempts \in Nat \ {0}
    /\ MaxCrashes \in Nat /\ MaxTouches \in Nat /\ MaxClaims \in Nat

VARIABLES
    row,        \* the notification columns and the version of the TaskRun row
    left,       \* time left: of the lease, or until the next attempt is due
    pc,         \* pc[p]: what deliverer p is doing
    snap,       \* snap[p]: the row as p read it
    outcome,    \* outcome[p]: what the post of p returned
    late,       \* history: somebody could see the lease of a working deliverer expired
    crashes, touches

vars == <<row, left, pc, snap, outcome, late, crashes, touches>>

Settled == {"skipped", "delivered", "failed"}
States  == {"none", "pending", "delivering"} \cup Settled
Rows    == [state: States, owner: Deliverers \cup {NoOne}, attempts: Nat, version: Nat]

NewRow == [state |-> "none", owner |-> NoOne, attempts |-> 0, version |-> 0]

Typed ==
    /\ row \in Rows
    /\ left \in Nat
    /\ pc \in [Deliverers -> {"idle", "claim", "post", "read", "finish"}]
    /\ snap \in [Deliverers -> Rows]
    /\ outcome \in [Deliverers -> BOOLEAN]
    /\ crashes \in Nat /\ touches \in Nat
    /\ row.owner # NoOne <=> row.state = "delivering"
    /\ row.state \in {"none", "skipped"} => row.attempts = 0
    /\ \A p \in Deliverers :                  \* a version stands for one row
          /\ snap[p].version <= row.version
          /\ pc[p] \in {"claim", "finish"} /\ snap[p].version = row.version
                => snap[p] = row

TypeOK == Typed /\ late \in BOOLEAN

Init ==
    /\ row = NewRow /\ left = 0
    /\ pc = [p \in Deliverers |-> "idle"]
    /\ snap = [p \in Deliverers |-> NewRow]
    /\ outcome = [p \in Deliverers |-> FALSE]
    /\ late = FALSE /\ crashes = 0 /\ touches = 0

-----------------------------------------------------------------------------

\* _terminal_notification_state: the terminal write opens the notification if
\* the run has a callback and a key to sign it.
TerminalState(callback) == IF callback THEN "pending" ELSE "skipped"

EndRun ==
    /\ row.state = "none"
    /\ \E callback \in BOOLEAN :
          row' = [row EXCEPT !.state = TerminalState(callback), !.version = @ + 1]
    /\ UNCHANGED <<left, pc, snap, outcome, late, crashes, touches>>

\* The outbox is drained, a job id is attached: the same row, a new version.
Touch ==
    /\ touches < MaxTouches
    /\ touches' = touches + 1
    /\ row' = [row EXCEPT !.version = @ + 1]
    /\ UNCHANGED <<left, pc, snap, outcome, late, crashes>>

\* Mutant: an attempt that has begun is free for the next deliverer.
ClaimableAnytime == row.state = "delivering" \/ (row.state = "pending" /\ left = 0)

\* Mutant: an attempt whose deliverer died is not taken over.
ClaimablePending == row.state = "pending" /\ left <= Skew

\* claim_completion_notification: due, or leased to a deliverer that is late.
Claimable ==
    \/ row.state = "pending" /\ left <= Skew
    \/ row.state = "delivering" /\ left <= Skew

ClaimRead(p) ==
    /\ pc[p] = "idle" /\ Claimable
    /\ row.attempts < MaxClaims
    /\ snap' = [snap EXCEPT ![p] = row]
    /\ pc' = [pc EXCEPT ![p] = "claim"]
    /\ UNCHANGED <<row, left, outcome, late, crashes, touches>>

\* What a deliverer no longer uses is forgotten.
Forget(p) == snap' = [snap EXCEPT ![p] = NewRow]
Leave(p)  == pc' = [pc EXCEPT ![p] = "idle"] /\ outcome' = [outcome EXCEPT ![p] = FALSE]

ClaimMatches(p) == row.version = snap[p].version

\* The lease runs from the clock as it was before the row was read.
Lease == 0..LeaseTime

\* The attempt is counted when it begins.  A claim that lost reads again.
ClaimCommit(p) ==
    /\ pc[p] = "claim"
    /\ IF ClaimMatches(p)
       THEN /\ row' = [state |-> "delivering", owner |-> p,
                       attempts |-> snap[p].attempts + 1,
                       version |-> snap[p].version + 1]
            /\ left' \in Lease
            /\ late' = (late \/ left' <= Skew)
            /\ pc' = [pc EXCEPT ![p] = "post"]
       ELSE pc' = [pc EXCEPT ![p] = "idle"] /\ UNCHANGED <<row, left, late>>
    /\ Forget(p)
    /\ UNCHANGED <<outcome, crashes, touches>>

\* notify_completion never raises: the receiver said 2xx, or anything else.
Post(p) ==
    /\ pc[p] = "post"
    /\ \E delivered \in BOOLEAN : outcome' = [outcome EXCEPT ![p] = delivered]
    /\ pc' = [pc EXCEPT ![p] = "read"]
    /\ UNCHANGED <<row, left, snap, late, crashes, touches>>

\* Mutant: the deliverer does not ask whether the claim is still its own.
HoldsAny(p) == TRUE

Holds(p) == row.state = "delivering" /\ row.owner = p

\* finish_completion_notification: a claim that was lost is an error.
FinishRead(p) ==
    /\ pc[p] = "read"
    /\ IF Holds(p)
       THEN /\ snap' = [snap EXCEPT ![p] = row]
            /\ pc' = [pc EXCEPT ![p] = "finish"] /\ UNCHANGED outcome
       ELSE Leave(p) /\ UNCHANGED snap
    /\ UNCHANGED <<row, left, late, crashes, touches>>

After(p) ==
    IF outcome[p] THEN "delivered"
    ELSE IF snap[p].attempts >= MaxAttempts THEN "failed" ELSE "pending"

FinishCommit(p) ==
    /\ pc[p] = "finish"
    /\ IF row.version = snap[p].version
       THEN /\ row' = [snap[p] EXCEPT !.state = After(p), !.owner = NoOne,
                                      !.version = @ + 1]
            /\ left' = IF After(p) = "pending" THEN Backoff ELSE 0
            /\ Leave(p)
       ELSE pc' = [pc EXCEPT ![p] = "read"] /\ UNCHANGED <<row, left, outcome>>
    /\ Forget(p)
    /\ UNCHANGED <<late, crashes, touches>>

-----------------------------------------------------------------------------
(* The environment.                                                        *)

Working(p) == pc[p] \in {"post", "read", "finish"}

\* A deliverer dies, or its database calls fail and the pass logs it.
Crash(p) ==
    /\ crashes < MaxCrashes /\ pc[p] # "idle"
    /\ crashes' = crashes + 1
    /\ Leave(p) /\ Forget(p)
    /\ UNCHANGED <<row, left, late, touches>>

Tick ==
    /\ left > 0
    /\ left' = left - 1
    /\ late' = (late \/ (left' <= Skew /\ \E p \in Deliverers : Working(p)))
    /\ UNCHANGED <<row, pc, snap, outcome, crashes, touches>>

Deliver(p) ==
    ClaimRead(p) \/ ClaimCommit(p) \/ Post(p) \/ FinishRead(p) \/ FinishCommit(p)

Next ==
    \/ EndRun \/ Touch \/ Tick
    \/ \E p \in Deliverers : Deliver(p) \/ Crash(p)

\* The recovery pass comes back for every due notification and the post has a
\* timeout.  Nothing is said of Touch: it is bounded.
Fairness == WF_vars(Tick) /\ \A p \in Deliverers : WF_vars(Deliver(p))

Spec == Init /\ [][Next]_vars
FairSpec == Spec /\ Fairness

-----------------------------------------------------------------------------
(* What the notification promises.                                         *)

\* While deliverers keep within their lease no two of them are between their
\* claim and their acknowledgement ("Lease one terminal run's delivery token to
\* a single process", claim_completion_notification).
Exclusive == ~late => \A p, q \in Deliverers : Working(p) /\ Working(q) => p = q

\* While they do, only an attempt whose deliverer died is repeated beyond the
\* limit (MAX_NOTIFICATION_ATTEMPTS, counted at the claim, judged at the finish).
AttemptsBounded == ~late => row.attempts <= MaxAttempts + crashes

\* A notification that was delivered, skipped or given up is never taken up
\* again, also not by a deliverer that lost its claim and comes back late.
SettledIsFinal == row.state \in Settled => row'.state = row.state

\* One delivery at a time, and none after the last.
DeliveredOnce == [][Exclusive' /\ SettledIsFinal]_vars

\* Every notification is settled, whatever dies on the way.  Deliverers that are
\* late over and over could take it from each other for ever.
Settles == row.state \in {"pending", "delivering"} ~> row.state \in Settled \/ late

=============================================================================
