----------------------------- MODULE ModelCalls -----------------------------
(***************************************************************************)
(* The calls to model providers that the steps of a run make, between      *)
(* three bookkeepers: the concurrency slots (providers/limits.py: leases   *)
(* in Redis, or semaphores of the process), the run's budget ledger        *)
(* (tasks/budget.py) and the usage column of the run's row                 *)
(* (orchestrator._UsageWriter, repository.persist_usage).                  *)
(*                                                                         *)
(* A worker of `Workers` is one step of a run: it makes one call after the *)
(* other (wrap_llm_result).  A call takes a provider slot and an actor     *)
(* slot, reserves its estimate in the ledger, asks the provider, up to     *)
(* `Tries` times when the provider fails in passing, charges what it cost  *)
(* and gives the slots back.  Every change of the ledger is written to the *)
(* row afterwards, by one writer of the run at a time.                     *)
(*                                                                         *)
(* No operation of the ledger awaits under its lock, so each is one action *)
(* here; the awaits are between them.  The process of a run may crash.     *)
(* Then the run is over: recovery fails it and nobody executes it again (a *)
(* resumed run is another run, with a budget of its own).  Its row stays   *)
(* as the last write left it, and the leases of the dead process stay in   *)
(* Redis until they expire.                                                *)
(***************************************************************************)
EXTENDS Integers, FiniteSets

CONSTANTS Workers, Runs, RunOf, ActorOf,
          ProviderLimit, ActorLimit,  \* slots of a provider, of an actor
          Prompt, Output,             \* tokens estimated and requested by a call
          MaxTokens, MaxRequests, MaxRetries,  \* the budget of each run
          Tries,                      \* provider attempts of one call
          Excess,     \* tokens a provider may report beyond what was reserved
          MaxFaults                   \* crashes, interruptions, failures of Redis

Actors == {ActorOf[r] : r \in Runs}
Keys == {"provider"} \cup Actors

\* The limits and budgets of the settings: any numbers, any workers.
Sized ==
  /\ IsFiniteSet(Workers) /\ "nobody" \notin Workers /\ RunOf \in [Workers -> Runs]
  /\ {ProviderLimit, ActorLimit, Prompt, Output, MaxTokens, MaxRequests, MaxRetries, Tries,
      Excess} \subseteq Nat

Limit(k) == IF k = "provider" THEN ProviderLimit ELSE ActorLimit

VARIABLES
  store,     \* "redis" or "local": what build_concurrency_limiter was given
  at,        \* where each worker is
  then,      \* where it goes once the ledger's change is written
  ret,       \* where it goes once the call is closed: next call, or the end
  est,       \* the tokens its open attempt has reserved, 0 without one
  tries,     \* the attempts of its call
  lease,     \* per key, the workers whose lease Redis holds
  orphan,    \* per key, the leases in Redis that nobody knows any more
  unit,      \* per key, the workers that hold a unit of the semaphore
  lapsed,    \* the workers whose lease Redis lost while they used it
  ledger,    \* per run: tokens used and reserved, requests, retries
  column,    \* per run: the usage column
  writer,    \* per run: the snapshot being written, and by whom
  sent,      \* history: the requests that really reached a provider
  extra,     \* history: the tokens reported beyond the reservations
  faults     \* the faults so far

slots == <<lease, orphan, unit, lapsed>>
books == <<ledger, sent, extra>>
rows == <<column, writer>>
place == <<at, then, ret, est, tries>>
env == <<store, faults>>
callVars == <<place, slots, books, rows, env>>

NoUsage == [used |-> 0, reserved |-> 0, requests |-> 0, retries |-> 0]
Idle == [who |-> "nobody", usage |-> NoUsage]
Mine(r) == {c \in Workers : RunOf[c] = r}
KeysOf(c) == {"provider", ActorOf[RunOf[c]]}
Max2(a, b) == IF a < b THEN b ELSE a
Min2(a, b) == IF a < b THEN a ELSE b

CallsInit ==
  /\ store \in {"redis", "local"}
  /\ at = [c \in Workers |-> "idle"]
  /\ then = [c \in Workers |-> "idle"]
  /\ ret = [c \in Workers |-> "idle"]
  /\ est = [c \in Workers |-> 0]
  /\ tries = [c \in Workers |-> 0]
  /\ lease = [k \in Keys |-> {}]
  /\ orphan = [k \in Keys |-> 0]
  /\ unit = [k \in Keys |-> {}]
  /\ lapsed = {}
  /\ ledger = [r \in Runs |-> NoUsage]
  /\ column = [r \in Runs |-> NoUsage]
  /\ writer = [r \in Runs |-> Idle]
  /\ sent = [r \in Runs |-> 0]
  /\ extra = [r \in Runs |-> 0]
  /\ faults = 0

Goto(c, p) == at' = [at EXCEPT ![c] = p]

(***************************************************************************)
(* The slots.  With Redis the provider's lease is asked first, then the    *)
(* actor's; when the second is refused the first is given back and the     *)
(* worker polls until its deadline.  Semaphores are queued on, the actor's *)
(* first.                                                                  *)
(***************************************************************************)
Free(k) == IF store = "redis"
           THEN Cardinality(lease[k]) + orphan[k] < Limit(k)
           ELSE Cardinality(unit[k]) < Limit(k)

FirstKey(c) == IF store = "redis" THEN "provider" ELSE ActorOf[RunOf[c]]
SecondKey(c) == IF store = "redis" THEN ActorOf[RunOf[c]] ELSE "provider"

Hold(c, k) ==
  IF store = "redis"
  THEN lease' = [lease EXCEPT ![k] = @ \cup {c}] /\ unit' = unit
  ELSE unit' = [unit EXCEPT ![k] = @ \cup {c}] /\ lease' = lease

DropSlots(c) ==
  /\ lease' = [k \in Keys |-> lease[k] \ {c}]
  /\ unit' = [k \in Keys |-> unit[k] \ {c}]
  /\ lapsed' = lapsed \ {c}
  /\ UNCHANGED orphan

\* wrap_llm_result: a call begins; the wall clock may already be out.
Begin(c) ==
  /\ at[c] = "idle" /\ Goto(c, "enter")
  /\ UNCHANGED <<then, ret, est, tries, slots, books, rows, env>>

TakeFirst(c) ==
  /\ at[c] = "enter" /\ Free(FirstKey(c))
  /\ Hold(c, FirstKey(c)) /\ Goto(c, "half")
  /\ UNCHANGED <<then, ret, est, tries, orphan, lapsed, books, rows, env>>

TakeSecond(c) ==
  /\ at[c] = "half" /\ Free(SecondKey(c))
  /\ Hold(c, SecondKey(c)) /\ Goto(c, "slot")
  /\ UNCHANGED <<then, ret, est, tries, orphan, lapsed, books, rows, env>>

\* The actor has no capacity: the provider's lease goes back before the poll.
GiveBack(c) ==
  /\ at[c] = "half" /\ store = "redis" /\ ~Free(SecondKey(c))
  /\ DropSlots(c) /\ Goto(c, "enter")
  /\ UNCHANGED <<then, ret, est, tries, books, rows, env>>

\* LimitExceeded: a lease is refused after the deadline of the poll.
Deadline(c) ==
  /\ store = "redis"
  /\ \/ at[c] = "enter" /\ ~Free(FirstKey(c))
     \/ at[c] = "half" /\ ~Free(SecondKey(c))
  /\ DropSlots(c) /\ Goto(c, "last")
  /\ UNCHANGED <<then, ret, est, tries, books, rows, env>>

\* Redis does not answer: what the worker knows of is given back, a lease
\* granted in the lost answer is not.  Production refuses to go on.
Unavailable(c) ==
  /\ at[c] \in {"enter", "half"} /\ store = "redis" /\ faults < MaxFaults
  /\ LET k == IF at[c] = "enter" THEN FirstKey(c) ELSE SecondKey(c)
     IN orphan' \in {orphan} \cup
          {[orphan EXCEPT ![k] = @ + 1] : x \in {y \in {1} : Free(k)}}
  /\ lease' = [k \in Keys |-> lease[k] \ {c}]
  /\ lapsed' = lapsed \ {c}
  /\ faults' = faults + 1 /\ Goto(c, "last")
  /\ UNCHANGED <<then, ret, est, tries, unit, books, rows, store>>

\* A lease nobody renews runs out.
Expire(k) ==
  /\ orphan[k] > 0
  /\ orphan' = [orphan EXCEPT ![k] = @ - 1]
  /\ UNCHANGED <<place, lease, unit, lapsed, books, rows, env>>

\* Redis forgets the leases of a worker whose renewals did not get through.
\* The renewal then fails, and in production cancels the worker: Interrupt.
Lapse(c) ==
  /\ \E k \in Keys : c \in lease[k]
  /\ faults < MaxFaults /\ faults' = faults + 1
  /\ lease' = [k \in Keys |-> lease[k] \ {c}]
  /\ lapsed' = lapsed \cup {c}
  /\ UNCHANGED <<place, orphan, unit, books, rows, store>>

(***************************************************************************)
(* The ledger.  An attempt reserves its prompt and as much output as is    *)
(* left; it is refused when a limit is reached.                            *)
(***************************************************************************)
\* Mutant: what the other workers have reserved is not looked at.
LeftUnreserved(r) == MaxTokens - ledger[r].used - Prompt

Left(r) == MaxTokens - ledger[r].used - ledger[r].reserved - Prompt

Allowed(r, again) ==
  /\ again => ledger[r].retries < MaxRetries
  /\ ledger[r].requests < MaxRequests
  /\ Left(r) >= 1

Reserve(c, again) ==
  LET r == RunOf[c]  e == Prompt + Min2(Output, Left(r)) IN
  /\ Allowed(r, again)
  /\ ledger' = [ledger EXCEPT
       ![r].reserved = @ + e, ![r].requests = @ + 1,
       ![r].retries = @ + (IF again THEN 1 ELSE 0)]
  /\ est' = [est EXCEPT ![c] = e]
  /\ tries' = [tries EXCEPT ![c] = @ + 1]

\* reconcile: the reservation is replaced by what the attempt cost.
Charge(c, actual) ==
  LET r == RunOf[c] IN
  /\ ledger' = [ledger EXCEPT ![r].reserved = Max2(0, @ - est[c]),
                              ![r].used = @ + actual]
  /\ extra' = [extra EXCEPT ![r] = @ + Max2(0, actual - est[c])]
  /\ est' = [est EXCEPT ![c] = 0]

\* The write of a change, and what follows it.
Publish(c, next) ==
  /\ Goto(c, "publish") /\ then' = [then EXCEPT ![c] = next]

\* Mutant: the gauge of reservations is merged like the counters.
MergeAsCounter(old, new) ==
  [used |-> Max2(old.used, new.used),
   reserved |-> Max2(old.reserved, new.reserved),
   requests |-> Max2(old.requests, new.requests),
   retries |-> Max2(old.retries, new.retries)]

\* persist_usage keeps the larger counters and the newer gauge.
Merge(old, new) ==
  [used |-> Max2(old.used, new.used), reserved |-> new.reserved,
   requests |-> Max2(old.requests, new.requests),
   retries |-> Max2(old.retries, new.retries)]

\* begin_llm: the first attempt is reserved under the slot.  Nothing is
\* written to the row here.
Send(c) ==
  /\ at[c] = "slot" /\ Reserve(c, FALSE) /\ Goto(c, "sent")
  /\ sent' = [sent EXCEPT ![RunOf[c]] = @ + 1]
  /\ UNCHANGED <<then, ret, slots, extra, rows, env>>

\* BudgetExceeded: the slot is given back and the step fails.
Refused(c) ==
  /\ at[c] = "slot" /\ ~Allowed(RunOf[c], FALSE)
  /\ Goto(c, "closing") /\ ret' = [ret EXCEPT ![c] = "last"]
  /\ UNCHANGED <<then, est, tries, slots, books, rows, env>>

\* The provider answers with its usage, which may be less or more than was
\* reserved; without one the whole reservation is charged, as in Fail.  A
\* total beyond the budget fails the step.
Answer(c) ==
  /\ at[c] = "sent"
  /\ \E actual \in {Prompt, est[c] + Excess} :
       /\ Charge(c, actual)
       /\ ret' = [ret EXCEPT ![c] =
            IF ledger'[RunOf[c]].used > MaxTokens THEN "last" ELSE @]
  /\ Publish(c, "closing")
  /\ UNCHANGED <<tries, slots, sent, rows, env>>

\* Mutant: the slot is given back while the worker backs off.
FailReleasing(c) ==
  /\ at[c] = "sent" /\ Charge(c, est[c]) /\ DropSlots(c)
  /\ Publish(c, IF tries[c] < Tries THEN "backoff" ELSE "closing")
  /\ UNCHANGED <<ret, tries, sent, rows, env>>

\* A transient failure may still be billed: it is charged in full.
Fail(c) ==
  /\ at[c] = "sent" /\ Charge(c, est[c])
  /\ Publish(c, IF tries[c] < Tries THEN "backoff" ELSE "closing")
  /\ UNCHANGED <<ret, tries, slots, sent, rows, env>>

\* begin_retry: another attempt, under the same slot; it is sent once the
\* reservation is in the row.
Retry(c) ==
  /\ at[c] = "backoff" /\ Reserve(c, TRUE) /\ Publish(c, "sent")
  /\ UNCHANGED <<ret, slots, sent, extra, rows, env>>

RetryRefused(c) ==
  /\ at[c] = "backoff" /\ ~Allowed(RunOf[c], TRUE)
  /\ Goto(c, "closing") /\ ret' = [ret EXCEPT ![c] = "last"]
  /\ UNCHANGED <<then, est, tries, slots, books, rows, env>>

\* Mutant: only the provider's slot is given back.
CloseHalf(c) ==
  /\ at[c] = "closing" /\ Goto(c, ret[c])
  /\ lease' = [lease EXCEPT !["provider"] = @ \ {c}]
  /\ unit' = [unit EXCEPT !["provider"] = @ \ {c}]
  /\ ret' = [ret EXCEPT ![c] = "idle"] /\ tries' = [tries EXCEPT ![c] = 0]
  /\ UNCHANGED <<then, est, orphan, lapsed, books, rows, env>>

\* complete, abort: the slots go back whatever happened before.
Close(c) ==
  /\ at[c] = "closing" /\ DropSlots(c) /\ Goto(c, ret[c])
  /\ ret' = [ret EXCEPT ![c] = "idle"] /\ tries' = [tries EXCEPT ![c] = 0]
  /\ UNCHANGED <<then, est, books, rows, env>>

ConsumeRetry(r) ==
  /\ ledger[r].retries < MaxRetries
  /\ ledger' = [ledger EXCEPT ![r].retries = @ + 1]

\* A second attempt of a tool, of an evaluation, of the plan or of the step
\* takes from the same retries.
Again(c) ==
  /\ at[c] = "idle" /\ ConsumeRetry(RunOf[c])
  /\ Publish(c, "idle")
  /\ UNCHANGED <<ret, est, tries, slots, sent, extra, rows, env>>

\* The worker is cancelled, its step times out, the wall clock runs out or a
\* renewal failed.  An attempt the provider may have seen is charged; a write
\* under way is abandoned, done or not.
Interrupt(c) ==
  LET r == RunOf[c]
      open == at[c] = "sent" \/ (at[c] = "publish" /\ then[c] = "sent")
      writing == writer[r].who = c
  IN
  /\ faults < MaxFaults /\ faults' = faults + 1
  /\ at[c] \in {"idle", "enter", "half", "sent", "backoff", "publish"}
  /\ writer' = [writer EXCEPT ![r] = IF writing THEN Idle ELSE @]
  /\ column' \in {column} \cup
       {[column EXCEPT ![r] = Merge(@, writer[r].usage)] : x \in {y \in {1} : writing}}
  /\ IF open
     THEN /\ Charge(c, est[c]) /\ Publish(c, "closing")
          /\ ret' = [ret EXCEPT ![c] = "last"]
     ELSE IF at[c] = "idle"
     THEN Goto(c, "last") /\ UNCHANGED <<then, ret, est, ledger, extra>>
     ELSE /\ Goto(c, "closing") /\ then' = [then EXCEPT ![c] = "idle"]
          /\ ret' = [ret EXCEPT ![c] = "last"]
          /\ UNCHANGED <<est, ledger, extra>>
  /\ UNCHANGED <<tries, slots, sent, store>>

(***************************************************************************)
(* The row.  The writer takes its snapshot under the lock.                 *)
(***************************************************************************)
StartWrite(c) ==
  LET r == RunOf[c] IN
  /\ at[c] \in {"publish", "last"} /\ writer[r] = Idle
  /\ writer' = [writer EXCEPT ![r] = [who |-> c, usage |-> ledger[r]]]
  /\ UNCHANGED <<place, slots, books, column, env>>

EndWrite(c) ==
  LET r == RunOf[c] IN
  /\ writer[r].who = c
  /\ column' = [column EXCEPT ![r] = Merge(@, writer[r].usage)]
  /\ writer' = [writer EXCEPT ![r] = Idle]
  /\ Goto(c, IF at[c] = "last" THEN "out" ELSE then[c])
  /\ then' = [then EXCEPT ![c] = "idle"]
  /\ sent' = IF at[c] = "publish" /\ then[c] = "sent"
             THEN [sent EXCEPT ![r] = @ + 1] ELSE sent
  /\ UNCHANGED <<ret, est, tries, slots, ledger, extra, env>>

\* The step is done: its last write.
Finish(c) ==
  /\ at[c] = "idle" /\ Goto(c, "last")
  /\ UNCHANGED <<then, ret, est, tries, slots, books, rows, env>>

\* The process of a run dies.  The write under way may have been done; the
\* ledger goes with the process, and stands here for what it was.
Die(r) ==
  /\ faults < MaxFaults /\ faults' = faults + 1
  /\ \E c \in Mine(r) : at[c] \notin {"out", "dead"}
  /\ at' = [c \in Workers |-> IF c \in Mine(r) /\ at[c] # "out" THEN "dead" ELSE at[c]]
  /\ orphan' = [k \in Keys |-> orphan[k] + Cardinality(lease[k] \cap Mine(r))]
  /\ lease' = [k \in Keys |-> lease[k] \ Mine(r)]
  /\ unit' = [k \in Keys |-> unit[k] \ Mine(r)]
  /\ lapsed' = lapsed \ Mine(r)
  /\ column' \in {column} \cup
       {[column EXCEPT ![r] = Merge(@, writer[r].usage)] : x \in {y \in {1} : writer[r] # Idle}}
  /\ writer' = [writer EXCEPT ![r] = Idle]
  /\ UNCHANGED <<then, ret, est, tries, books, store>>

Step(c) ==
  \/ Begin(c) \/ Finish(c) \/ Again(c)
  \/ GiveBack(c) \/ (store = "redis" /\ (TakeFirst(c) \/ TakeSecond(c)))
  \/ Send(c) \/ Refused(c) \/ Answer(c) \/ Fail(c)
  \/ Retry(c) \/ RetryRefused(c) \/ Close(c)
  \/ StartWrite(c) \/ EndWrite(c)

CallsNext ==
  \/ \E c \in Workers :
       \/ Step(c) \/ TakeFirst(c) \/ TakeSecond(c) \/ Deadline(c)
       \/ Unavailable(c) \/ Lapse(c) \/ Interrupt(c)
  \/ \E k \in Keys : Expire(k)
  \/ \E r \in Runs : Die(r)

(***************************************************************************)
(* A worker's steps happen: the provider answers or a timeout ends the     *)
(* wait.  A semaphore's queue is first come, first served; a poll that is  *)
(* refused again and again meets its deadline; a dead lease expires.       *)
(***************************************************************************)
Queued(c) == store = "local" /\ (TakeFirst(c) \/ TakeSecond(c))

CallsFairness ==
  /\ \A c \in Workers :
       /\ WF_callVars(Step(c))
       /\ SF_callVars(Deadline(c) \/ Queued(c))
  /\ \A k \in Keys : WF_callVars(Expire(k))

CallsSpec == CallsInit /\ [][CallsNext]_callVars /\ CallsFairness

CallsTypeOK ==
  /\ store \in {"redis", "local"}
  /\ \A c \in Workers : /\ at[c] \in {"idle", "enter", "half", "slot", "sent",
                            "publish", "backoff", "closing", "last", "out", "dead"}
                        /\ est[c] \in 0..(Prompt + Output)
  /\ \A k \in Keys : /\ lease[k] \cup unit[k] \subseteq Workers
                     /\ orphan[k] \in Nat
  /\ \A r \in Runs : writer[r].who \in Mine(r) \cup {"nobody"}

\* The tokens charged and reserved stay within the run's budget, but for what
\* a provider reported beyond the reservation of its own request.
TokensWithin ==
  \A r \in Runs :
    ledger[r].used + ledger[r].reserved <= MaxTokens + extra[r]

\* The requests that reach a provider stay within the budget.
RequestsWithin == \A r \in Runs : sent[r] <= MaxRequests

\* So whoever calls at once or retries, the run's budget holds.
WithinBudget == TokensWithin /\ RequestsWithin

\* The row misses at most one request of each worker that has not ended,
\* because each retry and each next call waits until the one before is in the
\* row.  So it does of a run that crashed, whose row nobody completes.
RowFollows ==
  \A r \in Runs :
    sent[r] <= column[r].requests + Cardinality({c \in Mine(r) : at[c] # "out"})

\* When a run's workers have ended its row shows its ledger, and no
\* reservation is left.
BooksAgree ==
  \A r \in Runs :
    (\A c \in Mine(r) : at[c] = "out") =>
      column[r] = ledger[r] /\ column[r].reserved = 0

\* The budget of a run holds while it runs, its row follows, and its books
\* balance when it ends.
BudgetHolds == WithinBudget /\ RowFollows /\ BooksAgree

\* A request at a provider, a retry included, holds a slot of the provider
\* and one of its actor, unless Redis lost the lease under it, and the slots
\* in use are never more than the limit.
SlotPerRequest ==
  /\ \A c \in Workers \ lapsed :
       at[c] = "sent" => \A k \in KeysOf(c) : c \in lease[k] \cup unit[k]
  /\ \A k \in Keys : Cardinality(lease[k] \cup unit[k]) <= Limit(k)

\* Every worker comes to its end, or dies, and every slot is free again.
AllReturned ==
  <>[](/\ \A c \in Workers : at[c] \in {"out", "dead"}
       /\ \A k \in Keys : lease[k] = {} /\ orphan[k] = 0 /\ unit[k] = {})
=============================================================================
