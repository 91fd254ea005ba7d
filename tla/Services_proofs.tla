--------------------------- MODULE Services_proofs ---------------------------
(***************************************************************************)
(* Proofs about two services a run uses, the completion webhook            *)
(* (CompletionNotification) and the calls of a model (ModelCalls).  They    *)
(* share neither state nor definitions; what is proved of one uses nothing  *)
(* of the other.                                                           *)
(*                                                                         *)
(* The webhook, for any number of deliverers and any times.  Snapshots      *)
(* says what a held snapshot is worth; on it rests SettledIsFinal, which    *)
(* says nothing of speed.  Exclusive and AttemptsBounded hold until a       *)
(* deliverer is late, and LeaseHeld is the reason: whoever works owns a     *)
(* lease that nobody sees expired.                                         *)
(*                                                                         *)
(* The calls, for any runs, workers, limits and budgets (Sized) and any     *)
(* number of faults.  The slots: a worker that asks a provider holds its    *)
(* leases or semaphore units, and there are never more than the limit.      *)
(* The books: a run's tokens and requests stay within its budget whatever   *)
(* its workers do at once, and its row ends as its ledger.                  *)
(***************************************************************************)
EXTENDS CompletionNotification, ModelCalls, FiniteSetTheorems, TLAPS

-----------------------------------------------------------------------------
(* The webhook.                                                            *)


\* What a deliverer knows from the row it read.
Snapshots ==
    \A p \in Deliverers :
        /\ pc[p] = "claim" =>
              /\ snap[p].state \in {"pending", "delivering"}
              /\ snap[p].version = row.version => left <= Skew
        /\ pc[p] = "finish" => snap[p].state = "delivering" /\ snap[p].owner = p

\* A deliverer at work holds a lease that no process sees expired.
LeaseHeld ==
    \A p \in Deliverers :
        Working(p) => row.state = "delivering" /\ row.owner = p /\ left > Skew

\* The attempt that reaches the limit is either at work or has cost a crash.
TriesCounted ==
    /\ row.state = "pending" => row.attempts < MaxAttempts
    /\ row.attempts <= MaxAttempts + crashes
    /\ row.state = "delivering" /\ row.attempts = MaxAttempts + crashes
          => Working(row.owner)

NotificationInv == Typed /\ Snapshots
Timely    == ~late => LeaseHeld /\ TriesCounted
TimelyInv == NotificationInv /\ Timely

-----------------------------------------------------------------------------

LEMMA InitNotification == Init => NotificationInv /\ LeaseHeld /\ TriesCounted
<1> SUFFICES ASSUME Init PROVE NotificationInv /\ LeaseHeld /\ TriesCounted
    OBVIOUS
<1> USE NotificationAssumption DEF Init, NewRow
<1>1. Typed
    BY DEF Typed, Rows, States, Settled
<1>2. Snapshots
    BY DEF Snapshots
<1>3. LeaseHeld /\ TriesCounted
    BY DEF LeaseHeld, TriesCounted, Working
<1> QED
    BY <1>1, <1>2, <1>3 DEF NotificationInv

\* The type invariant and the worth of snapshots are kept by every step.
LEMMA NotificationStep == NotificationInv /\ [Next]_vars => NotificationInv'
<1> SUFFICES ASSUME NotificationInv, [Next]_vars PROVE NotificationInv'
    OBVIOUS
<1> USE NotificationAssumption DEF NotificationInv, Typed, Snapshots, Rows, States, Settled
<1>0. NewRow \in Rows /\ NewRow.version = 0
    BY DEF NewRow
<1>1. CASE EndRun
  <2>1. PICK opened \in {"pending", "skipped"} :
            row' = [row EXCEPT !.state = opened, !.version = @ + 1]
      BY <1>1, Zenon DEF EndRun, TerminalState
  <2>2. row' = [state |-> opened, owner |-> row.owner, attempts |-> row.attempts,
                version |-> row.version + 1]
      BY <2>1
  <2>3. row.state = "none" /\ UNCHANGED <<left, pc, snap, outcome, late, crashes, touches>>
      BY <1>1 DEF EndRun
  <2> QED BY <2>2, <2>3
<1>2. CASE Touch
    BY <1>2 DEF Touch
<1>3. CASE Tick
    BY <1>3 DEF Tick
<1>4. ASSUME NEW p \in Deliverers, ClaimRead(p) PROVE NotificationInv'
    BY <1>4 DEF ClaimRead, Claimable
<1>5. ASSUME NEW p \in Deliverers, ClaimCommit(p) PROVE NotificationInv'
    BY <1>0, <1>5 DEF Forget, ClaimCommit, ClaimMatches, Lease
<1>6. ASSUME NEW p \in Deliverers, Post(p) PROVE NotificationInv'
    BY <1>6 DEF Post
<1>7. ASSUME NEW p \in Deliverers, FinishRead(p) PROVE NotificationInv'
  <2>1. CASE Holds(p)
      BY <1>7, <2>1, <1>0 DEF FinishRead, Holds
  <2>2. CASE ~Holds(p)
    <3>1. /\ pc' = [pc EXCEPT ![p] = "idle"] /\ outcome' = [outcome EXCEPT ![p] = FALSE]
          /\ UNCHANGED <<snap, row, left, crashes, touches>>
        BY <1>7, <2>2, Zenon DEF FinishRead, Leave
    <3> QED BY <3>1
  <2> QED BY <2>1, <2>2
<1>8. ASSUME NEW p \in Deliverers, FinishCommit(p) PROVE NotificationInv'
  <2>1. CASE row.version = snap[p].version
    <3>1. After(p) \in {"delivered", "failed", "pending"}
        BY DEF After
    <3>2. snap[p] = row /\ row.state = "delivering"
        BY <1>8, <2>1 DEF Forget, Leave, FinishCommit
    <3>3. row' = [row EXCEPT !.state = After(p), !.owner = NoOne, !.version = @ + 1]
        BY <1>8, <2>1, <3>2, Zenon DEF Forget, Leave, FinishCommit
    <3>4. row' = [state |-> After(p), owner |-> NoOne, attempts |-> row.attempts,
                  version |-> row.version + 1]
        BY <3>3
    <3>5. /\ left' \in Nat
          /\ pc' = [pc EXCEPT ![p] = "idle"]
          /\ snap' = [snap EXCEPT ![p] = NewRow]
          /\ outcome' = [outcome EXCEPT ![p] = FALSE]
          /\ UNCHANGED <<crashes, touches>>
        BY <1>8, <2>1 DEF Forget, Leave, FinishCommit
    <3> QED BY <1>0, <3>1, <3>2, <3>4, <3>5
  <2>2. CASE row.version # snap[p].version
      BY <1>0, <1>8, <2>2 DEF Forget, Leave, FinishCommit
  <2> QED BY <2>1, <2>2
<1>9. ASSUME NEW p \in Deliverers, Crash(p) PROVE NotificationInv'
    BY <1>0, <1>9 DEF Forget, Leave, Crash
<1>10. CASE UNCHANGED vars
    BY <1>10 DEF vars
<1> QED
    BY <1>1, <1>2, <1>3, <1>4, <1>5, <1>6, <1>7, <1>8, <1>9, <1>10 DEF Next, Deliver

\* Who is late stays it.
LEMMA LateStays == [Next]_vars /\ ~late' => ~late
BY Zenon DEF Next, vars, EndRun, Touch, Tick, Deliver, ClaimRead, ClaimCommit, Post,
       FinishRead, FinishCommit, Crash

\* Deliverers in time keep their lease, and keep count.
LEMMA TimelyStep == TimelyInv /\ [Next]_vars => Timely'
<1> SUFFICES ASSUME TimelyInv, [Next]_vars, ~late' PROVE (LeaseHeld /\ TriesCounted)'
    BY DEF Timely
<1>0. NotificationInv /\ LeaseHeld /\ TriesCounted
    BY LateStays DEF TimelyInv, Timely, NotificationInv
<1> USE NotificationAssumption
    DEF NotificationInv, Typed, Snapshots, LeaseHeld, TriesCounted, Working, Rows, States, Settled
<1>1. CASE EndRun
    BY <1>0, <1>1 DEF EndRun, TerminalState
<1>2. CASE Touch
    BY <1>0, <1>2 DEF Touch
<1>3. CASE Tick
  <2>1. /\ left' = left - 1 /\ left > 0 /\ UNCHANGED <<row, pc, crashes>>
        /\ left' <= Skew => \A p \in Deliverers : ~Working(p)
      BY <1>3, Zenon DEF Tick
  <2> QED BY <1>0, <2>1
<1>4. ASSUME NEW p \in Deliverers, ClaimRead(p) PROVE (LeaseHeld /\ TriesCounted)'
    BY <1>0, <1>4 DEF ClaimRead
<1>5. ASSUME NEW p \in Deliverers, ClaimCommit(p) PROVE (LeaseHeld /\ TriesCounted)'
  <2>1. CASE row.version = snap[p].version
    <3>0. /\ pc[p] = "claim"
          /\ row' = [state |-> "delivering", owner |-> p, attempts |-> snap[p].attempts + 1,
                     version |-> snap[p].version + 1]
          /\ left' \in 0..LeaseTime /\ ~(left' <= Skew)
          /\ pc' = [pc EXCEPT ![p] = "post"] /\ crashes' = crashes
        BY <1>5, <2>1, Zenon DEF ClaimCommit, ClaimMatches, Lease
    <3>1. snap[p] = row /\ left <= Skew
        BY <1>0, <2>1, <3>0
    <3>2. \A q \in Deliverers : ~Working(q)
        BY <1>0, <3>1
    <3>3. row.attempts + 1 <= MaxAttempts + crashes
      <4>1. /\ row.state \in {"pending", "delivering"}
            /\ row.attempts \in Nat /\ crashes \in Nat /\ MaxAttempts \in Nat
            /\ row.attempts <= MaxAttempts + crashes
          BY <1>0, <3>0, <3>1
      <4>2. CASE row.state = "pending"
          BY <1>0, <4>1, <4>2
      <4>3. CASE row.state = "delivering"
        <5>1. row.owner \in Deliverers
            BY <1>0, <4>3
        <5>2. row.attempts # MaxAttempts + crashes
            BY <1>0, <3>2, <4>3, <5>1
        <5> QED BY <4>1, <5>2
      <4> QED BY <4>1, <4>2, <4>3
    <3>4. row' = [state |-> "delivering", owner |-> p, attempts |-> row.attempts + 1,
                  version |-> row.version + 1]
        BY <3>0, <3>1
    <3>5. left' > Skew
        BY <3>0
    <3> QED BY <1>0, <3>0, <3>2, <3>3, <3>4, <3>5
  <2>2. CASE row.version # snap[p].version
      BY <1>0, <1>5, <2>2 DEF Forget, Leave, ClaimCommit, ClaimMatches
  <2> QED BY <2>1, <2>2
<1>6. ASSUME NEW p \in Deliverers, Post(p) PROVE (LeaseHeld /\ TriesCounted)'
    BY <1>0, <1>6 DEF Post
<1>7. ASSUME NEW p \in Deliverers, FinishRead(p) PROVE (LeaseHeld /\ TriesCounted)'
    BY <1>0, <1>7 DEF Forget, Leave, FinishRead, Holds
<1>8. ASSUME NEW p \in Deliverers, FinishCommit(p) PROVE (LeaseHeld /\ TriesCounted)'
  <2>1. CASE row.version = snap[p].version
    <3>1. snap[p] = row /\ row.owner = p
        BY <1>0, <1>8, <2>1 DEF Forget, Leave, FinishCommit
    <3>2. \A q \in Deliverers : Working(q) => q = p
        BY <1>0, <3>1
    <3>3. /\ After(p) \in {"delivered", "failed", "pending"}
          /\ After(p) = "pending" => row.attempts < MaxAttempts
        BY <1>0, <3>1 DEF After
    <3>4. /\ row' = [row EXCEPT !.state = After(p), !.owner = NoOne, !.version = @ + 1]
          /\ pc' = [pc EXCEPT ![p] = "idle"] /\ crashes' = crashes
        BY <1>0, <1>8, <2>1, <3>1 DEF Forget, Leave, FinishCommit
    <3> QED BY <1>0, <3>2, <3>3, <3>4
  <2>2. CASE row.version # snap[p].version
      BY <1>0, <1>8, <2>2 DEF Forget, Leave, FinishCommit
  <2> QED BY <2>1, <2>2
<1>9. ASSUME NEW p \in Deliverers, Crash(p) PROVE (LeaseHeld /\ TriesCounted)'
    BY <1>0, <1>9 DEF Forget, Leave, Crash
<1>10. CASE UNCHANGED vars
    BY <1>0, <1>10 DEF vars
<1> QED
    BY <1>1, <1>2, <1>3, <1>4, <1>5, <1>6, <1>7, <1>8, <1>9, <1>10 DEF Next, Deliver

-----------------------------------------------------------------------------

\* The notification columns stay well formed, however slow a deliverer is.
THEOREM NotificationTyping == Spec => []TypeOK
<1>1. Init => NotificationInv /\ late \in BOOLEAN
    BY InitNotification, Zenon DEF Init
<1>2. late \in BOOLEAN /\ [Next]_vars => (late \in BOOLEAN)'
    BY Zenon DEF Next, vars, EndRun, Touch, Tick, Deliver, ClaimRead, ClaimCommit, Post,
                 FinishRead, FinishCommit, Crash
<1>3. NotificationInv /\ late \in BOOLEAN => TypeOK
    BY DEF NotificationInv, TypeOK
<1> QED
    BY <1>1, <1>2, <1>3, NotificationStep, PTL DEF Spec

LEMMA InTime == Spec => []TimelyInv
<1>1. Init => TimelyInv
    BY InitNotification DEF TimelyInv, Timely
<1>2. TimelyInv /\ [Next]_vars => TimelyInv'
    BY NotificationStep, TimelyStep DEF TimelyInv
<1> QED
    BY <1>1, <1>2, PTL DEF Spec

\* Deliverers that keep within their lease never deliver at the same time,
\* whatever their number and however far their clocks run ahead.
THEOREM OneDeliverer == Spec => []Exclusive
<1>1. TimelyInv => Exclusive
    BY DEF TimelyInv, Timely, LeaseHeld, Exclusive
<1> QED
    BY <1>1, InTime, PTL

\* They also repeat an attempt beyond the limit only after a crash.
THEOREM AttemptsCounted == Spec => []AttemptsBounded
<1>1. TimelyInv => AttemptsBounded
    BY DEF TimelyInv, Timely, TriesCounted, AttemptsBounded
<1> QED
    BY <1>1, InTime, PTL

\* A settled notification stays settled, also when deliverers are slow.
THEOREM SettledForGood == Spec => [][SettledIsFinal]_vars
<1>1. NotificationInv /\ [Next]_vars => [SettledIsFinal]_vars
  <2> SUFFICES ASSUME NotificationInv, Next, row.state \in Settled PROVE row'.state = row.state
      BY DEF vars, SettledIsFinal
  <2> USE DEF NotificationInv, Typed, Snapshots, Rows, States, Settled
  <2>1. ASSUME NEW p \in Deliverers, ClaimCommit(p) PROVE row'.state = row.state
      BY <2>1 DEF Forget, Leave, ClaimCommit, ClaimMatches
  <2>2. ASSUME NEW p \in Deliverers, FinishCommit(p) PROVE row'.state = row.state
      BY <2>2 DEF Forget, Leave, FinishCommit
  <2>3. CASE EndRun \/ Touch \/ Tick
      BY <2>3 DEF EndRun, Touch, Tick
  <2>4. ASSUME NEW p \in Deliverers,
               ClaimRead(p) \/ Post(p) \/ FinishRead(p) \/ Crash(p)
        PROVE row'.state = row.state
      BY <2>4 DEF ClaimRead, Post, FinishRead, Crash
  <2> QED BY <2>1, <2>2, <2>3, <2>4 DEF Next, Deliver
<1> QED
    BY <1>1, InitNotification, NotificationStep, PTL DEF Spec

\* Both together: what a receiver of the webhook may rely on.
THEOREM DeliversOnce == Spec => DeliveredOnce
<1>1. [SettledIsFinal]_vars /\ Exclusive /\ Exclusive' => [Exclusive' /\ SettledIsFinal]_vars
    OBVIOUS
<1> QED
    BY <1>1, OneDeliverer, SettledForGood, PTL DEF DeliveredOnce


-----------------------------------------------------------------------------
(* The calls: types.                                                       *)

Places == {"idle", "enter", "half", "slot", "sent", "publish", "backoff", "closing", "last", "out", "dead"}
Usage == [used : Nat, reserved : Nat, requests : Nat, retries : Nat]
Writing == [who : Workers \cup {"nobody"}, usage : Usage]

PlaceKinds ==
  /\ store \in {"redis", "local"}
  /\ at \in [Workers -> Places] /\ then \in [Workers -> {"idle", "closing", "backoff", "sent"}]
  /\ ret \in [Workers -> {"idle", "last"}] /\ est \in [Workers -> Nat]

SlotKinds ==
  /\ lease \in [Keys -> SUBSET Workers] /\ unit \in [Keys -> SUBSET Workers]
  /\ orphan \in [Keys -> Nat] /\ lapsed \subseteq Workers

BookKinds ==
  /\ ledger \in [Runs -> Usage] /\ column \in [Runs -> Usage] /\ writer \in [Runs -> Writing]
  /\ sent \in [Runs -> Nat] /\ extra \in [Runs -> Nat]

Kinds == PlaceKinds /\ SlotKinds /\ BookKinds

LEMMA KeysIn == ASSUME Sized, NEW c \in Workers
                PROVE  FirstKey(c) \in Keys /\ SecondKey(c) \in Keys /\ KeysOf(c) = {FirstKey(c), SecondKey(c)}
  BY DEF Sized, FirstKey, SecondKey, Keys, KeysOf, Actors

LEMMA UsageType == NoUsage \in Usage /\ Idle \in Writing /\ Idle.who = "nobody" /\ Idle.usage = NoUsage
  BY DEF NoUsage, Usage, Idle, Writing

LEMMA Maxima == ASSUME NEW a \in Int, NEW b \in Int
                PROVE  /\ Max2(a, b) \in Int /\ Max2(a, b) >= a /\ Max2(a, b) >= b
                       /\ Max2(a, b) \in {a, b} /\ Min2(a, b) \in {a, b} /\ Min2(a, b) <= a
                       /\ Min2(a, b) <= b
  BY DEF Max2, Min2

LEMMA MergeType == ASSUME NEW u \in Usage, NEW v \in Usage
                   PROVE  /\ Merge(u, v) \in Usage /\ Merge(u, v).reserved = v.reserved
                          /\ Merge(u, v).used = Max2(u.used, v.used)
                          /\ Merge(u, v).requests = Max2(u.requests, v.requests)
                          /\ Merge(u, v).retries = Max2(u.retries, v.retries)
  BY DEF Merge, Usage, Max2

LEMMA InitKinds == CallsInit => Kinds
  BY UsageType DEF CallsInit, Kinds, PlaceKinds, SlotKinds, BookKinds, Places

-----------------------------------------------------------------------------
(* The slots.                                                              *)

LEMMA DropKinds == ASSUME SlotKinds, NEW c, DropSlots(c) PROVE SlotKinds'
  BY DEF SlotKinds, DropSlots

LEMMA HoldKinds == ASSUME SlotKinds, NEW c \in Workers, NEW k \in Keys, Hold(c, k),
                          UNCHANGED <<orphan, lapsed>>
                   PROVE SlotKinds'
  BY DEF SlotKinds, Hold

\* Every step keeps the types of the slots.
LEMMA SlotKindsStep == ASSUME Sized, Kinds, CallsNext PROVE SlotKinds'
  <1>1. SlotKinds
    BY DEF Kinds
  <1>2. ASSUME NEW c \in Workers, TakeFirst(c) \/ TakeSecond(c) PROVE SlotKinds'
    BY <1>1, <1>2, KeysIn, HoldKinds, Zenon DEF TakeFirst, TakeSecond
  <1>3. ASSUME NEW c \in Workers, GiveBack(c) \/ Deadline(c) \/ Close(c) PROVE SlotKinds'
    BY <1>1, <1>3, DropKinds, Zenon DEF GiveBack, Deadline, Close
  <1>4. ASSUME NEW c \in Workers, Unavailable(c) PROVE SlotKinds'
    BY <1>1, <1>4 DEF Unavailable, SlotKinds
  <1>5. ASSUME NEW c \in Workers, Lapse(c) PROVE SlotKinds'
    BY <1>1, <1>5 DEF Lapse, SlotKinds
  <1>6. ASSUME NEW k \in Keys, Expire(k) PROVE SlotKinds'
    BY <1>1, <1>6 DEF Expire, SlotKinds
  <1>7. ASSUME NEW r \in Runs, Die(r) PROVE SlotKinds'
    <2>1. \A k \in Keys : Cardinality(lease[k] \cap Mine(r)) \in Nat
      <3>1. ASSUME NEW k \in Keys PROVE lease[k] \cap Mine(r) \in SUBSET Workers
        BY <1>1, <3>1 DEF SlotKinds
      <3> QED
        BY <3>1, FS_Subset, FS_CardinalityType DEF Sized
    <2> QED
      BY <1>1, <1>7, <2>1 DEF Die, SlotKinds
  <1>8. ASSUME NEW c \in Workers,
               \/ Begin(c) \/ Finish(c) \/ Again(c) \/ Send(c) \/ Refused(c) \/ Answer(c) \/ Fail(c)
               \/ Retry(c) \/ RetryRefused(c) \/ StartWrite(c) \/ EndWrite(c) \/ Interrupt(c)
        PROVE  SlotKinds'
    <2>1. UNCHANGED slots
      BY <1>8, Zenon DEF Begin, Finish, Again, Send, Refused, Answer, Fail, Retry, RetryRefused,
         StartWrite, EndWrite, Interrupt
    <2> QED
      BY <1>1, <2>1, Zenon DEF slots, SlotKinds
  <1> QED
    BY <1>2, <1>3, <1>4, <1>5, <1>6, <1>7, <1>8, Zenon DEF CallsNext, Step

-----------------------------------------------------------------------------
(* The ledger's operations at the run of the worker.                       *)

\* What a change of one run's ledger leaves alone.
OnlyLedger(r) ==
  /\ ledger' \in [Runs -> Usage] /\ \A q \in Runs : q # r => ledger'[q] = ledger[q]

OnlyEst(c) ==
  /\ est' \in [Workers -> Nat] /\ \A d \in Workers : d # c => est'[d] = est[d]

LEMMA ReserveAt ==
  ASSUME Sized, Kinds, NEW c \in Workers, NEW again \in BOOLEAN, Reserve(c, again),
         NEW r, r = RunOf[c]
  PROVE  /\ r \in Runs /\ OnlyLedger(r) /\ OnlyEst(c) /\ est'[c] \in Nat
         /\ ledger'[r].used = ledger[r].used
         /\ ledger'[r].reserved = ledger[r].reserved + est'[c]
         /\ ledger'[r].requests = ledger[r].requests + 1
         /\ ledger'[r].retries >= ledger[r].retries
         /\ ledger'[r].used + ledger'[r].reserved <= MaxTokens
         /\ ledger'[r].requests <= MaxRequests
  <1> DEFINE e == Prompt + Min2(Output, Left(r))
  <1>1. r \in Runs /\ ledger \in [Runs -> Usage] /\ est \in [Workers -> Nat] /\ ledger[r] \in Usage
    BY Zenon DEF Sized, Kinds, BookKinds, PlaceKinds
  <1>2. /\ ledger[r].used \in Nat /\ ledger[r].reserved \in Nat /\ ledger[r].requests \in Nat
        /\ ledger[r].retries \in Nat
    BY <1>1 DEF Usage
  <1>3. /\ Prompt \in Nat /\ Output \in Nat /\ MaxTokens \in Nat /\ MaxRequests \in Nat
    BY DEF Sized
  <1>4. Left(r) \in Int /\ Left(r) >= 1 /\ ledger[r].requests < MaxRequests
    BY <1>2, <1>3 DEF Reserve, Allowed, Left
  <1>5. e \in Nat /\ e <= Prompt + Left(r)
    BY <1>3, <1>4 DEF Min2
  <1>6. e + ledger[r].used + ledger[r].reserved <= MaxTokens
    BY <1>2, <1>3, <1>5 DEF Left
  <1>7. /\ ledger' = [ledger EXCEPT ![r].reserved = @ + e, ![r].requests = @ + 1,
                                   ![r].retries = @ + (IF again THEN 1 ELSE 0)]
        /\ est' = [est EXCEPT ![c] = e]
    BY Zenon DEF Reserve
  <1> HIDE DEF e
  <1>8. OnlyEst(c) /\ est'[c] = e
    BY <1>1, <1>5, <1>7 DEF OnlyEst
  <1>9. ledger'[r] = [ledger[r] EXCEPT !.reserved = @ + e, !.requests = @ + 1,
                                       !.retries = @ + (IF again THEN 1 ELSE 0)]
    BY <1>1, <1>7
  <1>10. /\ ledger'[r].used = ledger[r].used /\ ledger'[r].reserved = ledger[r].reserved + e
         /\ ledger'[r].requests = ledger[r].requests + 1
         /\ ledger'[r].retries = ledger[r].retries + (IF again THEN 1 ELSE 0)
         /\ ledger'[r] \in Usage
    <2> DEFINE b == ledger[r].reserved + e
               d == ledger[r].requests + 1
               f == ledger[r].retries + (IF again THEN 1 ELSE 0)
    <2>1. b \in Nat /\ d \in Nat /\ f \in Nat
      BY <1>2, <1>5
    <2>2. ledger'[r] = [ledger[r] EXCEPT !.reserved = b, !.requests = d, !.retries = f]
      BY <1>9
    <2> HIDE DEF b, d, f
    <2>3. ledger'[r] \in Usage
      BY <1>1, <2>1, <2>2 DEF Usage
    <2>4. /\ ledger'[r].used = ledger[r].used /\ ledger'[r].reserved = b
          /\ ledger'[r].requests = d /\ ledger'[r].retries = f
      BY <1>1, <2>1, <2>2 DEF Usage
    <2> QED
      BY <2>3, <2>4 DEF b, d, f
  <1>11. OnlyLedger(r)
    BY <1>1, <1>7, <1>10 DEF OnlyLedger
  <1> QED
    BY <1>1, <1>2, <1>3, <1>4, <1>5, <1>6, <1>8, <1>10, <1>11

LEMMA ChargeAt ==
  ASSUME Sized, Kinds, NEW c \in Workers, NEW actual \in Nat, Charge(c, actual),
         NEW r, r = RunOf[c]
  PROVE  /\ r \in Runs /\ OnlyLedger(r) /\ OnlyEst(c) /\ est'[c] = 0
         /\ ledger'[r].used = ledger[r].used + actual
         /\ ledger'[r].reserved = Max2(0, ledger[r].reserved - est[c])
         /\ ledger'[r].requests = ledger[r].requests /\ ledger'[r].retries = ledger[r].retries
         /\ extra' \in [Runs -> Nat] /\ extra'[r] = extra[r] + Max2(0, actual - est[c])
         /\ \A q \in Runs : q # r => extra'[q] = extra[q]
  <1>1. /\ r \in Runs /\ ledger \in [Runs -> Usage] /\ est \in [Workers -> Nat]
        /\ ledger[r] \in Usage /\ extra \in [Runs -> Nat] /\ est[c] \in Nat /\ extra[r] \in Nat
    BY Zenon DEF Sized, Kinds, BookKinds, PlaceKinds
  <1>2. /\ ledger[r].used \in Nat /\ ledger[r].reserved \in Nat /\ ledger[r].requests \in Nat
        /\ ledger[r].retries \in Nat
    BY <1>1 DEF Usage
  <1> DEFINE remains == Max2(0, ledger[r].reserved - est[c])
             more == Max2(0, actual - est[c])
  <1>3. remains \in Nat /\ more \in Nat
    BY <1>1, <1>2 DEF Max2
  <1>4. /\ ledger' = [ledger EXCEPT ![r].reserved = Max2(0, @ - est[c]), ![r].used = @ + actual]
        /\ extra' = [extra EXCEPT ![r] = @ + more] /\ est' = [est EXCEPT ![c] = 0]
    BY Zenon DEF Charge
  <1>5. ledger'[r] = [ledger[r] EXCEPT !.reserved = remains, !.used = @ + actual]
    BY <1>1, <1>4
  <1> HIDE DEF remains, more
  <1>6. OnlyEst(c) /\ est'[c] = 0
    BY <1>1, <1>4 DEF OnlyEst
  <1>7. /\ ledger'[r].used = ledger[r].used + actual /\ ledger'[r].reserved = remains
        /\ ledger'[r].requests = ledger[r].requests /\ ledger'[r].retries = ledger[r].retries
        /\ ledger'[r] \in Usage
    <2> DEFINE b == ledger[r].used + actual
    <2>1. b \in Nat
      BY <1>2
    <2>2. ledger'[r] = [ledger[r] EXCEPT !.reserved = remains, !.used = b]
      BY <1>5
    <2> HIDE DEF b
    <2>3. ledger'[r] \in Usage
      BY <1>1, <1>3, <2>1, <2>2 DEF Usage
    <2>4. /\ ledger'[r].used = b /\ ledger'[r].reserved = remains
          /\ ledger'[r].requests = ledger[r].requests /\ ledger'[r].retries = ledger[r].retries
      BY <1>1, <1>3, <2>1, <2>2 DEF Usage
    <2> QED
      BY <2>3, <2>4 DEF b
  <1>8. /\ extra' \in [Runs -> Nat] /\ extra'[r] = extra[r] + more
        /\ \A q \in Runs : q # r => extra'[q] = extra[q]
    BY <1>1, <1>3, <1>4
  <1>9. OnlyLedger(r)
    <2>1. \A q \in Runs : q # r => ledger'[q] = ledger[q]
      BY <1>1, <1>4
    <2>2. ledger' = [q \in Runs |-> ledger'[q]]
      BY <1>1, <1>4
    <2> QED
      BY <1>1, <1>7, <2>1, <2>2 DEF OnlyLedger
  <1> QED
    BY <1>1, <1>6, <1>7, <1>8, <1>9 DEF remains, more

\* A retry of something else than a model call.
LEMMA ConsumeAt ==
  ASSUME Sized, Kinds, NEW r \in Runs, ConsumeRetry(r)
  PROVE  /\ OnlyLedger(r) /\ ledger'[r].used = ledger[r].used
         /\ ledger'[r].reserved = ledger[r].reserved /\ ledger'[r].requests = ledger[r].requests
         /\ ledger'[r].retries >= ledger[r].retries
  <1>1. ledger \in [Runs -> Usage] /\ ledger[r] \in Usage
    BY Zenon DEF Kinds, BookKinds
  <1>2. /\ ledger[r].used \in Nat /\ ledger[r].reserved \in Nat /\ ledger[r].requests \in Nat
        /\ ledger[r].retries \in Nat
    BY <1>1 DEF Usage
  <1>3. ledger' = [ledger EXCEPT ![r].retries = @ + 1]
    BY Zenon DEF ConsumeRetry
  <1>4. ledger'[r] = [ledger[r] EXCEPT !.retries = @ + 1]
    BY <1>1, <1>3
  <1>5. /\ ledger'[r].used = ledger[r].used /\ ledger'[r].reserved = ledger[r].reserved
        /\ ledger'[r].requests = ledger[r].requests
        /\ ledger'[r].retries = ledger[r].retries + 1 /\ ledger'[r] \in Usage
    BY <1>1, <1>2, <1>4 DEF Usage
  <1> QED
    BY <1>1, <1>2, <1>3, <1>5 DEF OnlyLedger

LEMMA PlaceKindsStep == ASSUME Sized, Kinds, CallsNext PROVE PlaceKinds'
  <1>1. /\ PlaceKinds /\ at \in [Workers -> Places] /\ est \in [Workers -> Nat]
        /\ then \in [Workers -> {"idle", "closing", "backoff", "sent"}]
        /\ ret \in [Workers -> {"idle", "last"}] /\ store \in {"redis", "local"}
    BY DEF Kinds, PlaceKinds
  <1>2. ASSUME NEW c \in Workers,
               \/ Begin(c) \/ Finish(c) \/ GiveBack(c) \/ TakeFirst(c) \/ TakeSecond(c)
               \/ Deadline(c) \/ Unavailable(c)
        PROVE  PlaceKinds'
    BY <1>1, <1>2 DEF Begin, Finish, GiveBack, TakeFirst, TakeSecond, Deadline, Unavailable, Goto,
       Places, PlaceKinds, env
  <1>3. ASSUME NEW c \in Workers, Lapse(c) \/ StartWrite(c) PROVE PlaceKinds'
    BY <1>1, <1>3, Zenon DEF Lapse, StartWrite, place, env, PlaceKinds
  <1>4. ASSUME NEW c \in Workers, Refused(c) \/ RetryRefused(c) PROVE PlaceKinds'
    BY <1>1, <1>4 DEF Refused, RetryRefused, Goto, Places, PlaceKinds, env
  <1>5. ASSUME NEW c \in Workers, Close(c) PROVE PlaceKinds'
    BY <1>1, <1>5 DEF Close, Goto, Places, PlaceKinds, env
  <1>6. ASSUME NEW c \in Workers, Send(c) PROVE PlaceKinds'
    <2>1. est' \in [Workers -> Nat]
      BY <1>6, ReserveAt, Zenon DEF Send, OnlyEst
    <2> QED
      BY <1>1, <1>6, <2>1 DEF Send, Goto, Places, PlaceKinds, env
  <1>7. ASSUME NEW c \in Workers, Retry(c) PROVE PlaceKinds'
    <2>1. est' \in [Workers -> Nat]
      BY <1>7, ReserveAt, Zenon DEF Retry, OnlyEst
    <2> QED
      BY <1>1, <1>7, <2>1 DEF Retry, Publish, Goto, Places, PlaceKinds, env
  <1>8. ASSUME NEW c \in Workers, Answer(c) PROVE PlaceKinds'
    <2>1. est' \in [Workers -> Nat]
      BY <1>1, <1>8 DEF Answer, Charge
    <2> QED
      BY <1>1, <1>8, <2>1 DEF Answer, Publish, Goto, Places, PlaceKinds, env
  <1>9. ASSUME NEW c \in Workers, Fail(c) PROVE PlaceKinds'
    <2>1. est' \in [Workers -> Nat]
      BY <1>1, <1>9 DEF Fail, Charge
    <2> QED
      BY <1>1, <1>9, <2>1 DEF Fail, Publish, Goto, Places, PlaceKinds, env
  <1>10. ASSUME NEW c \in Workers, Again(c) PROVE PlaceKinds'
    BY <1>1, <1>10 DEF Again, Publish, Goto, Places, PlaceKinds, env
  <1>11. ASSUME NEW c \in Workers, EndWrite(c) PROVE PlaceKinds'
    BY <1>1, <1>11 DEF EndWrite, Goto, Places, PlaceKinds, env
  <1>12. ASSUME NEW c \in Workers, Interrupt(c) PROVE PlaceKinds'
    <2>1. est' \in [Workers -> Nat]
      BY <1>1, <1>12 DEF Interrupt, Charge
    <2> QED
      BY <1>1, <1>12, <2>1 DEF Interrupt, Publish, Goto, Places, PlaceKinds
  <1>13. ASSUME NEW k \in Keys, Expire(k) PROVE PlaceKinds'
    BY <1>1, <1>13, Zenon DEF Expire, place, env, PlaceKinds
  <1>14. ASSUME NEW r \in Runs, Die(r) PROVE PlaceKinds'
    BY <1>1, <1>14 DEF Die, Places, PlaceKinds
  <1> QED
    BY <1>2, <1>3, <1>4, <1>5, <1>6, <1>7, <1>8, <1>9, <1>10, <1>11, <1>12, <1>13, <1>14, Zenon
       DEF CallsNext, Step

\* What an answer of the provider is charged as.
LEMMA Actual == ASSUME Sized, Kinds, NEW c \in Workers
                PROVE  est[c] \in Nat /\ \A a \in {Prompt, est[c] + Excess} : a \in Nat
  BY DEF Sized, Kinds, PlaceKinds

LEMMA BookKindsStep == ASSUME Sized, Kinds, CallsNext PROVE BookKinds'
  <1>1. /\ ledger \in [Runs -> Usage] /\ column \in [Runs -> Usage] /\ writer \in [Runs -> Writing]
        /\ sent \in [Runs -> Nat] /\ extra \in [Runs -> Nat]
    BY DEF Kinds, BookKinds
  <1>2. \A c \in Workers : RunOf[c] \in Runs
    BY DEF Sized
  <1>3. ASSUME NEW c \in Workers,
               \/ Begin(c) \/ Finish(c) \/ GiveBack(c) \/ TakeFirst(c) \/ TakeSecond(c)
               \/ Deadline(c) \/ Unavailable(c) \/ Lapse(c) \/ Refused(c) \/ RetryRefused(c)
               \/ Close(c)
        PROVE  BookKinds'
    <2>1. UNCHANGED <<books, rows>>
      BY <1>3, Zenon DEF Begin, Finish, GiveBack, TakeFirst, TakeSecond, Deadline, Unavailable,
         Lapse, Refused, RetryRefused, Close, env
    <2> QED
      BY <1>1, <2>1 DEF books, rows, BookKinds
  <1>4. ASSUME NEW c \in Workers, Send(c) PROVE BookKinds'
    <2>1. ledger' \in [Runs -> Usage]
      BY <1>4, ReserveAt, Zenon DEF Send, OnlyLedger
    <2>2. sent' \in [Runs -> Nat]
      BY <1>1, <1>2, <1>4 DEF Send
    <2> QED
      BY <1>1, <1>4, <2>1, <2>2, Zenon DEF Send, rows, env, BookKinds
  <1>5. ASSUME NEW c \in Workers, Retry(c) PROVE BookKinds'
    <2>1. ledger' \in [Runs -> Usage]
      BY <1>5, ReserveAt, Zenon DEF Retry, OnlyLedger
    <2> QED
      BY <1>1, <1>5, <2>1, Zenon DEF Retry, rows, env, BookKinds
  <1>6. ASSUME NEW c \in Workers, NEW a \in Nat, Charge(c, a)
        PROVE  ledger' \in [Runs -> Usage] /\ extra' \in [Runs -> Nat]
    BY <1>6, ChargeAt, Zenon DEF OnlyLedger
  <1>7. ASSUME NEW c \in Workers, Answer(c) PROVE BookKinds'
    <2>1. ledger' \in [Runs -> Usage] /\ extra' \in [Runs -> Nat]
      BY <1>6, <1>7, Actual, Zenon DEF Answer
    <2> QED
      BY <1>1, <1>7, <2>1, Zenon DEF Answer, rows, env, BookKinds
  <1>8. ASSUME NEW c \in Workers, Fail(c) PROVE BookKinds'
    <2>1. ledger' \in [Runs -> Usage] /\ extra' \in [Runs -> Nat]
      BY <1>6, <1>8, Actual, Zenon DEF Fail
    <2> QED
      BY <1>1, <1>8, <2>1, Zenon DEF Fail, rows, env, BookKinds
  <1>9. ASSUME NEW c \in Workers, Again(c) PROVE BookKinds'
    <2>1. ledger' \in [Runs -> Usage]
      BY <1>2, <1>9, ConsumeAt, Zenon DEF Again, OnlyLedger
    <2> QED
      BY <1>1, <1>9, <2>1, Zenon DEF Again, rows, env, BookKinds
  <1>10. ASSUME NEW c \in Workers, StartWrite(c) PROVE BookKinds'
    <2>1. writer' \in [Runs -> Writing]
      BY <1>1, <1>2, <1>10 DEF StartWrite, Writing
    <2> QED
      BY <1>1, <1>10, <2>1, Zenon DEF StartWrite, books, env, BookKinds
  <1>11. ASSUME NEW c \in Workers, EndWrite(c) \/ Interrupt(c)
         PROVE  column' \in [Runs -> Usage] /\ writer' \in [Runs -> Writing]
    <2>1. Merge(column[RunOf[c]], writer[RunOf[c]].usage) \in Usage
      <3>1. column[RunOf[c]] \in Usage /\ writer[RunOf[c]].usage \in Usage
        BY <1>1, <1>2 DEF Writing
      <3> QED
        BY <3>1, MergeType
    <2>2. /\ column' \in {column, [column EXCEPT ![RunOf[c]] = Merge(@, writer[RunOf[c]].usage)]}
          /\ writer' \in {writer, [writer EXCEPT ![RunOf[c]] = Idle]}
      BY <1>1, <1>2, <1>11 DEF EndWrite, Interrupt
    <2> QED
      BY <1>1, <1>2, <2>1, <2>2, UsageType
  <1>12. ASSUME NEW c \in Workers, EndWrite(c) PROVE BookKinds'
    <2>1. sent' \in [Runs -> Nat]
      BY <1>1, <1>2, <1>12 DEF EndWrite
    <2> QED
      BY <1>1, <1>11, <1>12, <2>1, Zenon DEF EndWrite, env, BookKinds
  <1>13. ASSUME NEW c \in Workers, Interrupt(c) PROVE BookKinds'
    <2>1. UNCHANGED sent
      BY <1>13, Zenon DEF Interrupt
    <2>2. Charge(c, est[c]) \/ UNCHANGED <<ledger, extra>>
      BY <1>13, Zenon DEF Interrupt
    <2>3. ledger' \in [Runs -> Usage] /\ extra' \in [Runs -> Nat]
      BY <1>1, <1>6, <2>2, Actual, Zenon
    <2> QED
      BY <1>1, <1>11, <1>13, <2>1, <2>3, Zenon DEF BookKinds
  <1>14. ASSUME NEW k \in Keys, Expire(k) PROVE BookKinds'
    BY <1>1, <1>14, Zenon DEF Expire, books, rows, env, BookKinds
  <1>15. ASSUME NEW r \in Runs, Die(r) PROVE BookKinds'
    <2>1. /\ writer' = [writer EXCEPT ![r] = Idle] /\ UNCHANGED <<ledger, sent, extra>>
          /\ column' \in {column, [column EXCEPT ![r] = Merge(@, writer[r].usage)]}
      BY <1>15 DEF Die, books
    <2>2. Merge(column[r], writer[r].usage) \in Usage
      <3>1. column[r] \in Usage /\ writer[r].usage \in Usage
        BY <1>1 DEF Writing
      <3> QED
        BY <3>1, MergeType
    <2>3. column' \in [Runs -> Usage] /\ writer' \in [Runs -> Writing]
      BY <1>1, <2>1, <2>2, UsageType
    <2> QED
      BY <1>1, <2>1, <2>3, Zenon DEF BookKinds
  <1> QED
    BY <1>3, <1>4, <1>5, <1>7, <1>8, <1>9, <1>10, <1>12, <1>13, <1>14, <1>15, Zenon DEF CallsNext, Step

LEMMA KindsStep == ASSUME Sized, Kinds, [CallsNext]_callVars PROVE Kinds'
  <1>1. CASE CallsNext
    BY <1>1, PlaceKindsStep, SlotKindsStep, BookKindsStep, Zenon DEF Kinds
  <1>2. CASE UNCHANGED callVars
    BY <1>2, Zenon DEF callVars, place, slots, books, rows, env, Kinds, PlaceKinds, SlotKinds, BookKinds
  <1> QED
    BY <1>1, <1>2

-----------------------------------------------------------------------------
(* The writer of a run's row is a worker that waits for its write.         *)

WriterAt(r) ==
  \/ writer[r] = Idle
  \/ writer[r].who \in Mine(r) /\ at[writer[r].who] \in {"publish", "last"}

WriterKept == \A r \in Runs : WriterAt(r)

LEMMA WriterKeptStep == ASSUME Sized, Kinds, WriterKept, CallsNext PROVE WriterKept'
  <1>1. /\ writer \in [Runs -> Writing] /\ at \in [Workers -> Places]
        /\ \A c \in Workers : RunOf[c] \in Runs
        /\ \A r \in Runs : \A c \in Mine(r) : c \in Workers /\ RunOf[c] = r /\ c # "nobody"
    BY DEF Kinds, BookKinds, PlaceKinds, Sized, Mine
  <1>2. ASSUME NEW c \in Workers, at[c] \notin {"publish", "last"}, UNCHANGED writer,
               at' \in [Workers -> Places], \A d \in Workers : d # c => at'[d] = at[d]
        PROVE  WriterKept'
    BY <1>1, <1>2 DEF WriterKept, WriterAt, Mine
  <1>3. ASSUME NEW c \in Workers,
               \/ Begin(c) \/ Finish(c) \/ GiveBack(c) \/ TakeFirst(c) \/ TakeSecond(c)
               \/ Deadline(c) \/ Unavailable(c) \/ Refused(c) \/ RetryRefused(c) \/ Close(c)
               \/ Send(c) \/ Retry(c) \/ Answer(c) \/ Fail(c) \/ Again(c)
        PROVE  WriterKept'
    <2>1. at[c] \notin {"publish", "last"} /\ UNCHANGED writer
      BY <1>3, Zenon DEF Begin, Finish, GiveBack, TakeFirst, TakeSecond, Deadline, Unavailable,
         Refused, RetryRefused, Close, Send, Retry, Answer, Fail, Again, rows
    <2>2. \E p : at' = [at EXCEPT ![c] = p]
      BY <1>3, Zenon DEF Begin, Finish, GiveBack, TakeFirst, TakeSecond, Deadline, Unavailable,
         Refused, RetryRefused, Close, Send, Retry, Answer, Fail, Again, Goto, Publish
    <2>3. at' \in [Workers -> Places]
      BY <1>3, PlaceKindsStep, Zenon DEF CallsNext, Step, PlaceKinds
    <2> QED
      BY <1>1, <1>2, <2>1, <2>2, <2>3
  <1>4. ASSUME NEW c \in Workers, Lapse(c) PROVE WriterKept'
    BY <1>4, Zenon DEF Lapse, place, rows, WriterKept, WriterAt, Mine
  <1>5. ASSUME NEW c \in Workers, StartWrite(c) PROVE WriterKept'
    <2>1. at[c] \in {"publish", "last"} /\ at' = at
          /\ writer' = [writer EXCEPT ![RunOf[c]] = [who |-> c, usage |-> ledger[RunOf[c]]]]
      BY <1>5, Zenon DEF StartWrite, place
    <2> QED
      BY <1>1, <2>1 DEF WriterKept, WriterAt, Mine
  <1>6. ASSUME NEW c \in Workers, writer[RunOf[c]].who = c, writer' = [writer EXCEPT ![RunOf[c]] = Idle],
               at' \in [Workers -> Places], \A d \in Workers : d # c => at'[d] = at[d]
        PROVE  WriterKept'
    BY <1>1, <1>6 DEF WriterKept, WriterAt, Mine
  <1>7. ASSUME NEW c \in Workers, EndWrite(c) PROVE WriterKept'
    <2>1. at' \in [Workers -> Places]
      BY <1>7, PlaceKindsStep, Zenon DEF CallsNext, Step, PlaceKinds
    <2> QED
      BY <1>1, <1>6, <1>7, <2>1 DEF EndWrite, Goto
  <1>8. ASSUME NEW c \in Workers, Interrupt(c) PROVE WriterKept'
    <2>1. at' \in [Workers -> Places]
      BY <1>8, PlaceKindsStep, Zenon DEF CallsNext, PlaceKinds
    <2>2. \E p : at' = [at EXCEPT ![c] = p]
      BY <1>8, Zenon DEF Interrupt, Publish, Goto
    <2>3. writer' = [writer EXCEPT ![RunOf[c]] = IF writer[RunOf[c]].who = c THEN Idle ELSE @]
      BY <1>8, Zenon DEF Interrupt
    <2>4. CASE writer[RunOf[c]].who = c
      BY <1>1, <1>6, <2>1, <2>2, <2>3, <2>4
    <2>5. CASE writer[RunOf[c]].who # c
      <3>1. writer' = writer
        BY <1>1, <2>3, <2>5
      <3>2. \A r \in Runs : writer[r] # Idle => writer[r].who # c
        BY <1>1, <2>5 DEF WriterKept, WriterAt
      <3> QED
        BY <1>1, <2>1, <2>2, <3>1, <3>2 DEF WriterKept, WriterAt, Mine
    <2> QED
      BY <2>4, <2>5
  <1>9. ASSUME NEW k \in Keys, Expire(k) PROVE WriterKept'
    BY <1>9, Zenon DEF Expire, place, rows, WriterKept, WriterAt, Mine
  <1>10. ASSUME NEW r \in Runs, Die(r) PROVE WriterKept'
    BY <1>1, <1>10, UsageType DEF Die, WriterKept, WriterAt, Mine
  <1> QED
    BY <1>3, <1>4, <1>5, <1>7, <1>8, <1>9, <1>10, Zenon DEF CallsNext, Step

-----------------------------------------------------------------------------
(* A worker between its lease and its last word to the provider holds both *)
(* its slots; nobody takes a slot that is not free.                        *)

Holding(c) ==
  \/ at[c] \in {"slot", "sent", "backoff"}
  \/ at[c] = "publish" /\ then[c] \in {"sent", "backoff"}

Has(c, k) == c \in lease[k] \cup unit[k]

HeldBy(c) ==
  /\ at[c] = "half" => Has(c, FirstKey(c))
  /\ Holding(c) => Has(c, FirstKey(c)) /\ Has(c, SecondKey(c))

Held == \A c \in Workers \ lapsed : HeldBy(c)

RoomAt(k) ==
  IF store = "redis" THEN unit[k] = {} /\ Cardinality(lease[k]) + orphan[k] <= Limit(k)
  ELSE lease[k] = {} /\ Cardinality(unit[k]) <= Limit(k)

Room == \A k \in Keys : RoomAt(k)

\* A step that only moves its worker on, to no place that needs more slots.
LEMMA HeldQuiet ==
  ASSUME Sized, Kinds, Held, UNCHANGED <<slots, store>>,
         \A d \in Workers : /\ Holding(d)' => Holding(d)
                            /\ at'[d] = "half" => at[d] = "half"
  PROVE  Held'
  <1>1. \A d \in Workers, k \in Keys : Has(d, k) <=> Has(d, k)'
    BY Zenon DEF Has, slots
  <1>2. \A d \in Workers : FirstKey(d)' = FirstKey(d) /\ SecondKey(d)' = SecondKey(d)
    BY Zenon DEF FirstKey, SecondKey
  <1>3. lapsed' = lapsed
    BY Zenon DEF slots
  <1> SUFFICES ASSUME NEW d \in Workers \ lapsed PROVE HeldBy(d)'
    BY <1>3, Zenon DEF Held
  <1>4. HeldBy(d) /\ FirstKey(d) \in Keys /\ SecondKey(d) \in Keys
    BY KeysIn, Zenon DEF Held
  <1> QED
    BY <1>1, <1>2, <1>4 DEF HeldBy

\* The slots of one worker go back.
LEMMA HeldDrop ==
  ASSUME Sized, Kinds, Held, NEW c \in Workers, UNCHANGED <<store, then>>,
         at' \in [Workers -> Places], \A d \in Workers : d # c => at'[d] = at[d],
         at'[c] \in {"enter", "last", "idle"},
         lapsed' = lapsed \ {c},
         \A k \in Keys : /\ lease[k] \ {c} \subseteq lease'[k]
                         /\ unit[k] \ {c} \subseteq unit'[k]
  PROVE  Held'
  <1>1. \A d \in Workers : FirstKey(d)' = FirstKey(d) /\ SecondKey(d)' = SecondKey(d)
    BY Zenon DEF FirstKey, SecondKey
  <1>2. ~Holding(c)' /\ at'[c] # "half"
    BY DEF Holding
  <1> SUFFICES ASSUME NEW d \in Workers, d \notin lapsed, d # c PROVE HeldBy(d)'
    BY <1>2, Zenon DEF Held, HeldBy
  <1>3. HeldBy(d) /\ FirstKey(d) \in Keys /\ SecondKey(d) \in Keys
    BY KeysIn, Zenon DEF Held
  <1>4. \A k \in Keys : Has(d, k) => Has(d, k)'
    BY DEF Has
  <1>5. (Holding(d)' <=> Holding(d)) /\ at'[d] = at[d]
    BY DEF Holding
  <1> QED
    BY <1>1, <1>3, <1>4, <1>5, Zenon DEF HeldBy

\* A slot more for one worker.
LEMMA HoldHas ==
  ASSUME SlotKinds, NEW c \in Workers, NEW k \in Keys, Hold(c, k)
  PROVE  Has(c, k)' /\ \A d \in Workers, j \in Keys : Has(d, j) => Has(d, j)'
  <1>1. /\ lease \in [Keys -> SUBSET Workers] /\ unit \in [Keys -> SUBSET Workers]
    BY DEF SlotKinds
  <1>2. CASE store = "redis"
    BY <1>1, <1>2 DEF Hold, Has
  <1>3. CASE store # "redis"
    BY <1>1, <1>3 DEF Hold, Has
  <1> QED
    BY <1>2, <1>3

LEMMA HeldStep == ASSUME Sized, Kinds, WriterKept, Held, CallsNext PROVE Held'
  <1>1. /\ at \in [Workers -> Places] /\ at' \in [Workers -> Places] /\ SlotKinds
        /\ then \in [Workers -> {"idle", "closing", "backoff", "sent"}]
        /\ \A c \in Workers : RunOf[c] \in Runs
    BY PlaceKindsStep DEF Kinds, PlaceKinds, Sized
  <1>2. ASSUME NEW c \in Workers, UNCHANGED <<slots, store>>,
               \A d \in Workers : d # c => at'[d] = at[d] /\ then'[d] = then[d],
               Holding(c)' => Holding(c), at'[c] # "half"
        PROVE  Held'
    <2>1. \A d \in Workers : /\ Holding(d)' => Holding(d)
                             /\ at'[d] = "half" => at[d] = "half"
      BY <1>2, Zenon DEF Holding
    <2> QED
      BY <1>2, <2>1, HeldQuiet
  <1>3. ASSUME NEW c \in Workers,
               Begin(c) \/ Finish(c) \/ Refused(c) \/ RetryRefused(c) \/ Again(c) \/ Send(c)
        PROVE  Held'
    <2>1. UNCHANGED <<slots, store>>
      BY <1>3, Zenon DEF Begin, Finish, Refused, RetryRefused, Again, Send, env
    <2>2. /\ \A d \in Workers : d # c => at'[d] = at[d] /\ then'[d] = then[d]
          /\ Holding(c)' => Holding(c)
          /\ at'[c] # "half"
      BY <1>1, <1>3 DEF Begin, Finish, Refused, RetryRefused, Again, Send, Goto, Publish, Holding
    <2> QED
      BY <1>2, <2>1, <2>2
  <1>4. ASSUME NEW c \in Workers, Answer(c) \/ Fail(c) \/ Retry(c) PROVE Held'
    <2>1. UNCHANGED <<slots, store>>
      BY <1>4, Zenon DEF Answer, Fail, Retry, env
    <2>2. at[c] \in {"sent", "backoff"} /\ \E q : at' = [at EXCEPT ![c] = "publish"] /\ then' = [then EXCEPT ![c] = q]
      BY <1>4, Zenon DEF Answer, Fail, Retry, Publish, Goto
    <2>3. Holding(c)
      BY <2>2 DEF Holding
    <2>4. \A d \in Workers : d # c => at'[d] = at[d] /\ then'[d] = then[d]
      BY <1>1, <2>2
    <2>5. at'[c] # "half"
      BY <1>1, <2>2
    <2> QED
      BY <1>2, <2>1, <2>3, <2>4, <2>5
  <1>5. ASSUME NEW c \in Workers, StartWrite(c) PROVE Held'
    BY <1>5, HeldQuiet, Zenon DEF StartWrite, place, env, Holding
  <1>6. ASSUME NEW c \in Workers, EndWrite(c) PROVE Held'
    <2>1. UNCHANGED <<slots, store>>
      BY <1>6, Zenon DEF EndWrite, env
    <2>2. at[c] \in {"publish", "last"}
      BY <1>1, <1>6, UsageType DEF EndWrite, WriterKept, WriterAt, Sized
    <2>3. /\ at' = [at EXCEPT ![c] = IF at[c] = "last" THEN "out" ELSE then[c]]
          /\ then' = [then EXCEPT ![c] = "idle"]
      BY <1>6, Zenon DEF EndWrite, Goto
    <2>4. /\ \A d \in Workers : d # c => at'[d] = at[d] /\ then'[d] = then[d]
          /\ at'[c] # "half"
      BY <1>1, <2>3
    <2>5. Holding(c)' => Holding(c)
      BY <1>1, <2>2, <2>3 DEF Holding
    <2> QED
      BY <1>2, <2>1, <2>4, <2>5
  <1>7. ASSUME NEW c \in Workers, Interrupt(c) PROVE Held'
    <2>1. UNCHANGED <<slots, store>>
      BY <1>7, Zenon DEF Interrupt
    <2>2. \E p \in {"publish", "last", "closing"}, q \in {"closing", "idle"} :
            /\ at' = [at EXCEPT ![c] = p]
            /\ then' = [then EXCEPT ![c] = q] \/ (then' = then /\ p = "last")
      BY <1>7, Zenon DEF Interrupt, Publish, Goto
    <2>3. /\ \A d \in Workers : d # c => at'[d] = at[d] /\ then'[d] = then[d]
          /\ at'[c] # "half" /\ ~Holding(c)'
      BY <1>1, <2>2 DEF Holding
    <2> QED
      BY <1>2, <2>1, <2>3
  <1>8. ASSUME NEW c \in Workers, GiveBack(c) \/ Deadline(c) \/ Close(c) \/ Unavailable(c)
        PROVE  Held'
    <2>1. /\ UNCHANGED <<store, then>> /\ lapsed' = lapsed \ {c}
          /\ lease' = [k \in Keys |-> lease[k] \ {c}]
          /\ unit' = unit \/ unit' = [k \in Keys |-> unit[k] \ {c}]
          /\ \E p \in {"enter", "last", ret[c]} : at' = [at EXCEPT ![c] = p]
      BY <1>8, Zenon DEF GiveBack, Deadline, Close, Unavailable, DropSlots, Goto, env
    <2>2. ret[c] \in {"idle", "last"}
      BY DEF Kinds, PlaceKinds
    <2>3. /\ \A d \in Workers : d # c => at'[d] = at[d]
          /\ at'[c] \in {"enter", "last", "idle"}
      BY <1>1, <2>1, <2>2
    <2>4. \A k \in Keys : /\ lease[k] \ {c} \subseteq lease'[k]
                          /\ unit[k] \ {c} \subseteq unit'[k]
      BY <2>1
    <2> QED
      BY <1>1, <2>1, <2>3, <2>4, HeldDrop
  <1>9. ASSUME NEW c \in Workers, NEW k \in Keys, Hold(c, k),
               UNCHANGED <<store, then, lapsed>>,
               \/ at' = [at EXCEPT ![c] = "half"] /\ k = FirstKey(c)
               \/ at[c] = "half" /\ at' = [at EXCEPT ![c] = "slot"] /\ k = SecondKey(c)
        PROVE  Held'
    <2>1. Has(c, k)' /\ \A d \in Workers, j \in Keys : Has(d, j) => Has(d, j)'
      BY <1>1, <1>9, HoldHas
    <2>2. \A d \in Workers : FirstKey(d)' = FirstKey(d) /\ SecondKey(d)' = SecondKey(d)
      BY <1>9, Zenon DEF FirstKey, SecondKey
    <2> SUFFICES ASSUME NEW d \in Workers \ lapsed PROVE HeldBy(d)'
      BY <1>9, Zenon DEF Held
    <2>3. HeldBy(d) /\ FirstKey(d) \in Keys /\ SecondKey(d) \in Keys
      BY KeysIn, Zenon DEF Held
    <2>4. CASE d # c
      <3>1. at'[d] = at[d] /\ then'[d] = then[d]
        BY <1>1, <1>9, <2>4
      <3> QED
        BY <2>1, <2>2, <2>3, <3>1, Zenon DEF HeldBy, Holding
    <2>5. CASE d = c /\ k = FirstKey(c) /\ at' = [at EXCEPT ![c] = "half"]
      <3>1. at'[c] = "half" /\ ~Holding(c)'
        BY <1>1, <2>5 DEF Holding
      <3> QED
        BY <2>1, <2>2, <2>5, <3>1, Zenon DEF HeldBy
    <2>6. CASE d = c /\ k = SecondKey(c) /\ at[c] = "half" /\ at' = [at EXCEPT ![c] = "slot"]
      <3>1. at'[c] # "half" /\ Has(c, FirstKey(c))
        BY <1>1, <2>3, <2>6 DEF HeldBy
      <3> QED
        BY <2>1, <2>2, <2>3, <2>6, <3>1, Zenon DEF HeldBy
    <2> QED
      BY <1>9, <2>4, <2>5, <2>6, Zenon
  <1>10. ASSUME NEW c \in Workers, TakeFirst(c) \/ TakeSecond(c) PROVE Held'
    BY <1>9, <1>10, KeysIn, Zenon DEF TakeFirst, TakeSecond, Goto, env
  <1>11. ASSUME NEW c \in Workers, Lapse(c) PROVE Held'
    <2>1. /\ UNCHANGED <<store, at, then, unit>> /\ lapsed' = lapsed \cup {c}
          /\ lease' = [k \in Keys |-> lease[k] \ {c}]
      BY <1>11, Zenon DEF Lapse, place
    <2>2. \A d \in Workers : FirstKey(d)' = FirstKey(d) /\ SecondKey(d)' = SecondKey(d)
      BY <2>1, Zenon DEF FirstKey, SecondKey
    <2> SUFFICES ASSUME NEW d \in Workers \ lapsed, d # c PROVE HeldBy(d)'
      BY <2>1 DEF Held
    <2>3. HeldBy(d) /\ FirstKey(d) \in Keys /\ SecondKey(d) \in Keys
      BY KeysIn, Zenon DEF Held
    <2>4. \A k \in Keys : Has(d, k) => Has(d, k)'
      BY <2>1 DEF Has
    <2> QED
      BY <2>1, <2>2, <2>3, <2>4, Zenon DEF HeldBy, Holding
  <1>12. ASSUME NEW k \in Keys, Expire(k) PROVE Held'
    <2>1. UNCHANGED <<store, at, then, lease, unit, lapsed>>
      BY <1>12, Zenon DEF Expire, place, env
    <2> QED
      BY <2>1, Zenon DEF Held, HeldBy, Has, Holding, FirstKey, SecondKey
  <1>13. ASSUME NEW r \in Runs, Die(r) PROVE Held'
    <2>1. /\ store' = store /\ lapsed' = lapsed \ Mine(r)
          /\ lease' = [k \in Keys |-> lease[k] \ Mine(r)]
          /\ unit' = [k \in Keys |-> unit[k] \ Mine(r)]
          /\ at' = [c \in Workers |-> IF c \in Mine(r) /\ at[c] # "out" THEN "dead" ELSE at[c]]
          /\ then' = then
      BY <1>13, Zenon DEF Die
    <2>2. \A d \in Workers : FirstKey(d)' = FirstKey(d) /\ SecondKey(d)' = SecondKey(d)
      BY <2>1, Zenon DEF FirstKey, SecondKey
    <2> SUFFICES ASSUME NEW d \in Workers, d \notin lapsed' PROVE HeldBy(d)'
      BY Zenon DEF Held
    <2>3. FirstKey(d) \in Keys /\ SecondKey(d) \in Keys
      BY KeysIn
    <2>4. CASE d \in Mine(r)
      BY <2>1, <2>4 DEF HeldBy, Holding
    <2>5. CASE d \notin Mine(r)
      <3>1. HeldBy(d)
        BY <2>1, <2>5 DEF Held
      <3>2. \A k \in Keys : Has(d, k) => Has(d, k)'
        BY <2>1, <2>5 DEF Has
      <3>3. at'[d] = at[d] /\ then'[d] = then[d]
        BY <2>1, <2>5
      <3> QED
        BY <2>2, <2>3, <3>1, <3>2, <3>3, Zenon DEF HeldBy, Holding
    <2> QED
      BY <2>4, <2>5
  <1> QED
    BY <1>3, <1>4, <1>5, <1>6, <1>7, <1>8, <1>10, <1>11, <1>12, <1>13, Zenon DEF CallsNext, Step

\* How many slots a step can leave in use.
LEMMA Counted ==
  ASSUME NEW A, IsFiniteSet(A), NEW S, NEW c
  PROVE  /\ Cardinality(A) \in Nat /\ Cardinality(A \ S) \in Nat /\ Cardinality(A \cap S) \in Nat
         /\ Cardinality(A \ S) <= Cardinality(A)
         /\ Cardinality(A \cap S) + Cardinality(A \ S) = Cardinality(A)
         /\ Cardinality(A \cup {c}) \in Nat /\ Cardinality(A \cup {c}) <= Cardinality(A) + 1
  <1>1. A \ S \in SUBSET A /\ A \cap S \in SUBSET A
    OBVIOUS
  <1>2. IsFiniteSet(A \ S) /\ IsFiniteSet(A \cap S) /\ Cardinality(A \ S) <= Cardinality(A)
    BY <1>1, FS_Subset
  <1>3. /\ IsFiniteSet(A \cup {c})
        /\ Cardinality(A \cup {c}) = IF c \in A THEN Cardinality(A) ELSE Cardinality(A) + 1
    BY FS_AddElement, Zenon
  <1>4. /\ Cardinality(A) \in Nat /\ Cardinality(A \ S) \in Nat /\ Cardinality(A \cap S) \in Nat
        /\ Cardinality(A \cup {c}) \in Nat
    BY <1>2, <1>3, FS_CardinalityType
  <1>5. Cardinality(A \ S) = Cardinality(A) - Cardinality(A \cap S)
    BY FS_Difference
  <1>6. Cardinality(A \cup {c}) <= Cardinality(A) + 1
    BY <1>3, <1>4
  <1> QED
    BY <1>2, <1>4, <1>5, <1>6

LEMMA Slotted ==
  ASSUME Sized, SlotKinds, NEW k \in Keys
  PROVE  Limit(k) \in Nat /\ orphan[k] \in Nat /\ IsFiniteSet(lease[k]) /\ IsFiniteSet(unit[k])
  <1>1. Limit(k) \in Nat
    BY DEF Sized, Limit
  <1>2. lease[k] \in SUBSET Workers /\ unit[k] \in SUBSET Workers /\ orphan[k] \in Nat
    BY DEF SlotKinds
  <1>3. IsFiniteSet(Workers)
    BY DEF Sized
  <1>4. IsFiniteSet(lease[k]) /\ IsFiniteSet(unit[k])
    BY <1>2, <1>3, FS_Subset
  <1> QED
    BY <1>1, <1>2, <1>4

LEMMA RoomTake ==
  ASSUME Sized, SlotKinds, Room, NEW c \in Workers, NEW j \in Keys, Free(j), Hold(c, j),
         UNCHANGED <<store, orphan>>
  PROVE  Room'
  <1>1. lease \in [Keys -> SUBSET Workers] /\ unit \in [Keys -> SUBSET Workers]
    BY DEF SlotKinds
  <1> SUFFICES ASSUME NEW k \in Keys PROVE RoomAt(k)'
    BY DEF Room
  <1>2. RoomAt(k)
    BY DEF Room
  <1>3. Limit(k) \in Nat /\ orphan[k] \in Nat
    BY Slotted, Zenon
  <1>4. /\ Cardinality(lease[k]) \in Nat /\ Cardinality(unit[k]) \in Nat
        /\ Cardinality(lease[k] \cup {c}) \in Nat /\ Cardinality(unit[k] \cup {c}) \in Nat
        /\ Cardinality(lease[k] \cup {c}) <= Cardinality(lease[k]) + 1
        /\ Cardinality(unit[k] \cup {c}) <= Cardinality(unit[k]) + 1
    BY Slotted, Counted, Zenon
  <1>5. CASE store = "redis"
    <2>1. unit'[k] = {} /\ Cardinality(lease[k]) + orphan[k] <= Limit(k)
      BY <1>2, <1>5 DEF RoomAt, Hold
    <2>2. lease'[k] = IF k = j THEN lease[k] \cup {c} ELSE lease[k]
      BY <1>1, <1>5 DEF Hold
    <2>3. k = j => Cardinality(lease[k]) + orphan[k] < Limit(k)
      BY <1>5 DEF Free
    <2>4. Cardinality(lease'[k]) + orphan[k] <= Limit(k)
      BY <1>3, <1>4, <2>1, <2>2, <2>3
    <2> QED
      BY <1>5, <2>1, <2>4 DEF RoomAt, Limit
  <1>6. CASE store # "redis"
    <2>1. lease'[k] = {} /\ Cardinality(unit[k]) <= Limit(k)
      BY <1>2, <1>6 DEF RoomAt, Hold
    <2>2. unit'[k] = IF k = j THEN unit[k] \cup {c} ELSE unit[k]
      BY <1>1, <1>6 DEF Hold
    <2>3. k = j => Cardinality(unit[k]) < Limit(k)
      BY <1>6 DEF Free
    <2>4. Cardinality(unit'[k]) <= Limit(k)
      BY <1>3, <1>4, <2>1, <2>2, <2>3
    <2> QED
      BY <1>6, <2>1, <2>4 DEF RoomAt, Limit
  <1> QED
    BY <1>5, <1>6

\* Slots that go back: a crash leaves its leases to nobody, and what is lost
\* in an answer of Redis was free.
LEMMA RoomGive ==
  ASSUME Sized, SlotKinds, Room, NEW S, store' = store,
         \A k \in Keys : /\ lease'[k] \in {lease[k], lease[k] \ S}
                         /\ unit'[k] \in {unit[k], unit[k] \ S}
                         /\ \/ orphan'[k] = orphan[k]
                            \/ orphan'[k] \in Nat /\ orphan'[k] < orphan[k]
                            \/ orphan'[k] = orphan[k] + 1 /\ Free(k) /\ store = "redis"
                            \/ /\ orphan'[k] = orphan[k] + Cardinality(lease[k] \cap S)
                               /\ lease'[k] = lease[k] \ S
  PROVE  Room'
  <1> SUFFICES ASSUME NEW k \in Keys PROVE RoomAt(k)'
    BY DEF Room
  <1>1. RoomAt(k)
    BY DEF Room
  <1> DEFINE in == Cardinality(lease[k])
             out == Cardinality(lease[k] \ S)
             both == Cardinality(lease[k] \cap S)
  <1>2. Limit(k) \in Nat /\ orphan[k] \in Nat
    BY Slotted, Zenon
  <1>3. /\ Cardinality(lease[k]) \in Nat /\ Cardinality(unit[k]) \in Nat
        /\ Cardinality(lease[k] \ S) \in Nat /\ Cardinality(unit[k] \ S) \in Nat
        /\ Cardinality(lease[k] \cap S) \in Nat
        /\ Cardinality(lease[k] \ S) <= Cardinality(lease[k])
        /\ Cardinality(unit[k] \ S) <= Cardinality(unit[k])
        /\ Cardinality(lease[k] \cap S) + Cardinality(lease[k] \ S) = Cardinality(lease[k])
    BY Slotted, Counted, Zenon
  <1>4. CASE store = "redis"
    <2>1. unit[k] = {} /\ Cardinality(lease[k]) + orphan[k] <= Limit(k)
      BY <1>1, <1>4 DEF RoomAt
    <2>2. unit'[k] = {}
      BY <2>1
    <2>3. Free(k) => Cardinality(lease[k]) + orphan[k] < Limit(k)
      BY <1>4 DEF Free
    <2>4. Cardinality(lease'[k]) + orphan'[k] <= Limit(k)
      <3>1. Cardinality(lease'[k]) \in {in, out}
        OBVIOUS
      <3>2. \/ orphan'[k] = orphan[k]
            \/ orphan'[k] \in Nat /\ orphan'[k] < orphan[k]
            \/ orphan'[k] = orphan[k] + 1 /\ in + orphan[k] < Limit(k)
            \/ orphan'[k] = orphan[k] + both /\ Cardinality(lease'[k]) = out
        BY <2>3, Zenon
      <3>3. in \in Nat /\ out \in Nat /\ both \in Nat /\ out <= in /\ both + out = in
        BY <1>3
      <3>4. in + orphan[k] <= Limit(k)
        BY <2>1
      <3> HIDE DEF in, out, both
      <3> QED
        BY <1>2, <3>1, <3>2, <3>3, <3>4
    <2> QED
      BY <1>4, <2>2, <2>4 DEF RoomAt, Limit
  <1>5. CASE store # "redis"
    <2>1. lease[k] = {} /\ Cardinality(unit[k]) <= Limit(k)
      BY <1>1, <1>5 DEF RoomAt
    <2>2. lease'[k] = {}
      BY <2>1
    <2>3. Cardinality(unit'[k]) <= Limit(k)
      <3>1. Cardinality(unit'[k]) \in {Cardinality(unit[k]), Cardinality(unit[k] \ S)}
        OBVIOUS
      <3> QED
        BY <1>2, <1>3, <2>1, <3>1
    <2> QED
      BY <1>5, <2>2, <2>3 DEF RoomAt, Limit
  <1> QED
    BY <1>4, <1>5

LEMMA RoomStep == ASSUME Sized, Kinds, Room, CallsNext PROVE Room'
  <1>1. /\ SlotKinds /\ orphan \in [Keys -> Nat]
    BY DEF Kinds, SlotKinds
  <1>2. ASSUME NEW c \in Workers, TakeFirst(c) \/ TakeSecond(c) PROVE Room'
    BY <1>1, <1>2, KeysIn, RoomTake, Zenon DEF TakeFirst, TakeSecond, env
  <1>3. ASSUME NEW c \in Workers, GiveBack(c) \/ Deadline(c) \/ Close(c) PROVE Room'
    <2>1. DropSlots(c) /\ store' = store
      BY <1>3, Zenon DEF GiveBack, Deadline, Close, env
    <2>2. \A k \in Keys : /\ lease'[k] = lease[k] \ {c} /\ unit'[k] = unit[k] \ {c}
                          /\ orphan'[k] = orphan[k]
      BY <2>1 DEF DropSlots
    <2> QED
      BY <1>1, <2>1, <2>2, RoomGive
  <1>4. ASSUME NEW c \in Workers, Unavailable(c) PROVE Room'
    <2>1. store' = store /\ store = "redis" /\ unit' = unit
      BY <1>4, Zenon DEF Unavailable
    <2>2. \A k \in Keys : lease'[k] = lease[k] \ {c}
      BY <1>4 DEF Unavailable
    <2>3. \A k \in Keys : orphan'[k] = orphan[k] \/ (orphan'[k] = orphan[k] + 1 /\ Free(k))
      BY <1>1, <1>4 DEF Unavailable
    <2> QED
      BY <1>1, <2>1, <2>2, <2>3, RoomGive
  <1>5. ASSUME NEW c \in Workers, Lapse(c) PROVE Room'
    <2>1. UNCHANGED <<store, unit, orphan>>
      BY <1>5, Zenon DEF Lapse
    <2>2. \A k \in Keys : lease'[k] = lease[k] \ {c}
      BY <1>5 DEF Lapse
    <2> QED
      BY <1>1, <2>1, <2>2, RoomGive
  <1>6. ASSUME NEW j \in Keys, Expire(j) PROVE Room'
    <2>1. UNCHANGED <<store, lease, unit>>
      BY <1>6, Zenon DEF Expire, env
    <2>2. \A k \in Keys : orphan'[k] = orphan[k] \/ (orphan'[k] \in Nat /\ orphan'[k] < orphan[k])
      BY <1>1, <1>6 DEF Expire
    <2> QED
      BY <1>1, <2>1, <2>2, RoomGive
  <1>7. ASSUME NEW r \in Runs, Die(r) PROVE Room'
    <2>1. store' = store
      BY <1>7, Zenon DEF Die
    <2>2. \A k \in Keys : /\ lease'[k] = lease[k] \ Mine(r) /\ unit'[k] = unit[k] \ Mine(r)
                          /\ orphan'[k] = orphan[k] + Cardinality(lease[k] \cap Mine(r))
      BY <1>7 DEF Die
    <2> QED
      BY <1>1, <2>1, <2>2, RoomGive
  <1>8. ASSUME NEW c \in Workers,
               \/ Begin(c) \/ Finish(c) \/ Again(c) \/ Send(c) \/ Refused(c) \/ Answer(c) \/ Fail(c)
               \/ Retry(c) \/ RetryRefused(c) \/ StartWrite(c) \/ EndWrite(c) \/ Interrupt(c)
        PROVE  Room'
    <2>1. UNCHANGED <<slots, store>>
      BY <1>8, Zenon DEF Begin, Finish, Again, Send, Refused, Answer, Fail, Retry, RetryRefused,
         StartWrite, EndWrite, Interrupt, env
    <2> QED
      BY <2>1, Zenon DEF slots, Room, RoomAt, Limit
  <1> QED
    BY <1>2, <1>3, <1>4, <1>5, <1>6, <1>7, <1>8, Zenon DEF CallsNext, Step

-----------------------------------------------------------------------------
(* What the requests stand on, whatever store the slots are kept in.       *)

SlotInv == Kinds /\ WriterKept /\ Held /\ Room

LEMMA InitSlots == ASSUME Sized, CallsInit PROVE SlotInv
  <1>1. Kinds
    BY InitKinds
  <1>2. WriterKept
    BY DEF CallsInit, WriterKept, WriterAt
  <1>3. Held
    BY DEF CallsInit, Held, HeldBy, Holding
  <1>4. Room
    BY FS_EmptySet DEF Sized, CallsInit, Room, RoomAt, Limit
  <1> QED
    BY <1>1, <1>2, <1>3, <1>4 DEF SlotInv

LEMMA SlotInvStep == ASSUME Sized, SlotInv, [CallsNext]_callVars PROVE SlotInv'
  <1>1. CASE CallsNext
    BY <1>1, KindsStep, WriterKeptStep, HeldStep, RoomStep, Zenon DEF SlotInv
  <1>2. CASE UNCHANGED callVars
    <2>1. Kinds'
      BY <1>2, KindsStep, Zenon DEF SlotInv
    <2>2. UNCHANGED <<store, at, then, lease, orphan, unit, lapsed, writer>>
      BY <1>2, Zenon DEF callVars, place, slots, rows, env
    <2>3. WriterKept' /\ Held'
      BY <2>2, Zenon DEF SlotInv, WriterKept, WriterAt, Held, HeldBy, Holding, Has, FirstKey, SecondKey
    <2>4. Room'
      BY <2>2, Zenon DEF SlotInv, Room, RoomAt, Limit
    <2> QED
      BY <2>1, <2>3, <2>4 DEF SlotInv
  <1> QED
    BY <1>1, <1>2

\* A request at a provider, a retry included, holds a slot of the provider
\* and one of its actor unless Redis lost the lease, and no more slots are in
\* use than the limits allow: limits.py over RedisConcurrencyLimiter and over
\* the semaphores of the process.
THEOREM CallsHoldSlots == ASSUME Sized PROVE CallsSpec => []SlotPerRequest
  <1>1. SlotInv => SlotPerRequest
    <2> SUFFICES ASSUME SlotInv PROVE SlotPerRequest
      OBVIOUS
    <2>1. ASSUME NEW c \in Workers \ lapsed, at[c] = "sent", NEW k \in KeysOf(c)
          PROVE  c \in lease[k] \cup unit[k]
      <3>1. HeldBy(c) /\ Holding(c)
        BY <2>1 DEF SlotInv, Held, Holding
      <3> QED
        BY <2>1, <3>1, KeysIn DEF HeldBy, Has
    <2>2. ASSUME NEW k \in Keys PROVE Cardinality(lease[k] \cup unit[k]) <= Limit(k)
      <3>1. RoomAt(k) /\ SlotKinds
        BY DEF SlotInv, Room, Kinds
      <3>2. CASE store = "redis"
        <4>1. lease[k] \cup unit[k] = lease[k] /\ Cardinality(lease[k]) + orphan[k] <= Limit(k)
          BY <3>1, <3>2 DEF RoomAt
        <4>2. /\ Limit(k) \in Nat /\ orphan[k] \in Nat /\ Cardinality(lease[k]) \in Nat
          BY <3>1, Slotted, FS_CardinalityType
        <4>3. Cardinality(lease[k]) <= Limit(k)
          BY <4>1, <4>2
        <4> QED
          BY <4>1, <4>3, Zenon
      <3>3. CASE store # "redis"
        <4>1. lease[k] \cup unit[k] = unit[k] /\ Cardinality(unit[k]) <= Limit(k)
          BY <3>1, <3>3 DEF RoomAt
        <4> QED
          BY <4>1
      <3> QED
        BY <3>2, <3>3
    <2> QED
      BY <2>1, <2>2, Zenon DEF SlotPerRequest
  <1> QED
    BY <1>1, InitSlots, SlotInvStep, PTL DEF CallsSpec

-----------------------------------------------------------------------------
(* The books of one run: its ledger L, its row R, the snapshot W on its    *)
(* way to the row, the n requests sent, the x tokens reported in excess,   *)
(* the workers U whose last change is not yet in the row, and those among  *)
(* them, P, whose request waits for its write.                             *)

Within(u, x) == u.used + u.reserved <= MaxTokens + x /\ u.requests <= MaxRequests
Upto(u, v) == u.used <= v.used /\ u.requests <= v.requests /\ u.retries <= v.retries

Balanced(L, R, W, n, x, U, P) ==
  /\ Within(L, x) /\ Within(R, x) /\ Upto(R, L)
  /\ n + Cardinality(P) <= L.requests
  /\ n <= R.requests + Cardinality(U)
  /\ W = Idle => R = L \/ U # {}
  /\ W # Idle =>
       /\ W.who \in U /\ Within(W.usage, x) /\ Upto(R, W.usage) /\ Upto(W.usage, L)
       /\ n <= W.usage.requests + Cardinality(U \ {W.who})
       /\ W.usage = L \/ U \ {W.who} # {}

LEMMA UsageFields == ASSUME NEW u \in Usage
                     PROVE  /\ u.used \in Nat /\ u.reserved \in Nat /\ u.requests \in Nat
                            /\ u.retries \in Nat
  BY DEF Usage

LEMMA UsageSame == ASSUME NEW u \in Usage, NEW v \in Usage, u.used = v.used,
                          u.reserved = v.reserved, u.requests = v.requests, u.retries = v.retries
                   PROVE  u = v
  BY DEF Usage

\* A snapshot is never behind the row, so the row becomes the snapshot.
LEMMA MergeNewer == ASSUME NEW u \in Usage, NEW v \in Usage, Upto(u, v) PROVE Merge(u, v) = v
  <1>1. /\ Merge(u, v) \in Usage /\ Merge(u, v).reserved = v.reserved
        /\ Merge(u, v).used = Max2(u.used, v.used)
        /\ Merge(u, v).requests = Max2(u.requests, v.requests)
        /\ Merge(u, v).retries = Max2(u.retries, v.retries)
    BY MergeType, Zenon
  <1>2. /\ Max2(u.used, v.used) = v.used /\ Max2(u.requests, v.requests) = v.requests
        /\ Max2(u.retries, v.retries) = v.retries
    BY UsageFields DEF Max2, Upto
  <1> QED
    BY <1>1, <1>2, UsageSame, Zenon

\* One worker more or less in a set.
LEMMA SetSizes == ASSUME NEW U, IsFiniteSet(U), NEW V, IsFiniteSet(V)
                    PROVE  /\ Cardinality(U) \in Nat
                           /\ U \subseteq V => Cardinality(U) <= Cardinality(V)
                           /\ \A c : IsFiniteSet(U \ {c}) /\ IsFiniteSet(U \cup {c})
                           /\ \A c : c \notin U => Cardinality(U \cup {c}) = Cardinality(U) + 1
                           /\ \A c : c \in U => Cardinality(U \ {c}) = Cardinality(U) - 1
  <1>1. U \subseteq V => Cardinality(U) <= Cardinality(V)
    BY FS_Subset
  <1>2. \A c : c \notin U => Cardinality(U \cup {c}) = Cardinality(U) + 1
    BY FS_AddElement, Zenon
  <1>3. \A c : c \in U => Cardinality(U \ {c}) = Cardinality(U) - 1
    BY FS_RemoveElement, Zenon
  <1>4. \A c : IsFiniteSet(U \ {c}) /\ IsFiniteSet(U \cup {c})
    BY FS_AddElement, FS_RemoveElement, Zenon
  <1> QED
    BY <1>1, <1>2, <1>3, <1>4, FS_CardinalityType

\* A change of the ledger by a worker that is, or becomes, unsaved; it may
\* be one more request, counted at once or when its write is done.
LEMMA LedgerBalanced ==
  ASSUME Sized, NEW L \in Usage, NEW R \in Usage, NEW W \in Writing, NEW n \in Nat, NEW x \in Nat,
         NEW U, IsFiniteSet(U), NEW P, Balanced(L, R, W, n, x, U, P),
         NEW M \in Usage, NEW m \in Nat, NEW y \in Nat, NEW V, IsFiniteSet(V), NEW Q,
         Upto(L, M), Within(M, y), y >= x, m + Cardinality(Q) <= M.requests,
         NEW c, c \in V, W # Idle => c # W.who,
         (m = n /\ U \subseteq V) \/ (m = n + 1 /\ c \notin U /\ V = U \cup {c})
  PROVE  Balanced(M, R, W, m, y, V, Q)
  <1>1. /\ MaxTokens \in Nat /\ MaxRequests \in Nat
    BY DEF Sized
  <1>2. /\ R.used \in Nat /\ R.reserved \in Nat /\ R.requests \in Nat /\ R.retries \in Nat
        /\ L.used \in Nat /\ L.reserved \in Nat /\ L.requests \in Nat /\ L.retries \in Nat
        /\ M.used \in Nat /\ M.reserved \in Nat /\ M.requests \in Nat /\ M.retries \in Nat
    BY UsageFields, Zenon
  <1>3. W.usage \in Usage
    BY DEF Writing
  <1>4. /\ W.usage.used \in Nat /\ W.usage.reserved \in Nat /\ W.usage.requests \in Nat
        /\ W.usage.retries \in Nat
    BY <1>3, UsageFields, Zenon
  <1>5. Within(R, y) /\ Upto(R, M)
    BY <1>1, <1>2 DEF Balanced, Within, Upto
  <1>6. Cardinality(U) \in Nat /\ Cardinality(V) \in Nat /\ Cardinality(V) + n >= Cardinality(U) + m
    <2>1. CASE m = n /\ U \subseteq V
      BY <2>1, SetSizes
    <2>2. CASE m = n + 1 /\ c \notin U /\ V = U \cup {c}
      <3>1. Cardinality(V) = Cardinality(U) + 1 /\ Cardinality(U) \in Nat
        BY <2>2, SetSizes, Zenon
      <3> QED
        BY <2>2, <3>1
    <2> QED
      BY <2>1, <2>2
  <1>7. m <= R.requests + Cardinality(V)
    BY <1>2, <1>6 DEF Balanced
  <1>8. ASSUME W # Idle
        PROVE  /\ W.who \in V /\ Within(W.usage, y) /\ Upto(R, W.usage) /\ Upto(W.usage, M)
               /\ m <= W.usage.requests + Cardinality(V \ {W.who})
               /\ V \ {W.who} # {}
    <2>1. /\ W.who \in U /\ Within(W.usage, x) /\ Upto(R, W.usage) /\ Upto(W.usage, L)
          /\ n <= W.usage.requests + Cardinality(U \ {W.who}) /\ c # W.who
      BY <1>8 DEF Balanced
    <2>2. Within(W.usage, y) /\ Upto(W.usage, M)
      BY <1>1, <1>2, <1>4, <2>1 DEF Within, Upto
    <2>3. W.who \in V /\ V \ {W.who} # {}
      BY <2>1
    <2>4. /\ Cardinality(V \ {W.who}) = Cardinality(V) - 1
          /\ Cardinality(U \ {W.who}) = Cardinality(U) - 1
      BY <2>1, <2>3, SetSizes, Zenon
    <2>5. m <= W.usage.requests + Cardinality(V \ {W.who})
      BY <1>4, <1>6, <2>1, <2>4
    <2> QED
      BY <2>1, <2>2, <2>3, <2>5
  <1>9. V # {}
    OBVIOUS
  <1> QED
    BY <1>5, <1>7, <1>8, <1>9, Zenon DEF Balanced

\* A step that only leaves more workers unsaved.
LEMMA GrowBalanced ==
  ASSUME NEW L \in Usage, NEW R \in Usage, NEW W \in Writing, NEW n \in Nat, NEW x \in Nat,
         NEW U, IsFiniteSet(U), NEW P, Balanced(L, R, W, n, x, U, P),
         NEW V, IsFiniteSet(V), U \subseteq V
  PROVE  Balanced(L, R, W, n, x, V, P)
  <1>1. Cardinality(U) \in Nat /\ Cardinality(V) \in Nat /\ Cardinality(U) <= Cardinality(V)
    BY SetSizes
  <1>2. R.requests \in Nat
    BY UsageFields
  <1>3. n <= R.requests + Cardinality(V)
    BY <1>1, <1>2 DEF Balanced
  <1>4. W = Idle => R = L \/ V # {}
    BY DEF Balanced
  <1>5. ASSUME W # Idle
        PROVE  /\ W.who \in V
               /\ n <= W.usage.requests + Cardinality(V \ {W.who})
               /\ W.usage = L \/ V \ {W.who} # {}
    <2>1. /\ W.who \in U /\ n <= W.usage.requests + Cardinality(U \ {W.who})
          /\ W.usage = L \/ U \ {W.who} # {}
      BY <1>5 DEF Balanced
    <2>2. W.who \in V /\ (W.usage = L \/ V \ {W.who} # {})
      BY <2>1
    <2>3. /\ Cardinality(V \ {W.who}) = Cardinality(V) - 1
          /\ Cardinality(U \ {W.who}) = Cardinality(U) - 1
      BY <2>1, <2>2, SetSizes, Zenon
    <2>4. W.usage \in Usage
      BY DEF Writing
    <2>5. W.usage.requests \in Nat
      BY <2>4, UsageFields
    <2>6. n <= W.usage.requests + Cardinality(V \ {W.who})
      BY <1>1, <2>1, <2>3, <2>5
    <2> QED
      BY <2>2, <2>6
  <1> QED
    BY <1>3, <1>4, <1>5, Zenon DEF Balanced

\* The snapshot is the ledger of the moment.
LEMMA StartBalanced ==
  ASSUME NEW L \in Usage, NEW R \in Usage, NEW n \in Nat, NEW x \in Nat,
         NEW U, IsFiniteSet(U), NEW P, IsFiniteSet(P),
         Balanced(L, R, Idle, n, x, U, P), NEW c \in U
  PROVE  Balanced(L, R, [who |-> c, usage |-> L], n, x, U, P)
  <1> DEFINE W == [who |-> c, usage |-> L]
  <1>1. W.who = c /\ W.usage = L
    OBVIOUS
  <1>2. Upto(L, L)
    BY UsageFields DEF Upto
  <1>3. IsFiniteSet(U \ {c})
    BY SetSizes, Zenon
  <1>4. Cardinality(P) \in Nat /\ Cardinality(U \ {c}) \in Nat
    BY <1>3, SetSizes
  <1>5. n <= L.requests + Cardinality(U \ {c})
    BY <1>4, UsageFields DEF Balanced
  <1> HIDE DEF W
  <1>6. Balanced(L, R, W, n, x, U, P)
    <2>1. W = Idle => R = L \/ U # {}
      OBVIOUS
    <2> QED
      BY <1>1, <1>2, <1>5, <2>1, Zenon DEF Balanced
  <1> QED
    BY <1>6 DEF W

\* The row after a write that is done, or abandoned by a worker that still
\* has something to save.
LEMMA StopBalanced ==
  ASSUME NEW L \in Usage, NEW R \in Usage, NEW W \in Writing, NEW n \in Nat, NEW x \in Nat,
         NEW U, IsFiniteSet(U), NEW P, Balanced(L, R, W, n, x, U, P),
         W # Idle, NEW S \in {R, Merge(R, W.usage)}
  PROVE  Balanced(L, S, Idle, n, x, U, P)
  <1>1. /\ W.who \in U /\ Within(W.usage, x) /\ Upto(R, W.usage) /\ Upto(W.usage, L)
        /\ n <= W.usage.requests + Cardinality(U \ {W.who})
    BY DEF Balanced
  <1>2. W.usage \in Usage
    BY DEF Writing
  <1>3. S \in {R, W.usage}
    BY <1>1, <1>2, MergeNewer, Zenon
  <1>4. W.usage.requests \in Nat /\ Cardinality(U) \in Nat /\ Cardinality(U \ {W.who}) = Cardinality(U) - 1
    <2>1. Cardinality(U \ {W.who}) = Cardinality(U) - 1
      BY <1>1, SetSizes, Zenon
    <2> QED
      BY <1>2, <2>1, UsageFields, SetSizes
  <1>5. n <= W.usage.requests + Cardinality(U)
    BY <1>1, <1>4
  <1>6. U # {}
    BY <1>1
  <1> QED
    BY <1>1, <1>3, <1>5, <1>6, Zenon DEF Balanced

\* The write is done: its worker is saved, or sends the request it waited
\* with, and the row is the ledger or somebody is still to write.
LEMMA EndBalanced ==
  ASSUME NEW L \in Usage, NEW R \in Usage, NEW W \in Writing, NEW n \in Nat, NEW x \in Nat,
         NEW U, IsFiniteSet(U), NEW P, IsFiniteSet(P),
         Balanced(L, R, W, n, x, U, P), W # Idle,
         NEW m \in Nat, NEW V, IsFiniteSet(V), NEW Q,
         \/ m = n /\ U \ {W.who} \subseteq V /\ V \subseteq U /\ Q = P
         \/ m = n + 1 /\ V = U /\ W.who \in P /\ Q = P \ {W.who}
  PROVE  Balanced(L, Merge(R, W.usage), Idle, m, x, V, Q)
  <1>1. /\ W.who \in U /\ Within(W.usage, x) /\ Upto(R, W.usage) /\ Upto(W.usage, L)
        /\ n <= W.usage.requests + Cardinality(U \ {W.who})
        /\ W.usage = L \/ U \ {W.who} # {}
        /\ Within(L, x) /\ n + Cardinality(P) <= L.requests
    BY DEF Balanced
  <1>2. W.usage \in Usage
    BY DEF Writing
  <1>3. Merge(R, W.usage) = W.usage
    BY <1>1, <1>2, MergeNewer, Zenon
  <1>4. /\ W.usage.requests \in Nat /\ L.requests \in Nat
        /\ Cardinality(U) \in Nat /\ Cardinality(P) \in Nat /\ Cardinality(V) \in Nat
    BY <1>2, UsageFields, SetSizes
  <1>5. Cardinality(U \ {W.who}) = Cardinality(U) - 1
    BY <1>1, SetSizes, Zenon
  <1>6. m + Cardinality(Q) <= L.requests
    <2>1. CASE m = n /\ Q = P
      BY <1>1, <2>1
    <2>2. CASE m = n + 1 /\ W.who \in P /\ Q = P \ {W.who}
      <3>1. Cardinality(Q) = Cardinality(P) - 1
        BY <2>2, SetSizes, Zenon
      <3> QED
        BY <1>1, <1>4, <2>2, <3>1
    <2> QED
      BY <2>1, <2>2
  <1>7. m <= W.usage.requests + Cardinality(V)
    <2>1. CASE m = n /\ U \ {W.who} \subseteq V
      <3>1. IsFiniteSet(U \ {W.who})
        BY SetSizes, Zenon
      <3>2. Cardinality(U \ {W.who}) <= Cardinality(V)
        BY <2>1, <3>1, SetSizes
      <3> QED
        BY <1>1, <1>4, <1>5, <2>1, <3>2
    <2>2. CASE m = n + 1 /\ V = U
      BY <1>1, <1>4, <1>5, <2>2
    <2> QED
      BY <2>1, <2>2
  <1>8. W.usage = L \/ V # {}
    BY <1>1
  <1>9. Balanced(L, W.usage, Idle, m, x, V, Q)
    BY <1>1, <1>6, <1>7, <1>8, Zenon DEF Balanced
  <1> QED
    BY <1>3, <1>9, Zenon

\* The process dies: the write under way is done or not, and nobody goes on.
LEMMA CrashBalanced ==
  ASSUME NEW L \in Usage, NEW R \in Usage, NEW W \in Writing, NEW n \in Nat, NEW x \in Nat,
         NEW U, IsFiniteSet(U), NEW P, IsFiniteSet(P), Balanced(L, R, W, n, x, U, P),
         NEW V, IsFiniteSet(V), U \subseteq V,
         NEW S, S = R \/ (W # Idle /\ S = Merge(R, W.usage))
  PROVE  Balanced(L, S, Idle, n, x, V, {})
  <1>1. Balanced(L, S, Idle, n, x, U, P) /\ S \in Usage
    <2>1. CASE W = Idle
      BY <2>1
    <2>2. CASE W # Idle
      <3>1. W.usage \in Usage
        BY DEF Writing
      <3>2. S \in {R, Merge(R, W.usage)} /\ S \in Usage
        BY <3>1, MergeType
      <3> QED
        BY <2>2, <3>2, StopBalanced
    <2> QED
      BY <2>1, <2>2
  <1>3. Balanced(L, S, Idle, n, x, V, P)
    BY <1>1, UsageType, GrowBalanced
  <1>4. n + Cardinality({}) <= L.requests
    <2>1. Cardinality({}) = 0 /\ Cardinality(P) \in Nat /\ L.requests \in Nat
      BY FS_EmptySet, FS_CardinalityType, UsageFields
    <2>2. n + Cardinality(P) <= L.requests
      BY <1>3 DEF Balanced
    <2> QED
      BY <2>1, <2>2
  <1> QED
    BY <1>3, <1>4, Zenon DEF Balanced

-----------------------------------------------------------------------------
(* The books in a state, and what a step of one worker leaves alone.       *)

Unsaved(c) == at[c] \in {"sent", "publish", "last", "dead"} \/ (at[c] = "closing" /\ ret[c] = "last")
Waiting(c) == at[c] = "publish" /\ then[c] = "sent"
U(r) == {c \in Mine(r) : Unsaved(c)}
P(r) == {c \in Mine(r) : Waiting(c)}

BooksAt(r) == Balanced(ledger[r], column[r], writer[r], sent[r], extra[r], U(r), P(r))

OnlyAt(c) == \A d \in Workers : d # c => at'[d] = at[d] /\ then'[d] = then[d] /\ ret'[d] = ret[d]
Apart(r) == \A q \in Runs : q # r =>
  /\ ledger'[q] = ledger[q] /\ column'[q] = column[q] /\ writer'[q] = writer[q]
  /\ sent'[q] = sent[q] /\ extra'[q] = extra[q]

LEMMA Crew == ASSUME Sized, NEW r \in Runs
              PROVE  /\ IsFiniteSet(Mine(r)) /\ IsFiniteSet(U(r)) /\ IsFiniteSet(P(r))
                     /\ Cardinality(Mine(r)) \in Nat /\ Cardinality(U(r)) <= Cardinality(Mine(r))
                     /\ Cardinality(U(r)) \in Nat
  <1>1. Mine(r) \in SUBSET Workers /\ U(r) \in SUBSET Mine(r) /\ P(r) \in SUBSET Mine(r)
    BY DEF Mine, U, P
  <1>2. IsFiniteSet(Mine(r))
    BY <1>1, FS_Subset DEF Sized
  <1> QED
    BY <1>1, <1>2, FS_Subset, FS_CardinalityType

LEMMA CrewNext == ASSUME Sized, NEW r \in Runs PROVE IsFiniteSet(U(r)') /\ IsFiniteSet(P(r)')
  <1>1. Mine(r) \in SUBSET Workers /\ U(r)' \in SUBSET Mine(r) /\ P(r)' \in SUBSET Mine(r)
    BY DEF Mine, U, P
  <1>2. IsFiniteSet(Mine(r))
    BY <1>1, FS_Subset DEF Sized
  <1> QED
    BY <1>1, <1>2, FS_Subset

LEMMA BookTypes ==
  ASSUME Sized, Kinds, NEW r \in Runs
  PROVE  /\ ledger[r] \in Usage /\ column[r] \in Usage /\ writer[r] \in Writing
         /\ sent[r] \in Nat /\ extra[r] \in Nat
  <1>1. /\ ledger[r] \in Usage /\ column[r] \in Usage /\ writer[r] \in Writing
        /\ sent[r] \in Nat /\ extra[r] \in Nat
    BY Zenon DEF Kinds, BookKinds
  <1> QED
    BY <1>1

\* A step of worker c moves only its own run's sets, and there only itself.
LEMMA SetsAt ==
  ASSUME Sized, NEW c \in Workers, OnlyAt(c), NEW r, r = RunOf[c]
  PROVE  /\ \A q \in Runs : q # r => U(q)' = U(q) /\ P(q)' = P(q)
         /\ U(r)' = IF Unsaved(c)' THEN U(r) \cup {c} ELSE U(r) \ {c}
         /\ P(r)' = IF Waiting(c)' THEN P(r) \cup {c} ELSE P(r) \ {c}
         /\ c \in U(r) <=> Unsaved(c)
         /\ c \in P(r) <=> Waiting(c)
  <1>1. \A d \in Workers : d # c => (Unsaved(d)' <=> Unsaved(d)) /\ (Waiting(d)' <=> Waiting(d))
    BY Zenon DEF OnlyAt, Unsaved, Waiting
  <1>2. c \in Mine(r)
    BY DEF Mine
  <1>3. \A q \in Runs : q # r => c \notin Mine(q)
    BY DEF Mine
  <1>4. ASSUME NEW q \in Runs, q # r PROVE U(q)' = U(q) /\ P(q)' = P(q)
    BY <1>1, <1>3, <1>4 DEF U, P, Mine
  <1>5. /\ U(r)' = IF Unsaved(c)' THEN U(r) \cup {c} ELSE U(r) \ {c}
        /\ P(r)' = IF Waiting(c)' THEN P(r) \cup {c} ELSE P(r) \ {c}
    BY <1>1, <1>2 DEF U, P, Mine
  <1> QED
    BY <1>2, <1>4, <1>5, Zenon DEF U, P

LEMMA BooksApart ==
  ASSUME Sized, NEW c \in Workers, OnlyAt(c), Apart(RunOf[c]), BooksAt(RunOf[c])',
         \A r \in Runs : BooksAt(r)
  PROVE  (\A r \in Runs : BooksAt(r))'
  <1> SUFFICES ASSUME NEW q \in Runs, q # RunOf[c] PROVE BooksAt(q)'
    BY Zenon
  <1>1. U(q)' = U(q) /\ P(q)' = P(q) /\ BooksAt(q)
    BY SetsAt, Zenon
  <1> QED
    BY <1>1, Zenon DEF Apart, BooksAt, Balanced, Within, Upto

-----------------------------------------------------------------------------
(* Only an open attempt has a reservation.                                 *)

OpenAt(c) == at[c] = "sent" \/ Waiting(c)
OpenOnly == \A c \in Workers : est[c] > 0 => OpenAt(c) \/ at[c] = "dead"

LEMMA OpenOnlyStep == ASSUME Sized, Kinds, WriterKept, OpenOnly, CallsNext PROVE OpenOnly'
  <1>1. /\ at \in [Workers -> Places] /\ est \in [Workers -> Nat]
        /\ then \in [Workers -> {"idle", "closing", "backoff", "sent"}]
        /\ \A c \in Workers : RunOf[c] \in Runs
    BY DEF Kinds, PlaceKinds, Sized
  <1>2. ASSUME NEW c \in Workers, \A d \in Workers : d # c => at'[d] = at[d] /\ then'[d] = then[d] /\ est'[d] = est[d],
               est'[c] > 0 => OpenAt(c)'
        PROVE  OpenOnly'
    BY <1>2, Zenon DEF OpenOnly, OpenAt, Waiting
  <1>3. ASSUME NEW c \in Workers,
               \/ Begin(c) \/ Finish(c) \/ GiveBack(c) \/ TakeFirst(c) \/ TakeSecond(c)
               \/ Deadline(c) \/ Unavailable(c) \/ Refused(c) \/ RetryRefused(c) \/ Close(c) \/ Again(c)
        PROVE  OpenOnly'
    <2>1. /\ est' = est /\ at[c] \notin {"sent", "publish", "dead"}
          /\ \E p : at' = [at EXCEPT ![c] = p]
          /\ then' = then \/ then' = [then EXCEPT ![c] = "idle"]
      BY <1>3, Zenon DEF Begin, Finish, GiveBack, TakeFirst, TakeSecond, Deadline, Unavailable,
         Refused, RetryRefused, Close, Again, Publish, Goto
    <2>2. ~(est[c] > 0)
      BY <2>1, Zenon DEF OpenOnly, OpenAt, Waiting
    <2>3. \A d \in Workers : d # c => at'[d] = at[d] /\ then'[d] = then[d] /\ est'[d] = est[d]
      BY <1>1, <2>1
    <2> QED
      BY <1>2, <2>1, <2>2, <2>3, Zenon
  <1>4. ASSUME NEW c \in Workers, Lapse(c) \/ StartWrite(c) PROVE OpenOnly'
    BY <1>4, Zenon DEF Lapse, StartWrite, place, OpenOnly, OpenAt, Waiting
  <1>5. ASSUME NEW c \in Workers, Send(c) PROVE OpenOnly'
    <2>1. /\ at' = [at EXCEPT ![c] = "sent"] /\ then' = then /\ OnlyEst(c)
      BY <1>5, ReserveAt, Zenon DEF Send, Goto
    <2> QED
      BY <1>1, <1>2, <2>1 DEF OnlyEst, OpenAt
  <1>6. ASSUME NEW c \in Workers, Retry(c) PROVE OpenOnly'
    <2>1. /\ at' = [at EXCEPT ![c] = "publish"] /\ then' = [then EXCEPT ![c] = "sent"] /\ OnlyEst(c)
      BY <1>6, ReserveAt, Zenon DEF Retry, Publish, Goto
    <2> QED
      BY <1>1, <1>2, <2>1 DEF OnlyEst, OpenAt, Waiting
  <1>7. ASSUME NEW c \in Workers, NEW a \in Nat, Charge(c, a),
               \E p : at' = [at EXCEPT ![c] = p], \E p : then' = [then EXCEPT ![c] = p]
        PROVE  OpenOnly'
    <2>1. OnlyEst(c) /\ est'[c] = 0
      BY <1>7, ChargeAt, Zenon
    <2>2. \A d \in Workers : d # c => at'[d] = at[d] /\ then'[d] = then[d] /\ est'[d] = est[d]
      BY <1>1, <1>7, <2>1 DEF OnlyEst
    <2>3. ~(est'[c] > 0)
      BY <2>1
    <2> QED
      BY <1>2, <2>2, <2>3, Zenon
  <1>8. ASSUME NEW c \in Workers, Answer(c) \/ Fail(c) PROVE OpenOnly'
    BY <1>7, <1>8, Actual, Zenon DEF Answer, Fail, Publish, Goto
  <1>9. ASSUME NEW c \in Workers, EndWrite(c) PROVE OpenOnly'
    <2>1. at[c] \in {"publish", "last"}
      BY <1>1, <1>9, UsageType DEF EndWrite, WriterKept, WriterAt, Sized
    <2>2. /\ at' = [at EXCEPT ![c] = IF at[c] = "last" THEN "out" ELSE then[c]]
          /\ then' = [then EXCEPT ![c] = "idle"] /\ est' = est
      BY <1>9, Zenon DEF EndWrite, Goto
    <2>3. est[c] > 0 => OpenAt(c)'
      BY <1>1, <2>1, <2>2 DEF OpenOnly, OpenAt, Waiting
    <2>4. \A d \in Workers : d # c => at'[d] = at[d] /\ then'[d] = then[d] /\ est'[d] = est[d]
      BY <1>1, <2>2
    <2> QED
      BY <1>2, <2>2, <2>3, <2>4, Zenon
  <1>10. ASSUME NEW c \in Workers, Interrupt(c) PROVE OpenOnly'
    <2>1. CASE OpenAt(c)
      BY <1>7, <1>10, <2>1, Actual, Zenon DEF Interrupt, Publish, Goto, OpenAt, Waiting
    <2>2. CASE ~OpenAt(c)
      <3>1. /\ est' = est /\ \E p : at' = [at EXCEPT ![c] = p]
            /\ then' = then \/ then' = [then EXCEPT ![c] = "idle"]
        BY <1>10, <2>2, Zenon DEF Interrupt, Goto, OpenAt, Waiting
      <3>2. ~(est[c] > 0)
        BY <1>10, <2>2, Zenon DEF OpenOnly, Interrupt
      <3>3. \A d \in Workers : d # c => at'[d] = at[d] /\ then'[d] = then[d] /\ est'[d] = est[d]
        BY <1>1, <3>1
      <3> QED
        BY <1>2, <3>1, <3>2, <3>3, Zenon
    <2> QED
      BY <2>1, <2>2
  <1>11. ASSUME NEW k \in Keys, Expire(k) PROVE OpenOnly'
    BY <1>11, Zenon DEF Expire, place, OpenOnly, OpenAt, Waiting
  <1>12. ASSUME NEW r \in Runs, Die(r) PROVE OpenOnly'
    BY <1>1, <1>12 DEF Die, OpenOnly, OpenAt, Waiting
  <1> QED
    BY <1>3, <1>4, <1>5, <1>6, <1>8, <1>9, <1>10, <1>11, <1>12, Zenon DEF CallsNext, Step

-----------------------------------------------------------------------------
(* The books balance after every step.                                     *)

Balance == \A r \in Runs : BooksAt(r)
Covered == \A c \in Workers : est[c] <= ledger[RunOf[c]].reserved

\* A step that touches no book and leaves its worker unsaved if it was.
LEMMA QuietBooks ==
  ASSUME Sized, Kinds, Balance, NEW c \in Workers, OnlyAt(c),
         UNCHANGED <<ledger, column, writer, sent, extra>>,
         ~Waiting(c), ~Waiting(c)', Unsaved(c) => Unsaved(c)'
  PROVE  Balance'
  <1> DEFINE r == RunOf[c]
  <1>1. r \in Runs
    BY DEF Sized
  <1>2. P(r)' = P(r) /\ U(r) \subseteq U(r)'
    BY SetsAt
  <1>4. BooksAt(r)
    BY <1>1 DEF Balance
  <1>5. Balanced(ledger[r], column[r], writer[r], sent[r], extra[r], U(r)', P(r))
    BY <1>1, <1>2, <1>4, BookTypes, Crew, CrewNext, GrowBalanced DEF BooksAt
  <1>6. BooksAt(r)'
    BY <1>2, <1>5, Zenon DEF BooksAt, Balanced, Within, Upto
  <1>7. Apart(r)
    BY Zenon DEF Apart
  <1> QED
    BY <1>6, <1>7, BooksApart, Zenon DEF Balance

\* A step of worker c that changes its run's ledger and not the row.
LEMMA LedgerBooks ==
  ASSUME Sized, Kinds, Balance, BookKinds', NEW c \in Workers, OnlyAt(c), NEW r, r = RunOf[c],
         UNCHANGED <<column, writer>>, OnlyLedger(r),
         \A q \in Runs : q # r => sent'[q] = sent[q] /\ extra'[q] = extra[q],
         Upto(ledger[r], ledger'[r]), Within(ledger'[r], extra'[r]), extra'[r] >= extra[r],
         sent'[r] + Cardinality(P(r)') <= ledger'[r].requests,
         Unsaved(c)', writer[r] # Idle => c # writer[r].who,
         sent'[r] = sent[r] \/ (sent'[r] = sent[r] + 1 /\ ~Unsaved(c))
  PROVE  Balance'
  <1>1. r \in Runs
    BY DEF Sized
  <1>2. /\ c \in U(r)' /\ U(r)' = U(r) \cup {c} /\ (c \in U(r) <=> Unsaved(c))
    BY SetsAt
  <1>4. BooksAt(r)
    BY <1>1 DEF Balance
  <1>5. ledger'[r] \in Usage /\ sent'[r] \in Nat /\ extra'[r] \in Nat
    BY <1>1, Zenon DEF BookKinds
  <1>6. \/ sent'[r] = sent[r] /\ U(r) \subseteq U(r)'
        \/ sent'[r] = sent[r] + 1 /\ c \notin U(r) /\ U(r)' = U(r) \cup {c}
    BY <1>2
  <1>7. /\ ledger[r] \in Usage /\ column[r] \in Usage /\ writer[r] \in Writing
        /\ sent[r] \in Nat /\ extra[r] \in Nat
    BY <1>1, BookTypes
  <1>8. Balanced(ledger'[r], column[r], writer[r], sent'[r], extra'[r], U(r)', P(r)')
    <2>1. IsFiniteSet(U(r)) /\ IsFiniteSet(U(r)')
      BY <1>1, Crew, CrewNext
    <2>2. Balanced(ledger[r], column[r], writer[r], sent[r], extra[r], U(r), P(r))
      BY <1>4 DEF BooksAt
    <2> DEFINE L == ledger[r]  R == column[r]  W == writer[r]  n == sent[r]  x == extra[r]
               A == U(r)  B == P(r)
               M == ledger'[r]  m == sent'[r]  y == extra'[r]  V == U(r)'  Q == P(r)'
    <2>3. /\ L \in Usage /\ R \in Usage /\ W \in Writing /\ n \in Nat /\ x \in Nat
          /\ IsFiniteSet(A) /\ Balanced(L, R, W, n, x, A, B)
          /\ M \in Usage /\ m \in Nat /\ y \in Nat /\ IsFiniteSet(V)
          /\ Upto(L, M) /\ Within(M, y) /\ y >= x /\ m + Cardinality(Q) <= M.requests
          /\ c \in V /\ (W # Idle => c # W.who)
          /\ (m = n /\ A \subseteq V) \/ (m = n + 1 /\ c \notin A /\ V = A \cup {c})
      BY <1>2, <1>5, <1>6, <1>7, <2>1, <2>2, Zenon
    <2> HIDE DEF L, R, W, n, x, A, B, M, m, y, V, Q
    <2>4. Balanced(M, R, W, m, y, V, Q)
      BY <2>3, LedgerBalanced
    <2> QED
      BY <2>4 DEF R, W, M, m, y, V, Q
  <1>9. BooksAt(r)'
    BY <1>8, Zenon DEF BooksAt, Balanced, Within, Upto
  <1>10. Apart(r)
    BY Zenon DEF Apart, OnlyLedger
  <1> QED
    BY <1>9, <1>10, BooksApart, Zenon DEF Balance

\* What a charge does to the limits of the ledger.
LEMMA ChargeWithin ==
  ASSUME Sized, Kinds, Covered, NEW c \in Workers, NEW actual \in Nat, Charge(c, actual),
         NEW r, r = RunOf[c], Within(ledger[r], extra[r])
  PROVE  /\ Within(ledger'[r], extra'[r]) /\ Upto(ledger[r], ledger'[r])
         /\ extra'[r] >= extra[r] /\ ledger'[r].requests = ledger[r].requests
         /\ OnlyLedger(r) /\ \A q \in Runs : q # r => extra'[q] = extra[q]
  <1>1. /\ r \in Runs /\ OnlyLedger(r)
        /\ ledger'[r].used = ledger[r].used + actual
        /\ ledger'[r].reserved = Max2(0, ledger[r].reserved - est[c])
        /\ ledger'[r].requests = ledger[r].requests /\ ledger'[r].retries = ledger[r].retries
        /\ extra'[r] = extra[r] + Max2(0, actual - est[c])
        /\ \A q \in Runs : q # r => extra'[q] = extra[q]
    BY ChargeAt
  <1>2. /\ ledger[r].used \in Nat /\ ledger[r].reserved \in Nat /\ ledger[r].requests \in Nat
        /\ ledger[r].retries \in Nat /\ extra[r] \in Nat /\ est[c] \in Nat
    BY <1>1, BookTypes, UsageFields, Actual
  <1>3. est[c] <= ledger[r].reserved
    BY DEF Covered
  <1>4. MaxTokens \in Nat /\ MaxRequests \in Nat
    BY DEF Sized
  <1>5. Within(ledger'[r], extra'[r])
    BY <1>1, <1>2, <1>3, <1>4 DEF Within, Max2
  <1>6. Upto(ledger[r], ledger'[r])
    BY <1>1, <1>2 DEF Upto
  <1>7. extra'[r] >= extra[r]
    BY <1>1, <1>2 DEF Max2
  <1> QED
    BY <1>1, <1>5, <1>6, <1>7

\* A step that only charges its open attempt.
LEMMA ChargeBooks ==
  ASSUME Sized, Kinds, WriterKept, Covered, Balance, BookKinds', NEW c \in Workers,
         NEW actual \in Nat, Charge(c, actual), OnlyAt(c), at[c] = "sent", at'[c] = "publish",
         then'[c] # "sent", UNCHANGED <<column, writer, sent>>
  PROVE  Balance'
  <1> DEFINE r == RunOf[c]
  <1>1. r \in Runs
    BY DEF Sized
  <1>2. BooksAt(r)
    BY <1>1 DEF Balance
  <1>3. Within(ledger[r], extra[r])
    BY <1>2 DEF BooksAt, Balanced
  <1>4. /\ Within(ledger'[r], extra'[r]) /\ Upto(ledger[r], ledger'[r])
        /\ extra'[r] >= extra[r] /\ ledger'[r].requests = ledger[r].requests
        /\ OnlyLedger(r) /\ \A q \in Runs : q # r => extra'[q] = extra[q]
    BY <1>3, ChargeWithin, Zenon
  <1>5. Unsaved(c)' /\ ~Waiting(c) /\ ~Waiting(c)'
    BY DEF Unsaved, Waiting
  <1>6. P(r)' = P(r)
    BY <1>5, SetsAt
  <1>7. sent'[r] + Cardinality(P(r)') <= ledger'[r].requests
    BY <1>2, <1>4, <1>6 DEF BooksAt, Balanced
  <1>8. writer[r] # Idle => c # writer[r].who
    BY <1>1 DEF WriterKept, WriterAt
  <1> QED
    BY <1>4, <1>5, <1>7, <1>8, LedgerBooks, Zenon

LEMMA SendBooks ==
  ASSUME Sized, Kinds, WriterKept, Balance, BookKinds', NEW c \in Workers, Send(c)
  PROVE  Balance'
  <1> DEFINE r == RunOf[c]
  <1>1. r \in Runs /\ sent \in [Runs -> Nat] /\ at \in [Workers -> Places]
    BY DEF Sized, Kinds, BookKinds, PlaceKinds
  <1>2. /\ at[c] = "slot" /\ at' = [at EXCEPT ![c] = "sent"] /\ sent' = [sent EXCEPT ![r] = @ + 1]
        /\ UNCHANGED <<then, ret, extra, column, writer>>
    BY Zenon DEF Send, Goto, rows, env
  <1>3. /\ OnlyLedger(r) /\ ledger'[r].used = ledger[r].used
        /\ ledger'[r].requests = ledger[r].requests + 1
        /\ ledger'[r].retries >= ledger[r].retries
        /\ ledger'[r].used + ledger'[r].reserved <= MaxTokens
        /\ ledger'[r].requests <= MaxRequests
    BY ReserveAt, Zenon DEF Send
  <1>4. OnlyAt(c) /\ at'[c] = "sent"
    BY <1>1, <1>2 DEF OnlyAt
  <1>5. ~Unsaved(c) /\ Unsaved(c)' /\ ~Waiting(c) /\ ~Waiting(c)'
    BY <1>2, <1>4 DEF Unsaved, Waiting
  <1>6. /\ ledger[r].used \in Nat /\ ledger[r].requests \in Nat /\ ledger[r].retries \in Nat
        /\ extra[r] \in Nat /\ sent[r] \in Nat /\ Cardinality(P(r)) \in Nat
        /\ ledger'[r].used \in Nat /\ ledger'[r].reserved \in Nat /\ MaxTokens \in Nat
    <2>1. IsFiniteSet(P(r)) /\ ledger[r] \in Usage
      BY <1>1, Crew, BookTypes
    <2>2. ledger'[r] \in Usage
      BY <1>1, Zenon DEF BookKinds
    <2> QED
      BY <1>1, <2>1, <2>2, BookTypes, UsageFields, FS_CardinalityType DEF Sized
  <1>7. P(r)' = P(r)
    BY <1>4, <1>5, SetsAt
  <1>8. sent'[r] = sent[r] + 1 /\ \A q \in Runs : q # r => sent'[q] = sent[q]
    BY <1>1, <1>2
  <1>9. sent'[r] + Cardinality(P(r)') <= ledger'[r].requests
    <2>1. sent[r] + Cardinality(P(r)) <= ledger[r].requests
      BY <1>1 DEF Balance, BooksAt, Balanced
    <2> QED
      BY <1>3, <1>6, <1>7, <1>8, <2>1
  <1>10. writer[r] # Idle => c # writer[r].who
    BY <1>1, <1>2 DEF WriterKept, WriterAt
  <1>11. /\ Upto(ledger[r], ledger'[r]) /\ Within(ledger'[r], extra'[r]) /\ extra'[r] >= extra[r]
    BY <1>2, <1>3, <1>6 DEF Upto, Within
  <1> QED
    BY <1>2, <1>3, <1>4, <1>5, <1>8, <1>9, <1>10, <1>11, LedgerBooks, Zenon

LEMMA RetryBooks ==
  ASSUME Sized, Kinds, WriterKept, Balance, BookKinds', NEW c \in Workers, Retry(c)
  PROVE  Balance'
  <1> DEFINE r == RunOf[c]
  <1>1. /\ r \in Runs /\ at \in [Workers -> Places]
        /\ then \in [Workers -> {"idle", "closing", "backoff", "sent"}]
    BY DEF Sized, Kinds, PlaceKinds
  <1>2. /\ at[c] = "backoff" /\ at' = [at EXCEPT ![c] = "publish"]
        /\ then' = [then EXCEPT ![c] = "sent"]
        /\ UNCHANGED <<ret, sent, extra, column, writer>>
    BY Zenon DEF Retry, Publish, Goto, rows, env
  <1>3. /\ OnlyLedger(r) /\ ledger'[r].used = ledger[r].used
        /\ ledger'[r].requests = ledger[r].requests + 1
        /\ ledger'[r].retries >= ledger[r].retries
        /\ ledger'[r].used + ledger'[r].reserved <= MaxTokens
        /\ ledger'[r].requests <= MaxRequests
    BY ReserveAt, Zenon DEF Retry
  <1>4. OnlyAt(c) /\ at'[c] = "publish" /\ then'[c] = "sent"
    BY <1>1, <1>2 DEF OnlyAt
  <1>5. ~Unsaved(c) /\ Unsaved(c)' /\ ~Waiting(c) /\ Waiting(c)'
    BY <1>2, <1>4 DEF Unsaved, Waiting
  <1>6. /\ ledger[r].used \in Nat /\ ledger[r].requests \in Nat /\ ledger[r].retries \in Nat
        /\ extra[r] \in Nat /\ sent[r] \in Nat /\ IsFiniteSet(P(r))
        /\ ledger'[r].used \in Nat /\ ledger'[r].reserved \in Nat /\ MaxTokens \in Nat
    <2>1. ledger[r] \in Usage
      BY <1>1, BookTypes
    <2>2. ledger'[r] \in Usage
      BY <1>1, Zenon DEF BookKinds
    <2> QED
      BY <1>1, <2>1, <2>2, BookTypes, UsageFields, Crew DEF Sized
  <1>7. Cardinality(P(r)') = Cardinality(P(r)) + 1 /\ Cardinality(P(r)) \in Nat
    <2>1. P(r)' = P(r) \cup {c} /\ c \notin P(r)
      BY <1>4, <1>5, SetsAt
    <2> QED
      BY <1>6, <2>1, SetSizes, Zenon
  <1>8. sent'[r] + Cardinality(P(r)') <= ledger'[r].requests
    <2>1. sent[r] + Cardinality(P(r)) <= ledger[r].requests
      BY <1>1 DEF Balance, BooksAt, Balanced
    <2> QED
      BY <1>2, <1>3, <1>6, <1>7, <2>1
  <1>9. writer[r] # Idle => c # writer[r].who
    BY <1>1, <1>2 DEF WriterKept, WriterAt
  <1>10. /\ Upto(ledger[r], ledger'[r]) /\ Within(ledger'[r], extra'[r]) /\ extra'[r] >= extra[r]
    BY <1>2, <1>3, <1>6 DEF Upto, Within
  <1> QED
    BY <1>2, <1>3, <1>4, <1>5, <1>8, <1>9, <1>10, LedgerBooks, Zenon

LEMMA AgainBooks ==
  ASSUME Sized, Kinds, WriterKept, Balance, BookKinds', NEW c \in Workers, Again(c)
  PROVE  Balance'
  <1> DEFINE r == RunOf[c]
  <1>1. /\ r \in Runs /\ at \in [Workers -> Places]
        /\ then \in [Workers -> {"idle", "closing", "backoff", "sent"}]
    BY DEF Sized, Kinds, PlaceKinds
  <1>2. /\ at[c] = "idle" /\ at' = [at EXCEPT ![c] = "publish"]
        /\ then' = [then EXCEPT ![c] = "idle"]
        /\ UNCHANGED <<ret, sent, extra, column, writer>>
    BY Zenon DEF Again, Publish, Goto, rows, env
  <1>3. /\ OnlyLedger(r) /\ ledger'[r].used = ledger[r].used
        /\ ledger'[r].reserved = ledger[r].reserved /\ ledger'[r].requests = ledger[r].requests
        /\ ledger'[r].retries >= ledger[r].retries
    BY <1>1, ConsumeAt, Zenon DEF Again
  <1>4. OnlyAt(c) /\ at'[c] = "publish" /\ then'[c] = "idle"
    BY <1>1, <1>2 DEF OnlyAt
  <1>5. Unsaved(c)' /\ ~Waiting(c) /\ ~Waiting(c)'
    BY <1>2, <1>4 DEF Unsaved, Waiting
  <1>6. P(r)' = P(r)
    BY <1>4, <1>5, SetsAt
  <1>7. BooksAt(r)
    BY <1>1 DEF Balance
  <1>8. sent'[r] + Cardinality(P(r)') <= ledger'[r].requests
    BY <1>2, <1>3, <1>6, <1>7 DEF BooksAt, Balanced
  <1>9. writer[r] # Idle => c # writer[r].who
    BY <1>1, <1>2 DEF WriterKept, WriterAt
  <1>10. ledger[r] \in Usage /\ extra[r] \in Nat
    BY <1>1, BookTypes
  <1>11. /\ Upto(ledger[r], ledger'[r]) /\ Within(ledger'[r], extra'[r]) /\ extra'[r] >= extra[r]
    BY <1>2, <1>3, <1>7, <1>10, UsageFields DEF Upto, Within, BooksAt, Balanced
  <1> QED
    BY <1>2, <1>3, <1>4, <1>5, <1>8, <1>9, <1>11, LedgerBooks, Zenon

LEMMA StartBooks ==
  ASSUME Sized, Kinds, Balance, NEW c \in Workers, StartWrite(c)
  PROVE  Balance'
  <1> DEFINE r == RunOf[c]
  <1>1. r \in Runs /\ writer \in [Runs -> Writing]
    BY DEF Sized, Kinds, BookKinds
  <1>2. /\ at[c] \in {"publish", "last"} /\ writer[r] = Idle
        /\ writer' = [writer EXCEPT ![r] = [who |-> c, usage |-> ledger[r]]]
        /\ UNCHANGED <<at, then, ret, ledger, sent, extra, column>>
    BY Zenon DEF StartWrite, place, books, env
  <1>3. \A q \in Runs : U(q)' = U(q) /\ P(q)' = P(q)
    BY <1>2, Zenon DEF U, P, Mine, Unsaved, Waiting
  <1>4. c \in U(r)
    BY <1>2 DEF U, Unsaved, Mine
  <1>5. /\ ledger[r] \in Usage /\ column[r] \in Usage /\ sent[r] \in Nat /\ extra[r] \in Nat
        /\ IsFiniteSet(U(r)) /\ IsFiniteSet(P(r))
    BY <1>1, BookTypes, Crew
  <1>6. Balanced(ledger[r], column[r], Idle, sent[r], extra[r], U(r), P(r))
    BY <1>1, <1>2, Zenon DEF Balance, BooksAt
  <1>7. Balanced(ledger[r], column[r], [who |-> c, usage |-> ledger[r]], sent[r], extra[r], U(r), P(r))
    BY <1>4, <1>5, <1>6, StartBalanced, Zenon
  <1>8. writer'[r] = [who |-> c, usage |-> ledger[r]] /\ \A q \in Runs : q # r => writer'[q] = writer[q]
    BY <1>1, <1>2
  <1>9. BooksAt(r)'
    BY <1>2, <1>3, <1>1, <1>7, <1>8, Zenon DEF BooksAt, Balanced, Within, Upto
  <1>10. ASSUME NEW q \in Runs, q # r PROVE BooksAt(q)'
    BY <1>2, <1>3, <1>8, <1>10, Zenon DEF Balance, BooksAt, Balanced, Within, Upto
  <1> QED
    BY <1>9, <1>10, Zenon DEF Balance

LEMMA EndBooks ==
  ASSUME Sized, Kinds, WriterKept, Balance, NEW c \in Workers, EndWrite(c)
  PROVE  Balance'
  <1> DEFINE r == RunOf[c]
  <1>1. /\ r \in Runs /\ writer \in [Runs -> Writing] /\ column \in [Runs -> Usage]
        /\ sent \in [Runs -> Nat] /\ at \in [Workers -> Places] /\ c # "nobody"
        /\ then \in [Workers -> {"idle", "closing", "backoff", "sent"}]
    BY DEF Sized, Kinds, BookKinds, PlaceKinds
  <1>2. /\ writer[r].who = c /\ UNCHANGED <<ret, ledger, extra>>
        /\ column' = [column EXCEPT ![r] = Merge(@, writer[r].usage)]
        /\ writer' = [writer EXCEPT ![r] = Idle]
        /\ at' = [at EXCEPT ![c] = IF at[c] = "last" THEN "out" ELSE then[c]]
        /\ then' = [then EXCEPT ![c] = "idle"]
        /\ sent' = IF Waiting(c) THEN [sent EXCEPT ![r] = @ + 1] ELSE sent
    BY Zenon DEF EndWrite, Goto, env, Waiting
  <1>3. writer[r] # Idle /\ at[c] \in {"publish", "last"}
    BY <1>1, <1>2, UsageType DEF WriterKept, WriterAt
  <1>4. OnlyAt(c) /\ at'[c] = (IF at[c] = "last" THEN "out" ELSE then[c]) /\ then'[c] = "idle"
    BY <1>1, <1>2 DEF OnlyAt
  <1>5. Unsaved(c) /\ ~Waiting(c)' /\ (Waiting(c) => Unsaved(c)')
    BY <1>3, <1>4 DEF Unsaved, Waiting
  <1>6. /\ c \in U(r) /\ P(r)' = P(r) \ {c} /\ (c \in P(r) <=> Waiting(c))
        /\ U(r)' = IF Unsaved(c)' THEN U(r) ELSE U(r) \ {c}
    <2>1. /\ (c \in U(r) <=> Unsaved(c)) /\ (c \in P(r) <=> Waiting(c))
          /\ U(r)' = IF Unsaved(c)' THEN U(r) \cup {c} ELSE U(r) \ {c}
          /\ P(r)' = IF Waiting(c)' THEN P(r) \cup {c} ELSE P(r) \ {c}
      BY <1>4, SetsAt, Zenon
    <2>2. c \in U(r) /\ P(r)' = P(r) \ {c}
      BY <1>5, <2>1, Zenon
    <2>3. U(r) \cup {c} = U(r)
      BY <2>2
    <2> QED
      BY <2>1, <2>2, <2>3, Zenon
  <1> DEFINE L == ledger[r]  R == column[r]  W == writer[r]  n == sent[r]  x == extra[r]
             A == U(r)  B == P(r)
             m == sent'[r]  V == U(r)'  Q == P(r)'
  <1>7. \/ m = n /\ A \ {W.who} \subseteq V /\ V \subseteq A /\ Q = B
        \/ m = n + 1 /\ V = A /\ W.who \in B /\ Q = B \ {W.who}
    <2>1. CASE Waiting(c)
      <3>1. m = n + 1
        BY <1>1, <1>2, <2>1
      <3>2. V = A /\ c \in B /\ Q = B \ {c}
        BY <1>5, <1>6, <2>1, Zenon
      <3> QED
        BY <1>2, <3>1, <3>2, Zenon
    <2>2. CASE ~Waiting(c)
      BY <1>2, <1>6, <2>2
    <2> QED
      BY <2>1, <2>2
  <1>8. /\ L \in Usage /\ R \in Usage /\ W \in Writing /\ n \in Nat /\ x \in Nat
        /\ IsFiniteSet(A) /\ IsFiniteSet(B) /\ IsFiniteSet(V) /\ m \in Nat
    <2>1. m \in Nat
      BY <1>1, <1>2
    <2> QED
      BY <1>1, <2>1, BookTypes, Crew, CrewNext
  <1>9. Balanced(L, R, W, n, x, A, B) /\ W # Idle
    BY <1>1, <1>3, Zenon DEF Balance, BooksAt
  <1>10. column'[r] = Merge(R, W.usage) /\ writer'[r] = Idle
    BY <1>1, <1>2
  <1>12. Apart(r)
    BY <1>1, <1>2 DEF Apart
  <1>13. Balanced(L, Merge(R, W.usage), Idle, m, x, V, Q)
    <2> HIDE DEF L, R, W, n, x, A, B, m, V, Q
    <2> QED
      BY <1>7, <1>8, <1>9, EndBalanced
  <1>14. BooksAt(r)'
    BY <1>2, <1>10, <1>13, Zenon DEF BooksAt, Balanced, Within, Upto
  <1> QED
    BY <1>4, <1>12, <1>14, BooksApart, Zenon DEF Balance

LEMMA InterruptBooks ==
  ASSUME Sized, Kinds, WriterKept, Covered, Balance, BookKinds', NEW c \in Workers, Interrupt(c)
  PROVE  Balance'
  <1> DEFINE r == RunOf[c]
             W == writer[r]
             stopped == IF W.who = c THEN Idle ELSE W
  <1>1. /\ r \in Runs /\ writer \in [Runs -> Writing] /\ column \in [Runs -> Usage]
        /\ at \in [Workers -> Places] /\ c # "nobody" /\ ret \in [Workers -> {"idle", "last"}]
        /\ then \in [Workers -> {"idle", "closing", "backoff", "sent"}]
    BY DEF Sized, Kinds, BookKinds, PlaceKinds
  <1>2. /\ at[c] \in {"idle", "enter", "half", "sent", "backoff", "publish"}
        /\ writer' = [writer EXCEPT ![r] = stopped]
        /\ column' = column \/ (W.who = c /\ column' = [column EXCEPT ![r] = Merge(@, W.usage)])
        /\ UNCHANGED sent
    <2>1. writer' = [writer EXCEPT ![r] = IF writer[r].who = c THEN Idle ELSE @]
      BY Zenon DEF Interrupt
    <2>2. writer' = [writer EXCEPT ![r] = stopped]
      BY <1>1, <2>1
    <2>3. column' = column \/ (W.who = c /\ column' = [column EXCEPT ![r] = Merge(@, W.usage)])
      BY DEF Interrupt
    <2> QED
      BY <2>2, <2>3, Zenon DEF Interrupt
  <1>3. /\ ledger[r] \in Usage /\ column[r] \in Usage /\ W \in Writing
        /\ sent[r] \in Nat /\ extra[r] \in Nat
        /\ IsFiniteSet(U(r)) /\ IsFiniteSet(U(r)') /\ IsFiniteSet(P(r)) /\ IsFiniteSet(P(r)')
    BY <1>1, BookTypes, Crew, CrewNext
  <1>4. /\ column'[r] \in Usage /\ stopped \in Writing /\ writer'[r] = stopped
        /\ \A q \in Runs : q # r => column'[q] = column[q] /\ writer'[q] = writer[q]
    <2>1. column'[r] \in Usage
      BY <1>1, Zenon DEF BookKinds
    <2> QED
      BY <1>1, <1>2, <1>3, <2>1, UsageType
  \* The write under way is abandoned, done or not.
  <1>5. Balanced(ledger[r], column'[r], stopped, sent[r], extra[r], U(r), P(r))
    <2>1. Balanced(ledger[r], column[r], W, sent[r], extra[r], U(r), P(r))
      BY <1>1, Zenon DEF Balance, BooksAt
    <2>2. CASE W.who = c
      <3>1. W # Idle /\ column'[r] \in {column[r], Merge(column[r], W.usage)} /\ stopped = Idle
        BY <1>1, <1>2, <2>2, UsageType
      <3> QED
        BY <1>3, <2>1, <3>1, StopBalanced, Zenon
    <2>3. CASE W.who # c
      BY <1>2, <2>1, <2>3, Zenon
    <2> QED
      BY <2>2, <2>3
  <1>6. stopped # Idle => c # stopped.who
    BY UsageType
  <1>8. CASE OpenAt(c)
    <2>1. /\ Charge(c, est[c]) /\ at' = [at EXCEPT ![c] = "publish"]
          /\ then' = [then EXCEPT ![c] = "closing"] /\ ret' = [ret EXCEPT ![c] = "last"]
      BY <1>8, Zenon DEF Interrupt, Publish, Goto, OpenAt, Waiting
    <2>2. OnlyAt(c) /\ at'[c] = "publish" /\ then'[c] = "closing"
      BY <1>1, <2>1 DEF OnlyAt
    <2>3. Unsaved(c) /\ Unsaved(c)' /\ ~Waiting(c)'
      BY <1>8, <2>2 DEF OpenAt, Unsaved, Waiting
    <2>4. U(r)' = U(r) /\ c \in U(r) /\ P(r)' \subseteq P(r)
      <3>1. /\ (c \in U(r) <=> Unsaved(c))
            /\ U(r)' = IF Unsaved(c)' THEN U(r) \cup {c} ELSE U(r) \ {c}
            /\ P(r)' = IF Waiting(c)' THEN P(r) \cup {c} ELSE P(r) \ {c}
        BY <2>2, SetsAt, Zenon
      <3>2. c \in U(r) /\ U(r)' = U(r) \cup {c} /\ P(r)' = P(r) \ {c}
        BY <2>3, <3>1, Zenon
      <3> QED
        BY <3>2
    <2>5. Within(ledger[r], extra[r])
      BY <1>5 DEF Balanced
    <2>6. /\ Within(ledger'[r], extra'[r]) /\ Upto(ledger[r], ledger'[r])
          /\ extra'[r] >= extra[r] /\ ledger'[r].requests = ledger[r].requests
          /\ OnlyLedger(r) /\ \A q \in Runs : q # r => extra'[q] = extra[q]
      BY <2>1, <2>5, ChargeWithin, Actual, Zenon
    <2>7. sent[r] + Cardinality(P(r)') <= ledger'[r].requests
      <3>1. Cardinality(P(r)') <= Cardinality(P(r)) /\ Cardinality(P(r)') \in Nat /\ Cardinality(P(r)) \in Nat
        BY <1>3, <2>4, SetSizes
      <3>2. sent[r] + Cardinality(P(r)) <= ledger[r].requests /\ ledger[r].requests \in Nat
        BY <1>3, <1>5, UsageFields DEF Balanced
      <3> QED
        BY <1>3, <2>6, <3>1, <3>2
    <2>8. ledger'[r] \in Usage /\ extra'[r] \in Nat
      BY <1>1, Zenon DEF BookKinds
    <2> DEFINE L == ledger[r]  R == column'[r]  X == stopped  n == sent[r]  x == extra[r]
               A == U(r)  B == P(r)
               M == ledger'[r]  y == extra'[r]  Q == P(r)'
    <2>9. Balanced(M, R, X, n, y, A, Q)
      <3>1. /\ L \in Usage /\ R \in Usage /\ X \in Writing /\ n \in Nat /\ x \in Nat
            /\ IsFiniteSet(A) /\ Balanced(L, R, X, n, x, A, B)
            /\ M \in Usage /\ y \in Nat
            /\ Upto(L, M) /\ Within(M, y) /\ y >= x /\ n + Cardinality(Q) <= M.requests
            /\ c \in A /\ (X # Idle => c # X.who)
        BY <1>3, <1>4, <1>5, <1>6, <2>4, <2>6, <2>7, <2>8, Zenon
      <3> HIDE DEF L, R, X, n, x, A, B, M, y, Q
      <3> QED
        BY <3>1, LedgerBalanced
    <2>10. BooksAt(r)'
      BY <1>2, <1>4, <2>4, <2>9, Zenon DEF BooksAt, Balanced, Within, Upto
    <2>11. Apart(r)
      BY <1>2, <1>4, <2>6, Zenon DEF Apart, OnlyLedger
    <2> QED
      BY <2>2, <2>10, <2>11, BooksApart, Zenon DEF Balance
  <1>9. CASE ~OpenAt(c)
    <2>1. /\ UNCHANGED <<ledger, extra>>
          /\ \/ /\ at' = [at EXCEPT ![c] = "last"] /\ UNCHANGED <<then, ret>>
             \/ /\ at' = [at EXCEPT ![c] = "closing"] /\ then' = [then EXCEPT ![c] = "idle"]
                /\ ret' = [ret EXCEPT ![c] = "last"]
      BY <1>9, Zenon DEF Interrupt, Goto, OpenAt, Waiting
    <2>2. OnlyAt(c) /\ (at'[c] = "last" \/ (at'[c] = "closing" /\ ret'[c] = "last"))
      BY <1>1, <2>1 DEF OnlyAt
    <2>3. Unsaved(c)' /\ ~Waiting(c)' /\ ~Waiting(c)
      BY <1>9, <2>2 DEF OpenAt, Unsaved, Waiting
    <2>4. U(r) \subseteq U(r)' /\ P(r)' = P(r)
      <3>1. /\ (c \in P(r) <=> Waiting(c))
            /\ U(r)' = IF Unsaved(c)' THEN U(r) \cup {c} ELSE U(r) \ {c}
            /\ P(r)' = IF Waiting(c)' THEN P(r) \cup {c} ELSE P(r) \ {c}
        BY <2>2, SetsAt, Zenon
      <3>2. c \notin P(r) /\ U(r)' = U(r) \cup {c} /\ P(r)' = P(r) \ {c}
        BY <2>3, <3>1, Zenon
      <3> QED
        BY <3>2
    <2>5. Balanced(ledger[r], column'[r], stopped, sent[r], extra[r], U(r)', P(r))
      <3> HIDE DEF stopped, r
      <3> QED
        BY <1>3, <1>4, <1>5, <2>4, GrowBalanced
    <2>6. BooksAt(r)'
      BY <1>2, <1>4, <2>1, <2>4, <2>5, Zenon DEF BooksAt, Balanced, Within, Upto
    <2>7. Apart(r)
      BY <1>2, <1>4, <2>1, Zenon DEF Apart
    <2> QED
      BY <2>2, <2>6, <2>7, BooksApart, Zenon DEF Balance
  <1> QED
    BY <1>8, <1>9

LEMMA CrashBooks == ASSUME Sized, Kinds, Balance, NEW r \in Runs, Die(r) PROVE Balance'
  <1>1. /\ column \in [Runs -> Usage] /\ writer \in [Runs -> Writing]
    BY DEF Kinds, BookKinds
  <1>2. /\ at' = [c \in Workers |-> IF c \in Mine(r) /\ at[c] # "out" THEN "dead" ELSE at[c]]
        /\ column' \in {column, [column EXCEPT ![r] = Merge(@, writer[r].usage)]}
        /\ writer[r] = Idle => column' = column
        /\ writer' = [writer EXCEPT ![r] = Idle] /\ UNCHANGED <<then, ret, ledger, sent, extra>>
    BY DEF Die, books
  <1>3. U(r) \subseteq U(r)' /\ P(r)' = {}
    BY <1>2 DEF U, P, Unsaved, Waiting, Mine
  <1>4. /\ ledger[r] \in Usage /\ column[r] \in Usage /\ writer[r] \in Writing
        /\ sent[r] \in Nat /\ extra[r] \in Nat
        /\ IsFiniteSet(U(r)) /\ IsFiniteSet(P(r)) /\ IsFiniteSet(U(r)')
    BY BookTypes, Crew, CrewNext
  <1>5. column'[r] = column[r] \/ (writer[r] # Idle /\ column'[r] = Merge(column[r], writer[r].usage))
    BY <1>1, <1>2
  <1>6. Balanced(ledger[r], column[r], writer[r], sent[r], extra[r], U(r), P(r))
    BY Zenon DEF Balance, BooksAt
  <1>7. Balanced(ledger[r], column'[r], Idle, sent[r], extra[r], U(r)', {})
    <2> DEFINE L == ledger[r]  R == column[r]  W == writer[r]  n == sent[r]  x == extra[r]
               A == U(r)  B == P(r)  V == U(r)'  S == column'[r]
    <2>1. /\ L \in Usage /\ R \in Usage /\ W \in Writing /\ n \in Nat /\ x \in Nat
          /\ IsFiniteSet(A) /\ IsFiniteSet(B) /\ IsFiniteSet(V) /\ A \subseteq V
          /\ Balanced(L, R, W, n, x, A, B) /\ (S = R \/ (W # Idle /\ S = Merge(R, W.usage)))
      BY <1>3, <1>4, <1>5, <1>6
    <2> HIDE DEF L, R, W, n, x, A, B, V, S
    <2>2. Balanced(L, S, Idle, n, x, V, {})
      BY <2>1, CrashBalanced
    <2> QED
      BY <2>2 DEF L, n, x, V, S
  <1>8. writer'[r] = Idle
    BY <1>1, <1>2
  <1>9. BooksAt(r)'
    BY <1>2, <1>3, <1>7, <1>8, Zenon DEF BooksAt, Balanced, Within, Upto
  <1>10. ASSUME NEW q \in Runs, q # r PROVE BooksAt(q)'
    <2>1. \A c \in Mine(q) : c \in Workers /\ c \notin Mine(r)
      BY <1>10 DEF Mine
    <2>2. U(q)' = U(q) /\ P(q)' = P(q)
      BY <1>2, <2>1 DEF U, P, Unsaved, Waiting, Mine
    <2>3. column'[q] = column[q] /\ writer'[q] = writer[q]
      BY <1>1, <1>2, <1>10
    <2> QED
      BY <1>2, <2>2, <2>3, Zenon DEF Balance, BooksAt, Balanced, Within, Upto
  <1> QED
    BY <1>9, <1>10, Zenon DEF Balance

LEMMA BalanceStep ==
  ASSUME Sized, Kinds, WriterKept, Covered, Balance, CallsNext
  PROVE  Balance'
  <1>1. /\ at \in [Workers -> Places] /\ ret \in [Workers -> {"idle", "last"}] /\ BookKinds'
        /\ then \in [Workers -> {"idle", "closing", "backoff", "sent"}]
    BY BookKindsStep DEF Kinds, PlaceKinds
  <1>2. ASSUME NEW c \in Workers,
               \/ Begin(c) \/ Finish(c) \/ GiveBack(c) \/ TakeFirst(c) \/ TakeSecond(c)
               \/ Deadline(c) \/ Unavailable(c) \/ Refused(c) \/ RetryRefused(c)
        PROVE  Balance'
    <2>1. /\ UNCHANGED <<ledger, column, writer, sent, extra>> /\ UNCHANGED then
          /\ at[c] \in {"idle", "enter", "half", "slot", "backoff"}
          /\ \E p \in Places \ {"publish"} : at' = [at EXCEPT ![c] = p]
          /\ ret' = ret \/ ret' = [ret EXCEPT ![c] = "last"]
      <3>1. {"enter", "last", "half", "slot", "closing"} \subseteq Places \ {"publish"}
        BY DEF Places
      <3>2. /\ UNCHANGED <<ledger, column, writer, sent, extra>> /\ UNCHANGED then
            /\ at[c] \in {"idle", "enter", "half", "slot", "backoff"}
            /\ \E p \in {"enter", "last", "half", "slot", "closing"} : at' = [at EXCEPT ![c] = p]
            /\ ret' = ret \/ ret' = [ret EXCEPT ![c] = "last"]
        BY <1>2, Zenon DEF Begin, Finish, GiveBack, TakeFirst, TakeSecond, Deadline, Unavailable,
           Refused, RetryRefused, Goto, books, rows, env
      <3> QED
        BY <3>1, <3>2, Zenon
    <2>2. OnlyAt(c) /\ at'[c] # "publish"
      BY <1>1, <2>1 DEF OnlyAt
    <2>3. ~Unsaved(c) /\ ~Waiting(c) /\ ~Waiting(c)'
      BY <2>1, <2>2 DEF Unsaved, Waiting
    <2> QED
      BY <2>1, <2>2, <2>3, QuietBooks, Zenon
  <1>3. ASSUME NEW c \in Workers, Close(c) PROVE Balance'
    <2>1. /\ UNCHANGED <<ledger, column, writer, sent, extra>> /\ UNCHANGED then
          /\ at[c] = "closing" /\ at' = [at EXCEPT ![c] = ret[c]] /\ ret' = [ret EXCEPT ![c] = "idle"]
      BY <1>3, Zenon DEF Close, Goto, books, rows, env
    <2>2. OnlyAt(c) /\ at'[c] = ret[c]
      BY <1>1, <2>1 DEF OnlyAt
    <2>3. ~Waiting(c) /\ ~Waiting(c)' /\ (Unsaved(c) => Unsaved(c)')
      BY <1>1, <2>1, <2>2 DEF Unsaved, Waiting
    <2> QED
      BY <2>1, <2>2, <2>3, QuietBooks, Zenon
  <1>4. ASSUME UNCHANGED <<at, then, ret, ledger, column, writer, sent, extra>> PROVE Balance'
    <2>1. \A r \in Runs : U(r)' = U(r) /\ P(r)' = P(r)
      BY <1>4, Zenon DEF U, P, Mine, Unsaved, Waiting
    <2> QED
      BY <1>4, <2>1, Zenon DEF Balance, BooksAt, Balanced, Within, Upto
  <1>5. ASSUME NEW c \in Workers, Lapse(c) PROVE Balance'
    BY <1>4, <1>5, Zenon DEF Lapse, place, books, rows
  <1>6. ASSUME NEW k \in Keys, Expire(k) PROVE Balance'
    BY <1>4, <1>6, Zenon DEF Expire, place, books, rows, env
  <1>7. ASSUME NEW c \in Workers, NEW a \in Nat, Charge(c, a), at[c] = "sent",
               at' = [at EXCEPT ![c] = "publish"],
               \E q \in {"closing", "backoff"} : then' = [then EXCEPT ![c] = q],
               ret' = ret \/ (\E q : ret' = [ret EXCEPT ![c] = q]),
               UNCHANGED <<column, writer, sent>>
        PROVE  Balance'
    <2>1. OnlyAt(c) /\ at'[c] = "publish" /\ then'[c] # "sent"
      BY <1>1, <1>7 DEF OnlyAt
    <2> QED
      BY <1>1, <1>7, <2>1, ChargeBooks, Zenon
  <1>8. ASSUME NEW c \in Workers, Answer(c) PROVE Balance'
    <2>1. PICK a \in {Prompt, est[c] + Excess} : /\ Charge(c, a)
                                                 /\ \E q : ret' = [ret EXCEPT ![c] = q]
      BY <1>8, Zenon DEF Answer
    <2>2. a \in Nat
      BY <2>1, Actual, Zenon
    <2>3. /\ at[c] = "sent" /\ at' = [at EXCEPT ![c] = "publish"]
          /\ then' = [then EXCEPT ![c] = "closing"] /\ UNCHANGED <<column, writer, sent>>
      BY <1>8, Zenon DEF Answer, Publish, Goto, rows, env
    <2> QED
      BY <1>7, <2>1, <2>2, <2>3, Zenon
  <1>9. ASSUME NEW c \in Workers, Fail(c) PROVE Balance'
    <2>1. /\ at[c] = "sent" /\ at' = [at EXCEPT ![c] = "publish"] /\ Charge(c, est[c]) /\ ret' = ret
          /\ UNCHANGED <<column, writer, sent>>
          /\ \E q \in {"closing", "backoff"} : then' = [then EXCEPT ![c] = q]
      BY <1>9, Zenon DEF Fail, Publish, Goto, rows, env
    <2> QED
      BY <1>7, <2>1, Actual, Zenon
  <1> QED
    BY <1>1, <1>2, <1>3, <1>5, <1>6, <1>8, <1>9, SendBooks, RetryBooks, AgainBooks, StartBooks,
       EndBooks, InterruptBooks, CrashBooks, Zenon DEF CallsNext, Step

-----------------------------------------------------------------------------
(* What a run has reserved is the sum of what its open attempts reserved.  *)
(* The sum over a finite set is not computed here: it is any function of   *)
(* its subsets that adds the members one by one.                           *)

Adds(s, M, f) ==
  /\ s \in [SUBSET M -> Nat] /\ s[{}] = 0
  /\ \A S \in SUBSET M : \A d \in M \ S : s[S \cup {d}] = s[S] + f[d]
  /\ \A S \in SUBSET M : (\A d \in S : f[d] = 0) => s[S] = 0

Summed(M, f, reserved) == \E s : Adds(s, M, f) /\ s[M] = reserved

SumAt(r) == Summed(Mine(r), est, ledger[r].reserved)
Sums == \A r \in Runs : SumAt(r)

LEMMA AddsZero == ASSUME NEW M, NEW f, \A d \in M : f[d] = 0
                  PROVE  \E s : Adds(s, M, f) /\ s[M] = 0
  <1> DEFINE s == [S \in SUBSET M |-> 0]
  <1>1. Adds(s, M, f) /\ s[M] = 0
    <2>1. s \in [SUBSET M -> Nat] /\ \A S \in SUBSET M : s[S] = 0
      OBVIOUS
    <2>2. {} \in SUBSET M /\ M \in SUBSET M /\ \A S \in SUBSET M : \A d \in M \ S : S \cup {d} \in SUBSET M
      OBVIOUS
    <2> HIDE DEF s
    <2>3. \A S \in SUBSET M : \A d \in M \ S : s[S \cup {d}] = s[S] + f[d]
      <3> SUFFICES ASSUME NEW S \in SUBSET M, NEW d \in M \ S PROVE s[S \cup {d}] = s[S] + f[d]
        OBVIOUS
      <3>1. s[S \cup {d}] = 0 /\ s[S] = 0 /\ f[d] = 0
        BY <2>1, <2>2, Zenon
      <3> QED
        BY <3>1
    <2> QED
      BY <2>1, <2>2, <2>3, Zenon DEF Adds
  <1> QED
    BY <1>1

ShareOf(c, M, f, g) ==
  /\ \A d \in M : f[d] \in Nat /\ g[d] \in Nat
  /\ \A d \in M : d # c => g[d] = f[d]

\* One member's share changes: the rest of the sum stays.
LEMMA AddsChange ==
  ASSUME NEW M, NEW f, NEW g, NEW s, Adds(s, M, f), NEW c \in M, ShareOf(c, M, f, g)
  PROVE  \E t : Adds(t, M, g) /\ t[M] + f[c] = s[M] + g[c] /\ t[M] \in Nat /\ s[M] \in Nat
                /\ f[c] <= s[M]
  <1> DEFINE t == [S \in SUBSET M |-> IF c \in S THEN s[S \ {c}] + g[c] ELSE s[S]]
  <1>1. /\ s \in [SUBSET M -> Nat] /\ s[{}] = 0
        /\ \A S \in SUBSET M : \A d \in M \ S : s[S \cup {d}] = s[S] + f[d]
        /\ \A S \in SUBSET M : (\A d \in S : f[d] = 0) => s[S] = 0
    BY Zenon DEF Adds
  <1>2. /\ \A d \in M : f[d] \in Nat /\ g[d] \in Nat
        /\ \A d \in M : d # c => g[d] = f[d]
    BY Zenon DEF ShareOf
  <1>3. \A S \in SUBSET M : s[S] \in Nat /\ S \ {c} \in SUBSET M
    BY <1>1
  <1>4. \A S \in SUBSET M : t[S] = IF c \in S THEN s[S \ {c}] + g[c] ELSE s[S]
    OBVIOUS
  <1>5. t \in [SUBSET M -> Nat]
    BY <1>2, <1>3
  <1> HIDE DEF t
  <1>6. {} \in SUBSET M /\ c \notin {}
    OBVIOUS
  <1>7. t[{}] = 0
    BY <1>1, <1>4, <1>6, Zenon
  <1>8. ASSUME NEW S \in SUBSET M, NEW d \in M \ S PROVE t[S \cup {d}] = t[S] + g[d]
    <2>1. S \cup {d} \in SUBSET M /\ f[d] \in Nat /\ g[d] \in Nat /\ g[c] \in Nat
      BY <1>2
    <2>2. CASE d = c
      <3>1. (S \cup {d}) \ {c} = S /\ c \in S \cup {d} /\ c \notin S
        BY <2>2
      <3>2. t[S \cup {d}] = s[S] + g[c] /\ t[S] = s[S]
        BY <1>4, <2>1, <3>1, Zenon
      <3> QED
        BY <2>2, <3>2
    <2>3. CASE d # c /\ c \in S
      <3>1. /\ (S \cup {d}) \ {c} = (S \ {c}) \cup {d} /\ c \in S \cup {d} /\ S \ {c} \in SUBSET M
            /\ d \in M \ (S \ {c})
        BY <2>3
      <3>2. t[S \cup {d}] = s[(S \ {c}) \cup {d}] + g[c] /\ t[S] = s[S \ {c}] + g[c]
        BY <1>4, <2>1, <2>3, <3>1, Zenon
      <3>3. s[(S \ {c}) \cup {d}] = s[S \ {c}] + f[d] /\ s[S \ {c}] \in Nat
        BY <1>1, <1>3, <3>1, Zenon
      <3>4. g[d] = f[d]
        BY <1>2, <2>3
      <3> QED
        BY <2>1, <3>2, <3>3, <3>4
    <2>4. CASE d # c /\ c \notin S
      <3>1. c \notin S \cup {d}
        BY <2>4
      <3>2. t[S \cup {d}] = s[S \cup {d}] /\ t[S] = s[S]
        BY <1>4, <2>1, <2>4, <3>1, Zenon
      <3>3. s[S \cup {d}] = s[S] + f[d]
        BY <1>1, Zenon
      <3>4. g[d] = f[d]
        BY <1>2, <2>4
      <3> QED
        BY <3>2, <3>3, <3>4
    <2> QED
      BY <2>2, <2>3, <2>4
  <1>9. ASSUME NEW S \in SUBSET M, \A d \in S : g[d] = 0 PROVE t[S] = 0
    <2>1. CASE c \in S
      <3>1. S \ {c} \in SUBSET M /\ \A d \in S \ {c} : f[d] = 0
        BY <1>2, <1>9
      <3>2. s[S \ {c}] = 0
        BY <1>1, <3>1, Zenon
      <3>3. t[S] = s[S \ {c}] + g[c] /\ g[c] = 0
        BY <1>4, <1>9, <2>1, Zenon
      <3> QED
        BY <3>2, <3>3
    <2>2. CASE c \notin S
      <3>1. \A d \in S : f[d] = 0
        BY <1>2, <1>9, <2>2
      <3>2. s[S] = 0
        BY <1>1, <3>1, Zenon
      <3> QED
        BY <1>4, <2>2, <3>2, Zenon
    <2> QED
      BY <2>1, <2>2
  <1>10. Adds(t, M, g)
    BY <1>5, <1>7, <1>8, <1>9, Zenon DEF Adds
  <1>11. t[M] = s[M \ {c}] + g[c] /\ s[M] = s[M \ {c}] + f[c] /\ s[M \ {c}] \in Nat
    <2>1. M \in SUBSET M /\ M \ {c} \in SUBSET M /\ c \in M \ (M \ {c}) /\ (M \ {c}) \cup {c} = M
      OBVIOUS
    <2>2. s[(M \ {c}) \cup {c}] = s[M \ {c}] + f[c]
      BY <1>1, <2>1, Zenon
    <2> QED
      BY <1>3, <1>4, <2>1, <2>2, Zenon
  <1>12. /\ t[M] + f[c] = s[M] + g[c] /\ t[M] \in Nat /\ s[M] \in Nat /\ f[c] <= s[M]
    <2>1. f[c] \in Nat /\ g[c] \in Nat
      BY <1>2
    <2> QED
      BY <1>11, <2>1
  <1> QED
    BY <1>10, <1>12, Zenon

\* The same sum over functions that agree on the members.
LEMMA AddsSame == ASSUME NEW M, NEW f, NEW g, NEW s, Adds(s, M, f), \A d \in M : g[d] = f[d]
                  PROVE  Adds(s, M, g)
  <1>1. /\ s \in [SUBSET M -> Nat] /\ s[{}] = 0
        /\ \A S \in SUBSET M : \A d \in M \ S : s[S \cup {d}] = s[S] + f[d]
        /\ \A S \in SUBSET M : (\A d \in S : f[d] = 0) => s[S] = 0
    BY Zenon DEF Adds
  <1>2. \A S \in SUBSET M : \A d \in M \ S : s[S \cup {d}] = s[S] + g[d]
    <2> SUFFICES ASSUME NEW S \in SUBSET M, NEW d \in M \ S PROVE s[S \cup {d}] = s[S] + g[d]
      OBVIOUS
    <2>1. d \in M
      OBVIOUS
    <2> QED
      BY <1>1, <2>1, Zenon
  <1>3. ASSUME NEW S \in SUBSET M, \A d \in S : g[d] = 0 PROVE s[S] = 0
    <2>1. \A d \in S : d \in M
      OBVIOUS
    <2> QED
      BY <1>1, <1>3, <2>1, Zenon
  <1> QED
    BY <1>1, <1>2, <1>3, Zenon DEF Adds

LEMMA SumCovers == ASSUME Sized, Kinds, Sums PROVE Covered
  <1> SUFFICES ASSUME NEW c \in Workers PROVE est[c] <= ledger[RunOf[c]].reserved
    BY DEF Covered
  <1> DEFINE r == RunOf[c]
  <1>1. r \in Runs /\ c \in Mine(r) /\ \A d \in Mine(r) : est[d] \in Nat
    BY DEF Sized, Mine, Kinds, PlaceKinds
  <1>2. ledger[r] \in Usage
    BY <1>1, BookTypes
  <1>3. ledger[r].reserved \in Nat
    BY <1>2, UsageFields
  <1>4. PICK s : Adds(s, Mine(r), est) /\ s[Mine(r)] = ledger[r].reserved
    BY <1>1, Zenon DEF Sums, SumAt, Summed
  <1>5. est[c] <= s[Mine(r)] /\ s[Mine(r)] \in Nat
    <2>1. ShareOf(c, Mine(r), est, est)
      BY <1>1, Zenon DEF ShareOf
    <2> QED
      BY <1>1, <1>4, <2>1, AddsChange, Zenon
  <1> QED
    BY <1>1, <1>3, <1>4, <1>5

LEMMA SumsKept ==
  ASSUME Sums, NEW r \in Runs, \A d \in Mine(r) : est'[d] = est[d],
         ledger'[r].reserved = ledger[r].reserved
  PROVE  SumAt(r)'
  <1>1. PICK s : /\ Adds(s, Mine(r), est) /\ s[Mine(r)] = ledger[r].reserved
    BY Zenon DEF Sums, SumAt, Summed
  <1>2. Adds(s, Mine(r), est')
    BY <1>1, AddsSame, Zenon
  <1>3. Summed(Mine(r), est', ledger'[r].reserved)
    BY <1>1, <1>2, Zenon DEF Summed
  <1> QED
    BY <1>3, Zenon DEF SumAt, Summed, Adds, Mine

\* One worker's reservation is opened or closed, in the ledger and for itself.
LEMMA SumsChange ==
  ASSUME Sized, Kinds, Sums, NEW c \in Workers, NEW r, r = RunOf[c], OnlyEst(c),
         ledger'[r].reserved \in Nat,
         ledger'[r].reserved + est[c] = ledger[r].reserved + est'[c]
  PROVE  SumAt(r)'
  <1>1. /\ r \in Runs /\ c \in Mine(r) /\ \A d \in Mine(r) : est[d] \in Nat /\ est'[d] \in Nat
        /\ \A d \in Mine(r) : d # c => est'[d] = est[d]
    BY DEF Sized, Mine, Kinds, PlaceKinds, OnlyEst
  <1>2. ledger[r] \in Usage
    BY <1>1, BookTypes
  <1>3. ledger[r].reserved \in Nat
    BY <1>2, UsageFields
  <1>4. PICK s : /\ Adds(s, Mine(r), est) /\ s[Mine(r)] = ledger[r].reserved
    BY <1>1, Zenon DEF Sums, SumAt, Summed
  <1>5. PICK t : /\ Adds(t, Mine(r), est') /\ t[Mine(r)] + est[c] = s[Mine(r)] + est'[c]
                 /\ t[Mine(r)] \in Nat /\ s[Mine(r)] \in Nat
    <2> DEFINE M == Mine(r)  f == est  g == est'
    <2>1. Adds(s, M, f) /\ c \in M /\ ShareOf(c, M, f, g)
      BY <1>1, <1>4, Zenon DEF ShareOf
    <2> HIDE DEF M, f, g
    <2>2. \E t : Adds(t, M, g) /\ t[M] + f[c] = s[M] + g[c] /\ t[M] \in Nat /\ s[M] \in Nat
                /\ f[c] <= s[M]
      BY <2>1, AddsChange
    <2> QED
      BY <2>2 DEF M, f, g
  <1>6. est[c] \in Nat /\ est'[c] \in Nat
    BY <1>1
  <1>7. t[Mine(r)] = ledger'[r].reserved
    BY <1>3, <1>4, <1>5, <1>6
  <1>8. Summed(Mine(r), est', ledger'[r].reserved)
    BY <1>5, <1>7, Zenon DEF Summed
  <1> QED
    BY <1>8, Zenon DEF SumAt, Summed, Adds, Mine

LEMMA SumsStep == ASSUME Sized, Kinds, OpenOnly, Sums, CallsNext, BookKinds' PROVE Sums'
  <1>1. /\ est \in [Workers -> Nat] /\ ledger \in [Runs -> Usage]
        /\ \A c \in Workers : RunOf[c] \in Runs
        /\ \A r \in Runs : \A d \in Mine(r) : d \in Workers /\ RunOf[d] = r
    BY DEF Kinds, PlaceKinds, BookKinds, Sized, Mine
  <1>2. ASSUME est' = est, \A q \in Runs : ledger'[q].reserved = ledger[q].reserved
        PROVE  Sums'
    BY <1>2, SumsKept, Zenon DEF Sums
  <1>3. ASSUME NEW c \in Workers,
               \/ Begin(c) \/ Finish(c) \/ GiveBack(c) \/ TakeFirst(c) \/ TakeSecond(c)
               \/ Deadline(c) \/ Unavailable(c) \/ Lapse(c) \/ Refused(c) \/ RetryRefused(c)
               \/ Close(c) \/ StartWrite(c) \/ EndWrite(c)
        PROVE  Sums'
    <2>1. UNCHANGED <<est, ledger>>
      BY <1>3, Zenon DEF Begin, Finish, GiveBack, TakeFirst, TakeSecond, Deadline, Unavailable,
         Lapse, Refused, RetryRefused, Close, StartWrite, EndWrite, place, books, env
    <2> QED
      BY <1>2, <2>1, Zenon
  <1>4. ASSUME NEW c \in Workers, Again(c) PROVE Sums'
    <2>1. /\ OnlyLedger(RunOf[c]) /\ ledger'[RunOf[c]].reserved = ledger[RunOf[c]].reserved
          /\ est' = est
      BY <1>1, <1>4, ConsumeAt, Zenon DEF Again, env
    <2> QED
      BY <1>2, <2>1, Zenon DEF OnlyLedger
  <1>5. ASSUME NEW c \in Workers, OnlyEst(c), OnlyLedger(RunOf[c]),
               ledger'[RunOf[c]].reserved + est[c] = ledger[RunOf[c]].reserved + est'[c]
        PROVE  Sums'
    <2>1. ASSUME NEW q \in Runs, q # RunOf[c] PROVE SumAt(q)'
      <3>1. \A d \in Mine(q) : est'[d] = est[d]
        BY <1>1, <1>5, <2>1, Zenon DEF OnlyEst
      <3>2. ledger'[q].reserved = ledger[q].reserved
        BY <1>5, <2>1, Zenon DEF OnlyLedger
      <3> QED
        BY <1>5, <3>1, <3>2, SumsKept, Zenon
    <2>2. SumAt(RunOf[c])'
      <3>1. ledger'[RunOf[c]] \in Usage
        BY <1>1, Zenon DEF BookKinds
      <3>2. ledger'[RunOf[c]].reserved \in Nat
        BY <3>1, UsageFields
      <3> QED
        BY <1>5, <3>2, SumsChange, Zenon
    <2> QED
      BY <2>1, <2>2, Zenon DEF Sums
  <1>6. ASSUME NEW c \in Workers, Send(c) \/ Retry(c) PROVE Sums'
    <2>1. at[c] \in {"slot", "backoff"}
          /\ \E again \in BOOLEAN : Reserve(c, again)
      BY <1>6, Zenon DEF Send, Retry, env
    <2>2. est[c] = 0
      BY <1>1, <2>1 DEF OpenOnly, OpenAt, Waiting
    <2>3. /\ OnlyEst(c) /\ OnlyLedger(RunOf[c]) /\ est'[c] \in Nat
          /\ ledger'[RunOf[c]].reserved = ledger[RunOf[c]].reserved + est'[c]
      BY <2>1, ReserveAt, Zenon
    <2>4. ledger[RunOf[c]].reserved \in Nat
      BY <1>1, UsageFields
    <2>5. ledger'[RunOf[c]].reserved + est[c] = ledger[RunOf[c]].reserved + est'[c]
      BY <2>2, <2>3, <2>4
    <2> QED
      BY <1>5, <2>1, <2>3, <2>5, Zenon
  <1>7. ASSUME NEW c \in Workers, NEW a \in Nat, Charge(c, a) PROVE Sums'
    <2>1. /\ OnlyEst(c) /\ OnlyLedger(RunOf[c]) /\ est'[c] = 0
          /\ ledger'[RunOf[c]].reserved = Max2(0, ledger[RunOf[c]].reserved - est[c])
      BY <1>7, ChargeAt, Zenon
    <2>2. ledger[RunOf[c]].reserved \in Nat /\ est[c] \in Nat
      BY <1>1, UsageFields
    <2>3. est[c] <= ledger[RunOf[c]].reserved
      BY SumCovers, Zenon DEF Covered
    <2>4. ledger'[RunOf[c]].reserved + est[c] = ledger[RunOf[c]].reserved + est'[c]
      BY <2>1, <2>2, <2>3 DEF Max2
    <2> QED
      BY <1>5, <1>7, <2>1, <2>4, Zenon
  <1>8. ASSUME NEW c \in Workers, Answer(c) \/ Fail(c) PROVE Sums'
    BY <1>7, <1>8, Actual, Zenon DEF Answer, Fail, env
  <1>9. ASSUME NEW c \in Workers, Interrupt(c) PROVE Sums'
    <2>1. CASE Charge(c, est[c])
      BY <1>7, <1>9, <2>1, Actual, Zenon DEF Interrupt
    <2>2. CASE UNCHANGED <<est, ledger>>
      BY <1>2, <1>9, <2>2, Zenon DEF Interrupt
    <2> QED
      BY <1>9, <2>1, <2>2, Zenon DEF Interrupt
  <1>10. ASSUME NEW k \in Keys, Expire(k) PROVE Sums'
    BY <1>2, <1>10, Zenon DEF Expire, place, books, env
  <1>11. ASSUME NEW r \in Runs, Die(r) PROVE Sums'
    BY <1>2, <1>11, Zenon DEF Die, books
  <1> QED
    BY <1>3, <1>4, <1>6, <1>8, <1>9, <1>10, <1>11, Zenon DEF CallsNext, Step

-----------------------------------------------------------------------------
(* The inductive invariant of the books, and what it says of the budget.   *)

BudgetInv == Kinds /\ WriterKept /\ OpenOnly /\ Balance /\ Sums

LEMMA InitBudget == ASSUME Sized, CallsInit PROVE BudgetInv
  <1>1. Kinds
    BY InitKinds
  <1>2. WriterKept
    BY DEF CallsInit, WriterKept, WriterAt
  <1>3. OpenOnly
    BY DEF CallsInit, OpenOnly
  <1>4. ASSUME NEW r \in Runs PROVE BooksAt(r) /\ SumAt(r)
    <2>1. /\ ledger[r] = NoUsage /\ column[r] = NoUsage /\ writer[r] = Idle /\ sent[r] = 0
          /\ extra[r] = 0 /\ \A d \in Mine(r) : est[d] = 0
      BY DEF CallsInit, Mine
    <2>2. U(r) = {} /\ P(r) = {}
      BY DEF CallsInit, U, P, Unsaved, Waiting, Mine
    <2>5. MaxTokens \in Nat /\ MaxRequests \in Nat /\ Cardinality({}) = 0
      BY FS_EmptySet DEF Sized
    <2>6. Balanced(NoUsage, NoUsage, Idle, 0, 0, {}, {})
      BY <2>5 DEF Balanced, Within, Upto, NoUsage
    <2>7. BooksAt(r)
      BY <2>1, <2>2, <2>6, Zenon DEF BooksAt
    <2>8. PICK s : Adds(s, Mine(r), est) /\ s[Mine(r)] = 0
      BY <2>1, AddsZero, Zenon
    <2>9. ledger[r].reserved = 0
      BY <2>1 DEF NoUsage
    <2>10. s[Mine(r)] = ledger[r].reserved
      BY <2>8, <2>9
    <2>11. SumAt(r)
      BY <2>8, <2>10, Zenon DEF SumAt, Summed
    <2> QED
      BY <2>7, <2>11
  <1> QED
    BY <1>1, <1>2, <1>3, <1>4, Zenon DEF BudgetInv, Balance, Sums

LEMMA BudgetInvStep == ASSUME Sized, BudgetInv, [CallsNext]_callVars PROVE BudgetInv'
  <1>1. CASE CallsNext
    BY <1>1, PlaceKindsStep, SlotKindsStep, BookKindsStep, WriterKeptStep, OpenOnlyStep, SumCovers,
       BalanceStep, SumsStep, Zenon DEF BudgetInv, Kinds
  <1>2. CASE UNCHANGED callVars
    <2>1. Kinds'
      BY <1>2, KindsStep, Zenon DEF BudgetInv
    <2>2. UNCHANGED <<at, then, ret, est, ledger, column, writer, sent, extra>>
      BY <1>2, Zenon DEF callVars, place, books, rows, env
    <2>3. WriterKept' /\ OpenOnly'
      BY <2>2, Zenon DEF BudgetInv, WriterKept, WriterAt, OpenOnly, OpenAt, Waiting
    <2>4. \A r \in Runs : U(r)' = U(r) /\ P(r)' = P(r)
      BY <2>2, Zenon DEF U, P, Mine, Unsaved, Waiting
    <2>5. Balance'
      BY <2>2, <2>4, Zenon DEF BudgetInv, Balance, BooksAt, Balanced, Within, Upto
    <2>6. Sums'
      BY <2>2, SumsKept, Zenon DEF BudgetInv, Sums
    <2> QED
      BY <2>1, <2>3, <2>5, <2>6 DEF BudgetInv
  <1> QED
    BY <1>1, <1>2

LEMMA BudgetFollows == ASSUME Sized, BudgetInv PROVE BudgetHolds
  <1>1. ASSUME NEW r \in Runs
        PROVE  /\ ledger[r].used + ledger[r].reserved <= MaxTokens + extra[r]
               /\ sent[r] <= MaxRequests
               /\ sent[r] <= column[r].requests + Cardinality({c \in Mine(r) : at[c] # "out"})
    <2>1. BooksAt(r) /\ Kinds
      BY Zenon DEF BudgetInv, Balance
    <2>2. /\ ledger[r] \in Usage /\ column[r] \in Usage /\ sent[r] \in Nat /\ IsFiniteSet(P(r))
          /\ IsFiniteSet(U(r)) /\ IsFiniteSet(Mine(r))
      BY <2>1, BookTypes, Crew
    <2>3. /\ Cardinality(P(r)) \in Nat /\ Cardinality(U(r)) \in Nat /\ ledger[r].requests \in Nat
          /\ column[r].requests \in Nat /\ MaxRequests \in Nat
      BY <2>2, FS_CardinalityType, UsageFields DEF Sized
    <2>4. /\ Within(ledger[r], extra[r])
          /\ sent[r] + Cardinality(P(r)) <= ledger[r].requests
          /\ sent[r] <= column[r].requests + Cardinality(U(r))
      BY <2>1, Zenon DEF BooksAt, Balanced
    <2>5. sent[r] <= MaxRequests
      BY <2>2, <2>3, <2>4 DEF Within
    <2> DEFINE B == {c \in Mine(r) : at[c] # "out"}
    <2>6. U(r) \subseteq B /\ B \in SUBSET Mine(r)
      BY DEF U, Unsaved
    <2>7. IsFiniteSet(B)
      BY <2>2, <2>6, FS_Subset
    <2> HIDE DEF B
    <2>8. Cardinality(U(r)) <= Cardinality(B) /\ Cardinality(B) \in Nat
      BY <2>6, <2>7, FS_Subset, FS_CardinalityType
    <2>9. sent[r] <= column[r].requests + Cardinality(B)
      BY <2>2, <2>3, <2>4, <2>8
    <2> QED
      BY <2>4, <2>5, <2>9 DEF Within, B
  <1>2. ASSUME NEW r \in Runs, \A c \in Mine(r) : at[c] = "out"
        PROVE  column[r] = ledger[r] /\ column[r].reserved = 0
    <2>1. BooksAt(r) /\ SumAt(r) /\ Kinds /\ OpenOnly
      BY Zenon DEF BudgetInv, Balance, Sums
    <2>2. U(r) = {}
      BY <1>2 DEF U, Unsaved
    <2>3. column[r] = ledger[r]
      BY <2>1, <2>2, Zenon DEF BooksAt, Balanced
    <2>4. \A d \in Mine(r) : est[d] = 0
      BY <1>2, <2>1 DEF Kinds, PlaceKinds, OpenOnly, OpenAt, Waiting, Mine
    <2>5. PICK s : Adds(s, Mine(r), est) /\ s[Mine(r)] = ledger[r].reserved
      BY <2>1, Zenon DEF SumAt, Summed
    <2>6. s[Mine(r)] = 0
      <3>1. Mine(r) \in SUBSET Mine(r)
        OBVIOUS
      <3> QED
        BY <2>4, <2>5, <3>1, Zenon DEF Adds
    <2> QED
      BY <2>3, <2>5, <2>6, Zenon
  <1> QED
    BY <1>1, <1>2, Zenon DEF BudgetHolds, WithinBudget, TokensWithin, RequestsWithin, RowFollows,
       BooksAgree

\* The tokens a run is charged and has reserved stay within its budget but for
\* what a provider reports in excess, and so do the requests that reach a
\* provider; its row misses at most one request of each worker that has not
\* ended, also when the process dies, and shows the whole ledger, without a
\* reservation, when all have: budget.py and persist_usage, whatever the
\* workers do at once.
THEOREM CallsWithinBudget == ASSUME Sized PROVE CallsSpec => []BudgetHolds
  BY InitBudget, BudgetInvStep, BudgetFollows, PTL DEF CallsSpec

\* The reservations of a run are those of its open attempts, and only an
\* attempt on its way to the provider has one, or had it when its process died.
THEOREM CallsReservations == ASSUME Sized PROVE CallsSpec => [](OpenOnly /\ Sums)
  <1>1. BudgetInv => OpenOnly /\ Sums
    BY DEF BudgetInv
  <1> QED
    BY <1>1, InitBudget, BudgetInvStep, PTL DEF CallsSpec

=============================================================================
