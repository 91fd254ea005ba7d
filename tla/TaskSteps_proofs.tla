--------------------------- MODULE TaskSteps_proofs ---------------------------
(***************************************************************************)
(* Proofs about TaskSteps, for every set of plans, any parallelism and any  *)
(* number of runs and troubles.  A run's part of the invariant is a set of  *)
(* facts about that run alone (RunInv), kept by the steps of its own worker *)
(* and trivially by those of the others (Frame); what a run took over from  *)
(* the run it resumes (Seeded) rests on the rows of an ended run being      *)
(* frozen (EndedStay).                                                      *)
(***************************************************************************)
EXTENDS TaskSteps, WellFoundedInduction, FiniteSetTheorems, TLAPS

USE DEF Terminal, Open, Working

-----------------------------------------------------------------------------
(* The invariant.                                                          *)

InDag == {"loop", "start", "wait", "reap"}

\* What comes before run_dag.
Before(r) ==
    /\ pc[r] = "idle" => status[r] = "none" /\ \A s \in Steps : rows[r][s] = "none"
    /\ pc[r] \in {"idle", "compile"} => active[r] = {} /\ \A s \in Steps : body[r][s] = "none"

\* What run_dag holds in memory is what the rows say.
InMemory(r) ==
    /\ \A s \in results[r] : rows[r][s] = "done"
    /\ \A s \in active[r] : rows[r][s] = "running" /\ body[r][s] # "none"
    /\ pc[r] \in InDag =>
          /\ \A s \in Steps : rows[r][s] = "done" => s \in results[r]
          /\ \A s \in Steps : body[r][s] # "none" =>
                s \in active[r] \cup results[r] \/ (pc[r] = "reap" /\ verdict[r] = "failed")

\* The nodes of the current loop may be started, or have ended.
InBatch(r) ==
    /\ pc[r] = "start" => \A s \in batch[r] :
          s \notin results[r] /\ body[r][s] = "none" /\ deps[s] \subseteq results[r]
    /\ pc[r] = "reap" => \A s \in batch[r] : s \in active[r] /\ body[r][s] \notin Working
    /\ pc[r] = "settle" => \A s \in active[r] : body[r][s] \notin Working

DependenciesMet(r) ==
    \A s \in Steps :
        body[r][s] \in Working => \A d \in deps[s] : d \in Steps /\ rows[r][d] = "done"

\* There is something to do, and what is done already stays done.
PlanKept(r) ==
    /\ pc[r] # "idle" => \E s \in Steps : plan[r][s] # "none"
    /\ pc[r] \in InDag => Present(r) # {} /\ \A s \in Steps : plan[r][s] = "done" => s \in results[r]
    /\ \A s \in Steps : plan[r][s] = "done" => rows[r][s] \in {"none", "done"} /\ body[r][s] = "none"

\* What the end of orchestrator.run finds.
Ending(r) ==
    /\ pc[r] \in {"unwind", "settle", "sweep"} => verdict[r] # "completed"
    /\ pc[r] \in {"sweep", "finish"} => active[r] = {}
    /\ pc[r] = "finish" => \/ faults > 0 \/ status[r] # "running"
                           \/ \A s \in Steps : rows[r][s] \notin Open
    /\ pc[r] = "finish" /\ verdict[r] = "completed" =>
          Present(r) # {} /\ \A s \in Present(r) : rows[r][s] = "done"

\* A result is on its way into its row, or there.
NotLost(r) ==
    faults = 0 /\ status[r] = "running" /\ pc[r] # "over" =>
        \A s \in Steps : body[r][s] = "ok" => s \in active[r] \/ rows[r][s] = "done"

\* What the worker leaves when it has ended its run.
Closed(r) ==
    /\ own[r] => pc[r] = "over" /\ status[r] \in Terminal
    /\ own[r] /\ faults = 0 => \A s \in Steps :
          rows[r][s] \notin Open /\ (body[r][s] = "ok" => rows[r][s] = "done")
    /\ status[r] = "completed" => Present(r) # {} /\ \A s \in Present(r) : rows[r][s] = "done"

RunInv(r) ==
    /\ Before(r) /\ InMemory(r) /\ InBatch(r) /\ DependenciesMet(r)
    /\ PlanKept(r) /\ Ending(r) /\ NotLost(r) /\ Closed(r)

\* A run resumes one that has ended and plans to keep what that one has done.
Seeded(r) ==
    source[r] \in Runs =>
        /\ status[source[r]] \in Terminal
        /\ \A s \in Steps : rows[source[r]][s] = "done" => plan[r][s] = "done"

Inv == Typed /\ \A r \in Runs : RunInv(r) /\ Seeded(r)

-----------------------------------------------------------------------------
(* Type correctness.                                                       *)

LEMMA RunsType == Runs \subseteq Nat \ {0} /\ 0 \notin Runs
  BY StepsAssumption DEF Runs

LEMMA InitTyped == Init => Typed
  BY StepsAssumption DEF Init, Typed, Kinds, Statuses, RowKinds, Places, BodyKinds

LEMMA LeastNat ==
    ASSUME NEW S \in SUBSET Nat, S # {}
    PROVE  \E s \in S : \A t \in S : s <= t
  <1> DEFINE Less == OpToRel(<, Nat)
  <1>1. IsWellFoundedOn(Less, Nat)
    BY NatLessThanWellFounded, Zenon
  <1>2. Less = {pair \in Nat \X Nat : pair[1] < pair[2]}
    BY Zenon DEF OpToRel
  <1> HIDE DEF Less
  <1>3. \E x \in S : \A y \in S : ~ (<<y, x>> \in Less)
    BY <1>1, WFMin, Zenon
  <1>4. \E s \in S : \A t \in S : ~ (t < s)
    BY <1>2, <1>3
  <1> QED
    BY <1>4

\* Every set of steps has a least one: the loops over rows and nodes take it next.
LEMMA LeastIn ==
    ASSUME NEW S \in SUBSET Steps, S # {}
    PROVE  Least(S) \in S /\ \A t \in S : Least(S) <= t
  <1>1. S \in SUBSET Nat
    BY StepsAssumption
  <1>2. \E s \in S : \A t \in S : s <= t
    BY <1>1, LeastNat, Zenon
  <1> QED
    BY <1>2, Zenon DEF Least

LEMMA AfterType == \A how \in {"ok", "error", "cancelled"} :
    /\ RowAfter(how) \in {"done", "failed", "cancelled"}
    /\ RowAfter(how) = "done" <=> how = "ok"
  BY DEF RowAfter

\* The rows of a run change only while it is running, and an ended run stays ended.
LEMMA EndedStay ==
    ASSUME Typed, Next, NEW r \in Runs, Before(r), status[r] \in Terminal
    PROVE  status'[r] = status[r] /\ rows'[r] = rows[r]
  <1> USE DEF Typed, Kinds, Fenced, Write, WriteRaises, Refused, Faulty
  <1>1. PICK q \in Runs : RunStep(q)
    BY Zenon DEF Next
  <1>2. CASE Begin(q)
    BY <1>2 DEF Begin, Before
  <1>3. CASE RequestCancel(q) \/ Notice(q) \/ Crash(q)
    BY <1>3 DEF RequestCancel, Notice, Crash
  <1>4. CASE EndedOutside(q)
    BY <1>4 DEF EndedOutside
  <1>5. CASE CompileRow(q)
    BY <1>5 DEF CompileRow
  <1>6. CASE StartNode(q)
    BY <1>6 DEF StartNode
  <1>7. CASE Reap(q)
    BY <1>7 DEF Reap
  <1>8. CASE Settle(q)
    BY <1>8 DEF Settle
  <1>9. CASE Sweep(q)
    BY <1>9 DEF Sweep
  <1>10. CASE Finish(q)
    BY <1>10 DEF Finish
  <1>11. CASE Compiled(q) \/ Loop(q) \/ Started(q) \/ Wake(q) \/ Reaped(q) \/ Unwind(q) \/ Settled(q)
    BY <1>11 DEF Compiled, Loop, Started, Wake, Reaped, Unwind, Settled
  <1>12. ASSUME NEW s \in Steps, BodyStep(q, s) PROVE status' = status /\ rows' = rows
    BY <1>12, Zenon DEF BodyStep, BodyOk, BodyError, BodyCancelled, BodyRetry, EndBody
  <1> QED
    BY <1>1, <1>2, <1>3, <1>4, <1>5, <1>6, <1>7, <1>8, <1>9, <1>10, <1>11, <1>12, Zenon
       DEF RunStep, WorkerStep

-----------------------------------------------------------------------------
(* A step of one run leaves the others alone.                              *)

Same(q) ==
    /\ status'[q] = status[q] /\ own'[q] = own[q] /\ plan'[q] = plan[q] /\ rows'[q] = rows[q]
    /\ pc'[q] = pc[q] /\ body'[q] = body[q] /\ active'[q] = active[q]
    /\ results'[q] = results[q] /\ batch'[q] = batch[q] /\ verdict'[q] = verdict[q]

LEMMA Others ==
    ASSUME Typed, NEW r \in Runs, RunStep(r), NEW q \in Runs, q # r
    PROVE  Same(q) /\ source'[q] = source[q]
  <1> USE DEF Typed, Kinds, Write, WriteRaises, Refused, Faulty, Goto, Raise, Same
  <1>1. CASE Begin(r)
    BY <1>1 DEF Begin
  <1>2. CASE RequestCancel(r) \/ Notice(r) \/ EndedOutside(r) \/ Crash(r)
    BY <1>2 DEF RequestCancel, Notice, EndedOutside, Crash
  <1>3. CASE CompileRow(r)
    BY <1>3 DEF CompileRow
  <1>4. CASE StartNode(r)
    BY <1>4 DEF StartNode
  <1>5. CASE Reap(r)
    BY <1>5 DEF Reap
  <1>6. CASE Settle(r)
    BY <1>6 DEF Settle
  <1>7. CASE Sweep(r)
    BY <1>7 DEF Sweep
  <1>8. CASE Finish(r)
    BY <1>8 DEF Finish
  <1>9. CASE Compiled(r) \/ Loop(r) \/ Started(r) \/ Wake(r) \/ Reaped(r) \/ Settled(r)
    BY <1>9 DEF Compiled, Loop, Started, Wake, Reaped, Settled
  <1>10. CASE Unwind(r)
    BY <1>10 DEF Unwind
  <1>11. ASSUME NEW s \in Steps, BodyStep(r, s) PROVE Same(q) /\ source'[q] = source[q]
    BY <1>11 DEF BodyStep, BodyOk, BodyError, BodyCancelled, BodyRetry, EndBody
  <1> QED
    BY <1>1, <1>2, <1>3, <1>4, <1>5, <1>6, <1>7, <1>8, <1>9, <1>10, <1>11, Zenon
       DEF RunStep, WorkerStep

\* The plan never changes, and troubles are only counted up.
LEMMA Counts ==
    ASSUME Typed, NEW r \in Runs, RunStep(r)
    PROVE  deps' = deps /\ faults' \in Nat /\ faults' >= faults
  <1> USE DEF Typed, Kinds, Write, WriteRaises, Refused, Faulty
  <1>1. CASE Begin(r) \/ RequestCancel(r) \/ Notice(r) \/ EndedOutside(r) \/ Crash(r)
    BY <1>1 DEF Begin, RequestCancel, Notice, EndedOutside, Crash
  <1>2. CASE CompileRow(r) \/ StartNode(r) \/ Reap(r) \/ Settle(r) \/ Sweep(r)
    BY <1>2 DEF CompileRow, StartNode, Reap, Settle, Sweep
  <1>3. CASE Finish(r) \/ Compiled(r) \/ Loop(r) \/ Started(r) \/ Wake(r) \/ Reaped(r)
              \/ Unwind(r) \/ Settled(r)
    BY <1>3 DEF Finish, Compiled, Loop, Started, Wake, Reaped, Unwind, Settled
  <1>4. ASSUME NEW s \in Steps, BodyStep(r, s) PROVE deps' = deps /\ faults' = faults
    BY <1>4, Zenon DEF BodyStep, BodyOk, BodyError, BodyCancelled, BodyRetry, EndBody
  <1> QED
    BY <1>1, <1>2, <1>3, <1>4 DEF RunStep, WorkerStep

LEMMA Frame ==
    ASSUME NEW q \in Runs, RunInv(q), Same(q), Typed, Typed',
           deps' = deps, faults' \in Nat, faults' >= faults
    PROVE  RunInv(q)'
  BY DEF Same, Typed, Kinds, RunInv, Before, InMemory, InBatch, DependenciesMet, PlanKept, Ending, NotLost,
         Closed, Present, InDag

\* The run that is resumed is the newest of the resumable ones.
LEMMA NewestIn ==
    ASSUME NEW S \in SUBSET Runs, S # {}
    PROVE  Newest(S) \in S
  <1> DEFINE Back == {n \in Nat : n <= MaxRuns /\ MaxRuns - n \in S}
  <1>1. S \subseteq Nat /\ \A q \in S : q <= MaxRuns
    BY StepsAssumption DEF Runs
  <1>2. Back \in SUBSET Nat /\ Back # {}
    <2>1. PICK q \in S : TRUE
      OBVIOUS
    <2>2. MaxRuns - q \in Back
      BY <1>1, <2>1, StepsAssumption
    <2> QED
      BY <2>2
  <1>3. PICK n \in Back : \A m \in Back : n <= m
    BY <1>2, LeastNat, Zenon
  <1>4. MaxRuns - n \in S
    BY <1>3
  <1>5. ASSUME NEW p \in S PROVE p <= MaxRuns - n
    <2>1. p \in Nat /\ p <= MaxRuns /\ MaxRuns \in Nat
      BY <1>1, StepsAssumption
    <2>2. MaxRuns - p \in Nat /\ MaxRuns - p <= MaxRuns /\ MaxRuns - (MaxRuns - p) = p
      BY <2>1
    <2>3. MaxRuns - p \in Back
      BY <2>2
    <2> HIDE DEF Back
    <2>4. n <= MaxRuns - p /\ n \in Nat
      BY <1>2, <1>3, <2>3
    <2> QED
      BY <2>1, <2>4
  <1> QED
    BY <1>4, <1>5, Zenon DEF Newest

Within(m) == {crashes, lost, faults} \subseteq Nat /\ crashes + lost + faults <= m

LEMMA TypedParts == Typed <=> Kinds /\ Within(MaxTroubles[deps])
  BY Zenon DEF Typed, Within

\* The bound on troubles is kept.
LEMMA WithinStep ==
    ASSUME Typed, NEW r \in Runs, RunStep(r), NEW m \in Nat, m = MaxTroubles[deps], Within(m)
    PROVE  Within(m)'
  <1> USE DEF Within, Write, WriteRaises, Refused, Faulty, Spared
  <1>1. CASE Begin(r) \/ RequestCancel(r) \/ Notice(r) \/ EndedOutside(r) \/ Crash(r)
    BY <1>1 DEF Begin, RequestCancel, Notice, EndedOutside, Crash
  <1>2. CASE CompileRow(r) \/ StartNode(r) \/ Reap(r) \/ Settle(r) \/ Sweep(r)
    BY <1>2 DEF CompileRow, StartNode, Reap, Settle, Sweep
  <1>3. CASE Finish(r) \/ Compiled(r) \/ Loop(r) \/ Started(r) \/ Wake(r) \/ Reaped(r)
              \/ Unwind(r) \/ Settled(r)
    BY <1>3 DEF Finish, Compiled, Loop, Started, Wake, Reaped, Unwind, Settled
  <1>4. ASSUME NEW s \in Steps, BodyStep(r, s)
        PROVE  faults' = faults /\ crashes' = crashes /\ lost' = lost
    BY <1>4, Zenon DEF BodyStep, BodyOk, BodyError, BodyCancelled, BodyRetry, EndBody
  <1> QED
    BY <1>1, <1>2, <1>3, <1>4 DEF RunStep, WorkerStep

LEMMA Put ==
    ASSUME NEW A, NEW B, NEW f \in [A -> B], NEW a \in A, NEW b \in B
    PROVE  [f EXCEPT ![a] = b] \in [A -> B]
  OBVIOUS

LEMMA PutIn ==
    ASSUME NEW A, NEW B, NEW C, NEW f \in [A -> [B -> C]], NEW a \in A, NEW b \in B, NEW c \in C
    PROVE  [f EXCEPT ![a][b] = c] \in [A -> [B -> C]]
  OBVIOUS

\* Every step keeps the types.
LEMMA KindsStep ==
    ASSUME Kinds, NEW r \in Runs, RunStep(r), \A s \in active[r] : body[r][s] # "none",
           pc[r] = "reap" => \A s \in batch[r] : s \in active[r] /\ body[r][s] \notin Working,
           pc[r] = "settle" => \A s \in active[r] : body[r][s] \notin Working
    PROVE  Kinds'
  <1>1. CASE Begin(r)
    <2>1. PICK q \in {0} \cup (IF Resumable = {} THEN {} ELSE {Newest(Resumable)}) :
             /\ source' = [source EXCEPT ![r] = q]
             /\ plan' = [plan EXCEPT ![r] =
                           IF q = 0 THEN FreshPlan
                           ELSE IF Present(q) = {} THEN FreshPlan ELSE SeedOf(q)]
      BY <1>1, Zenon DEF Begin
    <2>2. q \in 0 .. MaxRuns
      <3>1. Resumable \subseteq Runs
        BY Zenon DEF Resumable
      <3>2. q = 0 \/ q \in Runs
        BY <3>1, NewestIn, Zenon
      <3> QED
        BY <3>2, StepsAssumption DEF Runs
    <2>3. FreshPlan \in [Steps -> {"none", "pending", "done"}]
      BY DEF FreshPlan
    <2>4. SeedOf(q) \in [Steps -> {"none", "pending", "done"}]
      BY DEF SeedOf
    <2>5. source' \in [Runs -> 0 .. MaxRuns]
      BY <2>1, <2>2, Put, Zenon DEF Kinds
    <2>6. plan' \in [Runs -> [Steps -> {"none", "pending", "done"}]]
      BY <2>1, <2>3, <2>4, Put, Zenon DEF Kinds
    <2>7. status' \in [Runs -> Statuses]
      BY <1>1 DEF Begin, Kinds, Statuses
    <2>8. pc' \in [Runs -> Places]
      BY <1>1 DEF Begin, Kinds, Goto, Places
    <2> QED
      BY <1>1, <2>5, <2>6, <2>7, <2>8, Zenon DEF Begin, Kinds
  <1>2. CASE RequestCancel(r)
    <2>1. cancelReq' \in [Runs -> BOOLEAN]
      BY <1>2 DEF RequestCancel, Kinds
    <2> QED
      BY <1>2, <2>1, Zenon DEF RequestCancel, Kinds
  <1>3. CASE Notice(r)
    <2>1. event' \in [Runs -> {"no", "cancel", "lease"}]
      BY <1>3 DEF Notice, Kinds
    <2> QED
      BY <1>3, <2>1, Zenon DEF Notice, Kinds
  <1>4. CASE EndedOutside(r)
    <2>1. status' \in [Runs -> Statuses]
      BY <1>4 DEF EndedOutside, Kinds, Statuses
    <2> QED
      BY <1>4, <2>1, Zenon DEF EndedOutside, Kinds
  <1>5. CASE Crash(r)
    <2>1. pc' \in [Runs -> Places] /\ active' \in [Runs -> SUBSET Steps]
      BY <1>5 DEF Crash, Kinds, Goto, Places
    <2> QED
      BY <1>5, <2>1, Zenon DEF Crash, Kinds
  <1>6. CASE CompileRow(r)
    <2>1. Missing(r) \in SUBSET Steps
      BY Zenon DEF Missing
    <2>2. Least(Missing(r)) \in Missing(r)
      BY <1>6, <2>1, LeastIn, Zenon DEF CompileRow
    <2>3. Least(Missing(r)) \in Steps /\ plan[r][Least(Missing(r))] \in RowKinds
      BY <2>1, <2>2 DEF Kinds, RowKinds
    <2>4. rows' \in [Runs -> [Steps -> RowKinds]]
      <3>1. [rows EXCEPT ![r][Least(Missing(r))] = plan[r][Least(Missing(r))]]
              \in [Runs -> [Steps -> RowKinds]]
        BY <2>3, PutIn, Zenon DEF Kinds
      <3> QED
        BY <1>6, <3>1, Zenon DEF CompileRow, Write, WriteRaises, Refused, Faulty, Kinds
    <2>5. pc' \in [Runs -> Places] /\ verdict' \in [Runs -> Terminal]
      BY <1>6 DEF CompileRow, Kinds, Goto, Places
    <2> QED
      BY <1>6, <2>4, <2>5, Zenon DEF CompileRow, Kinds
  <1>7. CASE StartNode(r)
    <2>1. Least(batch[r]) \in Steps
      BY <1>7, LeastIn DEF StartNode, Kinds
    <2>2. rows' \in [Runs -> [Steps -> RowKinds]]
      <3>1. [rows EXCEPT ![r][Least(batch[r])] = "running"] \in [Runs -> [Steps -> RowKinds]]
        BY <2>1, PutIn DEF Kinds, RowKinds
      <3> QED
        BY <1>7, <3>1, Zenon DEF StartNode, Write, WriteRaises, Refused, Faulty, Kinds
    <2>3. body' \in [Runs -> [Steps -> BodyKinds]]
      <3>1. [body EXCEPT ![r][Least(batch[r])] = "first"] \in [Runs -> [Steps -> BodyKinds]]
        BY <2>1, PutIn DEF Kinds, BodyKinds
      <3> QED
        BY <1>7, <3>1, Zenon DEF StartNode, Kinds
    <2>4. active' \in [Runs -> SUBSET Steps] /\ batch' \in [Runs -> SUBSET Steps]
      <3>1. [active EXCEPT ![r] = @ \cup {Least(batch[r])}] \in [Runs -> SUBSET Steps]
        BY <2>1 DEF Kinds
      <3>2. [batch EXCEPT ![r] = @ \ {Least(batch[r])}] \in [Runs -> SUBSET Steps]
        BY DEF Kinds
      <3>3. [batch EXCEPT ![r] = {}] \in [Runs -> SUBSET Steps]
        BY DEF Kinds
      <3> QED
        BY <1>7, <3>1, <3>2, <3>3, Zenon DEF StartNode, Raise, Kinds
    <2>5. pc' \in [Runs -> Places] /\ verdict' \in [Runs -> Terminal]
      BY <1>7 DEF StartNode, Raise, Goto, Places, Kinds
    <2> QED
      BY <1>7, <2>2, <2>3, <2>4, <2>5, Zenon DEF StartNode, Kinds
  <1>8. CASE Reap(r)
    <2>1. Least(batch[r]) \in batch[r] /\ Least(batch[r]) \in Steps
      BY <1>8, LeastIn DEF Reap, Kinds
    <2>2. RowAfter(body[r][Least(batch[r])]) \in RowKinds
      <3>1. body[r][Least(batch[r])] \in {"ok", "error", "cancelled"}
        BY <1>8, <2>1 DEF Reap, Kinds, BodyKinds
      <3> QED
        BY <3>1, AfterType DEF RowKinds
    <2>3. rows' \in [Runs -> [Steps -> RowKinds]]
      <3>1. [rows EXCEPT ![r][Least(batch[r])] = RowAfter(body[r][Least(batch[r])])]
              \in [Runs -> [Steps -> RowKinds]]
        BY <2>1, <2>2, PutIn, Zenon DEF Kinds
      <3> QED
        BY <1>8, <3>1, Zenon DEF Reap, Write, WriteRaises, Refused, Faulty, Kinds
    <2>4. active' \in [Runs -> SUBSET Steps] /\ batch' \in [Runs -> SUBSET Steps]
      <3>1. [active EXCEPT ![r] = @ \ {Least(batch[r])}] \in [Runs -> SUBSET Steps]
        BY DEF Kinds
      <3>2. [batch EXCEPT ![r] = @ \ {Least(batch[r])}] \in [Runs -> SUBSET Steps]
        BY DEF Kinds
      <3>3. [batch EXCEPT ![r] = {}] \in [Runs -> SUBSET Steps]
        BY DEF Kinds
      <3> QED
        BY <1>8, <3>1, <3>2, <3>3, Zenon DEF Reap, Raise, Kinds
    <2>5. results' \in [Runs -> SUBSET Steps]
      BY <1>8, <2>1 DEF Reap, Kinds
    <2>6. pc' \in [Runs -> Places] /\ verdict' \in [Runs -> Terminal]
      BY <1>8 DEF Reap, Raise, Goto, Places, Kinds
    <2> QED
      BY <1>8, <2>3, <2>4, <2>5, <2>6, Zenon DEF Reap, Kinds
  <1>9. CASE Settle(r)
    <2>1. PICK s \in active[r] :
             /\ active' = [active EXCEPT ![r] = @ \ {s}]
             /\ \/ Fenced(r) /\ Write(r, s, SettleAs(body[r][s]))
                \/ WriteRaises(r, s, SettleAs(body[r][s]))
      BY <1>9, Zenon DEF Settle
    <2>2. s \in Steps
      BY Zenon DEF Kinds
    <2>3. SettleAs(body[r][s]) \in RowKinds
      <3>1. body[r][s] \in {"ok", "error", "cancelled"}
        BY <1>9, <2>2 DEF Settle, Kinds, BodyKinds
      <3> QED
        BY <3>1, AfterType DEF RowKinds, SettleAs
    <2>4. rows' \in [Runs -> [Steps -> RowKinds]]
      <3>1. [rows EXCEPT ![r][s] = SettleAs(body[r][s])] \in [Runs -> [Steps -> RowKinds]]
        BY <2>2, <2>3, PutIn, Zenon DEF Kinds
      <3> QED
        BY <2>1, <3>1, Zenon DEF Write, WriteRaises, Refused, Faulty, Kinds
    <2>5. active' \in [Runs -> SUBSET Steps]
      BY <2>1 DEF Kinds
    <2> QED
      BY <1>9, <2>4, <2>5, Zenon DEF Settle, Kinds
  <1>10. CASE Sweep(r)
    <2>1. Unfinished(r) # {} => Least(Unfinished(r)) \in Steps
      <3>1. Unfinished(r) \in SUBSET Steps
        BY Zenon DEF Unfinished, RowsIn
      <3> QED
        BY <3>1, LeastIn
    <2>2. rows' \in [Runs -> [Steps -> RowKinds]]
      <3>1. Unfinished(r) # {} =>
              [rows EXCEPT ![r][Least(Unfinished(r))] = "cancelled"] \in [Runs -> [Steps -> RowKinds]]
        BY <2>1, PutIn DEF Kinds, RowKinds
      <3> QED
        BY <1>10, <3>1, Zenon DEF Sweep, Write, WriteRaises, Refused, Faulty, Kinds
    <2>3. pc' \in [Runs -> Places]
      BY <1>10 DEF Sweep, Kinds, Goto, Places
    <2> QED
      BY <1>10, <2>2, <2>3, Zenon DEF Sweep, Kinds
  <1>11. CASE Finish(r)
    <2>1. status' \in [Runs -> Statuses] /\ own' \in [Runs -> BOOLEAN]
      BY <1>11 DEF Finish, Kinds, Statuses
    <2>2. pc' \in [Runs -> Places]
      BY <1>11 DEF Finish, Kinds, Goto, Places
    <2> QED
      BY <1>11, <2>1, <2>2, Zenon DEF Finish, Kinds
  <1>12. CASE Compiled(r)
    <2>1. pc' \in [Runs -> Places] /\ verdict' \in [Runs -> Terminal]
      BY <1>12 DEF Compiled, Kinds, Goto, Places
    <2>2. results' \in [Runs -> SUBSET Steps]
      BY <1>12 DEF Compiled, Kinds, RowsIn
    <2> QED
      BY <1>12, <2>1, <2>2, Zenon DEF Compiled, Kinds
  <1>13. CASE Loop(r)
    <2>1. Startable(r) \in SUBSET Steps
      BY Zenon DEF Startable, FirstOf, Ready, Pending, Present
    <2>2. batch' \in [Runs -> SUBSET Steps]
      BY <1>13, <2>1 DEF Loop, Raise, Kinds
    <2>3. pc' \in [Runs -> Places] /\ verdict' \in [Runs -> Terminal]
      BY <1>13 DEF Loop, Raise, Goto, Places, Kinds
    <2> QED
      BY <1>13, <2>2, <2>3, Zenon DEF Loop, Kinds
  <1>14. CASE Started(r) \/ Reaped(r)
    <2>1. batch' \in [Runs -> SUBSET Steps]
      <3>1. [batch EXCEPT ![r] = {}] \in [Runs -> SUBSET Steps]
        BY DEF Kinds
      <3> QED
        BY <1>14, <3>1, Zenon DEF Started, Reaped, Raise, Kinds
    <2>2. pc' \in [Runs -> Places] /\ verdict' \in [Runs -> Terminal]
      BY <1>14 DEF Started, Reaped, Raise, Goto, Places, Kinds
    <2> QED
      BY <1>14, <2>1, <2>2, Zenon DEF Started, Reaped, Kinds
  <1>15. CASE Wake(r)
    <2>1. batch' \in [Runs -> SUBSET Steps] /\ honor' \in [Runs -> BOOLEAN]
      BY <1>15 DEF Wake, Ended, Kinds
    <2>2. pc' \in [Runs -> Places] /\ verdict' \in [Runs -> Terminal]
      BY <1>15 DEF Wake, Goto, Places, Kinds
    <2> QED
      BY <1>15, <2>1, <2>2, Zenon DEF Wake, Kinds
  <1>16. CASE Unwind(r)
    <2>1. body' \in [Runs -> [Steps -> BodyKinds]]
      BY <1>16 DEF Unwind, Kinds, BodyKinds
    <2>2. pc' \in [Runs -> Places]
      BY <1>16 DEF Unwind, Kinds, Goto, Places
    <2> QED
      BY <1>16, <2>1, <2>2, Zenon DEF Unwind, Kinds
  <1>17. CASE Settled(r)
    <2>1. pc' \in [Runs -> Places]
      BY <1>17 DEF Settled, Kinds, Goto, Places
    <2> QED
      BY <1>17, <2>1, Zenon DEF Settled, Kinds
  <1>18. ASSUME NEW s \in Steps, BodyStep(r, s) PROVE Kinds'
    <2>1. PICK how \in BodyKinds : EndBody(r, s, how)
      BY <1>18 DEF BodyStep, BodyOk, BodyError, BodyCancelled, BodyRetry, BodyKinds
    <2>2. body' \in [Runs -> [Steps -> BodyKinds]]
      BY <2>1, PutIn DEF EndBody, Kinds
    <2> QED
      BY <2>1, <2>2, Zenon DEF EndBody, Kinds
  <1> QED
    BY <1>1, <1>2, <1>3, <1>4, <1>5, <1>6, <1>7, <1>8, <1>9, <1>10, <1>11, <1>12, <1>13, <1>14,
       <1>15, <1>16, <1>17, <1>18, Zenon DEF RunStep, WorkerStep

LEMMA TypedStep ==
    ASSUME Typed, NEW r \in Runs, RunStep(r), RunInv(r)
    PROVE  Typed'
  <1>1. PICK m \in Nat : m = MaxTroubles[deps]
    BY StepsAssumption, Zenon DEF Typed, Kinds
  <1>2. Kinds /\ Within(m)
    BY <1>1, TypedParts, Zenon
  <1>3. Within(m)'
    BY <1>1, <1>2, WithinStep, Zenon
  <1>4. MaxTroubles[deps'] = m
    BY <1>1, Counts, Zenon
  <1>5. Kinds'
    BY <1>2, KindsStep, Zenon DEF RunInv, InMemory, InBatch
  <1> QED
    BY <1>3, <1>4, <1>5, Zenon DEF Typed, Within

-----------------------------------------------------------------------------
(* The steps of a run's own worker.                                        *)

\* What the steps below use of the types.
At(r) ==
    /\ status[r] \in Statuses /\ cancelReq[r] \in BOOLEAN /\ own[r] \in BOOLEAN
    /\ plan[r] \in [Steps -> {"none", "pending", "done"}] /\ rows[r] \in [Steps -> RowKinds]
    /\ pc[r] \in Places /\ body[r] \in [Steps -> BodyKinds]
    /\ active[r] \in SUBSET Steps /\ results[r] \in SUBSET Steps /\ batch[r] \in SUBSET Steps
    /\ event[r] \in {"no", "cancel", "lease"} /\ verdict[r] \in Terminal

LEMMA TypedAt == ASSUME Typed, NEW r \in Runs PROVE At(r)
  <1>1. Kinds
    BY TypedParts, Zenon
  <1> QED
    BY <1>1 DEF Kinds, At

\* The rows and bodies of r, and what came before, stay.
Quiet(r) ==
    /\ own'[r] = own[r] /\ plan'[r] = plan[r] /\ rows'[r] = rows[r] /\ body'[r] = body[r]
    /\ deps' = deps /\ faults' = faults

LEMMA LoopStep ==
    ASSUME Typed, NEW r \in Runs, RunInv(r), Loop(r)
    PROVE  RunInv(r)'
  <1>1. Quiet(r) /\ active'[r] = active[r] /\ results'[r] = results[r] /\ status'[r] = status[r]
    BY Zenon DEF Loop, Quiet
  <1>2. pc[r] = "loop" /\ At(r)
    BY TypedAt, Zenon DEF Loop
  <1>3. \/ pc'[r] = "unwind" /\ verdict'[r] = "cancelled" /\ batch'[r] = {}
        \/ /\ pc'[r] = "finish" /\ verdict'[r] = "completed"
           /\ Pending(r) = {} /\ active[r] = {} /\ batch'[r] = batch[r]
        \/ pc'[r] = "start" /\ verdict'[r] = verdict[r] /\ batch'[r] = Startable(r)
    BY TypedParts DEF Loop, Raise, Goto, Kinds
  <1>4. Startable(r) \subseteq Ready(r)
    BY DEF Startable, FirstOf
  <1> USE <1>1, <1>2 DEF RunInv, Quiet
  <1>5. Before(r)' /\ DependenciesMet(r)' /\ NotLost(r)' /\ Closed(r)'
    BY <1>3 DEF Before, DependenciesMet, NotLost, Closed, Present
  <1>6. InMemory(r)'
    BY <1>3 DEF InMemory, InDag
  <1>7. InBatch(r)'
    BY <1>3, <1>4 DEF InBatch, Ready, Pending
  <1>8. PlanKept(r)'
    BY <1>3 DEF PlanKept, InDag, Present
  <1>9. Ending(r)'
    BY <1>3 DEF Ending, InMemory, InDag, Pending, Present, PlanKept
  <1> QED
    BY <1>5, <1>6, <1>7, <1>8, <1>9

LEMMA BeginStep ==
    ASSUME Typed, NEW r \in Runs, RunInv(r), Begin(r)
    PROVE  RunInv(r)'
  <1>1. PICK q \in {0} \cup (IF Resumable = {} THEN {} ELSE {Newest(Resumable)}) :
           plan' = [plan EXCEPT ![r] = IF q = 0 THEN FreshPlan
                                       ELSE IF Present(q) = {} THEN FreshPlan ELSE SeedOf(q)]
    BY Zenon DEF Begin
  <1>2. \E s \in Steps : plan'[r][s] # "none"
    <2>1. DOMAIN deps \subseteq Steps /\ DOMAIN deps # {}
      BY StepsAssumption, Zenon DEF Typed, Kinds
    <2>2. PICK s \in Steps : s \in DOMAIN deps
      BY <2>1, Zenon
    <2>3. FreshPlan[s] # "none"
      BY <2>2 DEF FreshPlan
    <2>4. Present(q) # {} => \E t \in Steps : SeedOf(q)[t] # "none"
      BY DEF Present, SeedOf
    <2>5. plan'[r] = IF q = 0 THEN FreshPlan
                     ELSE IF Present(q) = {} THEN FreshPlan ELSE SeedOf(q)
      BY <1>1, Zenon DEF Typed, Kinds
    <2> QED
      BY <2>3, <2>4, <2>5, Zenon
  <1>3. /\ own'[r] = own[r] /\ rows'[r] = rows[r] /\ body'[r] = body[r] /\ active'[r] = active[r]
        /\ results'[r] = results[r] /\ verdict'[r] = verdict[r] /\ faults' = faults /\ deps' = deps
    BY Zenon DEF Begin
  <1>4. pc[r] = "idle" /\ At(r)
    BY TypedAt, Zenon DEF Begin
  <1>5. pc'[r] = "compile" /\ status'[r] = "running"
    BY TypedParts DEF Begin, Goto, Kinds
  <1>6. /\ status[r] = "none" /\ active[r] = {}
        /\ \A s \in Steps : rows[r][s] = "none" /\ body[r][s] = "none"
    BY <1>4, Zenon DEF RunInv, Before
  <1>7. Before(r)' /\ InBatch(r)' /\ Ending(r)'
    BY <1>3, <1>5, <1>6 DEF Before, InBatch, Ending
  <1>8. InMemory(r)'
    BY <1>3, <1>5, <1>6 DEF RunInv, InMemory, InDag
  <1>9. DependenciesMet(r)'
    BY <1>3, <1>6 DEF DependenciesMet
  <1>10. PlanKept(r)'
    BY <1>2, <1>3, <1>5, <1>6 DEF PlanKept, InDag
  <1>11. NotLost(r)' /\ Closed(r)'
    BY <1>3, <1>4, <1>5, <1>6 DEF RunInv, NotLost, Closed
  <1> QED
    BY <1>7, <1>8, <1>9, <1>10, <1>11 DEF RunInv

LEMMA OutsideStep ==
    ASSUME Typed, NEW r \in Runs, RunInv(r),
           RequestCancel(r) \/ Notice(r) \/ EndedOutside(r) \/ Crash(r)
    PROVE  RunInv(r)'
  <1>1. /\ Quiet(r) /\ results'[r] = results[r] /\ batch'[r] = batch[r] /\ verdict'[r] = verdict[r]
    BY Zenon DEF Quiet, RequestCancel, Notice, EndedOutside, Crash
  <1>2. At(r)
    BY TypedAt, Zenon
  <1>3. \/ pc'[r] = pc[r] /\ active'[r] = active[r] /\ status'[r] = status[r]
        \/ /\ pc'[r] = pc[r] /\ active'[r] = active[r]
           /\ status[r] = "running" /\ status'[r] \in {"cancelled", "failed"}
        \/ pc'[r] = "over" /\ active'[r] = {} /\ status'[r] = status[r]
    BY TypedParts DEF RequestCancel, Notice, EndedOutside, Crash, Kinds, Goto
  <1> USE <1>1, <1>2, <1>3 DEF RunInv, Quiet
  <1>4. Before(r)' /\ Ending(r)'
    BY DEF Before, Ending, Present
  <1>5. InMemory(r)' /\ InBatch(r)'
    BY DEF InMemory, InBatch, InDag
  <1>6. DependenciesMet(r)'
    BY DEF DependenciesMet
  <1>7. PlanKept(r)'
    <2>1. pc'[r] = pc[r] \/ (pc'[r] = "over" /\ pc[r] # "idle")
      <3>1. pc' = pc \/ (Goto(r, "over") /\ pc[r] \notin {"idle", "over"})
        BY Zenon DEF RequestCancel, Notice, EndedOutside, Crash
      <3>2. pc \in [Runs -> Places]
        BY TypedParts, Zenon DEF Kinds
      <3> QED
        BY <3>1, <3>2 DEF Goto
    <2>2. /\ pc[r] # "idle" => \E s \in Steps : plan[r][s] # "none"
          /\ \A s \in Steps : plan[r][s] = "done" => rows[r][s] \in {"none", "done"} /\ body[r][s] = "none"
      BY DEF PlanKept
    <2>3. pc'[r] \in InDag => Present(r)' # {} /\ \A s \in Steps : plan'[r][s] = "done" => s \in results'[r]
      BY <2>1 DEF PlanKept, InDag, Present
    <2> QED
      BY <2>1, <2>2, <2>3 DEF PlanKept
  <1>8. NotLost(r)' /\ Closed(r)'
    BY DEF NotLost, Closed, Present
  <1> QED
    BY <1>4, <1>5, <1>6, <1>7, <1>8

LEMMA StartedStep ==
    ASSUME Typed, NEW r \in Runs, RunInv(r), Started(r)
    PROVE  RunInv(r)'
  <1>1. Quiet(r) /\ active'[r] = active[r] /\ results'[r] = results[r] /\ status'[r] = status[r]
    BY Zenon DEF Started, Quiet
  <1>2. At(r) /\ pc[r] = "start"
    BY TypedAt, Zenon DEF Started
  <1>3. \/ pc'[r] = "unwind" /\ verdict'[r] = "failed"
        \/ pc'[r] = "wait" /\ verdict'[r] = verdict[r]
    BY TypedParts DEF Started, Raise, Goto, Kinds
  <1> QED
    BY <1>1, <1>2, <1>3 DEF Quiet, RunInv, Before, InMemory, InBatch, DependenciesMet, PlanKept,
       Ending, NotLost, Closed, InDag, Present

LEMMA WakeStep ==
    ASSUME Typed, NEW r \in Runs, RunInv(r), Wake(r)
    PROVE  RunInv(r)'
  <1>1. Quiet(r) /\ active'[r] = active[r] /\ results'[r] = results[r] /\ status'[r] = status[r]
    BY Zenon DEF Wake, Quiet
  <1>2. At(r) /\ pc[r] = "wait"
    BY TypedAt, Zenon DEF Wake
  <1>3. pc'[r] = "reap" /\ verdict'[r] = "completed" /\ batch'[r] = Ended(r)
    BY TypedParts DEF Wake, Goto, Kinds
  <1> QED
    BY <1>1, <1>2, <1>3 DEF Quiet, RunInv, Before, InMemory, InBatch, DependenciesMet, PlanKept,
       Ending, NotLost, Closed, InDag, Present, Ended

LEMMA ReapedStep ==
    ASSUME Typed, NEW r \in Runs, RunInv(r), Reaped(r)
    PROVE  RunInv(r)'
  <1>1. Quiet(r) /\ active'[r] = active[r] /\ results'[r] = results[r] /\ status'[r] = status[r]
    BY Zenon DEF Reaped, Quiet
  <1>2. At(r) /\ pc[r] = "reap"
    BY TypedAt, Zenon DEF Reaped
  <1>3. \/ pc'[r] = "unwind" /\ verdict'[r] \in {"cancelled", "failed"}
        \/ pc'[r] = "loop" /\ verdict'[r] = verdict[r] /\ verdict[r] # "failed"
    BY TypedParts DEF Reaped, Raise, Goto, Kinds
  <1> QED
    BY <1>1, <1>2, <1>3 DEF Quiet, RunInv, Before, InMemory, InBatch, DependenciesMet, PlanKept,
       Ending, NotLost, Closed, InDag, Present

LEMMA SettledStep ==
    ASSUME Typed, NEW r \in Runs, RunInv(r), Settled(r)
    PROVE  RunInv(r)'
  <1>1. /\ Quiet(r) /\ active'[r] = active[r] /\ results'[r] = results[r] /\ status'[r] = status[r]
        /\ batch'[r] = batch[r] /\ verdict'[r] = verdict[r]
    BY Zenon DEF Settled, Quiet
  <1>2. At(r) /\ pc[r] = "settle" /\ active[r] = {}
    BY TypedAt, Zenon DEF Settled
  <1>3. pc'[r] \in {"over", "sweep"}
    BY TypedParts DEF Settled, Goto, Kinds
  <1> QED
    BY <1>1, <1>2, <1>3 DEF Quiet, RunInv, Before, InMemory, InBatch, DependenciesMet, PlanKept,
       Ending, NotLost, Closed, InDag, Present

LEMMA CompiledStep ==
    ASSUME Typed, NEW r \in Runs, RunInv(r), Compiled(r)
    PROVE  RunInv(r)'
  <1>1. Quiet(r) /\ active'[r] = active[r] /\ status'[r] = status[r] /\ batch'[r] = batch[r]
    BY Zenon DEF Compiled, Quiet
  <1>2. At(r) /\ pc[r] = "compile" /\ Missing(r) = {}
    BY TypedAt, Zenon DEF Compiled
  <1>3. /\ results'[r] = RowsIn(r, {"done"})
        /\ \/ pc'[r] = "loop" /\ verdict'[r] = verdict[r]
           \/ pc'[r] = "sweep" /\ verdict'[r] = "failed"
    BY TypedParts DEF Compiled, Goto, Kinds
  <1>4. \E s \in Steps : rows[r][s] # "none"
    BY <1>2 DEF RunInv, PlanKept, Missing
  <1>5. \A s \in Steps : plan[r][s] = "done" => rows[r][s] = "done"
    BY <1>2 DEF RunInv, PlanKept, Missing
  <1> QED
    BY <1>1, <1>2, <1>3, <1>4, <1>5 DEF Quiet, RunInv, Before, InMemory, InBatch, DependenciesMet,
       PlanKept, Ending, NotLost, Closed, InDag, Present, RowsIn

LEMMA UnwindStep ==
    ASSUME Typed, NEW r \in Runs, RunInv(r), Unwind(r)
    PROVE  RunInv(r)'
  <1>1. /\ own'[r] = own[r] /\ plan'[r] = plan[r] /\ rows'[r] = rows[r] /\ deps' = deps
        /\ faults' = faults /\ active'[r] = active[r] /\ results'[r] = results[r]
        /\ status'[r] = status[r] /\ batch'[r] = batch[r] /\ verdict'[r] = verdict[r]
    BY Zenon DEF Unwind
  <1>2. At(r) /\ pc[r] = "unwind"
    BY TypedAt, Zenon DEF Unwind
  <1>3. /\ pc'[r] = "settle"
        /\ \A s \in Steps : IF s \in active[r] /\ body[r][s] \in Working
                            THEN body'[r][s] \in {"cancelled", "error"}
                            ELSE body'[r][s] = body[r][s]
    BY TypedParts DEF Unwind, Goto, Kinds
  <1> USE <1>1, <1>2, <1>3 DEF RunInv
  <1>4. Before(r)' /\ Ending(r)'
    BY DEF Before, Ending
  <1>5. InMemory(r)'
    BY DEF InMemory, InDag, At
  <1>6. InBatch(r)'
    BY DEF InBatch, InMemory, At
  <1>7. DependenciesMet(r)'
    BY DEF DependenciesMet
  <1>8. PlanKept(r)'
    BY DEF PlanKept, InDag
  <1>9. NotLost(r)'
    BY DEF NotLost
  <1>10. Closed(r)'
    BY DEF Closed, Present
  <1> QED
    BY <1>4, <1>5, <1>6, <1>7, <1>8, <1>9, <1>10

LEMMA FinishStep ==
    ASSUME Typed, NEW r \in Runs, RunInv(r), Finish(r)
    PROVE  RunInv(r)'
  <1>1. /\ plan'[r] = plan[r] /\ rows'[r] = rows[r] /\ deps' = deps /\ body'[r] = body[r]
        /\ faults' = faults /\ active'[r] = active[r] /\ results'[r] = results[r]
        /\ batch'[r] = batch[r] /\ verdict'[r] = verdict[r]
    BY Zenon DEF Finish
  <1>2. At(r) /\ pc[r] = "finish"
    BY TypedAt, Zenon DEF Finish
  <1>3. /\ pc'[r] = "over"
        /\ \/ /\ status[r] = "running" /\ own'[r] = TRUE
              /\ status'[r] \in {"cancelled", verdict[r]}
           \/ status[r] # "running" /\ own'[r] = own[r] /\ status'[r] = status[r]
    BY TypedParts DEF Finish, Goto, Kinds, Fenced
  <1> QED
    BY <1>1, <1>2, <1>3 DEF At, RunInv, Before, InMemory, InBatch, DependenciesMet, PlanKept,
       Ending, NotLost, Closed, InDag, Present

\* What the write of one row does to the rows of its run.
LEMMA RowsAfter ==
    ASSUME Typed, NEW r \in Runs, NEW s \in Steps, NEW v \in RowKinds
    PROVE  /\ Write(r, s, v) => rows'[r] = [rows[r] EXCEPT ![s] = v] /\ faults' = faults
           /\ WriteRaises(r, s, v) =>
                \/ status[r] # "running" /\ rows'[r] = rows[r] /\ faults' = faults
                \/ /\ status[r] = "running" /\ faults' = faults + 1
                   /\ rows'[r] \in {rows[r], [rows[r] EXCEPT ![s] = v]}
  BY TypedParts DEF Kinds, Write, WriteRaises, Refused, Faulty, Fenced

\* The steps that write: the row of s becomes v, or the write raises.
Written(r, s, v) ==
    \/ status[r] = "running" /\ rows'[r] = [rows[r] EXCEPT ![s] = v] /\ faults' = faults
    \/ status[r] # "running" /\ rows'[r] = rows[r] /\ faults' = faults
    \/ status[r] = "running" /\ faults' > 0 /\ rows'[r] \in {rows[r], [rows[r] EXCEPT ![s] = v]}

LEMMA CompileRowStep ==
    ASSUME Typed, NEW r \in Runs, RunInv(r), CompileRow(r)
    PROVE  RunInv(r)'
  <1> DEFINE s == Least(Missing(r))
  <1>1. s \in Missing(r) /\ s \in Steps
    <2>1. Missing(r) \in SUBSET Steps /\ Missing(r) # {}
      BY Zenon DEF Missing, CompileRow
    <2> QED
      BY <2>1, LeastIn
  <1>2. At(r) /\ pc[r] = "compile" /\ faults \in Nat
    BY TypedAt, TypedParts DEF CompileRow, Within
  <1>3. plan[r][s] \in RowKinds
    BY <1>1, <1>2 DEF At, RowKinds
  <1>4. Written(r, s, plan[r][s])
    <2>1. \/ Fenced(r) /\ Write(r, s, plan[r][s])
          \/ WriteRaises(r, s, plan[r][s])
      BY Zenon DEF CompileRow
    <2> HIDE DEF s
    <2> QED
      BY <1>1, <1>2, <1>3, <2>1, RowsAfter DEF Written, Fenced
  <1>5. /\ own'[r] = own[r] /\ plan'[r] = plan[r] /\ body'[r] = body[r] /\ active'[r] = active[r]
        /\ results'[r] = results[r] /\ batch'[r] = batch[r] /\ status'[r] = status[r]
        /\ deps' = deps
    BY Zenon DEF CompileRow
  <1>6. \/ pc'[r] = "compile" /\ verdict'[r] = verdict[r]
        \/ pc'[r] = "sweep" /\ verdict'[r] = "failed"
    BY <1>2, TypedParts DEF CompileRow, Goto, Kinds
  <1>7. rows[r][s] = "none" /\ plan[r][s] # "none"
    BY <1>1 DEF Missing
  <1> HIDE DEF s
  <1>8. \A t \in Steps : rows'[r][t] = rows[r][t] \/ (t = s /\ rows'[r][t] = plan[r][t])
    BY <1>1, <1>2, <1>4 DEF Written, At
  <1>9. rows'[r] = rows[r] \/ status[r] = "running"
    BY <1>4 DEF Written
  <1>10. active[r] = {} /\ \A t \in Steps : body[r][t] = "none"
    BY <1>2 DEF RunInv, Before
  <1> USE <1>1, <1>2, <1>5, <1>6, <1>7, <1>8, <1>9, <1>10 DEF RunInv
  <1>11. Before(r)' /\ Ending(r)'
    BY DEF Before, Ending
  <1>12. InMemory(r)' /\ InBatch(r)'
    BY DEF InMemory, InBatch, InDag, At
  <1>13. DependenciesMet(r)' /\ NotLost(r)'
    BY DEF DependenciesMet, NotLost
  <1>14. PlanKept(r)'
    BY DEF PlanKept, InDag
  <1>15. Closed(r)'
    BY DEF Closed, Present
  <1> QED
    BY <1>11, <1>12, <1>13, <1>14, <1>15

LEMMA StartNodeStep ==
    ASSUME Typed, NEW r \in Runs, RunInv(r), StartNode(r)
    PROVE  RunInv(r)'
  <1> DEFINE s == Least(batch[r])
  <1>1. At(r) /\ pc[r] = "start" /\ faults \in Nat
    BY TypedAt, TypedParts DEF StartNode, Within
  <1>2. s \in batch[r] /\ s \in Steps
    BY <1>1, LeastIn DEF StartNode, At
  <1>3. Written(r, s, "running")
    <2>1. \/ Fenced(r) /\ Write(r, s, "running")
          \/ WriteRaises(r, s, "running")
      BY Zenon DEF StartNode
    <2>2. "running" \in RowKinds
      BY DEF RowKinds
    <2> HIDE DEF s
    <2> QED
      BY <1>1, <1>2, <2>1, <2>2, RowsAfter DEF Written, Fenced
  <1>4. /\ own'[r] = own[r] /\ plan'[r] = plan[r] /\ results'[r] = results[r]
        /\ status'[r] = status[r] /\ deps' = deps
    BY Zenon DEF StartNode
  <1>5. \/ /\ pc'[r] = "start" /\ verdict'[r] = verdict[r]
           /\ rows'[r][s] = "running" /\ body'[r] = [body[r] EXCEPT ![s] = "first"]
           /\ active'[r] = active[r] \cup {s} /\ batch'[r] = batch[r] \ {s}
        \/ /\ pc'[r] = "unwind" /\ verdict'[r] = "failed"
           /\ body'[r] = body[r] /\ active'[r] = active[r]
    <2>1. \/ /\ Write(r, s, "running") /\ body' = [body EXCEPT ![r][s] = "first"]
             /\ active' = [active EXCEPT ![r] = @ \cup {s}]
             /\ batch' = [batch EXCEPT ![r] = @ \ {s}] /\ UNCHANGED <<pc, verdict>>
          \/ Raise(r, "failed") /\ UNCHANGED <<body, active>>
      BY Zenon DEF StartNode
    <2>2. /\ pc \in [Runs -> Places] /\ rows \in [Runs -> [Steps -> RowKinds]]
          /\ verdict \in [Runs -> Terminal] /\ body \in [Runs -> [Steps -> BodyKinds]]
          /\ active \in [Runs -> SUBSET Steps] /\ batch \in [Runs -> SUBSET Steps]
      BY TypedParts, Zenon DEF Kinds
    <2> HIDE DEF s
    <2>3. CASE /\ Write(r, s, "running") /\ body' = [body EXCEPT ![r][s] = "first"]
               /\ active' = [active EXCEPT ![r] = @ \cup {s}]
               /\ batch' = [batch EXCEPT ![r] = @ \ {s}] /\ UNCHANGED <<pc, verdict>>
      <3>1. rows'[r][s] = "running"
        BY <1>2, <2>2, <2>3 DEF Write
      <3>2. body'[r] = [body[r] EXCEPT ![s] = "first"]
        BY <1>2, <2>2, <2>3
      <3>3. active'[r] = active[r] \cup {s} /\ batch'[r] = batch[r] \ {s}
        BY <1>2, <2>2, <2>3
      <3> QED
        BY <1>1, <2>3, <3>1, <3>2, <3>3, Zenon
    <2>4. CASE Raise(r, "failed") /\ UNCHANGED <<body, active>>
      BY <2>2, <2>4 DEF Raise, Goto
    <2> QED
      BY <2>1, <2>3, <2>4, Zenon
  <1>6. s \notin results[r] /\ body[r][s] = "none" /\ deps[s] \subseteq results[r]
    BY <1>1, <1>2 DEF RunInv, InBatch
  <1>7. rows[r][s] # "done" /\ plan[r][s] # "done"
    BY <1>1, <1>2, <1>6 DEF RunInv, InMemory, InDag, PlanKept
  <1> HIDE DEF s
  <1>8. \A t \in Steps : rows'[r][t] = rows[r][t] \/ (t = s /\ rows'[r][t] = "running")
    BY <1>1, <1>2, <1>3 DEF Written, At
  <1>9. rows'[r] = rows[r] \/ status[r] = "running"
    BY <1>3 DEF Written
  <1>10. \A t \in Steps : body'[r][t] = body[r][t] \/ (t = s /\ body'[r][t] = "first")
    BY <1>1, <1>2, <1>5 DEF At
  <1>11. faults' = faults \/ faults' > 0
    BY <1>3 DEF Written
  <1> USE <1>1, <1>2, <1>4, <1>5, <1>8, <1>9, <1>10 DEF RunInv
  <1>12. Before(r)' /\ Ending(r)'
    BY DEF Before, Ending
  <1>13. InMemory(r)'
    BY <1>6, <1>7 DEF InMemory, InDag, At
  <1>14. InBatch(r)'
    BY DEF InBatch, At
  <1>15. DependenciesMet(r)'
    BY <1>6, <1>7 DEF DependenciesMet, InMemory, InDag, At
  <1>16. PlanKept(r)'
    BY <1>7 DEF PlanKept, InDag, Present
  <1>17. NotLost(r)'
    BY <1>6, <1>7, <1>11 DEF NotLost
  <1>18. Closed(r)'
    BY DEF Closed, Present
  <1> QED
    BY <1>12, <1>13, <1>14, <1>15, <1>16, <1>17, <1>18

LEMMA ReapStep ==
    ASSUME Typed, NEW r \in Runs, RunInv(r), Reap(r)
    PROVE  RunInv(r)'
  <1> DEFINE s == Least(batch[r])
             how == body[r][s]
  <1>1. At(r) /\ pc[r] = "reap" /\ faults \in Nat
    BY TypedAt, TypedParts DEF Reap, Within
  <1>2. s \in batch[r] /\ s \in Steps
    BY <1>1, LeastIn DEF Reap, At
  <1>3. s \in active[r] /\ rows[r][s] = "running" /\ how \in {"ok", "error", "cancelled"}
    BY <1>1, <1>2 DEF RunInv, InBatch, InMemory, At, BodyKinds
  <1>4. /\ RowAfter(how) \in {"done", "failed", "cancelled"} \cap RowKinds
        /\ (RowAfter(how) = "done" <=> how = "ok")
    BY <1>3, AfterType DEF RowKinds
  <1>5. Written(r, s, RowAfter(how))
    <2>1. \/ Fenced(r) /\ Write(r, s, RowAfter(how))
          \/ WriteRaises(r, s, RowAfter(how))
      BY Zenon DEF Reap
    <2> HIDE DEF s, how
    <2> QED
      BY <1>1, <1>2, <1>4, <2>1, RowsAfter DEF Written, Fenced
  <1>6. /\ own'[r] = own[r] /\ plan'[r] = plan[r] /\ body'[r] = body[r]
        /\ status'[r] = status[r] /\ deps' = deps
    BY Zenon DEF Reap
  <1>7. active'[r] = active[r] \ {s}
    BY TypedParts DEF Reap, Kinds
  <1>8. \/ /\ pc'[r] = "reap" /\ batch'[r] = batch[r] \ {s} /\ rows'[r][s] = RowAfter(how)
           /\ \/ how = "ok" /\ results'[r] = results[r] \cup {s} /\ verdict'[r] = verdict[r]
              \/ how = "error" /\ results'[r] = results[r] /\ verdict'[r] = "failed"
        \/ /\ pc'[r] = "unwind" /\ verdict'[r] \in {"failed", "cancelled"}
           /\ results'[r] = results[r]
    BY <1>1, <1>2, <1>3, TypedParts DEF Reap, Raise, Goto, Kinds, Write
  <1> HIDE DEF s, how
  <1>9. \A t \in Steps : rows'[r][t] = rows[r][t] \/ (t = s /\ rows'[r][t] = RowAfter(how))
    BY <1>1, <1>2, <1>5 DEF Written, At
  <1>10. rows'[r] = rows[r] \/ status[r] = "running"
    BY <1>5 DEF Written
  <1>11. /\ faults' = faults \/ faults' > 0
         /\ faults' = 0 /\ status[r] = "running" => rows'[r][s] = RowAfter(how)
    BY <1>1, <1>2, <1>5 DEF Written, At
  <1>12. body[r][s] = how
    BY DEF how
  <1> USE <1>1, <1>2, <1>3, <1>4, <1>6, <1>7, <1>8, <1>9, <1>10, <1>12 DEF RunInv
  <1>13. Before(r)' /\ Ending(r)'
    BY DEF Before, Ending
  <1>14. InMemory(r)'
    BY DEF InMemory, InDag, At
  <1>15. InBatch(r)'
    BY DEF InBatch, At
  <1>16. DependenciesMet(r)'
    BY DEF DependenciesMet
  <1>17. PlanKept(r)'
    <2>1. plan[r][s] # "done"
      BY DEF PlanKept
    <2>2. Present(r) \subseteq Present(r)'
      BY DEF Present, RowKinds
    <2> QED
      BY <2>1, <2>2 DEF PlanKept, InDag, At
  <1>18. NotLost(r)'
    BY <1>11 DEF NotLost
  <1>19. Closed(r)'
    BY DEF Closed, Present
  <1> QED
    BY <1>13, <1>14, <1>15, <1>16, <1>17, <1>18, <1>19

LEMMA SettleStep ==
    ASSUME Typed, NEW r \in Runs, RunInv(r), Settle(r)
    PROVE  RunInv(r)'
  <1>1. PICK s \in active[r] :
           /\ active' = [active EXCEPT ![r] = @ \ {s}]
           /\ \/ Fenced(r) /\ Write(r, s, SettleAs(body[r][s]))
              \/ WriteRaises(r, s, SettleAs(body[r][s]))
    BY Zenon DEF Settle
  <1>2. At(r) /\ pc[r] = "settle" /\ faults \in Nat
    BY TypedAt, TypedParts DEF Settle, Within
  <1> DEFINE how == body[r][s]
  <1>3. s \in Steps /\ rows[r][s] = "running" /\ how \in {"ok", "error", "cancelled"}
    BY <1>2 DEF RunInv, InBatch, InMemory, At, BodyKinds
  <1>4. /\ RowAfter(how) \in {"done", "failed", "cancelled"} \cap RowKinds
        /\ (RowAfter(how) = "done" <=> how = "ok")
    BY <1>3, AfterType DEF RowKinds
  <1>5. Written(r, s, RowAfter(how))
    <2>1. \/ Fenced(r) /\ Write(r, s, RowAfter(how))
          \/ WriteRaises(r, s, RowAfter(how))
      BY <1>1, Zenon DEF SettleAs
    <2> HIDE DEF how
    <2> QED
      BY <1>2, <1>3, <1>4, <2>1, RowsAfter DEF Written, Fenced
  <1>6. /\ own'[r] = own[r] /\ plan'[r] = plan[r] /\ body'[r] = body[r] /\ pc'[r] = pc[r]
        /\ status'[r] = status[r] /\ deps' = deps /\ results'[r] = results[r]
        /\ batch'[r] = batch[r] /\ verdict'[r] = verdict[r]
    BY Zenon DEF Settle
  <1>7. active'[r] = active[r] \ {s}
    BY <1>1, TypedParts DEF Kinds
  <1> HIDE DEF how
  <1>8. \A t \in Steps : rows'[r][t] = rows[r][t] \/ (t = s /\ rows'[r][t] = RowAfter(how))
    BY <1>2, <1>3, <1>5 DEF Written, At
  <1>9. rows'[r] = rows[r] \/ status[r] = "running"
    BY <1>5 DEF Written
  <1>10. /\ faults' = faults \/ faults' > 0
         /\ faults' = 0 /\ status[r] = "running" => rows'[r][s] = RowAfter(how)
    BY <1>2, <1>3, <1>5 DEF Written, At
  <1>11. body[r][s] = how
    BY DEF how
  <1> USE <1>2, <1>3, <1>4, <1>6, <1>7, <1>8, <1>9, <1>11 DEF RunInv
  <1>12. Before(r)' /\ Ending(r)'
    BY DEF Before, Ending
  <1>13. InMemory(r)' /\ InBatch(r)'
    BY DEF InMemory, InBatch, InDag, At
  <1>14. DependenciesMet(r)'
    BY DEF DependenciesMet
  <1>15. PlanKept(r)'
    BY DEF PlanKept, InDag, Present
  <1>16. NotLost(r)'
    BY <1>10 DEF NotLost
  <1>17. Closed(r)'
    BY DEF Closed, Present
  <1> QED
    BY <1>12, <1>13, <1>14, <1>15, <1>16, <1>17

LEMMA SweepStep ==
    ASSUME Typed, NEW r \in Runs, RunInv(r), Sweep(r)
    PROVE  RunInv(r)'
  <1>1. At(r) /\ pc[r] = "sweep" /\ faults \in Nat
    BY TypedAt, TypedParts DEF Sweep, Within
  <1>2. /\ own'[r] = own[r] /\ plan'[r] = plan[r] /\ body'[r] = body[r] /\ active'[r] = active[r]
        /\ status'[r] = status[r] /\ deps' = deps /\ results'[r] = results[r]
        /\ batch'[r] = batch[r] /\ verdict'[r] = verdict[r]
    BY Zenon DEF Sweep
  <1>3. pc'[r] \in {"sweep", "finish", "over"}
    BY <1>1, TypedParts DEF Sweep, Goto, Kinds
  <1>4. /\ active[r] = {} /\ verdict[r] # "completed"
    BY <1>1 DEF RunInv, Ending
  <1>5. CASE Unfinished(r) = {}
    <2>1. rows'[r] = rows[r] /\ faults' = faults
      BY <1>5, Zenon DEF Sweep
    <2>2. \A s \in Steps : rows[r][s] \notin Open
      BY <1>5 DEF Unfinished, RowsIn
    <2> USE <1>1, <1>2, <1>3, <1>4, <2>1, <2>2 DEF RunInv
    <2>3. Before(r)' /\ Ending(r)' /\ InMemory(r)' /\ InBatch(r)'
      BY DEF Before, Ending, InMemory, InBatch, InDag
    <2>4. DependenciesMet(r)' /\ PlanKept(r)' /\ NotLost(r)' /\ Closed(r)'
      BY DEF DependenciesMet, PlanKept, NotLost, Closed, InDag, Present
    <2> QED
      BY <2>3, <2>4
  <1>6. CASE Unfinished(r) # {}
    <2> DEFINE s == Least(Unfinished(r))
    <2>1. s \in Steps /\ rows[r][s] \in Open
      <3>1. Unfinished(r) \in SUBSET Steps
        BY Zenon DEF Unfinished, RowsIn
      <3>2. s \in Unfinished(r)
        BY <1>6, <3>1, LeastIn
      <3> QED
        BY <3>2 DEF Unfinished, RowsIn
    <2>2. \/ Fenced(r) /\ Write(r, s, "cancelled") /\ UNCHANGED pc
          \/ /\ WriteRaises(r, s, "cancelled")
             /\ Goto(r, IF verdict[r] = "failed" THEN "finish" ELSE "over")
      BY <1>6, Zenon DEF Sweep
    <2> HIDE DEF s
    <2>3. "cancelled" \in RowKinds
      BY DEF RowKinds
    <2>4. Written(r, s, "cancelled")
      BY <1>1, <2>1, <2>2, <2>3, RowsAfter DEF Written, Fenced
    <2>5. pc'[r] = "finish" => faults' > 0 \/ status[r] # "running"
      <3>1. pc'[r] = "finish" => WriteRaises(r, s, "cancelled")
        BY <1>1, <2>2
      <3>2. WriteRaises(r, s, "cancelled") => status[r] # "running" \/ faults' = faults + 1
        BY <2>1, <2>3, RowsAfter, Zenon
      <3> QED
        BY <1>1, <3>1, <3>2
    <2>6. \A t \in Steps : rows'[r][t] = rows[r][t] \/ (t = s /\ rows'[r][t] = "cancelled")
      BY <1>1, <2>1, <2>4 DEF Written, At
    <2>7. /\ rows'[r] = rows[r] \/ status[r] = "running"
          /\ faults' = faults \/ faults' > 0
      BY <2>4 DEF Written
    <2> USE <1>1, <1>2, <1>3, <1>4, <2>1, <2>5, <2>6, <2>7 DEF RunInv
    <2>8. Before(r)' /\ Ending(r)'
      BY DEF Before, Ending
    <2>9. InMemory(r)' /\ InBatch(r)'
      BY DEF InMemory, InBatch, InDag, At
    <2>10. DependenciesMet(r)'
      BY DEF DependenciesMet
    <2>11. PlanKept(r)'
      BY DEF PlanKept, InDag
    <2>12. NotLost(r)'
      BY DEF NotLost
    <2>13. Closed(r)'
      BY DEF Closed, Present
    <2> QED
      BY <2>8, <2>9, <2>10, <2>11, <2>12, <2>13
  <1> QED
    BY <1>5, <1>6

LEMMA BodyStepStep ==
    ASSUME Typed, NEW r \in Runs, RunInv(r), NEW s \in Steps, BodyStep(r, s)
    PROVE  RunInv(r)'
  <1>1. PICK how \in {"ok", "error", "cancelled", "second"} : EndBody(r, s, how)
    BY DEF BodyStep, BodyOk, BodyError, BodyCancelled, BodyRetry
  <1>2. s \in active[r] /\ body[r][s] \in Working /\ pc[r] # "over"
    BY Zenon DEF BodyStep, BodyOk, BodyError, BodyCancelled, BodyRetry, Live
  <1>3. At(r)
    BY TypedAt, Zenon
  <1>4. /\ own'[r] = own[r] /\ plan'[r] = plan[r] /\ rows'[r] = rows[r] /\ active'[r] = active[r]
        /\ status'[r] = status[r] /\ deps' = deps /\ results'[r] = results[r] /\ pc'[r] = pc[r]
        /\ batch'[r] = batch[r] /\ verdict'[r] = verdict[r] /\ faults' = faults
    BY <1>1, Zenon DEF EndBody
  <1>5. \A t \in Steps : body'[r][t] = IF t = s THEN how ELSE body[r][t]
    BY <1>1, <1>3, TypedParts DEF EndBody, Kinds
  <1> USE <1>2, <1>3, <1>4, <1>5 DEF RunInv
  <1>6. Before(r)' /\ Ending(r)'
    BY DEF Before, Ending, Present
  <1>7. InMemory(r)'
    BY DEF InMemory, InDag, At
  <1>8. InBatch(r)'
    BY DEF InBatch, At
  <1>9. DependenciesMet(r)'
    BY DEF DependenciesMet
  <1>10. PlanKept(r)'
    BY DEF PlanKept, InDag, Present
  <1>11. NotLost(r)' /\ Closed(r)'
    BY DEF NotLost, Closed, Present
  <1> QED
    BY <1>6, <1>7, <1>8, <1>9, <1>10, <1>11

-----------------------------------------------------------------------------
(* The invariant holds.                                                    *)

LEMMA OwnStep ==
    ASSUME Typed, NEW r \in Runs, RunInv(r), RunStep(r)
    PROVE  RunInv(r)'
  BY BeginStep, OutsideStep, CompileRowStep, CompiledStep, LoopStep, StartNodeStep, StartedStep,
     WakeStep, ReapStep, ReapedStep, UnwindStep, SettleStep, SettledStep, SweepStep, FinishStep,
     BodyStepStep, Zenon DEF RunStep, WorkerStep

\* The rows of the run that is resumed are frozen, and the plan that took them
\* over does not change.
LEMMA SeededStep ==
    ASSUME Inv, NEW q \in Runs, RunStep(q), NEW r \in Runs
    PROVE  Seeded(r)'
  <1>1. Typed /\ RunInv(r) /\ Seeded(r) /\ Next
    BY Zenon DEF Inv, Next
  <1>2. CASE q = r /\ Begin(r)
    <2>1. PICK p \in {0} \cup (IF Resumable = {} THEN {} ELSE {Newest(Resumable)}) :
             /\ source' = [source EXCEPT ![r] = p]
             /\ plan' = [plan EXCEPT ![r] =
                           IF p = 0 THEN FreshPlan
                           ELSE IF Present(p) = {} THEN FreshPlan ELSE SeedOf(p)]
      BY <1>2, Zenon DEF Begin
    <2>2. source'[r] = p /\ plan'[r] = IF p = 0 THEN FreshPlan
                                       ELSE IF Present(p) = {} THEN FreshPlan ELSE SeedOf(p)
      BY <1>1, <2>1, Zenon DEF Typed, Kinds
    <2>3. SUFFICES ASSUME p \in Runs
                   PROVE  /\ status'[p] \in Terminal
                          /\ \A s \in Steps : rows'[p][s] = "done" => plan'[r][s] = "done"
      BY <2>2, Zenon DEF Seeded
    <2>4. p # 0 /\ p \in Resumable
      <3>1. Resumable \subseteq Runs
        BY Zenon DEF Resumable
      <3>2. p # 0
        BY <2>3, RunsType, Zenon
      <3> QED
        BY <2>1, <3>1, <3>2, NewestIn, Zenon
    <2>5. status[p] \in Terminal /\ Before(p)
      BY <2>3, <2>4 DEF Resumable, Inv, RunInv
    <2>6. status'[p] = status[p] /\ rows'[p] = rows[p]
      BY <1>1, <2>3, <2>5, EndedStay, Zenon
    <2>7. \A s \in Steps : rows[p][s] = "done" => plan'[r][s] = "done"
      BY <2>2, <2>4 DEF Present, SeedOf
    <2> QED
      BY <2>5, <2>6, <2>7, Zenon
  <1>3. CASE ~ (q = r /\ Begin(r))
    <2>1. source'[r] = source[r] /\ plan'[r] = plan[r]
      <3>1. CASE q # r
        BY <1>1, <3>1, Others, Zenon DEF Same
      <3>2. CASE q = r
        BY <1>3, <3>2, Zenon DEF RunStep, WorkerStep, RequestCancel, Notice, EndedOutside, Crash,
           CompileRow, Compiled, Loop, StartNode, Started, Wake, Reap, Reaped, Unwind, Settle,
           Settled, Sweep, Finish, BodyStep, BodyOk, BodyError, BodyCancelled, BodyRetry, EndBody
      <3> QED
        BY <3>1, <3>2
    <2>2. SUFFICES ASSUME source[r] \in Runs
                   PROVE  /\ status'[source[r]] \in Terminal
                          /\ \A s \in Steps : rows'[source[r]][s] = "done" => plan'[r][s] = "done"
      BY <2>1, Zenon DEF Seeded
    <2>3. status[source[r]] \in Terminal /\ Before(source[r])
      BY <1>1, <2>2, Zenon DEF Seeded, Inv, RunInv
    <2>4. status'[source[r]] = status[source[r]] /\ rows'[source[r]] = rows[source[r]]
      BY <1>1, <2>2, <2>3, EndedStay, Zenon
    <2> QED
      BY <1>1, <2>1, <2>2, <2>3, <2>4, Zenon DEF Seeded
  <1> QED
    BY <1>2, <1>3

LEMMA InitInv == Init => Inv
  <1> SUFFICES ASSUME Init PROVE Inv
    OBVIOUS
  <1>1. Typed
    BY InitTyped
  <1>2. ASSUME NEW r \in Runs PROVE RunInv(r) /\ Seeded(r)
    <2>1. /\ status[r] = "none" /\ own[r] = FALSE /\ pc[r] = "idle" /\ active[r] = {}
          /\ results[r] = {} /\ batch[r] = {} /\ verdict[r] = "completed" /\ source[r] = 0
          /\ \A s \in Steps : plan[r][s] = "none" /\ rows[r][s] = "none" /\ body[r][s] = "none"
      BY <1>2 DEF Init
    <2>2. RunInv(r)
      BY <2>1 DEF RunInv, Before, InMemory, InBatch, DependenciesMet, PlanKept, Ending, NotLost,
         Closed, InDag
    <2>3. Seeded(r)
      BY <2>1, RunsType DEF Seeded
    <2> QED
      BY <2>2, <2>3
  <1> QED
    BY <1>1, <1>2, Zenon DEF Inv

LEMMA NextInv == Inv /\ [Next]_vars => Inv'
  <1> SUFFICES ASSUME Inv, [Next]_vars PROVE Inv'
    OBVIOUS
  <1>1. CASE UNCHANGED vars
    <2>1. Typed'
      BY <1>1, Zenon DEF vars, Inv, Typed, Kinds
    <2>2. deps' = deps /\ faults' \in Nat /\ faults' >= faults
      BY <1>1 DEF vars, Inv, Typed
    <2>3. ASSUME NEW r \in Runs PROVE RunInv(r)'
      <3>1. Same(r)
        BY <1>1, Zenon DEF vars, Same
      <3> QED
        BY <2>1, <2>2, <3>1, Frame, Zenon DEF Inv
    <2>4. ASSUME NEW r \in Runs PROVE Seeded(r)'
      BY <1>1, Zenon DEF vars, Inv, Seeded
    <2> QED
      BY <2>1, <2>3, <2>4, Zenon DEF Inv
  <1>2. ASSUME NEW q \in Runs, RunStep(q) PROVE Inv'
    <2>1. Typed'
      BY <1>2, TypedStep, Zenon DEF Inv
    <2>2. ASSUME NEW r \in Runs PROVE RunInv(r)'
      <3>1. CASE q = r
        BY <1>2, <3>1, OwnStep, Zenon DEF Inv
      <3>2. CASE q # r
        <4>1. Same(r)
          BY <1>2, <3>2, Others, Zenon DEF Inv
        <4> QED
          BY <1>2, <2>1, <4>1, Counts, Frame, Zenon DEF Inv
      <3> QED
        BY <3>1, <3>2
    <2>3. \A r \in Runs : Seeded(r)'
      BY <1>2, SeededStep, Zenon
    <2> QED
      BY <2>1, <2>2, <2>3, Zenon DEF Inv
  <1> QED
    BY <1>1, <1>2, Zenon DEF Next

THEOREM StepsInvariant == Spec => []Inv
  BY InitInv, NextInv, PTL DEF Spec

-----------------------------------------------------------------------------
(* What follows from it.                                                   *)

\* In any plan, with any parallelism, cancellation and worker loss, a body runs
\* only on stored results (run_dag, _durable_step_prompt).
THEOREM StepsDependenciesFirst == Spec => []DependenciesFirst
  <1>1. Inv => DependenciesFirst
    BY Zenon DEF Inv, RunInv, DependenciesMet, DependenciesFirst
  <1> QED
    BY <1>1, StepsInvariant, PTL

\* Whatever a worker still tries after its run was ended, the rows stay
\* (_fenced_step_update).
THEOREM StepsRowsFrozen == Spec => RowsFrozen
  <1>1. Inv /\ [Next]_vars => [\A r \in Runs : status[r] \in Terminal => rows'[r] = rows[r]]_vars
    BY EndedStay, Zenon DEF Inv, RunInv
  <1> QED
    BY <1>1, StepsInvariant, PTL DEF Spec, RowsFrozen

\* The rows of a run that its own worker ended tell what its bodies did, a
\* completed run has nothing else than done rows, and what a run had done is
\* never executed again by the one that resumes it (cleanup_active,
\* _cancel_unfinished_steps, seed_resume_steps).
THEOREM StepsBooksClosed == Spec => []BooksClosed
  <1>1. Inv => ResultsKept
    BY Zenon DEF Inv, RunInv, Closed, ResultsKept
  <1>2. Inv => CompletedIsDone
    BY DEF Inv, RunInv, Closed, CompletedIsDone, RowsIn, Present
  <1>3. Inv => DoneIsKept
    <2> SUFFICES ASSUME Inv, NEW r \in Runs, NEW q \in Runs, NEW s \in Steps,
                        source[r] = q, rows[q][s] = "done"
                 PROVE  /\ body[r][s] = "none" /\ rows[r][s] \in {"none", "done"}
                        /\ pc[r] = "loop" => s \in results[r]
      BY Zenon DEF DoneIsKept
    <2>1. plan[r][s] = "done"
      BY Zenon DEF Inv, Seeded
    <2> QED
      BY <2>1 DEF Inv, RunInv, PlanKept, InDag
  <1>4. Inv => BooksClosed
    BY <1>1, <1>2, <1>3 DEF BooksClosed
  <1> QED
    BY <1>4, StepsInvariant, PTL

-----------------------------------------------------------------------------
(* run_dag never stalls and never has more than max_parallel bodies.       *)

\* A set of steps has a greatest one: a smallest set without would still be
\* one when an element is taken away.
LEMMA GreatestIn ==
    ASSUME NEW S \in SUBSET Steps, S # {}
    PROVE  \E m \in S : \A t \in S : t <= m
  <1> DEFINE Endless == {T \in SUBSET Steps : T # {} /\ \A m \in T : \E t \in T : ~ (t <= m)}
             Sizes == {Cardinality(T) : T \in Endless}
  <1>1. \A T \in SUBSET Steps : IsFiniteSet(T) /\ Cardinality(T) \in Nat /\ T \subseteq Nat
    BY FS_Subset, FS_CardinalityType, StepsAssumption
  <1>2. SUFFICES ASSUME Sizes # {} PROVE FALSE
    OBVIOUS
  <1>3. Sizes \in SUBSET Nat
    BY <1>1
  <1>4. PICK n \in Sizes : \A k \in Sizes : n <= k
    BY <1>2, <1>3, LeastNat, Zenon
  <1>5. PICK T \in Endless : Cardinality(T) = n
    BY <1>4
  <1>6. PICK x \in T : TRUE
    BY <1>5
  <1> DEFINE U == T \ {x}
  <1>7. U \in SUBSET Steps /\ Cardinality(U) = n - 1 /\ n \in Nat
    BY <1>1, <1>3, <1>5, <1>6, FS_RemoveElement
  <1>8. U \notin Endless
    <2>1. U \in Endless => n - 1 \in Sizes
      BY <1>7
    <2> HIDE DEF Sizes, Endless, U
    <2> QED
      BY <1>4, <1>7, <2>1
  <1>9. CASE U = {}
    <2>1. T = {x} /\ x \in Nat
      BY <1>1, <1>5, <1>6, <1>9
    <2> QED
      BY <1>5, <2>1
  <1>10. CASE U # {}
    <2>1. PICK y \in U : \A t \in U : t <= y
      BY <1>7, <1>8, <1>10
    <2>2. x \in Nat /\ y \in Nat /\ y \in T /\ \A t \in T : t = x \/ t <= y
      BY <1>1, <1>5, <1>6, <2>1
    <2>3. IF x <= y THEN \A t \in T : t <= y ELSE \A t \in T : t <= x
      BY <1>1, <1>5, <2>2
    <2> QED
      BY <1>5, <1>6, <2>2, <2>3
  <1> QED
    BY <1>9, <1>10

\* FirstOf takes no more than it is told to ...
LEMMA FirstOfAtMost ==
    ASSUME NEW S \in SUBSET Steps, NEW k \in Nat
    PROVE  Cardinality(FirstOf(k, S)) <= k
  <1> DEFINE F == FirstOf(k, S)
  <1>1. F \in SUBSET Steps
    BY DEF FirstOf
  <1>2. \A T \in SUBSET Steps : IsFiniteSet(T) /\ Cardinality(T) \in Nat
    BY FS_Subset, FS_CardinalityType, StepsAssumption
  <1>3. CASE F = {}
    BY <1>3, FS_EmptySet
  <1>4. CASE F # {}
    <2>1. PICK m \in F : \A t \in F : t <= m
      BY <1>1, <1>4, GreatestIn, Zenon
    <2> DEFINE Below == {t \in S : t < m}
    <2>2. Cardinality(Below) < k
      BY <2>1 DEF FirstOf
    <2>3. F \ {m} \subseteq Below
      <3>1. \A t \in F : t \in S /\ t \in Nat /\ m \in Nat /\ t <= m
        BY <1>1, <2>1, StepsAssumption, Zenon DEF FirstOf
      <3> HIDE DEF F
      <3> QED
        BY <3>1
    <2>4. Below \in SUBSET Steps /\ IsFiniteSet(Below) /\ Cardinality(Below) \in Nat
      BY <1>2
    <2> HIDE DEF F, Below
    <2>5. Cardinality(F \ {m}) <= Cardinality(Below)
      BY <2>3, <2>4, FS_Subset
    <2>6. Cardinality(F \ {m}) = Cardinality(F) - 1
      BY <1>1, <1>2, <2>1, FS_RemoveElement
    <2> QED
      BY <1>1, <1>2, <2>2, <2>4, <2>5, <2>6 DEF F
  <1> QED
    BY <1>3, <1>4

\* ... and something, when it may.
LEMMA FirstOfSome ==
    ASSUME NEW S \in SUBSET Steps, S # {}, NEW k \in Nat \ {0}
    PROVE  FirstOf(k, S) # {}
  <1>1. Least(S) \in S /\ \A t \in S : Least(S) <= t
    BY LeastIn
  <1>2. {t \in S : t < Least(S)} = {}
    <2>1. ASSUME NEW t \in S PROVE ~ (t < Least(S))
      <3>1. t \in Nat /\ Least(S) \in Nat /\ Least(S) <= t
        BY <1>1, StepsAssumption
      <3> QED
        BY <3>1
    <2> QED
      BY <2>1, Zenon
  <1>3. Cardinality({t \in S : t < Least(S)}) < k
    BY <1>2, FS_EmptySet
  <1> QED
    BY <1>1, <1>3, Zenon DEF FirstOf

\* What run_dag has validated, and what it may hold at once.
Flow(r) ==
    /\ pc[r] \in InDag => Valid(Present(r))
    /\ pc[r] = "start" => batch[r] \cup active[r] # {} /\ batch[r] \subseteq Present(r)
    /\ Cardinality(active[r]) <= MaxParallel
    /\ pc[r] = "start" => Cardinality(active[r]) + Cardinality(batch[r]) <= MaxParallel

FlowInv == Inv /\ \A r \in Runs : Flow(r)

Small(T) == IsFiniteSet(T) /\ Cardinality(T) \in Nat

LEMMA SmallSet == ASSUME NEW T \in SUBSET Steps PROVE Small(T)
  BY FS_Subset, FS_CardinalityType, StepsAssumption DEF Small

\* A plan without cycles always has a step that can start when none runs.
LEMMA ReadyOrRunning ==
    ASSUME Typed, NEW r \in Runs, RunInv(r), Flow(r), pc[r] = "loop",
           Pending(r) # {}, active[r] = {}
    PROVE  Ready(r) # {}
  <1>1. At(r) /\ Valid(Present(r)) /\ InMemory(r)
    BY TypedAt, Zenon DEF RunInv, Flow, InDag
  <1>2. Pending(r) \in SUBSET Present(r)
    BY DEF Pending
  <1>3. PICK s \in Pending(r) : deps[s] \cap Pending(r) = {}
    BY <1>1, <1>2, Zenon DEF Valid
  <1>4. deps[s] \subseteq Present(r)
    BY <1>1, <1>2, <1>3, Zenon DEF Valid
  <1>5. ASSUME NEW d \in deps[s] PROVE d \in results[r]
    <2>1. d \in Steps /\ d \in Present(r) /\ d \notin Pending(r)
      BY <1>3, <1>4, <1>5 DEF Present
    <2>2. d \in results[r] \/ body[r][d] # "none"
      BY <2>1 DEF Pending
    <2> QED
      BY <1>1, <2>1, <2>2 DEF InMemory, InDag
  <1> QED
    BY <1>3, <1>5 DEF Ready

LEMMA ValidKept ==
    ASSUME NEW r \in Runs, Valid(Present(r)), deps' = deps, Present(r)' = Present(r)
    PROVE  Valid(Present(r))'
  <1>1. \A s \in Present(r) : deps'[s] \subseteq Present(r)
    BY DEF Valid
  <1>2. \A T \in SUBSET Present(r) : T # {} => \E s \in T : deps'[s] \cap T = {}
    BY Zenon DEF Valid
  <1> DEFINE P == Present(r)
  <1>3. /\ \A s \in P : deps'[s] \subseteq P
        /\ \A T \in SUBSET P : T # {} => \E s \in T : deps'[s] \cap T = {}
    BY <1>1, <1>2, Zenon
  <1>4. Present(r)' = P
    OBVIOUS
  <1> HIDE DEF P
  <1> QED
    BY <1>3, <1>4 DEF Valid

\* Fewer bodies are still few enough.
LEMMA Fewer ==
    ASSUME NEW A, Small(A), NEW m \in Nat, Cardinality(A) <= m,
           NEW B, B = A \/ B = {} \/ \E s : B = A \ {s}
    PROVE  Cardinality(B) <= m
  <1>1. CASE B = A
    BY <1>1
  <1>2. CASE B = {}
    BY <1>2, FS_EmptySet
  <1>3. ASSUME NEW s, B = A \ {s} PROVE Cardinality(B) <= m
    <2>1. Cardinality(A \ {s}) = IF s \in A THEN Cardinality(A) - 1 ELSE Cardinality(A)
      BY FS_RemoveElement, Zenon DEF Small
    <2> QED
      BY <1>3, <2>1 DEF Small
  <1> QED
    BY <1>1, <1>2, <1>3

\* Reaping takes one node out and gives its row another status.
LEMMA ReapPresent ==
    ASSUME Typed, NEW r \in Runs, RunInv(r), Reap(r)
    PROVE  \E s \in Steps : /\ active'[r] = active[r] \ {s}
                            /\ \A t \in Steps : rows'[r][t] = "none" <=> rows[r][t] = "none"
  <1> DEFINE s == Least(batch[r])
             how == body[r][s]
  <1>1. At(r) /\ pc[r] = "reap" /\ active \in [Runs -> SUBSET Steps]
    BY TypedAt, TypedParts, Zenon DEF Reap, Kinds
  <1>2. s \in batch[r] /\ s \in Steps
    BY <1>1, LeastIn DEF Reap, At
  <1>3. s \in active[r] /\ rows[r][s] = "running" /\ how \in {"ok", "error", "cancelled"}
    BY <1>1, <1>2 DEF RunInv, InBatch, InMemory, At, BodyKinds
  <1>4. RowAfter(how) \in {"done", "failed", "cancelled"} \cap RowKinds
    BY <1>3, AfterType DEF RowKinds
  <1>5. /\ Write(r, s, RowAfter(how)) \/ WriteRaises(r, s, RowAfter(how))
        /\ active' = [active EXCEPT ![r] = @ \ {s}]
    BY Zenon DEF Reap
  <1> HIDE DEF s, how
  <1>6. rows'[r] = rows[r] \/ rows'[r] = [rows[r] EXCEPT ![s] = RowAfter(how)]
    BY <1>2, <1>4, <1>5, RowsAfter
  <1>7. \A t \in Steps : rows'[r][t] = "none" <=> rows[r][t] = "none"
    BY <1>1, <1>2, <1>3, <1>4, <1>6 DEF At
  <1>8. active'[r] = active[r] \ {s}
    BY <1>1, <1>5
  <1> QED
    BY <1>2, <1>7, <1>8

LEMMA FlowStep ==
    ASSUME Typed, NEW r \in Runs, RunInv(r), RunStep(r), Flow(r)
    PROVE  Flow(r)'
  <1>1. /\ At(r) /\ Small(active[r]) /\ Small(batch[r])
        /\ MaxParallel \in Nat \ {0} /\ MaxParallel \in Nat /\ deps' = deps
    BY TypedAt, SmallSet, StepsAssumption, Counts DEF At
  <1>2. /\ pc \in [Runs -> Places] /\ rows \in [Runs -> [Steps -> RowKinds]]
        /\ active \in [Runs -> SUBSET Steps] /\ batch \in [Runs -> SUBSET Steps]
    BY TypedParts, Zenon DEF Kinds
  <1>3. CASE /\ pc'[r] \notin InDag
             /\ active'[r] = active[r] \/ active'[r] = {} \/ \E s : active'[r] = active[r] \ {s}
    <2>1. Cardinality(active'[r]) <= MaxParallel
      BY <1>1, <1>3, Fewer, Zenon DEF Flow
    <2> QED
      BY <1>3, <2>1 DEF Flow, InDag
  <1>4. CASE /\ pc'[r] = pc[r] /\ rows'[r] = rows[r] /\ active'[r] = active[r]
             /\ batch'[r] = batch[r]
    <2>1. Present(r)' = Present(r)
      BY <1>4, Zenon DEF Present
    <2> QED
      BY <1>1, <1>4, <2>1, ValidKept, Zenon DEF Flow
  <1>5. ASSUME pc[r] \in InDag, pc'[r] \in {"loop", "wait", "reap"},
               \A s \in Steps : rows'[r][s] = "none" <=> rows[r][s] = "none",
               active'[r] = active[r] \/ \E s : active'[r] = active[r] \ {s}
        PROVE  Flow(r)'
    <2>1. Present(r)' = Present(r)
      BY <1>5, Zenon DEF Present
    <2>2. Cardinality(active'[r]) <= MaxParallel
      BY <1>1, <1>5, Fewer, Zenon DEF Flow
    <2>3. Valid(Present(r))'
      BY <1>1, <1>5, <2>1, ValidKept, Zenon DEF Flow
    <2> QED
      BY <1>5, <2>2, <2>3 DEF Flow
  <1>6. CASE Begin(r) \/ CompileRow(r) \/ Settled(r) \/ Unwind(r) \/ Sweep(r) \/ Finish(r)
    <2>1. pc'[r] \in {"compile", "sweep", "over", "settle", "finish"}
      BY <1>2, <1>6 DEF Begin, CompileRow, Settled, Unwind, Sweep, Finish, Goto
    <2>2. active' = active
      BY <1>6, Zenon DEF Begin, CompileRow, Settled, Unwind, Sweep, Finish
    <2> QED
      BY <1>3, <2>1, <2>2 DEF InDag
  <1>7. CASE RequestCancel(r) \/ Notice(r) \/ EndedOutside(r)
    BY <1>4, <1>7, Zenon DEF RequestCancel, Notice, EndedOutside
  <1>8. CASE Crash(r)
    BY <1>2, <1>3, <1>8 DEF Crash, Goto, InDag
  <1>9. ASSUME NEW s \in Steps, BodyStep(r, s) PROVE Flow(r)'
    BY <1>4, <1>9, Zenon DEF BodyStep, BodyOk, BodyError, BodyCancelled, BodyRetry, EndBody
  <1>10. CASE Compiled(r)
    <2>1. rows' = rows /\ active' = active
      BY <1>10, Zenon DEF Compiled
    <2>2. CASE Valid(Present(r))
      <3>1. pc'[r] = "loop"
        BY <1>2, <1>10, <2>2 DEF Compiled, Goto
      <3>2. Present(r)' = Present(r)
        BY <2>1, Zenon DEF Present
      <3> QED
        BY <1>1, <2>1, <2>2, <3>1, <3>2, ValidKept DEF Flow
    <2>3. CASE ~ Valid(Present(r))
      <3>1. pc'[r] = "sweep"
        BY <1>2, <1>10, <2>3 DEF Compiled, Goto
      <3> QED
        BY <1>3, <2>1, <3>1 DEF InDag
    <2> QED
      BY <2>2, <2>3
  <1>11. CASE Loop(r)
    <2>1. rows' = rows /\ active' = active /\ pc[r] = "loop"
      BY <1>11, Zenon DEF Loop
    <2>2. \/ pc'[r] \in {"unwind", "finish"}
          \/ /\ pc'[r] = "start" /\ batch'[r] = Startable(r)
             /\ Pending(r) # {} \/ active[r] # {}
      BY <1>2, <1>11 DEF Loop, Raise, Goto
    <2>3. CASE pc'[r] \in {"unwind", "finish"}
      BY <1>3, <2>1, <2>3 DEF InDag
    <2>4. CASE /\ pc'[r] = "start" /\ batch'[r] = Startable(r)
               /\ Pending(r) # {} \/ active[r] # {}
      <3>1. Ready(r) \in SUBSET Steps
        BY DEF Ready, Pending, Present
      <3> DEFINE k == MaxParallel - Cardinality(active[r])
      <3>2. k \in Nat
        BY <1>1 DEF Flow, Small
      <3>3. Cardinality(batch'[r]) <= k
        BY <2>4, <3>1, <3>2, FirstOfAtMost DEF Startable
      <3>4. Small(batch'[r])
        <4>1. Startable(r) \in SUBSET Steps
          BY <3>1 DEF Startable, FirstOf
        <4> QED
          BY <2>4, <4>1, SmallSet
      <3>5. batch'[r] \cup active'[r] # {}
        <4>1. CASE active[r] = {}
          <5>1. k \in Nat \ {0}
            BY <1>1, <4>1, FS_EmptySet
          <5>2. Ready(r) # {}
            BY <2>1, <2>4, <4>1, ReadyOrRunning
          <5> HIDE DEF k
          <5>3. FirstOf(k, Ready(r)) # {}
            BY <3>1, <5>1, <5>2, FirstOfSome, Zenon
          <5> QED
            BY <2>4, <5>3 DEF Startable, k
        <4>2. CASE active[r] # {}
          BY <2>1, <4>2
        <4> QED
          BY <4>1, <4>2
      <3>6. Present(r)' = Present(r)
        BY <2>1, Zenon DEF Present
      <3>7. Valid(Present(r))'
        BY <1>1, <2>1, <3>6, ValidKept DEF Flow, InDag
      <3>8. Cardinality(active'[r]) <= MaxParallel /\ Cardinality(active'[r]) + Cardinality(batch'[r]) <= MaxParallel
        BY <1>1, <2>1, <3>2, <3>3, <3>4 DEF Flow, Small
      <3>9. batch'[r] \subseteq Present(r)'
        BY <2>4, <3>6 DEF Startable, FirstOf, Ready, Pending
      <3> QED
        BY <2>4, <3>5, <3>7, <3>8, <3>9 DEF Flow
    <2> QED
      BY <2>2, <2>3, <2>4
  <1>12. CASE StartNode(r)
    <2> DEFINE s == Least(batch[r])
    <2>1. s \in batch[r] /\ s \in Steps /\ pc[r] = "start"
      BY <1>1, <1>12, LeastIn DEF StartNode, At
    <2>2. s \notin active[r]
      BY <1>1, <2>1 DEF RunInv, InBatch, InMemory
    <2>3. \/ /\ Write(r, s, "running") /\ active' = [active EXCEPT ![r] = @ \cup {s}]
             /\ batch' = [batch EXCEPT ![r] = @ \ {s}] /\ UNCHANGED pc
          \/ Raise(r, "failed") /\ UNCHANGED active
      BY <1>12, Zenon DEF StartNode
    <2>4. rows[r][s] # "none"
      BY <2>1 DEF Flow, Present
    <2> HIDE DEF s
    <2>5. CASE Raise(r, "failed") /\ UNCHANGED active
      <3>1. pc'[r] = "unwind"
        BY <1>2, <2>5 DEF Raise, Goto
      <3> QED
        BY <1>3, <2>5, <3>1 DEF InDag
    <2>6. CASE /\ Write(r, s, "running") /\ active' = [active EXCEPT ![r] = @ \cup {s}]
               /\ batch' = [batch EXCEPT ![r] = @ \ {s}] /\ UNCHANGED pc
      <3>1. active'[r] = active[r] \cup {s} /\ batch'[r] = batch[r] \ {s} /\ pc'[r] = "start"
        BY <1>2, <2>1, <2>6
      <3>. IsFiniteSet(active[r]) /\ IsFiniteSet(batch[r])
        BY <1>1 DEF Small
      <3>2. Cardinality(active'[r]) = Cardinality(active[r]) + 1
        <4>1. Cardinality(active[r] \cup {s}) = Cardinality(active[r]) + 1
          BY <2>2, FS_AddElement
        <4> QED
          BY <3>1, <4>1, Zenon
      <3>3. Cardinality(batch'[r]) = Cardinality(batch[r]) - 1
        BY <2>1, <3>1, FS_RemoveElement, Zenon
      <3>4. s \in batch[r] => Cardinality(batch[r]) # 0
        BY <1>1, FS_EmptySet, Zenon DEF Small
      <3>5. \A t \in Steps : rows'[r][t] = "none" <=> rows[r][t] = "none"
        BY <1>2, <2>1, <2>4, <2>6 DEF Write
      <3>6. Present(r)' = Present(r)
        BY <3>5, Zenon DEF Present
      <3>7. Valid(Present(r))'
        BY <1>1, <2>1, <3>6, ValidKept DEF Flow, InDag
      <3> QED
        BY <1>1, <2>1, <3>1, <3>2, <3>3, <3>4, <3>6, <3>7 DEF Flow, Small
    <2> QED
      BY <2>3, <2>5, <2>6
  <1>13. CASE Started(r) \/ Wake(r) \/ Reaped(r)
    <2>1. rows' = rows /\ active' = active /\ pc[r] \in InDag
      BY <1>13, Zenon DEF Started, Wake, Reaped, InDag
    <2>2. pc'[r] \in {"unwind", "loop", "wait", "reap"}
      BY <1>2, <1>13 DEF Started, Wake, Reaped, Raise, Goto
    <2> QED
      BY <1>3, <1>5, <2>1, <2>2 DEF InDag
  <1>14. CASE Reap(r)
    <2>1. PICK s \in Steps : /\ active'[r] = active[r] \ {s}
                             /\ \A t \in Steps : rows'[r][t] = "none" <=> rows[r][t] = "none"
      BY <1>14, ReapPresent
    <2>2. pc[r] = "reap" /\ pc'[r] \in {"unwind", "reap"}
      BY <1>2, <1>14 DEF Reap, Raise, Goto
    <2> QED
      BY <1>3, <1>5, <2>1, <2>2 DEF InDag
  <1>15. CASE Settle(r)
    <2>1. pc'[r] = "settle" /\ \E s : active'[r] = active[r] \ {s}
      BY <1>2, <1>15 DEF Settle
    <2> QED
      BY <1>3, <2>1 DEF InDag
  <1> QED
    BY <1>6, <1>7, <1>8, <1>9, <1>10, <1>11, <1>12, <1>13, <1>14, <1>15, Zenon
       DEF RunStep, WorkerStep

LEMMA NextFlow == FlowInv /\ [Next]_vars => FlowInv'
  <1> SUFFICES ASSUME FlowInv, [Next]_vars PROVE FlowInv'
    OBVIOUS
  <1>1. Inv /\ Inv' /\ \A r \in Runs : Flow(r)
    BY NextInv, Zenon DEF FlowInv
  <1>2. CASE UNCHANGED vars
    <2>1. ASSUME NEW r \in Runs PROVE Flow(r)'
      <3>1. Present(r)' = Present(r) /\ deps' = deps
        BY <1>2, Zenon DEF vars, Present
      <3>2. pc' = pc /\ active' = active /\ batch' = batch
        BY <1>2, Zenon DEF vars
      <3> QED
        BY <1>1, <3>1, <3>2, ValidKept, Zenon DEF Flow
    <2> QED
      BY <1>1, <2>1, Zenon DEF FlowInv
  <1>3. ASSUME NEW q \in Runs, RunStep(q) PROVE FlowInv'
    <2>1. ASSUME NEW r \in Runs PROVE Flow(r)'
      <3>1. CASE q = r
        BY <1>1, <1>3, <3>1, FlowStep, Zenon DEF Inv
      <3>2. CASE q # r
        <4>1. Same(r) /\ deps' = deps
          BY <1>1, <1>3, <3>2, Others, Counts, Zenon DEF Inv
        <4>2. Present(r)' = Present(r)
          BY <4>1, Zenon DEF Present, Same
        <4> QED
          BY <1>1, <4>1, <4>2, ValidKept, Zenon DEF Flow, Same
      <3> QED
        BY <3>1, <3>2
    <2> QED
      BY <1>1, <2>1, Zenon DEF FlowInv
  <1> QED
    BY <1>2, <1>3, Zenon DEF Next

LEMMA InitFlow == Init => FlowInv
  <1> SUFFICES ASSUME Init, NEW r \in Runs PROVE Flow(r)
    BY InitInv, Zenon DEF FlowInv
  <1>1. pc[r] = "idle" /\ active[r] = {}
    BY DEF Init
  <1> QED
    BY <1>1, FS_EmptySet, StepsAssumption DEF Flow, InDag

\* run_dag always has a node to start or one to wait for: its own "no runnable
\* steps" error is dead code, as its comment says.
THEOREM StepsNeverStall == Spec => []NeverStalls
  <1>1. FlowInv => NeverStalls
    BY DEF FlowInv, Flow, NeverStalls
  <1> QED
    BY <1>1, InitFlow, NextFlow, PTL DEF Spec

\* Every variable keeps its type, no more than max_parallel bodies work at once,
\* and each result run_dag holds is stored (run_dag).
THEOREM StepsTypeOK == Spec => []TypeOK
  <1>1. FlowInv => TypeOK
    <2> SUFFICES ASSUME FlowInv PROVE TypeOK
      OBVIOUS
    <2>1. Typed /\ \A r \in Runs : RunInv(r) /\ Flow(r)
      BY Zenon DEF FlowInv, Inv
    <2>2. ASSUME NEW r \in Runs
          PROVE  Cardinality({s \in active[r] : body[r][s] \in Working}) <= MaxParallel
      <3> DEFINE B == {s \in active[r] : body[r][s] \in Working}
      <3>1. At(r) /\ Small(active[r])
        BY <2>1, TypedAt, SmallSet DEF At
      <3>2. B \in SUBSET active[r] /\ B \in SUBSET Steps
        BY <3>1 DEF At
      <3>3. Small(B) /\ Cardinality(B) <= Cardinality(active[r])
        BY <3>1, <3>2, SmallSet, FS_Subset, Zenon DEF Small
      <3> HIDE DEF B
      <3>4. Cardinality(B) <= MaxParallel
        BY <2>1, <3>1, <3>3, StepsAssumption DEF Flow, Small
      <3> QED
        BY <3>4 DEF B
    <2>3. ASSUME NEW r \in Runs PROVE results[r] \subseteq {s \in Steps : rows[r][s] = "done"}
      BY <2>1, TypedAt DEF RunInv, InMemory, At
    <2> QED
      BY <2>1, <2>2, <2>3, Zenon DEF TypeOK
  <1> QED
    BY <1>1, InitFlow, NextFlow, PTL DEF Spec

=============================================================================
