------------------------ MODULE TaskRunLifecycle_proofs ------------------------
(***************************************************************************)
(* Proofs about one task run, for every number of workers, clients and     *)
(* recovery passes and every value of the timeouts; and, in the second     *)
(* half, the proof that the lifecycle implements its event log.            *)
(***************************************************************************)
EXTENDS TaskRunEventLog, TLAPS

-----------------------------------------------------------------------------
(* The data: what a conditional UPDATE writes is a row again.              *)

USE DEF Leased, Active, Terminal

LEMMA BumpType ==
    ASSUME NEW row \in Rows, NEW snap \in Rows
    PROVE  Bump(row, snap) \in Rows
  BY DEF Bump, Rows

LEMMA LogType ==
    ASSUME NEW row \in Rows, NEW snap \in Rows, NEW kind \in EventKinds
    PROVE  Log(row, snap, kind) \in Rows
  <1>1. [seq |-> snap.seq + 1, kind |-> kind] \in Envelopes
    BY DEF Rows, Envelopes
  <1> DEFINE longer == Append(snap.outbox, [seq |-> snap.seq + 1, kind |-> kind])
  <1>2. longer \in Seq(Envelopes) /\ snap.seq + 1 \in Nat
    BY <1>1 DEF Rows
  <1>3. Log(row, snap, kind)
          = [[row EXCEPT !.seq = snap.seq + 1] EXCEPT !.outbox = longer]
    BY DEF Log, Rows
  <1> HIDE DEF longer
  <1>4. [row EXCEPT !.seq = snap.seq + 1] \in Rows
    BY <1>2 DEF Rows
  <1>5. [[row EXCEPT !.seq = snap.seq + 1] EXCEPT !.outbox = longer] \in Rows
    BY <1>2, <1>4 DEF Rows
  <1> QED
    BY <1>3, <1>5

LEMMA RestType == NewRow \in Rows /\ Idle \in Ops
  BY DEF Idle, Ops, Places, Kinds, NewRow, Rows, Statuses, ErrorCodes

\* Whatever a process turns to next, op stays well typed.
LEMMA OpTypes ==
    ASSUME op \in [Procs -> Ops], run \in Rows, NEW p \in Procs, NEW kind \in Kinds
    PROVE  /\ Snapshot(p, kind) => op' \in [Procs -> Ops]
           /\ Done(p) => op' \in [Procs -> Ops]
           /\ \A place \in Places : Goto(p, place, kind) => op' \in [Procs -> Ops]
           /\ \A place \in Places : Go(p, place) => op' \in [Procs -> Ops]
  <1>1. [at |-> "commit", kind |-> kind, snap |-> run] \in Ops
    BY DEF Ops, Places
  <1>2. ASSUME NEW place \in Places, NEW k \in Kinds
        PROVE  [at |-> place, kind |-> k, snap |-> NewRow] \in Ops
    BY RestType DEF Ops
  <1>3. op[p].kind \in Kinds
    BY DEF Ops
  <1> QED
    BY <1>1, <1>2, <1>3, RestType DEF Snapshot, Done, Goto, Go

LEMMA SubProcs ==
    /\ \A w \in Workers : w \in Procs
    /\ \A c \in Clients : c \in Procs
    /\ \A r \in Recoverers : r \in Procs
    /\ Publisher \in Procs
  BY DEF Procs

-----------------------------------------------------------------------------
(* Type correctness.                                                       *)

LEMMA InitTypeOK == Init => TypeOK
  <1> SUFFICES ASSUME Init PROVE TypeOK
    OBVIOUS
  <1> USE TimesAssumption, RestType
  <1>1. [Idle EXCEPT !.at = "publish"] \in Ops
    BY DEF Ops, Places
  <1>2. op \in [Procs -> Ops]
    BY <1>1 DEF Init
  <1>3. timer \in [queue: Nat, lease: Nat, grace: Nat]
    BY DEF Init
  <1> QED
    BY <1>2, <1>3 DEF Init, TypeOK, Bodies


\* A process that holds a snapshot holds a row.
LEMMA SnapType ==
    ASSUME TypeOK, NEW p \in Procs
    PROVE  /\ op[p].snap \in Rows /\ op[p].kind \in Kinds /\ op[p].at \in Places
           /\ op[p].snap.version \in Nat /\ op[p].snap.generation \in Nat
           /\ op[p].snap.status \in Statuses /\ op[p].snap.cancel \in BOOLEAN
           /\ op[p].snap.outbox \in Seq(Envelopes)
  <1>1. op[p] \in Ops
    BY DEF TypeOK
  <1> QED
    BY <1>1 DEF Ops, Rows

LEMMA RunType ==
    ASSUME TypeOK
    PROVE  /\ run.version \in Nat /\ run.generation \in Nat /\ run.seq \in Nat
           /\ run.status \in Statuses /\ run.cancel \in BOOLEAN
           /\ run.outbox \in Seq(Envelopes) /\ run.error \in ErrorCodes
  BY DEF TypeOK, Rows

\* The fields an UPDATE assigns, one at a time and together.
LEMMA FieldTypes ==
    ASSUME NEW row \in Rows, NEW s \in Statuses, NEW e \in ErrorCodes,
           NEW g \in Nat, NEW c \in BOOLEAN, NEW o \in Seq(Envelopes)
    PROVE  /\ [row EXCEPT !.status = s] \in Rows
           /\ [row EXCEPT !.error = e] \in Rows
           /\ [row EXCEPT !.generation = g] \in Rows
           /\ [row EXCEPT !.cancel = c] \in Rows
           /\ [row EXCEPT !.job = TRUE] \in Rows
           /\ [row EXCEPT !.outbox = o] \in Rows
  BY DEF Rows

LEMMA ClaimedType ==
    ASSUME NEW row \in Rows, NEW s \in Statuses, NEW g \in Nat
    PROVE  [row EXCEPT !.status = s, !.generation = g] \in Rows
  <1>1. [row EXCEPT !.status = s, !.generation = g]
          = [[row EXCEPT !.status = s] EXCEPT !.generation = g]
    BY DEF Rows
  <1>2. [row EXCEPT !.status = s] \in Rows
    BY DEF Rows
  <1>3. [[row EXCEPT !.status = s] EXCEPT !.generation = g] \in Rows
    BY <1>2 DEF Rows
  <1> QED
    BY <1>1, <1>3

LEMMA EndedType ==
    ASSUME NEW row \in Rows, NEW s \in Statuses, NEW e \in ErrorCodes, NEW g \in Nat
    PROVE  /\ [row EXCEPT !.status = s, !.error = e] \in Rows
           /\ [row EXCEPT !.status = s, !.error = e, !.generation = g] \in Rows
  <1>1. [row EXCEPT !.status = s, !.error = e]
          = [[row EXCEPT !.status = s] EXCEPT !.error = e]
    BY DEF Rows
  <1>2. [row EXCEPT !.status = s] \in Rows
    BY DEF Rows
  <1>3. [[row EXCEPT !.status = s] EXCEPT !.error = e] \in Rows
    BY <1>2 DEF Rows
  <1>4. [row EXCEPT !.status = s, !.error = e, !.generation = g]
          = [[row EXCEPT !.status = s, !.error = e] EXCEPT !.generation = g]
    BY DEF Rows
  <1>5. ASSUME NEW r \in Rows PROVE [r EXCEPT !.generation = g] \in Rows
    BY DEF Rows
  <1> QED
    BY <1>1, <1>3, <1>4, <1>5

LEMMA CancelledType ==
    ASSUME NEW row \in Rows, NEW s \in Statuses, NEW c \in BOOLEAN, NEW g \in Nat
    PROVE  [row EXCEPT !.status = s, !.cancel = c, !.generation = g] \in Rows
  <1>1. [row EXCEPT !.status = s, !.cancel = c, !.generation = g]
          = [[row EXCEPT !.cancel = c] EXCEPT !.status = s, !.generation = g]
    BY DEF Rows
  <1>2. [row EXCEPT !.cancel = c] \in Rows
    BY DEF Rows
  <1> QED
    BY <1>1, <1>2, ClaimedType

LEMMA WorkerTypeOK ==
    ASSUME TypeOK, NEW w \in Workers, WorkerStep(w)
    PROVE  TypeOK'
  <1> DEFINE snap == op[w].snap
             kind == op[w].kind
             OpOK == op' \in [Procs -> Ops]
  <1>a. /\ w \in Procs /\ run \in Rows /\ snap \in Rows
        /\ kind \in Kinds /\ snap.generation \in Nat /\ snap.version \in Nat
    BY SubProcs, SnapType DEF TypeOK
  <1>b. /\ \A k \in Kinds : Snapshot(w, k) => OpOK
        /\ Done(w) => OpOK
        /\ \A place \in Places : Go(w, place) => OpOK
    BY <1>a, OpTypes DEF TypeOK
  <1>c. {"claim", "running", "step", "completed", "failed", "cancelled",
         "failqueued"} \subseteq Kinds
        /\ {"flush", "release"} \subseteq Places
    BY DEF Kinds, Places
  <1>d. {"queued", "running", "cancelling", "completed", "failed", "cancelled"}
            \subseteq Statuses
        /\ "error" \in ErrorCodes
    BY DEF Statuses, ErrorCodes
  <1>e. {"new", "claimed", "running", "closing", "done"} = Bodies
    BY DEF Bodies
  <1> HIDE DEF snap, kind, OpOK
  <1>1. CASE TaskMissing(w)
    BY <1>1, <1>b, <1>c, <1>e DEF TaskMissing, FailQueuedRead, TypeOK, OpOK
  <1>2. CASE ClaimRead(w)
    BY <1>2, <1>b, <1>c, <1>e DEF ClaimRead, TypeOK, OpOK
  <1>3. CASE ClaimCommit(w)
    <2> DEFINE claimed == [run EXCEPT !.status = "running",
                                      !.generation = snap.generation + 1]
    <2>0. claimed \in Rows
      <3>1. snap.generation + 1 \in Nat /\ "running" \in Statuses
        BY <1>a, <1>d
      <3> QED
        BY <1>a, <3>1, ClaimedType
    <2>1. run' \in Rows
      BY <1>3, <1>a, <2>0, BumpType DEF ClaimCommit, snap
    <2>2. OpOK
      BY <1>3, <1>b DEF ClaimCommit
    <2>3. timer' \in [queue: Nat, lease: Nat, grace: Nat]
      BY <1>3, TimesAssumption DEF ClaimCommit, TypeOK
    <2>4. claim' \in [Workers -> Nat] /\ body' \in [Workers -> Bodies]
      BY <1>3, <1>a, <1>e DEF ClaimCommit, TypeOK, snap
    <2> QED
      BY <1>3, <2>1, <2>2, <2>3, <2>4 DEF ClaimCommit, TypeOK, OpOK
  <1>4. CASE Heartbeat(w)
    <2>1. run' \in Rows
      BY <1>4, <1>a, BumpType DEF Heartbeat, Beating
    <2>2. timer' \in [queue: Nat, lease: Nat, grace: Nat]
      BY <1>4, TimesAssumption DEF Heartbeat, Beating, TypeOK
    <2> QED
      BY <1>4, <2>1, <2>2 DEF Heartbeat, Beating, TypeOK
  <1>5. CASE EmitRead(w)
    BY <1>5, <1>b, <1>c DEF EmitRead, TypeOK, OpOK
  <1>6. CASE EmitCommit(w)
    <2>1. kind \in EventKinds
      BY <1>6, <1>d DEF EmitCommit, EventKinds, kind
    <2>2. run' \in Rows
      BY <1>6, <1>a, <2>1, BumpType, LogType DEF EmitCommit, kind, snap
    <2>3. OpOK
      BY <1>6, <1>a, <1>b, <1>c DEF EmitCommit, kind
    <2>4. body' \in [Workers -> Bodies]
      BY <1>6, <1>e DEF EmitCommit, TypeOK
    <2> QED
      BY <1>6, <2>2, <2>3, <2>4 DEF EmitCommit, TypeOK, OpOK
  <1>7. CASE BodyFails(w)
    BY <1>7, <1>e DEF BodyFails, TypeOK
  <1>8. CASE FinishRead(w)
    <2>1. OpOK
      BY <1>8, <1>b, <1>c DEF FinishRead, Outcome, TypeOK, OpOK
    <2>2. body' \in [Workers -> Bodies]
      BY <1>8, <1>e DEF FinishRead, TypeOK
    <2> QED
      BY <1>8, <2>1, <2>2 DEF FinishRead, TypeOK, OpOK
  <1>9. CASE FinishCommit(w)
    <2> DEFINE code == IF kind = "failed" THEN "error" ELSE run.error
    <2>1. kind \in EventKinds /\ kind \in Statuses
      BY <1>9, <1>d DEF FinishCommit, EventKinds, kind
    <2>2. code \in ErrorCodes
      BY <1>d, RunType
    <2>3. ASSUME LeaseFenced(w, snap)
          PROVE  run' \in Rows
      <3>1. [run EXCEPT !.status = kind, !.error = code] \in Rows
        BY <1>a, <2>1, <2>2, EndedType
      <3>2. run' = Bump(Log([run EXCEPT !.status = kind, !.error = code],
                            snap, kind), snap)
        BY <1>9, <2>3 DEF FinishCommit, kind, snap
      <3> QED
        BY <3>1, <3>2, <1>a, <2>1, BumpType, LogType
    <2>4. run' \in Rows
      BY <1>9, <1>a, <2>3 DEF FinishCommit, snap
    <2>5. OpOK
      BY <1>9, <1>a, <1>b, <1>c DEF FinishCommit, FinishRetry, Outcome, kind
    <2>6. body' \in [Workers -> Bodies]
      BY <1>9, <1>e DEF FinishCommit, FinishRetry, TypeOK
    <2>7. finisher' \in Procs \cup {NoProc}
      BY <1>9, <1>a DEF FinishCommit, TypeOK
    <2> QED
      BY <1>9, <2>4, <2>5, <2>6, <2>7 DEF FinishCommit, TypeOK, OpOK
  <1> QED
    BY <1>1, <1>2, <1>3, <1>4, <1>5, <1>6, <1>7, <1>8, <1>9 DEF WorkerStep

LEMMA RequestTypeOK ==
    ASSUME TypeOK,
           \/ \E c \in Clients : ClientStep(c)
           \/ \E r \in Recoverers : RecovererStep(r)
           \/ PublisherStep
    PROVE  TypeOK'
  <1> DEFINE OpOK == op' \in [Procs -> Ops]
  <1>a. run \in Rows
    BY DEF TypeOK
  <1>b. ASSUME NEW p \in Procs
        PROVE  /\ \A k \in Kinds : Snapshot(p, k) => OpOK
               /\ Done(p) => OpOK
               /\ \A place \in Places : Go(p, place) => OpOK
               /\ \A place \in Places, k \in Kinds : Goto(p, place, k) => OpOK
               /\ op[p].snap \in Rows /\ op[p].snap.status \in Statuses
               /\ op[p].snap.generation \in Nat /\ op[p].snap.cancel \in BOOLEAN
    BY <1>a, OpTypes, SnapType DEF TypeOK
  <1>c. {"request", "force", "recover", "attach", "failqueued"} \subseteq Kinds
        /\ {"flush", "release"} \subseteq Places
    BY DEF Kinds, Places
  <1>d. {"queued", "running", "cancelling", "completed", "failed", "cancelled"}
            \subseteq Statuses
        /\ Statuses \subseteq EventKinds
    BY DEF Statuses, EventKinds
  <1> HIDE DEF OpOK
  <1>1. ASSUME NEW c \in Clients, RequestRead(c) \/ ForceRead(c)
        PROVE  TypeOK'
    BY <1>1, <1>b, <1>c, SubProcs DEF RequestRead, ForceRead, TypeOK, OpOK
  <1>2. ASSUME NEW c \in Clients, CancelCommit(c)
        PROVE  TypeOK'
    <2> DEFINE snap == op[c].snap
               ends == op[c].kind = "force" \/ snap.status = "queued"
               target == IF ends THEN "cancelled" ELSE "cancelling"
               gen == IF op[c].kind = "force" THEN ForcedGeneration(snap)
                                              ELSE run.generation
    <2>1. target \in Statuses /\ target \in EventKinds
      BY <1>d
    <2>2. gen \in Nat
      BY <1>b, SubProcs, RunType DEF ForcedGeneration
    <2>3. OpOK
      BY <1>2, <1>b, <1>c, SubProcs DEF CancelCommit
    <2>4. timer' \in [queue: Nat, lease: Nat, grace: Nat]
      BY <1>2, TimesAssumption DEF CancelCommit, TypeOK
    <2>5. ASSUME CancelUpdateMatches(snap)
          PROVE  run' \in Rows
      <3> DEFINE row == [run EXCEPT !.status = target, !.cancel = TRUE,
                                    !.generation = gen]
      <3>1. row \in Rows
        BY <1>a, <2>1, <2>2, CancelledType
      <3>2. run' = Bump(Log(row, snap, target), snap)
        BY <1>2, <2>5 DEF CancelCommit
      <3> QED
        BY <1>b, <3>1, <3>2, <2>1, SubProcs, BumpType, LogType
    <2>6. run' \in Rows
      BY <1>2, <1>a, <2>5 DEF CancelCommit
    <2>7. finisher' \in Procs \cup {NoProc}
      BY <1>2, SubProcs DEF CancelCommit, TypeOK
    <2> QED
      BY <1>2, <2>3, <2>4, <2>6, <2>7 DEF CancelCommit, TypeOK, OpOK
  <1>3. ASSUME NEW r \in Recoverers,
               RecoverRead(r) \/ RecoverHead(r) \/ RecoverOutbox(r)
        PROVE  TypeOK'
    BY <1>3, <1>b, <1>c, SubProcs
       DEF RecoverRead, RecoverHead, RecoverOutbox, TypeOK, OpOK
  <1>4. ASSUME NEW r \in Recoverers, RecoverCommit(r)
        PROVE  TypeOK'
    <2> DEFINE snap == op[r].snap
               gen == IF snap.status \in Leased THEN snap.generation + 1
                                                ELSE run.generation
    <2>1. /\ RecoveredStatus(snap) \in Statuses
          /\ RecoveredStatus(snap) \in EventKinds
          /\ RecoveredError(snap) \in ErrorCodes
      BY <1>d DEF RecoveredStatus, RecoveredError, ErrorCodes
    <2>2. gen \in Nat
      BY <1>b, SubProcs, RunType
    <2>3. OpOK
      BY <1>4, <1>b, <1>c, SubProcs DEF RecoverCommit
    <2>4. ASSUME RecoverUpdateMatches(snap)
          PROVE  run' \in Rows
      <3> DEFINE row == [run EXCEPT !.status = RecoveredStatus(snap),
                                    !.error = RecoveredError(snap),
                                    !.generation = gen]
      <3>1. row \in Rows
        BY <1>a, <2>1, <2>2, EndedType
      <3>2. run' = Bump(Log(row, snap, RecoveredStatus(snap)), snap)
        BY <1>4, <2>4 DEF RecoverCommit
      <3> QED
        BY <1>b, <3>1, <3>2, <2>1, SubProcs, BumpType, LogType
    <2>5. run' \in Rows
      BY <1>4, <1>a, <2>4 DEF RecoverCommit
    <2>6. finisher' \in Procs \cup {NoProc}
      BY <1>4, SubProcs DEF RecoverCommit, TypeOK
    <2> QED
      BY <1>4, <2>3, <2>5, <2>6 DEF RecoverCommit, TypeOK, OpOK
  <1>5. CASE Publish
    BY <1>5, <1>b, <1>c, SubProcs DEF Publish, FailQueuedRead, TypeOK, OpOK
  <1>6. CASE AttachCommit
    <2>1. [run EXCEPT !.job = TRUE] \in Rows
      BY <1>a DEF Rows
    <2>2. run' \in Rows
      BY <1>6, <1>a, <1>b, <2>1, SubProcs, BumpType DEF AttachCommit
    <2>3. OpOK
      BY <1>6, <1>b, <1>c, SubProcs DEF AttachCommit
    <2> QED
      BY <1>6, <2>2, <2>3 DEF AttachCommit, TypeOK, OpOK
  <1> QED
    BY <1>1, <1>2, <1>3, <1>4, <1>5, <1>6
       DEF ClientStep, RecovererStep, PublisherStep

LEMMA CommonTypeOK ==
    ASSUME TypeOK, (\E p \in Procs : AnyStep(p)) \/ Tick
    PROVE  TypeOK'
  <1> DEFINE OpOK == op' \in [Procs -> Ops]
  <1>a. run \in Rows
    BY DEF TypeOK
  <1>b. ASSUME NEW p \in Procs
        PROVE  /\ \A k \in Kinds : Snapshot(p, k) => OpOK
               /\ Done(p) => OpOK
               /\ \A place \in Places : Go(p, place) => OpOK
               /\ op[p].snap \in Rows /\ op[p].kind \in Kinds
    BY <1>a, OpTypes, SnapType DEF TypeOK
  <1>c. {"failqueued"} \subseteq Kinds /\ {"flush", "release", "drop"} \subseteq Places
    BY DEF Kinds, Places
  <1> HIDE DEF OpOK
  <1>1. ASSUME NEW p \in Procs, FailQueuedCommit(p)
        PROVE  TypeOK'
    <2> DEFINE row == [run EXCEPT !.status = "failed", !.error = "publish_failed"]
    <2>1. row \in Rows
      BY <1>a, EndedType DEF Statuses, ErrorCodes
    <2>2. run' \in Rows
      BY <1>1, <1>a, <1>b, <2>1, BumpType DEF FailQueuedCommit
    <2>3. OpOK
      BY <1>1, <1>b, <1>c DEF FailQueuedCommit, FailQueuedRead
    <2>4. finisher' \in Procs \cup {NoProc}
      BY <1>1 DEF FailQueuedCommit, TypeOK
    <2> QED
      BY <1>1, <2>2, <2>3, <2>4 DEF FailQueuedCommit, TypeOK, OpOK
  <1>2. ASSUME NEW p \in Procs, Release(p) \/ FlushEnd(p) \/ StoreFault(p)
        PROVE  TypeOK'
    <2>1. OpOK
      BY <1>2, <1>b, <1>c DEF Release, FlushEnd, StoreFault
    <2>2. head' \in BOOLEAN
      BY <1>2 DEF Release, FlushEnd, StoreFault, TypeOK
    <2>3. faults' \in Nat
      BY <1>2 DEF Release, FlushEnd, StoreFault, TypeOK
    <2> QED
      BY <1>2, <2>1, <2>2, <2>3
         DEF Release, FlushEnd, StoreFault, TypeOK, OpOK
  <1>3. ASSUME NEW p \in Procs, FlushInsert(p)
        PROVE  TypeOK'
    <2>1. Head(run.outbox) \in Envelopes
      BY <1>3, RunType DEF FlushInsert
    <2>2. events' \subseteq Envelopes
      BY <1>3, <2>1 DEF FlushInsert, Persist, TypeOK
    <2>3. [at |-> "drop", kind |-> op[p].kind, snap |-> run] \in Ops
      BY <1>a, <1>b, <1>c DEF Ops
    <2>4. OpOK
      BY <1>3, <2>3 DEF FlushInsert, TypeOK, OpOK
    <2> QED
      BY <1>3, <2>2, <2>4 DEF FlushInsert, TypeOK, OpOK
  <1>4. ASSUME NEW p \in Procs, FlushDrop(p)
        PROVE  TypeOK'
    <2>1. OpOK
      BY <1>4, <1>b, <1>c DEF FlushDrop
    <2>2. ASSUME NEW o \in Seq(Envelopes)
          PROVE  [run EXCEPT !.outbox = o] \in Rows
      BY <1>a DEF Rows
    <2>3. Rest(op[p].snap.outbox) \in Seq(Envelopes)
      <3>1. op[p].snap.outbox \in Seq(Envelopes)
        BY SnapType
      <3> QED
        BY <3>1 DEF Rest
    <2>4. run' \in Rows
      BY <1>4, <1>a, <1>b, <2>2, <2>3, BumpType DEF FlushDrop
    <2> QED
      BY <1>4, <2>1, <2>4 DEF FlushDrop, TypeOK, OpOK
  <1>5. ASSUME NEW p \in Procs, Crash(p)
        PROVE  TypeOK'
    <2>1. body' \in [Workers -> Bodies]
      BY <1>5 DEF Crash, TypeOK, Bodies
    <2> QED
      BY <1>5, <2>1, <1>b DEF Crash, TypeOK, OpOK
  <1>6. CASE Tick
    <2>1. \A n \in Nat : Less(n) \in Nat
      BY DEF Less
    <2>2. timer' \in [queue: Nat, lease: Nat, grace: Nat]
      BY <1>6, <2>1 DEF Tick, TypeOK
    <2> QED
      BY <1>6, <2>2 DEF Tick, TypeOK
  <1> QED
    BY <1>1, <1>2, <1>3, <1>4, <1>5, <1>6 DEF AnyStep

LEMMA NextTypeOK == TypeOK /\ [Next]_vars => TypeOK'
  <1> SUFFICES ASSUME TypeOK, [Next]_vars PROVE TypeOK'
    OBVIOUS
  <1>1. CASE UNCHANGED vars
    BY <1>1 DEF vars, TypeOK
  <1>2. CASE Next
    BY <1>2, WorkerTypeOK, RequestTypeOK, CommonTypeOK DEF Next
  <1> QED
    BY <1>1, <1>2

\* Every row, snapshot, envelope and timer stays well formed.
THEOREM Typing == Spec => []TypeOK
  <1> QED
    BY InitTypeOK, NextTypeOK, PTL DEF Spec

-----------------------------------------------------------------------------
(* The inductive invariant.  A conditional UPDATE compares versions, so it *)
(* only ever writes over the row it was read from: that is SnapshotsAge,   *)
(* and everything else follows from what each reader looked at.            *)

\* No snapshot is newer than the row, and one of the same version is the row.
SnapshotsAge ==
    \A p \in Procs : op[p].at \in {"commit", "drop"} =>
        /\ op[p].snap.version <= run.version
        /\ op[p].snap.version = run.version => op[p].snap = run

\* What a process checked on the row before it set out to write it.
CommitLive(x) ==
    /\ x.kind # "attach" => x.snap.status \notin Terminal
    /\ x.kind \in {"completed", "failed"} => x.snap.status # "cancelling"
    /\ x.kind \in {"claim", "failqueued"} => x.snap.status = "queued"
    /\ x.kind = "force" => x.snap.status = "cancelling"

CommitsLive == \A p \in Procs : op[p].at = "commit" => CommitLive(op[p])

\* A requested cancellation shows in the status.
CancelShows ==
    run.status \in {"queued", "running", "completed", "failed"} => ~run.cancel

\* Generations are handed out once, and only to a run that leaves the queue.
ClaimsInOrder ==
    /\ run.status = "queued" => \A w \in Workers : claim[w] = 0
    /\ \A w \in Workers : claim[w] <= run.generation

ErrorsEnd == run.error # "none" => run.status \in Terminal

Shape == TypeOK /\ SnapshotsAge /\ CommitsLive

SafetyInv == /\ Shape /\ CancelShows /\ ClaimsInOrder /\ OneExecution
             /\ ErrorsEnd /\ RecoveryJustified /\ OwnTerminalToken

\* What a step can do to the outcome of the run.
Quiet ==
    /\ run'.status = run.status /\ run'.generation = run.generation
    /\ run'.cancel = run.cancel /\ run'.error = run.error
    /\ run.status \in Terminal => run'.seq = run.seq
    /\ claim' = claim /\ finisher' = finisher
    /\ \/ run.status \in Terminal /\ timer' = timer
       \/ run.status \notin Terminal

Claims(w) ==
    /\ run.status = "queued" /\ run'.status = "running"
    /\ run'.generation = run.generation + 1
    /\ run'.cancel = run.cancel /\ run'.error = run.error
    /\ claim' = [claim EXCEPT ![w] = run.generation + 1]
    /\ finisher' = finisher

Asks ==
    /\ run.status \in {"running", "cancelling"} /\ run'.status = "cancelling"
    /\ run'.generation = run.generation /\ run'.error = run.error
    /\ claim' = claim /\ finisher' = finisher

\* A worker ends the run under its own token, ...
EndsOwn(w) ==
    /\ run.status \notin Terminal /\ run'.status \in Terminal
    /\ run'.status \in {"completed", "failed"} => run.status # "cancelling"
    /\ run'.generation = run.generation /\ run.generation = claim[w]
    /\ run'.cancel = run.cancel /\ run'.error \in {run.error, "error"}
    /\ claim' = claim /\ finisher' = w

\* ... and anybody else a queued run, or a claimed one by taking the token.
EndsQueued ==
    /\ run.status = "queued" /\ run'.status \in {"failed", "cancelled"}
    /\ run'.status = "failed" => run'.cancel = run.cancel
    /\ run'.generation = run.generation
    /\ run'.error \in {run.error, "publish_failed", "queue_timeout"}
    /\ run'.error = "queue_timeout" => timer.queue = 0 \/ run.error = "queue_timeout"
    /\ claim' = claim /\ timer'.queue = timer.queue

EndsFenced ==
    /\ run.status \in Leased /\ run'.status \in {"failed", "cancelled"}
    /\ run'.status = "failed" => run'.cancel = run.cancel /\ ~run.cancel
    /\ run'.generation = run.generation + 1
    /\ run'.error \in {run.error, "cancelled", "worker_lost"}
    /\ run'.error = "worker_lost" => timer.lease = 0 \/ run.error = "worker_lost"
    /\ claim' = claim /\ timer'.lease = timer.lease

Effect == \/ Quiet \/ Asks \/ EndsQueued \/ EndsFenced
          \/ \E w \in Workers : Claims(w) \/ EndsOwn(w)

LEMMA Fields ==
    ASSUME NEW row \in Rows, NEW snap \in Rows
    PROVE  /\ Bump(row, snap).version = snap.version + 1
           /\ Bump(row, snap).status = row.status
           /\ Bump(row, snap).generation = row.generation
           /\ Bump(row, snap).cancel = row.cancel
           /\ Bump(row, snap).error = row.error
           /\ Bump(row, snap).seq = row.seq
  BY DEF Bump, Rows

LEMMA LoggedFields ==
    ASSUME NEW row \in Rows, NEW snap \in Rows, NEW kind \in EventKinds,
           NEW new, new = Bump(Log(row, snap, kind), snap)
    PROVE  /\ new.version = snap.version + 1
           /\ new.status = row.status
           /\ new.generation = row.generation
           /\ new.cancel = row.cancel
           /\ new.error = row.error
  <1>1. Log(row, snap, kind) \in Rows
    BY LogType
  <1>2. /\ Log(row, snap, kind).status = row.status
        /\ Log(row, snap, kind).generation = row.generation
        /\ Log(row, snap, kind).cancel = row.cancel
        /\ Log(row, snap, kind).error = row.error
    BY DEF Log, Rows
  <1> QED
    BY <1>1, <1>2, Fields

\* A snapshot whose version still matches is the row itself.
LEMMA Fresh ==
    ASSUME Shape, NEW p \in Procs, op[p].at \in {"commit", "drop"},
           run.version = op[p].snap.version
    PROVE  op[p].snap = run
  BY DEF Shape, SnapshotsAge

-----------------------------------------------------------------------------
(* The effect of each action that writes.                                  *)

\* What a writer of the row knows when its UPDATE matched.
LEMMA Matched ==
    ASSUME Shape, NEW p \in Procs, op[p].at = "commit",
           run.version = op[p].snap.version
    PROVE  /\ op[p].snap = run
           /\ op[p].kind # "attach" => run.status \notin Terminal
           /\ op[p].kind \in {"completed", "failed"} => run.status # "cancelling"
           /\ op[p].kind \in {"claim", "failqueued"} => run.status = "queued"
           /\ op[p].kind = "force" => run.status = "cancelling"
  <1>1. op[p].snap = run
    BY Fresh
  <1> QED
    BY <1>1 DEF Shape, CommitsLive, CommitLive

LEMMA ClaimEffect ==
    ASSUME Shape, NEW w \in Workers, ClaimCommit(w)
    PROVE  Quiet \/ Claims(w)
  <1>1. CASE ~ClaimUpdateMatches(op[w].snap)
    BY <1>1 DEF ClaimCommit, Quiet
  <1>2. CASE ClaimUpdateMatches(op[w].snap)
    <2> DEFINE row == [run EXCEPT !.status = "running",
                                  !.generation = run.generation + 1]
    <2>1. op[w].snap = run /\ run.status = "queued"
      BY <1>2, Matched, SubProcs DEF ClaimCommit, ClaimUpdateMatches, Unchanged, At
    <2>2. run' = Bump(row, run) /\ claim' = [claim EXCEPT ![w] = run.generation + 1]
          /\ finisher' = finisher
      BY <1>2, <2>1 DEF ClaimCommit
    <2>3. run \in Rows /\ row \in Rows
      <3>1. run \in Rows /\ run.generation + 1 \in Nat /\ "running" \in Statuses
        BY RunType DEF Shape, TypeOK, Statuses
      <3> QED
        BY <3>1, ClaimedType
    <2>4. /\ row.status = "running" /\ row.generation = run.generation + 1
          /\ row.cancel = run.cancel /\ row.error = run.error
      BY <2>3 DEF Rows
    <2> QED
      BY <2>1, <2>2, <2>3, <2>4, Fields DEF Claims
  <1> QED
    BY <1>1, <1>2

LEMMA FinishEffect ==
    ASSUME Shape, NEW w \in Workers, FinishCommit(w)
    PROVE  Quiet \/ EndsOwn(w)
  <1> DEFINE kind == op[w].kind
  <1>1. CASE ~LeaseFenced(w, op[w].snap)
    BY <1>1 DEF FinishCommit, Quiet
  <1>2. CASE LeaseFenced(w, op[w].snap)
    <2> DEFINE code == IF kind = "failed" THEN "error" ELSE run.error
               row == [run EXCEPT !.status = kind, !.error = code]
    <2>1. kind \in Terminal /\ op[w].at = "commit"
      BY DEF FinishCommit
    <2>2. /\ op[w].snap = run /\ run.status \notin Terminal
          /\ kind \in {"completed", "failed"} => run.status # "cancelling"
      BY <1>2, <2>1, Matched, SubProcs DEF LeaseFenced, Unchanged
    <2>3. /\ run' = Bump(Log(row, run, kind), run)
          /\ finisher' = w /\ claim' = claim /\ timer' = timer
      BY <1>2, <2>2 DEF FinishCommit
    <2>4. run \in Rows /\ row \in Rows
      <3>1. run \in Rows /\ kind \in Statuses /\ code \in ErrorCodes
        BY <2>1, RunType DEF Shape, TypeOK, Statuses, ErrorCodes
      <3> QED
        BY <3>1, EndedType
    <2>5. /\ row.status = kind /\ row.generation = run.generation
          /\ row.cancel = run.cancel /\ row.error = code
      BY <2>4 DEF Rows
    <2>6. kind \in EventKinds
      BY <2>1 DEF EventKinds, Statuses
    <2> HIDE DEF row
    <2>7. /\ run'.status = kind /\ run'.generation = run.generation
          /\ run'.cancel = run.cancel /\ run'.error = code
      BY <2>3, <2>4, <2>5, <2>6, LoggedFields
    <2> QED
      BY <1>2, <2>1, <2>2, <2>3, <2>7 DEF EndsOwn, LeaseFenced
  <1> QED
    BY <1>1, <1>2

LEMMA EmitEffect ==
    ASSUME Shape, NEW w \in Workers, EmitCommit(w)
    PROVE  Quiet
  <1> DEFINE kind == op[w].kind
  <1>1. CASE ~LeaseFenced(w, op[w].snap)
    BY <1>1 DEF EmitCommit, Quiet
  <1>2. CASE LeaseFenced(w, op[w].snap)
    <2>1. kind \in {"running", "step"} /\ op[w].at = "commit"
      BY DEF EmitCommit
    <2>2. op[w].snap = run /\ run.status \notin Terminal
      BY <1>2, <2>1, Matched, SubProcs DEF LeaseFenced, Unchanged
    <2>3. run' = Bump(Log(run, run, kind), run)
          /\ finisher' = finisher /\ claim' = claim
      BY <1>2, <2>2 DEF EmitCommit
    <2>4. run \in Rows /\ kind \in EventKinds
      BY <2>1 DEF Shape, TypeOK, EventKinds, Statuses
    <2> QED
      BY <2>2, <2>3, <2>4, LoggedFields DEF Quiet
  <1> QED
    BY <1>1, <1>2

LEMMA CancelEffect ==
    ASSUME Shape, NEW c \in Clients, CancelCommit(c)
    PROVE  Quiet \/ Asks \/ EndsQueued \/ EndsFenced
  <1> DEFINE kind == op[c].kind
  <1>1. CASE ~CancelUpdateMatches(op[c].snap)
    BY <1>1 DEF CancelCommit, Quiet
  <1>2. CASE CancelUpdateMatches(op[c].snap)
    <2> DEFINE ends == kind = "force" \/ run.status = "queued"
               target == IF ends THEN "cancelled" ELSE "cancelling"
               gen == IF kind = "force" THEN run.generation + 1 ELSE run.generation
               row == [run EXCEPT !.status = target, !.cancel = TRUE,
                                  !.generation = gen]
    <2>1. kind \in {"request", "force"} /\ op[c].at = "commit"
      BY DEF CancelCommit
    <2>2. op[c].snap = run /\ run.status \notin Terminal
      BY <1>2, <2>1, Matched, SubProcs DEF CancelUpdateMatches, Unchanged
    <2>3. /\ run' = Bump(Log(row, run, target), run)
          /\ finisher' = IF ends THEN c ELSE finisher
          /\ claim' = claim
          /\ timer' = [timer EXCEPT !.grace = IF run.cancel THEN @ ELSE GraceTime]
      BY <1>2, <2>2 DEF CancelCommit, ForcedGeneration
    <2>4. timer'.lease = timer.lease /\ timer'.queue = timer.queue
      BY <2>3 DEF Shape, TypeOK
    <2>5. target \in Statuses /\ target \in EventKinds /\ gen \in Nat
      BY RunType DEF Shape, Statuses, EventKinds
    <2>6. run \in Rows /\ row \in Rows
      BY <2>5, CancelledType DEF Shape, TypeOK
    <2>7. /\ row.status = target /\ row.generation = gen
          /\ row.cancel = TRUE /\ row.error = run.error
      BY <2>6 DEF Rows
    <2> HIDE DEF row
    <2>9. /\ run'.status = target /\ run'.generation = gen
          /\ run'.cancel = TRUE /\ run'.error = run.error
      BY <2>3, <2>5, <2>6, <2>7, LoggedFields
    <2>10. run.status \in {"queued", "running", "cancelling"}
      BY <2>2, RunType DEF Shape, Statuses
    <2>11. CASE kind = "request" /\ run.status = "queued"
      BY <2>3, <2>4, <2>9, <2>11 DEF EndsQueued
    <2>12. CASE kind = "request" /\ run.status # "queued"
      BY <2>3, <2>9, <2>10, <2>12 DEF Asks
    <2>13. CASE kind = "force" /\ run.status # "queued"
      BY <2>3, <2>4, <2>9, <2>10, <2>13 DEF EndsFenced
    <2>14. ~(kind = "force" /\ run.status = "queued")
      BY <1>2, <2>1, Matched, SubProcs DEF CancelUpdateMatches, Unchanged
    <2> QED
      BY <2>1, <2>11, <2>12, <2>13, <2>14
  <1> QED
    BY <1>1, <1>2

LEMMA RecoverEffect ==
    ASSUME Shape, NEW r \in Recoverers, RecoverCommit(r)
    PROVE  Quiet \/ EndsQueued \/ EndsFenced
  <1>1. CASE ~RecoverUpdateMatches(op[r].snap)
    BY <1>1 DEF RecoverCommit, Quiet
  <1>2. CASE RecoverUpdateMatches(op[r].snap)
    <2> DEFINE gen == IF run.status \in Leased THEN run.generation + 1
                                               ELSE run.generation
               status == RecoveredStatus(run)
               code == RecoveredError(run)
               row == [run EXCEPT !.status = status, !.error = code,
                                  !.generation = gen]
    <2>1. op[r].kind = "recover" /\ op[r].at = "commit"
      BY DEF RecoverCommit, At
    <2>2. op[r].snap = run /\ run.status \notin Terminal
      BY <1>2, <2>1, Matched, SubProcs DEF RecoverUpdateMatches, Unchanged
    <2>3. /\ run' = Bump(Log(row, run, status), run)
          /\ finisher' = r /\ claim' = claim /\ timer' = timer
      BY <1>2, <2>2 DEF RecoverCommit
    <2>4. StaleNow(run)
      BY <1>2, <2>2 DEF RecoverUpdateMatches
    <2>5. /\ run \in Rows /\ gen \in Nat
          /\ run.status \in {"queued", "running", "cancelling"}
      BY <2>2, RunType DEF Shape, TypeOK, Statuses
    <2>6. status \in Statuses /\ status \in EventKinds /\ code \in ErrorCodes
      BY DEF RecoveredStatus, RecoveredError, Statuses, EventKinds, ErrorCodes
    <2>7. row \in Rows
      BY <2>5, <2>6, EndedType
    <2>8. /\ row.status = status /\ row.generation = gen
          /\ row.cancel = run.cancel /\ row.error = code
      BY <2>5, <2>7 DEF Rows
    <2> HIDE DEF row, status, code
    <2>9. /\ run'.status = status /\ run'.generation = gen
          /\ run'.cancel = run.cancel /\ run'.error = code
      BY <2>3, <2>5, <2>6, <2>7, <2>8, LoggedFields
    <2>10. CASE run.status = "queued"
      <3>1. status = "failed" /\ code = "queue_timeout" /\ timer.queue = 0
        BY <2>4, <2>10 DEF RecoveredStatus, RecoveredError, StaleNow, status, code
      <3> QED
        BY <2>3, <2>9, <2>10, <3>1 DEF EndsQueued
    <2>11. CASE run.status \in Leased
      <3>1. /\ status = "failed" => ~run.cancel
            /\ status \in {"failed", "cancelled"}
            /\ code \in {"cancelled", "worker_lost"} /\ timer.lease = 0
        BY <2>4, <2>11 DEF RecoveredStatus, RecoveredError, StaleNow, status, code
      <3> QED
        BY <2>3, <2>9, <2>11, <3>1 DEF EndsFenced
    <2> QED
      BY <2>5, <2>10, <2>11
  <1> QED
    BY <1>1, <1>2

LEMMA FailQueuedEffect ==
    ASSUME Shape, NEW p \in Procs, FailQueuedCommit(p)
    PROVE  Quiet \/ EndsQueued
  <1>1. CASE ~Unchanged(op[p].snap)
    BY <1>1 DEF FailQueuedCommit, Quiet
  <1>2. CASE Unchanged(op[p].snap)
    <2> DEFINE row == [run EXCEPT !.status = "failed", !.error = "publish_failed"]
    <2>1. op[p].snap = run /\ run.status = "queued"
      BY <1>2, Matched DEF FailQueuedCommit, Unchanged, At
    <2>2. run' = Bump(row, run) /\ claim' = claim /\ timer' = timer
      BY <1>2, <2>1 DEF FailQueuedCommit
    <2>3. run \in Rows /\ row \in Rows
      <3>1. run \in Rows /\ "failed" \in Statuses /\ "publish_failed" \in ErrorCodes
        BY DEF Shape, TypeOK, Statuses, ErrorCodes
      <3> QED
        BY <3>1, EndedType
    <2>4. /\ row.status = "failed" /\ row.generation = run.generation
          /\ row.cancel = run.cancel /\ row.error = "publish_failed"
      BY <2>3 DEF Rows
    <2> QED
      BY <2>1, <2>2, <2>3, <2>4, Fields DEF EndsQueued
  <1> QED
    BY <1>1, <1>2

LEMMA TidyEffect ==
    ASSUME Shape, \/ AttachCommit
                  \/ \E p \in Procs : FlushDrop(p)
                  \/ \E w \in Workers : Heartbeat(w)
                  \/ Tick
    PROVE  Quiet
  <1>a. run \in Rows
    BY DEF Shape, TypeOK
  <1>1. CASE AttachCommit
    <2>1. CASE run.version # op[Publisher].snap.version
      BY <1>1, <2>1 DEF AttachCommit, Quiet
    <2>2. CASE run.version = op[Publisher].snap.version
      <3> DEFINE row == [run EXCEPT !.job = TRUE]
      <3>1. op[Publisher].snap = run
        BY <1>1, <2>2, Fresh, SubProcs DEF AttachCommit, At
      <3>2. run' = Bump(row, run)
        BY <1>1, <2>2, <3>1 DEF AttachCommit
      <3>3. row \in Rows
        BY <1>a DEF Rows
      <3>4. /\ row.status = run.status /\ row.generation = run.generation
            /\ row.cancel = run.cancel /\ row.error = run.error /\ row.seq = run.seq
        BY <1>a DEF Rows
      <3> QED
        BY <1>1, <1>a, <3>2, <3>3, <3>4, Fields DEF AttachCommit, Quiet
    <2> QED
      BY <2>1, <2>2
  <1>2. ASSUME NEW p \in Procs, FlushDrop(p) PROVE Quiet
    <2>1. CASE ~DropMatches(op[p].snap)
      BY <1>2, <2>1 DEF FlushDrop, Quiet
    <2>2. CASE DropMatches(op[p].snap)
      <3> DEFINE row == [run EXCEPT !.outbox = Rest(run.outbox)]
      <3>1. op[p].snap = run
        BY <1>2, <2>2, Fresh DEF FlushDrop, DropMatches
      <3>2. run' = Bump(row, run)
        BY <1>2, <2>2, <3>1 DEF FlushDrop
      <3>3. row \in Rows
        <4>1. Rest(run.outbox) \in Seq(Envelopes)
          <5>1. run.outbox \in Seq(Envelopes)
            BY <1>a DEF Rows
          <5> QED
            BY <5>1 DEF Rest
        <4> QED
          BY <1>a, <4>1 DEF Rows
      <3>4. /\ row.status = run.status /\ row.generation = run.generation
            /\ row.cancel = run.cancel /\ row.error = run.error /\ row.seq = run.seq
        BY <1>a DEF Rows
      <3> HIDE DEF row
      <3> QED
        BY <1>2, <1>a, <3>2, <3>3, <3>4, Fields DEF FlushDrop, Quiet
    <2> QED
      BY <2>1, <2>2
  <1>3. ASSUME NEW w \in Workers, Heartbeat(w) PROVE Quiet
    <2>1. run' = Bump(run, run) /\ run.status \in Leased
      BY <1>3 DEF Heartbeat, Beating, HeartbeatMatches
    <2> QED
      BY <1>3, <1>a, <2>1, Fields DEF Heartbeat, Beating, Quiet
  <1>4. CASE Tick
    BY <1>4 DEF Tick, Quiet
  <1> QED
    BY <1>1, <1>2, <1>3, <1>4

LEMMA StepEffect ==
    ASSUME Shape, Next
    PROVE  Effect
  <1>1. ASSUME NEW w \in Workers, WorkerStep(w) PROVE Effect
    <2>1. CASE TaskMissing(w) \/ ClaimRead(w) \/ EmitRead(w) \/ BodyFails(w)
               \/ FinishRead(w)
      BY <2>1 DEF TaskMissing, ClaimRead, EmitRead, BodyFails, FinishRead,
                  Effect, Quiet
    <2> QED
      BY <1>1, <2>1, ClaimEffect, TidyEffect, EmitEffect, FinishEffect
         DEF WorkerStep, Effect
  <1>2. ASSUME NEW c \in Clients, ClientStep(c) PROVE Effect
    <2>1. CASE RequestRead(c) \/ ForceRead(c)
      BY <2>1 DEF RequestRead, ForceRead, Effect, Quiet
    <2> QED
      BY <1>2, <2>1, CancelEffect DEF ClientStep, Effect
  <1>3. ASSUME NEW r \in Recoverers, RecovererStep(r) PROVE Effect
    <2>1. CASE RecoverRead(r) \/ RecoverHead(r) \/ RecoverOutbox(r)
      BY <2>1 DEF RecoverRead, RecoverHead, RecoverOutbox, Effect, Quiet
    <2> QED
      BY <1>3, <2>1, RecoverEffect DEF RecovererStep, Effect
  <1>4. CASE PublisherStep
    <2>1. CASE Publish
      BY <2>1 DEF Publish, Effect, Quiet
    <2> QED
      BY <1>4, <2>1, TidyEffect DEF PublisherStep, Effect
  <1>5. ASSUME NEW p \in Procs, AnyStep(p) PROVE Effect
    <2>1. CASE Release(p) \/ FlushEnd(p) \/ FlushInsert(p) \/ StoreFault(p) \/ Crash(p)
      BY <2>1 DEF Release, FlushEnd, FlushInsert, StoreFault, Crash, Effect, Quiet
    <2> QED
      BY <1>5, <2>1, FailQueuedEffect, TidyEffect DEF AnyStep, Effect
  <1>6. CASE Tick
    BY <1>6, TidyEffect DEF Effect
  <1> QED
    BY <1>1, <1>2, <1>3, <1>4, <1>5, <1>6 DEF Next

-----------------------------------------------------------------------------
(* Snapshots: a step takes a fresh one, or writes the row under a version  *)
(* no snapshot has.                                                        *)

NewOp(x) == x.at \in {"commit", "drop"} =>
                /\ x.snap = run /\ run' = run
                /\ x.at = "commit" => CommitLive(x)

OpMoves == \/ op' = op
           \/ \E p \in Procs, x \in Ops : op' = [op EXCEPT ![p] = x] /\ NewOp(x)

RowMoves == run' = run \/ run'.version = run.version + 1

LEMMA BumpedVersion ==
    ASSUME NEW row, NEW snap, Bump(row, snap) \in Rows
    PROVE  Bump(row, snap).version = snap.version + 1
  BY DEF Bump, Rows

LEMMA RowStep ==
    ASSUME Shape, Next
    PROVE  RowMoves
  <1>a. run' \in Rows
    BY NextTypeOK DEF Shape, TypeOK
  <1>b. ASSUME NEW row, NEW snap, run' = Bump(row, snap), snap.version = run.version
        PROVE  RowMoves
    BY <1>a, <1>b, BumpedVersion DEF RowMoves
  <1>1. ASSUME NEW w \in Workers, WorkerStep(w) PROVE RowMoves
    <2>1. CASE TaskMissing(w) \/ ClaimRead(w) \/ EmitRead(w) \/ BodyFails(w)
               \/ FinishRead(w)
      BY <2>1 DEF TaskMissing, ClaimRead, EmitRead, BodyFails, FinishRead, RowMoves
    <2>2. CASE ClaimCommit(w)
      BY <2>2, <1>b DEF ClaimCommit, ClaimUpdateMatches, Unchanged, RowMoves
    <2>3. CASE Heartbeat(w)
      BY <2>3, <1>b DEF Heartbeat, Beating
    <2>4. CASE EmitCommit(w)
      BY <2>4, <1>b DEF EmitCommit, LeaseFenced, Unchanged, RowMoves
    <2>5. CASE FinishCommit(w)
      BY <2>5, <1>b DEF FinishCommit, LeaseFenced, Unchanged, RowMoves
    <2> QED
      BY <1>1, <2>1, <2>2, <2>3, <2>4, <2>5 DEF WorkerStep
  <1>2. ASSUME NEW c \in Clients, ClientStep(c) PROVE RowMoves
    <2>1. CASE CancelCommit(c)
      BY <2>1, <1>b DEF CancelCommit, CancelUpdateMatches, Unchanged, RowMoves
    <2> QED
      BY <1>2, <2>1 DEF ClientStep, RequestRead, ForceRead, RowMoves
  <1>3. ASSUME NEW r \in Recoverers, RecovererStep(r) PROVE RowMoves
    <2>1. CASE RecoverCommit(r)
      BY <2>1, <1>b DEF RecoverCommit, RecoverUpdateMatches, Unchanged, RowMoves
    <2> QED
      BY <1>3, <2>1 DEF RecovererStep, RecoverRead, RecoverHead, RecoverOutbox, RowMoves
  <1>4. CASE PublisherStep
    <2>1. CASE AttachCommit
      BY <2>1, <1>b DEF AttachCommit, RowMoves
    <2> QED
      BY <1>4, <2>1 DEF PublisherStep, Publish, RowMoves
  <1>5. ASSUME NEW p \in Procs, AnyStep(p) PROVE RowMoves
    <2>1. CASE FailQueuedCommit(p)
      BY <2>1, <1>b DEF FailQueuedCommit, Unchanged, RowMoves
    <2>2. CASE FlushDrop(p)
      BY <2>2, <1>b DEF FlushDrop, DropMatches, RowMoves
    <2> QED
      BY <1>5, <2>1, <2>2
         DEF AnyStep, Release, FlushEnd, FlushInsert, StoreFault, Crash, RowMoves
  <1>6. CASE Tick
    BY <1>6 DEF Tick, RowMoves
  <1> QED
    BY <1>1, <1>2, <1>3, <1>4, <1>5, <1>6 DEF Next

\* The ways an action sets op, and when each of them is sound.
LEMMA OpForms ==
    ASSUME Shape, NEW p \in Procs
    PROVE  /\ Done(p) => OpMoves
           /\ \A place \in Places \ {"commit", "drop"} : Go(p, place) => OpMoves
           /\ \A place \in Places \ {"commit", "drop"}, k \in Kinds :
                 Goto(p, place, k) => OpMoves
           /\ \A k \in Kinds :
                 /\ Snapshot(p, k) /\ run' = run
                 /\ CommitLive([at |-> "commit", kind |-> k, snap |-> run])
                 => OpMoves
  <1>1. Idle \in Ops /\ NewOp(Idle)
    BY RestType DEF NewOp, Idle
  <1>2. ASSUME NEW place \in Places \ {"commit", "drop"}, NEW k \in Kinds
        PROVE  LET x == [at |-> place, kind |-> k, snap |-> NewRow]
               IN  x \in Ops /\ NewOp(x)
    BY RestType DEF NewOp, Ops
  <1>3. ASSUME NEW k \in Kinds, run' = run,
               CommitLive([at |-> "commit", kind |-> k, snap |-> run])
        PROVE  LET x == [at |-> "commit", kind |-> k, snap |-> run]
               IN  x \in Ops /\ NewOp(x)
    BY <1>3 DEF NewOp, Ops, Shape, TypeOK, Places
  <1>4. op[p].kind \in Kinds
    BY SnapType DEF Shape
  <1> QED
    BY <1>1, <1>2, <1>3, <1>4 DEF Done, Go, Goto, Snapshot, OpMoves

LEMMA OpStep ==
    ASSUME Shape, Next
    PROVE  OpMoves
  <1>a. ASSUME NEW p \in Procs
        PROVE  /\ Done(p) => OpMoves
               /\ Go(p, "release") => OpMoves
               /\ Go(p, "flush") => OpMoves
               /\ \A k \in Kinds : Goto(p, "release", k) => OpMoves
               /\ \A k \in Kinds : Goto(p, "flush", k) => OpMoves
               /\ \A k \in Kinds :
                    /\ Snapshot(p, k) /\ run' = run
                    /\ CommitLive([at |-> "commit", kind |-> k, snap |-> run])
                    => OpMoves
    BY OpForms DEF Places
  <1>b. UNCHANGED op => OpMoves
    BY DEF OpMoves
  <1>c. ASSUME NEW k \in {"recover", "request", "running", "step", "cancelled"},
               run.status \notin Terminal
        PROVE  k \in Kinds /\ CommitLive([at |-> "commit", kind |-> k, snap |-> run])
    BY <1>c DEF CommitLive, Kinds
  <1>d. ASSUME NEW k \in {"claim", "failqueued"}, run.status = "queued"
        PROVE  k \in Kinds /\ CommitLive([at |-> "commit", kind |-> k, snap |-> run])
    BY <1>d DEF CommitLive, Kinds
  <1>e. ASSUME NEW asked \in Terminal, run.status \notin Terminal
        PROVE  /\ Outcome(asked) \in Kinds
               /\ CommitLive([at |-> "commit", kind |-> Outcome(asked), snap |-> run])
    BY <1>e DEF CommitLive, Kinds, Outcome
  <1>f. /\ "force" \in Kinds /\ "attach" \in Kinds
        /\ run.status = "cancelling"
             => CommitLive([at |-> "commit", kind |-> "force", snap |-> run])
        /\ CommitLive([at |-> "commit", kind |-> "attach", snap |-> run])
    BY DEF CommitLive, Kinds
  <1>1. ASSUME NEW w \in Workers, WorkerStep(w) PROVE OpMoves
    <2>1. CASE TaskMissing(w)
      BY <2>1, <1>a, <1>d, SubProcs DEF TaskMissing, FailQueuedRead
    <2>2. CASE ClaimRead(w)
      BY <2>2, <1>a, <1>b, <1>d, SubProcs DEF ClaimRead
    <2>3. CASE ClaimCommit(w)
      BY <2>3, <1>a, SubProcs DEF ClaimCommit
    <2>4. CASE Heartbeat(w) \/ BodyFails(w)
      BY <2>4, <1>b DEF Heartbeat, Beating, BodyFails
    <2>5. CASE EmitRead(w)
      BY <2>5, <1>a, <1>c, SubProcs DEF EmitRead
    <2>6. CASE EmitCommit(w)
      <3>1. CASE LeaseFenced(w, op[w].snap) \/ LeaseIsLost(w)
        BY <2>6, <3>1, <1>a, SubProcs DEF EmitCommit
      <3>2. CASE ~LeaseFenced(w, op[w].snap) /\ ~LeaseIsLost(w)
        <4>1. run' = run /\ Snapshot(w, op[w].kind) /\ run.status \notin Terminal
              /\ op[w].kind \in {"running", "step"}
          BY <2>6, <3>2 DEF EmitCommit, LeaseIsLost
        <4> QED
          BY <4>1, <1>a, <1>c, SubProcs
      <3> QED
        BY <3>1, <3>2
    <2>7. CASE FinishRead(w)
      <3>1. PICK asked \in Terminal :
              \/ UNCHANGED op
              \/ run.status \notin Terminal /\ Snapshot(w, Outcome(asked))
        BY <2>7 DEF FinishRead
      <3> QED
        BY <2>7, <3>1, <1>a, <1>b, <1>e, SubProcs DEF FinishRead
    <2>8. CASE FinishCommit(w)
      <3>1. CASE LeaseFenced(w, op[w].snap) \/ LeaseIsLost(w)
        BY <2>8, <3>1, <1>a, SubProcs DEF FinishCommit, FinishRetry
      <3>2. CASE ~LeaseFenced(w, op[w].snap) /\ ~LeaseIsLost(w)
        <4>1. run' = run /\ Snapshot(w, Outcome(op[w].kind))
              /\ run.status \notin Terminal /\ op[w].kind \in Terminal
          BY <2>8, <3>2 DEF FinishCommit, FinishRetry, LeaseIsLost
        <4> QED
          BY <4>1, <1>a, <1>e, SubProcs
      <3> QED
        BY <3>1, <3>2
    <2> QED
      BY <1>1, <2>1, <2>2, <2>3, <2>4, <2>5, <2>6, <2>7, <2>8 DEF WorkerStep
  <1>2. ASSUME NEW c \in Clients, ClientStep(c) PROVE OpMoves
    <2>1. CASE RequestRead(c)
      <3>1. "request" \in Kinds
        BY DEF Kinds
      <3> QED
        BY <2>1, <3>1, <1>a, <1>c, SubProcs DEF RequestRead
    <2>2. CASE ForceRead(c)
      BY <2>2, <1>a, <1>f, SubProcs DEF ForceRead
    <2>3. CASE CancelCommit(c)
      BY <2>3, <1>a, SubProcs DEF CancelCommit
    <2> QED
      BY <1>2, <2>1, <2>2, <2>3 DEF ClientStep
  <1>3. ASSUME NEW r \in Recoverers, RecovererStep(r) PROVE OpMoves
    <2>1. CASE RecoverRead(r)
      BY <2>1, <1>a, <1>c, SubProcs DEF RecoverRead, LooksStale
    <2>2. CASE RecoverCommit(r)
      BY <2>2, <1>a, SubProcs DEF RecoverCommit
    <2>3. CASE RecoverHead(r)
      BY <2>3, <1>b DEF RecoverHead
    <2>4. CASE RecoverOutbox(r)
      <3>1. "recover" \in Kinds
        BY DEF Kinds
      <3> QED
        BY <2>4, <3>1, <1>a, SubProcs DEF RecoverOutbox
    <2> QED
      BY <1>3, <2>1, <2>2, <2>3, <2>4 DEF RecovererStep
  <1>4. CASE PublisherStep
    <2>1. CASE Publish
      BY <2>1, <1>a, <1>d, <1>f, SubProcs DEF Publish, FailQueuedRead
    <2>2. CASE AttachCommit
      BY <2>2, <1>a, <1>f, SubProcs DEF AttachCommit
    <2> QED
      BY <1>4, <2>1, <2>2 DEF PublisherStep
  <1>5. ASSUME NEW p \in Procs, AnyStep(p) PROVE OpMoves
    <2>1. CASE FailQueuedCommit(p)
      BY <2>1, <1>a, <1>d DEF FailQueuedCommit, FailQueuedRead
    <2>2. CASE Release(p) \/ FlushEnd(p) \/ FlushDrop(p) \/ StoreFault(p) \/ Crash(p)
      BY <2>2, <1>a DEF Release, FlushEnd, FlushDrop, StoreFault, Crash
    <2>3. CASE FlushInsert(p)
      <3> DEFINE x == [at |-> "drop", kind |-> op[p].kind, snap |-> run]
      <3>1. x \in Ops
        BY SnapType DEF Shape, TypeOK, Ops, Places
      <3>2. NewOp(x) /\ op' = [op EXCEPT ![p] = x]
        BY <2>3 DEF FlushInsert, NewOp
      <3> QED
        BY <3>1, <3>2 DEF OpMoves
    <2> QED
      BY <1>5, <2>1, <2>2, <2>3 DEF AnyStep
  <1>6. CASE Tick
    BY <1>6, <1>b DEF Tick
  <1> QED
    BY <1>1, <1>2, <1>3, <1>4, <1>5, <1>6 DEF Next

\* The shape is inductive.
LEMMA ShapeStep == Shape /\ [Next]_vars => Shape'
  <1> SUFFICES ASSUME Shape, [Next]_vars PROVE Shape'
    OBVIOUS
  <1>1. TypeOK'
    BY NextTypeOK DEF Shape
  <1>2. CASE UNCHANGED vars
    BY <1>1, <1>2 DEF vars, Shape, SnapshotsAge, CommitsLive, CommitLive
  <1>3. CASE Next
    <2>1. OpMoves /\ RowMoves
      BY <1>3, OpStep, RowStep
    <2>2. ASSUME NEW p \in Procs, op'[p].at \in {"commit", "drop"}
          PROVE  \/ op'[p] = op[p]
                 \/ op'[p].snap = run /\ run' = run
                    /\ (op'[p].at = "commit" => CommitLive(op'[p]))
      BY <2>1, <2>2 DEF OpMoves, NewOp, Shape, TypeOK
    <2>3. SnapshotsAge'
      <3> SUFFICES ASSUME NEW p \in Procs, op'[p].at \in {"commit", "drop"}
                   PROVE  /\ op'[p].snap.version <= run'.version
                          /\ op'[p].snap.version = run'.version => op'[p].snap = run'
        BY DEF SnapshotsAge
      <3>1. run.version \in Nat
        BY RunType DEF Shape
      <3>2. CASE op'[p] = op[p]
        <4>1. op[p].snap.version \in Nat
          BY SnapType DEF Shape
        <4> QED
          BY <2>1, <3>1, <3>2, <4>1 DEF RowMoves, Shape, SnapshotsAge
      <3> QED
        BY <2>2, <3>1, <3>2
    <2>4. CommitsLive'
      <3> SUFFICES ASSUME NEW p \in Procs, op'[p].at = "commit"
                   PROVE  CommitLive(op'[p])
        BY DEF CommitsLive, CommitLive
      <3> QED
        BY <2>2 DEF Shape, CommitsLive
    <2> QED
      BY <1>1, <2>3, <2>4 DEF Shape
  <1> QED
    BY <1>2, <1>3

-----------------------------------------------------------------------------
(* The safety invariants.                                                  *)

LEMMA InitSafety == Init => SafetyInv
  <1> SUFFICES ASSUME Init PROVE SafetyInv
    OBVIOUS
  <1>1. \A p \in Procs : op[p].at \notin {"commit", "drop"}
    BY DEF Init, Idle
  <1>2. Shape
    BY <1>1, InitTypeOK DEF Shape, SnapshotsAge, CommitsLive
  <1> QED
    BY <1>2 DEF Init, NewRow, SafetyInv, CancelShows, ClaimsInOrder, OneExecution,
                ErrorsEnd, RecoveryJustified, OwnTerminalToken

LEMMA SafetyStep == SafetyInv /\ [Next]_vars => SafetyInv'
  <1> SUFFICES ASSUME SafetyInv, [Next]_vars PROVE SafetyInv'
    OBVIOUS
  <1>1. Shape /\ Shape'
    BY ShapeStep DEF SafetyInv
  <1>2. CASE UNCHANGED vars
    BY <1>1, <1>2 DEF vars, SafetyInv, CancelShows, ClaimsInOrder, OneExecution,
                      ErrorsEnd, RecoveryJustified, OwnTerminalToken
  <1>3. CASE Next
    <2>1. Effect
      BY <1>1, <1>3, StepEffect
    <2>2. /\ run.status \in Statuses /\ run.generation \in Nat
          /\ run.cancel \in BOOLEAN
          /\ claim \in [Workers -> Nat] /\ claim' \in [Workers -> Nat]
          /\ timer.lease \in Nat /\ timer.queue \in Nat
      BY <1>1, RunType DEF Shape, TypeOK
    <2>3. CancelShows'
      BY <2>1, <2>2 DEF SafetyInv, CancelShows, Effect, Quiet, Asks, EndsQueued,
                        EndsFenced, Claims, EndsOwn, Statuses
    <2>4. OneExecution'
      BY <2>1, <2>2 DEF SafetyInv, OneExecution, ClaimsInOrder, Effect, Quiet, Asks,
                        EndsQueued, EndsFenced, Claims, EndsOwn
    <2>5. ClaimsInOrder'
      BY <2>1, <2>2 DEF SafetyInv, ClaimsInOrder, Effect, Quiet, Asks, EndsQueued,
                        EndsFenced, Claims, EndsOwn
    <2>6. ErrorsEnd'
      BY <2>1 DEF SafetyInv, ErrorsEnd, Effect, Quiet, Asks, EndsQueued, EndsFenced,
                  Claims, EndsOwn
    <2>7. RecoveryJustified'
      <3>1. CASE run.status \in Terminal
        <4>1. Quiet /\ timer' = timer
          BY <2>1, <3>1 DEF Effect, Quiet, Asks, EndsQueued, EndsFenced, Claims, EndsOwn
        <4> QED
          BY <4>1 DEF SafetyInv, RecoveryJustified, Quiet
      <3>2. CASE run.status \notin Terminal
        <4>1. run.error = "none"
          BY <3>2 DEF SafetyInv, ErrorsEnd
        <4> QED
          BY <2>1, <3>2, <4>1 DEF SafetyInv, RecoveryJustified, ClaimsInOrder, Effect,
                Quiet, Asks, EndsQueued, EndsFenced, Claims, EndsOwn
      <3> QED
        BY <3>1, <3>2
    <2>8. OwnTerminalToken'
      BY <2>1, <2>2 DEF SafetyInv, OwnTerminalToken, OneExecution, ClaimsInOrder,
                        Effect, Quiet, Asks, EndsQueued, EndsFenced, Claims, EndsOwn
    <2> QED
      BY <1>1, <2>3, <2>4, <2>5, <2>6, <2>7, <2>8 DEF SafetyInv
  <1> QED
    BY <1>2, <1>3

THEOREM Safety == Spec => []SafetyInv
  <1> QED
    BY InitSafety, SafetyStep, PTL DEF Spec

\* A committed cancel request decides the outcome of every run (_cancel,
\* _set_run_status, _recovery_action).
THEOREM CancelDecides == Spec => []CancelWins
  <1>1. SafetyInv => CancelWins
    BY DEF SafetyInv, CancelShows, CancelWins
  <1> QED
    BY <1>1, Safety, PTL

\* However often the message is delivered, one delivery claims the run (claim).
THEOREM ClaimedOnce == Spec => []OneExecution
  <1>1. SafetyInv => OneExecution
    BY DEF SafetyInv
  <1> QED
    BY <1>1, Safety, PTL

\* Recovery blames an expired lease or an unclaimed message, whatever the clock
\* of the recovering process says (recover_terminal).
THEOREM BlameIsJust == Spec => []RecoveryJustified
  <1>1. SafetyInv => RecoveryJustified
    BY DEF SafetyInv
  <1> QED
    BY <1>1, Safety, PTL

\* A terminal row with a worker's token was written by that worker
\* (_terminalized_by_current_claim).
THEOREM TokenIsOwn == Spec => []OwnTerminalToken
  <1>1. SafetyInv => OwnTerminalToken
    BY DEF SafetyInv
  <1> QED
    BY <1>1, Safety, PTL

\* The first terminal write is final (_mutate, _cancel, recover_terminal).
THEOREM OutcomeIsFinal == Spec => TerminalFrozen
  <1>1. SafetyInv /\ [Next]_vars
          => [run.status \in Terminal => Outcomes(run') = Outcomes(run)]_vars
    <2> SUFFICES ASSUME SafetyInv, Next, run.status \in Terminal
                 PROVE  Outcomes(run') = Outcomes(run)
      OBVIOUS
    <2>1. Effect
      BY StepEffect DEF SafetyInv
    <2>2. Quiet
      BY <2>1 DEF Effect, Quiet, Asks, EndsQueued, EndsFenced, Claims, EndsOwn
    <2> QED
      BY <2>2 DEF Outcomes, Quiet
  <1> QED
    BY <1>1, Safety, PTL DEF Spec, TerminalFrozen

-----------------------------------------------------------------------------
(* The lifecycle implements its event log.                                 *)
(*                                                                         *)
(* The invariant divides the numbers a run has given out: those up to      *)
(* `Gone` are in the event table and in the table only, the rest is the    *)
(* outbox, in order, of which the first envelope may be in the table       *)
(* already.  What a process is about to drop is therefore never the only   *)
(* copy of an event.                                                       *)

\* How many events have left the outbox.
Gone == run.seq - Len(run.outbox)

Numbered ==
    /\ Len(run.outbox) <= run.seq
    /\ \A i \in 1 .. Len(run.outbox) : run.outbox[i].seq = Gone + i

FirstStored == run.outbox # <<>> /\ run.outbox[1] \in events

Stored ==
    /\ \A e \in events : e.seq <= Gone \/ (FirstStored /\ e = run.outbox[1])
    /\ \A n \in 1 .. Gone : \E e \in events : e.seq = n
    /\ \A e, f \in events : e.seq = f.seq => e = f

\* What a process is about to take out of the outbox is in the table.
DropsStored ==
    \A p \in Procs :
        op[p].at = "drop" /\ op[p].snap.version = run.version => FirstStored

LogInv == Numbered /\ Stored /\ DropsStored

-----------------------------------------------------------------------------
(* What a step does to the log.                                            *)

Verdict == IF run.status \in Terminal THEN run.status ELSE "open"

Still ==
    /\ run'.seq = run.seq /\ run'.outbox = run.outbox
    /\ events' = events /\ Verdict' = Verdict

Logs(kind) ==
    /\ run.status \notin Terminal
    /\ run'.seq = run.seq + 1
    /\ run'.outbox = Append(run.outbox, [seq |-> run.seq + 1, kind |-> kind])
    /\ events' = events
    /\ Verdict' = IF kind \in Terminal THEN kind ELSE "open"

Unannounced ==
    /\ run.status \notin Terminal
    /\ run'.seq = run.seq /\ run'.outbox = run.outbox
    /\ events' = events /\ Verdict' = "failed"

Inserts ==
    /\ run' = run /\ run.outbox # <<>>
    /\ events' = Persist(Head(run.outbox))

Drops ==
    /\ FirstStored
    /\ run'.seq = run.seq /\ run'.outbox = Rest(run.outbox)
    /\ events' = events /\ Verdict' = Verdict

LogEffect ==
    \/ Still \/ Unannounced \/ Inserts \/ Drops
    \/ \E kind \in EventKinds : Logs(kind)


LEMMA EnvelopeFields ==
    ASSUME NEW e \in Envelopes
    PROVE  e.seq \in Nat /\ e.seq # 0 /\ e = [seq |-> e.seq, kind |-> e.kind]
  BY DEF Envelopes

LEMMA LogTypes ==
    ASSUME TypeOK
    PROVE  /\ run.seq \in Nat /\ run.outbox \in Seq(Envelopes)
           /\ Len(run.outbox) \in Nat
           /\ \A i \in 1 .. Len(run.outbox) : run.outbox[i] \in Envelopes
           /\ \A e \in events : e \in Envelopes
           /\ run.outbox # <<>> <=> Len(run.outbox) > 0
           /\ run.outbox # <<>> => Head(run.outbox) = run.outbox[1]
  BY RunType DEF TypeOK

\* An UPDATE that logs appends the next number and leaves the rest.
LEMMA LogAppends ==
    ASSUME NEW row \in Rows, NEW snap \in Rows, NEW kind \in EventKinds
    PROVE  /\ Bump(Log(row, snap, kind), snap).seq = snap.seq + 1
           /\ Bump(Log(row, snap, kind), snap).outbox
                = Append(snap.outbox, [seq |-> snap.seq + 1, kind |-> kind])
           /\ Bump(Log(row, snap, kind), snap).status = row.status
  BY DEF Bump, Log, Rows

LEMMA BumpKeeps ==
    ASSUME NEW row \in Rows, NEW snap \in Rows
    PROVE  /\ Bump(row, snap).seq = row.seq
           /\ Bump(row, snap).outbox = row.outbox
           /\ Bump(row, snap).status = row.status
  BY DEF Bump, Rows

\* An UPDATE that logs, in the two ways it can find the run.
LEMMA Appends ==
    ASSUME Shape, NEW row \in Rows, NEW kind \in EventKinds,
           run' = Bump(Log(row, run, kind), run), events' = events,
           run.status \notin Terminal,
           IF kind \in Terminal THEN row.status = kind ELSE row.status \notin Terminal
    PROVE  LogEffect
  <1>1. run \in Rows
    BY DEF Shape, TypeOK
  <1>2. /\ run'.seq = run.seq + 1
        /\ run'.outbox = Append(run.outbox, [seq |-> run.seq + 1, kind |-> kind])
        /\ run'.status = row.status
    BY <1>1, LogAppends
  <1>3. Verdict' = IF kind \in Terminal THEN kind ELSE "open"
    BY <1>2 DEF Verdict
  <1> QED
    BY <1>2, <1>3 DEF LogEffect, Logs

LEMMA StillEffect ==
    ASSUME run'.seq = run.seq, run'.outbox = run.outbox, run'.status = run.status,
           events' = events
    PROVE  LogEffect
  BY DEF LogEffect, Still, Verdict

-----------------------------------------------------------------------------
(* The effect of each action on the log.                                   *)

LEMMA WorkerLogs ==
    ASSUME Shape, NEW w \in Workers, WorkerStep(w)
    PROVE  LogEffect
  <1>0. run \in Rows /\ w \in Procs
    BY SubProcs DEF Shape, TypeOK
  <1>1. CASE TaskMissing(w) \/ ClaimRead(w) \/ EmitRead(w) \/ BodyFails(w) \/ FinishRead(w)
    BY <1>1, StillEffect
       DEF TaskMissing, ClaimRead, EmitRead, BodyFails, FinishRead
  <1>2. CASE ClaimCommit(w)
    <2>1. CASE ~ClaimUpdateMatches(op[w].snap)
      BY <1>2, <2>1, StillEffect DEF ClaimCommit
    <2>2. CASE ClaimUpdateMatches(op[w].snap)
      <3> DEFINE row == [run EXCEPT !.status = "running",
                                    !.generation = run.generation + 1]
      <3>1. op[w].snap = run /\ run.status = "queued"
        BY <1>2, <2>2, <1>0, Matched DEF ClaimCommit, ClaimUpdateMatches, Unchanged, At
      <3>2. run' = Bump(row, run) /\ events' = events
        BY <1>2, <2>2, <3>1 DEF ClaimCommit
      <3>3. row \in Rows
        <4>1. run.generation + 1 \in Nat /\ "running" \in Statuses
          BY RunType DEF Shape, Statuses
        <4> QED
          BY <1>0, <4>1, ClaimedType
      <3>4. row.status = "running" /\ row.seq = run.seq /\ row.outbox = run.outbox
        BY <1>0 DEF Rows
      <3> HIDE DEF row
      <3>5. /\ run'.status = "running" /\ run'.seq = run.seq
            /\ run'.outbox = run.outbox
        BY <1>0, <3>2, <3>3, <3>4, BumpKeeps
      <3> QED
        BY <3>1, <3>2, <3>5 DEF LogEffect, Still, Verdict
    <2> QED
      BY <2>1, <2>2
  <1>3. CASE Heartbeat(w)
    <2>1. run' = Bump(run, run) /\ events' = events
      BY <1>3 DEF Heartbeat
    <2> QED
      BY <1>0, <2>1, BumpKeeps, StillEffect
  <1>4. CASE EmitCommit(w)
    <2> DEFINE kind == op[w].kind
    <2>1. CASE ~LeaseFenced(w, op[w].snap)
      BY <1>4, <2>1, StillEffect DEF EmitCommit
    <2>2. CASE LeaseFenced(w, op[w].snap)
      <3>1. kind \in {"running", "step"} /\ op[w].at = "commit"
        BY <1>4 DEF EmitCommit
      <3>2. op[w].snap = run /\ run.status \notin Terminal
        BY <2>2, <3>1, <1>0, Matched DEF LeaseFenced, Unchanged
      <3>3. run' = Bump(Log(run, run, kind), run) /\ events' = events
        BY <1>4, <2>2, <3>2 DEF EmitCommit
      <3>4. kind \in EventKinds /\ kind \notin Terminal
        BY <3>1 DEF EventKinds, Statuses
      <3> QED
        BY <1>0, <3>2, <3>3, <3>4, Appends
    <2> QED
      BY <2>1, <2>2
  <1>5. CASE FinishCommit(w)
    <2> DEFINE kind == op[w].kind
    <2>1. CASE ~LeaseFenced(w, op[w].snap)
      BY <1>5, <2>1, StillEffect DEF FinishCommit
    <2>2. CASE LeaseFenced(w, op[w].snap)
      <3> DEFINE code == IF kind = "failed" THEN "error" ELSE run.error
                 row == [run EXCEPT !.status = kind, !.error = code]
      <3>1. kind \in Terminal /\ op[w].at = "commit"
        BY <1>5 DEF FinishCommit
      <3>2. op[w].snap = run /\ run.status \notin Terminal
        BY <2>2, <3>1, <1>0, Matched DEF LeaseFenced, Unchanged
      <3>3. run' = Bump(Log(row, run, kind), run) /\ events' = events
        BY <1>5, <2>2, <3>2 DEF FinishCommit
      <3>4. kind \in EventKinds
        BY <3>1 DEF EventKinds, Statuses
      <3>5. row \in Rows
        <4>1. kind \in Statuses /\ code \in ErrorCodes
          BY <3>1, RunType DEF Shape, Statuses, ErrorCodes
        <4> QED
          BY <1>0, <4>1, EndedType
      <3>6. row.status = kind
        BY <1>0 DEF Rows
      <3> HIDE DEF row, kind
      <3> QED
        BY <3>1, <3>2, <3>3, <3>4, <3>5, <3>6, Appends
    <2> QED
      BY <2>1, <2>2
  <1> QED
    BY <1>1, <1>2, <1>3, <1>4, <1>5 DEF WorkerStep

LEMMA RequestLogs ==
    ASSUME Shape,
           \/ \E c \in Clients : ClientStep(c)
           \/ \E r \in Recoverers : RecovererStep(r)
           \/ PublisherStep
    PROVE  LogEffect
  <1>0. run \in Rows
    BY DEF Shape, TypeOK
  <1>1. ASSUME NEW c \in Clients, RequestRead(c) \/ ForceRead(c)
        PROVE  LogEffect
    BY <1>1, StillEffect DEF RequestRead, ForceRead
  <1>2. ASSUME NEW c \in Clients, CancelCommit(c)
        PROVE  LogEffect
    <2> DEFINE kind == op[c].kind
               ends == kind = "force" \/ run.status = "queued"
               target == IF ends THEN "cancelled" ELSE "cancelling"
               gen == IF kind = "force" THEN run.generation + 1 ELSE run.generation
               row == [run EXCEPT !.status = target, !.cancel = TRUE,
                                  !.generation = gen]
    <2>1. CASE ~CancelUpdateMatches(op[c].snap)
      BY <1>2, <2>1, StillEffect DEF CancelCommit
    <2>2. CASE CancelUpdateMatches(op[c].snap)
      <3>1. kind \in {"request", "force"} /\ op[c].at = "commit"
        BY <1>2 DEF CancelCommit
      <3>2. op[c].snap = run /\ run.status \notin Terminal
        BY <2>2, <3>1, Matched, SubProcs DEF CancelUpdateMatches, Unchanged
      <3>3. run' = Bump(Log(row, run, target), run) /\ events' = events
        BY <1>2, <2>2, <3>2 DEF CancelCommit, ForcedGeneration
      <3>4. target \in Statuses /\ target \in EventKinds /\ gen \in Nat
        BY RunType DEF Shape, Statuses, EventKinds
      <3>5. row \in Rows
        BY <1>0, <3>4, CancelledType
      <3>6. row.status = target
        BY <1>0 DEF Rows
      <3>7. target \notin Terminal => row.status \notin Terminal
        BY <3>6
      <3> HIDE DEF row, target
      <3> QED
        BY <3>2, <3>3, <3>4, <3>5, <3>6, <3>7, Appends
    <2> QED
      BY <2>1, <2>2
  <1>3. ASSUME NEW r \in Recoverers, RecoverRead(r) \/ RecoverHead(r) \/ RecoverOutbox(r)
        PROVE  LogEffect
    BY <1>3, StillEffect DEF RecoverRead, RecoverHead, RecoverOutbox
  <1>4. ASSUME NEW r \in Recoverers, RecoverCommit(r)
        PROVE  LogEffect
    <2> DEFINE gen == IF run.status \in Leased THEN run.generation + 1
                                               ELSE run.generation
               status == RecoveredStatus(run)
               code == RecoveredError(run)
               row == [run EXCEPT !.status = status, !.error = code,
                                  !.generation = gen]
    <2>1. CASE ~RecoverUpdateMatches(op[r].snap)
      BY <1>4, <2>1, StillEffect DEF RecoverCommit
    <2>2. CASE RecoverUpdateMatches(op[r].snap)
      <3>1. op[r].kind = "recover" /\ op[r].at = "commit"
        BY <1>4 DEF RecoverCommit, At
      <3>2. op[r].snap = run /\ run.status \notin Terminal
        BY <2>2, <3>1, Matched, SubProcs DEF RecoverUpdateMatches, Unchanged
      <3>3. run' = Bump(Log(row, run, status), run) /\ events' = events
        BY <1>4, <2>2, <3>2 DEF RecoverCommit
      <3>4. /\ status \in Statuses /\ status \in EventKinds /\ status \in Terminal
            /\ code \in ErrorCodes /\ gen \in Nat
        BY RunType DEF Shape, RecoveredStatus, RecoveredError, Statuses, EventKinds,
                       ErrorCodes
      <3>5. row \in Rows
        BY <1>0, <3>4, EndedType
      <3>6. row.status = status
        BY <1>0 DEF Rows
      <3> HIDE DEF row, status
      <3> QED
        BY <3>2, <3>3, <3>4, <3>5, <3>6, Appends
    <2> QED
      BY <2>1, <2>2
  <1>5. CASE Publish
    BY <1>5, StillEffect DEF Publish
  <1>6. CASE AttachCommit
    <2>1. CASE run.version # op[Publisher].snap.version
      BY <1>6, <2>1, StillEffect DEF AttachCommit
    <2>2. CASE run.version = op[Publisher].snap.version
      <3> DEFINE row == [run EXCEPT !.job = TRUE]
      <3>1. op[Publisher].snap = run
        BY <1>6, <2>2, Fresh, SubProcs DEF AttachCommit, At
      <3>2. run' = Bump(row, run) /\ events' = events
        BY <1>6, <2>2, <3>1 DEF AttachCommit
      <3>3. /\ row \in Rows /\ row.status = run.status /\ row.seq = run.seq
            /\ row.outbox = run.outbox
        BY <1>0 DEF Rows
      <3> HIDE DEF row
      <3> QED
        BY <1>0, <3>2, <3>3, BumpKeeps, StillEffect
    <2> QED
      BY <2>1, <2>2
  <1> QED
    BY <1>1, <1>2, <1>3, <1>4, <1>5, <1>6
       DEF ClientStep, RecovererStep, PublisherStep

LEMMA CommonLogs ==
    ASSUME Shape, DropsStored, (\E p \in Procs : AnyStep(p)) \/ Tick
    PROVE  LogEffect
  <1>0. run \in Rows
    BY DEF Shape, TypeOK
  <1>1. ASSUME NEW p \in Procs, FailQueuedCommit(p)
        PROVE  LogEffect
    <2>1. CASE ~Unchanged(op[p].snap)
      BY <1>1, <2>1, StillEffect DEF FailQueuedCommit
    <2>2. CASE Unchanged(op[p].snap)
      <3> DEFINE row == [run EXCEPT !.status = "failed", !.error = "publish_failed"]
      <3>1. op[p].snap = run /\ run.status = "queued"
        BY <1>1, <2>2, Matched DEF FailQueuedCommit, Unchanged, At
      <3>2. run' = Bump(row, run) /\ events' = events
        BY <1>1, <2>2, <3>1 DEF FailQueuedCommit
      <3>3. row \in Rows
        <4>1. "failed" \in Statuses /\ "publish_failed" \in ErrorCodes
          BY DEF Statuses, ErrorCodes
        <4> QED
          BY <1>0, <4>1, EndedType
      <3>4. row.status = "failed" /\ row.seq = run.seq /\ row.outbox = run.outbox
        BY <1>0 DEF Rows
      <3> HIDE DEF row
      <3>5. /\ run'.status = "failed" /\ run'.seq = run.seq
            /\ run'.outbox = run.outbox
        BY <1>0, <3>2, <3>3, <3>4, BumpKeeps
      <3> QED
        BY <3>1, <3>2, <3>5 DEF LogEffect, Unannounced, Verdict
    <2> QED
      BY <2>1, <2>2
  <1>2. ASSUME NEW p \in Procs, \/ Release(p) \/ FlushEnd(p) \/ StoreFault(p)
                                \/ Crash(p)
        PROVE  LogEffect
    BY <1>2, StillEffect DEF Release, FlushEnd, StoreFault, Crash
  <1>3. ASSUME NEW p \in Procs, FlushInsert(p)
        PROVE  LogEffect
    BY <1>3 DEF FlushInsert, LogEffect, Inserts
  <1>4. ASSUME NEW p \in Procs, FlushDrop(p)
        PROVE  LogEffect
    <2>1. CASE ~DropMatches(op[p].snap)
      BY <1>4, <2>1, StillEffect DEF FlushDrop
    <2>2. CASE DropMatches(op[p].snap)
      <3> DEFINE row == [run EXCEPT !.outbox = Rest(run.outbox)]
      <3>1. op[p].snap = run /\ op[p].snap.version = run.version /\ op[p].at = "drop"
        BY <1>4, <2>2, Fresh DEF FlushDrop, DropMatches
      <3>2. FirstStored
        BY <3>1 DEF DropsStored
      <3>3. run' = Bump(row, run) /\ events' = events
        BY <1>4, <2>2, <3>1 DEF FlushDrop
      <3>4. Rest(run.outbox) \in Seq(Envelopes)
        BY RunType DEF Shape, Rest
      <3>5. row \in Rows
        BY <1>0, <3>4, FieldTypes, RunType DEF Shape
      <3>6. /\ row.status = run.status /\ row.seq = run.seq
            /\ row.outbox = Rest(run.outbox)
        BY <1>0 DEF Rows
      <3> HIDE DEF row
      <3>7. /\ run'.status = run.status /\ run'.seq = run.seq
            /\ run'.outbox = Rest(run.outbox)
        BY <1>0, <3>3, <3>5, <3>6, BumpKeeps
      <3> QED
        BY <3>2, <3>3, <3>7 DEF LogEffect, Drops, Verdict
    <2> QED
      BY <2>1, <2>2
  <1>5. CASE Tick
    BY <1>5, StillEffect DEF Tick
  <1> QED
    BY <1>1, <1>2, <1>3, <1>4, <1>5 DEF AnyStep

LEMMA StepLogs ==
    ASSUME Shape, DropsStored, [Next]_vars
    PROVE  LogEffect
  <1>1. CASE UNCHANGED vars
    BY <1>1, StillEffect DEF vars
  <1>2. CASE Next
    BY <1>2, WorkerLogs, RequestLogs, CommonLogs DEF Next
  <1> QED
    BY <1>1, <1>2

-----------------------------------------------------------------------------
(* The invariant is inductive.                                             *)

LEMMA InitLog == Init => LogInv
  <1> SUFFICES ASSUME Init PROVE LogInv
    OBVIOUS
  <1>1. run.seq = 0 /\ run.outbox = <<>> /\ events = {} /\ Len(run.outbox) = 0
    BY DEF Init, NewRow
  <1>2. ~FirstStored /\ Gone = 0
    <2>1. ~FirstStored
      BY <1>1 DEF FirstStored
    <2>2. Gone = run.seq - Len(run.outbox)
      BY DEF Gone
    <2>3. run.seq = 0 /\ Len(run.outbox) = 0
      BY <1>1
    <2>4. Gone = 0
      BY <2>2, <2>3
    <2> QED
      BY <2>1, <2>4
  <1>3. DropsStored
    BY DEF Init, Idle, DropsStored
  <1> QED
    BY <1>1, <1>2, <1>3 DEF LogInv, Numbered, Stored

\* A process that is about to drop an envelope has just inserted it.
LEMMA DropStep ==
    ASSUME Shape, [Next]_vars, NEW p \in Procs, op'[p].at = "drop"
    PROVE  op'[p] = op[p] \/ Inserts
  <1>0. op \in [Procs -> Ops]
    BY DEF Shape, TypeOK
  <1>a. ASSUME NEW q \in Procs,
               \/ Done(q) \/ UNCHANGED op
               \/ \E k \in Kinds : Snapshot(q, k)
               \/ \E place \in {"release", "flush"} : Go(q, place)
               \/ \E place \in {"release", "flush"}, k \in Kinds : Goto(q, place, k)
        PROVE  op'[p] = op[p]
    BY <1>0, <1>a DEF Done, Snapshot, Go, Goto, Idle
  <1>b. /\ \A q \in Procs : op[q].kind \in Kinds
        /\ {"claim", "running", "step", "completed", "failed", "cancelled", "request",
            "force", "recover", "attach", "failqueued"} \subseteq Kinds
    BY SnapType DEF Shape, Kinds
  <1>1. CASE UNCHANGED vars
    BY <1>1 DEF vars
  <1>2. ASSUME NEW w \in Workers, WorkerStep(w)
        PROVE  op'[p] = op[p]
    <2>1. CASE TaskMissing(w) \/ ClaimRead(w) \/ ClaimCommit(w) \/ Heartbeat(w)
      BY <2>1, <1>a, <1>b, SubProcs
         DEF TaskMissing, FailQueuedRead, ClaimRead, ClaimCommit, Heartbeat
    <2>2. CASE EmitRead(w) \/ EmitCommit(w) \/ BodyFails(w)
      BY <2>2, <1>a, <1>b, SubProcs DEF EmitRead, EmitCommit, BodyFails
    <2>3. CASE FinishRead(w)
      BY <2>3, <1>a, <1>b, SubProcs DEF FinishRead, Outcome
    <2>4. CASE FinishCommit(w)
      BY <2>4, <1>a, <1>b, SubProcs DEF FinishCommit, FinishRetry, Outcome
    <2> QED
      BY <1>2, <2>1, <2>2, <2>3, <2>4 DEF WorkerStep
  <1>3. ASSUME NEW c \in Clients, ClientStep(c)
        PROVE  op'[p] = op[p]
    BY <1>3, <1>a, <1>b, SubProcs DEF ClientStep, RequestRead, ForceRead, CancelCommit
  <1>4. ASSUME NEW r \in Recoverers, RecovererStep(r)
        PROVE  op'[p] = op[p]
    BY <1>4, <1>a, <1>b, SubProcs
       DEF RecovererStep, RecoverRead, RecoverCommit, RecoverHead, RecoverOutbox
  <1>5. CASE PublisherStep
    BY <1>5, <1>a, <1>b, SubProcs DEF PublisherStep, Publish, FailQueuedRead, AttachCommit
  <1>6. ASSUME NEW q \in Procs, AnyStep(q)
        PROVE  op'[p] = op[p] \/ Inserts
    <2>1. CASE FailQueuedCommit(q)
      BY <2>1, <1>a, <1>b DEF FailQueuedCommit, FailQueuedRead
    <2>2. CASE Release(q) \/ FlushEnd(q) \/ FlushDrop(q) \/ StoreFault(q) \/ Crash(q)
      BY <2>2, <1>a, <1>b DEF Release, FlushEnd, FlushDrop, StoreFault, Crash
    <2>3. CASE FlushInsert(q)
      BY <2>3 DEF FlushInsert, Inserts
    <2> QED
      BY <1>6, <2>1, <2>2, <2>3 DEF AnyStep
  <1>7. CASE Tick
    BY <1>7 DEF Tick
  <1> QED
    BY <1>1, <1>2, <1>3, <1>4, <1>5, <1>6, <1>7 DEF Next

\* A number in the table beyond Gone is the head of the outbox.
LEMMA HeadNext ==
    ASSUME TypeOK, Numbered, Stored
    PROVE  /\ Gone \in Nat
           /\ run.outbox # <<>> => run.outbox[1].seq = Gone + 1
           /\ \A e \in events : e.seq > Gone => FirstStored /\ e = run.outbox[1]
  <1>1. /\ run.seq \in Nat /\ Len(run.outbox) \in Nat
        /\ run.outbox # <<>> <=> Len(run.outbox) > 0
        /\ \A e \in events : e.seq \in Nat
    BY LogTypes, EnvelopeFields
  <1>2. Gone \in Nat
    BY <1>1 DEF Gone, Numbered
  <1>3. run.outbox # <<>> => run.outbox[1].seq = Gone + 1
    BY <1>1 DEF Numbered
  <1>4. \A e \in events : e.seq > Gone => FirstStored /\ e = run.outbox[1]
    BY <1>1, <1>2 DEF Stored
  <1> QED
    BY <1>2, <1>3, <1>4

LEMMA LogStepAppend ==
    ASSUME TypeOK, TypeOK', Numbered, Stored, NEW kind, Logs(kind)
    PROVE  Numbered' /\ Stored' /\ FirstStored' = FirstStored
  <1> DEFINE N == run.seq
             o == run.outbox
             env == [seq |-> N + 1, kind |-> kind]
  <1>1. N \in Nat /\ o \in Seq(Envelopes) /\ Len(o) \in Nat
    BY LogTypes
  <1>2. run'.seq = N + 1 /\ run'.outbox = Append(o, env) /\ events' = events
    BY DEF Logs
  <1>3. Append(o, env) \in Seq(Envelopes)
    BY <1>2, RunType DEF TypeOK, Rows
  <1>3a. env \in Envelopes
    <2>1. run'.outbox[Len(o) + 1] = env /\ Len(run'.outbox) = Len(o) + 1
      BY <1>1, <1>2
    <2> QED
      BY <1>1, <1>2, <1>3, <2>1
  <1>4. /\ Len(Append(o, env)) = Len(o) + 1
        /\ \A i \in 1 .. Len(o) : Append(o, env)[i] = o[i]
        /\ Append(o, env)[Len(o) + 1] = env
    BY <1>1, <1>3a
  <1>5. env.seq = N + 1
    OBVIOUS
  <1> DEFINE long == Append(o, env)
  <1>6. Len(run'.outbox) = Len(o) + 1 /\ run'.outbox = long /\ long # <<>>
    <2>1. run'.outbox = long /\ Len(long) = Len(o) + 1
      BY <1>2, <1>4
    <2>2. long \in Seq(Envelopes)
      BY <1>3
    <2> HIDE DEF long
    <2>3. long # <<>>
      BY <1>1, <2>1, <2>2
    <2> QED
      BY <2>1, <2>3
  <1>7. Gone' = Gone
    BY <1>1, <1>2, <1>6 DEF Gone
  <1> HIDE DEF long, env
  <1>8. Numbered'
    <2>1. Len(long) <= N + 1
      BY <1>1, <1>4 DEF Numbered, long
    <2>2. ASSUME NEW i \in 1 .. Len(o) + 1
          PROVE  long[i].seq = Gone + i
      <3>1. CASE i = Len(o) + 1
        BY <1>1, <1>4, <1>5, <3>1 DEF long, Gone
      <3>2. CASE i # Len(o) + 1
        <4>1. i \in 1 .. Len(o)
          BY <1>1, <3>2
        <4> QED
          BY <1>4, <4>1 DEF long, Numbered
      <3> QED
        BY <3>1, <3>2
    <2> QED
      BY <1>2, <1>4, <1>6, <1>7, <2>1, <2>2 DEF Numbered, long
  <1>9. FirstStored' = FirstStored
    <2>1. CASE o = <<>>
      <3>1. long[1] = env
        BY <1>4, <2>1 DEF long
      <3>2. ~FirstStored
        BY <2>1 DEF FirstStored
      <3>3. env \notin events
        <4>1. Gone = N
          BY <1>1, <2>1 DEF Gone
        <4> QED
          BY <1>1, <1>5, <3>2, <4>1 DEF Stored
      <3> QED
        BY <1>2, <1>6, <3>1, <3>2, <3>3 DEF FirstStored
    <2>2. CASE o # <<>>
      <3>1. 1 \in 1 .. Len(o)
        BY <1>1, <2>2
      <3>2. long[1] = o[1]
        BY <1>4, <3>1 DEF long
      <3> QED
        BY <1>2, <1>6, <2>2, <3>2 DEF FirstStored
    <2> QED
      BY <2>1, <2>2
  <1>10. FirstStored => run'.outbox[1] = run.outbox[1]
    <2> SUFFICES ASSUME FirstStored PROVE run'.outbox[1] = run.outbox[1]
      OBVIOUS
    <2>1. 1 \in 1 .. Len(o)
      BY <1>1 DEF FirstStored
    <2> QED
      BY <1>4, <1>6, <2>1 DEF long
  <1>11. Stored'
    BY <1>2, <1>7, <1>9, <1>10 DEF Stored
  <1> QED
    BY <1>8, <1>9, <1>11

LEMMA LogStepInsert ==
    ASSUME TypeOK, Numbered, Stored, Inserts
    PROVE  Numbered' /\ Stored' /\ FirstStored'
  <1> DEFINE first == run.outbox[1]
  <1>1. /\ run' = run /\ run.outbox # <<>> /\ first \in Envelopes
        /\ events' = Persist(first) /\ Gone \in Nat
        /\ first.seq = Gone + 1 /\ \A e \in events : e.seq \in Nat
    BY LogTypes, EnvelopeFields, HeadNext DEF Inserts
  <1>2. Gone' = Gone /\ Numbered'
    BY <1>1 DEF Gone, Numbered
  <1>3. CASE \E e \in events : e.seq = first.seq
    <2>1. PICK e \in events : e.seq = first.seq
      BY <1>3
    <2>2. FirstStored
      BY <1>1, <2>1, HeadNext
    <2>3. events' = events
      BY <1>1, <1>3 DEF Persist
    <2>4. FirstStored'
      BY <1>1, <2>2, <2>3 DEF FirstStored
    <2>5. Stored'
      BY <1>1, <1>2, <2>2, <2>3, <2>4 DEF Stored
    <2> QED
      BY <1>2, <2>4, <2>5
  <1>4. CASE ~\E e \in events : e.seq = first.seq
    <2>1. events' = events \cup {first} /\ first \notin events
      BY <1>1, <1>4 DEF Persist
    <2>2. ~FirstStored /\ FirstStored'
      BY <1>1, <2>1 DEF FirstStored
    <2>3. \A e \in events : e.seq <= Gone
      BY <2>2 DEF Stored
    <2>4. Stored'
      <3>1. \A e \in events' : e.seq <= Gone \/ e = first
        BY <2>1, <2>3
      <3>2. \A n \in 1 .. Gone : \E e \in events' : e.seq = n
        BY <2>1 DEF Stored
      <3>3. \A e, f \in events' : e.seq = f.seq => e = f
        BY <2>1, <1>4 DEF Stored
      <3> QED
        BY <1>1, <1>2, <2>2, <3>1, <3>2, <3>3 DEF Stored
    <2> QED
      BY <1>2, <2>2, <2>4
  <1> QED
    BY <1>3, <1>4

LEMMA LogStepDrop ==
    ASSUME TypeOK, Numbered, Stored, Drops
    PROVE  Numbered' /\ Stored'
  <1> DEFINE o == run.outbox
  <1>1. /\ run'.seq = run.seq /\ run'.outbox = Rest(o) /\ events' = events
        /\ FirstStored /\ run.seq \in Nat /\ o \in Seq(Envelopes) /\ o # <<>>
    BY LogTypes DEF Drops, FirstStored
  <1>2. /\ Len(Rest(o)) = Len(o) - 1
        /\ \A i \in 1 .. Len(o) - 1 : Rest(o)[i] = o[i + 1]
    BY <1>1 DEF Rest
  <1>3. Len(o) \in Nat /\ Len(o) > 0 /\ Gone \in Nat /\ o[1].seq = Gone + 1
    BY <1>1, HeadNext
  <1>4. Gone' = Gone + 1
    BY <1>1, <1>2, <1>3 DEF Gone
  <1>5. Numbered'
    <2>1. ASSUME NEW i \in 1 .. Len(o) - 1
          PROVE  Rest(o)[i].seq = Gone + 1 + i
      <3>1. i + 1 \in 1 .. Len(o) /\ i \in Nat
        BY <1>3
      <3>2. o[i + 1].seq = Gone + (i + 1)
        BY <3>1 DEF Numbered
      <3> QED
        BY <1>2, <1>3, <3>1, <3>2
    <2> QED
      BY <1>1, <1>2, <1>3, <1>4, <2>1 DEF Numbered
  <1>6. ~FirstStored'
    <2> SUFFICES ASSUME Rest(o) # <<>>, Rest(o)[1] \in events
                 PROVE  FALSE
      BY <1>1 DEF FirstStored
    <2>1. Len(o) - 1 > 0
      <3>1. Rest(o) \in Seq(Envelopes)
        BY <1>1 DEF Rest
      <3> QED
        BY <1>2, <1>3, <3>1
    <2>2. Rest(o)[1] = o[2] /\ o[2].seq = Gone + 2
      BY <1>2, <1>3, <2>1 DEF Numbered
    <2>3. o[2].seq <= Gone \/ o[2] = o[1]
      BY <2>2 DEF Stored
    <2> QED
      BY <1>3, <2>2, <2>3
  <1>7. Stored'
    <2>1. \A e \in events : e.seq <= Gone + 1
      BY <1>3, LogTypes, EnvelopeFields DEF Stored
    <2>2. ASSUME NEW n \in 1 .. Gone + 1
          PROVE  \E e \in events : e.seq = n
      <3>1. CASE n = Gone + 1
        BY <1>1, <1>3, <3>1 DEF FirstStored
      <3>2. CASE n # Gone + 1
        BY <1>3, <3>2 DEF Stored
      <3> QED
        BY <3>1, <3>2
    <2> QED
      BY <1>1, <1>4, <2>1, <2>2 DEF Stored
  <1> QED
    BY <1>5, <1>7

LEMMA LogStep ==
    ASSUME Shape, Shape', LogInv, [Next]_vars
    PROVE  LogInv'
  <1>0. TypeOK /\ TypeOK' /\ Numbered /\ Stored /\ DropsStored
    BY DEF Shape, LogInv
  <1>1. LogEffect
    BY <1>0, StepLogs
  <1>2. RowMoves
    BY RowStep DEF RowMoves, vars
  <1>3. ASSUME Still \/ Unannounced
        PROVE  Numbered' /\ Stored'
    <2>1. Gone' = Gone /\ FirstStored' = FirstStored
      BY <1>3 DEF Gone, FirstStored, Still, Unannounced
    <2>2. /\ run'.seq = run.seq /\ run'.outbox = run.outbox /\ events' = events
      BY <1>3 DEF Still, Unannounced
    <2> QED
      BY <1>0, <2>1, <2>2 DEF Numbered, Stored
  <1>4. ASSUME NEW kind \in EventKinds, Logs(kind)
        PROVE  Numbered' /\ Stored'
    BY <1>0, <1>4, LogStepAppend
  <1>5. ASSUME Inserts
        PROVE  Numbered' /\ Stored'
    BY <1>0, <1>5, LogStepInsert
  <1>6. ASSUME Drops
        PROVE  Numbered' /\ Stored'
    BY <1>0, <1>6, LogStepDrop
  <1>7. Numbered' /\ Stored'
    BY <1>1, <1>3, <1>4, <1>5, <1>6 DEF LogEffect
  <1>8. DropsStored'
    <2> SUFFICES ASSUME NEW p \in Procs, op'[p].at = "drop",
                        op'[p].snap.version = run'.version
                 PROVE  FirstStored'
      BY DEF DropsStored
    <2>1. CASE Inserts
      BY <1>0, <2>1, LogStepInsert
    <2>2. CASE op'[p] = op[p]
      <3>1. /\ op[p].snap.version <= run.version
            /\ op[p].snap.version \in Nat /\ run.version \in Nat
        BY <2>2, SnapType, RunType DEF Shape, SnapshotsAge
      <3>2. run' = run
        BY <1>2, <2>2, <3>1 DEF RowMoves
      <3>3. FirstStored
        BY <1>0, <2>2, <3>2 DEF DropsStored
      <3>4. events \subseteq events'
        BY <1>1 DEF LogEffect, Still, Logs, Unannounced, Inserts, Drops, Persist
      <3> QED
        BY <3>2, <3>3, <3>4 DEF FirstStored
    <2> QED
      BY <2>1, <2>2, DropStep
  <1> QED
    BY <1>7, <1>8 DEF LogInv

-----------------------------------------------------------------------------
(* The refinement: each effect is a step of the event log, or none.        *)

Posted == [n \in 1 .. run.seq |-> KindLogged(n)]

KindIn(L, n) ==
    LET found == {e \in L : e.seq = n} IN
    IF found = {} THEN "lost" ELSE (CHOOSE e \in found : TRUE).kind

LEMMA AppendIs ==
    ASSUME NEW S, NEW s \in Seq(S), NEW x \in S
    PROVE  Append(s, x) = [n \in 1 .. Len(s) + 1 |-> IF n = Len(s) + 1 THEN x ELSE s[n]]
  <1> DEFINE r == [n \in 1 .. Len(s) + 1 |-> IF n = Len(s) + 1 THEN x ELSE s[n]]
             a == Append(s, x)
  <1>1. a \in Seq(S) /\ Len(a) = Len(s) + 1 /\ Len(s) \in Nat
    OBVIOUS
  <1>2. \A n \in 1 .. Len(s) + 1 : a[n] = r[n]
    OBVIOUS
  <1> HIDE DEF a
  <1>3. a \in [1 .. Len(s) + 1 -> S]
    BY <1>1
  <1>4. a = [n \in 1 .. Len(s) + 1 |-> a[n]]
    BY <1>3
  <1>5. r = [n \in 1 .. Len(s) + 1 |-> r[n]]
    OBVIOUS
  <1> HIDE DEF r
  <1>6. a = r
    BY <1>2, <1>4, <1>5
  <1> QED
    BY <1>6 DEF a, r

\* No number has been given to two events.
LEMMA LoggedOnce ==
    ASSUME TypeOK, Numbered, Stored
    PROVE  \A e, f \in Logged : e.seq = f.seq => e = f
  <1>1. /\ Len(run.outbox) \in Nat /\ DOMAIN run.outbox = 1 .. Len(run.outbox)
        /\ \A e \in events : e.seq \in Nat
    BY LogTypes, EnvelopeFields
  <1>2. Gone \in Nat
    BY HeadNext
  <1>3. ASSUME NEW i \in DOMAIN run.outbox
        PROVE  run.outbox[i].seq = Gone + i /\ i \in Nat \ {0}
    BY <1>1 DEF Numbered
  <1>4. ASSUME NEW e \in events, NEW i \in DOMAIN run.outbox, e.seq = run.outbox[i].seq
        PROVE  e = run.outbox[i]
    <2>1. e.seq > Gone
      BY <1>1, <1>2, <1>3, <1>4
    <2>2. FirstStored /\ e = run.outbox[1]
      BY <2>1, HeadNext
    <2>3. 1 \in DOMAIN run.outbox
      BY <1>1, <1>3
    <2>4. i = 1
      BY <1>2, <1>3, <1>4, <2>2, <2>3
    <2> QED
      BY <2>2, <2>4
  <1>5. ASSUME NEW i \in DOMAIN run.outbox, NEW j \in DOMAIN run.outbox,
               run.outbox[i].seq = run.outbox[j].seq
        PROVE  run.outbox[i] = run.outbox[j]
    BY <1>2, <1>3, <1>5
  <1>6. \A e, f \in events : e.seq = f.seq => e = f
    BY DEF Stored
  <1> QED
    BY <1>4, <1>5, <1>6 DEF Logged

LEMMA KindOfLogged ==
    ASSUME TypeOK, Numbered, Stored, NEW e \in Logged
    PROVE  KindLogged(e.seq) = e.kind
  <1> DEFINE found == {f \in Logged : f.seq = e.seq}
  <1>1. \A f \in found : f = e
    BY LoggedOnce
  <1>2. e \in found
    OBVIOUS
  <1>3. (CHOOSE f \in found : TRUE) = e
    BY <1>1, <1>2
  <1>4. KindLogged(e.seq) = IF found = {} THEN "lost"
                                          ELSE (CHOOSE f \in found : TRUE).kind
    BY DEF KindLogged
  <1> HIDE DEF found
  <1> QED
    BY <1>2, <1>3, <1>4

\* As long as the same envelopes are logged, the same has been posted.
LEMMA SamePosted ==
    ASSUME Logged' = Logged, run'.seq = run.seq
    PROVE  Posted' = Posted
  BY DEF Posted, KindLogged

LEMMA SeqRange ==
    ASSUME NEW s \in Seq(Envelopes)
    PROVE  /\ DOMAIN s = 1 .. Len(s)
           /\ s # <<>> => {s[i] : i \in DOMAIN s}
                            = {s[1]} \cup {Rest(s)[i] : i \in DOMAIN Rest(s)}
  <1>1. DOMAIN s = 1 .. Len(s) /\ Len(s) \in Nat
    OBVIOUS
  <1>2. ASSUME s # <<>>
        PROVE  {s[i] : i \in DOMAIN s} = {s[1]} \cup {Rest(s)[i] : i \in DOMAIN Rest(s)}
    <2>1. Len(s) > 0
      BY <1>2
    <2>2. /\ DOMAIN Rest(s) = 1 .. (Len(s) - 1)
          /\ \A i \in 1 .. (Len(s) - 1) : Rest(s)[i] = s[i + 1]
      BY <2>1 DEF Rest
    <2>3. ASSUME NEW i \in 1 .. Len(s)
          PROVE  s[i] \in {s[1]} \cup {Rest(s)[j] : j \in 1 .. (Len(s) - 1)}
      <3>1. CASE i = 1
        BY <3>1
      <3>2. CASE i # 1
        <4>1. i - 1 \in 1 .. (Len(s) - 1) /\ (i - 1) + 1 = i
          BY <1>1, <3>2
        <4> QED
          BY <2>2, <4>1
      <3> QED
        BY <3>1, <3>2
    <2>4. ASSUME NEW i \in 1 .. (Len(s) - 1)
          PROVE  Rest(s)[i] \in {s[j] : j \in 1 .. Len(s)}
      <3>1. i + 1 \in 1 .. Len(s)
        BY <1>1
      <3> QED
        BY <2>2, <3>1
    <2>5. 1 \in 1 .. Len(s)
      BY <1>1, <2>1
    <2> QED
      BY <1>1, <2>2, <2>3, <2>4, <2>5
  <1> QED
    BY <1>1, <1>2

\* Posting: the new envelope, and nothing else, is logged in addition.
LEMMA PostedAppends ==
    ASSUME TypeOK, TypeOK', Numbered, Stored, Numbered', Stored', NEW kind, Logs(kind)
    PROVE  Posted' = Append(Posted, kind)
  <1> DEFINE N == run.seq
             o == run.outbox
             env == [seq |-> N + 1, kind |-> kind]
             long == Append(o, env)
  <1>1. N \in Nat /\ o \in Seq(Envelopes) /\ Len(o) \in Nat
    BY LogTypes
  <1>2. run'.seq = N + 1 /\ run'.outbox = long /\ events' = events
    BY DEF Logs
  <1>3. /\ long \in Seq(Envelopes) /\ Len(long) = Len(o) + 1
        /\ \A i \in 1 .. Len(o) : long[i] = o[i]
        /\ long[Len(o) + 1] = env
    <2>1. long \in Seq(Envelopes)
      BY <1>2, RunType DEF TypeOK, Rows
    <2>2. Len(long) = Len(o) + 1 /\ long[Len(o) + 1] = env
      BY <1>1
    <2>3. env \in Envelopes
      BY <1>1, <2>1, <2>2
    <2> QED
      BY <1>1, <2>1, <2>2, <2>3
  <1>4. env.seq = N + 1 /\ env.kind = kind
    OBVIOUS
  <1> HIDE DEF long, env
  <1>5. Logged' = Logged \cup {env}
    <2>1. DOMAIN o = 1 .. Len(o) /\ DOMAIN long = 1 .. Len(o) + 1
      BY <1>1, <1>3
    <2>2. {long[i] : i \in DOMAIN long} = {o[i] : i \in DOMAIN o} \cup {env}
      BY <1>1, <1>3, <2>1
    <2> QED
      BY <1>2, <2>2 DEF Logged
  <1>6. ASSUME NEW n \in 1 .. N
        PROVE  KindIn(Logged', n) = KindIn(Logged, n)
    <2>1. env.seq # n
      BY <1>1, <1>4
    <2>2. {e \in Logged' : e.seq = n} = {e \in Logged : e.seq = n}
      BY <1>5, <2>1
    <2> DEFINE found(L) == {e \in L : e.seq = n}
    <2>3. \A L : KindIn(L, n) = IF found(L) = {} THEN "lost"
                                ELSE (CHOOSE e \in found(L) : TRUE).kind
      BY DEF KindIn
    <2>4. found(Logged') = found(Logged)
      BY <2>2
    <2> HIDE DEF found
    <2> QED
      BY <2>3, <2>4, Zenon
  <1>7. KindIn(Logged', N + 1) = kind
    <2>1. \A e \in Logged : e.seq # N + 1
      <3>1. \A e \in events : e.seq \in Nat /\ e.seq <= N
        <4>1. \A e \in events : e.seq \in Nat
          BY LogTypes, EnvelopeFields
        <4>2. \A e \in events : e.seq <= Gone \/ (o # <<>> /\ e.seq = Gone + 1)
          BY HeadNext DEF Stored, FirstStored
        <4>3. Gone = N - Len(o) /\ (o # <<>> => Len(o) > 0)
          BY LogTypes DEF Gone
        <4> QED
          BY <1>1, <4>1, <4>2, <4>3
      <3>2. \A i \in DOMAIN o : o[i].seq \in Nat /\ o[i].seq <= N
        <4>1. DOMAIN o = 1 .. Len(o)
          BY <1>1
        <4>2. Gone = N - Len(o) /\ Gone \in Nat
          BY HeadNext DEF Gone
        <4> QED
          BY <1>1, <4>1, <4>2 DEF Numbered
      <3> QED
        BY <1>1, <3>1, <3>2 DEF Logged
    <2>2. {e \in Logged' : e.seq = N + 1} = {env}
      BY <1>4, <1>5, <2>1
    <2>3. (CHOOSE e \in {env} : TRUE) = env
      OBVIOUS
    <2> QED
      BY <1>4, <2>2, <2>3 DEF KindIn
  <1> DEFINE S == {KindIn(Logged, n) : n \in 1 .. N} \cup {kind}
             past == Posted
  <1>8. past \in Seq(S) /\ Len(past) = N /\ \A n \in 1 .. N : past[n] = KindIn(Logged, n)
    <2>1. past = [n \in 1 .. N |-> KindIn(Logged, n)]
      BY DEF Posted, KindLogged, KindIn
    <2>2. past \in [1 .. N -> S]
      BY <2>1
    <2>3. \A n \in 1 .. N : past[n] = KindIn(Logged, n)
      BY <2>1
    <2> HIDE DEF S, past
    <2> QED
      BY <1>1, <2>2, <2>3
  <1>9. Posted' = [n \in 1 .. N + 1 |-> KindIn(Logged', n)]
    BY <1>2 DEF Posted, KindLogged, KindIn
  <1>10. ASSUME NEW n \in 1 .. N + 1
         PROVE  KindIn(Logged', n) = IF n = N + 1 THEN kind ELSE past[n]
    <2>1. CASE n = N + 1
      BY <1>7, <2>1
    <2>2. CASE n # N + 1
      <3>1. n \in 1 .. N
        BY <1>1, <2>2
      <3> QED
        BY <1>6, <1>8, <2>2, <3>1
    <2> QED
      BY <2>1, <2>2
  <1>11. kind \in S
    OBVIOUS
  <1> HIDE DEF S, past
  <1>12. Append(past, kind) = [n \in 1 .. N + 1 |-> IF n = N + 1 THEN kind ELSE past[n]]
    BY <1>8, <1>11, AppendIs
  <1> QED
    BY <1>9, <1>10, <1>12 DEF past

LEMMA InitRefines == Init => Reader!Init
  <1> SUFFICES ASSUME Init PROVE Reader!Init
    OBVIOUS
  <1>1. run.seq = 0 /\ events = {} /\ run.status = "queued"
    BY DEF Init, NewRow
  <1>2. [n \in 1 .. run.seq |-> KindLogged(n)] = <<>>
    BY <1>1
  <1> QED
    BY <1>1, <1>2 DEF Reader!Init

LEMMA StepRefines ==
    ASSUME Shape, Shape', LogInv, LogInv', [Next]_vars
    PROVE  [Reader!Next]_(Reader!vars)
  <1>0. /\ TypeOK /\ TypeOK' /\ Numbered /\ Stored /\ DropsStored
        /\ Numbered' /\ Stored'
    BY DEF Shape, LogInv
  <1>1. LogEffect
    BY <1>0, StepLogs
  <1>2. ASSUME Posted' = Posted, events' = events, Verdict' = Verdict
        PROVE  Reader!vars' = Reader!vars
    BY <1>2 DEF Reader!vars, Posted, Verdict
  <1>3. CASE Still
    <2>1. Logged' = Logged /\ run'.seq = run.seq
      BY <1>3 DEF Still, Logged
    <2>2. Posted' = Posted
      BY <2>1, SamePosted
    <2> QED
      BY <1>2, <1>3, <2>2 DEF Still
  <1>4. CASE Unannounced
    <2>1. Logged' = Logged /\ run'.seq = run.seq
      BY <1>4 DEF Unannounced, Logged
    <2>2. Posted' = Posted
      BY <2>1, SamePosted
    <2>3. Verdict = "open" /\ Verdict' = "failed" /\ events' = events
      BY <1>4 DEF Unannounced, Verdict
    <2>4. Reader!FailUnannounced
      BY <2>2, <2>3 DEF Reader!FailUnannounced, Posted, Verdict
    <2> QED
      BY <2>4 DEF Reader!Next
  <1>5. ASSUME NEW kind \in EventKinds, Logs(kind)
        PROVE  Reader!Next
    <2>1. Posted' = Append(Posted, kind)
      BY <1>0, <1>5, PostedAppends
    <2>2. /\ Verdict = "open" /\ events' = events
          /\ Verdict' = IF kind \in Terminal THEN kind ELSE "open"
      BY <1>5 DEF Logs, Verdict
    <2>3. Reader!Post(kind)
      BY <2>1, <2>2 DEF Reader!Post, Posted, Verdict
    <2> QED
      BY <2>3 DEF Reader!Next
  <1>6. CASE Inserts
    <2> DEFINE first == run.outbox[1]
    <2>1. /\ run' = run /\ run.outbox # <<>> /\ events' = Persist(first)
          /\ first \in Envelopes /\ first.seq = Gone + 1 /\ Gone \in Nat
          /\ run.seq \in Nat /\ Len(run.outbox) \in Nat /\ Len(run.outbox) > 0
      BY <1>0, <1>6, LogTypes, HeadNext DEF Inserts
    <2>2. first \in Logged
      <3>1. 1 \in DOMAIN run.outbox
        BY <1>0, <2>1, LogTypes, SeqRange
      <3> QED
        BY <3>1 DEF Logged
    <2>3. Logged' = Logged /\ run'.seq = run.seq
      BY <2>1, <2>2 DEF Logged, Persist
    <2>4. Posted' = Posted /\ Verdict' = Verdict
      BY <2>1, <2>3, SamePosted DEF Verdict
    <2>5. CASE \E e \in events : e.seq = first.seq
      <3>1. events' = events
        BY <2>1, <2>5 DEF Persist
      <3> QED
        BY <1>2, <2>4, <3>1
    <2>6. CASE ~\E e \in events : e.seq = first.seq
      <3>1. events' = events \cup {first}
        BY <2>1, <2>6 DEF Persist
      <3>2. {e.seq : e \in events} = 1 .. (Gone + 1) - 1
        <4>1. \A e \in events : e.seq \in 1 .. Gone
          BY <1>0, <2>1, <2>6, LogTypes, EnvelopeFields DEF FirstStored, Stored
        <4> QED
          BY <1>0, <2>1, <4>1 DEF Stored
      <3>3. Gone + 1 \in 1 .. run.seq
        BY <1>0, <2>1 DEF Gone, Numbered
      <3>4. Posted[Gone + 1] = first.kind
        BY <1>0, <2>1, <2>2, <3>3, KindOfLogged DEF Posted
      <3>5. first = [seq |-> Gone + 1, kind |-> Posted[Gone + 1]]
        BY <2>1, <3>4, EnvelopeFields
      <3>6. DOMAIN Posted = 1 .. run.seq
        BY DEF Posted
      <3>7. Reader!Show
        <4> DEFINE next == Gone + 1
        <4>1. /\ next \in DOMAIN Posted
              /\ {e.seq : e \in events} = 1 .. next - 1
              /\ events' = events \cup {[seq |-> next, kind |-> Posted[next]]}
              /\ Posted' = Posted /\ Verdict' = Verdict
          BY <2>4, <3>1, <3>2, <3>3, <3>5, <3>6, Zenon
        <4> HIDE DEF next
        <4> QED
          BY <4>1 DEF Reader!Show, Posted, Verdict
      <3> QED
        BY <3>7 DEF Reader!Next
    <2> QED
      BY <2>5, <2>6
  <1>7. CASE Drops
    <2>1. /\ run'.outbox = Rest(run.outbox) /\ run'.seq = run.seq
          /\ events' = events /\ run.outbox # <<>> /\ run.outbox[1] \in events
      BY <1>7 DEF Drops, FirstStored
    <2>2. Logged' = Logged
      <3>1. {run.outbox[i] : i \in DOMAIN run.outbox}
              = {run.outbox[1]} \cup {run'.outbox[i] : i \in DOMAIN run'.outbox}
        <4> DEFINE o == run.outbox
        <4>1. o \in Seq(Envelopes) /\ o # <<>>
          BY <1>0, <2>1, LogTypes
        <4> HIDE DEF o
        <4>2. {o[i] : i \in DOMAIN o} = {o[1]} \cup {Rest(o)[i] : i \in DOMAIN Rest(o)}
          BY <4>1, SeqRange
        <4> QED
          BY <2>1, <4>2, Zenon DEF o
      <3> QED
        BY <2>1, <3>1 DEF Logged
    <2>3. Posted' = Posted
      BY <2>1, <2>2, SamePosted
    <2> QED
      BY <1>2, <1>7, <2>3 DEF Drops
  <1> QED
    BY <1>1, <1>3, <1>4, <1>5, <1>6, <1>7 DEF LogEffect

\* However many processes write, deliver and delete them, the events of a run
\* are a behaviour of the event log: no gap, no duplicate, none after the
\* verdict, none lost (_mutate, flush_outbox, recover_outboxes).
THEOREM LogImplemented == Spec => LogRefined
  <1>1. Init => Shape /\ LogInv
    BY InitSafety, InitLog DEF SafetyInv
  <1>2. Shape /\ LogInv /\ [Next]_vars => Shape' /\ LogInv'
    BY ShapeStep, LogStep
  <1>3. Shape /\ Shape' /\ LogInv /\ LogInv' /\ [Next]_vars
          => [Reader!Next]_(Reader!vars)
    BY StepRefines
  <1>4. Spec => [](Shape /\ LogInv)
    BY <1>1, <1>2, PTL DEF Spec
  <1> QED
    BY <1>3, <1>4, InitRefines, PTL DEF Spec, LogRefined, Reader!Spec

=============================================================================
