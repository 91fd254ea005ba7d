--------------------------- MODULE Scheduler_proofs ---------------------------
(***************************************************************************)
(* Proofs about the Task row: its schedule (Scheduler), for any number of  *)
(* schedulers and editors, any kinds of schedule and any number of changes *)
(* and crashes, and at the end its status and its deletion (TaskRow).      *)
(*                                                                         *)
(* The argument that an occurrence starts one run at most is about the     *)
(* claims made since the schedule was last changed.  A claim of a recurring *)
(* schedule takes an interval of time: from the instant that was due to the *)
(* one it leaves in next_run_at.  The intervals of the claims still in     *)
(* flight are disjoint, next_run_at lies behind all of them, and what has  *)
(* started lies in none.  So a claim that is put back makes nothing due    *)
(* that another one took or started.                                       *)
(***************************************************************************)
EXTENDS Scheduler, TaskRow, TLAPS

-----------------------------------------------------------------------------
(* Types.                                                                  *)

Places == {"idle", "claim", "start", "revert", "save", "done"}
Actors == Schedulers \cup Editors

\* A row that is armed can fire, and only then.
Armed == {r \in Rows : r.next # Never <=> r.enabled}

Kept == /\ row \in Rows /\ now \in 0 .. MaxTime /\ busy \in BOOLEAN
        /\ changes \in 0 .. MaxChanges
        /\ row.next # Never <=> row.enabled
InHand == /\ pc \in [Actors -> Places] /\ seen \in [Actors -> Armed]
          /\ tick \in [Schedulers -> 0 .. MaxTime] /\ claim \in [Schedulers -> Occurrences]
History == /\ started \subseteq Occurrences /\ twice \in BOOLEAN
           /\ stale \in BOOLEAN /\ late \in BOOLEAN /\ crossed \in BOOLEAN
           /\ crashes \in 0 .. MaxCrashes

Typed == Kept /\ InHand /\ History

LEMMA TypedIsTypeOK == Typed => TypeOK
  BY DEF Typed, Kept, InHand, History, TypeOK, Actors, Places, Armed

LEMMA NextRunType ==
    ASSUME NEW kind \in {"once", "every"}, NEW at \in Times, NEW time \in 0 .. MaxTime
    PROVE  NextRun(kind, at, time) \in Times
  BY ScheduleAssumption DEF NextRun, Times

LEMMA BlankType == \A kind \in Kinds : Blank(kind) \in Rows
  BY ScheduleAssumption DEF Blank, Rows, Times

LEMMA NoRowType == NoRow \in Armed
  BY ScheduleAssumption DEF NoRow, Blank, Rows, Times, Armed

LEMMA NoClaimType == NoClaim \in Occurrences
  BY ScheduleAssumption DEF NoClaim, Occurrences, Times

LEMMA InitTyped == Init => Typed
  <1> SUFFICES ASSUME Init PROVE Typed
    OBVIOUS
  <1>1. PICK kind \in Kinds : row = Blank(kind)
    BY DEF Init
  <1>2. Kept
    <2>1. row \in Rows /\ row.next = 1 /\ row.enabled = TRUE
      BY <1>1, BlankType DEF Blank
    <2>2. now = 0 /\ busy = FALSE /\ changes = 0
      BY DEF Init
    <2>3. now \in 0 .. MaxTime /\ changes \in 0 .. MaxChanges /\ row.next # Never
      BY <2>1, <2>2, ScheduleAssumption
    <2> QED
      BY <2>1, <2>2, <2>3, Zenon DEF Kept
  <1>3. InHand
    <2>1. /\ pc = [s \in Actors |-> "idle"] /\ seen = [s \in Actors |-> NoRow]
          /\ tick = [s \in Schedulers |-> 0] /\ claim = [s \in Schedulers |-> NoClaim]
      BY Zenon DEF Init, Actors
    <2>2. 0 \in 0 .. MaxTime
      BY ScheduleAssumption
    <2> QED
      BY <2>1, <2>2, NoRowType, NoClaimType DEF InHand, Places
  <1>4. History
    <2>1. 0 \in 0 .. MaxCrashes
      BY ScheduleAssumption
    <2> QED
      BY <2>1, Zenon DEF Init, History
  <1> QED
    BY <1>2, <1>3, <1>4 DEF Typed

\* The schedule columns after a step that sets two of them.
LEMMA RowSet ==
    ASSUME row \in Rows, NEW next \in Times \cup {Never}, NEW enabled \in BOOLEAN
    PROVE  LET r == [row EXCEPT !.next = next, !.enabled = enabled]
           IN  r \in Rows /\ r.next = next /\ r.enabled = enabled /\ r.kind = row.kind
  BY DEF Rows

LEMMA IdleType == ASSUME InHand, NEW s \in Schedulers, Idle(s) PROVE InHand'
  BY NoRowType, NoClaimType, ScheduleAssumption DEF InHand, Idle, Go, Actors, Places

LEMMA GoType == ASSUME InHand, NEW s \in Actors, NEW there \in Places, Go(s, there), Hold
                PROVE  InHand'
  BY DEF InHand, Go, Hold

LEMMA ClaimType ==
    ASSUME Typed, NEW s \in Schedulers, Claim(s), ClaimMatches(s), row.next # Never
    PROVE  Typed'
  <1>1. /\ row' = [row EXCEPT !.next = Claimed(s).next, !.enabled = Claimed(s).enabled]
        /\ claim' = [claim EXCEPT ![s] = [change |-> changes, due |-> row.next]]
        /\ Go(s, "start") /\ UNCHANGED <<seen, tick>>
        /\ UNCHANGED <<now, busy, started, twice, changes, stale, late, crossed, crashes>>
    BY DEF Claim
  <1>2. /\ Claimed(s).next \in Times \cup {Never} /\ Claimed(s).enabled \in BOOLEAN
        /\ Claimed(s).next # Never <=> Claimed(s).enabled
    <2>1. row.enabled \in BOOLEAN /\ row.enabled /\ tick[s] \in 0 .. MaxTime
      BY DEF Typed, Kept, InHand, Rows
    <2>2. CASE seen[s].kind = "once"
      BY <2>2 DEF Claimed
    <2>3. CASE seen[s].kind # "once"
      <3>1. Claimed(s) = [next |-> tick[s] + Interval, enabled |-> row.enabled]
        BY <2>3 DEF Claimed, NextRun
      <3>2. tick[s] + Interval \in Times /\ tick[s] + Interval \in Nat
        BY <2>1, ScheduleAssumption DEF Times
      <3>3. tick[s] + Interval # Never
        BY <3>2, ScheduleAssumption
      <3>4. Claimed(s).next = tick[s] + Interval /\ Claimed(s).enabled = row.enabled
        BY <3>1
      <3> QED
        BY <2>1, <3>2, <3>3, <3>4, Zenon
    <2> QED
      BY <2>2, <2>3
  <1>3. Kept'
    BY <1>1, <1>2, RowSet DEF Typed, Kept
  <1>4. InHand'
    <2>1. [change |-> changes, due |-> row.next] \in Occurrences
      BY DEF Typed, Kept, Rows, Occurrences
    <2> QED
      BY <1>1, <2>1 DEF Typed, InHand, Go, Places, Actors
  <1>5. History'
    BY <1>1 DEF Typed, History
  <1> QED
    BY <1>3, <1>4, <1>5 DEF Typed

LEMMA RevertType == ASSUME Typed, NEW s \in Schedulers, Revert(s) PROVE Typed'
  <1>1. /\ row' = IF StillMine(s) THEN [row EXCEPT !.next = claim[s].due, !.enabled = TRUE] ELSE row
        /\ Idle(s) /\ crossed' \in BOOLEAN
        /\ UNCHANGED <<now, busy, started, twice, changes, stale, late, crashes>>
    BY DEF Revert, Typed, History
  <1>2. claim[s].due \in Times /\ claim[s].due # Never
    BY ScheduleAssumption DEF Typed, InHand, Occurrences, Times
  <1>3. Kept'
    BY <1>1, <1>2, RowSet DEF Typed, Kept
  <1>4. InHand' /\ History'
    BY <1>1, IdleType DEF Typed, History
  <1> QED
    BY <1>3, <1>4 DEF Typed

LEMMA UserTyped == ASSUME Typed, Pause \/ Resume \/ Redefine \/ Delete PROVE Typed'
  <1>1. /\ UNCHANGED <<now, busy, pc, seen, tick, claim, started, twice, stale, late, crossed, crashes>>
        /\ changes < MaxChanges /\ changes' = changes + 1
    BY Zenon DEF Pause, Resume, Redefine, Delete, Changed
  <1>4. changes' \in 0 .. MaxChanges
    BY <1>1, ScheduleAssumption DEF Typed, Kept
  <1>2. InHand' /\ History'
    BY <1>1 DEF Typed, InHand, History
  <1>3. row' \in Rows /\ (row'.next # Never <=> row'.enabled)
    <2>1. CASE Pause
      BY <2>1 DEF Pause, Typed, Kept, Rows
    <2>2. CASE Resume
      <3>1. NextRun(row.kind, row.at, now) \in Times
        BY NextRunType DEF Typed, Kept, Rows
      <3>2. NextRun(row.kind, row.at, now) # Never
        BY <3>1, ScheduleAssumption DEF Times
      <3> QED
        BY <2>2, <3>1, <3>2, RowSet DEF Resume, Typed, Kept
    <2>3. CASE Redefine
      <3>1. PICK kind \in Kinds :
               row' = [row EXCEPT !.kind = kind, !.at = now + 1, !.enabled = TRUE,
                                  !.next = NextRun(kind, now + 1, now)]
        BY <2>3 DEF Redefine
      <3>2. kind \in {"once", "every"} /\ now + 1 \in Times
        <4>1. now < MaxTime /\ now \in 0 .. MaxTime
          BY <2>3 DEF Redefine, Typed, Kept
        <4> QED
          BY <4>1, ScheduleAssumption DEF Times
      <3>3. NextRun(kind, now + 1, now) \in Times /\ NextRun(kind, now + 1, now) # Never
        BY <3>2, NextRunType, ScheduleAssumption DEF Typed, Kept, Times
      <3> QED
        BY <3>1, <3>2, <3>3 DEF Typed, Kept, Rows
    <2>4. CASE Delete
      BY <2>4 DEF Delete, Typed, Kept, Rows
    <2> QED
      BY <2>1, <2>2, <2>3, <2>4
  <1> QED
    BY <1>1, <1>2, <1>3, <1>4 DEF Typed, Kept
-----------------------------------------------------------------------------
(* Claims in flight.                                                       *)

Holds(s) == pc[s] \in {"start", "revert"}

\* Nobody looks ahead: what was seen as due, claimed or started is due.
InTime ==
    /\ \A s \in Schedulers :
          /\ pc[s] = "claim" => seen[s].next \in Nat /\ seen[s].next <= tick[s] /\ tick[s] <= now
          /\ Holds(s) => claim[s].due <= tick[s] /\ tick[s] <= now /\ claim[s].change <= changes
    /\ \A o \in started : o.due <= now /\ o.change <= changes

\* A claim made since the last change of the schedule, and such a start.
Mine(s)   == Holds(s) /\ claim[s].change = changes
Recent(o) == o \in started /\ o.change = changes

\* Where the interval of a claim ends.
End(s) == tick[s] + Interval

\* No occurrence is in two hands, or started and still in a hand.
Apart ==
    /\ ~twice
    /\ \A s, u \in Schedulers : s # u /\ Holds(s) /\ Holds(u) => claim[s] # claim[u]
    /\ \A s \in Schedulers : Holds(s) => claim[s] \notin started

\* What is due or claimed since the last change is later than that change, and who
\* saw something that late saw the schedule of today.
Since(b) ==
    /\ row.next # Never => row.next >= b
    /\ \A s \in Schedulers : Mine(s) => claim[s].due >= b /\ seen[s].kind = row.kind
    /\ \A s \in Schedulers :
          pc[s] = "claim" /\ seen[s].next >= b => seen[s].kind = row.kind

\* A one-shot schedule is due, in one hand, or started.
OneShot ==
    /\ \A s \in Schedulers : Mine(s) =>
          /\ row.next = Never
          /\ \A u \in Schedulers : Mine(u) => u = s
          /\ \A o \in started : ~Recent(o)
    /\ \A o \in started : Recent(o) => row.next = Never

\* The claims of a recurring schedule are disjoint intervals before next_run_at.
Recurring ==
    /\ \A s \in Schedulers : Mine(s) => row.next # Never /\ End(s) <= row.next
    /\ \A s, u \in Schedulers : s # u /\ Mine(s) /\ Mine(u) =>
          End(s) <= claim[u].due \/ End(u) <= claim[s].due
    /\ \A o \in started : Recent(o) =>
          /\ row.next # Never /\ o.due < row.next
          /\ \A s \in Schedulers : Mine(s) => o.due < claim[s].due \/ End(s) <= o.due

ClaimInv ==
    /\ Apart
    /\ \E b \in Nat : Since(b)
    /\ row.kind = "once" => OneShot
    /\ row.kind = "every" => Recurring

Undisturbed == ~late /\ ~stale /\ ~crossed

SchedulerInv == Typed /\ InTime /\ (Undisturbed => ClaimInv)

LEMMA Numbers ==
    ASSUME Typed
    PROVE  /\ row.kind \in {"once", "every"} /\ now \in Nat /\ changes \in Nat /\ Interval \in Nat \ {0}
           /\ row.next \in Nat \cup {Never} /\ Never \notin Nat
           /\ \A s \in Schedulers : /\ tick[s] \in Nat /\ claim[s].due \in Nat /\ claim[s].change \in Nat
                                    /\ seen[s].kind \in {"once", "every"}
                                    /\ seen[s].next \in Nat \cup {Never}
           /\ \A o \in started : o.due \in Nat /\ o.change \in Nat
  <1>1. Times \subseteq Nat
    BY ScheduleAssumption DEF Times
  <1>2. row \in Rows /\ now \in Nat /\ changes \in Nat
    BY ScheduleAssumption DEF Typed, Kept
  <1>3. \A s \in Schedulers : seen[s] \in Rows /\ tick[s] \in Nat /\ claim[s] \in Occurrences
    <2>1. \A s \in Schedulers : seen[s] \in Rows /\ tick[s] \in 0 .. MaxTime /\ claim[s] \in Occurrences
      BY Zenon DEF Typed, InHand, Actors, Armed
    <2>2. \A t \in 0 .. MaxTime : t \in Nat
      BY ScheduleAssumption
    <2> QED
      BY <2>1, <2>2, Zenon
  <1>4. \A o \in Occurrences : o.due \in Nat /\ o.change \in Nat
    <2>1. \A o \in Occurrences : o.due \in Times /\ o.change \in 0 .. MaxChanges
      BY Zenon DEF Occurrences
    <2>2. \A t \in 0 .. MaxChanges : t \in Nat
      BY ScheduleAssumption
    <2> QED
      BY <1>1, <2>1, <2>2, Zenon
  <1>5. \A r \in Rows : r.kind \in {"once", "every"} /\ r.next \in Nat \cup {Never}
    BY <1>1 DEF Rows
  <1>6. started \subseteq Occurrences
    BY DEF Typed, History
  <1> QED
    BY <1>2, <1>3, <1>4, <1>5, <1>6, ScheduleAssumption

LEMMA InitScheduler == Init => SchedulerInv
  <1> SUFFICES ASSUME Init PROVE SchedulerInv
    OBVIOUS
  <1>1. Typed
    BY InitTyped
  <1>2. \A s \in Schedulers : pc[s] = "idle"
    BY DEF Init
  <1>3. started = {} /\ ~twice
    BY DEF Init
  <1>4. InTime /\ Apart /\ OneShot /\ Recurring
    BY <1>2, <1>3 DEF InTime, Apart, OneShot, Recurring, Holds, Mine
  <1>5. Since(0)
    BY <1>1, <1>2, Numbers DEF Since, Holds, Mine
  <1> QED
    BY <1>1, <1>4, <1>5 DEF SchedulerInv, ClaimInv

\* Only s has moved, nobody else.
Alone(s) ==
    \A u \in Schedulers \ {s} :
        pc'[u] = pc[u] /\ seen'[u] = seen[u] /\ tick'[u] = tick[u] /\ claim'[u] = claim[u]

LEMMA IdleAlone ==
    ASSUME InHand, NEW s \in Schedulers, Idle(s)
    PROVE  Alone(s) /\ pc'[s] = "idle"
  BY DEF InHand, Idle, Go, Alone, Actors

LEMMA GoAlone ==
    ASSUME InHand, NEW s \in Schedulers, NEW there, Go(s, there), Hold
    PROVE  /\ Alone(s) /\ pc'[s] = there /\ seen'[s] = seen[s] /\ tick'[s] = tick[s]
           /\ claim'[s] = claim[s]
  BY DEF InHand, Go, Hold, Alone, Actors

\* A scheduler that lets go of its claim, or holds it on, disturbs nobody.
Easy(u) ==
    \/ pc'[u] \notin {"claim", "start", "revert"}
    \/ /\ pc'[u] = pc[u] \/ (Holds(u) /\ Holds(u)')
       /\ seen'[u] = seen[u] /\ tick'[u] = tick[u] /\ claim'[u] = claim[u]

LEMMA LetGo ==
    ASSUME Typed, InTime, \A u \in Schedulers : Easy(u),
           UNCHANGED <<row, changes, started, twice>>, now' \in Nat, now <= now'
    PROVE  InTime' /\ (ClaimInv => ClaimInv')
  <1>0. \A u \in Schedulers :
           Holds(u)' => Holds(u) /\ claim'[u] = claim[u] /\ seen'[u] = seen[u] /\ tick'[u] = tick[u]
    BY DEF Holds, Easy
  <1>1. \A u \in Schedulers : pc'[u] = "claim" => pc[u] = "claim" /\ seen'[u] = seen[u] /\ tick'[u] = tick[u]
    BY DEF Holds, Easy
  <1>2. InTime'
    BY <1>0, <1>1, Numbers DEF InTime
  <1>3. ASSUME ClaimInv PROVE ClaimInv'
    <2>1. \A u \in Schedulers : Mine(u)' => Mine(u)
      BY <1>0 DEF Mine
    <2>2. Apart'
      BY <1>0, <1>3 DEF Apart, ClaimInv
    <2>3. \E b \in Nat : Since(b)'
      <3>1. PICK b \in Nat : Since(b)
        BY <1>3 DEF ClaimInv
      <3>2. Since(b)'
        BY <1>0, <1>1, <2>1, <3>1 DEF Since, Mine
      <3> QED
        BY <3>2
    <2>4. row.kind = "once" => OneShot'
      BY <1>3, <2>1 DEF OneShot, ClaimInv, Recent
    <2>5. row.kind = "every" => Recurring'
      BY <1>0, <1>3, <2>1 DEF Recurring, ClaimInv, Recent, Mine, End
    <2> QED
      BY <2>2, <2>3, <2>4, <2>5 DEF ClaimInv
  <1> QED
    BY <1>2, <1>3

\* The effect of a claim: what is due becomes the scheduler's, the row moves on.
LEMMA ClaimEffect ==
    ASSUME Typed, InTime, NEW s \in Schedulers, Claim(s), ClaimMatches(s)
    PROVE  /\ pc[s] = "claim" /\ row.next = seen[s].next /\ row.next \in Nat
           /\ row.next <= tick[s] /\ tick[s] <= now
           /\ Alone(s) /\ pc'[s] = "start" /\ seen'[s] = seen[s] /\ tick'[s] = tick[s]
           /\ claim'[s].change = changes /\ claim'[s].due = row.next
           /\ row'.kind = row.kind
           /\ seen[s].kind = "once" => row'.next = Never
           /\ seen[s].kind = "every" => row'.next = tick[s] + Interval
           /\ UNCHANGED <<now, changes, started, twice>>
  <1>1. pc[s] = "claim" /\ row.next = seen[s].next
    BY DEF Claim, ClaimMatches
  <1>2. row.next \in Nat /\ row.next <= tick[s] /\ tick[s] <= now
    BY <1>1, Numbers DEF InTime
  <1>3. /\ row' = [row EXCEPT !.next = Claimed(s).next, !.enabled = Claimed(s).enabled]
        /\ claim' = [claim EXCEPT ![s] = [change |-> changes, due |-> row.next]]
        /\ pc' = [pc EXCEPT ![s] = "start"] /\ UNCHANGED <<seen, tick>>
        /\ UNCHANGED <<now, changes, started, twice>>
    BY DEF Claim, Go
  <1>4. /\ Alone(s) /\ pc'[s] = "start" /\ seen'[s] = seen[s] /\ tick'[s] = tick[s]
        /\ claim'[s] = [change |-> changes, due |-> row.next]
    BY <1>3 DEF Typed, InHand, Alone, Actors
  <1>5. row'.kind = row.kind /\ row'.next = Claimed(s).next
    BY <1>3 DEF Typed, Kept, Rows
  <1>6. /\ seen[s].kind = "once" => Claimed(s).next = Never
        /\ seen[s].kind = "every" => Claimed(s).next = tick[s] + Interval
    BY DEF Claimed, NextRun
  <1> QED
    BY <1>1, <1>2, <1>3, <1>4, <1>5, <1>6

LEMMA ClaimKeeps ==
    ASSUME Typed, InTime, NEW s \in Schedulers, Claim(s), ClaimMatches(s)
    PROVE  InTime' /\ (ClaimInv => ClaimInv')
  <1> DEFINE d == row.next
  <1>1. /\ pc[s] = "claim" /\ d = seen[s].next /\ d \in Nat /\ d <= tick[s] /\ tick[s] <= now
        /\ Alone(s) /\ pc'[s] = "start" /\ seen'[s] = seen[s] /\ tick'[s] = tick[s]
        /\ claim'[s].change = changes /\ claim'[s].due = d
        /\ row'.kind = row.kind
        /\ UNCHANGED <<now, changes, started, twice>>
    BY ClaimEffect
  <1>2. /\ seen[s].kind = "once" => row'.next = Never
        /\ seen[s].kind = "every" => row'.next = tick[s] + Interval
    BY ClaimEffect
  <1>3. /\ \A u \in Schedulers \ {s} : /\ (Holds(u)' <=> Holds(u))
                                       /\ (Mine(u)' <=> Mine(u))
                                       /\ End(u)' = End(u)
        /\ ~Holds(s) /\ Mine(s)' /\ End(s)' = tick[s] + Interval
        /\ \A o \in started : Recent(o)' <=> Recent(o)
    BY <1>1 DEF Holds, Mine, Alone, End, Recent
  <1>n. /\ Interval \in Nat \ {0} /\ Never \notin Nat /\ tick[s] \in Nat
        /\ \A u \in Schedulers : tick[u] \in Nat /\ claim[u].due \in Nat
        /\ seen[s].kind \in {"once", "every"} /\ row.kind \in {"once", "every"}
        /\ \A o \in started : o.due \in Nat
    BY Numbers
  <1> HIDE DEF d
  <1>4. InTime'
    BY <1>1, <1>3, Numbers DEF InTime, Alone, Holds
  <1>5. ASSUME ClaimInv PROVE ClaimInv'
    <2>1. PICK b \in Nat : Since(b)
      BY <1>5 DEF ClaimInv
    <2>2. d >= b /\ seen[s].kind = row.kind
      BY <1>1, <1>n, <2>1 DEF Since, d
    <2>3. CASE row.kind = "once"
      <3>1. \A u \in Schedulers : ~Mine(u)
        BY <1>1, <1>5, <1>n, <2>3 DEF ClaimInv, OneShot, d
      <3>2. \A o \in started : ~Recent(o)
        BY <1>1, <1>5, <1>n, <2>3 DEF ClaimInv, OneShot, d
      <3>3. row'.next = Never
        BY <1>2, <2>2, <2>3
      <3>4. OneShot'
        BY <1>1, <1>3, <3>1, <3>2, <3>3 DEF OneShot
      <3>5. Since(b)'
        BY <1>1, <1>3, <2>1, <2>2, <3>1, <3>3 DEF Since, Alone
      <3>6. Apart'
        <4>1. \A u \in Schedulers \ {s} : Holds(u) => claim'[u] # claim'[s]
          BY <1>1, <3>1 DEF Mine, Alone
        <4>2. claim'[s] \notin started
          BY <1>1, <3>2 DEF Recent
        <4> QED
          BY <1>1, <1>3, <1>5, <4>1, <4>2 DEF ClaimInv, Apart, Alone
      <3> QED
        BY <1>1, <2>3, <3>4, <3>5, <3>6 DEF ClaimInv
    <2>4. CASE row.kind = "every"
      <3>0. Recurring
        BY <1>5, <2>4 DEF ClaimInv
      <3>1. \A u \in Schedulers : Mine(u) => End(u) <= d
        BY <3>0 DEF Recurring, d
      <3>2. \A o \in started : Recent(o) => o.due < d
        BY <3>0 DEF Recurring, d
      <3>3. row'.next = tick[s] + Interval
        BY <1>2, <2>2, <2>4
      <3>4. \A u \in Schedulers : Mine(u) => claim[u].due < End(u)
        BY <1>n DEF InTime, Mine, Holds, End
      <3>5. Recurring'
        <4>1. \A u \in Schedulers : Mine(u)' => row'.next # Never /\ End(u)' <= row'.next
          BY <1>1, <1>3, <1>n, <3>1, <3>3 DEF End
        <4>2. \A u, v \in Schedulers : u # v /\ Mine(u)' /\ Mine(v)' =>
                 End(u)' <= claim'[v].due \/ End(v)' <= claim'[u].due
          <5>1. \A u \in Schedulers : u # s /\ Mine(u)' => End(u)' <= claim'[s].due
            BY <1>1, <1>3, <3>1
          <5>2. \A u, v \in Schedulers : u # v /\ u # s /\ v # s /\ Mine(u)' /\ Mine(v)' =>
                   End(u)' <= claim'[v].due \/ End(v)' <= claim'[u].due
            BY <1>1, <1>3, <3>0 DEF Recurring, Alone
          <5> QED
            BY <5>1, <5>2, Zenon
        <4>3. ASSUME NEW o \in started, Recent(o)
              PROVE  /\ row'.next # Never /\ o.due < row'.next
                     /\ \A u \in Schedulers : Mine(u)' => o.due < claim'[u].due \/ End(u)' <= o.due
          <5>1. o.due < d /\ row'.next # Never /\ o.due < row'.next
            BY <1>1, <1>n, <3>2, <3>3, <4>3
          <5>2. \A u \in Schedulers : u # s /\ Mine(u)' => o.due < claim'[u].due \/ End(u)' <= o.due
            BY <1>1, <1>3, <3>0, <4>3 DEF Recurring, Alone
          <5>3. o.due < claim'[s].due
            BY <1>1, <5>1
          <5> QED
            BY <5>1, <5>2, <5>3, Zenon
        <4> QED
          BY <1>1, <1>3, <4>1, <4>2, <4>3 DEF Recurring
      <3>6. Since(b)'
        <4>1. row'.next >= b
          BY <1>1, <1>n, <2>2, <3>3
        <4> QED
          BY <1>1, <1>3, <2>1, <2>2, <4>1 DEF Since, Alone
      <3>7. Apart'
        <4>1. ASSUME NEW u \in Schedulers \ {s}, Holds(u) PROVE claim'[u] # claim'[s]
          <5>1. CASE Mine(u)
            <6>1. claim[u].due < d
              BY <1>1, <1>n, <3>1, <3>4, <5>1 DEF End
            <6> QED
              BY <1>1, <1>n, <6>1 DEF Alone
          <5>2. CASE ~Mine(u)
            BY <1>1, <4>1, <5>2 DEF Mine, Alone
          <5> QED
            BY <5>1, <5>2
        <4>2. claim'[s] \notin started
          BY <1>1, <1>n, <3>2 DEF Recent
        <4> QED
          BY <1>1, <1>3, <1>5, <4>1, <4>2 DEF ClaimInv, Apart, Alone
      <3> QED
        BY <1>1, <2>4, <3>5, <3>6, <3>7 DEF ClaimInv
    <2> QED
      BY <1>n, <2>3, <2>4
  <1> QED
    BY <1>4, <1>5

-----------------------------------------------------------------------------
(* A claim that is put back.                                               *)

LEMMA RevertKeeps ==
    ASSUME Typed, InTime, NEW s \in Schedulers, Revert(s), StillMine(s), claim[s].change = changes
    PROVE  InTime' /\ (ClaimInv => ClaimInv')
  <1> DEFINE d == claim[s].due
  <1>1. /\ pc[s] = "revert" /\ Holds(s) /\ Mine(s)
        /\ row' = [row EXCEPT !.next = d, !.enabled = TRUE]
        /\ Idle(s) /\ UNCHANGED <<now, changes, started, twice>>
    BY DEF Revert, Holds, Mine
  <1>2. Alone(s) /\ pc'[s] = "idle"
    BY <1>1, IdleAlone DEF Typed
  <1>3. row'.next = d /\ row'.kind = row.kind
    BY <1>1 DEF Typed, Kept, Rows
  <1>4. /\ \A u \in Schedulers \ {s} : /\ (Holds(u)' <=> Holds(u))
                                       /\ (Mine(u)' <=> Mine(u))
                                       /\ End(u)' = End(u)
        /\ ~Holds(s)' /\ ~Mine(s)' /\ pc'[s] # "claim"
        /\ \A o \in started : Recent(o)' <=> Recent(o)
    BY <1>1, <1>2 DEF Holds, Mine, Alone, End, Recent
  <1>n. /\ Interval \in Nat \ {0} /\ Never \notin Nat /\ d \in Nat /\ now \in Nat
        /\ \A u \in Schedulers : tick[u] \in Nat /\ claim[u].due \in Nat /\ seen[u].kind \in {"once", "every"}
        /\ row.kind \in {"once", "every"} /\ row.next \in Nat \cup {Never}
        /\ \A o \in started : o.due \in Nat
    BY Numbers
  <1>5. InTime'
    BY <1>1, <1>2, <1>4 DEF InTime, Alone
  <1>6. ASSUME ClaimInv PROVE ClaimInv'
    <2>1. PICK b \in Nat : Since(b)
      BY <1>6 DEF ClaimInv
    <2>2. Since(b)'
      <3>1. d >= b
        BY <1>1, <2>1 DEF Since
      <3> QED
        BY <1>1, <1>2, <1>3, <1>4, <2>1, <3>1 DEF Since, Alone
    <2>3. Apart'
      BY <1>1, <1>2, <1>4, <1>6 DEF ClaimInv, Apart, Alone
    <2>4. row.kind = "once" => OneShot'
      BY <1>1, <1>2, <1>4, <1>6 DEF ClaimInv, OneShot, Alone
    <2>5. ASSUME row.kind = "every" PROVE Recurring'
      <3>1. Recurring
        BY <1>6, <2>5 DEF ClaimInv
      <3>2. row.next = End(s)
        <4>1. seen[s].kind = "every"
          BY <1>1, <2>1, <2>5 DEF Since
        <4> QED
          BY <4>1 DEF StillMine, NextRun, End
      <3>3. \A u \in Schedulers : Mine(u) => claim[u].due < End(u)
        BY <1>n DEF InTime, Mine, Holds, End
      <3>4. ASSUME NEW u \in Schedulers \ {s}, Mine(u) PROVE End(u) <= d
        <4>1. End(u) <= row.next /\ claim[u].due < End(u)
          BY <3>1, <3>3, <3>4 DEF Recurring
        <4>2. End(s) <= claim[u].due \/ End(u) <= d
          BY <1>1, <3>1, <3>4 DEF Recurring
        <4> QED
          BY <1>n, <3>2, <4>1, <4>2 DEF End
      <3>5. ASSUME NEW o \in started, Recent(o) PROVE o.due < d
        <4>1. o.due < row.next /\ (o.due < d \/ End(s) <= o.due)
          BY <1>1, <3>1, <3>5 DEF Recurring
        <4> QED
          BY <1>n, <3>2, <4>1 DEF End
      <3>6. \A u \in Schedulers : Mine(u)' => row'.next # Never /\ End(u)' <= row'.next
        BY <1>2, <1>3, <1>4, <1>n, <3>4
      <3>7. \A u, v \in Schedulers : u # v /\ Mine(u)' /\ Mine(v)' =>
               End(u)' <= claim'[v].due \/ End(v)' <= claim'[u].due
        BY <1>2, <1>4, <3>1 DEF Recurring, Alone
      <3>8. \A o \in started : Recent(o) =>
               /\ row'.next # Never /\ o.due < row'.next
               /\ \A u \in Schedulers : Mine(u)' => o.due < claim'[u].due \/ End(u)' <= o.due
        BY <1>2, <1>3, <1>4, <1>n, <3>1, <3>5 DEF Recurring, Alone
      <3> QED
        BY <1>1, <1>4, <3>6, <3>7, <3>8 DEF Recurring
    <2> QED
      BY <1>3, <2>2, <2>3, <2>4, <2>5 DEF ClaimInv
  <1> QED
    BY <1>5, <1>6

-----------------------------------------------------------------------------
(* A start.                                                                *)

LEMMA StartKeeps ==
    ASSUME Typed, InTime, NEW s \in Schedulers, Start(s), ~late'
    PROVE  InTime' /\ (ClaimInv => ClaimInv')
  <1>0. PICK c : c = claim[s]
    OBVIOUS
  <1>1. /\ pc[s] = "start" /\ Holds(s)
        /\ started' = started \cup {c} /\ twice' = (twice \/ c \in started)
        /\ Idle(s) /\ UNCHANGED <<row, now, changes>>
    BY <1>0 DEF Start, Holds
  <1>2. Alone(s) /\ pc'[s] = "idle"
    BY <1>1, IdleAlone DEF Typed
  <1>3. /\ \A u \in Schedulers \ {s} : /\ (Holds(u)' <=> Holds(u))
                                       /\ (Mine(u)' <=> Mine(u))
                                       /\ End(u)' = End(u)
        /\ ~Holds(s)' /\ ~Mine(s)' /\ pc'[s] # "claim"
        /\ \A o \in started : Recent(o)' <=> Recent(o)
        /\ Recent(c)' <=> Mine(s)
    BY <1>0, <1>1, <1>2 DEF Holds, Mine, Alone, End, Recent
  <1>n. /\ Interval \in Nat \ {0} /\ Never \notin Nat /\ now \in Nat
        /\ \A u \in Schedulers : tick[u] \in Nat /\ claim[u].due \in Nat
        /\ row.kind \in {"once", "every"} /\ row.next \in Nat \cup {Never}
    BY Numbers
  <1>4. InTime'
    <2>1. c.due <= now /\ c.change <= changes
      BY <1>0, <1>1, <1>n DEF InTime
    <2> QED
      BY <1>1, <1>2, <1>3, <2>1 DEF InTime, Alone
  <1>5. ASSUME ClaimInv PROVE ClaimInv'
    <2>1. Apart'
      BY <1>0, <1>1, <1>2, <1>3, <1>5 DEF ClaimInv, Apart, Alone
    <2>2. \E b \in Nat : Since(b)'
      <3>1. PICK b \in Nat : Since(b)
        BY <1>5 DEF ClaimInv
      <3>2. Since(b)'
        BY <1>1, <1>2, <1>3, <3>1 DEF Since, Alone
      <3> QED
        BY <3>2
    <2>3. row.kind = "once" => OneShot'
      BY <1>0, <1>1, <1>2, <1>3, <1>5 DEF ClaimInv, OneShot, Alone, Mine
    <2>4. ASSUME row.kind = "every" PROVE Recurring'
      <3>1. Recurring
        BY <1>5, <2>4 DEF ClaimInv
      <3>2. \A u, v \in Schedulers : u # v /\ Mine(u)' /\ Mine(v)' =>
               End(u)' <= claim'[v].due \/ End(v)' <= claim'[u].due
        BY <1>2, <1>3, <3>1 DEF Recurring, Alone
      <3>3. \A u \in Schedulers : Mine(u)' => row.next # Never /\ End(u)' <= row.next
        BY <1>3, <3>1 DEF Recurring
      <3>4. \A o \in started : Recent(o) =>
               /\ row.next # Never /\ o.due < row.next
               /\ \A u \in Schedulers : Mine(u)' => o.due < claim'[u].due \/ End(u)' <= o.due
        BY <1>2, <1>3, <3>1 DEF Recurring, Alone
      <3>5. ASSUME Mine(s)
            PROVE  /\ row.next # Never /\ claim[s].due < row.next
                   /\ \A u \in Schedulers : Mine(u)' => claim[s].due < claim'[u].due \/ End(u)' <= claim[s].due
        <4>1. claim[s].due < End(s) /\ End(s) <= row.next /\ row.next # Never
          BY <1>1, <1>n, <3>1, <3>5 DEF Recurring, InTime, End
        <4>2. ASSUME NEW u \in Schedulers \ {s}, Mine(u)
              PROVE  claim[s].due < claim[u].due \/ End(u) <= claim[s].due
          <5>1. End(s) <= claim[u].due \/ End(u) <= claim[s].due
            BY <3>1, <3>5, <4>2 DEF Recurring
          <5> QED
            BY <1>n, <4>1, <5>1 DEF End
        <4>3. claim[s].due < row.next
          BY <1>n, <4>1 DEF End
        <4> QED
          BY <1>2, <1>3, <4>1, <4>2, <4>3 DEF Alone
      <3> QED
        BY <1>0, <1>1, <1>3, <3>2, <3>3, <3>4, <3>5 DEF Recurring
    <2> QED
      BY <1>1, <2>1, <2>2, <2>3, <2>4 DEF ClaimInv
  <1> QED
    BY <1>4, <1>5

-----------------------------------------------------------------------------
(* A change of the schedule begins anew.                                   *)

LEMMA ChangeKeeps ==
    ASSUME Typed, InTime, changes' = changes + 1,
           UNCHANGED <<now, pc, seen, tick, claim, started, twice>>,
           row'.next # Never => row'.next \in Nat /\ row'.next > now
    PROVE  InTime' /\ (ClaimInv => ClaimInv')
  <1>n. /\ now \in Nat /\ changes \in Nat
        /\ \A u \in Schedulers : claim[u].change \in Nat /\ tick[u] \in Nat
        /\ \A o \in started : o.change \in Nat
    BY Numbers
  <1>1. \A s \in Schedulers : (Holds(s)' <=> Holds(s)) /\ ~Mine(s)'
    BY <1>n DEF InTime, Holds, Mine
  <1>2. \A o \in started : ~Recent(o)'
    BY <1>n DEF InTime, Recent
  <1>3. InTime'
    <2>1. \A x \in Nat : x <= changes => x <= changes'
      BY <1>n
    <2>2. \A s \in Schedulers :
             /\ pc'[s] = "claim" => seen'[s].next \in Nat /\ seen'[s].next <= tick'[s] /\ tick'[s] <= now'
             /\ Holds(s)' => claim'[s].due <= tick'[s] /\ tick'[s] <= now' /\ claim'[s].change <= changes'
      BY <1>1, <1>n, <2>1 DEF InTime
    <2>3. \A o \in started : o.due <= now /\ o.change <= changes'
      <3>1. \A o \in started : o.due <= now /\ o.change <= changes /\ o.change \in Nat
        BY <1>n DEF InTime
      <3> QED
        BY <2>1, <3>1
    <2> QED
      BY <2>2, <2>3 DEF InTime
  <1>4. ASSUME ClaimInv PROVE ClaimInv'
    <2>1. Apart' /\ OneShot' /\ Recurring'
      BY <1>1, <1>2, <1>4 DEF ClaimInv, Apart, OneShot, Recurring
    <2>2. Since(now + 1)'
      BY <1>1, <1>n DEF Since, InTime
    <2> QED
      BY <1>n, <2>1, <2>2 DEF ClaimInv
  <1> QED
    BY <1>3, <1>4

-----------------------------------------------------------------------------
(* Every step.                                                             *)

\* What a history that ends undisturbed has been before.
LEMMA Before == ASSUME History, Next, Undisturbed' PROVE Undisturbed
  <1>0. late \in BOOLEAN /\ stale \in BOOLEAN /\ crossed \in BOOLEAN
    BY DEF History
  <1>1. ASSUME NEW s \in Schedulers, Scan(s) \/ Claim(s) \/ Overlap(s) \/ Fail(s) \/ Crash(s)
        PROVE  UNCHANGED <<late, stale, crossed>>
    BY <1>1, Zenon DEF Scan, Claim, Overlap, Fail, Crash
  <1>2. ASSUME NEW s \in Schedulers, Start(s)
        PROVE  UNCHANGED <<stale, crossed>> /\ (late' = late \/ late' = TRUE)
    BY <1>2, Zenon DEF Start
  <1>3. ASSUME NEW s \in Schedulers, Revert(s)
        PROVE  /\ UNCHANGED <<late, stale>>
               /\ crossed' = (crossed \/ (StillMine(s) /\ claim[s].change # changes))
    BY <1>3, Zenon DEF Revert
  <1>4. ASSUME NEW e \in Editors, EditRead(e)
        PROVE  UNCHANGED <<late, stale, crossed>>
    BY <1>4, Zenon DEF EditRead
  <1>5. ASSUME NEW e \in Editors, EditSave(e)
        PROVE  UNCHANGED <<late, crossed>> /\ stale' = (stale \/ row' # row)
    BY <1>5, Zenon DEF EditSave
  <1>6. CASE Pause \/ Resume \/ Redefine \/ Delete \/ Clock \/ RunEnds \/ StartByHand
    <2>1. UNCHANGED <<late, stale, crossed>>
      BY <1>6, Zenon DEF Pause, Resume, Redefine, Delete, Clock, RunEnds, StartByHand
    <2> QED
      BY <2>1 DEF Undisturbed
  <1>7. ASSUME NEW s \in Schedulers, Fire(s) \/ Crash(s) PROVE Undisturbed
    BY <1>0, <1>1, <1>2, <1>3, <1>7 DEF Fire, Undisturbed
  <1>8. ASSUME NEW e \in Editors, EditRead(e) \/ EditSave(e) PROVE Undisturbed
    BY <1>0, <1>4, <1>5, <1>8 DEF Undisturbed
  <1> QED
    BY <1>6, <1>7, <1>8, Zenon DEF Next

LEMMA ScanStep ==
    ASSUME SchedulerInv, NEW s \in Schedulers, Scan(s)
    PROVE  Typed' /\ InTime' /\ (ClaimInv => ClaimInv')
  <1>1. /\ pc[s] = "idle" /\ row.next # Never /\ row.next <= now
        /\ seen' = [seen EXCEPT ![s] = row] /\ tick' = [tick EXCEPT ![s] = now]
        /\ pc' = [pc EXCEPT ![s] = "claim"]
        /\ UNCHANGED <<scheduleVars, claim, started, twice, stale, late, crossed, crashes>>
    BY DEF Scan, Due, Go
  <1>2. Typed
    BY DEF SchedulerInv
  <1>3. /\ \A u \in Schedulers \ {s} : pc'[u] = pc[u] /\ seen'[u] = seen[u] /\ tick'[u] = tick[u]
        /\ pc'[s] = "claim" /\ seen'[s] = row /\ tick'[s] = now
    BY <1>1, <1>2 DEF Typed, InHand, Actors
  <1>u. UNCHANGED <<row, now, changes, claim, started, twice>>
    BY <1>1 DEF scheduleVars
  <1>4. /\ \A u \in Schedulers : /\ (Holds(u)' <=> Holds(u))
                                /\ (Mine(u)' <=> Mine(u))
                                /\ (Holds(u) => u # s)
        /\ \A o \in started : Recent(o)' <=> Recent(o)
    BY <1>1, <1>3, <1>u DEF Holds, Mine, Recent
  <1>5. Typed'
    <2>1. InHand'
      BY <1>1, <1>2 DEF Typed, Kept, InHand, Places, Actors, Armed
    <2> QED
      BY <1>1, <1>2, <2>1 DEF Typed, Kept, History, scheduleVars
  <1>6. InTime'
    BY <1>1, <1>2, <1>3, <1>4, <1>u, Numbers DEF InTime, SchedulerInv
  <1>7. ASSUME ClaimInv PROVE ClaimInv'
    <2>1. Apart'
      BY <1>4, <1>u, <1>7 DEF ClaimInv, Apart
    <2>2. \E b \in Nat : Since(b)'
      <3>1. PICK b \in Nat : Since(b)
        BY <1>7 DEF ClaimInv
      <3>2. Since(b)'
        BY <1>3, <1>u, <1>4, <3>1 DEF Since
      <3> QED
        BY <3>2
    <2>3. row.kind = "once" => OneShot'
      BY <1>4, <1>u, <1>7 DEF ClaimInv, OneShot
    <2>4. row.kind = "every" => Recurring'
      <3>1. \A u \in Schedulers : Mine(u)' => Mine(u) /\ End(u)' = End(u)
        BY <1>3, <1>4 DEF Mine, End
      <3> QED
        BY <1>4, <1>u, <1>7, <3>1 DEF ClaimInv, Recurring
    <2> QED
      BY <1>4, <1>u, <2>1, <2>2, <2>3, <2>4 DEF ClaimInv
  <1> QED
    BY <1>5, <1>6, <1>7

\* The other steps of a scheduler, without those that cross a change.
LEMMA FireStep ==
    ASSUME SchedulerInv, NEW s \in Schedulers, Fire(s) \/ Crash(s)
    PROVE  Typed' /\ InTime' /\ (Undisturbed' /\ ClaimInv => ClaimInv')
  <1>0. Typed /\ Kept /\ InHand /\ History /\ InTime /\ s \in Actors /\ now \in Nat
    BY Numbers DEF SchedulerInv, Typed, Actors
  <1>1. CASE Scan(s)
    BY <1>1, ScanStep
  <1>2. CASE Claim(s)
    <2>1. CASE ClaimMatches(s)
      <3>1. row.next # Never
        BY <1>0, <1>2, <2>1, ClaimEffect, ScheduleAssumption
      <3> QED
        BY <1>0, <1>2, <2>1, <3>1, ClaimType, ClaimKeeps
    <2>2. CASE ~ClaimMatches(s)
      <3>1. Idle(s) /\ UNCHANGED row /\ UNCHANGED <<now, busy, started, twice, changes, stale, late, crossed, crashes>>
        BY <1>2, <2>2 DEF Claim
      <3>2. Typed'
        BY <1>0, <3>1, IdleType DEF Typed, Kept, History
      <3>3. InTime' /\ (ClaimInv => ClaimInv')
        BY <1>0, <3>1, IdleAlone, LetGo DEF Alone, Easy
      <3> QED
        BY <3>2, <3>3
    <2> QED
      BY <2>1, <2>2
  <1>3. CASE Start(s)
    <2>1. Typed'
      <3>1. InHand'
        <4>1. Idle(s) \/ (Go(s, "revert") /\ Hold)
          BY <1>3 DEF Start
        <4> QED
          BY <1>0, <4>1, IdleType, GoType DEF Places
      <3>2. Kept'
        BY <1>0, <1>3 DEF Start, Kept
      <3>3. History'
        <4>1. claim[s] \in Occurrences
          BY <1>0 DEF InHand
        <4> QED
          BY <1>0, <1>3, <4>1 DEF Start, History
      <3> QED
        BY <3>1, <3>2, <3>3 DEF Typed
    <2>2. CASE ~late'
      BY <1>0, <1>3, <2>1, <2>2, StartKeeps
    <2>3. CASE late'
      <3>1. InTime'
        <4>0. PICK c : c = claim[s]
          OBVIOUS
        <4>1. /\ Idle(s) \/ (Go(s, "revert") /\ Hold)
              /\ Holds(s) /\ started' = started \cup {c} /\ UNCHANGED <<now, changes>>
          BY <1>3, <4>0 DEF Start, Holds
        <4>2. /\ Alone(s)
              /\ \/ pc'[s] = "idle"
                 \/ pc'[s] = "revert" /\ tick'[s] = tick[s] /\ claim'[s] = claim[s]
          BY <1>0, <4>1, IdleAlone, GoAlone
        <4>3. c.due <= now /\ c.change <= changes
          BY <1>0, <4>0, <4>1, Numbers DEF InTime
        <4> QED
          BY <1>0, <4>1, <4>2, <4>3 DEF InTime, Alone, Holds
      <3> QED
        BY <2>1, <2>3, <3>1 DEF Undisturbed
    <2> QED
      BY <2>1, <2>2, <2>3
  <1>4. CASE Overlap(s) \/ Fail(s) \/ Crash(s)
    <2>1. /\ Idle(s) \/ (pc[s] = "start" /\ Go(s, "revert") /\ Hold)
          /\ UNCHANGED <<scheduleVars, started, twice, stale, late, crossed>>
          /\ crashes' \in 0 .. MaxCrashes
      <3>1. CASE Overlap(s) \/ Fail(s)
        BY <1>0, <3>1 DEF Overlap, Fail, Hold, History
      <3>2. CASE Crash(s)
        <4>1. crashes \in 0 .. MaxCrashes /\ crashes < MaxCrashes /\ crashes' = crashes + 1
          BY <1>0, <3>2 DEF Crash, History
        <4>2. crashes' \in 0 .. MaxCrashes
          BY <4>1, ScheduleAssumption
        <4> QED
          BY <3>2, <4>2 DEF Crash
      <3> QED
        BY <1>4, <3>1, <3>2
    <2>2. Typed'
      <3>1. InHand'
        BY <1>0, <2>1, IdleType, GoType DEF Places
      <3> QED
        BY <1>0, <2>1, <3>1 DEF Typed, Kept, History, scheduleVars
    <2>3. InTime' /\ (ClaimInv => ClaimInv')
      <3>1. UNCHANGED <<row, changes, started, twice, now>>
        BY <2>1 DEF scheduleVars
      <3>2. CASE Idle(s)
        BY <1>0, <3>1, <3>2, IdleAlone, LetGo DEF Alone, Easy
      <3>3. CASE pc[s] = "start" /\ Go(s, "revert") /\ Hold
        <4>1. /\ Alone(s) /\ Holds(s) /\ Holds(s)'
              /\ seen'[s] = seen[s] /\ tick'[s] = tick[s] /\ claim'[s] = claim[s]
          BY <1>0, <3>3, GoAlone DEF Holds
        <4> QED
          BY <1>0, <3>1, <4>1, LetGo DEF Alone, Easy
      <3> QED
        BY <2>1, <3>2, <3>3
    <2> QED
      BY <2>2, <2>3
  <1>5. CASE Revert(s)
    <2>1. Typed'
      BY <1>0, <1>5, RevertType
    <2>2. CASE ~StillMine(s)
      <3>1. Idle(s) /\ UNCHANGED <<row, changes, started, twice, now>>
        BY <1>5, <2>2 DEF Revert
      <3>2. InTime' /\ (ClaimInv => ClaimInv')
        BY <1>0, <3>1, IdleAlone, LetGo DEF Alone, Easy
      <3> QED
        BY <2>1, <3>2
    <2>3. CASE StillMine(s) /\ claim[s].change = changes
      BY <1>0, <1>5, <2>1, <2>3, RevertKeeps
    <2>4. CASE StillMine(s) /\ claim[s].change # changes
      <3>1. crossed' /\ Idle(s) /\ UNCHANGED <<now, changes, started>>
        BY <1>5, <2>4 DEF Revert
      <3>2. Alone(s) /\ pc'[s] = "idle"
        BY <1>0, <3>1, IdleAlone
      <3>3. InTime'
        BY <1>0, <3>1, <3>2 DEF InTime, Alone, Holds
      <3> QED
        BY <2>1, <3>1, <3>3 DEF Undisturbed
    <2> QED
      BY <2>2, <2>3, <2>4
  <1> QED
    BY <1>1, <1>2, <1>3, <1>4, <1>5 DEF Fire

LEMMA UserStep ==
    ASSUME SchedulerInv, Pause \/ Resume \/ Redefine \/ Delete
    PROVE  Typed' /\ InTime' /\ (ClaimInv => ClaimInv')
  <1>0. Typed /\ InTime /\ row \in Rows /\ now \in Nat /\ Interval \in Nat \ {0}
    BY Numbers DEF SchedulerInv, Typed, Kept
  <1>1. Typed'
    BY <1>0, UserTyped
  <1>2. /\ UNCHANGED <<now, pc, seen, tick, claim, started, twice>>
        /\ changes' = changes + 1
    BY Zenon DEF Pause, Resume, Redefine, Delete, Changed
  <1>3. row'.next # Never => row'.next \in Nat /\ row'.next > now
    <2>1. CASE Pause \/ Delete
      BY <1>0, <2>1 DEF Pause, Delete, Rows
    <2>2. CASE Resume
      <3>1. row'.next = NextRun(row.kind, row.at, now) /\ (row.kind = "once" => row.at > now)
        BY <1>0, <2>2 DEF Resume, Rows
      <3>2. row.at \in Nat
        BY <1>0, ScheduleAssumption DEF Rows, Times
      <3> QED
        BY <1>0, <3>1, <3>2 DEF NextRun
    <2>3. CASE Redefine
      <3>1. PICK kind \in Kinds : row'.next = NextRun(kind, now + 1, now)
        BY <1>0, <2>3 DEF Redefine, Rows
      <3> QED
        BY <1>0, <3>1 DEF NextRun
    <2> QED
      BY <2>1, <2>2, <2>3
  <1> QED
    BY <1>0, <1>1, <1>2, <1>3, ChangeKeeps

LEMMA EditStep ==
    ASSUME SchedulerInv, NEW e \in Editors, EditRead(e) \/ EditSave(e)
    PROVE  Typed' /\ InTime' /\ (Undisturbed' /\ ClaimInv => ClaimInv')
  <1>0. Typed /\ Kept /\ InHand /\ History /\ InTime /\ e \in Actors /\ now \in Nat
    BY Numbers DEF SchedulerInv, Typed, Actors
  <1>1. CASE EditRead(e)
    <2>1. /\ seen' = [seen EXCEPT ![e] = row] /\ pc' = [pc EXCEPT ![e] = "save"]
          /\ UNCHANGED <<row, now, busy, changes, tick, claim, started, twice, stale, late, crossed, crashes>>
      BY <1>1 DEF EditRead, Go, scheduleVars
    <2>2. Alone(e) /\ pc'[e] = "save"
      BY <1>0, <2>1 DEF InHand, Alone, Actors
    <2>3. Typed'
      <3>1. InHand'
        BY <1>0, <2>1 DEF Kept, InHand, Places, Armed
      <3> QED
        BY <1>0, <2>1, <3>1 DEF Typed, Kept, History
    <2> QED
      BY <1>0, <2>1, <2>2, <2>3, LetGo DEF Alone, Easy
  <1>2. CASE EditSave(e)
    <2>1. /\ row' = IF row.deleted THEN row ELSE seen[e]
          /\ seen' = [seen EXCEPT ![e] = NoRow] /\ pc' = [pc EXCEPT ![e] = "done"]
          /\ UNCHANGED <<now, busy, changes, tick, claim, started, twice, late, crossed, crashes>>
      BY <1>2 DEF EditSave, Go
    <2>2. stale' = (stale \/ row' # row)
      BY <1>2 DEF EditSave
    <2>3. Alone(e) /\ pc'[e] = "done"
      BY <1>0, <2>1 DEF InHand, Alone, Actors
    <2>4. Typed'
      <3>1. InHand'
        BY <1>0, <2>1, NoRowType DEF InHand, Places
      <3>2. seen[e] \in Armed
        BY <1>0 DEF InHand
      <3>3. row' \in Rows /\ (row'.next # Never <=> row'.enabled)
        BY <1>0, <2>1, <3>2, Zenon DEF Kept, Armed
      <3>4. stale' \in BOOLEAN
        BY <2>2
      <3> QED
        BY <1>0, <2>1, <3>1, <3>3, <3>4, Zenon DEF Typed, Kept, History
    <2>5. InTime'
      BY <1>0, <2>1, <2>3 DEF InTime, Alone, Holds
    <2>6. CASE row' = row
      BY <1>0, <2>1, <2>3, <2>4, <2>6, LetGo DEF Alone, Easy
    <2>7. CASE row' # row
      BY <2>2, <2>4, <2>5, <2>7 DEF Undisturbed
    <2> QED
      BY <2>6, <2>7
  <1> QED
    BY <1>1, <1>2

LEMMA OutsideStep ==
    ASSUME SchedulerInv, Clock \/ RunEnds \/ StartByHand \/ UNCHANGED vars
    PROVE  Typed' /\ InTime' /\ (ClaimInv => ClaimInv')
  <1>0. Typed /\ Kept /\ InHand /\ History /\ InTime /\ now \in Nat
    BY Numbers DEF SchedulerInv, Typed
  <1>1. /\ UNCHANGED <<row, changes, pc, seen, tick, claim, started, twice, stale, late, crossed, crashes>>
        /\ busy' \in BOOLEAN
        /\ now' = now \/ (now < MaxTime /\ now' = now + 1)
    BY <1>0, Zenon DEF Clock, RunEnds, StartByHand, vars, scheduleVars, Kept
  <1>2. now' \in 0 .. MaxTime /\ now' \in Nat /\ now <= now'
    BY <1>0, <1>1, ScheduleAssumption DEF Kept
  <1>3. Typed'
    BY <1>0, <1>1, <1>2, Zenon DEF Typed, Kept, InHand, History
  <1>4. \A u \in Schedulers : Easy(u)
    BY <1>1 DEF Easy
  <1> QED
    BY <1>0, <1>1, <1>2, <1>3, <1>4, LetGo

-----------------------------------------------------------------------------
(* The theorems.                                                           *)

LEMMA SchedulerStep == SchedulerInv /\ [Next]_vars => SchedulerInv'
  <1> SUFFICES ASSUME SchedulerInv, [Next]_vars PROVE SchedulerInv'
    OBVIOUS
  <1>1. Typed' /\ InTime' /\ (Undisturbed' /\ ClaimInv => ClaimInv')
    BY FireStep, UserStep, EditStep, OutsideStep, Zenon DEF Next
  <1>2. Undisturbed' => Undisturbed
    <2>1. CASE Next
      BY <2>1, Before DEF SchedulerInv, Typed
    <2>2. CASE UNCHANGED vars
      BY <2>2 DEF Undisturbed, vars
    <2> QED
      BY <2>1, <2>2
  <1> QED
    BY <1>1, <1>2, Zenon DEF SchedulerInv

\* The variables keep their types, and a row is armed exactly when it is enabled.
THEOREM ScheduleTyping == Spec => []TypeOK
  <1>1. SchedulerInv => TypeOK
    BY TypedIsTypeOK DEF SchedulerInv
  <1> QED
    BY <1>1, InitScheduler, SchedulerStep, PTL DEF Spec

\* An occurrence starts one run at most and none before it is due, whichever
\* scheduler claims it and whichever starts fail, until a start fails after its job
\* was published, an edit saves an old schedule, or a claim is put back into a
\* schedule that was changed since.
THEOREM OccurrencesStartOnce == Spec => []OnceEach
  <1>1. SchedulerInv => OnceEach
    BY Zenon DEF SchedulerInv, InTime, ClaimInv, Apart, Undisturbed, OnceEach
  <1> QED
    BY <1>1, InitScheduler, SchedulerStep, PTL DEF Spec

-----------------------------------------------------------------------------
(* The Task row (TaskRow), for any number of runs, requests, edits, recovery *)
(* passes and crashes.  What has come to its end stays so, and every status *)
(* that is written, held or about to be written is that of a run, unless it *)
(* claims nothing: in the row, in the copies of the row, in the runs found, *)
(* in what a worker reports.                                                *)

Statuses == {"none", "pending", "in_progress"} \cup Active \cup Terminal
RowShapes == [status : Statuses, pid : Runs \cup {NoRun}, deleted : BOOLEAN]
Findings == [run : Runs \cup {NoRun}, status : Statuses]
Doings == {"idle", "create", "check", "move", "publish", "fail", "restore", "attach", "pid",
           "sent", "prerun", "claim", "guard", "refuse", "mark", "body", "post", "lookup",
           "rescue", "read", "find", "request", "force", "save", "delete", "write", "done"}

\* A status that claims an end has a run that has come to it, until the backstop
\* of Celery has guessed wrong.
Sound(status) ==
    ~guessed /\ status \in {"completed", "failed"} => \E r \in Runs : run[r] = status

RowKinds ==
    /\ task \in RowShapes /\ copy \in [Processes -> RowShapes]
    /\ run \in [Runs -> {"none"} \cup Active \cup Terminal] /\ order \in Seq(Runs)
    /\ doing \in [Processes -> Doings]
    /\ found \in [Processes -> Findings]
    /\ report \in [Runs -> Terminal \cup {"none"}]
    /\ guessed \in BOOLEAN

\* The run of a request comes into being once.
Unborn == \A r \in Runs : doing[<<"request", r>>] \in {"idle", "create"} => run[r] = "none"

NotesAreSound ==
    /\ Sound(task.status)
    /\ \A p \in Processes : Sound(copy[p].status) /\ Sound(found[p].status)
    /\ \A r \in Runs : report[r] \in {"completed", "failed"} => run[r] = report[r]

RowInv == RowKinds /\ Unborn /\ NotesAreSound

\* What a step does to the runs, and that a wrong guess is not forgotten.
Ended ==
    /\ guessed => guessed'
    /\ \A r \in Runs : run[r] \in Terminal => run'[r] = run[r]

LEMMA RowStart == RowInit => RowInv
<1> SUFFICES ASSUME RowInit PROVE RowInv
  OBVIOUS
<1>1. Fresh \in RowShapes /\ Fresh.status = "pending"
  BY DEF Fresh, RowShapes, Statuses
<1>2. Nothing \in Findings /\ Nothing.status = "none"
  BY DEF Nothing, Findings, Statuses
<1>3. RowKinds
  <2>1. order = <<>> /\ guessed \in BOOLEAN
    BY DEF RowInit
  <2>2. order \in Seq(Runs)
    BY <2>1
  <2>3. /\ task \in RowShapes /\ copy \in [Processes -> RowShapes]
        /\ found \in [Processes -> Findings]
    BY <1>1, <1>2 DEF RowInit
  <2>4. /\ run \in [Runs -> {"none"} \cup Active \cup Terminal]
        /\ doing \in [Processes -> Doings]
        /\ report \in [Runs -> Terminal \cup {"none"}]
    BY DEF RowInit, Doings
  <2> QED
    BY <2>1, <2>2, <2>3, <2>4 DEF RowKinds
<1>4. NotesAreSound
  BY <1>1, <1>2 DEF RowInit, NotesAreSound, Sound
<1> QED
  BY <1>3, <1>4 DEF RowInit, RowInv, Unborn

\* A process is named by what it is and, if it has one, by its run.
LEMMA Names ==
    /\ \A p \in Requests : p[2] \in Runs /\ p = <<"request", p[2]>>
    /\ \A p \in Workers : p[2] \in Runs
    /\ \A p \in Workers \cup Cancels \cup Edits \cup Deletions \cup Projections :
          \A r \in Runs : p # <<"request", r>>
    /\ \A p \in Requests \cup Workers \cup Cancels \cup Deletions \cup Projections : p \notin Edits
    /\ Requests \cup Workers \cup Cancels \cup Edits \cup Deletions \cup Projections = Processes
    /\ \A r \in Runs : /\ <<"request", r>> \in Requests /\ <<"worker", r>> \in Workers
                       /\ <<"project", r>> \in Projections
BY DEF Requests, Workers, Cancels, Edits, Deletions, Projections, Processes

LEMMA TurnIs ==
    ASSUME RowKinds, NEW p \in Processes, NEW here, NEW there \in Doings, Turn(p, here, there)
    PROVE  /\ doing' \in [Processes -> Doings] /\ doing[p] = here /\ doing'[p] = there
           /\ \A q \in Processes : q # p => doing'[q] = doing[q]
BY DEF RowKinds, Turn

LEMMA StatusIs ==
    ASSUME NEW t \in RowShapes, NEW s \in Statuses
    PROVE  /\ [t EXCEPT !.status = s] \in RowShapes /\ [t EXCEPT !.status = s].status = s
           /\ [t EXCEPT !.status = s].deleted = t.deleted
BY DEF RowShapes

LEMMA SetRunIs ==
    ASSUME RowKinds, NEW r \in Runs, NEW s \in {"none"} \cup Active \cup Terminal, SetRun(r, s),
           UNCHANGED guessed,
           run[r] \in Terminal \cup {"none"} => s = run[r]
    PROVE  /\ run' \in [Runs -> {"none"} \cup Active \cup Terminal] /\ run'[r] = s /\ Ended
           /\ \A q \in Runs : (q # r => run'[q] = run[q]) /\ (run[q] = "none" => run'[q] = "none")
BY DEF RowKinds, SetRun, Ended

\* What the row and the newest run say is sound, and so is a copy of either.
LEMMA CopyIs ==
    ASSUME RowInv, NEW p \in Processes, Read(p) \/ Forget(p) \/ UNCHANGED copy
    PROVE  /\ copy' \in [Processes -> RowShapes]
           /\ \A q \in Processes : Sound(copy'[q].status)
<1>1. Fresh \in RowShapes /\ Sound(Fresh.status)
  BY DEF Fresh, RowShapes, Statuses, Sound
<1>2. task \in RowShapes /\ Sound(task.status)
  BY DEF RowInv, RowKinds, NotesAreSound
<1>3. copy \in [Processes -> RowShapes] /\ \A q \in Processes : Sound(copy[q].status)
  BY DEF RowInv, RowKinds, NotesAreSound
<1>4. CASE Read(p)
  <2>1. copy' \in [Processes -> RowShapes] /\ \A q \in Processes : copy'[q] \in {copy[q], task}
    BY <1>2, <1>3, <1>4 DEF Read
  <2> QED
    BY <1>2, <1>3, <2>1
<1>5. CASE Forget(p)
  <2>1. copy' \in [Processes -> RowShapes] /\ \A q \in Processes : copy'[q] \in {copy[q], Fresh}
    BY <1>1, <1>3, <1>5 DEF Forget
  <2> QED
    BY <1>1, <1>3, <2>1
<1> QED
  BY <1>3, <1>4, <1>5

LEMMA NewestIs == ASSUME RowInv PROVE Newest \in Findings /\ Sound(Newest.status)
<1>1. CASE order = <<>>
  BY <1>1 DEF Newest, Nothing, Findings, Statuses, Sound
<1>2. CASE order # <<>>
  <2>1. order \in Seq(Runs)
    BY DEF RowInv, RowKinds
  <2>2. Len(order) \in 1 .. Len(order)
    BY <1>2, <2>1
  <2>3. Last(order) \in Runs
    BY <2>1, <2>2 DEF Last
  <2>4. Newest.run = Last(order) /\ Newest.status = run[Last(order)] /\ run[Last(order)] \in Statuses
    BY <1>2, <2>3 DEF Newest, RowInv, RowKinds, Statuses
  <2>5. Newest \in Findings
    BY <1>2, <2>3, <2>4 DEF Newest, Findings
  <2> QED
    BY <2>3, <2>4, <2>5 DEF Sound
<1> QED
  BY <1>1, <1>2

LEMMA FoundIs ==
    ASSUME RowInv, NEW p \in Processes, Find(p) \/ Unfind(p) \/ UNCHANGED found
    PROVE  /\ found' \in [Processes -> Findings]
           /\ \A q \in Processes : Sound(found'[q].status)
<1>1. Nothing \in Findings /\ Sound(Nothing.status)
  BY DEF Nothing, Findings, Statuses, Sound
<1>2. found \in [Processes -> Findings] /\ \A q \in Processes : Sound(found[q].status)
  BY DEF RowInv, RowKinds, NotesAreSound
<1>3. CASE Find(p)
  <2>1. /\ found' \in [Processes -> Findings]
        /\ \A q \in Processes : found'[q] \in {found[q], Newest}
    BY <1>2, <1>3, NewestIs DEF Find
  <2> QED
    BY <1>2, <2>1, NewestIs
<1>4. CASE Unfind(p)
  <2>1. /\ found' \in [Processes -> Findings]
        /\ \A q \in Processes : found'[q] \in {found[q], Nothing}
    BY <1>1, <1>2, <1>4 DEF Unfind
  <2> QED
    BY <1>1, <1>2, <2>1
<1> QED
  BY <1>2, <1>3, <1>4

\* What a step has to show; what it writes may be sound before it.
LEMMA SoundStep ==
    ASSUME RowInv, RowKinds', Ended, Sound(task'.status) \/ Sound(task.status)',
           \A p \in Processes : Sound(copy'[p].status) /\ Sound(found'[p].status),
           \A r \in Runs : report'[r] \in {"completed", "failed"} => run'[r] = report'[r],
           \A r \in Runs : doing'[<<"request", r>>] \in {"idle", "create"} =>
               doing[<<"request", r>>] \in {"idle", "create"} /\ run'[r] = run[r]
    PROVE  RowInv'
<1>1. ASSUME NEW s, Sound(s)
      PROVE  ~guessed' /\ s \in {"completed", "failed"} => \E r \in Runs : run'[r] = s
  BY <1>1 DEF Sound, Ended, Terminal
<1>2. Sound(task.status)'
  BY <1>1 DEF Sound
<1>3. ASSUME NEW p \in Processes
      PROVE  Sound(copy[p].status)' /\ Sound(found[p].status)'
  BY <1>1, <1>3 DEF Sound
<1>4. NotesAreSound'
  BY <1>2, <1>3 DEF NotesAreSound
<1>5. Unborn'
  BY DEF RowInv, Unborn
<1> QED
  BY <1>4, <1>5 DEF RowInv

\* What workers want to report stays true when they report nothing new.
LEMMA ReportsStay ==
    ASSUME RowInv, Ended, UNCHANGED report
    PROVE  \A r \in Runs : report'[r] \in {"completed", "failed"} => run'[r] = report'[r]
BY DEF RowInv, NotesAreSound, Ended, Terminal

\* A request that has begun does not begin again.
Begins(r) == doing[<<"request", r>>] \in {"idle", "create"}

LEMMA Onward ==
    ASSUME RowInv, NEW p \in Processes, NEW here, NEW there \in Doings, Turn(p, here, there),
           p \in Requests /\ there \in {"idle", "create"} => here \in {"idle", "create"}
    PROVE  doing' \in [Processes -> Doings] /\ \A r \in Runs : Begins(r)' => Begins(r)
<1>1. RowKinds
  BY DEF RowInv
<1>2. /\ doing' \in [Processes -> Doings] /\ doing[p] = here /\ doing'[p] = there
      /\ \A q \in Processes : q # p => doing'[q] = doing[q]
  BY <1>1, TurnIs
<1> QED
  BY <1>2, Names DEF Begins

\* A step that leaves the runs alone.
LEMMA RunsStay ==
    ASSUME RowInv, NEW p \in Processes, UNCHANGED <<run, order, report, guessed>>,
           Read(p) \/ Forget(p) \/ UNCHANGED copy, Find(p) \/ Unfind(p) \/ UNCHANGED found,
           task' \in RowShapes, Sound(task'.status),
           doing' \in [Processes -> Doings], \A r \in Runs : Begins(r)' => Begins(r)
    PROVE  RowInv'
<1>1. Ended
  BY DEF Ended
<1>2. copy' \in [Processes -> RowShapes] /\ \A q \in Processes : Sound(copy'[q].status)
  BY CopyIs
<1>3. found' \in [Processes -> Findings] /\ \A q \in Processes : Sound(found'[q].status)
  BY FoundIs
<1>4. RowKinds'
  BY <1>2, <1>3 DEF RowInv, RowKinds
<1> QED
  BY <1>1, <1>2, <1>3, <1>4, ReportsStay, SoundStep DEF Begins

LEMMA TaskStays == ASSUME RowInv, UNCHANGED task PROVE task' \in RowShapes /\ Sound(task'.status)
BY DEF RowInv, RowKinds, NotesAreSound

\* A step that moves one run on.
LEMMA RunMoves ==
    ASSUME RowInv, NEW p \in Processes, UNCHANGED <<task, order, report, guessed>>,
           NEW r \in Runs, NEW s \in {"none"} \cup Active \cup Terminal, SetRun(r, s),
           run[r] \in Terminal \cup {"none"} => s = run[r],
           Read(p) \/ Forget(p) \/ UNCHANGED copy, Find(p) \/ Unfind(p) \/ UNCHANGED found,
           doing' \in [Processes -> Doings], \A q \in Runs : Begins(q)' => Begins(q)
    PROVE  RowInv'
<1>1. /\ run' \in [Runs -> {"none"} \cup Active \cup Terminal] /\ Ended
      /\ \A q \in Runs : run[q] = "none" => run'[q] = "none"
  BY SetRunIs DEF RowInv
<1>2. copy' \in [Processes -> RowShapes] /\ \A q \in Processes : Sound(copy'[q].status)
  BY CopyIs
<1>3. found' \in [Processes -> Findings] /\ \A q \in Processes : Sound(found'[q].status)
  BY FoundIs
<1>4. RowKinds'
  BY <1>1, <1>2, <1>3 DEF RowInv, RowKinds
<1>5. \A q \in Runs : Begins(q)' => Begins(q) /\ run'[q] = run[q]
  BY <1>1 DEF RowInv, Unborn, Begins
<1> QED
  BY <1>1, <1>2, <1>3, <1>4, <1>5, TaskStays, ReportsStay, SoundStep DEF Begins

\* The status of the row, or of a copy of it, is overwritten.
LEMMA Rewrites ==
    ASSUME RowInv, NEW t \in RowShapes, NEW s \in Statuses, Sound(s),
           task' = [t EXCEPT !.status = s]
    PROVE  task' \in RowShapes /\ Sound(task'.status) /\ task'.deleted = t.deleted
BY StatusIs DEF RowShapes

\* The requests (_enqueue_task_start).
LEMMA AskHeld == ASSUME RowInv, NEW p \in Requests, Ask(p) PROVE RowInv'
<1>1. p \in Processes
  BY Names
<1>2. PICK there \in {"done", "create"} : Turn(p, "idle", there)
  BY DEF Ask
<1>3. doing' \in [Processes -> Doings] /\ \A r \in Runs : Begins(r)' => Begins(r)
  BY <1>1, <1>2, Onward DEF Doings
<1> QED
  BY <1>1, <1>3, TaskStays, RunsStay DEF Ask, runVars

LEMMA CreateHeld == ASSUME RowInv, NEW p \in Requests, Create(p) PROVE RowInv'
<1>1. p \in Processes /\ p[2] \in Runs /\ p = <<"request", p[2]>>
  BY Names
<1>2. CASE Admits
  <2>1. Turn(p, "create", "check") /\ SetRun(p[2], "queued") /\ order' = Append(order, p[2])
    BY <1>2 DEF Create
  <2>2. /\ doing' \in [Processes -> Doings] /\ doing[p] = "create" /\ doing'[p] = "check"
        /\ \A r \in Runs : Begins(r)' => Begins(r)
    BY <1>1, <2>1, Onward, TurnIs DEF Doings, RowInv
  <2>3. run[p[2]] = "none"
    BY <1>1, <2>2 DEF RowInv, Unborn
  <2>4. /\ run' \in [Runs -> {"none"} \cup Active \cup Terminal]
        /\ \A r \in Runs : r # p[2] => run'[r] = run[r]
    BY <1>1, <2>1 DEF RowInv, RowKinds, SetRun, Active
  <2>5. Ended
    BY <2>3, <2>4 DEF Ended, Terminal, Create
  <2>6. order' \in Seq(Runs)
    BY <1>1, <2>1 DEF RowInv, RowKinds
  <2>7. UNCHANGED <<task, copy, found, report, guessed>>
    BY <1>2 DEF Create
  <2>8. RowKinds'
    BY <2>2, <2>4, <2>6, <2>7 DEF RowInv, RowKinds
  <2>9. \A r \in Runs : Begins(r)' => Begins(r) /\ run'[r] = run[r]
    BY <1>1, <2>2, <2>4 DEF Begins
  <2>10. \A q \in Processes : Sound(copy'[q].status) /\ Sound(found'[q].status)
    BY <2>7 DEF RowInv, NotesAreSound
  <2> QED
    BY <2>5, <2>7, <2>8, <2>9, <2>10, TaskStays, ReportsStay, SoundStep DEF Begins
<1>3. CASE ~Admits
  <2>1. Turn(p, "create", "done") /\ Forget(p) /\ UNCHANGED <<task, run, order, found, report, guessed>>
    BY <1>3 DEF Create
  <2>2. doing' \in [Processes -> Doings] /\ \A r \in Runs : Begins(r)' => Begins(r)
    BY <1>1, <2>1, Onward DEF Doings
  <2> QED
    BY <1>1, <2>1, <2>2, TaskStays, RunsStay
<1> QED
  BY <1>2, <1>3

LEMMA CheckHeld == ASSUME RowInv, NEW p \in Requests, Check(p) PROVE RowInv'
<1>1. p \in Processes /\ p[2] \in Runs
  BY Names
<1>2. PICK there \in {"done", "move"} : Turn(p, "check", there)
  BY DEF Check
<1>3. doing' \in [Processes -> Doings] /\ \A r \in Runs : Begins(r)' => Begins(r)
  BY <1>1, <1>2, Onward DEF Doings
<1>4. /\ UNCHANGED <<task, order, found, report, guessed>>
      /\ Forget(p) \/ UNCHANGED copy
      /\ (run[p[2]] = "queued" /\ SetRun(p[2], "cancelled")) \/ UNCHANGED run
  BY DEF Check
<1>5. CASE UNCHANGED run
  BY <1>1, <1>3, <1>4, <1>5, TaskStays, RunsStay
<1>6. CASE run[p[2]] = "queued" /\ SetRun(p[2], "cancelled")
  BY <1>1, <1>3, <1>4, <1>6, RunMoves DEF Terminal
<1> QED
  BY <1>4, <1>5, <1>6

LEMMA MoveHeld == ASSUME RowInv, NEW p \in Requests, Move(p) PROVE RowInv'
<1>1. p \in Processes
  BY Names
<1>2. doing' \in [Processes -> Doings] /\ \A r \in Runs : Begins(r)' => Begins(r)
  BY <1>1, Onward DEF Doings, Move
<1>3. task' = [task EXCEPT !.status = "in_progress", !.pid = NoRun] /\ task \in RowShapes
  BY DEF Move, Moved, RowInv, RowKinds
<1>4. task' \in RowShapes /\ Sound(task'.status)
  BY <1>3 DEF RowShapes, Statuses, Sound
<1> QED
  BY <1>1, <1>2, <1>4, RunsStay DEF Move, runVars, notes

LEMMA PublishHeld == ASSUME RowInv, NEW p \in Requests, Publish(p) PROVE RowInv'
<1>1. p \in Processes /\ p[2] \in Runs /\ p = <<"request", p[2]>>
  BY Names
<1>2. doing \in [Processes -> Doings] /\ doing[p] = "publish"
  BY DEF RowInv, RowKinds, Publish
<1>3. doing' \in [Processes -> Doings] /\ \A r \in Runs : Begins(r)' => Begins(r)
  <2>1. CASE doing' = [doing EXCEPT ![p] = "attach", ![<<"worker", p[2]>>] = "sent"]
    <3>1. PICK w \in Processes : w = <<"worker", p[2]>>
      BY <1>1, Names
    <3>2. w # p /\ \A r \in Runs : w # <<"request", r>>
      BY <1>1, <3>1
    <3>3. doing' = [doing EXCEPT ![p] = "attach", ![w] = "sent"]
      BY <2>1, <3>1
    <3>4. /\ doing' \in [Processes -> Doings] /\ doing'[p] = "attach"
          /\ \A q \in Processes : q # p /\ q # w => doing'[q] = doing[q]
      BY <1>1, <1>2, <3>1, <3>2, <3>3 DEF Doings
    <3>5. \A r \in Runs : <<"request", r>> \in Processes
      BY Names
    <3> QED
      BY <3>2, <3>4, <3>5 DEF Begins
  <2>2. CASE doing' = [doing EXCEPT ![p] = "fail"]
    BY <1>1, <1>2, <2>2 DEF Doings, Begins
  <2> QED
    BY <2>1, <2>2 DEF Publish
<1> QED
  BY <1>1, <1>3, TaskStays, RunsStay DEF Publish, runVars

LEMMA FailRunHeld == ASSUME RowInv, NEW p \in Requests, FailRun(p) PROVE RowInv'
<1>1. p \in Processes /\ p[2] \in Runs
  BY Names
<1>2. PICK there \in {"done", "restore"} : Turn(p, "fail", there)
  BY DEF FailRun
<1>3. doing' \in [Processes -> Doings] /\ \A r \in Runs : Begins(r)' => Begins(r)
  BY <1>1, <1>2, Onward DEF Doings
<1>4. /\ UNCHANGED <<task, order, found, report, guessed>>
      /\ Forget(p) \/ UNCHANGED copy
      /\ (run[p[2]] = "queued" /\ SetRun(p[2], "failed")) \/ UNCHANGED run
  BY DEF FailRun
<1>5. CASE UNCHANGED run
  BY <1>1, <1>3, <1>4, <1>5, TaskStays, RunsStay
<1>6. CASE run[p[2]] = "queued" /\ SetRun(p[2], "failed")
  BY <1>1, <1>3, <1>4, <1>6, RunMoves DEF Terminal
<1> QED
  BY <1>4, <1>5, <1>6

LEMMA RestoreHeld == ASSUME RowInv, NEW p \in Requests, Restore(p) PROVE RowInv'
<1>1. p \in Processes
  BY Names
<1>2. doing' \in [Processes -> Doings] /\ \A r \in Runs : Begins(r)' => Begins(r)
  BY <1>1, Onward DEF Doings, Restore
<1>3. task \in RowShapes /\ copy[p] \in RowShapes /\ Sound(copy[p].status)
  BY <1>1 DEF RowInv, RowKinds, NotesAreSound
<1>4. task' \in RowShapes /\ Sound(task'.status)
  <2>1. CASE task' = [task EXCEPT !.status = copy[p].status, !.pid = copy[p].pid]
    <3>1. task' \in RowShapes /\ task'.status = copy[p].status
      BY <1>3, <2>1 DEF RowShapes
    <3> QED
      BY <1>3, <3>1
  <2> QED
    BY <2>1, TaskStays DEF Restore
<1> QED
  BY <1>1, <1>2, <1>4, RunsStay DEF Restore, runVars

LEMMA AttachHeld == ASSUME RowInv, NEW p \in Requests, Attach(p) PROVE RowInv'
<1>1. p \in Processes
  BY Names
<1>2. doing' \in [Processes -> Doings] /\ \A r \in Runs : Begins(r)' => Begins(r)
  BY <1>1, Onward DEF Doings, Attach
<1> QED
  BY <1>1, <1>2, TaskStays, RunsStay DEF Attach, notes

LEMMA WritePidHeld == ASSUME RowInv, NEW p \in Requests, WritePid(p) PROVE RowInv'
<1>1. p \in Processes /\ p[2] \in Runs
  BY Names
<1>2. doing' \in [Processes -> Doings] /\ \A r \in Runs : Begins(r)' => Begins(r)
  BY <1>1, Onward DEF Doings, WritePid
<1>3. task \in RowShapes /\ Sound(task.status) /\ task' = [task EXCEPT !.pid = p[2]]
  BY DEF RowInv, RowKinds, NotesAreSound, WritePid
<1>4. task' \in RowShapes /\ task'.status = task.status
  BY <1>1, <1>3 DEF RowShapes
<1> QED
  BY <1>1, <1>2, <1>3, <1>4, RunsStay DEF WritePid, runVars, notes

LEMMA RequestHeld == ASSUME RowInv, NEW p \in Requests, Request(p) PROVE RowInv'
BY AskHeld, CreateHeld, CheckHeld, MoveHeld, PublishHeld, FailRunHeld, RestoreHeld, AttachHeld,
   WritePidHeld DEF Request

\* The worker (task_prerun_handler, orchestrator.run, _set_task_status).
LEMMA WorkerOnward ==
    ASSUME RowInv, NEW p \in Workers, NEW here, NEW there \in Doings, Turn(p, here, there)
    PROVE  /\ p \in Processes /\ p[2] \in Runs
           /\ doing' \in [Processes -> Doings] /\ \A r \in Runs : Begins(r)' => Begins(r)
<1>1. p \in Processes /\ p[2] \in Runs
  BY Names
<1>2. p \notin Requests
  BY DEF Workers, Requests
<1> QED
  BY <1>1, <1>2, Onward

LEMMA PrerunReadHeld == ASSUME RowInv, NEW p \in Workers, PrerunRead(p) PROVE RowInv'
<1>1. PICK there \in {"prerun", "claim"} : Turn(p, "sent", there)
  BY DEF PrerunRead
<1>2. Read(p) \/ UNCHANGED copy
  BY DEF PrerunRead
<1> QED
  BY <1>1, <1>2, WorkerOnward, TaskStays, RunsStay DEF Doings, PrerunRead, runVars

LEMMA PrerunSaveHeld == ASSUME RowInv, NEW p \in Workers, PrerunSave(p) PROVE RowInv'
<1>1. Turn(p, "prerun", "claim") /\ task' = [copy[p] EXCEPT !.status = "in_progress"]
  BY DEF PrerunSave
<1>2. /\ p \in Processes /\ doing' \in [Processes -> Doings]
      /\ \A r \in Runs : Begins(r)' => Begins(r)
  BY <1>1, WorkerOnward DEF Doings
<1>3. copy[p] \in RowShapes /\ "in_progress" \in Statuses /\ Sound("in_progress")
  BY <1>2 DEF RowInv, RowKinds, Statuses, Sound
<1>4. task' \in RowShapes /\ Sound(task'.status)
  BY <1>1, <1>3, Rewrites
<1> QED
  BY <1>2, <1>4, RunsStay DEF PrerunSave, runVars

LEMMA ClaimRunHeld == ASSUME RowInv, NEW p \in Workers, ClaimRun(p) PROVE RowInv'
<1>1. PICK there \in {"guard", "post"} : Turn(p, "claim", there)
  BY DEF ClaimRun
<1>2. /\ p \in Processes /\ p[2] \in Runs /\ doing' \in [Processes -> Doings]
      /\ \A r \in Runs : Begins(r)' => Begins(r)
  BY <1>1, WorkerOnward DEF Doings
<1>3. (run[p[2]] = "queued" /\ SetRun(p[2], "running")) \/ UNCHANGED run
  BY DEF ClaimRun
<1>4. UNCHANGED <<task, order, copy, found, report, guessed>>
  BY DEF ClaimRun, notes
<1>5. CASE UNCHANGED run
  BY <1>2, <1>4, <1>5, TaskStays, RunsStay
<1>6. CASE run[p[2]] = "queued" /\ SetRun(p[2], "running")
  BY <1>2, <1>4, <1>6, RunMoves DEF Active, Terminal
<1> QED
  BY <1>3, <1>5, <1>6

LEMMA GuardHeld == ASSUME RowInv, NEW p \in Workers, Guard(p) PROVE RowInv'
<1>1. PICK there \in {"refuse", "mark"} : Turn(p, "guard", there)
  BY DEF Guard
<1> QED
  BY <1>1, WorkerOnward, TaskStays, RunsStay DEF Doings, Guard, runVars, notes

LEMMA RefuseHeld == ASSUME RowInv, NEW p \in Workers, Refuse(p) PROVE RowInv'
<1>1. /\ p \in Processes /\ p[2] \in Runs /\ doing' \in [Processes -> Doings]
      /\ \A r \in Runs : Begins(r)' => Begins(r)
  BY WorkerOnward DEF Doings, Refuse
<1>2. (run[p[2]] \in Active /\ SetRun(p[2], "cancelled")) \/ UNCHANGED run
  BY DEF Refuse
<1>3. UNCHANGED <<task, order, copy, found, report, guessed>>
  BY DEF Refuse, notes
<1>4. CASE UNCHANGED run
  BY <1>1, <1>3, <1>4, TaskStays, RunsStay
<1>5. CASE run[p[2]] \in Active /\ SetRun(p[2], "cancelled")
  BY <1>1, <1>3, <1>5, RunMoves DEF Active, Terminal
<1> QED
  BY <1>2, <1>4, <1>5

LEMMA MarkHeld == ASSUME RowInv, NEW p \in Workers, Mark(p) PROVE RowInv'
<1>1. Turn(p, "mark", "body") /\ task' = [task EXCEPT !.status = "in_progress"]
  BY DEF Mark
<1>2. task \in RowShapes /\ "in_progress" \in Statuses /\ Sound("in_progress")
  BY DEF RowInv, RowKinds, Statuses, Sound
<1>3. task' \in RowShapes /\ Sound(task'.status)
  BY <1>1, <1>2, Rewrites
<1> QED
  BY <1>1, <1>3, WorkerOnward, RunsStay DEF Doings, Mark, runVars, notes

\* What is reported as completed or failed is what the run has just become.
LEMMA EndRunHeld == ASSUME RowInv, NEW p \in Workers, EndRun(p) PROVE RowInv'
<1>1. p \in Processes /\ p[2] \in Runs
  BY Names
<1>2. run[p[2]] \in {"none"} \cup Active \cup Terminal
  BY <1>1 DEF RowInv, RowKinds
<1>3. PICK final \in {"none"} \cup Active \cup Terminal, said \in Terminal \cup {"none"},
           here \in {"mark", "body"}, there \in {"post", "write"} :
        /\ SetRun(p[2], final) /\ report' = [report EXCEPT ![p[2]] = said]
        /\ Turn(p, here, there) /\ UNCHANGED <<task, order, copy, found, guessed>>
        /\ run[p[2]] \in Terminal \cup {"none"} => final = run[p[2]]
        /\ said \in {"completed", "failed"} => final = said
  <2> DEFINE Outcome(want) == CASE run[p[2]] = "running"    -> want
                                [] run[p[2]] = "cancelling" -> "cancelled"
                                [] OTHER                    -> run[p[2]]
  <2>1. PICK want \in {"completed", "failed"} \cup
                      IF run[p[2]] = "running" THEN {} ELSE {"cancelled"} :
           \E said \in {Reported(p[2], want, Outcome(want))} \cup
                      IF run[p[2]] \in Terminal THEN {"none"} ELSE {} :
              /\ \E here \in {"mark", "body"} :
                    Turn(p, here, IF said = "none" THEN "post" ELSE "write")
              /\ SetRun(p[2], Outcome(want))
              /\ report' = [report EXCEPT ![p[2]] = said]
              /\ UNCHANGED <<task, tomb, order, asked, jobs, copy, found, troubles, guessed>>
    BY Zenon DEF EndRun
  <2>2. PICK said \in {Reported(p[2], want, Outcome(want))} \cup
                      IF run[p[2]] \in Terminal THEN {"none"} ELSE {},
             here \in {"mark", "body"} :
           /\ Turn(p, here, IF said = "none" THEN "post" ELSE "write")
           /\ SetRun(p[2], Outcome(want)) /\ report' = [report EXCEPT ![p[2]] = said]
           /\ UNCHANGED <<task, order, copy, found, guessed>>
    BY <2>1
  <2>3. PICK final : final = Outcome(want)
    OBVIOUS
  <2>4. /\ final \in {"none"} \cup Active \cup Terminal
        /\ run[p[2]] \in Terminal \cup {"none"} => final = run[p[2]]
        /\ run[p[2]] = "running" => final = want
    BY <1>2, <2>1, <2>3 DEF Active, Terminal
  <2>5. said \in Terminal \cup {"none"} /\ (said \in {"completed", "failed"} => final = said)
    BY <2>2, <2>3, <2>4 DEF Reported, Terminal
  <2>6. (IF said = "none" THEN "post" ELSE "write") \in {"post", "write"}
    OBVIOUS
  <2> QED
    BY <2>2, <2>3, <2>4, <2>5, <2>6
<1>4. doing' \in [Processes -> Doings] /\ \A r \in Runs : Begins(r)' => Begins(r)
  BY <1>3, WorkerOnward DEF Doings
<1>5. /\ run' \in [Runs -> {"none"} \cup Active \cup Terminal] /\ run'[p[2]] = final /\ Ended
      /\ \A r \in Runs : run[r] = "none" => run'[r] = "none"
  BY <1>1, <1>3, SetRunIs DEF RowInv
<1>6. /\ report' \in [Runs -> Terminal \cup {"none"}] /\ report'[p[2]] = said
      /\ \A r \in Runs : r # p[2] => report'[r] = report[r]
  BY <1>1, <1>3 DEF RowInv, RowKinds
<1>7. \A r \in Runs : report'[r] \in {"completed", "failed"} => run'[r] = report'[r]
  BY <1>3, <1>5, <1>6 DEF RowInv, NotesAreSound, Ended, Terminal
<1>8. RowKinds'
  BY <1>3, <1>4, <1>5, <1>6 DEF RowInv, RowKinds
<1>9. \A r \in Runs : Begins(r)' => Begins(r) /\ run'[r] = run[r]
  BY <1>4, <1>5 DEF RowInv, Unborn, Begins
<1>10. \A q \in Processes : Sound(copy'[q].status) /\ Sound(found'[q].status)
  BY <1>3 DEF RowInv, NotesAreSound
<1> QED
  BY <1>3, <1>5, <1>7, <1>8, <1>9, <1>10, TaskStays, SoundStep DEF Begins

LEMMA WriteStatusHeld == ASSUME RowInv, NEW p \in Workers, WriteStatus(p) PROVE RowInv'
<1>1. /\ p \in Processes /\ p[2] \in Runs /\ doing' \in [Processes -> Doings]
      /\ \A r \in Runs : Begins(r)' => Begins(r)
  BY WorkerOnward DEF Doings, WriteStatus
<1>2. UNCHANGED <<run, order, copy, found, guessed>> /\ Ended
  BY DEF WriteStatus, runVars, Ended
<1>3. task \in RowShapes /\ report[p[2]] \in Statuses /\ Sound(report[p[2]])
  BY <1>1 DEF RowInv, RowKinds, NotesAreSound, Statuses, Sound
<1>4. task' = [task EXCEPT !.status = report[p[2]]]
  BY DEF WriteStatus
<1>5. task' \in RowShapes /\ Sound(task'.status)
  BY <1>3, <1>4, Rewrites
<1>6. /\ report' \in [Runs -> Terminal \cup {"none"}]
      /\ \A r \in Runs : report'[r] \in {"none", report[r]}
  BY <1>1 DEF RowInv, RowKinds, WriteStatus
<1>7. \A r \in Runs : report'[r] \in {"completed", "failed"} => run'[r] = report'[r]
  BY <1>2, <1>6 DEF RowInv, NotesAreSound
<1>8. RowKinds'
  BY <1>1, <1>2, <1>5, <1>6 DEF RowInv, RowKinds
<1>9. \A q \in Processes : Sound(copy'[q].status) /\ Sound(found'[q].status)
  BY <1>2 DEF RowInv, NotesAreSound
<1> QED
  BY <1>1, <1>2, <1>5, <1>7, <1>8, <1>9, SoundStep DEF Begins

LEMMA PostHeld == ASSUME RowInv, NEW p \in Workers, Post(p) PROVE RowInv'
<1>1. p \in Processes /\ p[2] \in Runs /\ \A r \in Runs : p # <<"request", r>>
  BY Names
<1>2. PICK w \in Processes : w = <<"project", p[2]>>
  BY <1>1, Names
<1>3. \A r \in Runs : w # <<"request", r>> /\ <<"request", r>> \in Processes
  BY <1>2, Names
<1>4. \/ doing' = [doing EXCEPT ![p] = "done", ![w] = "read"]
      \/ doing' = [doing EXCEPT ![p] = "lookup"]
  BY <1>2 DEF Post
<1>5. /\ doing' \in [Processes -> Doings]
      /\ \A q \in Processes : q # p /\ q # w => doing'[q] = doing[q]
  BY <1>1, <1>2, <1>4 DEF RowInv, RowKinds, Doings
<1>6. \A r \in Runs : Begins(r)' => Begins(r)
  BY <1>1, <1>3, <1>5 DEF Begins
<1> QED
  BY <1>1, <1>5, <1>6, TaskStays, RunsStay DEF Post, runVars, notes

LEMMA PostReadHeld == ASSUME RowInv, NEW p \in Workers, PostRead(p) PROVE RowInv'
<1>1. PICK there \in {"rescue", "done"} : Turn(p, "lookup", there)
  BY DEF PostRead
<1>2. /\ p \in Processes /\ doing' \in [Processes -> Doings]
      /\ \A r \in Runs : Begins(r)' => Begins(r)
  BY <1>1, WorkerOnward DEF Doings
<1> QED
  BY <1>2, TaskStays, RunsStay DEF PostRead, runVars

\* What the backstop writes is that of a run, or guessed.
LEMMA PostSaveHeld == ASSUME RowInv, NEW p \in Workers, PostSave(p) PROVE RowInv'
<1>1. PICK end \in {"completed", "failed"} :
         /\ Turn(p, "rescue", "done")
         /\ task' = [copy[p] EXCEPT !.status = end]
         /\ guessed' = (guessed \/ \A r \in Runs : run[r] # end)
         /\ Forget(p) /\ UNCHANGED <<run, order, found, report>>
  BY DEF PostSave, runVars
<1>2. /\ p \in Processes /\ doing' \in [Processes -> Doings]
      /\ \A r \in Runs : Begins(r)' => Begins(r)
  BY <1>1, WorkerOnward DEF Doings
<1>3. task' \in RowShapes /\ task'.status = end
  BY <1>1, <1>2, StatusIs DEF RowInv, RowKinds, Statuses, Terminal
<1>4. Ended /\ guessed' \in BOOLEAN
  BY <1>1 DEF Ended, RowInv, RowKinds
<1>5. Sound(task.status)'
  BY <1>1, <1>3 DEF Sound
<1>6. copy' \in [Processes -> RowShapes] /\ \A q \in Processes : Sound(copy'[q].status)
  BY <1>1, <1>2, CopyIs
<1>7. RowKinds'
  BY <1>1, <1>2, <1>3, <1>4, <1>6 DEF RowInv, RowKinds
<1>8. \A q \in Processes : Sound(found'[q].status)
  BY <1>1 DEF RowInv, NotesAreSound
<1> QED
  BY <1>1, <1>2, <1>4, <1>5, <1>6, <1>7, <1>8, ReportsStay, SoundStep DEF Begins

LEMMA WorkerHeld == ASSUME RowInv, NEW p \in Workers, Worker(p) PROVE RowInv'
BY PrerunReadHeld, PrerunSaveHeld, ClaimRunHeld, GuardHeld, RefuseHeld, MarkHeld, EndRunHeld,
   WriteStatusHeld, PostHeld, PostReadHeld, PostSaveHeld DEF Worker

\* Whoever is no request moves on.
LEMMA OtherOnward ==
    ASSUME RowInv, NEW p \in Cancels \cup Edits \cup Deletions \cup Projections,
           NEW here, NEW there \in Doings, Turn(p, here, there)
    PROVE  /\ p \in Processes
           /\ doing' \in [Processes -> Doings] /\ \A r \in Runs : Begins(r)' => Begins(r)
<1>1. p \in Processes
  BY Names
<1>2. p \notin Requests
  BY DEF Cancels, Edits, Deletions, Projections, Requests
<1> QED
  BY <1>1, <1>2, Onward

\* project_task_status and the recovery pass.
LEMMA ProjectHeld == ASSUME RowInv, NEW p \in Projections, Project(p) PROVE RowInv'
<1>1. CASE Reconcile(p)
  BY <1>1, OtherOnward, TaskStays, RunsStay DEF Reconcile, Doings, runVars, notes
<1>2. CASE ProjectRead(p)
  BY <1>2, OtherOnward, TaskStays, RunsStay DEF ProjectRead, Doings, runVars
<1>3. CASE ProjectWrite(p)
  <2>1. /\ p \in Processes /\ doing' \in [Processes -> Doings]
        /\ \A r \in Runs : Begins(r)' => Begins(r)
    BY <1>3, OtherOnward DEF ProjectWrite, Doings
  <2>2. found[p] \in Findings /\ Sound(found[p].status) /\ task \in RowShapes
    BY <2>1 DEF RowInv, RowKinds, NotesAreSound
  <2>3. Shown(found[p].status) \in Statuses /\ Sound(Shown(found[p].status))
    BY <2>2 DEF Shown, Findings, Statuses, Sound
  <2>4. task' = [task EXCEPT !.status = Shown(found[p].status)]
    BY <1>3 DEF ProjectWrite
  <2>5. task' \in RowShapes /\ Sound(task'.status)
    BY <2>2, <2>3, <2>4, Rewrites
  <2> QED
    BY <1>3, <2>1, <2>5, RunsStay DEF ProjectWrite, runVars, notes
<1>4. CASE ProjectCheck(p)
  <2>1. PICK there \in {"idle", "read"} : Turn(p, "check", there)
    BY <1>4 DEF ProjectCheck
  <2> QED
    BY <1>4, <2>1, OtherOnward, TaskStays, RunsStay DEF ProjectCheck, Doings, runVars
<1> QED
  BY <1>1, <1>2, <1>3, <1>4 DEF Project

LEMMA RecoverHeld == ASSUME RowInv, NEW r \in Runs, Recover(r) PROVE RowInv'
<1>1. PICK s \in {"cancelled", "failed"} : SetRun(r, s)
  BY DEF Recover
<1>2. run[r] \in Active /\ UNCHANGED <<task, order, doing, copy, found, report, guessed>>
  BY DEF Recover, notes
<1>3. <<"request", r>> \in Processes
  BY Names
<1>4. doing' \in [Processes -> Doings] /\ \A q \in Runs : Begins(q)' => Begins(q)
  BY <1>2 DEF RowInv, RowKinds, Begins
<1> QED
  BY <1>1, <1>2, <1>3, <1>4, RunMoves DEF Active, Terminal

\* cancel_task.  It may name a run that is none: nothing is changed then.
LEMMA CancelsRun ==
    ASSUME RowInv, NEW p \in Cancels, NEW r, NEW s, SetRun(r, s),
           r \in Runs => /\ s \in {"none"} \cup Active \cup Terminal
                         /\ run[r] \in Terminal \cup {"none"} => s = run[r],
           UNCHANGED <<task, order, copy, report, guessed>>, Unfind(p),
           doing' \in [Processes -> Doings], \A q \in Runs : Begins(q)' => Begins(q)
    PROVE  RowInv'
<1>1. p \in Processes
  BY Names
<1>2. CASE r \in Runs
  BY <1>1, <1>2, RunMoves
<1>3. CASE r \notin Runs
  <2>1. UNCHANGED run
    BY <1>3 DEF SetRun, RowInv, RowKinds
  <2> QED
    BY <1>1, <2>1, TaskStays, RunsStay
<1> QED
  BY <1>2, <1>3

LEMMA CancelReadHeld == ASSUME RowInv, NEW p \in Cancels, CancelRead(p) PROVE RowInv'
<1>1. PICK there \in {"done", "find"} : Turn(p, "idle", there)
  BY DEF CancelRead
<1> QED
  BY <1>1, OtherOnward, TaskStays, RunsStay DEF CancelRead, Doings, runVars

LEMMA CancelFindHeld == ASSUME RowInv, NEW p \in Cancels, CancelFind(p) PROVE RowInv'
<1>1. PICK there \in {"request", "force", "save", "done"} : Turn(p, "find", there)
  BY DEF CancelFind
<1>2. Forget(p) \/ UNCHANGED copy
  BY DEF CancelFind
<1>3. Find(p) \/ UNCHANGED found
  BY DEF CancelFind
<1>4. UNCHANGED <<task, run, order, report, guessed>>
  BY DEF CancelFind, runVars
<1> QED
  BY <1>1, <1>2, <1>3, <1>4, OtherOnward, TaskStays, RunsStay DEF Doings

LEMMA RequestCancelHeld == ASSUME RowInv, NEW p \in Cancels, RequestCancel(p) PROVE RowInv'
<1>1. PICK there \in {"write", "idle", "done"} : Turn(p, "request", there)
  BY DEF RequestCancel
<1>2. /\ p \in Processes /\ doing' \in [Processes -> Doings]
      /\ \A q \in Runs : Begins(q)' => Begins(q)
  BY <1>1, OtherOnward DEF Doings
<1>3. PICK r, s :
        /\ r = found[p].run /\ SetRun(r, s)
        /\ s = CASE run[r] = "queued"  -> "cancelled"
                 [] run[r] = "running" -> "cancelling"
                 [] OTHER              -> run[r]
  BY DEF RequestCancel
<1>4. r \in Runs => /\ s \in {"none"} \cup Active \cup Terminal
                    /\ run[r] \in Terminal \cup {"none"} => s = run[r]
  <2> SUFFICES ASSUME r \in Runs
               PROVE  /\ s \in {"none"} \cup Active \cup Terminal
                      /\ run[r] \in Terminal \cup {"none"} => s = run[r]
    OBVIOUS
  <2>1. run[r] \in {"none"} \cup Active \cup Terminal
    BY DEF RowInv, RowKinds
  <2> QED
    BY <1>3, <2>1 DEF Active, Terminal
<1>5. UNCHANGED <<task, order, copy, report, guessed>> /\ Unfind(p)
  BY DEF RequestCancel
<1> QED
  BY <1>2, <1>3, <1>4, <1>5, CancelsRun

LEMMA ForceCancelHeld == ASSUME RowInv, NEW p \in Cancels, ForceCancel(p) PROVE RowInv'
<1>1. PICK there \in {"write", "done"} : Turn(p, "force", there)
  BY DEF ForceCancel
<1>2. /\ p \in Processes /\ doing' \in [Processes -> Doings]
      /\ \A q \in Runs : Begins(q)' => Begins(q)
  BY <1>1, OtherOnward DEF Doings
<1>3. PICK r, s :
        /\ r = found[p].run /\ SetRun(r, s)
        /\ s = run[r] \/ (run[r] = "cancelling" /\ s = "cancelled")
  BY DEF ForceCancel
<1>4. r \in Runs => /\ s \in {"none"} \cup Active \cup Terminal
                    /\ run[r] \in Terminal \cup {"none"} => s = run[r]
  BY <1>3 DEF RowInv, RowKinds, Active, Terminal
<1>5. UNCHANGED <<task, order, copy, report, guessed>> /\ Unfind(p)
  BY DEF ForceCancel
<1> QED
  BY <1>2, <1>3, <1>4, <1>5, CancelsRun

LEMMA CancelHeld == ASSUME RowInv, NEW p \in Cancels, Cancel(p) PROVE RowInv'
<1>1. "cancelled" \in Statuses /\ Sound("cancelled") /\ task \in RowShapes
  BY DEF Statuses, Terminal, Sound, RowInv, RowKinds
<1>2. p \in Processes /\ copy[p] \in RowShapes
  BY Names DEF RowInv, RowKinds
<1>3. CASE CancelWrite(p)
  <2>1. task' = [task EXCEPT !.status = "cancelled"]
    BY <1>3 DEF CancelWrite
  <2>2. task' \in RowShapes /\ Sound(task'.status)
    BY <1>1, <2>1, Rewrites
  <2> QED
    BY <1>3, <2>2, OtherOnward, RunsStay DEF CancelWrite, Doings, runVars, notes
<1>4. CASE CancelSave(p)
  <2>1. task' = [copy[p] EXCEPT !.status = "cancelled"]
    BY <1>4 DEF CancelSave
  <2>2. task' \in RowShapes /\ Sound(task'.status)
    BY <1>1, <1>2, <2>1, Rewrites
  <2> QED
    BY <1>4, <2>2, OtherOnward, RunsStay DEF CancelSave, Doings, runVars
<1> QED
  BY <1>3, <1>4, CancelReadHeld, CancelFindHeld, RequestCancelHeld, ForceCancelHeld DEF Cancel

\* delete_task.
LEMMA DeletionHeld ==
    ASSUME RowInv, NEW p \in Deletions, Tombstone(p) \/ DeleteRow(p) PROVE RowInv'
<1>1. CASE Tombstone(p)
  <2>1. PICK there \in {"delete", "done"} : Turn(p, "idle", there)
    BY <1>1 DEF Tombstone
  <2> QED
    BY <1>1, <2>1, OtherOnward, TaskStays, RunsStay DEF Tombstone, Doings, runVars, notes
<1>2. CASE DeleteRow(p)
  <2>1. task' = [task EXCEPT !.deleted = TRUE] /\ task \in RowShapes /\ Sound(task.status)
    BY <1>2 DEF DeleteRow, RowInv, RowKinds, NotesAreSound
  <2>2. task' \in RowShapes /\ task'.status = task.status
    BY <2>1 DEF RowShapes
  <2> QED
    BY <1>2, <2>1, <2>2, OtherOnward, RunsStay DEF DeleteRow, Doings, runVars, notes
<1> QED
  BY <1>1, <1>2

\* save_task.
LEMMA EditHeld ==
    ASSUME RowInv, NEW p \in Edits, OpenEdit(p) \/ SaveEdit(p) PROVE RowInv'
<1>1. CASE OpenEdit(p)
  <2>1. PICK there \in {"save", "done"} : Turn(p, "idle", there)
    BY <1>1 DEF OpenEdit
  <2> QED
    BY <1>1, <2>1, OtherOnward, TaskStays, RunsStay DEF OpenEdit, Doings, runVars
<1>2. CASE SaveEdit(p)
  <2>1. p \in Processes
    BY Names
  <2>2. copy[p] \in RowShapes /\ Sound(copy[p].status)
    BY <2>1 DEF RowInv, RowKinds, NotesAreSound
  <2>3. task' \in {copy[p], task}
    BY <1>2 DEF SaveEdit
  <2>4. task' \in RowShapes /\ Sound(task'.status)
    BY <2>2, <2>3 DEF RowInv, RowKinds, NotesAreSound
  <2> QED
    BY <1>2, <2>4, OtherOnward, RunsStay DEF SaveEdit, Doings, runVars
<1> QED
  BY <1>1, <1>2

LEMMA PerishHeld ==
    ASSUME RowInv, NEW p \in Requests \cup Workers \cup Cancels \cup Deletions, Perish(p)
    PROVE  RowInv'
<1>1. p \in Processes
  BY Names
<1>2. Turn(p, doing[p], "done")
  BY DEF Perish, Turn
<1>3. doing' \in [Processes -> Doings] /\ \A r \in Runs : Begins(r)' => Begins(r)
  BY <1>1, <1>2, Onward DEF Doings
<1> QED
  BY <1>1, <1>3, TaskStays, RunsStay DEF Perish, runVars

LEMMA RowStays == ASSUME RowInv, UNCHANGED taskVars PROVE RowInv'
<1>1. UNCHANGED <<task, run, order, doing, copy, found, report, guessed>>
  BY DEF taskVars, runVars, notes
<1>2. RowKinds' /\ Ended
  BY <1>1 DEF RowInv, RowKinds, Ended
<1> QED
  BY <1>1, <1>2, TaskStays, ReportsStay, SoundStep DEF RowInv, NotesAreSound, Unborn

LEMMA RowStep == ASSUME RowInv, [RowNext]_taskVars PROVE RowInv'
BY RequestHeld, WorkerHeld, CancelHeld, ProjectHeld, DeletionHeld, EditHeld, PerishHeld,
   RecoverHeld, RowStays DEF RowNext

\* An edit comes to its end by saving, and saves nothing into a deleted task.
LEMMA DeletedStaysDeleted == ASSUME RowInv, [RowNext]_taskVars PROVE EditKeepsDeletion
<1> SUFFICES ASSUME task.deleted, NEW e \in Edits, doing[e] = "save", doing'[e] = "done"
             PROVE  task'.deleted
  BY DEF EditKeepsDeletion
<1>1. e \in Processes /\ doing \in [Processes -> Doings]
  BY Names DEF RowInv, RowKinds
<1>2. ASSUME NEW p \in Processes, p # e, NEW here, NEW there, Turn(p, here, there)
      PROVE  FALSE
  BY <1>1, <1>2 DEF Turn
<1>3. ASSUME NEW p \in Requests, Request(p)
      PROVE  FALSE
  <2>1. p \in Processes /\ p # e /\ <<"worker", p[2]>> # e
    BY <1>3, Names DEF Edits
  <2>2. Publish(p)
    BY <1>2, <1>3, <2>1 DEF Request, Ask, Create, Check, Move, FailRun, Restore, Attach, WritePid
  <2> QED
    BY <1>1, <2>1, <2>2 DEF Publish
<1>4. ASSUME NEW p \in Workers, Worker(p)
      PROVE  FALSE
  <2>1. p \in Processes /\ p # e /\ <<"project", p[2]>> # e
    BY <1>4, Names DEF Edits
  <2>2. EndRun(p) \/ Post(p)
    BY <1>2, <1>4, <2>1 DEF Worker, PrerunRead, PrerunSave, ClaimRun, Guard, Refuse, Mark,
       WriteStatus, PostRead, PostSave
  <2>3. ~EndRun(p)
    BY <1>2, <2>1 DEF EndRun
  <2> QED
    BY <1>1, <2>1, <2>2, <2>3 DEF Post
<1>5. ASSUME NEW p \in Cancels, Cancel(p)
      PROVE  FALSE
  <2>1. p \in Processes /\ p # e
    BY <1>5, Names
  <2> QED
    BY <1>2, <1>5, <2>1 DEF Cancel, CancelRead, CancelFind, RequestCancel, ForceCancel,
       CancelWrite, CancelSave
<1>6. ASSUME NEW p \in Projections, Project(p)
      PROVE  FALSE
  <2>1. p \in Processes /\ p # e
    BY <1>6, Names
  <2> QED
    BY <1>2, <1>6, <2>1 DEF Project, Reconcile, ProjectRead, ProjectWrite, ProjectCheck
<1>7. ASSUME NEW p \in Deletions, Tombstone(p) \/ DeleteRow(p)
      PROVE  FALSE
  <2>1. p \in Processes /\ p # e
    BY <1>7, Names
  <2> QED
    BY <1>2, <1>7, <2>1 DEF Tombstone, DeleteRow
<1>8. ASSUME NEW p \in Requests \cup Workers \cup Cancels \cup Deletions, Perish(p)
      PROVE  FALSE
  <2>1. p \in Processes /\ p # e
    BY <1>8, Names
  <2> QED
    BY <1>1, <1>8, <2>1 DEF Perish
<1>9. ASSUME NEW p \in Edits, OpenEdit(p) \/ SaveEdit(p)
      PROVE  task'.deleted
  <2>1. CASE OpenEdit(p)
    BY <2>1 DEF OpenEdit
  <2>2. CASE SaveEdit(p)
    BY <2>2 DEF SaveEdit, Live
  <2> QED
    BY <1>9, <2>1, <2>2
<1>10. ASSUME NEW r \in Runs, Recover(r)
       PROVE  FALSE
  BY <1>10 DEF Recover
<1>11. CASE UNCHANGED taskVars
  BY <1>11 DEF taskVars
<1> QED
  BY <1>3, <1>4, <1>5, <1>6, <1>7, <1>8, <1>9, <1>10, <1>11 DEF RowNext

\* The task says completed or failed only if a run of it is just that, whoever
\* writes the row, however late (_set_task_status, project_task_status, Task.save),
\* until the backstop of Celery (task_postrun_handler) has written an end that no
\* run has had; and no edit undoes a deletion (_update_existing_task_if_live): for
\* any number of runs, requests, workers, edits and crashes.
THEOREM RowIsAlwaysTrue == RowSpec => RowIsTrue
<1>1. RowInv /\ [RowNext]_taskVars => RowInv' /\ (ShownIsTrue' /\ EditKeepsDeletion)
  <2> SUFFICES ASSUME RowInv, [RowNext]_taskVars
               PROVE  RowInv' /\ ShownIsTrue' /\ EditKeepsDeletion
    OBVIOUS
  <2>1. RowInv'
    BY RowStep
  <2>2. ShownIsTrue'
    BY <2>1 DEF RowInv, NotesAreSound, ShownIsTrue, Sound
  <2> QED
    BY <2>1, <2>2, DeletedStaysDeleted
<1> QED
  BY <1>1, RowStart, PTL DEF RowSpec, RowIsTrue

===============================================================================
