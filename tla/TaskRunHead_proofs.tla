-------------------------- MODULE TaskRunHead_proofs --------------------------
(***************************************************************************)
(* What admission guarantees for any number of requests and passes.        *)
(*                                                                         *)
(* With the unique index one active row is a fact of the table.  Without    *)
(* it everything rests on the head, and on creators that reach their INSERT *)
(* before the reservation timeout: until one is late the head names every   *)
(* active row from its INSERT on.  What makes that inductive is a pair of facts about  *)
(* the slow actors: a creator about to insert still owns the head, and a    *)
(* recovery pass whose version is still the stored one has seen a           *)
(* reservation nobody is about to fill.                                     *)
(***************************************************************************)
EXTENDS TaskRunHead, TLAPS

OneRow == \A b, c \in Creators : row[b] = "active" /\ row[c] = "active" => b = c

Early == {"start", "history", "reconcile", "conflict", "reserve", "insert", "restore"}
Late  == {"verify", "withdraw", "check", "cancel", "publish", "published"}

\* The row is there from the INSERT on.
RowPlaces == \A c \in Creators : /\ pc[c] \in Early => row[c] = "none"
                                 /\ pc[c] \in Late => row[c] # "none"

Reserved == \A c \in Creators : pc[c] = "insert" => head.active = c /\ left > 0

RowHeaded == \A c \in Creators : row[c] = "active" => head.active = c

Abandoned == \A r \in Recoverers :
    seen[r] # 0 /\ seen[r] = head.version =>
        /\ head.active \in Creators
        /\ row[head.active] = "none"
        /\ pc[head.active] # "insert"

Buried == head.deleted => head.active = NoRun

HeadInv == TypeOK /\ RowPlaces /\ Reserved /\ RowHeaded /\ Abandoned /\ Buried

PromptInv == ~late => HeadInv

-----------------------------------------------------------------------------

LEMMA RequestStep ==
    ASSUME HeadInv, NEW p \in Requests, ReadHistory(p) \/ Reconcile(p) \/ Crash(p)
    PROVE  HeadInv'
<1> USE HeadAssumption DEF Requests
<1>1. CASE ReadHistory(p)
  <2>1. (CHOOSE c \in ActiveRows : TRUE) \in Creators \/ ActiveRows = {}
    BY DEF ActiveRows
  <2> DEFINE found == IF ActiveRows = {} THEN NoRun ELSE CHOOSE c \in ActiveRows : TRUE
  <2>4. found \in Creators \cup {NoRun} BY <2>1
  <2>5. history' = history \/ history' = [history EXCEPT ![p] = found]
    BY <1>1 DEF ReadHistory
  <2>6. history' \in [Requests -> Creators \cup {NoRun}]
    <3> HIDE DEF found
    <3> QED BY <2>4, <2>5 DEF HeadInv, TypeOK
  <2>7. pc' \in [Requests -> Places]
    BY <1>1 DEF HeadInv, TypeOK, ReadHistory, Goto, Places
  <2>2. TypeOK' BY <1>1, <2>6, <2>7 DEF HeadInv, TypeOK, ReadHistory
  <2>3. (RowPlaces /\ Reserved /\ RowHeaded /\ Abandoned /\ Buried)'
    BY <1>1 DEF HeadInv, TypeOK, RowPlaces, Reserved, RowHeaded, Abandoned, Buried,
                ReadHistory, Goto, Early, Late
  <2> QED BY <2>2, <2>3 DEF HeadInv
<1>2. CASE Reconcile(p)
  <2>1. UNCHANGED <<row, taskDeleted, history, seen, admitted, crashes, late>>
        /\ pc[p] = "reconcile"
    BY <1>2 DEF Reconcile
  <2>2. pc' = [pc EXCEPT ![p] = "conflict"] \/ pc' = [pc EXCEPT ![p] = After(p)]
    BY <1>2 DEF Reconcile, Goto
  <2>3. \/ UNCHANGED <<head, left>>
        \/ /\ ~LeaveHead
           /\ SetHead(history[p], FALSE) /\ ~(head.active # NoRun /\ row[head.active] = "active")
        \/ /\ ~LeaveHead /\ head.active # NoRun /\ row[head.active] = "active"
           /\ SetHead(head.active, FALSE)
    BY <1>2 DEF Reconcile, KeepHead
  <2>4. RowPlaces'
    BY <2>1, <2>2 DEF HeadInv, TypeOK, RowPlaces, After, Early, Late
  <2>5. pc \in [Requests -> Places] /\ pc' \in [Requests -> Places]
    BY <2>1, <2>2 DEF HeadInv, TypeOK, Places, After
  <2>6. \A c \in Creators : pc'[c] = "insert" => pc[c] = "insert"
    BY <2>2, <2>5 DEF After
  <2>7. CASE UNCHANGED <<head, left>>
    BY <2>1, <2>2, <2>4, <2>5, <2>6, <2>7
    DEF HeadInv, TypeOK, Reserved, RowHeaded, Abandoned, Buried, After
  <2>8. ASSUME NEW active, SetHead(active, FALSE), active \in Creators \cup {NoRun},
               ~LeaveHead, row[active] = "active" /\ active \in Creators => head.active = active,
               head.active # NoRun /\ row[head.active] = "active" => active = head.active
        PROVE  HeadInv'
    <3>1. TypeOK'
      BY <2>1, <2>5, <2>8 DEF HeadInv, TypeOK, SetHead
    <3>2. \A c \in Creators : pc[c] # "insert"
      BY <2>8 DEF HeadInv, LeaveHead, Reserved, RowPlaces, Early
    <3>3. Reserved'
      BY <3>2, <2>6 DEF Reserved
    <3>4. RowHeaded'
      BY <2>1, <2>8 DEF HeadInv, TypeOK, RowHeaded, SetHead
    <3>5. Abandoned'
      <4>1. head.version \in Nat /\ head'.version = head.version + 1
            /\ \A r \in Recoverers : seen[r] \in Nat /\ seen[r] <= head.version
        BY <2>8 DEF HeadInv, TypeOK, SetHead
      <4> QED BY <2>1, <4>1 DEF Abandoned
    <3>6. Buried'
      BY <2>8 DEF SetHead, Buried
    <3> QED BY <2>4, <3>1, <3>3, <3>4, <3>5, <3>6 DEF HeadInv
  <2>9. history[p] \in Creators \cup {NoRun} /\ head.active \in Creators \cup {NoRun}
    BY DEF HeadInv, TypeOK
  <2> QED BY <2>3, <2>7, <2>8, <2>9 DEF HeadInv, RowHeaded
<1>3. CASE Crash(p)
  <2>1. TypeOK' BY <1>3 DEF HeadInv, TypeOK, Crash, Goto, Places
  <2>2. (RowPlaces /\ Reserved /\ RowHeaded /\ Abandoned /\ Buried)'
    BY <1>3 DEF HeadInv, TypeOK, RowPlaces, Reserved, RowHeaded, Abandoned, Buried,
                Crash, Goto, Early, Late
  <2> QED BY <2>1, <2>2 DEF HeadInv
<1> QED BY <1>1, <1>2, <1>3

\* A step that keeps or moves only what no slow actor relies on.
LEMMA HeadMove ==
    ASSUME HeadInv, NEW active \in {NoRun}, NEW deleted \in BOOLEAN,
           SetHead(active, deleted), UNCHANGED <<row, seen>>,
           \A c \in Creators : pc'[c] # "insert" /\ row[c] # "active"
    PROVE  (Reserved /\ RowHeaded /\ Abandoned /\ Buried)'
<1>1. head.version \in Nat /\ head'.version = head.version + 1
      /\ \A r \in Recoverers : seen[r] \in Nat /\ seen[r] <= head.version
  BY DEF HeadInv, TypeOK, SetHead
<1>2. Abandoned' BY <1>1 DEF Abandoned
<1> QED BY <1>2 DEF Reserved, RowHeaded, Buried, SetHead

\* Only one creator can be about to insert, and no row is active then.
LEMMA Alone ==
    ASSUME HeadInv, NEW c \in Creators,
           pc[c] = "insert" \/ row[c] = "active"
    PROVE  /\ head.active = c
           /\ \A b \in Creators \ {c} : pc[b] # "insert" /\ row[b] # "active"
BY DEF HeadInv, Reserved, RowHeaded

LEMMA CreatorKeeps ==
    ASSUME HeadInv, NEW c \in Creators, CreatorStep(c)
    PROVE  HeadInv'
<1> USE HeadAssumption DEF Requests
<1>1. CASE Start(c) \/ Check(c) \/ Publish(c)
  <2>1. TypeOK' BY <1>1 DEF HeadInv, TypeOK, Start, Check, Publish, Goto, Places
  <2>2. (RowPlaces /\ Reserved /\ RowHeaded /\ Abandoned /\ Buried)'
    BY <1>1 DEF HeadInv, TypeOK, RowPlaces, Reserved, RowHeaded, Abandoned, Buried,
                Start, Check, Publish, Goto, Early, Late
  <2> QED BY <2>1, <2>2 DEF HeadInv
<1>2. CASE Reserve(c)
  <2>1. CASE head.deleted \/ Occupied(head.active)
    <3>1. TypeOK' BY <1>2, <2>1 DEF HeadInv, TypeOK, Reserve, KeepHead, Goto, Places
    <3>2. Goto(c, "done") /\ UNCHANGED <<head, left, row, seen>>
      BY <1>2, <2>1 DEF Reserve, KeepHead
    <3>3. RowPlaces' BY <3>2 DEF HeadInv, TypeOK, RowPlaces, Goto, Early, Late
    <3>4. (Reserved /\ RowHeaded /\ Abandoned /\ Buried)'
      BY <3>2 DEF HeadInv, TypeOK, Reserved, RowHeaded, Abandoned, Buried, Goto
    <3> QED BY <3>1, <3>3, <3>4 DEF HeadInv
  <2>2. CASE ~(head.deleted \/ Occupied(head.active))
    <3>1. SetHead(c, FALSE) /\ Goto(c, "insert") /\ pc[c] = "reserve"
          /\ UNCHANGED <<row, taskDeleted, history, seen, admitted, crashes, late>>
      BY <1>2, <2>2 DEF Reserve
    <3>2. \A b \in Creators : pc[b] # "insert" /\ row[b] # "active"
      BY <2>2 DEF Occupied, HeadInv, Reserved, RowHeaded, RowPlaces, Early
    <3>3. TypeOK' BY <3>1 DEF HeadInv, TypeOK, SetHead, Goto, Places
    <3>4. RowPlaces' BY <3>1 DEF HeadInv, TypeOK, RowPlaces, Goto, Early, Late
    <3>5. head.version \in Nat /\ head'.version = head.version + 1
          /\ \A r \in Recoverers : seen[r] \in Nat /\ seen[r] <= head.version
      BY <3>1 DEF HeadInv, TypeOK, SetHead
    <3>6. Abandoned' BY <3>1, <3>5 DEF Abandoned
    <3>7. Reserved'
      BY <3>1, <3>2 DEF HeadInv, TypeOK, Reserved, SetHead, Goto
    <3>8. RowHeaded' /\ Buried'
      BY <3>1, <3>2 DEF RowHeaded, Buried, SetHead
    <3> QED BY <3>3, <3>4, <3>6, <3>7, <3>8 DEF HeadInv
  <2> QED BY <2>1, <2>2
<1>3. CASE Insert(c)
  <2>1. pc[c] = "insert" /\ UNCHANGED <<head, left, taskDeleted, history, seen, admitted, crashes, late>>
    BY <1>3 DEF Insert
  <2>2. head.active = c /\ \A b \in Creators \ {c} : pc[b] # "insert" /\ row[b] # "active"
    BY <2>1, Alone
  <2>3. TypeOK' BY <1>3 DEF HeadInv, TypeOK, Insert, Goto, Places
  <2>4. RowPlaces' BY <1>3 DEF HeadInv, TypeOK, RowPlaces, Insert, Goto, Early, Late
  <2>5. (Reserved /\ RowHeaded /\ Abandoned /\ Buried)'
    BY <1>3, <2>1, <2>2 DEF HeadInv, TypeOK, Reserved, RowHeaded, Abandoned, Buried, Insert, Goto
  <2> QED BY <2>3, <2>4, <2>5 DEF HeadInv
<1>4. CASE Restore(c)
  <2>1. pc[c] = "restore" /\ row[c] = "none" /\ Goto(c, "done")
        /\ UNCHANGED <<row, taskDeleted, history, seen, admitted, crashes, late>>
    BY <1>4 DEF Restore, HeadInv, RowPlaces, Early
  <2>2. TypeOK' BY <1>4 DEF HeadInv, TypeOK, Restore, SetHead, KeepHead, Goto, Places
  <2>3. RowPlaces' BY <2>1 DEF HeadInv, TypeOK, RowPlaces, Goto, Early, Late
  <2>4. CASE head.active = c
    <3>1. SetHead(NoRun, head.deleted) /\ head.deleted \in BOOLEAN
      BY <1>4, <2>4 DEF Restore, HeadInv, TypeOK
    <3>2. \A b \in Creators : pc'[b] # "insert" /\ row[b] # "active"
      BY <2>1, <2>4 DEF HeadInv, TypeOK, Reserved, RowHeaded, Goto
    <3> QED BY <2>1, <2>2, <2>3, <3>1, <3>2, HeadMove DEF HeadInv
  <2>5. CASE head.active # c
    <3>1. (Reserved /\ RowHeaded /\ Abandoned /\ Buried)'
      BY <1>4, <2>1, <2>5 DEF HeadInv, TypeOK, Reserved, RowHeaded, Abandoned, Buried,
                              Restore, KeepHead, Goto
    <3> QED BY <2>2, <2>3, <3>1 DEF HeadInv
  <2> QED BY <2>4, <2>5
<1>5. CASE Verify(c)
  <2>1. TypeOK' BY <1>5 DEF HeadInv, TypeOK, Verify, Goto, Places
  <2>2. (RowPlaces /\ Reserved /\ RowHeaded /\ Abandoned /\ Buried)'
    BY <1>5 DEF HeadInv, TypeOK, RowPlaces, Reserved, RowHeaded, Abandoned, Buried,
                Verify, Goto, Early, Late
  <2> QED BY <2>1, <2>2 DEF HeadInv
<1>6. CASE Withdraw(c) \/ Cancel(c)
  <2>1. TypeOK' BY <1>6 DEF HeadInv, TypeOK, Withdraw, Cancel, Goto, Places
  <2>2. row[c] # "none" /\ row' \in [Creators -> {"none", "terminal"} \cup {row[b] : b \in Creators}]
    BY <1>6 DEF HeadInv, TypeOK, RowPlaces, Withdraw, Cancel, Late
  <2>3. (RowPlaces /\ Reserved /\ RowHeaded /\ Buried)'
    BY <1>6, <2>2 DEF HeadInv, TypeOK, RowPlaces, Reserved, RowHeaded, Buried,
                Withdraw, Cancel, Goto, Early, Late
  <2>4. Abandoned'
    BY <1>6, <2>2 DEF HeadInv, TypeOK, Abandoned, Withdraw, Cancel, Goto
  <2> QED BY <2>1, <2>3, <2>4 DEF HeadInv
<1>7. CASE EndRun(c)
  <2>1. TypeOK' BY <1>7 DEF HeadInv, TypeOK, EndRun
  <2>2. (RowPlaces /\ Reserved /\ RowHeaded /\ Abandoned /\ Buried)'
    BY <1>7 DEF HeadInv, TypeOK, RowPlaces, Reserved, RowHeaded, Abandoned, Buried,
                EndRun, Early, Late
  <2> QED BY <2>1, <2>2 DEF HeadInv
<1>8. CASE Release(c)
  <2>1. row[c] = "terminal" /\ head.active = c /\ SetHead(NoRun, head.deleted)
        /\ UNCHANGED <<row, taskDeleted, pc, history, seen, admitted, crashes, late>>
    BY <1>8 DEF Release
  <2>2. TypeOK' BY <2>1 DEF HeadInv, TypeOK, SetHead
  <2>3. RowPlaces' BY <2>1 DEF HeadInv, RowPlaces
  <2>4. \A b \in Creators : pc'[b] # "insert" /\ row[b] # "active"
    BY <2>1 DEF HeadInv, Reserved, RowHeaded, RowPlaces, Early
  <2>5. head.deleted \in BOOLEAN BY DEF HeadInv, TypeOK
  <2> QED BY <2>1, <2>2, <2>3, <2>4, <2>5, HeadMove DEF HeadInv
<1> QED BY <1>1, <1>2, <1>3, <1>4, <1>5, <1>6, <1>7, <1>8 DEF CreatorStep

LEMMA DeleterKeeps ==
    ASSUME HeadInv, NEW d \in Deleters, StartDelete(d) \/ Tombstone(d) \/ Project(d)
    PROVE  HeadInv'
<1> USE HeadAssumption DEF Requests
<1>1. CASE StartDelete(d) \/ Project(d)
  <2>1. TypeOK' BY <1>1 DEF HeadInv, TypeOK, StartDelete, Project, Goto, Places
  <2>2. (RowPlaces /\ Reserved /\ RowHeaded /\ Abandoned /\ Buried)'
    BY <1>1 DEF HeadInv, TypeOK, RowPlaces, Reserved, RowHeaded, Abandoned, Buried,
                StartDelete, Project, Goto, Early, Late
  <2> QED BY <2>1, <2>2 DEF HeadInv
<1>2. CASE Tombstone(d)
  <2>1. TypeOK'
    <3>1. pc' \in [Requests -> Places]
      <4>1. pc' = [pc EXCEPT ![d] = "project"] \/ pc' = [pc EXCEPT ![d] = "done"]
        BY <1>2 DEF Tombstone, Goto
      <4> QED BY <4>1 DEF HeadInv, TypeOK, Places
    <3>2. UNCHANGED <<row, taskDeleted, history, seen, admitted, crashes, late>>
      BY <1>2 DEF Tombstone
    <3>3. CASE KeepHead
      BY <3>1, <3>2, <3>3 DEF HeadInv, TypeOK, KeepHead
    <3>4. CASE SetHead(NoRun, TRUE)
      BY <3>1, <3>2, <3>4 DEF HeadInv, TypeOK, SetHead
    <3> QED BY <1>2, <3>3, <3>4 DEF Tombstone
  <2>2. RowPlaces' BY <1>2 DEF HeadInv, TypeOK, RowPlaces, Tombstone, Goto, Early, Late
  <2>3. \A c \in Creators : pc'[c] = pc[c]
    BY <1>2 DEF HeadInv, TypeOK, Tombstone, Goto
  <2>4. UNCHANGED <<row, seen>> BY <1>2 DEF Tombstone
  <2>5. CASE KeepHead
    <3>1. (Reserved /\ RowHeaded /\ Abandoned /\ Buried)'
      BY <2>3, <2>4, <2>5 DEF HeadInv, Reserved, RowHeaded, Abandoned, Buried, KeepHead
    <3> QED BY <2>1, <2>2, <3>1 DEF HeadInv
  <2>6. CASE ~Occupied(head.active) /\ SetHead(NoRun, TRUE)
    <3>1. \A c \in Creators : pc'[c] # "insert" /\ row[c] # "active"
      BY <2>3, <2>6 DEF Occupied, HeadInv, Reserved, RowHeaded, RowPlaces, Early
    <3> QED BY <2>1, <2>2, <2>4, <2>6, <3>1, HeadMove DEF HeadInv
  <2> QED BY <1>2, <2>5, <2>6 DEF Tombstone
<1> QED BY <1>1, <1>2

LEMMA RecovererKeeps ==
    ASSUME HeadInv, NEW r \in Recoverers, RecoverRead(r) \/ RecoverFree(r)
    PROVE  HeadInv'
<1> USE HeadAssumption DEF Requests
<1>1. CASE RecoverRead(r)
  <2>1. TypeOK' BY <1>1 DEF HeadInv, TypeOK, RecoverRead
  <2>2. (RowPlaces /\ Reserved /\ RowHeaded /\ Buried)'
    BY <1>1 DEF HeadInv, RowPlaces, Reserved, RowHeaded, Buried, RecoverRead
  <2>3. Abandoned'
    BY <1>1 DEF HeadInv, TypeOK, Abandoned, Reserved, RecoverRead
  <2> QED BY <2>1, <2>2, <2>3 DEF HeadInv
<1>2. CASE RecoverFree(r)
  <2>1. seen[r] # 0 /\ seen' = [seen EXCEPT ![r] = 0]
        /\ UNCHANGED <<row, taskDeleted, pc, history, admitted, crashes, late>>
    BY <1>2 DEF RecoverFree
  <2>2. TypeOK' BY <1>2 DEF HeadInv, TypeOK, RecoverFree, SetHead, KeepHead
  <2>3. RowPlaces' BY <2>1 DEF HeadInv, RowPlaces
  <2>4. CASE head.version = seen[r]
    <3>1. SetHead(NoRun, head.deleted) BY <1>2, <2>4 DEF RecoverFree
    <3>2. \A c \in Creators : pc[c] # "insert" /\ row[c] # "active"
      BY <2>1, <2>4 DEF HeadInv, Abandoned, Reserved, RowHeaded
    <3>3. Abandoned'
      BY <2>1, <3>1 DEF HeadInv, TypeOK, Abandoned, SetHead
    <3>4. (Reserved /\ RowHeaded /\ Buried)'
      BY <2>1, <3>1, <3>2 DEF Reserved, RowHeaded, Buried, SetHead
    <3> QED BY <2>2, <2>3, <3>3, <3>4 DEF HeadInv
  <2>5. CASE head.version # seen[r]
    <3>1. (Reserved /\ RowHeaded /\ Abandoned /\ Buried)'
      BY <1>2, <2>1, <2>5 DEF HeadInv, TypeOK, Reserved, RowHeaded, Abandoned, Buried,
                              RecoverFree, KeepHead
    <3> QED BY <2>2, <2>3, <3>1 DEF HeadInv
  <2> QED BY <2>4, <2>5
<1> QED BY <1>1, <1>2

\* Here it counts that no creator is late: the reservation does not run out.
LEMMA TickKeeps ==
    ASSUME HeadInv, Tick, ~late'
    PROVE  HeadInv'
<1> USE HeadAssumption DEF Requests
<1>1. TypeOK' BY DEF HeadInv, TypeOK, Tick
<1>2. (RowPlaces /\ RowHeaded /\ Abandoned /\ Buried)'
  BY DEF HeadInv, RowPlaces, RowHeaded, Abandoned, Buried, Tick
<1>3. Reserved'
  <2>1. SUFFICES ASSUME NEW c \in Creators, pc[c] = "insert"
                 PROVE  head.active = c /\ left' > 0
    BY DEF Reserved, Tick
  <2>2. head.active = c BY <2>1 DEF HeadInv, Reserved
  <2>3. Inserting BY <2>1, <2>2 DEF Inserting
  <2>4. left # 1 BY <2>3 DEF Tick
  <2> QED BY <2>2, <2>4 DEF HeadInv, TypeOK, Tick
<1> QED BY <1>1, <1>2, <1>3 DEF HeadInv

-----------------------------------------------------------------------------

LEMMA HeadInvInit == Init => HeadInv
<1> SUFFICES ASSUME Init PROVE HeadInv OBVIOUS
<1>1. TypeOK
  <2>1. head \in [active: Creators \cup {NoRun}, deleted: BOOLEAN, version: Nat]
    BY DEF Init
  <2>2. pc \in [Requests -> Places] /\ history \in [Requests -> Creators \cup {NoRun}]
    BY DEF Init, Places
  <2>3. /\ row \in [Creators -> {"none", "active", "terminal"}]
        /\ seen \in [Recoverers -> Nat]
        /\ \A r \in Recoverers : seen[r] = 0
    BY DEF Init
  <2>4. left \in 0 .. Timeout /\ crashes \in Nat
    BY HeadAssumption DEF Init
  <2>6. taskDeleted \in BOOLEAN /\ admitted \subseteq Creators /\ late \in BOOLEAN
    BY DEF Init
  <2>5. head.version = 0 BY DEF Init
  <2> QED BY <2>1, <2>2, <2>3, <2>4, <2>5, <2>6 DEF TypeOK
<1>2. RowPlaces BY DEF Init, RowPlaces, Requests, Early, Late
<1>3. Reserved /\ RowHeaded /\ Abandoned /\ Buried
  BY DEF Init, Reserved, RowHeaded, Abandoned, Buried, Requests
<1> QED BY <1>1, <1>2, <1>3 DEF HeadInv

LEMMA HeadInvStep ==
    ASSUME HeadInv, [Next]_vars, ~late'
    PROVE  HeadInv'
<1>1. CASE UNCHANGED vars
  BY <1>1 DEF vars, HeadInv, TypeOK, RowPlaces, Reserved, RowHeaded, Abandoned, Buried
<1>2. CASE Next
  BY <1>2, RequestStep, CreatorKeeps, DeleterKeeps, RecovererKeeps, TickKeeps DEF Next
<1> QED BY <1>1, <1>2

\* A creator that was late stays in the history.
LEMMA LateStays ==
    ASSUME [Next]_vars, late
    PROVE  late'
<1>1. CASE UNCHANGED vars BY <1>1 DEF vars
<1>2. ASSUME NEW p \in Requests, ReadHistory(p) \/ Reconcile(p) \/ Crash(p)
      PROVE  late'
  BY <1>2 DEF ReadHistory, Reconcile, Crash
<1>3. ASSUME NEW c \in Creators, CreatorStep(c)
      PROVE  late'
  BY <1>3 DEF CreatorStep, Start, Reserve, Insert, Restore, Verify, Withdraw, Check, Cancel,
              Publish, EndRun, Release
<1>4. ASSUME NEW d \in Deleters, StartDelete(d) \/ Tombstone(d) \/ Project(d)
      PROVE  late'
  BY <1>4 DEF StartDelete, Tombstone, Project
<1>5. ASSUME NEW r \in Recoverers, RecoverRead(r) \/ RecoverFree(r)
      PROVE  late'
  BY <1>5 DEF RecoverRead, RecoverFree
<1>6. CASE Tick BY <1>6 DEF Tick
<1> QED BY <1>1, <1>2, <1>3, <1>4, <1>5, <1>6 DEF Next

THEOREM PromptSafety == Spec => []PromptInv
<1>1. Init => PromptInv BY HeadInvInit DEF PromptInv
<1>2. ASSUME PromptInv, [Next]_vars PROVE PromptInv'
  <2>1. SUFFICES ASSUME ~late' PROVE HeadInv' BY DEF PromptInv
  <2>2. ~late BY <1>2, <2>1, LateStays
  <2> QED BY <1>2, <2>1, <2>2, HeadInvStep DEF PromptInv
<1> QED BY <1>1, <1>2, PTL DEF Spec

\* While creators are prompt, an admitted active run is always the head of its
\* task, index or not (create_queued, _reserve_head, recover_stale_reservations).
THEOREM PromptHeaded == Spec => []Headed
<1>1. PromptInv => Headed BY DEF PromptInv, HeadInv, TypeOK, RowHeaded, Headed
<1> QED BY <1>1, PromptSafety, PTL

\* Without the index it is the head that keeps two admitted runs from being
\* active together, until a creator is late (_reserve_head).
LEMMA PromptOneActiveRun ==
    ASSUME UniqueIndex = FALSE
    PROVE  Spec => []OneActiveRun
<1>1. PromptInv => OneActiveRun BY DEF PromptInv, HeadInv, TypeOK, RowHeaded, OneActiveRun
<1> QED BY <1>1, PromptSafety, PTL

\* While creators are prompt, a deletion is final and fences publication
\* (tombstone_task).
THEOREM PromptDeletionFences == Spec => DeletionFences
<1>1. PromptInv /\ [Next]_vars =>
        [~late =>
         /\ head.deleted => head'.deleted
         /\ \A c \in Creators :
               /\ pc[c] = "publish" /\ pc'[c] = "published" /\ row[c] = "active"
               => ~head.deleted]_vars
  <2> SUFFICES ASSUME HeadInv, Next, ~late
               PROVE  /\ head.deleted => head'.deleted
                      /\ \A c \in Creators :
                            /\ pc[c] = "publish" /\ pc'[c] = "published" /\ row[c] = "active"
                            => ~head.deleted
    BY DEF PromptInv
  <2>1. \A c \in Creators : row[c] = "active" => ~head.deleted
    BY HeadAssumption DEF HeadInv, RowHeaded, Buried
  <2>2. head.deleted => head'.deleted
    <3>1. ASSUME NEW p \in Requests, ReadHistory(p) \/ Reconcile(p) \/ Crash(p)
          PROVE  head.deleted => head' = head
      BY <3>1 DEF ReadHistory, Reconcile, Crash, LeaveHead, KeepHead
    <3>2. ASSUME NEW c \in Creators, CreatorStep(c)
          PROVE  head.deleted => head'.deleted
      BY <3>2 DEF CreatorStep, Start, Reserve, Insert, Restore, Verify, Withdraw, Check, Cancel,
                  Publish, EndRun, Release, SetHead, KeepHead
    <3>3. ASSUME NEW d \in Deleters, StartDelete(d) \/ Tombstone(d) \/ Project(d)
          PROVE  head.deleted => head'.deleted
      BY <3>3 DEF StartDelete, Tombstone, Project, SetHead, KeepHead
    <3>4. ASSUME NEW r \in Recoverers, RecoverRead(r) \/ RecoverFree(r)
          PROVE  head.deleted => head'.deleted
      BY <3>4 DEF RecoverRead, RecoverFree, SetHead, KeepHead
    <3>5. Tick => head' = head BY DEF Tick
    <3> QED BY <3>1, <3>2, <3>3, <3>4, <3>5 DEF Next
  <2> QED BY <2>1, <2>2
<1> QED BY <1>1, PromptSafety, PTL DEF Spec, DeletionFences

-----------------------------------------------------------------------------

\* With the partial unique index two runs of a task are never active together,
\* however long a creator is suspended (_ensure_indexes, ux_task_runs_one_active).
LEMMA IndexOneActiveRun ==
    ASSUME UniqueIndex = TRUE
    PROVE  Spec => []OneActiveRun
<1> DEFINE Rows == row \in [Creators -> {"none", "active", "terminal"}]
           Table == Rows /\ OneRow /\ admitted \subseteq Creators
<1>1. Init => Table
  BY DEF Init, OneRow
<1>2. ASSUME Table, [Next]_vars PROVE Table'
  <2>1. ASSUME NEW p \in Requests, ReadHistory(p) \/ Reconcile(p) \/ Crash(p)
        PROVE  Table'
    BY <1>2, <2>1 DEF ReadHistory, Reconcile, Crash, OneRow
  <2>2. ASSUME NEW c \in Creators, Insert(c)
        PROVE  Table'
    <3>1. CASE row' = [row EXCEPT ![c] = "active"] /\ ActiveRows = {}
      BY <1>2, <2>2, <3>1 DEF Insert, ActiveRows, OneRow
    <3>2. CASE UNCHANGED row
      BY <1>2, <2>2, <3>2 DEF Insert, OneRow
    <3> QED BY <2>2, <3>1, <3>2 DEF Insert, IndexRefuses
  <2>3. ASSUME NEW c \in Creators, CreatorStep(c), ~Insert(c)
        PROVE  Table'
    <3>1. admitted' \subseteq Creators
      BY <1>2, <2>3 DEF CreatorStep, Start, Reserve, Restore, Verify, Withdraw, Check, Cancel,
                        Publish, EndRun, Release
    <3>2. row' = row \/ \E s \in {"none", "terminal"} : row' = [row EXCEPT ![c] = s]
      BY <1>2, <2>3 DEF CreatorStep, Start, Reserve, Restore, Verify, Withdraw, Check, Cancel,
                        Publish, EndRun, Release
    <3> QED BY <1>2, <3>1, <3>2 DEF OneRow
  <2>4. ASSUME NEW d \in Deleters, StartDelete(d) \/ Tombstone(d) \/ Project(d)
        PROVE  Table'
    BY <1>2, <2>4 DEF StartDelete, Tombstone, Project, OneRow
  <2>5. ASSUME NEW r \in Recoverers, RecoverRead(r) \/ RecoverFree(r)
        PROVE  Table'
    BY <1>2, <2>5 DEF RecoverRead, RecoverFree, OneRow
  <2>6. CASE Tick \/ UNCHANGED vars
    BY <1>2, <2>6 DEF Tick, vars, OneRow
  <2> QED BY <1>2, <2>1, <2>2, <2>3, <2>4, <2>5, <2>6 DEF Next
<1>3. Table => OneActiveRun
  BY DEF OneRow, OneActiveRun
<1> QED BY <1>1, <1>2, <1>3, PTL DEF Spec

\* Two admitted runs of a task are never active together: with the index
\* however long a creator is suspended, without it until one is late
\* (create_queued, _reserve_head, _ensure_indexes).
THEOREM AdmitsOneActiveRun == Spec => []OneActiveRun
<1>1. CASE UniqueIndex = TRUE BY <1>1, IndexOneActiveRun
<1>2. CASE UniqueIndex = FALSE BY <1>2, PromptOneActiveRun
<1> QED BY <1>1, <1>2, HeadAssumption

=============================================================================
