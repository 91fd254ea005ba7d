-------------------------- MODULE SessionDocuments --------------------------
(***************************************************************************)
(* The documents of one conversation.  Four stores hold a piece of each:   *)
(* the ownership binding with its quota ledger (session_ownership.py), the *)
(* metadata row (media/documents.py), the bytes on disk                    *)
(* (media/document_storage.py) and the history of the Session row, which   *)
(* names the file the model may read.  No transaction spans them.          *)
(*                                                                         *)
(* Actors: a chat turn per document that promotes an upload                *)
(* (staging.promote_staged_attachments under sse._process_chat_action), the *)
(* clear and delete requests of the session routes, and the maintenance    *)
(* loop that recovers what a dead turn left.  A crash of the process ends  *)
(* them all; the four stores survive it.                                   *)
(*                                                                         *)
(* Time is not modelled: a lease may have run out whenever it is looked at.*)
(* A read of the binding and its conditional update run under one lock per *)
(* session and are one step; the update moves the binding's version, which *)
(* is kept as the set of those who moved it since a request read it: the   *)
(* request itself, another, or the begin of a clear or delete.             *)
(***************************************************************************)
EXTENDS Naturals, FiniteSets

CONSTANTS Docs,           \* uploads; the turn of an upload has its name
          Requests,       \* clear and delete requests
          Kind,           \* Kind[r] is "clear" or "delete"
          Quota,          \* MAX_SESSION_DOCUMENTS
          MaxGeneration,  \* bound on lifecycle operations begun
          MaxCrashes,     \* bound on crashes
          SlowTurns,      \* may a live promotion outlast its five-minute lease?
          NoDoc

ASSUME SessionAssumption ==
    /\ Quota \in Nat \ {0}
    /\ MaxGeneration \in Nat
    /\ MaxCrashes \in Nat
    /\ SlowTurns \in BOOLEAN
    /\ Kind \in [Requests -> {"clear", "delete"}]
    /\ NoDoc \notin Docs

VARIABLES own,        \* the binding: state, generation, document_count, ledger
          row,        \* status of the DocumentArtifact
          file,       \* bytes on disk: "none", "torn" (partly written, or left
                      \* under its quarantine name) or "whole"
          history,    \* documents the stored Session.chat names
          turn,       \* control of each turn
          gen,        \* generation each turn read
          mem,        \* documents in the Session each turn has loaded
          seen,       \* row status a rollback read before deleting the row
          req,        \* each request: control, rows left, row in hand, its status
          moved,      \* who moved the version since the request's token was read
          rec,        \* the maintenance loop: control and row in hand
          straddled,  \* turns that were running when a clear or delete began
          outrun,     \* documents listed by a request that had lost its authority
          crashes

store  == <<own, row, file, history>>
turns  == <<turn, gen, mem, seen>>
vars   == <<store, turns, req, moved, rec, straddled, outrun, crashes>>

Idle   == [pc |-> "idle", todo |-> {}, doc |-> NoDoc, status |-> "none"]
Fresh  == [pc |-> "idle", doc |-> NoDoc]
Uncommitted == {d \in Docs : own.ledger[d] \in {"pending", "adopting"}}
Ended  == {"idle", "done", "dead"}

-----------------------------------------------------------------------------
(* The ledger.                                                             *)

(* _cas: every conditional update moves the version under every token read. *)
Cas(actor, binding) ==
    /\ own' = binding
    /\ moved' = [r \in Requests |->
                    IF req[r].pc = "idle" THEN {}
                    ELSE moved[r] \cup {IF r = actor THEN "self" ELSE "other"}]

(* _reconcile_pending: a pending lease may have run out by the time it is   *)
(* looked at, and is then dropped; an adopting one never does.             *)
Pending == {d \in Docs : own.ledger[d] = "pending"}
Without(gone) == [d \in Docs |-> IF d \in gone THEN "none" ELSE own.ledger[d]]

Current(d) == own.state = "active" /\ own.gen = gen[d]

Room(gone) == own.count + Cardinality(Uncommitted \ gone) < Quota

(* release_reservation refuses a committed token, release_document any     *)
(* other; an absent one, or an absent binding, is left as it is.           *)
ReleaseReservation(actor, d) ==
    IF own.state # "none" /\ own.ledger[d] \in {"pending", "adopting"}
    THEN Cas(actor, [own EXCEPT !.ledger[d] = "none"])
    ELSE UNCHANGED <<own, moved>>

ReleaseDocument(actor, d) ==
    IF own.state # "none" /\ own.ledger[d] = "committed" /\ own.count > 0
    THEN Cas(actor, [own EXCEPT !.ledger[d] = "none", !.count = @ - 1])
    ELSE UNCHANGED <<own, moved>>

Release(actor, d, status) ==
    IF status = "adopted" THEN ReleaseDocument(actor, d)
                          ELSE ReleaseReservation(actor, d)

(* commit_reservation; a token already committed is returned unchanged.    *)
CanCommit(d) == own.state = "active" /\ own.ledger[d] \in {"adopting", "committed"}
Commit(actor, d) ==
    IF own.ledger[d] = "committed" THEN UNCHANGED <<own, moved>>
    ELSE Cas(actor, [own EXCEPT !.ledger[d] = "committed", !.count = @ + 1])

-----------------------------------------------------------------------------
(* A turn that promotes one upload.                                        *)

Go(d, from, to) == turn[d] = from /\ turn' = [turn EXCEPT ![d] = to]

(* The session is resolved: active binding, Session row loaded.            *)
Resolve(d) ==
    /\ own.state = "active"
    /\ Go(d, "idle", "bind")
    /\ mem' = [mem EXCEPT ![d] = history \cup {d}]
    /\ UNCHANGED <<store, gen, seen, req, moved, rec, straddled, outrun, crashes>>

(* prepare_document_for_storage: the active generation, ...                *)
ReadBinding(d) ==
    /\ Go(d, "bind", IF own.state = "active" THEN "intent" ELSE "done")
    /\ gen' = [gen EXCEPT ![d] = own.gen]
    /\ UNCHANGED <<store, mem, seen, req, moved, rec, straddled, outrun, crashes>>

(* ... the row, ...                                                        *)
SaveIntent(d) ==
    /\ Go(d, "intent", "reserve")
    /\ row' = [row EXCEPT ![d] = "intent"]
    /\ UNCHANGED <<own, file, history, gen, mem, seen, req,
                   moved, rec, straddled, outrun, crashes>>

(* ... the reservation against the quota, ...                              *)
ReserveIntent(d) ==
    /\ \E gone \in SUBSET Pending :
          IF Current(d) /\ own.ledger[d] = "none" /\ Room(gone)
          THEN /\ Go(d, "reserve", "mark")
               /\ Cas(d, [own EXCEPT !.ledger = [Without(gone) EXCEPT ![d] = "pending"]])
          ELSE Go(d, "reserve", "undo row") /\ UNCHANGED <<own, moved>>
    /\ UNCHANGED <<row, file, history, gen, mem, seen, req, rec, straddled, outrun, crashes>>

(* ... the row again, if it is still the intent, ...                       *)
MarkPending(d) ==
    /\ Go(d, "mark", IF row[d] = "intent" THEN "adopt" ELSE "undo row")
    /\ row' = [row EXCEPT ![d] = IF @ = "intent" THEN "pending" ELSE @]
    /\ UNCHANGED <<own, file, history, gen, mem, seen, req,
                   moved, rec, straddled, outrun, crashes>>

(* ... and the ledger once more, which stops the lease's clock.            *)
AdoptReservation(d) ==
    /\ \/ /\ Current(d) /\ own.ledger[d] = "pending"
          /\ Go(d, "adopt", "create")
          /\ Cas(d, [own EXCEPT !.ledger[d] = "adopting"])
       \/ Go(d, "adopt", "undo row") /\ UNCHANGED <<own, moved>>
    /\ UNCHANGED <<row, file, history, gen, mem, seen, req, rec, straddled, outrun, crashes>>

(* Its except branch: a row not yet past pending, then the reservation.    *)
UndoRow(d) ==
    /\ Go(d, "undo row", "undo ledger")
    /\ row' = [row EXCEPT ![d] = IF @ \in {"intent", "pending"} THEN "none" ELSE @]
    /\ UNCHANGED <<own, file, history, gen, mem, seen, req,
                   moved, rec, straddled, outrun, crashes>>

UndoLedger(d) ==
    /\ Go(d, "undo ledger", "rb row")
    /\ ReleaseReservation(d, d)
    /\ UNCHANGED <<row, file, history, gen, mem, seen, req,
                   rec, straddled, outrun, crashes>>

(* create_document_sync: the file exists before its bytes do.              *)
CreateFile(d) ==
    /\ Go(d, "create", "write")
    /\ file' = [file EXCEPT ![d] = "torn"]
    /\ UNCHANGED <<own, row, history, gen, mem, seen, req,
                   moved, rec, straddled, outrun, crashes>>

WriteFile(d) ==
    /\ Go(d, "write", "finalize")
    /\ file' = [file EXCEPT ![d] = "whole"]
    /\ UNCHANGED <<own, row, history, gen, mem, seen, req,
                   moved, rec, straddled, outrun, crashes>>

(* finalize_document_storage: pending to ready, with the exact identities. *)
Finalize(d) ==
    /\ Go(d, "finalize", IF row[d] = "pending" THEN "save" ELSE "rb file")
    /\ row' = [row EXCEPT ![d] = IF @ = "pending" THEN "ready" ELSE @]
    /\ UNCHANGED <<own, file, history, gen, mem, seen, req,
                   moved, rec, straddled, outrun, crashes>>

(* The user's message and its files are saved: the whole Session row, as   *)
(* this turn loaded it.  A failed save leaves the promotion unadopted.     *)
SaveHistory(d) ==
    /\ Go(d, "save", "mark adopted")
    /\ history' = mem[d]
    /\ UNCHANGED <<own, row, file, gen, mem, seen, req, moved,
                   rec, straddled, outrun, crashes>>

(* mark_documents_adopted: the row, then the ledger.  A refused update of  *)
(* either ends the adoption with an error; nothing is rolled back.         *)
MarkAdopted(d) ==
    /\ Go(d, "mark adopted", IF row[d] \in {"ready", "adopted"} THEN "commit"
                                                                 ELSE "answer")
    /\ row' = [row EXCEPT ![d] = IF @ = "ready" THEN "adopted" ELSE @]
    /\ UNCHANGED <<own, file, history, gen, mem, seen, req,
                   moved, rec, straddled, outrun, crashes>>

CommitReservation(d) ==
    /\ Go(d, "commit", "answer")
    /\ IF Current(d) /\ CanCommit(d)
       THEN Commit(d, d) \/ UNCHANGED <<own, moved>>
       ELSE UNCHANGED <<own, moved>>
    /\ UNCHANGED <<row, file, history, gen, mem, seen, req,
                   rec, straddled, outrun, crashes>>

(* The answer ends the turn with a second save of the whole row, which     *)
(* nothing checks against the binding; over a Session row that was deleted *)
(* meanwhile the store may insert it again or write nothing.               *)
SaveAnswer(d) ==
    /\ Go(d, "answer", "done")
    /\ \/ history' = mem[d]
       \/ own.state \in {"deleting", "none"} /\ UNCHANGED history
    /\ UNCHANGED <<own, row, file, gen, mem, seen, req, moved,
                   rec, straddled, outrun, crashes>>

(* A stop or an error before the adoption: rollback_promoted_attachments   *)
(* deletes the file, the row and, by the status the row had, the quota.    *)
Abandon(d) ==
    /\ turn[d] \in {"create", "write", "finalize", "save"}
    /\ turn' = [turn EXCEPT ![d] = "rb file"]
    /\ UNCHANGED <<store, gen, mem, seen, req, moved, rec, straddled, outrun, crashes>>

RollbackFile(d) ==
    /\ Go(d, "rb file", "rb row")
    /\ file' = [file EXCEPT ![d] = "none"]
    /\ UNCHANGED <<own, row, history, gen, mem, seen, req,
                   moved, rec, straddled, outrun, crashes>>

RollbackRow(d) ==
    /\ Go(d, "rb row", IF row[d] = "none" THEN "done" ELSE "rb ledger")
    /\ seen' = [seen EXCEPT ![d] = row[d]]
    /\ row' = [row EXCEPT ![d] = "none"]
    /\ UNCHANGED <<own, file, history, gen, mem, req, moved,
                   rec, straddled, outrun, crashes>>

RollbackLedger(d) ==
    /\ Go(d, "rb ledger", "done")
    /\ Release(d, d, seen[d])
    /\ seen' = [seen EXCEPT ![d] = "none"]
    /\ UNCHANGED <<row, file, history, gen, mem, req, rec, straddled, outrun, crashes>>

-----------------------------------------------------------------------------
(* Clear and delete.                                                       *)

Working(r, from) == req[r].pc = from
Becomes(r, now)  == req' = [req EXCEPT ![r] = now]
To(r, pc)        == Becomes(r, [req[r] EXCEPT !.pc = pc])
Lifecycle(r)     == IF Kind[r] = "clear" THEN "clearing" ELSE "deleting"
First(r)         == IF Kind[r] = "clear" THEN "chat" ELSE "find"

(* Mutant of BeginLifecycle: leases under adoption are not looked at.      *)
BeginOverAdoption(r) ==
    /\ Working(r, "idle")
    /\ own.state = "active"
    /\ own.gen < MaxGeneration
    /\ own' = [own EXCEPT !.state = Lifecycle(r), !.gen = @ + 1,
                          !.ledger = Without(Pending)]
    /\ moved' = [moved EXCEPT ![r] = {}]
    /\ To(r, First(r))
    /\ straddled' = straddled \cup {d \in Docs : turn[d] \notin Ended}
    /\ UNCHANGED <<row, file, history, turns, rec, outrun, crashes>>

(* _begin_lifecycle: an active binding without a live lease gets the next  *)
(* generation; the version the token holds is the one this update wrote.   *)
(* It is enabled when every pending lease has run out.                     *)
BeginLifecycle(r) ==
    /\ Working(r, "idle")
    /\ own.state = "active"
    /\ own.gen < MaxGeneration
    /\ Uncommitted = Pending
    /\ own' = [own EXCEPT !.state = Lifecycle(r), !.gen = @ + 1,
                          !.ledger = Without(Pending)]
    /\ moved' = [q \in Requests |->
                    IF q = r \/ req[q].pc = "idle" THEN {} ELSE moved[q] \cup {"begin"}]
    /\ To(r, First(r))
    /\ straddled' = straddled \cup {d \in Docs : turn[d] \notin Ended}
    /\ UNCHANGED <<row, file, history, turns, rec, outrun, crashes>>

(* resume_lifecycle: a later request for the same operation takes it up    *)
(* with the version as it stands.                                          *)
ResumeLifecycle(r) ==
    /\ Working(r, "idle")
    /\ own.state = Lifecycle(r)
    /\ moved' = [moved EXCEPT ![r] = {}]
    /\ To(r, First(r))
    /\ UNCHANGED <<store, turns, rec, straddled, outrun, crashes>>

ClearChat(r) ==
    /\ Working(r, "chat")
    /\ history' = {}
    /\ To(r, "find")
    /\ UNCHANGED <<own, row, file, turns, moved, rec, straddled, outrun,
                   outrun, crashes>>

(* delete_owned_session_artifacts: refused unless the generation it was    *)
(* begun for still holds, which is the binding's until the next begins.    *)
Authorized(r) == own.state = Lifecycle(r) /\ "begin" \notin moved[r]

CheckAuthority(r) ==
    /\ Working(r, "find")
    /\ To(r, IF Authorized(r) THEN "list" ELSE "idle")
    /\ UNCHANGED <<store, turns, moved, rec, straddled, outrun, crashes>>

(* The media of the session go first, and delete_session_documents looks   *)
(* only whether there is a binding, and lists every row there is by then.  *)
FindDocuments(r) ==
    LET found == {d \in Docs : row[d] # "none"} IN
    /\ Working(r, "list")
    /\ IF own.state = "none" THEN Becomes(r, Idle) /\ UNCHANGED outrun
       ELSE /\ Becomes(r, [Idle EXCEPT !.pc = "file", !.todo = found])
            /\ outrun' = IF Authorized(r) THEN outrun ELSE outrun \cup found
    /\ UNCHANGED <<store, turns, moved, rec, straddled, crashes>>

(* A row without identities is inspected first, and torn bytes refuse it.  *)
Unreadable(d) == file[d] = "torn" /\ row[d] \notin {"ready", "adopted"}

DeleteFile(r, d) ==
    /\ Working(r, "file")
    /\ d \in req[r].todo
    /\ IF Unreadable(d) THEN Becomes(r, Idle) /\ UNCHANGED file
       ELSE /\ file' = [file EXCEPT ![d] = "none"]
            /\ Becomes(r, [req[r] EXCEPT !.pc = "row", !.doc = d])
    /\ UNCHANGED <<own, row, history, turns, moved, rec,
                   straddled, outrun, crashes>>

(* delete_document_metadata: the row, then the quota it held.              *)
DeleteRow(r) ==
    LET d == req[r].doc IN
    /\ Working(r, "row")
    /\ Becomes(r, IF row[d] = "none"
                  THEN [Idle EXCEPT !.pc = "file", !.todo = req[r].todo \ {d}]
                  ELSE [pc |-> "ledger", todo |-> req[r].todo \ {d}, doc |-> d,
                        status |-> row[d]])
    /\ row' = [row EXCEPT ![d] = "none"]
    /\ UNCHANGED <<own, file, history, turns, moved, rec,
                   straddled, outrun, crashes>>

ReleaseQuota(r) ==
    /\ Working(r, "ledger")
    /\ Release(r, req[r].doc, req[r].status)
    /\ Becomes(r, [req[r] EXCEPT !.pc = "file", !.doc = NoDoc, !.status = "none"])
    /\ UNCHANGED <<row, file, history, turns, rec, straddled, outrun, crashes>>

Emptied(r) == Working(r, "file") /\ req[r].todo = {}

(* A delete removes the Session row next.                                  *)
DeleteSession(r) ==
    /\ Emptied(r) /\ Kind[r] = "delete"
    /\ history' = {}
    /\ To(r, "finish")
    /\ UNCHANGED <<own, row, file, turns, moved, rec, straddled, outrun, crashes>>

(* finish_clear and finish_delete: the token must still name the version.  *)
AtFinish(r) == Working(r, "finish") \/ (Kind[r] = "clear" /\ Emptied(r))
Finish(r) ==
    /\ AtFinish(r)
    /\ IF moved[r] = {} /\ own.state = Lifecycle(r)
       THEN Cas(r, [own EXCEPT
                      !.state = IF Kind[r] = "clear" THEN "active" ELSE "none",
                      !.count = 0,
                      !.ledger = [d \in Docs |-> "none"]])
       ELSE UNCHANGED <<own, moved>>
    /\ Becomes(r, Idle)
    /\ UNCHANGED <<row, file, history, turns, rec, straddled, outrun, crashes>>

-----------------------------------------------------------------------------
(* The maintenance loop: reconcile_expired.                                *)

Recover(from, pc) ==
    /\ rec.pc = from
    /\ rec' = IF pc = "idle" THEN Fresh ELSE [rec EXCEPT !.pc = pc]
Promoting(d) ==
    turn[d] \in {"adopt", "create", "write", "finalize", "save", "mark adopted"}

(* An expired row is leased by a conditional update of status and expiry.  *)
(* A row may have expired at any time, but, unless SlowTurns, not while a  *)
(* live turn is between the adoption of its lease and of its document.     *)
TakeExpired(d) ==
    /\ rec.pc = "idle"
    /\ row[d] \in {"intent", "pending", "ready", "reconciling"}
    /\ Promoting(d) => SlowTurns
    /\ row' = [row EXCEPT ![d] = "reconciling"]
    /\ rec' = [pc |-> "inspect", doc |-> d]
    /\ UNCHANGED <<own, file, history, turns, req, moved, straddled, outrun,
                   outrun, crashes>>

(* Mutant of Inspect: an unadopted document is deleted without a look at   *)
(* the history.                                                            *)
InspectBlind ==
    /\ Recover("inspect", IF file[rec.doc] = "torn" THEN "idle" ELSE "file")
    /\ UNCHANGED <<store, turns, req, moved, straddled, outrun, crashes>>

(* Torn bytes fail closed.  Whole bytes the stored history names are       *)
(* adopted; anything else is deleted.                                      *)
Inspect ==
    LET d == rec.doc IN
    /\ Recover("inspect", CASE file[d] = "torn" -> "idle"
                            [] file[d] = "whole" /\ d \in history -> "ready"
                            [] OTHER -> "file")
    /\ UNCHANGED <<store, turns, req, moved, straddled, outrun, crashes>>

RecoverReady ==
    LET d == rec.doc IN
    /\ Recover("ready", IF row[d] = "reconciling" THEN "adopted" ELSE "idle")
    /\ row' = [row EXCEPT ![d] = IF @ = "reconciling" THEN "ready" ELSE @]
    /\ UNCHANGED <<own, file, history, turns, req, moved,
                   straddled, outrun, crashes>>

RecoverAdopted ==
    LET d == rec.doc IN
    /\ Recover("adopted", IF row[d] \in {"ready", "adopted"} THEN "commit" ELSE "idle")
    /\ row' = [row EXCEPT ![d] = IF @ = "ready" THEN "adopted" ELSE @]
    /\ UNCHANGED <<own, file, history, turns, req, moved,
                   straddled, outrun, crashes>>

RecoverCommit ==
    LET d == rec.doc IN
    /\ Recover("commit", "idle")
    /\ IF Current(d) /\ CanCommit(d) THEN Commit("maintenance", d)
                                     ELSE UNCHANGED <<own, moved>>
    /\ UNCHANGED <<row, file, history, turns, req, straddled, outrun,
                   outrun, crashes>>

RecoverFile ==
    /\ Recover("file", "row")
    /\ file' = [file EXCEPT ![rec.doc] = "none"]
    /\ UNCHANGED <<own, row, history, turns, req, moved,
                   straddled, outrun, crashes>>

RecoverRow ==
    LET d == rec.doc IN
    /\ Recover("row", IF row[d] = "reconciling" THEN "ledger" ELSE "idle")
    /\ row' = [row EXCEPT ![d] = IF @ = "reconciling" THEN "none" ELSE @]
    /\ UNCHANGED <<own, file, history, turns, req, moved,
                   straddled, outrun, crashes>>

RecoverLedger ==
    /\ Recover("ledger", "idle")
    /\ ReleaseReservation("maintenance", rec.doc)
    /\ UNCHANGED <<row, file, history, turns, req, straddled, outrun,
                   outrun, crashes>>

(* Mutant of SweepLedger: only tokens still pending are released.          *)
SweepPending(d) ==
    /\ rec.pc = "idle"
    /\ row[d] = "none" /\ own.ledger[d] = "pending"
    /\ ReleaseReservation("maintenance", d)
    /\ UNCHANGED <<row, file, history, turns, req, rec, straddled, outrun, crashes>>

(* _reconcile_orphaned_ledger_tokens: a token without a row is released, an *)
(* adopting one whose row is adopted is committed.                          *)
SweepLedger(d) ==
    /\ rec.pc = "idle"
    /\ own.state # "none"
    /\ \/ row[d] = "none" /\ own.ledger[d] = "committed" /\ ReleaseDocument("maintenance", d)
       \/ row[d] = "none" /\ d \in Uncommitted /\ ReleaseReservation("maintenance", d)
       \/ row[d] = "adopted" /\ own.ledger[d] = "adopting" /\ Current(d)
          /\ Commit("maintenance", d)
    /\ UNCHANGED <<row, file, history, turns, req, rec,
                   straddled, outrun, crashes>>

-----------------------------------------------------------------------------

(* Whoever deletes a file renames it first.  A crash in between leaves it  *)
(* where only its identity finds it, which a row has once it is ready.     *)
Deleted(d) ==
    \/ turn[d] = "rb file"
    \/ rec = [pc |-> "file", doc |-> d]
    \/ \E r \in Requests : Working(r, "file") /\ d \in req[r].todo

Losable == {d \in Docs : file[d] = "whole" /\ row[d] \notin {"ready", "adopted"} /\ Deleted(d)}

Crash ==
    /\ crashes < MaxCrashes
    /\ crashes' = crashes + 1
    /\ \E cut \in SUBSET Losable :
          file' = [d \in Docs |-> IF d \in cut THEN "torn" ELSE file[d]]
    /\ turn' = [d \in Docs |-> IF turn[d] \in Ended THEN turn[d] ELSE "dead"]
    /\ req' = [r \in Requests |-> Idle]
    /\ moved' = [r \in Requests |-> {}]
    /\ rec' = Fresh
    /\ UNCHANGED <<own, row, history, gen, mem, seen, straddled, outrun>>

-----------------------------------------------------------------------------
Init ==
    /\ own = [state |-> "active", gen |-> 0, count |-> 0,
              ledger |-> [d \in Docs |-> "none"]]
    /\ history = {} /\ straddled = {} /\ outrun = {}
    /\ row = [d \in Docs |-> "none"]
    /\ file = [d \in Docs |-> "none"]
    /\ turn = [d \in Docs |-> "idle"]
    /\ gen = [d \in Docs |-> 0]
    /\ mem = [d \in Docs |-> {}]
    /\ seen = [d \in Docs |-> "none"]
    /\ req = [r \in Requests |-> Idle]
    /\ moved = [r \in Requests |-> {}]
    /\ rec = Fresh
    /\ crashes = 0

Turn(d) ==
    \/ Resolve(d) \/ ReadBinding(d) \/ SaveIntent(d) \/ ReserveIntent(d)
    \/ MarkPending(d) \/ AdoptReservation(d) \/ UndoRow(d) \/ UndoLedger(d)
    \/ CreateFile(d) \/ WriteFile(d) \/ Finalize(d) \/ SaveHistory(d)
    \/ MarkAdopted(d) \/ CommitReservation(d) \/ SaveAnswer(d) \/ Abandon(d)
    \/ RollbackFile(d) \/ RollbackRow(d) \/ RollbackLedger(d)

Request(r) ==
    \/ BeginLifecycle(r) \/ ResumeLifecycle(r) \/ ClearChat(r) \/ CheckAuthority(r)
    \/ FindDocuments(r)
    \/ \E d \in Docs : DeleteFile(r, d)
    \/ DeleteRow(r) \/ ReleaseQuota(r) \/ DeleteSession(r) \/ Finish(r)

Reconcile ==
    \/ Inspect \/ RecoverReady \/ RecoverAdopted \/ RecoverCommit
    \/ RecoverFile \/ RecoverRow \/ RecoverLedger

Maintenance == Reconcile \/ \E d \in Docs : TakeExpired(d) \/ SweepLedger(d)

Next ==
    \/ \E d \in Docs : Turn(d)
    \/ \E r \in Requests : Request(r)
    \/ Maintenance \/ Crash

(* The maintenance loop runs for as long as the process does and restarts  *)
(* with it; a sweep takes the expired rows with the oldest expiry and gives *)
(* each it takes a later one, so none waits for ever.  Nothing of the kind *)
(* holds of SweepLedger.  Turns and requests may stop anywhere.            *)
Spec ==
    /\ Init /\ [][Next]_vars
    /\ WF_vars(Reconcile)
    /\ \A d \in Docs : SF_vars(TakeExpired(d))

-----------------------------------------------------------------------------
(* Properties.                                                             *)

(* Bytes on disk are always charged: whatever dies where, a file has a     *)
(* ledger token past the point where time alone could release it, and a    *)
(* row by which recovery finds it.  So the quota bounds the files too, but *)
(* for those a request listed after its clear or delete was over.          *)
FileCharged ==
    /\ \A d \in Docs \ outrun : file[d] # "none" =>
           own.ledger[d] \in {"adopting", "committed"} /\ row[d] # "none"
    /\ Cardinality({d \in Docs \ outrun : file[d] # "none"}) <= Quota

(* The counter the quota is judged by is the number of committed tokens,   *)
(* through retries, double cleanups and the recovery of half-done ones.    *)
CountExact == own.count = Cardinality({d \in Docs : own.ledger[d] = "committed"})

(* So the quota of a session holds for its files.                          *)
QuotaHolds == FileCharged /\ CountExact

(* A document the stored history names can be read, unless a delete is     *)
(* under way, a turn that was running when a clear began wrote back the    *)
(* history it had loaded, or a request listed the document after the clear *)
(* it was to do had been ended by another.                                 *)
HistoryServed ==
    \A d \in history : \/ file[d] = "whole"
                       \/ own.state = "deleting"
                       \/ \E e \in straddled : d \in mem[e]
                       \/ d \in outrun

(* What a dead turn left of a promotion is in the end adopted as a whole   *)
(* or gone from the three stores, but for bytes cut off while written or   *)
(* deleted, which no recovery deletes, while a clear or delete that nobody *)
(* takes up again has the session, and what such a late listing met.  The  *)
(* row and the file get there by the sweep of the rows alone; the token    *)
(* does too if the page of 64 bindings that the sweep of the ledgers reads, *)
(* those longest unchanged, comes to this session again and again.         *)
Adopted(d) == row[d] = "adopted" /\ own.ledger[d] = "committed" /\ file[d] = "whole"
Gone(d)    == row[d] = "none" /\ own.ledger[d] = "none" /\ file[d] = "none"
TokenLeft(d) == \/ row[d] = "adopted" /\ own.ledger[d] = "adopting" /\ file[d] = "whole"
                \/ row[d] = "none" /\ own.ledger[d] # "none" /\ file[d] = "none"
OutOfReach(d) == file[d] = "torn" \/ own.state # "active" \/ d \in outrun

PageComes(d) == SF_vars(SweepLedger(d))
DeadSettles ==
    \A d \in Docs :
        /\ turn[d] = "dead" ~> (Adopted(d) \/ Gone(d) \/ TokenLeft(d) \/ OutOfReach(d))
        /\ PageComes(d) => (turn[d] = "dead" ~> (Adopted(d) \/ Gone(d) \/ OutOfReach(d)))

=============================================================================
