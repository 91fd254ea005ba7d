----------------------------- MODULE MediaAssets -----------------------------
(***************************************************************************)
(* The images of one session (media/service.py).  A creation writes three  *)
(* temporary files, checks the quota, renames them and saves a row; a view *)
(* makes a thumbnail that is missing; a deletion unlinks files and then    *)
(* deletes rows.  Each holds the lock of the session, in one process,      *)
(* while it changes anything.  A call may fail or be cancelled at every    *)
(* await, and the process may die.                                         *)
(*                                                                         *)
(* Pixels, formats and sizes are left out: every file weighs one.          *)
(***************************************************************************)
EXTENDS Naturals, FiniteSets

CONSTANTS
    Creators,       \* each creates one artifact, which has its name
    Viewers,        \* each repairs at most one thumbnail
    Deleters,       \* clears of the session and rollbacks of one artifact
    Nobody,
    MaxBytes,       \* MAX_SESSION_BYTES
    MaxArtifacts,   \* MAX_SESSION_ARTIFACTS
    MaxFailed       \* bound: failed calls, cancellations, deaths, damaged files

VARIABLES
    rows,           \* rows[a]: the row of a: whose thumbnail it names, if any
    files,          \* final files: <<artifact, variant>>
    temps,          \* temporary files
    damaged,        \* thumbnails that no longer decode
    holder,         \* who holds the session's lock
    making,         \* making[a]: who holds the artifact's lock
    op,             \* op[x]: where x is, and what it works on
    outcome,        \* outcome[c]: what the caller of a creation was told
    stray,          \* files a cleanup gave up on
    doomed,         \* artifacts a deletion has begun to take apart and not finished
    failed

mvars == <<rows, files, temps, damaged, holder, making, op, outcome, stray, doomed, failed>>

Actors == Creators \cup Viewers \cup Deleters
Required == {"original", "vision"}
Thumbs == Creators \cup Viewers         \* a thumbnail is told by who made it
Absent == [kept |-> FALSE, thumb |-> Nobody]

\* Whoever calls does one thing, and a thumbnail is not a picture.
ASSUME ImagesAssumption ==
    /\ Creators \cap Viewers = {} /\ Creators \cap Deleters = {} /\ Viewers \cap Deleters = {}
    /\ Nobody \notin Actors /\ Required \cap Thumbs = {}
    /\ MaxBytes \in Nat /\ MaxArtifacts \in Nat /\ MaxFailed \in Nat

ImagesTypeOK ==
    /\ rows \in [Creators -> [kept : BOOLEAN, thumb : Thumbs \cup {Nobody}]]
    /\ {files, temps, stray, damaged} \subseteq SUBSET (Creators \X (Required \cup Thumbs))
    /\ holder \in Actors \cup {Nobody} /\ doomed \subseteq Creators
    /\ making \in [Creators -> Viewers \cup {Nobody}]
    /\ outcome \in [Creators -> {"none", "stored", "refused", "owed", "lost"}]
    /\ failed <= MaxFailed

ImagesInit ==
    /\ rows = [a \in Creators |-> Absent]
    /\ files = {} /\ temps = {} /\ damaged = {} /\ stray = {} /\ doomed = {}
    /\ holder = Nobody /\ making = [a \in Creators |-> Nobody]
    /\ op = [x \in Actors |-> [pc |-> "start", of |-> {}, left |-> {}, thumb |-> TRUE]]
    /\ outcome = [c \in Creators |-> "none"]
    /\ failed = 0

-----------------------------------------------------------------------------
Doing(x, pc) == op[x].pc = pc
GoesOn(x, pc) == op' = [op EXCEPT ![x].pc = pc]
Trouble == failed < MaxFailed /\ failed' = failed + 1
Fine == UNCHANGED failed
Release(x) == holder = x /\ holder' = Nobody

\* The files a row names (_artifact_variant_paths), and what they weigh.
Named(a) ==
    IF ~rows[a].kept THEN {}
    ELSE {<<a, v>> : v \in Required \cup ({rows[a].thumb} \ {Nobody})}
Kept == UNION {Named(a) : a \in Creators}
Bytes == Cardinality(Kept \cap files)

Retained == {a \in Creators : rows[a].kept}

-----------------------------------------------------------------------------
(* A creation: _commit_processed inside _run_transaction_joined.           *)

Made(c) == {<<c, v>> : v \in Required \cup {c}}
Variant(c, v) == <<c, IF v = "thumbnail" THEN c ELSE v>>

\* What follows the writing, then the renaming, of each variant.
AfterWrite == [original |-> "write vision", vision |-> "write thumbnail", thumbnail |-> "quota"]
AfterPromote == [original |-> "promote vision", vision |-> "promote thumbnail", thumbnail |-> "save"]
WriteOf == [original |-> "write original", vision |-> "write vision", thumbnail |-> "write thumbnail"]
PromoteOf == [original |-> "promote original", vision |-> "promote vision",
              thumbnail |-> "promote thumbnail"]
Variants == {"original", "vision", "thumbnail"}

\* A picture may be too large, unreadable or without a thumbnail.
BeginCreate(c) ==
    /\ Doing(c, "start") /\ holder = Nobody
    /\ \/ /\ holder' = c /\ UNCHANGED outcome
          /\ \E thumb \in BOOLEAN :
                op' = [op EXCEPT ![c].pc = "write original", ![c].thumb = thumb]
       \/ GoesOn(c, "done") /\ outcome' = [outcome EXCEPT ![c] = "refused"] /\ UNCHANGED holder
    /\ UNCHANGED <<rows, files, temps, damaged, making, stray, doomed>> /\ Fine

Write(c, v) ==
    /\ Doing(c, WriteOf[v]) /\ GoesOn(c, AfterWrite[v])
    /\ temps' = IF v = "thumbnail" /\ ~op[c].thumb THEN temps ELSE temps \cup {Variant(c, v)}
    /\ UNCHANGED <<rows, files, damaged, holder, making, outcome, stray, doomed>> /\ Fine

\* Mutant: the quota counts the files of the artifacts and not the new ones.
RetainedOnly(c) == Bytes <= MaxBytes

Fits(c) == Bytes + Cardinality(Required) + (IF op[c].thumb THEN 1 ELSE 0) <= MaxBytes

CheckQuota(c) ==
    /\ Doing(c, "quota")
    /\ GoesOn(c, IF Cardinality(Retained) < MaxArtifacts /\ Fits(c)
               THEN "promote original" ELSE "undo")
    /\ UNCHANGED <<rows, files, temps, damaged, holder, making, outcome, stray, doomed>> /\ Fine

PromoteImage(c, v) ==
    /\ Doing(c, PromoteOf[v]) /\ GoesOn(c, AfterPromote[v])
    /\ temps' = temps \ {Variant(c, v)}
    /\ files' = IF v = "thumbnail" /\ ~op[c].thumb THEN files ELSE files \cup {Variant(c, v)}
    /\ UNCHANGED <<rows, damaged, holder, making, outcome, stray, doomed>> /\ Fine

\* The thumbnail is dispensable.
LoseThumbnail(c) ==
    /\ Trouble /\ op[c].thumb
    /\ \E v \in {"thumbnail"} :
          \/ Doing(c, WriteOf[v]) /\ op' = [op EXCEPT ![c].pc = "quota", ![c].thumb = FALSE]
          \/ Doing(c, PromoteOf[v]) /\ op' = [op EXCEPT ![c].pc = "save", ![c].thumb = FALSE]
    /\ temps' = temps \ {<<c, c>>}
    /\ UNCHANGED <<rows, files, damaged, holder, making, outcome, stray, doomed>>

\* Mutant: a cancelled save is taken for one that failed.
AsUnsaved(c) == GoesOn(c, "undo")

\* Cancelled: the save is settled first, and what it did is taken back.
SettleSave(c) == GoesOn(c, "discard")

Save(c) ==
    /\ Doing(c, "save")
    /\ rows' = [rows EXCEPT ![c] = [kept |-> TRUE, thumb |-> IF op[c].thumb THEN c ELSE Nobody]]
    /\ \/ GoesOn(c, "tidy") /\ Fine
       \/ SettleSave(c) /\ Trouble
    /\ UNCHANGED <<files, temps, damaged, holder, making, outcome, stray, doomed>>

\* The reference is returned; a cancellation that arrives now leaves an
\* artifact nobody was told of (the finally clause raises past the result).
Tidy(c) ==
    /\ Doing(c, "tidy") /\ GoesOn(c, "done") /\ Release(c)
    /\ \/ outcome' = [outcome EXCEPT ![c] = "stored"] /\ Fine
       \/ outcome' = [outcome EXCEPT ![c] = "lost"] /\ Trouble
    /\ UNCHANGED <<rows, files, temps, damaged, making, stray, doomed>>

\* A call before the save fails, or is cancelled: the thread it runs in ends first.
AbortCreate(c) ==
    /\ Trouble
    /\ op[c].pc \in {WriteOf[v] : v \in Variants} \cup {PromoteOf[v] : v \in Variants}
                    \cup {"quota", "save"}
    /\ GoesOn(c, "undo")
    /\ temps' \in {temps} \cup {temps \cup {Variant(c, v)} : v \in {w \in Variants : Doing(c, WriteOf[w])}}
    /\ UNCHANGED <<rows, files, damaged, holder, making, outcome, stray, doomed>>

\* Mutant: the undo removes the temporary files only.
TempsOnly(c) == temps' = temps \ Made(c) /\ UNCHANGED files

RemoveMade(c) == temps' = temps \ Made(c) /\ files' = files \ Made(c)

\* Cleanup swallows what cannot be unlinked, and a cancellation ends it.
Undo(c) ==
    /\ Doing(c, "undo") /\ GoesOn(c, "done") /\ Release(c)
    /\ outcome' = [outcome EXCEPT ![c] = "refused"]
    /\ \/ RemoveMade(c) /\ Fine /\ UNCHANGED stray
       \/ /\ Trouble
          /\ \E left \in SUBSET (Made(c) \cap (files \cup temps)) :
                /\ left # {} /\ stray' = stray \cup left
                /\ files' = files \ (Made(c) \ left) /\ temps' = temps \ (Made(c) \ left)
    /\ UNCHANGED <<rows, damaged, making, doomed>>

\* _discard_committed_artifact, whose failure tells the caller which artifact is left.
Discard(c) ==
    /\ Doing(c, "discard") /\ GoesOn(c, "done") /\ Release(c)
    /\ \/ /\ Fine /\ UNCHANGED doomed /\ outcome' = [outcome EXCEPT ![c] = "refused"]
          /\ files' = files \ Named(c) /\ rows' = [rows EXCEPT ![c] = Absent]
       \/ /\ Trouble /\ outcome' = [outcome EXCEPT ![c] = "owed"]
          /\ doomed' = doomed \cup {c}
          /\ \E gone \in SUBSET Named(c) : files' = files \ gone
          /\ UNCHANGED rows
    /\ UNCHANGED <<temps, damaged, making, stray>>

-----------------------------------------------------------------------------
(* A view of the thumbnail: _ensure_thumbnail.                             *)

Shown(a) == rows[a].thumb # Nobody /\ <<a, rows[a].thumb>> \in files \ damaged

\* Outside the lock of the session: the row and the original are read.
LookUp(v, a) ==
    /\ Doing(v, "start") /\ making[a] = Nobody
    /\ IF rows[a].kept /\ ~Shown(a) /\ <<a, "original">> \in files
       THEN /\ op' = [op EXCEPT ![v].pc = "made", ![v].of = {a}]
            /\ making' = [making EXCEPT ![a] = v]
       ELSE GoesOn(v, "done") /\ UNCHANGED making
    /\ UNCHANGED <<rows, files, temps, damaged, holder, outcome, stray, doomed>> /\ Fine

\* Mutant: the row that was read before the lock is still good.
AsLooked(a) == TRUE

StillWanted(a) == rows[a].kept /\ ~Shown(a)

Replaced(a) == Named(a) \cap files \cap {<<a, t>> : t \in Thumbs}

EndView(v) ==
    /\ GoesOn(v, "done")
    /\ making' = [a \in Creators |-> IF making[a] = v THEN Nobody ELSE making[a]]

\* The row is read again under the lock, then the quota.
ClaimSession(v, a) ==
    /\ Doing(v, "made") /\ a \in op[v].of /\ holder = Nobody
    /\ IF StillWanted(a) /\ Bytes - Cardinality(Replaced(a)) + 1 <= MaxBytes
       THEN GoesOn(v, "store") /\ holder' = v /\ UNCHANGED making
       ELSE EndView(v) /\ UNCHANGED holder
    /\ UNCHANGED <<rows, files, temps, damaged, outcome, stray, doomed>> /\ Fine

StoreThumb(v, a) ==
    /\ Doing(v, "store") /\ a \in op[v].of /\ GoesOn(v, "name it")
    /\ files' = files \cup {<<a, v>>}
    /\ UNCHANGED <<rows, temps, damaged, holder, making, outcome, stray, doomed>> /\ Fine

\* The row names the new file before the old one is removed.
NameThumb(v, a) ==
    /\ Doing(v, "name it") /\ a \in op[v].of
    /\ rows' = [rows EXCEPT ![a] = [kept |-> TRUE, thumb |-> v]]
    /\ op' = [op EXCEPT ![v].pc = "drop", ![v].left = Replaced(a)]
    /\ UNCHANGED <<files, temps, damaged, holder, making, outcome, stray, doomed>> /\ Fine

DropOld(v) ==
    /\ Doing(v, "drop") /\ EndView(v) /\ Release(v)
    /\ \/ files' = files \ op[v].left /\ Fine /\ UNCHANGED stray
       \/ Trouble /\ stray' = stray \cup op[v].left /\ UNCHANGED files
    /\ UNCHANGED <<rows, temps, damaged, outcome, doomed>>

\* Failed or cancelled before the row was saved.
AbortView(v, a) ==
    /\ a \in op[v].of /\ Trouble /\ EndView(v)
    /\ \/ Doing(v, "made") /\ UNCHANGED <<holder, files, stray>>
       \/ /\ op[v].pc \in {"store", "name it"} /\ Release(v)
          /\ \/ files' = files \ {<<a, v>>} /\ UNCHANGED stray
             \/ stray' = stray \cup ({<<a, v>>} \cap files) /\ UNCHANGED files
    /\ UNCHANGED <<rows, temps, damaged, outcome, doomed>>

-----------------------------------------------------------------------------
(* Deletions: delete_session_media and delete_artifacts.                   *)

BeginDelete(d, which) ==
    /\ Doing(d, "start") /\ holder = Nobody /\ holder' = d
    /\ which = Creators \/ Cardinality(which) = 1
    /\ op' = [op EXCEPT ![d] = [@ EXCEPT !.pc = "unlink", !.of = which \cap Retained,
                                         !.left = UNION {Named(a) : a \in which}]]
    /\ doomed' = doomed \cup (which \cap Retained)
    /\ UNCHANGED <<rows, files, temps, damaged, making, outcome, stray>> /\ Fine

Unlink(d) ==
    /\ Doing(d, "unlink")
    /\ \E f \in op[d].left :
          op' = [op EXCEPT ![d].left = @ \ {f}] /\ files' = files \ {f}
    /\ UNCHANGED <<rows, temps, damaged, holder, making, outcome, stray, doomed>> /\ Fine

\* Mutant: the rows go first, and with them the way to the files.
RowsFirst(d) == TRUE

FilesAreGone(d) == op[d].left = {}

\* A row that is deleted is a file that is gone.
DeleteRows(d) ==
    /\ Doing(d, "unlink") /\ FilesAreGone(d) /\ Release(d) /\ GoesOn(d, "done")
    /\ rows' = [a \in Creators |-> IF a \in op[d].of THEN Absent ELSE rows[a]]
    /\ doomed' = doomed \ op[d].of
    /\ UNCHANGED <<files, temps, damaged, making, outcome, stray>> /\ Fine

\* A file that cannot be removed, or a cancellation: the rows stay and name what
\* is left for the next deletion.
AbortDelete(d) ==
    /\ Doing(d, "unlink") /\ Trouble /\ Release(d) /\ GoesOn(d, "start")
    /\ UNCHANGED <<rows, files, temps, damaged, making, outcome, stray, doomed>>

-----------------------------------------------------------------------------
\* A thumbnail no longer decodes.
Damage(f) ==
    /\ Trouble /\ f \in files \ damaged /\ f[2] \in Thumbs /\ damaged' = damaged \cup {f}
    /\ UNCHANGED <<rows, files, temps, holder, making, op, outcome, stray, doomed>>

\* The process dies: what was not yet named by a row stays, and nobody knows it.
Die ==
    /\ Trouble
    /\ \E x \in Actors : op[x].pc \notin {"start", "done"}
    /\ stray' = stray \cup temps \cup (files \ Kept)
    /\ op' = [x \in Actors |-> IF Doing(x, "start") \/ x \in Deleters
                               THEN [op[x] EXCEPT !.pc = IF Doing(x, "done") THEN "done" ELSE "start"]
                               ELSE [op[x] EXCEPT !.pc = "done"]]
    /\ outcome' = [c \in Creators |-> IF op[c].pc \in {"start", "done"} THEN outcome[c] ELSE "lost"]
    /\ holder' = Nobody /\ making' = [a \in Creators |-> Nobody]
    /\ UNCHANGED <<rows, files, temps, damaged, doomed>>

CreateImage(c) ==
    \/ BeginCreate(c) \/ CheckQuota(c) \/ LoseThumbnail(c) \/ Save(c) \/ Tidy(c)
    \/ AbortCreate(c) \/ Undo(c) \/ Discard(c)
    \/ \E v \in Variants : Write(c, v) \/ PromoteImage(c, v)
View(v) ==
    \/ DropOld(v)
    \/ \E a \in Creators : \/ LookUp(v, a) \/ ClaimSession(v, a) \/ StoreThumb(v, a)
                           \/ NameThumb(v, a) \/ AbortView(v, a)
DeleteImages(d) ==
    \/ Unlink(d) \/ DeleteRows(d) \/ AbortDelete(d)
    \/ \E which \in SUBSET Creators : BeginDelete(d, which)

ImagesNext ==
    \/ \E c \in Creators : CreateImage(c)
    \/ \E v \in Viewers : View(v)
    \/ \E d \in Deleters : DeleteImages(d)
    \/ \E f \in files : Damage(f)
    \/ Die

ImagesSpec == ImagesInit /\ [][ImagesNext]_mvars

-----------------------------------------------------------------------------
\* Whoever does not hold the lock finds every file named by a row, no temporary
\* one, and the session within its quota, whatever failed or was cancelled,
\* unless a cleanup gave up on the file (_remove_paths passes over what it
\* cannot unlink, and a dead process runs none).
FilesAccounted ==
    holder = Nobody =>
        /\ files \subseteq stray \cup Kept
        /\ temps \subseteq stray
        /\ Bytes <= MaxBytes

\* A row no unfinished deletion has begun with has its pictures, and the thumbnail it names;
\* and a creation that reported failure left no row.
RowsHaveFiles ==
    \A a \in Creators :
        /\ rows[a].kept /\ a \notin doomed => Named(a) \subseteq files
        /\ outcome[a] = "refused" => ~rows[a].kept

\* So files and rows of the images of a session agree at every release of its
\* lock.
ImagesAgree == FilesAccounted /\ RowsHaveFiles

=============================================================================
