------------------------- MODULE AttachmentStaging -------------------------
(***************************************************************************)
(* Uploads on their way to a chat turn (media/staging.py).  Each upload is *)
(* a directory with a manifest under the staging root, a lease in the      *)
(* memory of the process, and two units of a capacity that is reserved     *)
(* before the first byte: one for removing the directory, one for undoing  *)
(* its promotion.  The turn that takes the upload off the queue claims the *)
(* lease; sweeps, started by the maintenance loop and by every new upload, *)
(* remove what an hour has passed over and nobody has claimed.  A crash    *)
(* loses leases and units and keeps the disk.                              *)
(*                                                                         *)
(* The three attempts of a cleanup and its retries by the maintenance loop *)
(* are one step that may fail, MaxFaults times in all, and be repeated.    *)
(***************************************************************************)
EXTENDS Naturals, FiniteSets, FiniteSetsExt

CONSTANTS Batches,     \* uploads
          Sweepers,    \* sweeps that may run at once
          Cap,         \* MAX_ATTACHMENT_CLEANUP_OBLIGATION_UNITS
          MaxFaults,   \* bound on crashes and on failed deletions
          NoBatch

ASSUME StagingAssumption ==
    /\ Cap \in Nat /\ MaxFaults \in Nat /\ NoBatch \notin Batches

VARIABLES disk,     \* the batch directory, from "absent" up to "whole"
          hidden,   \* batches with a child under a name nothing records
          journal,  \* its recovery journal: "none", "torn" or "full"
          lease,    \* its phase in _BATCH_LEASES
          held,     \* units its reservation still holds
          moved,    \* batches whose rollback unit belongs to a promotion
          pc,       \* control of its upload and of its turn
          sweep,    \* each sweep: control, batch, lease observed
          expired,  \* batches older than an hour
          faults

vars == <<disk, hidden, journal, lease, held, moved, pc, sweep, expired, faults>>
env == <<expired, faults>>

Units == MapThenSumSet(LAMBDA b : Cardinality(held[b]), Batches)

At(b, from)     == pc[b] = from
Goto(b, to)     == pc' = [pc EXCEPT ![b] = to]
Set(f, b, v)    == [f EXCEPT ![b] = v]
Fail            == faults < MaxFaults /\ faults' = faults + 1 /\ UNCHANGED expired
Quiet           == [pc |-> "idle", batch |-> NoBatch, lease |-> "none"]

(* The order in which a batch comes apart: its files, the manifest, the    *)
(* directory.  A manifest without its header stands for any that cannot be *)
(* parsed and whose files are gone.                                        *)
Less(d) == CASE d \in {"open", "whole"}       -> "partial"
             [] d = "cut"                    -> "headless"
             [] d \in {"headless", "partial"} -> "emptied"
             [] OTHER                         -> "absent"

(* The directory itself goes only when it is empty.                        *)
Removable(b) == disk[b] \in {"bare", "emptied"} => b \notin hidden

-----------------------------------------------------------------------------
(* The upload: stage_upload_files, stage_legacy_data_urls.                 *)

(* _reserve_attachment_batch_cleanup: two units or a 503.                  *)
Reserve(b) ==
    /\ At(b, "new")
    /\ IF Units + 2 > Cap THEN Goto(b, "done") /\ UNCHANGED held
       ELSE Goto(b, "register") /\ held' = Set(held, b, {"staging", "rollback"})
    /\ UNCHANGED <<disk, hidden, journal, lease, moved, sweep, env>>

(* _create_batch: the lease before the directory.                          *)
Register(b) ==
    /\ At(b, "register")
    /\ lease' = Set(lease, b, "writing")
    /\ Goto(b, "create")
    /\ UNCHANGED <<disk, hidden, journal, held, moved, sweep, env>>

(* _create_pinned_batch: the directory, an empty manifest, its header.     *)
Create(b) ==
    /\ At(b, "create")
    /\ \/ disk[b] = "absent"   /\ disk' = Set(disk, b, "bare")     /\ UNCHANGED pc
       \/ disk[b] = "bare"     /\ disk' = Set(disk, b, "headless") /\ UNCHANGED pc
       \/ disk[b] = "headless" /\ disk' = Set(disk, b, "open")     /\ Goto(b, "copy")
    /\ UNCHANGED <<hidden, journal, lease, held, moved, sweep, env>>

(* _copy_upload: each file between its two records in the manifest, which  *)
(* cannot be parsed while a record is cut off.                             *)
Copy(b) ==
    /\ At(b, "copy")
    /\ \/ disk[b] = "open" /\ disk' = Set(disk, b, "cut")   /\ UNCHANGED pc
       \/ disk[b] = "cut"  /\ disk' = Set(disk, b, "whole") /\ Goto(b, "seal")
    /\ UNCHANGED <<hidden, journal, lease, held, moved, sweep, env>>

MarkQueued(b) ==
    /\ At(b, "seal")
    /\ lease' = Set(lease, b, "queued")
    /\ Goto(b, "queued")
    /\ UNCHANGED <<disk, hidden, journal, held, moved, sweep, env>>

(* A limit, an invalid part or a cancelled request ends the upload.  With  *)
(* no directory yet the lease and both units go at once.                   *)
Refuse(b) ==
    /\ pc[b] \in {"register", "create", "copy", "seal"}
    /\ IF disk[b] = "absent"
       THEN /\ lease' = Set(lease, b, "none")
            /\ held' = Set(held, b, {})
            /\ Goto(b, "done")
       ELSE Goto(b, "cleanup") /\ UNCHANGED <<lease, held>>
    /\ UNCHANGED <<disk, hidden, journal, moved, sweep, env>>

-----------------------------------------------------------------------------
(* The turn.                                                               *)

(* claim_now: a queued lease, even an elapsed one, is claimed; one that a  *)
(* sweep has reserved or removed is not available.  The rollback unit goes *)
(* with the promotion (_transfer_rollback_reservation).                    *)
Claim(b) ==
    /\ At(b, "queued")
    /\ IF lease[b] = "queued"
       THEN /\ lease' = Set(lease, b, "claimed")
            /\ moved' = moved \cup {b}
            /\ Goto(b, "promote")
       ELSE Goto(b, "cleanup") /\ UNCHANGED <<lease, moved>>
    /\ UNCHANGED <<disk, hidden, journal, held, sweep, env>>

(* The queued action is dropped before a turn starts.                      *)
Drop(b) ==
    /\ At(b, "queued")
    /\ Goto(b, "cleanup")
    /\ UNCHANGED <<disk, hidden, journal, lease, held, moved, sweep, env>>

(* promote_staged_attachments has read every file, or failed.              *)
Promote(b) ==
    /\ At(b, "promote")
    /\ Goto(b, "cleanup")
    /\ UNCHANGED <<disk, hidden, journal, lease, held, moved, sweep, env>>

(* StagedAttachmentSet.cleanup: an unused rollback unit is released first, *)
(* ...                                                                     *)
BeginCleanup(b) ==
    /\ At(b, "cleanup")
    /\ held' = Set(held, b, IF b \in moved THEN held[b] ELSE held[b] \ {"rollback"})
    /\ Goto(b, "remove")
    /\ UNCHANGED <<disk, hidden, journal, lease, moved, sweep, env>>

RemovePart(b) ==
    /\ At(b, "remove") /\ disk[b] # "absent" /\ Removable(b)
    /\ disk' = Set(disk, b, Less(disk[b]))
    /\ UNCHANGED <<hidden, journal, lease, held, moved, pc, sweep, env>>

(* ... and the lease ends with the attempt, whatever became of it; the     *)
(* staging unit only with the directory.                                   *)
EndCleanup(b) ==
    /\ At(b, "remove") /\ disk[b] = "absent"
    /\ lease' = Set(lease, b, "none")
    /\ held' = Set(held, b, held[b] \ {"staging"})
    /\ Goto(b, IF b \in moved THEN "settle" ELSE "done")
    /\ UNCHANGED <<disk, hidden, journal, moved, sweep, env>>

FailCleanup(b) ==
    /\ At(b, "remove") /\ disk[b] # "absent"
    /\ Fail
    /\ lease' = Set(lease, b, "none")
    /\ Goto(b, "cleanup")
    /\ UNCHANGED <<disk, hidden, journal, held, moved, sweep>>

(* The promotion is adopted by the saved history, or rolled back:          *)
(* release_promoted_attachment_reservation.                                *)
Settle(b) ==
    /\ At(b, "settle")
    /\ held' = Set(held, b, held[b] \ {"rollback"})
    /\ Goto(b, "done")
    /\ UNCHANGED <<disk, hidden, journal, lease, moved, sweep, env>>

-----------------------------------------------------------------------------
(* sweep_stale_staging.                                                    *)

Sweeping(s, from) == sweep[s].pc = from
Step(s, to)       == sweep' = [sweep EXCEPT ![s].pc = to]
Rest(s)           == sweep' = [sweep EXCEPT ![s] = Quiet]

Observe(s, b) ==
    /\ Sweeping(s, "idle")
    /\ disk[b] # "absent"
    /\ lease[b] \in {"none", "queued", "recovering"}
    /\ sweep' = [sweep EXCEPT ![s] = [pc |-> "inspect", batch |-> b, lease |-> lease[b]]]
    /\ UNCHANGED <<disk, hidden, journal, lease, held, moved, pc, env>>

(* _parse_staging_manifest wants the header and every record whole, as     *)
(* _parse_recovery_journal does.                                           *)
HasManifest(b)    == disk[b] \in {"open", "whole", "partial"}
JournalIsWhole(b) == journal[b] = "full"
JournalIsLeft(b)  == JournalIsWhole(b) /\ disk[b] = "absent"

(* _inspect_manifest_batch: a whole journal decides before the manifest.   *)
(* A lease under recovery requires it; without a manifest, only an         *)
(* unregistered directory may go; a manifest that cannot be parsed, or a   *)
(* torn journal without one, fails closed.                                 *)
Inspect(s) ==
    LET b == sweep[s].batch
        resume == JournalIsWhole(b) /\ disk[b] # "absent"
        empty == disk[b] \in {"bare", "emptied"} /\ journal[b] = "none"
        seen == sweep[s].lease IN
    /\ Sweeping(s, "inspect")
    /\ IF resume THEN Step(s, "reserve recovery")
       ELSE IF seen # "recovering" /\ HasManifest(b) /\ b \in expired THEN Step(s, "reserve")
       ELSE IF seen = "none" /\ empty THEN Step(s, "unmanifested")
       ELSE Rest(s)
    /\ UNCHANGED <<disk, hidden, journal, lease, held, moved, pc, env>>

(* _delete_empty_unmanifested_batch removes nothing but an empty directory, *)
(* whose own quarantine name the next sweep takes for a batch.             *)
DeleteUnmanifested(s) ==
    LET b == sweep[s].batch IN
    /\ Sweeping(s, "unmanifested")
    /\ disk' = IF disk[b] \in {"bare", "emptied"} /\ Removable(b)
               THEN Set(disk, b, "absent") ELSE disk
    /\ Rest(s)
    /\ UNCHANGED <<hidden, journal, lease, held, moved, pc, env>>

(* Mutant: the lease is taken without comparing it with the one observed.  *)
ReserveBlindly(s) ==
    LET b == sweep[s].batch IN
    /\ Sweeping(s, "reserve")
    /\ Step(s, "journal")
    /\ lease' = IF lease[b] = "none" THEN lease ELSE Set(lease, b, "sweeping")
    /\ UNCHANGED <<disk, hidden, journal, held, moved, pc, env>>

(* The lease is reserved only if it is the one observed before the         *)
(* inspection.  A batch no lease names is not reserved.                    *)
ReserveSweep(s) ==
    LET b == sweep[s].batch IN
    /\ Sweeping(s, "reserve")
    /\ IF lease[b] # sweep[s].lease THEN Rest(s) /\ UNCHANGED lease
       ELSE /\ Step(s, "journal")
            /\ lease' = IF lease[b] = "queued" THEN Set(lease, b, "sweeping") ELSE lease
    /\ UNCHANGED <<disk, hidden, journal, held, moved, pc, env>>

ReserveRecovery(s) ==
    LET b == sweep[s].batch IN
    /\ Sweeping(s, "reserve recovery")
    /\ IF lease[b] # sweep[s].lease \/ lease[b] = "queued"
       THEN Rest(s) /\ UNCHANGED lease
       ELSE /\ Step(s, "resume")
            /\ lease' = Set(lease, b, "sweeping-recovery")
    /\ UNCHANGED <<disk, hidden, journal, held, moved, pc, env>>

(* _create_recovery_journal; a torn one is proved and replaced.            *)
WriteJournal(s) ==
    LET b == sweep[s].batch IN
    /\ Sweeping(s, "journal")
    /\ \/ journal[b] = "none" /\ journal' = Set(journal, b, "torn") /\ UNCHANGED sweep
       \/ journal[b] = "torn" /\ journal' = Set(journal, b, "full") /\ Step(s, "files")
       \/ journal[b] = "full" /\ UNCHANGED journal /\ Step(s, "files")
    /\ UNCHANGED <<disk, hidden, lease, held, moved, pc, env>>

(* Mutant: the lease of a failed sweep is left as it is.                   *)
StillSweeping(b) == UNCHANGED lease

(* _SweepRecoveryRequired, and any other failure of the sweep.             *)
Recovering(b) ==
    lease' = IF lease[b] \in {"none", "sweeping", "sweeping-recovery"}
             THEN Set(lease, b, "recovering") ELSE lease

GiveUp(s) ==
    LET b == sweep[s].batch IN
    /\ sweep[s].pc \in {"journal", "resume"}
    /\ Fail
    /\ IF Sweeping(s, "resume") THEN Recovering(b)
       ELSE lease' = IF lease[b] = "sweeping" THEN Set(lease, b, sweep[s].lease)
                                              ELSE lease
    /\ Rest(s)
    /\ UNCHANGED <<disk, hidden, journal, held, moved, pc>>

(* _delete_inspected_manifest_batch expects every part where it verified   *)
(* it: a part that is gone makes the rest a matter of recovery.            *)
Expected == [files |-> {"open", "whole"}, manifest |-> {"partial"}, rmdir |-> {"emptied"}]
After    == [files |-> "manifest", manifest |-> "rmdir", rmdir |-> "unjournal"]

DeleteStrictly(s) ==
    LET b == sweep[s].batch IN
    /\ sweep[s].pc \in DOMAIN Expected
    /\ IF disk[b] \in Expected[sweep[s].pc] /\ Removable(b)
       THEN disk' = Set(disk, b, Less(disk[b])) /\ Step(s, After[sweep[s].pc])
            /\ UNCHANGED lease
       ELSE Recovering(b) /\ Rest(s) /\ UNCHANGED disk
    /\ UNCHANGED <<hidden, journal, held, moved, pc, env>>

(* _resume_recovery_batch takes what is left of each part.                 *)
DeleteLeft(s) ==
    LET b == sweep[s].batch IN
    /\ Sweeping(s, "resume")
    /\ IF disk[b] = "absent" THEN Step(s, "unjournal") /\ UNCHANGED <<disk, lease>>
       ELSE IF Removable(b) THEN disk' = Set(disk, b, Less(disk[b])) /\ UNCHANGED <<sweep, lease>>
       ELSE Recovering(b) /\ Rest(s) /\ UNCHANGED disk
    /\ UNCHANGED <<hidden, journal, held, moved, pc, env>>

(* The journal goes last; then lease, object and both unused units.        *)
EndSweep(s) ==
    LET b == sweep[s].batch IN
    /\ Sweeping(s, "unjournal")
    /\ journal' = Set(journal, b, "none")
    /\ lease' = Set(lease, b, "none")
    /\ held' = IF sweep[s].lease = "none" THEN held
               ELSE Set(held, b, IF b \in moved THEN held[b] \ {"staging"} ELSE {})
    /\ Rest(s)
    /\ UNCHANGED <<disk, hidden, moved, pc, env>>

(* _remove_redundant_recovery_journal: a whole journal whose batch is gone. *)
RemoveJournal(b) ==
    /\ JournalIsLeft(b)
    /\ journal' = Set(journal, b, "none")
    /\ UNCHANGED <<disk, hidden, lease, held, moved, pc, sweep, env>>

-----------------------------------------------------------------------------
Expire(b) ==
    /\ disk[b] # "absent"
    /\ expired' = expired \cup {b}
    /\ UNCHANGED <<disk, hidden, journal, lease, held, moved, pc, sweep, faults>>

(* secure_fs renames what it deletes before it unlinks it.  The cleanup of  *)
(* a turn keeps no journal: a manifest it dies with, or a file whose record *)
(* has no identity yet, stays under the new name, where no sweep looks.     *)
Losable(b) ==
    /\ At(b, "remove")
    /\ \/ disk[b] = "open"
       \/ disk[b] \in {"headless", "partial"} /\ ~JournalIsWhole(b)

Crash ==
    /\ Fail
    /\ \E lost \in SUBSET {b \in Batches : Losable(b)} :
          /\ disk' = [b \in Batches |-> IF b \in lost THEN Less(disk[b]) ELSE disk[b]]
          /\ hidden' = hidden \cup lost
    /\ lease' = [b \in Batches |-> "none"]
    /\ held' = [b \in Batches |-> {}]
    /\ pc' = [b \in Batches |-> IF At(b, "new") THEN "new" ELSE "done"]
    /\ sweep' = [s \in Sweepers |-> Quiet]
    /\ UNCHANGED <<journal, moved>>

Init ==
    /\ disk = [b \in Batches |-> "absent"] /\ hidden = {}
    /\ journal = [b \in Batches |-> "none"]
    /\ lease = [b \in Batches |-> "none"]
    /\ held = [b \in Batches |-> {}]
    /\ moved = {}
    /\ pc = [b \in Batches |-> "new"]
    /\ sweep = [s \in Sweepers |-> Quiet]
    /\ expired = {}
    /\ faults = 0

Upload(b) == Reserve(b) \/ Register(b) \/ Create(b) \/ Copy(b) \/ MarkQueued(b) \/ Refuse(b)
Cleanup(b) == BeginCleanup(b) \/ RemovePart(b) \/ EndCleanup(b) \/ FailCleanup(b)
Turn(b) == Claim(b) \/ Drop(b) \/ Promote(b) \/ Cleanup(b) \/ Settle(b)
Delete(s) == DeleteStrictly(s) \/ DeleteLeft(s) \/ EndSweep(s)
Sweep(s) ==
    \/ \E b \in Batches : Observe(s, b)
    \/ Inspect(s) \/ DeleteUnmanifested(s) \/ ReserveSweep(s) \/ ReserveRecovery(s)
    \/ WriteJournal(s) \/ GiveUp(s) \/ Delete(s)

Next ==
    \/ \E b \in Batches : Upload(b) \/ Turn(b) \/ RemoveJournal(b) \/ Expire(b)
    \/ \E s \in Sweepers : Sweep(s)
    \/ Crash

(* Every pass goes over every batch, a started sweep or cleanup runs to   *)
(* its end.  An upload waits for its client and a queued batch for a       *)
(* consumer: not fair.                                                     *)
Fairness ==
    /\ \A b \in Batches :
          /\ WF_vars(Promote(b) \/ BeginCleanup(b) \/ RemovePart(b) \/ EndCleanup(b) \/ Settle(b))
          /\ WF_vars(Expire(b)) /\ WF_vars(RemoveJournal(b))
          /\ SF_vars(\E s \in Sweepers : Observe(s, b))
    /\ \A s \in Sweepers : WF_vars(Sweep(s) /\ ~Sweeping(s, "idle"))

Spec == Init /\ [][Next]_vars /\ Fairness

-----------------------------------------------------------------------------
(* Properties.                                                             *)

(* The files of a claimed batch are all there while its turn reads them:   *)
(* no sweep that had seen the batch in the queue takes it apart.           *)
ClaimedIsWhole == \A b \in Batches : At(b, "promote") => disk[b] = "whole"

(* A batch on disk that its owner has not finished with holds the unit     *)
(* that pays for its removal, through failed attempts and sweeps.          *)
Covered ==
    \A b \in Batches :
        (disk[b] # "absent" /\ pc[b] \notin {"queued", "done"}) => "staging" \in held[b]

(* So sweeps that hold what they saw keep off what is in use or unpaid.     *)
SweepsKeepOff == ClaimedIsWhole /\ Covered

(* Every directory and every journal is removed in the end, unless its     *)
(* upload is still running or waiting, or a crash left what every sweep    *)
(* refuses: a manifest with a record cut off, a child that a cleanup had   *)
(* renamed and not yet unlinked, or a torn journal whose manifest a        *)
(* cleanup removed meanwhile.                                              *)
Closed(b) ==
    \/ b \in hidden
    \/ disk[b] \in {"headless", "cut"}
    \/ journal[b] = "torn" /\ disk[b] \in {"emptied", "absent"}

FilesSwept ==
    \A b \in Batches :
        pc[b] = "done" ~> (disk[b] = "absent" /\ journal[b] = "none") \/ Closed(b)

(* An upload that has ended, or that a sweep removed from under a turn     *)
(* that never comes, gives its capacity back.                              *)
UnitsReturned ==
    \A b \in Batches :
        At(b, "cleanup") \/ (At(b, "queued") /\ disk[b] = "absent") ~> held[b] = {}

(* What an upload took of the disk and of the capacity, it gives back.     *)
EverythingSwept == FilesSwept /\ UnitsReturned

=============================================================================
