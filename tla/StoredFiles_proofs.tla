------------------------- MODULE StoredFiles_proofs -------------------------
(***************************************************************************)
(* What is on disk for a session, for any number of callers, any capacity  *)
(* and any number of failures and deaths: sweeps keep off the uploads a    *)
(* turn has claimed (AttachmentStaging), files and rows of the images agree *)
(* at every release of the lock (MediaAssets), a file or directory that was *)
(* deleted is gone, and nothing else with it (SecureFiles).                *)
(*                                                                         *)
(* Uploads: while a batch is written its lease keeps every sweep off       *)
(* (Staged); a batch that waits with a queued lease, or is claimed, is in  *)
(* no sweep's hands (Reserved), so it is whole (Intact).                   *)
(*                                                                         *)
(* Images: one call has the lock (Locked), and it owes the files no row    *)
(* names (Owed); who ends owes nothing.  Each call may rely on what its    *)
(* steps have reached (Progress): pictures promoted, quota reserved, files *)
(* of the doomed rows gone.                                                *)
(***************************************************************************)
EXTENDS AttachmentStaging, SecureFiles, MediaAssets, FiniteSetTheorems, TLAPS

\* Where an upload and its turn are, what is on disk, and who has the lease.
UploadPlaces == {"new", "register", "create", "copy", "seal", "queued", "promote", "cleanup",
                 "remove", "settle", "done"}
Disks == {"absent", "bare", "headless", "open", "cut", "whole", "partial", "emptied"}
Leases == {"none", "writing", "queued", "claimed", "sweeping", "sweeping-recovery", "recovering"}

\* Where a sweep is; from its journal on it takes the batch apart.
Destroys == {"journal", "files", "manifest", "rmdir", "resume", "unjournal"}
Sweeps == {"idle", "inspect", "unmanifested", "reserve", "reserve recovery"} \cup Destroys
Sweepings == [pc : Sweeps, batch : Batches \cup {NoBatch}, lease : {"none", "queued", "recovering"}]

UploadKinds ==
    /\ disk \in [Batches -> Disks] /\ lease \in [Batches -> Leases]
    /\ held \in [Batches -> SUBSET {"staging", "rollback"}] /\ pc \in [Batches -> UploadPlaces]
    /\ sweep \in [Sweepers -> Sweepings]
    /\ \A s \in Sweepers : sweep[s].pc # "idle" => sweep[s].batch \in Batches

Works(s, b) == sweep[s].pc # "idle" /\ sweep[s].batch = b
Has(s, b) == sweep[s].pc \in Destroys /\ sweep[s].batch = b

\* What a batch looks like while its upload writes it and its turn reads it.
Written ==
    \A b \in Batches :
        /\ pc[b] \in {"new", "register"} => disk[b] = "absent"
        /\ pc[b] \in {"create", "copy", "seal"} => lease[b] = "writing"
        /\ pc[b] = "copy" => disk[b] \in {"open", "cut"}
        /\ pc[b] = "seal" => disk[b] = "whole"
        /\ pc[b] = "promote" => lease[b] = "claimed" /\ disk[b] = "whole"

\* The unit that pays for the removal is held before there is something to
\* remove, and as long as there is.
Paid ==
    \A b \in Batches :
        /\ pc[b] \in {"register", "create"} => "staging" \in held[b]
        /\ disk[b] # "absent" /\ pc[b] # "done" => "staging" \in held[b]

\* A lease that is being written keeps every sweep off.
Uploading == {"new", "register", "create", "copy", "seal"}
Staged ==
    \A s \in Sweepers : \A b \in Batches :
        Works(s, b) => pc[b] \notin Uploading

\* Who queues or claims has the batch for itself, and one sweep at a time
\* reserves it.
Reserved ==
    \A b \in Batches :
        /\ pc[b] = "queued" /\ lease[b] = "queued" => \A s \in Sweepers : ~Has(s, b)
        /\ pc[b] = "promote" => \A s \in Sweepers : ~Has(s, b)
        /\ pc[b] = "queued" /\ lease[b] = "sweeping" =>
              \A s, t \in Sweepers : Has(s, b) /\ Has(t, b) => s = t

\* A queued batch is whole until the sweep that reserved it is past its
\* journal: a sweep that gives up before leaves it to the turn.
Intact ==
    \A b \in Batches :
        pc[b] = "queued" /\ lease[b] \in {"queued", "sweeping"} =>
            disk[b] = "whole" \/ \E s \in Sweepers : Has(s, b) /\ sweep[s].pc # "journal"

Emptied ==
    \A s \in Sweepers : \A b \in Batches :
        sweep[s].pc = "unjournal" /\ sweep[s].batch = b => disk[b] = "absent"

StagingInv == UploadKinds /\ Written /\ Paid /\ Staged /\ Reserved /\ Intact /\ Emptied

-----------------------------------------------------------------------------

LEMMA StagingBegins == Init => StagingInv
  BY StagingAssumption DEF Init, StagingInv, UploadKinds, Written, Paid, Staged, Reserved, Intact, Emptied,
     Works, Has, Destroys, Sweepings, Sweeps, Quiet, UploadPlaces, Disks, Leases, Uploading

(* The steps of an upload and its turn.                                    *)
LEMMA ReserveKeeps == ASSUME StagingInv, NEW b \in Batches, Reserve(b) PROVE StagingInv'
  <1> USE DEF StagingInv, UploadKinds, Sweepings, UploadPlaces, Leases, Disks
  <1>1. UploadKinds'
    BY DEF Reserve, At, Goto, Set, env
  <1>2. Written'
    BY DEF Reserve, At, Goto, Set, env, Written
  <1>3. Paid'
    BY DEF Reserve, At, Goto, Set, env, Paid, Written
  <1>4. Staged'
    BY DEF Reserve, At, Goto, Set, env, Staged, Works, Uploading, Written
  <1>5. Reserved'
    BY DEF Reserve, At, Goto, Set, env, Reserved, Has, Destroys, Written, Staged, Works, Uploading
  <1>6. Intact'
    BY DEF Reserve, At, Goto, Set, env, Intact, Has, Destroys, Written
  <1>7. Emptied'
    BY DEF Reserve, At, Goto, Set, env, Emptied, Staged, Works, Uploading, Destroys
  <1> QED
    BY <1>1, <1>2, <1>3, <1>4, <1>5, <1>6, <1>7

LEMMA RegisterKeeps == ASSUME StagingInv, NEW b \in Batches, Register(b) PROVE StagingInv'
  <1> USE DEF StagingInv, UploadKinds, Sweepings, UploadPlaces, Leases, Disks
  <1>1. UploadKinds'
    BY DEF Register, At, Goto, Set
  <1>2. Written'
    BY DEF Register, At, Goto, Set, Written
  <1>3. Paid'
    BY DEF Register, At, Goto, Set, Paid, Written
  <1>4. Staged'
    BY DEF Register, At, Goto, Set, Staged, Works, Uploading, Written
  <1>5. Reserved'
    BY DEF Register, At, Goto, Set, Reserved, Has, Destroys, Written, Staged, Works, Uploading
  <1>6. Intact'
    BY DEF Register, At, Goto, Set, Intact, Has, Destroys, Written
  <1>7. Emptied'
    BY DEF Register, At, Goto, Set, Emptied, Staged, Works, Uploading, Destroys
  <1> QED
    BY <1>1, <1>2, <1>3, <1>4, <1>5, <1>6, <1>7

LEMMA CreateKeeps == ASSUME StagingInv, NEW b \in Batches, Create(b) PROVE StagingInv'
  <1> USE DEF StagingInv, UploadKinds, Sweepings, UploadPlaces, Leases, Disks
  <1>1. UploadKinds'
    BY DEF Create, At, Goto, Set
  <1>2. Written'
    BY DEF Create, At, Goto, Set, Written
  <1>3. Paid'
    BY DEF Create, At, Goto, Set, Paid, Written
  <1>4. Staged'
    BY DEF Create, At, Goto, Set, Staged, Works, Uploading, Written
  <1>5. Reserved'
    BY DEF Create, At, Goto, Set, Reserved, Has, Destroys, Written, Staged, Works, Uploading
  <1>6. Intact'
    BY DEF Create, At, Goto, Set, Intact, Has, Destroys, Written
  <1>7. Emptied'
    BY DEF Create, At, Goto, Set, Emptied, Staged, Works, Uploading, Destroys
  <1> QED
    BY <1>1, <1>2, <1>3, <1>4, <1>5, <1>6, <1>7

LEMMA CopyKeeps == ASSUME StagingInv, NEW b \in Batches, Copy(b) PROVE StagingInv'
  <1> USE DEF StagingInv, UploadKinds, Sweepings, UploadPlaces, Leases, Disks
  <1>1. UploadKinds'
    BY DEF Copy, At, Goto, Set
  <1>2. Written'
    BY DEF Copy, At, Goto, Set, Written
  <1>3. Paid'
    BY DEF Copy, At, Goto, Set, Paid, Written
  <1>4. Staged'
    BY DEF Copy, At, Goto, Set, Staged, Works, Uploading, Written
  <1>5. Reserved'
    BY DEF Copy, At, Goto, Set, Reserved, Has, Destroys, Written, Staged, Works, Uploading
  <1>6. Intact'
    BY DEF Copy, At, Goto, Set, Intact, Has, Destroys, Written
  <1>7. Emptied'
    BY DEF Copy, At, Goto, Set, Emptied, Staged, Works, Uploading, Destroys
  <1> QED
    BY <1>1, <1>2, <1>3, <1>4, <1>5, <1>6, <1>7

LEMMA MarkQueuedKeeps == ASSUME StagingInv, NEW b \in Batches, MarkQueued(b) PROVE StagingInv'
  <1> USE DEF StagingInv, UploadKinds, Sweepings, UploadPlaces, Leases, Disks
  <1>1. UploadKinds'
    BY DEF MarkQueued, At, Goto, Set
  <1>2. Written'
    BY DEF MarkQueued, At, Goto, Set, Written
  <1>3. Paid'
    BY DEF MarkQueued, At, Goto, Set, Paid, Written
  <1>4. Staged'
    BY DEF MarkQueued, At, Goto, Set, Staged, Works, Uploading, Written
  <1>5. Reserved'
    BY DEF MarkQueued, At, Goto, Set, Reserved, Has, Destroys, Written, Staged, Works, Uploading
  <1>6. Intact'
    BY DEF MarkQueued, At, Goto, Set, Intact, Has, Destroys, Written
  <1>7. Emptied'
    BY DEF MarkQueued, At, Goto, Set, Emptied, Staged, Works, Uploading, Destroys
  <1> QED
    BY <1>1, <1>2, <1>3, <1>4, <1>5, <1>6, <1>7

LEMMA RefuseKeeps == ASSUME StagingInv, NEW b \in Batches, Refuse(b) PROVE StagingInv'
  <1> USE DEF StagingInv, UploadKinds, Sweepings, UploadPlaces, Leases, Disks
  <1>1. UploadKinds'
    BY DEF Refuse, At, Goto, Set
  <1>2. Written'
    BY DEF Refuse, At, Goto, Set, Written
  <1>3. Paid'
    BY DEF Refuse, At, Goto, Set, Paid, Written
  <1>4. Staged'
    BY DEF Refuse, At, Goto, Set, Staged, Works, Uploading, Written
  <1>5. Reserved'
    BY DEF Refuse, At, Goto, Set, Reserved, Has, Destroys, Written, Staged, Works, Uploading
  <1>6. Intact'
    BY DEF Refuse, At, Goto, Set, Intact, Has, Destroys, Written
  <1>7. Emptied'
    BY DEF Refuse, At, Goto, Set, Emptied, Staged, Works, Uploading, Destroys
  <1> QED
    BY <1>1, <1>2, <1>3, <1>4, <1>5, <1>6, <1>7

LEMMA ClaimKeeps == ASSUME StagingInv, NEW b \in Batches, Claim(b) PROVE StagingInv'
  <1> USE DEF StagingInv, UploadKinds, Sweepings, UploadPlaces, Leases, Disks
  <1>1. UploadKinds'
    BY DEF Claim, At, Goto, Set
  <1>2. Written'
    BY DEF Claim, At, Goto, Set, Written, Intact, Reserved, Has
  <1>3. Paid'
    BY DEF Claim, At, Goto, Set, Paid, Written
  <1>4. Staged'
    BY DEF Claim, At, Goto, Set, Staged, Works, Uploading, Written
  <1>5. Reserved'
    BY DEF Claim, At, Goto, Set, Reserved, Has, Destroys, Written, Staged, Works, Uploading
  <1>6. Intact'
    BY DEF Claim, At, Goto, Set, Intact, Has, Destroys, Written
  <1>7. Emptied'
    BY DEF Claim, At, Goto, Set, Emptied, Staged, Works, Uploading, Destroys
  <1> QED
    BY <1>1, <1>2, <1>3, <1>4, <1>5, <1>6, <1>7

LEMMA DropKeeps == ASSUME StagingInv, NEW b \in Batches, Drop(b) PROVE StagingInv'
  <1> USE DEF StagingInv, UploadKinds, Sweepings, UploadPlaces, Leases, Disks
  <1>1. UploadKinds'
    BY DEF Drop, At, Goto, Set
  <1>2. Written'
    BY DEF Drop, At, Goto, Set, Written
  <1>3. Paid'
    BY DEF Drop, At, Goto, Set, Paid, Written
  <1>4. Staged'
    BY DEF Drop, At, Goto, Set, Staged, Works, Uploading, Written
  <1>5. Reserved'
    BY DEF Drop, At, Goto, Set, Reserved, Has, Destroys, Written, Staged, Works, Uploading
  <1>6. Intact'
    BY DEF Drop, At, Goto, Set, Intact, Has, Destroys, Written
  <1>7. Emptied'
    BY DEF Drop, At, Goto, Set, Emptied, Staged, Works, Uploading, Destroys
  <1> QED
    BY <1>1, <1>2, <1>3, <1>4, <1>5, <1>6, <1>7

LEMMA PromoteKeeps == ASSUME StagingInv, NEW b \in Batches, Promote(b) PROVE StagingInv'
  <1> USE DEF StagingInv, UploadKinds, Sweepings, UploadPlaces, Leases, Disks
  <1>1. UploadKinds'
    BY DEF Promote, At, Goto, Set
  <1>2. Written'
    BY DEF Promote, At, Goto, Set, Written
  <1>3. Paid'
    BY DEF Promote, At, Goto, Set, Paid, Written
  <1>4. Staged'
    BY DEF Promote, At, Goto, Set, Staged, Works, Uploading, Written
  <1>5. Reserved'
    BY DEF Promote, At, Goto, Set, Reserved, Has, Destroys, Written, Staged, Works, Uploading
  <1>6. Intact'
    BY DEF Promote, At, Goto, Set, Intact, Has, Destroys, Written
  <1>7. Emptied'
    BY DEF Promote, At, Goto, Set, Emptied, Staged, Works, Uploading, Destroys
  <1> QED
    BY <1>1, <1>2, <1>3, <1>4, <1>5, <1>6, <1>7

LEMMA BeginCleanupKeeps == ASSUME StagingInv, NEW b \in Batches, BeginCleanup(b) PROVE StagingInv'
  <1> USE DEF StagingInv, UploadKinds, Sweepings, UploadPlaces, Leases, Disks
  <1>1. UploadKinds'
    BY DEF BeginCleanup, At, Goto, Set
  <1>2. Written'
    BY DEF BeginCleanup, At, Goto, Set, Written
  <1>3. Paid'
    BY DEF BeginCleanup, At, Goto, Set, Paid, Written
  <1>4. Staged'
    BY DEF BeginCleanup, At, Goto, Set, Staged, Works, Uploading, Written
  <1>5. Reserved'
    BY DEF BeginCleanup, At, Goto, Set, Reserved, Has, Destroys, Written, Staged, Works, Uploading
  <1>6. Intact'
    BY DEF BeginCleanup, At, Goto, Set, Intact, Has, Destroys, Written
  <1>7. Emptied'
    BY DEF BeginCleanup, At, Goto, Set, Emptied, Staged, Works, Uploading, Destroys
  <1> QED
    BY <1>1, <1>2, <1>3, <1>4, <1>5, <1>6, <1>7

LEMMA RemovePartKeeps == ASSUME StagingInv, NEW b \in Batches, RemovePart(b) PROVE StagingInv'
  <1> USE DEF StagingInv, UploadKinds, Sweepings, UploadPlaces, Leases, Disks
  <1>1. UploadKinds'
    BY DEF RemovePart, At, Goto, Set, Less
  <1>2. Written'
    BY DEF RemovePart, At, Goto, Set, Less, Written
  <1>3. Paid'
    BY DEF RemovePart, At, Goto, Set, Less, Paid, Written
  <1>4. Staged'
    BY DEF RemovePart, At, Goto, Set, Less, Staged, Works, Uploading, Written
  <1>5. Reserved'
    BY DEF RemovePart, At, Goto, Set, Less, Reserved, Has, Destroys, Written, Staged, Works, Uploading
  <1>6. Intact'
    BY DEF RemovePart, At, Goto, Set, Less, Intact, Has, Destroys, Written
  <1>7. Emptied'
    BY DEF RemovePart, At, Goto, Set, Less, Emptied, Staged, Works, Uploading, Destroys
  <1> QED
    BY <1>1, <1>2, <1>3, <1>4, <1>5, <1>6, <1>7

LEMMA EndCleanupKeeps == ASSUME StagingInv, NEW b \in Batches, EndCleanup(b) PROVE StagingInv'
  <1> USE DEF StagingInv, UploadKinds, Sweepings, UploadPlaces, Leases, Disks
  <1>1. UploadKinds'
    BY DEF EndCleanup, At, Goto, Set
  <1>2. Written'
    BY DEF EndCleanup, At, Goto, Set, Written
  <1>3. Paid'
    BY DEF EndCleanup, At, Goto, Set, Paid, Written
  <1>4. Staged'
    BY DEF EndCleanup, At, Goto, Set, Staged, Works, Uploading, Written
  <1>5. Reserved'
    BY DEF EndCleanup, At, Goto, Set, Reserved, Has, Destroys, Written, Staged, Works, Uploading
  <1>6. Intact'
    BY DEF EndCleanup, At, Goto, Set, Intact, Has, Destroys, Written
  <1>7. Emptied'
    BY DEF EndCleanup, At, Goto, Set, Emptied, Staged, Works, Uploading, Destroys
  <1> QED
    BY <1>1, <1>2, <1>3, <1>4, <1>5, <1>6, <1>7

LEMMA FailCleanupKeeps == ASSUME StagingInv, NEW b \in Batches, FailCleanup(b) PROVE StagingInv'
  <1> USE DEF StagingInv, UploadKinds, Sweepings, UploadPlaces, Leases, Disks
  <1>1. UploadKinds'
    BY DEF FailCleanup, At, Goto, Set, Fail
  <1>2. Written'
    BY DEF FailCleanup, At, Goto, Set, Fail, Written
  <1>3. Paid'
    BY DEF FailCleanup, At, Goto, Set, Fail, Paid, Written
  <1>4. Staged'
    BY DEF FailCleanup, At, Goto, Set, Fail, Staged, Works, Uploading, Written
  <1>5. Reserved'
    BY DEF FailCleanup, At, Goto, Set, Fail, Reserved, Has, Destroys, Written, Staged, Works, Uploading
  <1>6. Intact'
    BY DEF FailCleanup, At, Goto, Set, Fail, Intact, Has, Destroys, Written
  <1>7. Emptied'
    BY DEF FailCleanup, At, Goto, Set, Fail, Emptied, Staged, Works, Uploading, Destroys
  <1> QED
    BY <1>1, <1>2, <1>3, <1>4, <1>5, <1>6, <1>7

LEMMA SettleKeeps == ASSUME StagingInv, NEW b \in Batches, Settle(b) PROVE StagingInv'
  <1> USE DEF StagingInv, UploadKinds, Sweepings, UploadPlaces, Leases, Disks
  <1>1. UploadKinds'
    BY DEF Settle, At, Goto, Set
  <1>2. Written'
    BY DEF Settle, At, Goto, Set, Written
  <1>3. Paid'
    BY DEF Settle, At, Goto, Set, Paid, Written
  <1>4. Staged'
    BY DEF Settle, At, Goto, Set, Staged, Works, Uploading, Written
  <1>5. Reserved'
    BY DEF Settle, At, Goto, Set, Reserved, Has, Destroys, Written, Staged, Works, Uploading
  <1>6. Intact'
    BY DEF Settle, At, Goto, Set, Intact, Has, Destroys, Written
  <1>7. Emptied'
    BY DEF Settle, At, Goto, Set, Emptied, Staged, Works, Uploading, Destroys
  <1> QED
    BY <1>1, <1>2, <1>3, <1>4, <1>5, <1>6, <1>7

LEMMA RemoveJournalKeeps == ASSUME StagingInv, NEW b \in Batches, RemoveJournal(b) PROVE StagingInv'
  <1> USE DEF StagingInv, UploadKinds, Sweepings, UploadPlaces, Leases, Disks
  <1>1. UploadKinds'
    BY DEF RemoveJournal, At, Goto, Set
  <1>2. Written'
    BY DEF RemoveJournal, At, Goto, Set, Written
  <1>3. Paid'
    BY DEF RemoveJournal, At, Goto, Set, Paid, Written
  <1>4. Staged'
    BY DEF RemoveJournal, At, Goto, Set, Staged, Works, Uploading, Written
  <1>5. Reserved'
    BY DEF RemoveJournal, At, Goto, Set, Reserved, Has, Destroys, Written, Staged, Works, Uploading
  <1>6. Intact'
    BY DEF RemoveJournal, At, Goto, Set, Intact, Has, Destroys, Written
  <1>7. Emptied'
    BY DEF RemoveJournal, At, Goto, Set, Emptied, Staged, Works, Uploading, Destroys
  <1> QED
    BY <1>1, <1>2, <1>3, <1>4, <1>5, <1>6, <1>7

LEMMA ExpireKeeps == ASSUME StagingInv, NEW b \in Batches, Expire(b) PROVE StagingInv'
  <1> USE DEF StagingInv, UploadKinds, Sweepings, UploadPlaces, Leases, Disks
  <1>1. UploadKinds'
    BY DEF Expire, At, Goto, Set
  <1>2. Written'
    BY DEF Expire, At, Goto, Set, Written
  <1>3. Paid'
    BY DEF Expire, At, Goto, Set, Paid, Written
  <1>4. Staged'
    BY DEF Expire, At, Goto, Set, Staged, Works, Uploading, Written
  <1>5. Reserved'
    BY DEF Expire, At, Goto, Set, Reserved, Has, Destroys, Written, Staged, Works, Uploading
  <1>6. Intact'
    BY DEF Expire, At, Goto, Set, Intact, Has, Destroys, Written
  <1>7. Emptied'
    BY DEF Expire, At, Goto, Set, Emptied, Staged, Works, Uploading, Destroys
  <1> QED
    BY <1>1, <1>2, <1>3, <1>4, <1>5, <1>6, <1>7
(* A step of a sweep on its batch leaves the other batches alone: what is  *)
(* left to show concerns that batch.                                       *)
LEMMA SweepMoves ==
  ASSUME StagingInv, UploadKinds', NEW s \in Sweepers, NEW b \in Batches, Works(s, b),
         pc' = pc,
         \A t \in Sweepers : t # s => sweep'[t] = sweep[t],
         \A a \in Batches : a # b => disk'[a] = disk[a] /\ lease'[a] = lease[a] /\ held'[a] = held[a],
         sweep'[s].pc = "idle" \/ sweep'[s].batch = b,
         sweep'[s].pc = "unjournal" => disk'[b] = "absent",
         disk[b] = "absent" => disk'[b] = "absent",
         disk'[b] # "absent" => held'[b] = held[b],
         pc[b] = "promote" => sweep'[s].pc = "idle" /\ disk'[b] = disk[b] /\ lease'[b] = lease[b],
         pc[b] = "queued" /\ lease'[b] = "queued" => \A t \in Sweepers : ~Has(t, b)',
         pc[b] = "queued" /\ lease'[b] = "sweeping" =>
            \A r, t \in Sweepers : Has(r, b)' /\ Has(t, b)' => r = t,
         pc[b] = "queued" /\ lease'[b] \in {"queued", "sweeping"} =>
            disk'[b] = "whole" \/ \E t \in Sweepers : Has(t, b)' /\ sweep'[t].pc # "journal"
  PROVE  StagingInv'
  <1>1. pc[b] \notin Uploading
    BY DEF StagingInv, Staged
  <1>2. \A a \in Batches : a # b =>
          \A t \in Sweepers : (Works(t, a)' <=> Works(t, a)) /\ (Has(t, a)' <=> Has(t, a))
    BY DEF Works, Has, Destroys
  <1>3. \A a \in Batches : a # b =>
          \A t \in Sweepers : Has(t, a) => sweep'[t] = sweep[t]
    BY DEF Works, Has, Destroys
  <1>4. Written'
    BY <1>1 DEF StagingInv, Written, Uploading
  <1>5. Paid'
    BY <1>1 DEF StagingInv, Paid, Uploading
  <1>6. Staged'
    BY <1>1, <1>2 DEF StagingInv, Staged
  <1>7. Reserved'
    <2>1. ASSUME pc[b] = "promote", NEW t \in Sweepers, Has(t, b)' PROVE FALSE
      BY <2>1 DEF StagingInv, Reserved, Has, Destroys
    <2> QED
      BY <2>1, <1>2 DEF StagingInv, Reserved
  <1>8. Intact'
    BY <1>2, <1>3 DEF StagingInv, Intact
  <1>9. Emptied'
    BY DEF StagingInv, Emptied, Works
  <1> QED
    BY <1>4, <1>5, <1>6, <1>7, <1>8, <1>9 DEF StagingInv

(* What the two ways to leave a place of a sweep do to the sweep.          *)
LEMMA Stepped ==
  ASSUME StagingInv, NEW s \in Sweepers, sweep[s].pc # "idle", NEW to \in Sweeps, Step(s, to)
  PROVE  /\ sweep' \in [Sweepers -> Sweepings]
         /\ sweep'[s].pc = to /\ sweep'[s].batch = sweep[s].batch
         /\ \A t \in Sweepers : t # s => sweep'[t] = sweep[t]
         /\ \A t \in Sweepers : sweep'[t].pc # "idle" => sweep'[t].batch \in Batches
  <1>1. sweep[s] \in Sweepings /\ sweep[s].batch \in Batches
    BY DEF StagingInv, UploadKinds
  <1>2. /\ sweep' \in [Sweepers -> Sweepings]
        /\ sweep'[s].pc = to /\ sweep'[s].batch = sweep[s].batch
        /\ \A t \in Sweepers : t # s => sweep'[t] = sweep[t]
    BY <1>1 DEF StagingInv, UploadKinds, Step, Sweepings
  <1> QED
    BY <1>1, <1>2 DEF StagingInv, UploadKinds

LEMMA Rested ==
  ASSUME StagingInv, NEW s \in Sweepers, Rest(s)
  PROVE  /\ sweep' \in [Sweepers -> Sweepings]
         /\ sweep'[s].pc = "idle"
         /\ \A t \in Sweepers : t # s => sweep'[t] = sweep[t]
         /\ \A t \in Sweepers : sweep'[t].pc # "idle" => sweep'[t].batch \in Batches
  <1>1. Quiet \in Sweepings /\ Quiet.pc = "idle"
    BY DEF Quiet, Sweepings, Sweeps
  <1>2. /\ sweep' \in [Sweepers -> Sweepings]
        /\ sweep'[s].pc = "idle"
        /\ \A t \in Sweepers : t # s => sweep'[t] = sweep[t]
    BY <1>1 DEF StagingInv, UploadKinds, Rest
  <1> QED
    BY <1>2 DEF StagingInv, UploadKinds

(* A sweep that has nothing in hand, before and after, disturbs nobody.    *)
LEMMA SweepLooks ==
  ASSUME StagingInv, UploadKinds', NEW s \in Sweepers, NEW b \in Batches, Works(s, b), ~Has(s, b),
         UNCHANGED <<lease, held, pc>>,
         \A t \in Sweepers : t # s => sweep'[t] = sweep[t],
         \A a \in Batches : a # b => disk'[a] = disk[a],
         sweep'[s].pc \notin Destroys, sweep'[s].pc = "idle" \/ sweep'[s].batch = b,
         disk'[b] = disk[b] \/ (disk[b] # "whole" /\ disk'[b] = "absent")
  PROVE  StagingInv'
  <1>1. \A t \in Sweepers : Has(t, b)' <=> Has(t, b)
    BY DEF Has
  <1>2. \A t \in Sweepers : Has(t, b) => sweep'[t] = sweep[t]
    OBVIOUS
  <1>3. sweep'[s].pc # "unjournal"
    BY DEF Destroys
  <1>4. pc[b] = "promote" => disk[b] = "whole" /\ lease[b] = "claimed"
    BY DEF StagingInv, Written
  <1>5. Written' /\ Paid'
    BY <1>4 DEF StagingInv, Written, Paid, Staged, Uploading
  <1>6. \A a \in Batches : a # b =>
          \A t \in Sweepers : (Works(t, a)' => Works(t, a)) /\ (Has(t, a)' <=> Has(t, a))
                                /\ (Has(t, a) => sweep'[t] = sweep[t])
    BY DEF Works, Has, Destroys
  <1>7. Staged'
    BY <1>6 DEF StagingInv, Staged
  <1>8. Reserved'
    BY <1>1, <1>6 DEF StagingInv, Reserved
  <1>9. Intact'
    BY <1>1, <1>2, <1>6 DEF StagingInv, Intact
  <1>10. Emptied'
    BY <1>3 DEF StagingInv, Emptied
  <1> QED
    BY <1>5, <1>7, <1>8, <1>9, <1>10 DEF StagingInv

LEMMA ObserveKeeps ==
  ASSUME StagingInv, NEW s \in Sweepers, NEW b \in Batches, Observe(s, b)
  PROVE  StagingInv'
  <1>1. /\ sweep' = [sweep EXCEPT ![s] = [pc |-> "inspect", batch |-> b, lease |-> lease[b]]]
        /\ sweep[s].pc = "idle" /\ lease[b] \in {"none", "queued", "recovering"} /\ disk[b] # "absent"
        /\ UNCHANGED <<disk, lease, held, pc>>
    BY DEF Observe, Sweeping
  <1>2. /\ sweep'[s].pc = "inspect" /\ sweep'[s].batch = b
        /\ \A t \in Sweepers : t # s => sweep'[t] = sweep[t]
    BY <1>1 DEF StagingInv, UploadKinds
  <1>3. UploadKinds'
    BY <1>1, <1>2 DEF StagingInv, UploadKinds, Sweepings, Sweeps
  <1>4. \A t \in Sweepers : \A a \in Batches :
          (Has(t, a)' <=> Has(t, a)) /\ (Has(t, a) => sweep'[t] = sweep[t])
    BY <1>1, <1>2 DEF Has, Destroys
  <1>5. Written' /\ Paid'
    BY <1>1 DEF StagingInv, Written, Paid
  <1>6. Staged'
    BY <1>1, <1>2 DEF StagingInv, Staged, Works, Uploading, Written
  <1>7. Reserved'
    BY <1>1, <1>4 DEF StagingInv, Reserved
  <1>8. Intact'
    BY <1>1, <1>4 DEF StagingInv, Intact
  <1>9. Emptied'
    BY <1>1, <1>2 DEF StagingInv, Emptied
  <1> QED
    BY <1>3, <1>5, <1>6, <1>7, <1>8, <1>9 DEF StagingInv

LEMMA InspectKeeps == ASSUME StagingInv, NEW s \in Sweepers, Inspect(s) PROVE StagingInv'
  <1>1. PICK b \in Batches : b = sweep[s].batch /\ Works(s, b) /\ ~Has(s, b)
    BY DEF Inspect, Sweeping, StagingInv, UploadKinds, Works, Has, Destroys
  <1>2. UNCHANGED <<disk, lease, held, pc>> /\ sweep[s].pc # "idle"
    BY DEF Inspect, Sweeping
  <1>3. Rest(s) \/ \E to \in {"reserve recovery", "reserve", "unmanifested"} : Step(s, to)
    BY DEF Inspect
  <1>4. {"reserve recovery", "reserve", "unmanifested", "idle"} \cap Destroys = {}
        /\ {"reserve recovery", "reserve", "unmanifested"} \subseteq Sweeps
    BY DEF Destroys, Sweeps
  <1>5. UploadKinds'
    BY <1>2, <1>3, <1>4, Stepped, Rested DEF StagingInv, UploadKinds
  <1>6. /\ \A t \in Sweepers : t # s => sweep'[t] = sweep[t]
        /\ sweep'[s].pc \notin Destroys /\ (sweep'[s].pc = "idle" \/ sweep'[s].batch = b)
    BY <1>1, <1>2, <1>3, <1>4, Stepped, Rested
  <1> QED
    BY <1>1, <1>2, <1>5, <1>6, SweepLooks

LEMMA DeleteUnmanifestedKeeps ==
  ASSUME StagingInv, NEW s \in Sweepers, DeleteUnmanifested(s)
  PROVE  StagingInv'
  <1>1. PICK b \in Batches : b = sweep[s].batch /\ Works(s, b) /\ ~Has(s, b)
    BY DEF DeleteUnmanifested, Sweeping, StagingInv, UploadKinds, Works, Has, Destroys
  <1>2. /\ UNCHANGED <<lease, held, pc>> /\ Rest(s)
        /\ disk' = IF disk[b] \in {"bare", "emptied"} /\ Removable(b)
                   THEN Set(disk, b, "absent") ELSE disk
    BY <1>1 DEF DeleteUnmanifested
  <1>3. disk' \in [Batches -> Disks] /\ (\A a \in Batches : a # b => disk'[a] = disk[a])
        /\ (disk'[b] = disk[b] \/ (disk[b] # "whole" /\ disk'[b] = "absent"))
    BY <1>2 DEF Set, StagingInv, UploadKinds, Disks
  <1>4. UploadKinds'
    BY <1>2, <1>3, Rested DEF StagingInv, UploadKinds
  <1>5. sweep'[s].pc = "idle" /\ "idle" \notin Destroys /\ (\A t \in Sweepers : t # s => sweep'[t] = sweep[t])
    BY <1>2, Rested DEF Destroys
  <1> QED
    BY <1>1, <1>2, <1>3, <1>4, <1>5, SweepLooks

LEMMA ReserveSweepKeeps == ASSUME StagingInv, NEW s \in Sweepers, ReserveSweep(s) PROVE StagingInv'
  <1>1. PICK b \in Batches : b = sweep[s].batch /\ Works(s, b) /\ ~Has(s, b)
    BY DEF ReserveSweep, Sweeping, StagingInv, UploadKinds, Works, Has, Destroys
  <1>2. UNCHANGED <<disk, held, pc>> /\ sweep[s].pc # "idle"
    BY DEF ReserveSweep, Sweeping
  <1>3. CASE Rest(s) /\ UNCHANGED lease
    <2>1. UploadKinds'
      BY <1>2, <1>3, Rested DEF StagingInv, UploadKinds
    <2>2. /\ sweep'[s].pc = "idle" /\ "idle" \notin Destroys
          /\ \A t \in Sweepers : t # s => sweep'[t] = sweep[t]
      BY <1>3, Rested DEF Destroys
    <2> QED
      BY <1>1, <1>2, <1>3, <2>1, <2>2, SweepLooks
  <1>4. CASE /\ Step(s, "journal") /\ lease[b] = sweep[s].lease
             /\ lease' = IF lease[b] = "queued" THEN Set(lease, b, "sweeping") ELSE lease
    <2>1. /\ lease[b] \in {"none", "queued", "recovering"}
          /\ lease' \in [Batches -> Leases]
          /\ lease'[b] \in {"none", "sweeping", "recovering"}
          /\ lease'[b] = "sweeping" => lease[b] = "queued"
          /\ \A a \in Batches : a # b => lease'[a] = lease[a]
      BY <1>4 DEF StagingInv, UploadKinds, Sweepings, Set, Leases
    <2>2. /\ sweep'[s].pc = "journal" /\ sweep'[s].batch = b
          /\ \A t \in Sweepers : t # s => sweep'[t] = sweep[t]
      BY <1>1, <1>2, <1>4, Stepped DEF Sweeps, Destroys
    <2>3. UploadKinds'
      BY <1>2, <1>4, <2>1, Stepped DEF StagingInv, UploadKinds, Sweeps, Destroys
    <2>4. pc[b] # "promote"
      BY <2>1 DEF StagingInv, Written
    <2>5. pc[b] = "queued" /\ lease'[b] = "sweeping" =>
            disk[b] = "whole" /\ \A t \in Sweepers : Has(t, b)' => t = s
      <3> SUFFICES ASSUME pc[b] = "queued", lease'[b] = "sweeping"
                   PROVE  disk[b] = "whole" /\ \A t \in Sweepers : Has(t, b)' => t = s
        OBVIOUS
      <3>1. \A t \in Sweepers : ~Has(t, b)
        BY <2>1 DEF StagingInv, Reserved
      <3>2. disk[b] = "whole"
        BY <2>1, <3>1 DEF StagingInv, Intact
      <3> QED
        BY <2>2, <3>1, <3>2 DEF Has
    <2> QED
      BY <1>1, <1>2, <2>1, <2>2, <2>3, <2>4, <2>5, SweepMoves
  <1> QED
    BY <1>1, <1>3, <1>4 DEF ReserveSweep

LEMMA ReserveRecoveryKeeps == ASSUME StagingInv, NEW s \in Sweepers, ReserveRecovery(s) PROVE StagingInv'
  <1>1. PICK b \in Batches : b = sweep[s].batch /\ Works(s, b) /\ ~Has(s, b)
    BY DEF ReserveRecovery, Sweeping, StagingInv, UploadKinds, Works, Has, Destroys
  <1>2. Rest(s) \/ (sweep[s].pc # "idle" /\ "resume" \in Sweeps /\ Step(s, "resume"))
    BY DEF ReserveRecovery, Sweeping, Sweeps, Destroys
  <1>3. UploadKinds'
    BY <1>2, Stepped, Rested DEF ReserveRecovery, Set, StagingInv, UploadKinds, Leases
  <1>4. /\ \A t \in Sweepers : t # s => sweep'[t] = sweep[t]
        /\ \A a \in Batches : a # b => lease'[a] = lease[a]
        /\ sweep'[s].pc = "idle" \/ (sweep'[s].pc = "resume" /\ sweep'[s].batch = b)
    BY <1>1, <1>2, Stepped, Rested DEF ReserveRecovery, Set, StagingInv, UploadKinds
  <1>5. \/ lease'[b] = lease[b] /\ sweep'[s].pc = "idle"
        \/ lease[b] \in {"none", "recovering"} /\ lease'[b] = "sweeping-recovery"
    <2>1. sweep[s].lease \in {"none", "queued", "recovering"}
      BY DEF StagingInv, UploadKinds, Sweepings
    <2> QED
      BY <1>1, <2>1, Rested DEF ReserveRecovery, Set, StagingInv, UploadKinds
  <1>6. UNCHANGED <<disk, held, pc>>
    BY DEF ReserveRecovery
  <1>7. pc[b] = "promote" => lease[b] = "claimed"
    BY DEF StagingInv, Written
  <1>8. lease'[b] = lease[b] => \A t \in Sweepers : Has(t, b)' <=> Has(t, b)
    BY <1>1, <1>4, <1>5 DEF Has, Destroys
  <1>9. lease'[b] = lease[b] => \A t \in Sweepers : Has(t, b) => sweep'[t] = sweep[t]
    BY <1>1, <1>4
  <1> QED
    BY <1>1, <1>3, <1>4, <1>5, <1>6, <1>7, <1>8, <1>9, SweepMoves DEF StagingInv, Reserved, Intact

LEMMA WriteJournalKeeps == ASSUME StagingInv, NEW s \in Sweepers, WriteJournal(s) PROVE StagingInv'
  <1>1. PICK b \in Batches : b = sweep[s].batch /\ Works(s, b) /\ Has(s, b) /\ sweep[s].pc = "journal"
    BY DEF WriteJournal, Sweeping, StagingInv, UploadKinds, Works, Has, Destroys
  <1>2. UploadKinds'
    <2>1. UNCHANGED sweep \/ ("files" \in Sweeps /\ Step(s, "files"))
      BY DEF WriteJournal, Sweeps, Destroys
    <2> QED
      BY <1>1, <2>1, Stepped DEF WriteJournal, StagingInv, UploadKinds
  <1>3. sweep'[s].pc \in {"journal", "files"} /\ sweep'[s].batch = b
    BY <1>1 DEF WriteJournal, Step, StagingInv, UploadKinds, Sweepings
  <1>4. \A t \in Sweepers : t # s => sweep'[t] = sweep[t]
    BY DEF WriteJournal, Step, StagingInv, UploadKinds
  <1>5. UNCHANGED <<disk, lease, held, pc>>
    BY DEF WriteJournal
  <1>6. pc[b] # "promote" /\ (pc[b] = "queued" => lease[b] # "queued")
    BY <1>1 DEF StagingInv, Reserved
  <1>7. \A t \in Sweepers : Has(t, b)' <=> Has(t, b)
    BY <1>1, <1>3, <1>4 DEF Has, Destroys
  <1>8. \A t \in Sweepers : Has(t, b) /\ sweep[t].pc # "journal" => sweep'[t].pc # "journal"
    BY <1>1, <1>4
  <1> QED
    BY <1>1, <1>2, <1>3, <1>4, <1>5, <1>6, <1>7, <1>8, SweepMoves DEF StagingInv, Reserved, Intact

LEMMA GiveUpKeeps == ASSUME StagingInv, NEW s \in Sweepers, GiveUp(s) PROVE StagingInv'
  <1>1. PICK b \in Batches : b = sweep[s].batch /\ Works(s, b) /\ Has(s, b)
    BY DEF GiveUp, Sweeping, StagingInv, UploadKinds, Works, Has, Destroys
  <1>2. UploadKinds'
    BY DEF GiveUp, Sweeping, Recovering, Set, Rest, Quiet, StagingInv, UploadKinds, Sweepings, Leases,
       Sweeps, Destroys
  <1>3. sweep'[s].pc = "idle"
    BY DEF GiveUp, Rest, Quiet, StagingInv, UploadKinds
  <1>4. /\ \A t \in Sweepers : t # s => sweep'[t] = sweep[t]
        /\ \A a \in Batches : a # b => lease'[a] = lease[a]
    BY <1>1 DEF GiveUp, Recovering, Set, Rest, StagingInv, UploadKinds
  <1>5. \/ lease[b] = "sweeping" /\ sweep[s].pc = "journal" /\ lease'[b] \in {"none", "queued", "recovering"}
        \/ lease[b] # "sweeping" /\ lease'[b] \in {lease[b], "recovering"}
        \/ lease'[b] = "recovering"
    BY <1>1 DEF GiveUp, Sweeping, Recovering, Set, StagingInv, UploadKinds, Sweepings, Leases
  <1>6. UNCHANGED <<disk, held, pc>>
    BY DEF GiveUp
  <1>7. pc[b] # "promote" /\ (pc[b] = "queued" => lease[b] # "queued")
    BY <1>1 DEF StagingInv, Reserved
  <1>8. \A t \in Sweepers : Has(t, b)' => t # s /\ Has(t, b)
    BY <1>3, <1>4 DEF Has, Destroys
  <1>9. ASSUME pc[b] = "queued", lease[b] = "sweeping", sweep[s].pc = "journal"
        PROVE disk[b] = "whole" /\ \A t \in Sweepers : ~Has(t, b)'
    BY <1>1, <1>8, <1>9 DEF StagingInv, Reserved, Intact
  <1> QED
    BY <1>1, <1>2, <1>3, <1>4, <1>5, <1>6, <1>7, <1>9, SweepMoves

LEMMA DeleteStrictlyKeeps == ASSUME StagingInv, NEW s \in Sweepers, DeleteStrictly(s) PROVE StagingInv'
  <1>1. PICK b \in Batches : b = sweep[s].batch /\ Works(s, b) /\ Has(s, b)
    BY DEF DeleteStrictly, Expected, StagingInv, UploadKinds, Works, Has, Destroys
  <1>2. UploadKinds'
    <2>1. sweep[s].pc # "idle" /\ sweep[s].pc \in {"files", "manifest", "rmdir"}
      BY DEF DeleteStrictly, Expected
    <2>0. After[sweep[s].pc] \in Sweeps
      <3>1. After["files"] = "manifest" /\ After["manifest"] = "rmdir" /\ After["rmdir"] = "unjournal"
        BY DEF After
      <3>2. {"manifest", "rmdir", "unjournal"} \subseteq Sweeps
        BY DEF Sweeps, Destroys
      <3> QED
        BY <2>1, <3>1, <3>2
    <2>2. Less(disk[b]) \in Disks
      BY DEF Less, Disks
    <2>3. disk' \in [Batches -> Disks] /\ lease' \in [Batches -> Leases]
      BY <1>1, <2>2 DEF DeleteStrictly, Recovering, Set, StagingInv, UploadKinds, Leases
    <2>4. UNCHANGED <<held, pc>> /\ (Rest(s) \/ Step(s, After[sweep[s].pc]))
      BY DEF DeleteStrictly
    <2> QED
      BY <2>0, <2>1, <2>3, <2>4, Stepped, Rested DEF StagingInv, UploadKinds
  <1>3. /\ \A t \in Sweepers : t # s => sweep'[t] = sweep[t]
        /\ \A a \in Batches : a # b => disk'[a] = disk[a] /\ lease'[a] = lease[a]
    BY <1>1 DEF DeleteStrictly, Recovering, Set, Step, Rest, StagingInv, UploadKinds
  <1>4. /\ disk[b] = "absent" => disk'[b] = "absent"
        /\ sweep'[s].pc = "unjournal" => disk'[b] = "absent"
    BY <1>1 DEF DeleteStrictly, Expected, After, Set, Step, Rest, Quiet, Less, StagingInv, UploadKinds,
       Sweepings
  <1>5. \/ /\ sweep'[s].pc = "idle" /\ lease'[b] # "sweeping"
           /\ lease'[b] = lease[b] \/ lease'[b] = "recovering"
        \/ sweep'[s].pc \in {"manifest", "rmdir", "unjournal"} /\ sweep'[s].batch = b /\ lease' = lease
    BY <1>1 DEF DeleteStrictly, Expected, After, Recovering, Set, Step, Rest, Quiet, StagingInv,
       UploadKinds, Sweepings
  <1>6. UNCHANGED <<held, pc>>
    BY DEF DeleteStrictly
  <1>7. pc[b] # "promote" /\ (pc[b] = "queued" => lease[b] # "queued")
    BY <1>1 DEF StagingInv, Reserved
  <1>8. \A t \in Sweepers : Has(t, b)' => Has(t, b)
    BY <1>1, <1>3 DEF Has, Destroys
  <1>9. sweep'[s].pc # "idle" => Has(s, b)' /\ sweep'[s].pc # "journal"
    BY <1>5 DEF Has, Destroys
  <1> QED
    BY <1>1, <1>2, <1>3, <1>4, <1>5, <1>6, <1>7, <1>8, <1>9, SweepMoves DEF StagingInv, Reserved

LEMMA DeleteLeftKeeps == ASSUME StagingInv, NEW s \in Sweepers, DeleteLeft(s) PROVE StagingInv'
  <1>1. PICK b \in Batches : b = sweep[s].batch /\ Works(s, b) /\ Has(s, b) /\ sweep[s].pc = "resume"
    BY DEF DeleteLeft, Sweeping, StagingInv, UploadKinds, Works, Has, Destroys
  <1>0. UNCHANGED <<held, pc>> /\ (UNCHANGED sweep \/ Step(s, "unjournal") \/ Rest(s))
    BY DEF DeleteLeft
  <1>2. UploadKinds'
    <2>1. sweep[s].pc # "idle" /\ "unjournal" \in Sweeps
      BY <1>1 DEF Sweeps, Destroys
    <2>2. Less(disk[b]) \in Disks
      BY DEF Less, Disks
    <2>3. disk' \in [Batches -> Disks] /\ lease' \in [Batches -> Leases]
      BY <1>1, <2>2 DEF DeleteLeft, Recovering, Set, StagingInv, UploadKinds, Leases
    <2> QED
      BY <1>0, <2>1, <2>3, Stepped, Rested DEF StagingInv, UploadKinds
  <1>3. /\ \A t \in Sweepers : t # s => sweep'[t] = sweep[t]
        /\ \A a \in Batches : a # b => disk'[a] = disk[a] /\ lease'[a] = lease[a]
    BY <1>1 DEF DeleteLeft, Recovering, Set, Step, Rest, StagingInv, UploadKinds
  <1>4. /\ disk[b] = "absent" => disk'[b] = "absent"
        /\ sweep'[s].pc = "unjournal" => disk'[b] = "absent"
    BY <1>1 DEF DeleteLeft, Set, Step, Rest, Quiet, StagingInv, UploadKinds
  <1>5. \/ /\ sweep'[s].pc = "idle" /\ lease'[b] # "sweeping"
           /\ lease'[b] = lease[b] \/ lease'[b] = "recovering"
        \/ sweep'[s].pc \in {"resume", "unjournal"} /\ sweep'[s].batch = b /\ lease' = lease
    BY <1>1 DEF DeleteLeft, Recovering, Set, Step, Rest, Quiet, StagingInv, UploadKinds, Sweepings
  <1>7. pc[b] # "promote" /\ (pc[b] = "queued" => lease[b] # "queued")
    BY <1>1 DEF StagingInv, Reserved
  <1>8. \A t \in Sweepers : Has(t, b)' => Has(t, b)
    BY <1>1, <1>3 DEF Has, Destroys
  <1>9. sweep'[s].pc # "idle" => Has(s, b)' /\ sweep'[s].pc # "journal"
    BY <1>5 DEF Has, Destroys
  <1> QED
    BY <1>0, <1>1, <1>2, <1>3, <1>4, <1>5, <1>7, <1>8, <1>9, SweepMoves DEF StagingInv, Reserved

LEMMA EndSweepKeeps == ASSUME StagingInv, NEW s \in Sweepers, EndSweep(s) PROVE StagingInv'
  <1>1. PICK b \in Batches : b = sweep[s].batch /\ Works(s, b) /\ Has(s, b) /\ sweep[s].pc = "unjournal"
    BY DEF EndSweep, Sweeping, StagingInv, UploadKinds, Works, Has, Destroys
  <1>2. UploadKinds'
    BY DEF EndSweep, Set, Rest, Quiet, StagingInv, UploadKinds, Sweepings, Sweeps, Leases
  <1>3. /\ \A t \in Sweepers : t # s => sweep'[t] = sweep[t]
        /\ \A a \in Batches : a # b => lease'[a] = lease[a] /\ held'[a] = held[a]
    BY <1>1 DEF EndSweep, Set, Rest, StagingInv, UploadKinds
  <1>4. disk[b] = "absent" /\ lease'[b] = "none" /\ sweep'[s].pc = "idle"
    BY <1>1 DEF EndSweep, Set, Rest, Quiet, StagingInv, UploadKinds, Emptied
  <1>5. UNCHANGED <<disk, pc>>
    BY DEF EndSweep
  <1>6. pc[b] # "promote"
    BY <1>1 DEF StagingInv, Reserved
  <1> QED
    BY <1>1, <1>2, <1>3, <1>4, <1>5, <1>6, SweepMoves

(* A crash leaves every batch to the sweeps: nobody uploads and nobody     *)
(* sweeps.                                                                 *)
LEMMA CrashKeeps == StagingInv /\ Crash => StagingInv'
  <1> SUFFICES ASSUME StagingInv, Crash PROVE StagingInv'
    OBVIOUS
  <1>0. PICK lost \in SUBSET {b \in Batches : Losable(b)} :
            disk' = [b \in Batches |-> IF b \in lost THEN Less(disk[b]) ELSE disk[b]]
    BY DEF Crash
  <1>5. \A b \in Batches : Less(disk[b]) \in Disks /\ (Losable(b) => pc[b] = "remove")
    BY DEF Less, Disks, Losable, At
  <1>6. disk' \in [Batches -> Disks] /\ \A b \in Batches : pc[b] = "new" => disk'[b] = disk[b]
    BY <1>0, <1>5 DEF StagingInv, UploadKinds
  <1>1. /\ \A b \in Batches : lease'[b] = "none" /\ held'[b] = {}
        /\ \A b \in Batches : (pc[b] = "new" /\ pc'[b] = "new") \/ (pc[b] # "new" /\ pc'[b] = "done")
        /\ \A s \in Sweepers : sweep'[s].pc = "idle"
    BY DEF Crash, At, Quiet
  <1>2. UploadKinds'
    BY <1>6 DEF Crash, At, Quiet, StagingInv, UploadKinds, Sweepings, Sweeps, Leases, UploadPlaces
  <1>3. Written' /\ Paid'
    BY <1>1, <1>6 DEF StagingInv, Written, Paid
  <1>4. Staged' /\ Reserved' /\ Intact' /\ Emptied'
    BY <1>1 DEF Staged, Reserved, Intact, Emptied, Works, Has, Destroys
  <1> QED
    BY <1>2, <1>3, <1>4 DEF StagingInv


(* Every step of an upload, its turn and the sweeps keeps the invariant.   *)
LEMMA StagingStep == ASSUME StagingInv, [Next]_vars PROVE StagingInv'
  <1>1. ASSUME NEW b \in Batches, Upload(b) PROVE StagingInv'
    BY <1>1, ReserveKeeps, RegisterKeeps, CreateKeeps, CopyKeeps, MarkQueuedKeeps, RefuseKeeps DEF Upload
  <1>2. ASSUME NEW b \in Batches, Turn(b) PROVE StagingInv'
    <2>1. CASE Cleanup(b)
      BY <2>1, BeginCleanupKeeps, RemovePartKeeps, EndCleanupKeeps, FailCleanupKeeps DEF Cleanup
    <2> QED
      BY <1>2, <2>1, ClaimKeeps, DropKeeps, PromoteKeeps, SettleKeeps DEF Turn
  <1>3. ASSUME NEW s \in Sweepers, Sweep(s) PROVE StagingInv'
    <2>1. CASE \E b \in Batches : Observe(s, b)
      BY <2>1, ObserveKeeps
    <2>2. CASE Delete(s)
      BY <2>2, DeleteStrictlyKeeps, DeleteLeftKeeps, EndSweepKeeps DEF Delete
    <2>3. CASE Inspect(s) \/ DeleteUnmanifested(s) \/ ReserveSweep(s)
      BY <2>3, InspectKeeps, DeleteUnmanifestedKeeps, ReserveSweepKeeps
    <2>4. CASE ReserveRecovery(s) \/ WriteJournal(s) \/ GiveUp(s)
      BY <2>4, ReserveRecoveryKeeps, WriteJournalKeeps, GiveUpKeeps
    <2> QED
      BY <1>3, <2>1, <2>2, <2>3, <2>4 DEF Sweep
  <1>4. CASE UNCHANGED vars
    BY <1>4 DEF vars, StagingInv, UploadKinds, Written, Paid, Staged, Reserved, Intact, Emptied, Works, Has
  <1> QED
    BY <1>1, <1>2, <1>3, <1>4, RemoveJournalKeeps, ExpireKeeps, CrashKeeps DEF Next

(* Sweeps keep off the files of a claimed batch, and what is on disk is    *)
(* paid for (StagedAttachmentSet, sweep_stale_staging), for any number of  *)
(* uploads and concurrent sweeps, any capacity and number of crashes.      *)
THEOREM SweepsAlwaysKeepOff == Spec => []SweepsKeepOff
  <1>1. Init => StagingInv
    BY StagingBegins
  <1>2. StagingInv /\ [Next]_vars => StagingInv'
    BY StagingStep
  <1>3. StagingInv => SweepsKeepOff
    BY DEF StagingInv, Written, Paid, SweepsKeepOff, ClaimedIsWhole, Covered, At
  <1> QED
    BY <1>1, <1>2, <1>3, PTL DEF Spec

-----------------------------------------------------------------------------
(* Images.                                                                 *)

\* Where a call is while it has the lock, and on the way there.
Writes == {"write original", "write vision", "write thumbnail"}
Promotes == {"promote original", "promote vision", "promote thumbnail"}
Fresh == Writes \cup Promotes \cup {"quota", "save", "undo"}
Inside == Fresh \cup {"tidy", "discard", "store", "name it", "drop", "unlink"}
Places == Inside \cup {"start", "made", "done"}

Paths == Creators \X (Required \cup Thumbs)
Ops == [pc : Places, of : SUBSET Creators, left : SUBSET Paths, thumb : BOOLEAN]

ImageKinds ==
    /\ rows \in [Creators -> [kept : BOOLEAN, thumb : Thumbs \cup {Nobody}]]
    /\ op \in [Actors -> Ops]
    /\ files \subseteq Paths /\ IsFiniteSet(files)
    /\ holder \in Actors \cup {Nobody}
    /\ outcome \in [Creators -> {"none", "stored", "refused", "owed", "lost"}]

\* Who does what, and one at a time.
Roles ==
    /\ \A c \in Creators : op[c].pc \in Fresh \cup {"start", "tidy", "discard", "done"}
    /\ \A v \in Viewers : op[v].pc \in {"start", "made", "store", "name it", "drop", "done"}
    /\ \A v \in Viewers : op[v].pc \in {"made", "store", "name it", "drop"} =>
          \E a \in Creators : op[v].of = {a}
    /\ \A d \in Deleters : op[d].pc \in {"start", "unlink", "done"}

Locked == \A x \in Actors : op[x].pc \in Inside <=> holder = x

\* The files a call answers for: no row names them, or not any more.
Pictures(c) == {<<c, v>> : v \in Required}
OwedBy(x, o) ==
    CASE o.pc \in Writes \cup Promotes \cup {"quota"} -> Pictures(x)
      [] o.pc = "save" -> Pictures(x) \cup (IF o.thumb THEN {<<x, x>>} ELSE {})
      [] o.pc = "undo" -> Made(x)
      [] o.pc \in {"store", "name it"} -> {<<a, x>> : a \in o.of}
      [] o.pc = "drop" -> o.left
      [] OTHER -> {}
TempsOwedBy(x, o) ==
    CASE o.pc \in Writes \cup {"quota", "promote original", "undo"} -> Made(x)
      [] o.pc = "promote vision" -> Made(x) \ {<<x, "original">>}
      [] o.pc = "promote thumbnail" -> {<<x, x>>}
      [] OTHER -> {}
Owed(x) == OwedBy(x, op[x])
OwedTemps(x) == TempsOwedBy(x, op[x])

Accounted ==
    /\ \A f \in files : f \in stray \/ f \in Kept \/ \E x \in Actors : f \in Owed(x)
    /\ \A f \in temps : f \in stray \/ \E x \in Actors : f \in OwedTemps(x)

\* A row comes with the save of its creation; a viewer whose thumbnail a row
\* names has named it.
Rows ==
    /\ \A c \in Creators : op[c].pc \in Fresh \cup {"start"} => ~rows[c].kept
    /\ \A c \in Creators : outcome[c] = "refused" => op[c].pc = "done" /\ ~rows[c].kept
    /\ \A a \in Creators : \A v \in Viewers : rows[a].thumb = v => op[v].pc \in {"drop", "done"}
    /\ \A a \in Creators : rows[a].kept /\ a \notin doomed => Named(a) \subseteq files

Within == Bytes <= MaxBytes

\* What the steps of a call have reached, and may rely on.
Promoted(c) ==
    /\ op[c].pc \in {"promote vision", "promote thumbnail", "save"} => <<c, "original">> \in files
    /\ op[c].pc \in {"promote thumbnail", "save"} => <<c, "vision">> \in files
    /\ op[c].pc = "save" /\ op[c].thumb => <<c, c>> \in files
    /\ op[c].pc \in Promotes \cup {"save"} => Bytes + 2 + (IF op[c].thumb THEN 1 ELSE 0) <= MaxBytes
Replacing(v) ==
    \A a \in op[v].of :
        /\ op[v].pc \in {"store", "name it"} =>
              rows[a].kept /\ rows[a].thumb # v /\ Bytes + 1 <= MaxBytes + Cardinality(Replaced(a))
        /\ op[v].pc = "name it" => <<a, v>> \in files
        /\ op[v].pc = "drop" => rows[a].thumb = v /\ op[v].left \subseteq {<<a, t>> : t \in Thumbs \ {v}}
Unlinking(d) ==
    op[d].pc = "unlink" =>
        /\ op[d].of \subseteq doomed
        /\ \A f \in op[d].left : \E a \in op[d].of : f \in Named(a)
        /\ \A a \in op[d].of : Named(a) \cap files \subseteq op[d].left

Progress ==
    /\ \A c \in Creators : Promoted(c)
    /\ \A v \in Viewers : Replacing(v)
    /\ \A d \in Deleters : Unlinking(d)

ImagesInv == ImageKinds /\ Roles /\ Locked /\ Accounted /\ Rows /\ Within /\ Progress

-----------------------------------------------------------------------------
(* Bytes are counted over a finite set: fewer files are fewer bytes, one   *)
(* file more is one more.                                                  *)
LEMMA FewerFiles ==
  ASSUME NEW S, IsFiniteSet(S), NEW T, T \subseteq S
  PROVE  /\ IsFiniteSet(T) /\ Cardinality(S) \in Nat /\ Cardinality(T) \in Nat
         /\ Cardinality(T) <= Cardinality(S)
  BY FS_Subset, FS_CardinalityType

LEMMA OneFileMore ==
  ASSUME NEW S, IsFiniteSet(S), NEW f
  PROVE  /\ IsFiniteSet(S \cup {f}) /\ Cardinality(S) \in Nat /\ Cardinality(S \cup {f}) \in Nat
         /\ Cardinality(S \cup {f}) <= Cardinality(S) + 1
  BY FS_AddElement, FS_CardinalityType

LEMMA ImagesCounted ==
  ASSUME ImageKinds
  PROVE  IsFiniteSet(Kept \cap files) /\ Bytes = Cardinality(Kept \cap files) /\ Bytes \in Nat
  <1>1. Kept \cap files \subseteq files /\ IsFiniteSet(files)
    BY DEF ImageKinds
  <1>2. IsFiniteSet(Kept \cap files) /\ Cardinality(Kept \cap files) \in Nat
    BY <1>1, FewerFiles
  <1>3. Bytes = Cardinality(Kept \cap files)
    BY DEF Bytes
  <1> QED
    BY <1>2, <1>3

LEMMA FewerBytes ==
  ASSUME ImageKinds, ImageKinds', (Kept \cap files)' \subseteq Kept \cap files
  PROVE  Bytes' <= Bytes
  <1>1. IsFiniteSet(Kept \cap files) /\ Bytes = Cardinality(Kept \cap files)
    BY ImagesCounted
  <1>2. Bytes' = Cardinality((Kept \cap files)')
    BY DEF Bytes
  <1> QED
    BY <1>1, <1>2, FewerFiles

LEMMA SameNamed == ASSUME UNCHANGED rows PROVE Kept' = Kept /\ \A a \in Creators : Named(a)' = Named(a)
  BY DEF Kept, Named

\* The files a row names are those of its artifact.
LEMMA NamedOfOne ==
  ASSUME ImageKinds, NEW a \in Creators
  PROVE  /\ Named(a) \subseteq {<<a, v>> : v \in Required \cup Thumbs}
         /\ ~rows[a].kept => Named(a) = {}
  <1>1. rows[a].thumb \in Thumbs \cup {Nobody}
    BY DEF ImageKinds
  <1> QED
    BY <1>1 DEF Named

LEMMA MadeByOne ==
  ASSUME NEW c \in Creators
  PROVE  /\ Made(c) = {<<c, "original">>, <<c, "vision">>, <<c, c>>}
         /\ Made(c) \subseteq Paths
         /\ Pictures(c) = {<<c, "original">>, <<c, "vision">>}
         /\ IsFiniteSet(Made(c))
  <1>1. Made(c) = {<<c, "original">>, <<c, "vision">>, <<c, c>>}
    BY DEF Made, Required
  <1>2. /\ Made(c) \subseteq Paths
        /\ Pictures(c) = {<<c, "original">>, <<c, "vision">>}
    BY DEF Made, Paths, Required, Thumbs, Pictures
  <1>3. IsFiniteSet({<<c, "original">>})
    BY FS_Singleton
  <1>4. IsFiniteSet({<<c, "original">>} \cup {<<c, "vision">>})
    BY <1>3, FS_AddElement
  <1>5. IsFiniteSet(({<<c, "original">>} \cup {<<c, "vision">>}) \cup {<<c, c>>})
    BY <1>4, FS_AddElement
  <1>6. Made(c) = ({<<c, "original">>} \cup {<<c, "vision">>}) \cup {<<c, c>>}
    BY <1>1
  <1> QED
    BY <1>1, <1>2, <1>5, <1>6

(* What a call owes where it is.                                           *)
LEMMA OwedAt ==
  ASSUME NEW x, NEW o
  PROVE  /\ o.pc \in Writes \cup Promotes \cup {"quota"} => OwedBy(x, o) = Pictures(x)
         /\ o.pc = "save" => OwedBy(x, o) = Pictures(x) \cup (IF o.thumb THEN {<<x, x>>} ELSE {})
         /\ o.pc = "undo" => OwedBy(x, o) = Made(x)
         /\ o.pc \in {"store", "name it"} => OwedBy(x, o) = {<<a, x>> : a \in o.of}
         /\ o.pc = "drop" => OwedBy(x, o) = o.left
         /\ o.pc \in {"tidy", "discard", "unlink", "start", "made", "done"} => OwedBy(x, o) = {}
         /\ o.pc \in Writes \cup {"quota", "promote original", "undo"} => TempsOwedBy(x, o) = Made(x)
         /\ o.pc = "promote vision" => TempsOwedBy(x, o) = Made(x) \ {<<x, "original">>}
         /\ o.pc = "promote thumbnail" => TempsOwedBy(x, o) = {<<x, x>>}
         /\ o.pc \in {"save", "tidy", "discard", "store", "name it", "drop", "unlink",
                      "start", "made", "done"} => TempsOwedBy(x, o) = {}
  BY DEF OwedBy, TempsOwedBy, Writes, Promotes

(* Whoever has no lock owes nothing, and one call at a time has it.        *)
LEMMA OnlyHolderOwes ==
  ASSUME ImagesInv, NEW x \in Actors, holder \in {x, Nobody}
  PROVE  /\ \A y \in Actors : y # x => op[y].pc \notin Inside /\ Owed(y) = {} /\ OwedTemps(y) = {}
         /\ \A f \in files : f \in stray \/ f \in Kept \/ f \in Owed(x)
         /\ \A f \in temps : f \in stray \/ f \in OwedTemps(x)
  <1>1. \A y \in Actors : y # x => op[y].pc \in {"start", "made", "done"}
    BY ImagesAssumption DEF ImagesInv, Locked, ImageKinds, Ops, Places
  <1>2. \A y \in Actors : y # x => op[y].pc \notin Inside
    BY <1>1 DEF Inside, Fresh, Writes, Promotes
  <1>3. \A y \in Actors : y # x => Owed(y) = {} /\ OwedTemps(y) = {}
    BY <1>1, OwedAt DEF Owed, OwedTemps
  <1> QED
    BY <1>2, <1>3 DEF ImagesInv, Accounted

(* A step of the call that has the lock, or takes it: what is left to show *)
(* concerns that call, the rows and the bytes.                             *)
LEMMA HolderMoves ==
  ASSUME ImagesInv, ImageKinds', NEW x \in Actors, holder \in {x, Nobody},
         \A y \in Actors : y # x => op'[y] = op[y],
         op'[x].pc \in Inside => holder' = x,
         op'[x].pc \notin Inside => holder' = Nobody,
         Roles',
         \A f \in files' : f \in stray' \/ f \in Kept' \/ f \in Owed(x)',
         \A f \in temps' : f \in stray' \/ f \in OwedTemps(x)',
         Rows', Bytes' <= MaxBytes,
         x \in Creators => Promoted(x)',
         x \in Viewers => Replacing(x)',
         x \in Deleters => Unlinking(x)'
  PROVE  ImagesInv'
  <1>1. \A y \in Actors : y # x => op'[y].pc \notin Inside /\ op'[y] = op[y]
    BY OnlyHolderOwes
  <1>2. Locked'
    BY <1>1, ImagesAssumption DEF Locked
  <1>3. Accounted'
    BY DEF Accounted
  <1>4. \A c \in Creators : c # x => Promoted(c)'
    BY <1>1 DEF Promoted, Actors, Inside, Fresh, Promotes
  <1>5. \A v \in Viewers : v # x => Replacing(v)'
    BY <1>1 DEF Replacing, Actors, Inside
  <1>6. \A d \in Deleters : d # x => Unlinking(d)'
    BY <1>1 DEF Unlinking, Actors, Inside
  <1>7. Progress'
    BY <1>4, <1>5, <1>6 DEF Progress
  <1> QED
    BY <1>2, <1>3, <1>7 DEF ImagesInv, Within

(* A step of a call that neither has nor takes the lock.                   *)
LEMMA OthersMove ==
  ASSUME ImagesInv, ImageKinds', NEW x \in Actors,
         \A y \in Actors : y # x => op'[y] = op[y],
         op[x].pc \in {"start", "made", "done"}, op'[x].pc \in {"start", "made", "done"},
         UNCHANGED <<rows, files, temps, holder, stray, doomed>>, Roles', Rows'
  PROVE  ImagesInv'
  <1>1. /\ Kept' = Kept /\ Bytes' = Bytes
        /\ \A a \in Creators : Named(a)' = Named(a) /\ Replaced(a)' = Replaced(a)
    BY SameNamed DEF Bytes, Replaced, Kept
  <1>2. op[x].pc \notin Inside /\ op'[x].pc \notin Inside
    BY DEF Inside, Fresh, Writes, Promotes
  <1>3. Locked'
    BY <1>2 DEF ImagesInv, Locked
  <1>4. /\ \A y \in Actors : y # x => Owed(y)' = Owed(y) /\ OwedTemps(y)' = OwedTemps(y)
        /\ Owed(x) = {} /\ OwedTemps(x) = {}
    BY OwedAt DEF Owed, OwedTemps
  <1>5. Accounted'
    BY <1>1, <1>4 DEF ImagesInv, Accounted
  <1>6. \A c \in Creators : Promoted(c)'
    BY <1>1, <1>2 DEF ImagesInv, Progress, Promoted, Actors, Inside, Fresh, Promotes
  <1>7. \A v \in Viewers : Replacing(v)'
    <2> SUFFICES ASSUME NEW v \in Viewers PROVE Replacing(v)'
      OBVIOUS
    <2>1. CASE v = x
      BY <2>1, <1>2 DEF Replacing, Inside
    <2>2. CASE v # x
      <3>1. op'[v] = op[v] /\ Replacing(v)
        BY <2>2 DEF ImagesInv, Progress, Actors
      <3>2. op[v] \in Ops
        BY DEF ImagesInv, ImageKinds, Actors
      <3>3. op[v].of \subseteq Creators
        BY <3>2 DEF Ops
      <3> QED
        BY <3>1, <3>3, <1>1 DEF Replacing
    <2> QED
      BY <2>1, <2>2
  <1>8. \A d \in Deleters : Unlinking(d)'
    <2> SUFFICES ASSUME NEW d \in Deleters PROVE Unlinking(d)'
      OBVIOUS
    <2>1. CASE d = x
      BY <2>1, <1>2 DEF Unlinking, Inside
    <2>2. CASE d # x
      <3>1. op'[d] = op[d] /\ Unlinking(d) /\ op[d] \in Ops
        BY <2>2 DEF ImagesInv, ImageKinds, Progress, Actors
      <3>2. op[d].of \subseteq Creators
        BY <3>1 DEF Ops
      <3> QED
        BY <3>1, <3>2, <1>1 DEF Unlinking
    <2> QED
      BY <2>1, <2>2
  <1> QED
    BY <1>1, <1>3, <1>5, <1>6, <1>7, <1>8 DEF ImagesInv, Within, Progress

LEMMA GoesTo ==
  ASSUME op \in [Actors -> Ops], NEW x \in Actors, NEW place \in Places, GoesOn(x, place)
  PROVE  /\ op' \in [Actors -> Ops]
         /\ op'[x].pc = place /\ op'[x].of = op[x].of
         /\ op'[x].left = op[x].left /\ op'[x].thumb = op[x].thumb
         /\ \A y \in Actors : y # x => op'[y] = op[y]
  BY DEF GoesOn, Ops

LEMMA RolesKept ==
  ASSUME ImagesInv, NEW x \in Actors, \A y \in Actors : y # x => op'[y] = op[y],
         x \in Creators => op'[x].pc \in Fresh \cup {"start", "tidy", "discard", "done"},
         x \in Viewers => /\ op'[x].pc \in {"start", "made", "store", "name it", "drop", "done"}
                          /\ op'[x].pc \in {"made", "store", "name it", "drop"} =>
                                \E a \in Creators : op'[x].of = {a},
         x \in Deleters => op'[x].pc \in {"start", "unlink", "done"}
  PROVE  Roles'
  BY DEF ImagesInv, Roles, Actors

LEMMA RowsStay ==
  ASSUME ImagesInv, NEW x \in Actors, \A y \in Actors : y # x => op'[y] = op[y],
         UNCHANGED <<rows, doomed, outcome>>,
         \A a \in Creators : a \notin doomed => Named(a) \cap files \subseteq files',
         x \in Creators => /\ op[x].pc # "done"
                           /\ op'[x].pc \in Fresh \cup {"start"} => op[x].pc \in Fresh \cup {"start"},
         x \in Viewers /\ op[x].pc \in {"drop", "done"} => op'[x].pc \in {"drop", "done"}
  PROVE  Rows'
  <1>1. \A a \in Creators : Named(a)' = Named(a)
    BY SameNamed
  <1>2. \A c \in Creators : outcome[c] = "refused" => op'[c].pc = "done" /\ ~rows[c].kept
    <2> SUFFICES ASSUME NEW c \in Creators, outcome[c] = "refused" PROVE op'[c].pc = "done" /\ ~rows[c].kept
      OBVIOUS
    <2>1. c \in Actors /\ op[c].pc = "done" /\ ~rows[c].kept
      BY DEF ImagesInv, Rows, Actors
    <2> QED
      BY <2>1
  <1>3. \A c \in Creators : op'[c].pc \in Fresh \cup {"start"} => ~rows[c].kept
    <2> SUFFICES ASSUME NEW c \in Creators, op'[c].pc \in Fresh \cup {"start"} PROVE ~rows[c].kept
      OBVIOUS
    <2>1. c \in Actors /\ (op[c].pc \in Fresh \cup {"start"} => ~rows[c].kept)
      BY DEF ImagesInv, Rows, Actors
    <2> QED
      BY <2>1
  <1>4. \A a \in Creators : \A v \in Viewers : rows[a].thumb = v => op'[v].pc \in {"drop", "done"}
    BY DEF ImagesInv, Rows, Actors
  <1>5. \A a \in Creators : rows[a].kept /\ a \notin doomed => Named(a) \subseteq files'
    BY DEF ImagesInv, Rows
  <1> QED
    BY <1>1, <1>2, <1>3, <1>4, <1>5 DEF Rows

LEMMA PathsOfVariants ==
  ASSUME NEW c \in Creators, NEW v \in Variants
  PROVE  Variant(c, v) \in Made(c)
  BY MadeByOne DEF Variant, Variants

LEMMA OrderOfSteps ==
  /\ WriteOf["original"] = "write original" /\ AfterWrite["original"] = "write vision"
  /\ WriteOf["vision"] = "write vision" /\ AfterWrite["vision"] = "write thumbnail"
  /\ WriteOf["thumbnail"] = "write thumbnail" /\ AfterWrite["thumbnail"] = "quota"
  /\ PromoteOf["original"] = "promote original" /\ AfterPromote["original"] = "promote vision"
  /\ PromoteOf["vision"] = "promote vision" /\ AfterPromote["vision"] = "promote thumbnail"
  /\ PromoteOf["thumbnail"] = "promote thumbnail" /\ AfterPromote["thumbnail"] = "save"
  BY DEF WriteOf, AfterWrite, PromoteOf, AfterPromote

LEMMA Weights == Cardinality(Required) = 2
  <1>1. IsFiniteSet({"original"}) /\ Cardinality({"original"}) = 1
    BY FS_Singleton
  <1>2. Cardinality({"original"} \cup {"vision"}) = 2
    BY <1>1, FS_AddElement
  <1>3. Required = {"original"} \cup {"vision"}
    BY DEF Required
  <1> QED
    BY <1>2, <1>3

LEMMA PlacesOfCreation == Fresh \subseteq Places /\ Fresh \subseteq Inside
  BY DEF Places, Inside

(* A step of a creation before its save: it writes its own files only.     *)
LEMMA Making ==
  ASSUME ImagesInv, NEW c \in Creators, op' \in [Actors -> Ops],
         \A y \in Actors : y # c => op'[y] = op[y],
         op[c].pc \in Fresh, op'[c].pc \in Fresh,
         UNCHANGED <<rows, holder, outcome, stray, doomed>>,
         files \subseteq files', files' \subseteq files \cup Made(c),
         files' \subseteq files \cup Owed(c)', Owed(c) \subseteq Owed(c)',
         \A f \in temps' : f \in stray \/ f \in OwedTemps(c)',
         Bytes' = Bytes => Promoted(c)'
  PROVE  ImagesInv'
  <1>1. c \in Actors /\ c \notin Viewers /\ c \notin Deleters /\ holder = c
    BY PlacesOfCreation, ImagesAssumption DEF Actors, ImagesInv, Locked
  <1>2. ImageKinds'
    <2>1. files' \subseteq Paths
      BY MadeByOne DEF ImagesInv, ImageKinds
    <2>2. IsFiniteSet(files \cup Made(c))
      BY MadeByOne, FS_Union DEF ImagesInv, ImageKinds
    <2>3. IsFiniteSet(files')
      BY <2>2, FewerFiles
    <2> QED
      BY <2>1, <2>3 DEF ImagesInv, ImageKinds
  <1>3. Kept' = Kept /\ \A a \in Creators : Named(a)' = Named(a)
    BY SameNamed
  <1>4. Kept \cap Made(c) = {}
    <2>1. Named(c) = {}
      BY NamedOfOne DEF ImagesInv, Rows
    <2>2. \A a \in Creators : Named(a) \cap Made(c) = {}
      BY <2>1, NamedOfOne, MadeByOne DEF ImagesInv
    <2> QED
      BY <2>2 DEF Kept
  <1>5. Bytes' = Bytes
    <2>1. (Kept \cap files)' = Kept \cap files
      BY <1>3, <1>4
    <2> QED
      BY <2>1 DEF Bytes
  <1>6. Rows'
    <2>1. op[c].pc # "done"
      BY DEF Fresh, Writes, Promotes
    <2> QED
      BY <1>1, <2>1, RowsStay
  <1>7. Roles'
    BY <1>1, RolesKept
  <1>8. \A f \in files' : f \in stray' \/ f \in Kept' \/ f \in Owed(c)'
    BY <1>1, <1>3, OnlyHolderOwes
  <1> QED
    BY <1>1, <1>2, <1>5, <1>6, <1>7, <1>8, PlacesOfCreation, HolderMoves DEF ImagesInv, Within

LEMMA BeginCreateKeeps == ASSUME ImagesInv, NEW c \in Creators, BeginCreate(c) PROVE ImagesInv'
  <1>1. c \in Actors /\ c \notin Viewers /\ c \notin Deleters /\ op[c].pc = "start" /\ holder = Nobody
    BY ImagesAssumption DEF Actors, BeginCreate, Doing
  <1>2. op \in [Actors -> Ops] /\ UNCHANGED <<rows, files, temps, stray, doomed>>
    BY DEF BeginCreate, ImagesInv, ImageKinds
  <1>3. \/ /\ holder' = c /\ UNCHANGED outcome
           /\ \E thumb \in BOOLEAN : op' = [op EXCEPT ![c].pc = "write original", ![c].thumb = thumb]
        \/ GoesOn(c, "done") /\ outcome' = [outcome EXCEPT ![c] = "refused"] /\ UNCHANGED holder
    BY DEF BeginCreate
  <1>4. Kept' = Kept /\ Bytes' = Bytes /\ \A a \in Creators : Named(a)' = Named(a)
    BY <1>2, SameNamed DEF Bytes
  <1>5. CASE holder' = c /\ UNCHANGED outcome
             /\ \E thumb \in BOOLEAN : op' = [op EXCEPT ![c].pc = "write original", ![c].thumb = thumb]
    <2>1. /\ op' \in [Actors -> Ops] /\ op'[c].pc = "write original"
          /\ \A y \in Actors : y # c => op'[y] = op[y]
      <3>1. PICK thumb \in BOOLEAN : op' = [op EXCEPT ![c].pc = "write original", ![c].thumb = thumb]
        BY <1>5
      <3>2. "write original" \in Places /\ op[c] \in Ops
        BY <1>1, <1>2 DEF Places, Inside, Fresh, Writes
      <3> QED
        BY <1>1, <1>2, <3>1, <3>2 DEF Ops
    <2>2. op'[c].pc \in Fresh /\ op'[c].pc \in Inside
      BY <2>1 DEF Inside, Fresh, Writes
    <2>3. ImageKinds'
      BY <1>1, <1>2, <1>5, <2>1 DEF ImagesInv, ImageKinds
    <2>4. Roles'
      BY <1>1, <2>1, <2>2, RolesKept
    <2>5. Rows'
      BY <1>1, <1>2, <1>5, <2>1, RowsStay
    <2>6. Promoted(c)'
      BY <2>1 DEF Promoted, Promotes
    <2>7. /\ \A f \in files : f \in stray \/ f \in Kept
          /\ \A f \in temps : f \in stray
      BY <1>1, OnlyHolderOwes, OwedAt DEF Owed, OwedTemps
    <2> QED
      BY <1>1, <1>2, <1>4, <1>5, <2>1, <2>2, <2>3, <2>4, <2>5, <2>6, <2>7, HolderMoves DEF ImagesInv, Within
  <1>6. CASE GoesOn(c, "done") /\ outcome' = [outcome EXCEPT ![c] = "refused"] /\ UNCHANGED holder
    <2>1. /\ op' \in [Actors -> Ops] /\ op'[c].pc = "done"
          /\ \A y \in Actors : y # c => op'[y] = op[y]
      BY <1>1, <1>2, <1>6, GoesTo DEF Places
    <2>2. ImageKinds'
      BY <1>2, <1>6, <2>1 DEF ImagesInv, ImageKinds
    <2>3. Roles'
      BY <1>1, <2>1, RolesKept
    <2>4. Rows'
      <3>1. ~rows[c].kept /\ outcome' \in [Creators -> {"none", "stored", "refused", "owed", "lost"}]
        BY <1>1, <2>2 DEF ImagesInv, Rows, ImageKinds
      <3>2. outcome'[c] = "refused" /\ \A a \in Creators : a # c => outcome'[a] = outcome[a]
        BY <1>6 DEF ImagesInv, ImageKinds
      <3>3. "done" \notin Fresh \cup {"start"}
        BY DEF Fresh, Writes, Promotes
      <3> QED
        BY <1>1, <1>2, <1>4, <2>1, <3>1, <3>2, <3>3 DEF ImagesInv, Rows, Actors
    <2> QED
      BY <1>1, <1>2, <1>6, <2>1, <2>2, <2>3, <2>4, OthersMove
  <1> QED
    BY <1>3, <1>5, <1>6

LEMMA WriteKeeps == ASSUME ImagesInv, NEW c \in Creators, NEW v \in Variants, Write(c, v) PROVE ImagesInv'
  <1>1. c \in Actors /\ op \in [Actors -> Ops] /\ UNCHANGED <<rows, files, holder, outcome, stray, doomed>>
    BY DEF Write, Actors, ImagesInv, ImageKinds
  <1>2. op[c].pc \in Writes /\ AfterWrite[v] \in Writes \cup {"quota"} /\ GoesOn(c, AfterWrite[v])
    BY OrderOfSteps DEF Write, Doing, Variants, Writes
  <1>3. AfterWrite[v] \in Places
    BY <1>2 DEF Places, Inside, Fresh
  <1>4. /\ op' \in [Actors -> Ops] /\ op'[c].pc \in Writes \cup {"quota"}
        /\ \A y \in Actors : y # c => op'[y] = op[y]
    BY <1>1, <1>2, <1>3, GoesTo
  <1>5. Owed(c) = Pictures(c) /\ OwedTemps(c) = Made(c) /\ Owed(c)' = Pictures(c) /\ OwedTemps(c)' = Made(c)
    BY <1>1, <1>2, <1>4, OwedAt DEF Owed, OwedTemps
  <1>6. \A f \in temps' : f \in temps \/ f \in Made(c)
    BY PathsOfVariants DEF Write
  <1>7. holder = c /\ op[c].pc \in Fresh /\ op'[c].pc \in Fresh
    BY <1>1, <1>2, <1>4, PlacesOfCreation DEF ImagesInv, Locked, Fresh
  <1>8. \A f \in temps' : f \in stray \/ f \in OwedTemps(c)'
    BY <1>1, <1>5, <1>6, <1>7, OnlyHolderOwes
  <1>9. Promoted(c)'
    BY <1>4 DEF Promoted, Writes, Promotes
  <1> QED
    BY <1>1, <1>4, <1>5, <1>7, <1>8, <1>9, Making

LEMMA CheckQuotaKeeps == ASSUME ImagesInv, NEW c \in Creators, CheckQuota(c) PROVE ImagesInv'
  <1>1. /\ c \in Actors /\ op \in [Actors -> Ops] /\ op[c].pc = "quota"
        /\ UNCHANGED <<rows, files, temps, holder, outcome, stray, doomed>>
    BY DEF CheckQuota, Doing, Actors, ImagesInv, ImageKinds
  <1>2. PICK place \in {"promote original", "undo"} :
          GoesOn(c, place) /\ (place = "promote original" => Fits(c))
    BY DEF CheckQuota
  <1>3. place \in Fresh /\ place \in Places
    BY <1>2 DEF Places, Inside, Fresh, Promotes
  <1>4. /\ op' \in [Actors -> Ops] /\ op'[c].pc = place /\ op'[c].thumb = op[c].thumb
        /\ \A y \in Actors : y # c => op'[y] = op[y]
    BY <1>1, <1>2, <1>3, GoesTo
  <1>5. /\ Owed(c) = Pictures(c) /\ OwedTemps(c) = Made(c)
        /\ Pictures(c) \subseteq Owed(c)' /\ OwedTemps(c)' = Made(c)
    <2>1. /\ op[c].pc \in Writes \cup Promotes \cup {"quota"}
          /\ op[c].pc \in Writes \cup {"quota", "promote original", "undo"}
      BY <1>1
    <2>2. Owed(c) = Pictures(c) /\ OwedTemps(c) = Made(c)
      BY <2>1, OwedAt DEF Owed, OwedTemps
    <2>3. OwedTemps(c)' = Made(c)
      BY <1>2, <1>4, OwedAt DEF OwedTemps
    <2>4. op'[c].pc \in Promotes \/ op'[c].pc = "undo"
      BY <1>2, <1>4 DEF Promotes
    <2>5. Owed(c)' = Pictures(c) \/ Owed(c)' = Made(c)
      BY <2>4, OwedAt DEF Owed
    <2>6. Pictures(c) \subseteq Made(c)
      BY MadeByOne
    <2> QED
      BY <2>2, <2>3, <2>5, <2>6
  <1>6. holder = c /\ op[c].pc \in Fresh
    BY <1>1, PlacesOfCreation DEF ImagesInv, Locked, Fresh
  <1>7. \A f \in temps : f \in stray \/ f \in OwedTemps(c)'
    BY <1>1, <1>5, <1>6, OnlyHolderOwes
  <1>8. Bytes' = Bytes => Promoted(c)'
    BY <1>2, <1>4, Weights DEF Promoted, Promotes, Fits
  <1> QED
    BY <1>1, <1>3, <1>4, <1>5, <1>6, <1>7, <1>8, Making

LEMMA PromoteImageKeeps ==
  ASSUME ImagesInv, NEW c \in Creators, NEW v \in Variants, PromoteImage(c, v) PROVE ImagesInv'
  <1>1. /\ c \in Actors /\ op \in [Actors -> Ops]
        /\ UNCHANGED <<rows, holder, outcome, stray, doomed>>
    BY DEF PromoteImage, Actors, ImagesInv, ImageKinds
  <1>2. \/ op[c].pc = "promote original" /\ AfterPromote[v] = "promote vision" /\ v = "original"
        \/ op[c].pc = "promote vision" /\ AfterPromote[v] = "promote thumbnail" /\ v = "vision"
        \/ op[c].pc = "promote thumbnail" /\ AfterPromote[v] = "save" /\ v = "thumbnail"
    BY OrderOfSteps DEF PromoteImage, Doing, Variants
  <1>3. op[c].pc \in Promotes /\ op[c].pc \in Fresh /\ AfterPromote[v] \in Fresh /\ AfterPromote[v] \in Places
    BY <1>2 DEF Places, Inside, Fresh, Promotes
  <1>4. /\ op' \in [Actors -> Ops] /\ op'[c].pc = AfterPromote[v] /\ op'[c].thumb = op[c].thumb
        /\ \A y \in Actors : y # c => op'[y] = op[y]
    BY <1>1, <1>3, GoesTo DEF PromoteImage
  <1>5. holder = c
    BY <1>1, <1>3, PlacesOfCreation DEF ImagesInv, Locked
  <1>6. /\ temps' = temps \ {Variant(c, v)}
        /\ files' = IF v = "thumbnail" /\ ~op[c].thumb THEN files ELSE files \cup {Variant(c, v)}
        /\ Variant(c, v) = <<c, IF v = "thumbnail" THEN c ELSE v>>
    BY DEF PromoteImage, Variant
  <1>7. /\ Owed(c) = Pictures(c) /\ Pictures(c) = {<<c, "original">>, <<c, "vision">>}
        /\ v # "thumbnail" => Owed(c)' = Pictures(c)
        /\ v = "thumbnail" => Owed(c)' = Pictures(c) \cup (IF op[c].thumb THEN {<<c, c>>} ELSE {})
    BY <1>1, <1>2, <1>3, <1>4, OwedAt, MadeByOne DEF Owed, Promotes
  <1>8. /\ v = "original" => OwedTemps(c) = Made(c) /\ OwedTemps(c)' = Made(c) \ {<<c, "original">>}
        /\ v = "vision" => OwedTemps(c) = Made(c) \ {<<c, "original">>} /\ OwedTemps(c)' = {<<c, c>>}
        /\ v = "thumbnail" => OwedTemps(c) = {<<c, c>>} /\ OwedTemps(c)' = {}
    BY <1>2, <1>4, OwedAt DEF OwedTemps
  <1>9. OwedTemps(c) \ {Variant(c, v)} \subseteq OwedTemps(c)'
    BY <1>2, <1>6, <1>8, MadeByOne
  <1>10. \A f \in temps' : f \in stray \/ f \in OwedTemps(c)'
    BY <1>1, <1>5, <1>6, <1>9, OnlyHolderOwes
  <1>11. files \subseteq files' /\ files' \subseteq files \cup Made(c) /\ files' \subseteq files \cup Owed(c)'
    BY <1>2, <1>6, <1>7, PathsOfVariants
  <1>12. Bytes' = Bytes => Promoted(c)'
    <2>1. Promoted(c)
      BY DEF ImagesInv, Progress
    <2> QED
      BY <1>2, <1>3, <1>4, <1>6, <2>1 DEF Promoted, Promotes
  <1> QED
    BY <1>1, <1>3, <1>4, <1>7, <1>10, <1>11, <1>12, Making

LEMMA LoseThumbnailKeeps == ASSUME ImagesInv, NEW c \in Creators, LoseThumbnail(c) PROVE ImagesInv'
  <1>1. /\ c \in Actors /\ op \in [Actors -> Ops] /\ op[c] \in Ops
        /\ UNCHANGED <<rows, files, holder, outcome, stray, doomed>>
    BY DEF LoseThumbnail, Actors, ImagesInv, ImageKinds
  <1>2. \/ op[c].pc = "write thumbnail" /\ op' = [op EXCEPT ![c].pc = "quota", ![c].thumb = FALSE]
        \/ op[c].pc = "promote thumbnail" /\ op' = [op EXCEPT ![c].pc = "save", ![c].thumb = FALSE]
    <2>1. PICK v \in {"thumbnail"} :
            \/ Doing(c, WriteOf[v]) /\ op' = [op EXCEPT ![c].pc = "quota", ![c].thumb = FALSE]
            \/ Doing(c, PromoteOf[v]) /\ op' = [op EXCEPT ![c].pc = "save", ![c].thumb = FALSE]
      BY DEF LoseThumbnail
    <2>2. WriteOf[v] = "write thumbnail" /\ PromoteOf[v] = "promote thumbnail"
      BY OrderOfSteps
    <2> QED
      BY <2>1, <2>2 DEF Doing
  <1>3. "quota" \in Places /\ "save" \in Places
    BY DEF Places, Inside, Fresh
  <1>4. /\ op' \in [Actors -> Ops]
        /\ \/ op[c].pc = "write thumbnail" /\ op'[c].pc = "quota"
           \/ op[c].pc = "promote thumbnail" /\ op'[c].pc = "save"
        /\ ~op'[c].thumb
        /\ \A y \in Actors : y # c => op'[y] = op[y]
    <2>1. PICK place \in {"quota", "save"} :
            /\ op' = [op EXCEPT ![c].pc = place, ![c].thumb = FALSE]
            /\ place = "quota" => op[c].pc = "write thumbnail"
            /\ place = "save" => op[c].pc = "promote thumbnail"
      BY <1>2
    <2>2. op' \in [Actors -> Ops] /\ op'[c].pc = place /\ ~op'[c].thumb
      BY <1>1, <1>3, <2>1 DEF Ops
    <2> QED
      BY <1>1, <2>1, <2>2
  <1>5. op[c].pc \in Writes \cup Promotes /\ op[c].pc \in Fresh /\ op'[c].pc \in Fresh
    BY <1>4 DEF Fresh, Writes, Promotes
  <1>6. holder = c
    BY <1>1, <1>5, PlacesOfCreation DEF ImagesInv, Locked
  <1>7. Owed(c) = Pictures(c) /\ Owed(c)' = Pictures(c)
    <2>1. Owed(c) = Pictures(c)
      BY <1>5, OwedAt DEF Owed
    <2>2. CASE op'[c].pc = "quota"
      BY <2>1, <2>2, OwedAt DEF Owed
    <2>3. CASE op'[c].pc = "save"
      <3>1. Owed(c)' = Pictures(c) \cup (IF op'[c].thumb THEN {<<c, c>>} ELSE {})
        BY <2>3, OwedAt DEF Owed
      <3> QED
        BY <1>4, <2>1, <3>1
    <2> QED
      BY <1>4, <2>2, <2>3
  <1>8. \/ OwedTemps(c) = Made(c) /\ OwedTemps(c)' = Made(c)
        \/ OwedTemps(c) = {<<c, c>>} /\ OwedTemps(c)' = {}
    BY <1>4, OwedAt DEF OwedTemps, Writes
  <1>9. \A f \in temps' : f \in stray \/ f \in OwedTemps(c)'
    BY <1>1, <1>6, <1>8, OnlyHolderOwes DEF LoseThumbnail
  <1>10. Bytes' = Bytes => Promoted(c)'
    <2>1. Promoted(c) /\ Bytes \in Nat /\ MaxBytes \in Nat
      BY ImagesCounted, ImagesAssumption DEF ImagesInv, Progress
    <2>2. CASE op'[c].pc = "quota"
      BY <2>2 DEF Promoted, Promotes
    <2>3. CASE op[c].pc = "promote thumbnail" /\ op'[c].pc = "save"
      <3>1. /\ <<c, "original">> \in files /\ <<c, "vision">> \in files
            /\ Bytes + 2 + (IF op[c].thumb THEN 1 ELSE 0) <= MaxBytes
        BY <2>1, <2>3 DEF Promoted, Promotes
      <3>2. Bytes + 2 <= MaxBytes
        BY <2>1, <3>1
      <3>3. ASSUME Bytes' = Bytes PROVE Bytes' + 2 + (IF op'[c].thumb THEN 1 ELSE 0) <= MaxBytes
        <4>1. (IF op'[c].thumb THEN 1 ELSE 0) = 0
          BY <1>4
        <4> QED
          BY <2>1, <3>2, <3>3, <4>1
      <3> QED
        BY <1>1, <1>4, <3>1, <3>3 DEF Promoted
    <2> QED
      BY <1>4, <2>2, <2>3
  <1> QED
    BY <1>1, <1>4, <1>5, <1>7, <1>9, <1>10, Making

LEMMA AbortCreateKeeps == ASSUME ImagesInv, NEW c \in Creators, AbortCreate(c) PROVE ImagesInv'
  <1>1. /\ c \in Actors /\ op \in [Actors -> Ops] /\ GoesOn(c, "undo")
        /\ UNCHANGED <<rows, files, holder, outcome, stray, doomed>>
    BY DEF AbortCreate, Actors, ImagesInv, ImageKinds
  <1>2. op[c].pc \in Fresh
    BY OrderOfSteps DEF AbortCreate, Variants, Fresh, Writes, Promotes
  <1>3. "undo" \in Places /\ "undo" \in Fresh
    BY DEF Places, Inside, Fresh
  <1>4. /\ op' \in [Actors -> Ops] /\ op'[c].pc = "undo"
        /\ \A y \in Actors : y # c => op'[y] = op[y]
    BY <1>1, <1>3, GoesTo
  <1>5. holder = c
    BY <1>1, <1>2, PlacesOfCreation DEF ImagesInv, Locked
  <1>6. Owed(c)' = Made(c) /\ OwedTemps(c)' = Made(c)
    BY <1>4, OwedAt DEF Owed, OwedTemps
  <1>7. Owed(c) \subseteq Made(c) /\ OwedTemps(c) \subseteq Made(c)
    <2>1. \/ op[c].pc \in Writes \cup Promotes \cup {"quota"}
          \/ op[c].pc \in {"save", "undo"}
      BY <1>2 DEF Fresh
    <2>2. \/ Owed(c) = Pictures(c) \/ Owed(c) = Made(c)
          \/ Owed(c) = Pictures(c) \cup (IF op[c].thumb THEN {<<c, c>>} ELSE {})
      BY <2>1, OwedAt DEF Owed
    <2>3. \/ op[c].pc \in Writes \cup {"quota", "promote original", "undo"}
          \/ op[c].pc \in {"promote vision", "promote thumbnail", "save"}
      BY <1>2 DEF Fresh, Promotes
    <2>4. OwedTemps(c) \in {Made(c), Made(c) \ {<<c, "original">>}, {<<c, c>>}, {}}
      BY <2>3, OwedAt DEF OwedTemps
    <2> QED
      BY <2>2, <2>4, MadeByOne
  <1>8. \A f \in temps' : f \in temps \/ f \in Made(c)
    BY PathsOfVariants DEF AbortCreate
  <1>9. \A f \in temps' : f \in stray \/ f \in OwedTemps(c)'
    BY <1>1, <1>5, <1>6, <1>7, <1>8, OnlyHolderOwes
  <1>10. Promoted(c)'
    BY <1>4 DEF Promoted, Promotes
  <1> QED
    BY <1>1, <1>2, <1>3, <1>4, <1>6, <1>7, <1>9, <1>10, Making

(* A call that gives the lock back, and has only removed files.            *)
LEMMA Released ==
  ASSUME ImagesInv, NEW x \in Actors, op' \in [Actors -> Ops],
         \A y \in Actors : y # x => op'[y] = op[y],
         Release(x), op'[x].pc = "done" \/ (x \in Deleters /\ op'[x].pc = "start"),
         rows' \in [Creators -> [kept : BOOLEAN, thumb : Thumbs \cup {Nobody}]],
         outcome' \in [Creators -> {"none", "stored", "refused", "owed", "lost"}],
         files' \subseteq files, Kept' \subseteq Kept,
         \A f \in files' : f \in stray' \/ f \in Kept',
         temps' \subseteq stray', Rows'
  PROVE  ImagesInv'
  <1>1. holder = x /\ holder' = Nobody /\ op'[x].pc \in {"done", "start"} /\ op'[x].pc \notin Inside
    BY DEF Release, Inside, Fresh, Writes, Promotes
  <1>2. ImageKinds'
    BY <1>1, FewerFiles DEF ImagesInv, ImageKinds
  <1>3. Bytes' <= MaxBytes
    <2>1. Bytes' <= Bytes
      BY <1>2, FewerBytes DEF ImagesInv
    <2>2. Bytes \in Nat /\ Bytes' \in Nat /\ MaxBytes \in Nat /\ Bytes <= MaxBytes
      <3>1. Bytes \in Nat
        BY ImagesCounted DEF ImagesInv
      <3>2. /\ Bytes' = Cardinality((Kept \cap files)')
            /\ (Kept \cap files)' \subseteq files' /\ IsFiniteSet(files')
        BY <1>2 DEF Bytes, ImageKinds
      <3>3. Bytes' \in Nat
        BY <3>2, FewerFiles
      <3> QED
        BY <3>1, <3>3, ImagesAssumption DEF ImagesInv, Within
    <2> QED
      BY <2>1, <2>2
  <1>4. Roles'
    BY <1>1, RolesKept, ImagesAssumption
  <1>5. x \in Creators => Promoted(x)'
    BY <1>1 DEF Promoted, Promotes
  <1>6. x \in Viewers => Replacing(x)'
    BY <1>1 DEF Replacing
  <1>7. x \in Deleters => Unlinking(x)'
    BY <1>1 DEF Unlinking
  <1> QED
    BY <1>1, <1>2, <1>3, <1>4, <1>5, <1>6, <1>7, HolderMoves

LEMMA SavedRow ==
  ASSUME ImagesInv, NEW c \in Creators, op[c].pc = "save",
         rows' = [rows EXCEPT ![c] = [kept |-> TRUE, thumb |-> IF op[c].thumb THEN c ELSE Nobody]]
  PROVE  /\ rows' \in [Creators -> [kept : BOOLEAN, thumb : Thumbs \cup {Nobody}]]
         /\ \A a \in Creators : a # c => rows'[a] = rows[a] /\ Named(a)' = Named(a)
         /\ rows'[c].thumb \notin Viewers
         /\ Named(c)' = Owed(c) /\ Named(c) = {}
         /\ Owed(c) = {<<c, "original">>, <<c, "vision">>} \cup (IF op[c].thumb THEN {<<c, c>>} ELSE {})
         /\ Kept' = Kept \cup Owed(c)
  <1>1. c \in Actors /\ c \in Thumbs /\ c # Nobody /\ c \notin Viewers /\ Nobody \notin Viewers
    BY ImagesAssumption DEF Actors, Thumbs
  <1>2. /\ rows' \in [Creators -> [kept : BOOLEAN, thumb : Thumbs \cup {Nobody}]]
        /\ \A a \in Creators : a # c => rows'[a] = rows[a]
        /\ rows'[c].kept /\ rows'[c].thumb = IF op[c].thumb THEN c ELSE Nobody
    BY <1>1 DEF ImagesInv, ImageKinds
  <1>3. \A a \in Creators : a # c => Named(a)' = Named(a)
    BY <1>2 DEF Named
  <1>4. Named(c) = {}
    BY NamedOfOne DEF ImagesInv, Rows, Fresh
  <1>5. Owed(c) = {<<c, "original">>, <<c, "vision">>} \cup (IF op[c].thumb THEN {<<c, c>>} ELSE {})
    <2>1. Owed(c) = Pictures(c) \cup (IF op[c].thumb THEN {<<c, c>>} ELSE {})
      BY OwedAt DEF Owed
    <2>2. Pictures(c) = {<<c, "original">>, <<c, "vision">>}
      BY MadeByOne
    <2> QED
      BY <2>1, <2>2
  <1>6. Named(c)' = Owed(c)
    <2>1. Named(c)' = {<<c, v>> : v \in Required \cup ({rows'[c].thumb} \ {Nobody})}
      BY <1>2 DEF Named
    <2>2. CASE op[c].thumb
      <3>1. Required \cup ({rows'[c].thumb} \ {Nobody}) = {"original", "vision", c}
        BY <1>1, <1>2, <2>2 DEF Required
      <3> QED
        BY <1>5, <2>1, <2>2, <3>1
    <2>3. CASE ~op[c].thumb
      <3>1. Required \cup ({rows'[c].thumb} \ {Nobody}) = {"original", "vision"}
        BY <1>1, <1>2, <2>3 DEF Required
      <3> QED
        BY <1>5, <2>1, <2>3, <3>1
    <2> QED
      BY <2>2, <2>3
  <1>7. Kept' = Kept \cup Owed(c)
    <2>1. \A f : f \in Kept' <=> \E a \in Creators : f \in Named(a)'
      BY DEF Kept
    <2>2. \A f : f \in Kept <=> \E a \in Creators : f \in Named(a)
      BY DEF Kept
    <2> QED
      BY <1>3, <1>4, <1>6, <2>1, <2>2
  <1> QED
    BY <1>1, <1>2, <1>3, <1>4, <1>5, <1>6, <1>7

LEMMA SaveKeeps == ASSUME ImagesInv, NEW c \in Creators, Save(c) PROVE ImagesInv'
  <1>1. /\ c \in Actors /\ c \notin Viewers /\ c \notin Deleters
        /\ op \in [Actors -> Ops] /\ op[c].pc = "save"
        /\ UNCHANGED <<files, temps, holder, outcome, stray, doomed>>
        /\ rows' = [rows EXCEPT ![c] = [kept |-> TRUE, thumb |-> IF op[c].thumb THEN c ELSE Nobody]]
    BY ImagesAssumption DEF Save, Doing, Actors, ImagesInv, ImageKinds
  <1>2. PICK place \in {"tidy", "discard"} : GoesOn(c, place)
    BY DEF Save, SettleSave
  <1>3. place \in Places /\ place \in Inside /\ place \notin Fresh
    BY DEF Places, Inside, Fresh, Writes, Promotes
  <1>4. /\ op' \in [Actors -> Ops] /\ op'[c].pc = place
        /\ \A y \in Actors : y # c => op'[y] = op[y]
    BY <1>1, <1>2, <1>3, GoesTo
  <1>5. /\ rows' \in [Creators -> [kept : BOOLEAN, thumb : Thumbs \cup {Nobody}]]
        /\ \A a \in Creators : a # c => rows'[a] = rows[a] /\ Named(a)' = Named(a)
        /\ rows'[c].thumb \notin Viewers
        /\ Named(c)' = Owed(c) /\ Named(c) = {}
        /\ Owed(c) = {<<c, "original">>, <<c, "vision">>} \cup (IF op[c].thumb THEN {<<c, c>>} ELSE {})
        /\ Kept' = Kept \cup Owed(c)
    BY <1>1, SavedRow
  <1>6. holder = c
    BY <1>1, PlacesOfCreation DEF ImagesInv, Locked, Fresh
  <1>7. ImageKinds'
    BY <1>1, <1>4, <1>5 DEF ImagesInv, ImageKinds
  <1>8. Roles'
    BY <1>1, <1>4, RolesKept
  <1>9. /\ \A f \in files : f \in stray \/ f \in Kept \/ f \in Owed(c)
        /\ \A f \in temps : f \in stray
    BY <1>1, <1>6, OnlyHolderOwes, OwedAt DEF OwedTemps
  <1>10. Owed(c) \subseteq files
    BY <1>1, <1>5 DEF ImagesInv, Progress, Promoted
  <1>11. Rows'
    <2>1. \A a \in Creators : outcome[a] = "refused" => a # c
      BY <1>1 DEF ImagesInv, Rows
    <2>2. \A a \in Creators : op'[a].pc \in Fresh \cup {"start"} => ~rows'[a].kept
      BY <1>3, <1>4, <1>5 DEF ImagesInv, Rows, Actors
    <2>3. \A a \in Creators : outcome'[a] = "refused" => op'[a].pc = "done" /\ ~rows'[a].kept
      BY <1>1, <1>4, <1>5, <2>1 DEF ImagesInv, Rows, Actors
    <2>4. \A a \in Creators : \A v \in Viewers : rows'[a].thumb = v => op'[v].pc \in {"drop", "done"}
      BY <1>1, <1>4, <1>5 DEF ImagesInv, Rows, Actors
    <2>5. \A a \in Creators : rows'[a].kept /\ a \notin doomed' => Named(a)' \subseteq files'
      BY <1>1, <1>5, <1>10 DEF ImagesInv, Rows
    <2> QED
      BY <2>2, <2>3, <2>4, <2>5 DEF Rows
  <1>12. Bytes' <= MaxBytes
    <2> DEFINE S == Kept \cap files
               T == (S \cup {<<c, "original">>}) \cup {<<c, "vision">>}
    <2>1. IsFiniteSet(S) /\ Bytes = Cardinality(S) /\ MaxBytes \in Nat
      BY ImagesCounted, ImagesAssumption DEF ImagesInv
    <2>2. IsFiniteSet(T) /\ Bytes \in Nat /\ Cardinality(T) \in Nat /\ Cardinality(T) <= Bytes + 2
      <3>1. IsFiniteSet(S \cup {<<c, "original">>}) /\ Cardinality(S \cup {<<c, "original">>}) \in Nat
            /\ Cardinality(S \cup {<<c, "original">>}) <= Cardinality(S) + 1 /\ Cardinality(S) \in Nat
        BY <2>1, OneFileMore
      <3>2. IsFiniteSet(T) /\ Cardinality(T) \in Nat
            /\ Cardinality(T) <= Cardinality(S \cup {<<c, "original">>}) + 1
        BY <3>1, OneFileMore
      <3> HIDE DEF S, T
      <3> QED
        BY <2>1, <3>1, <3>2
    <2>3. Bytes + 2 + (IF op[c].thumb THEN 1 ELSE 0) <= MaxBytes
      BY <1>1 DEF ImagesInv, Progress, Promoted
    <2>4. Bytes' = Cardinality((Kept \cap files)')
      BY DEF Bytes
    <2>5. (Kept \cap files)' = (Kept \cup Owed(c)) \cap files
      BY <1>1, <1>5
    <2>6. CASE op[c].thumb
      <3>1. (Kept \cap files)' \subseteq T \cup {<<c, c>>}
        BY <1>5, <2>5
      <3>2. IsFiniteSet(T \cup {<<c, c>>}) /\ Cardinality(T \cup {<<c, c>>}) <= Cardinality(T) + 1
            /\ Cardinality(T \cup {<<c, c>>}) \in Nat
        BY <2>2, OneFileMore
      <3>3. Bytes' <= Cardinality(T \cup {<<c, c>>}) /\ Bytes' \in Nat
        BY <2>4, <3>1, <3>2, FewerFiles
      <3>4. (IF op[c].thumb THEN 1 ELSE 0) = 1
        BY <2>6
      <3> HIDE DEF S, T
      <3> QED
        BY <2>1, <2>2, <2>3, <3>2, <3>3, <3>4
    <2>7. CASE ~op[c].thumb
      <3>1. (Kept \cap files)' \subseteq T
        BY <1>5, <2>5, <2>7
      <3>3. Bytes' <= Cardinality(T) /\ Bytes' \in Nat
        BY <2>2, <2>4, <3>1, FewerFiles
      <3>4. (IF op[c].thumb THEN 1 ELSE 0) = 0
        BY <2>7
      <3> HIDE DEF S, T
      <3> QED
        BY <2>1, <2>2, <2>3, <3>3, <3>4
    <2> QED
      BY <2>6, <2>7
  <1>13. Promoted(c)'
    BY <1>4 DEF Promoted, Promotes
  <1> QED
    BY <1>1, <1>3, <1>4, <1>5, <1>6, <1>7, <1>8, <1>9, <1>11, <1>12, <1>13, HolderMoves

(* The rows stay while a call that ends tells its caller.                  *)
LEMMA RowsTold ==
  ASSUME ImagesInv, NEW c \in Creators, \A y \in Actors : y # c => op'[y] = op[y],
         UNCHANGED <<rows, doomed>>, op'[c].pc = "done",
         \A a \in Creators : a # c => outcome'[a] = outcome[a],
         outcome'[c] = "refused" => ~rows[c].kept,
         \A a \in Creators : a \notin doomed => Named(a) \cap files \subseteq files'
  PROVE  Rows'
  <1>1. \A a \in Creators : Named(a)' = Named(a)
    BY SameNamed
  <1>2. c \in Actors /\ c \notin Viewers /\ "done" \notin Fresh \cup {"start"}
    BY ImagesAssumption DEF Actors, Fresh, Writes, Promotes
  <1>3. \A a \in Creators : op'[a].pc \in Fresh \cup {"start"} => ~rows[a].kept
    BY <1>2 DEF ImagesInv, Rows, Actors
  <1>4. \A a \in Creators : outcome'[a] = "refused" => op'[a].pc = "done" /\ ~rows[a].kept
    BY <1>2 DEF ImagesInv, Rows, Actors
  <1>5. \A a \in Creators : \A v \in Viewers : rows[a].thumb = v => op'[v].pc \in {"drop", "done"}
    BY <1>2 DEF ImagesInv, Rows, Actors
  <1>6. \A a \in Creators : rows[a].kept /\ a \notin doomed => Named(a) \subseteq files'
    BY DEF ImagesInv, Rows
  <1> QED
    BY <1>1, <1>3, <1>4, <1>5, <1>6 DEF Rows

LEMMA TidyKeeps == ASSUME ImagesInv, NEW c \in Creators, Tidy(c) PROVE ImagesInv'
  <1>1. /\ c \in Actors /\ op \in [Actors -> Ops] /\ op[c].pc = "tidy" /\ GoesOn(c, "done") /\ Release(c)
        /\ UNCHANGED <<rows, files, temps, stray, doomed>>
    BY DEF Tidy, Doing, Actors, ImagesInv, ImageKinds
  <1>2. PICK told \in {"stored", "lost"} : outcome' = [outcome EXCEPT ![c] = told]
    BY DEF Tidy
  <1>3. /\ op' \in [Actors -> Ops] /\ op'[c].pc = "done"
        /\ \A y \in Actors : y # c => op'[y] = op[y]
    BY <1>1, GoesTo DEF Places
  <1>4. /\ rows' \in [Creators -> [kept : BOOLEAN, thumb : Thumbs \cup {Nobody}]]
        /\ outcome' \in [Creators -> {"none", "stored", "refused", "owed", "lost"}]
        /\ outcome'[c] # "refused" /\ \A a \in Creators : a # c => outcome'[a] = outcome[a]
    BY <1>1, <1>2 DEF ImagesInv, ImageKinds
  <1>5. Rows'
    BY <1>1, <1>3, <1>4, RowsTold
  <1>6. Kept' = Kept
    BY <1>1, SameNamed
  <1>7. /\ \A f \in files : f \in stray \/ f \in Kept
        /\ temps \subseteq stray
    BY <1>1, OnlyHolderOwes, OwedAt DEF Owed, OwedTemps, Release
  <1> QED
    BY <1>1, <1>3, <1>4, <1>5, <1>6, <1>7, Released

LEMMA UndoKeeps == ASSUME ImagesInv, NEW c \in Creators, Undo(c) PROVE ImagesInv'
  <1>1. /\ c \in Actors /\ op \in [Actors -> Ops] /\ op[c].pc = "undo" /\ GoesOn(c, "done") /\ Release(c)
        /\ UNCHANGED <<rows, doomed>> /\ outcome' = [outcome EXCEPT ![c] = "refused"]
    BY DEF Undo, Doing, Actors, ImagesInv, ImageKinds
  <1>2. PICK left \in SUBSET Made(c) :
          /\ stray' = stray \cup left
          /\ files' = files \ (Made(c) \ left) /\ temps' = temps \ (Made(c) \ left)
    <2>1. CASE RemoveMade(c) /\ UNCHANGED stray
      <3>1. stray' = stray \cup {} /\ files' = files \ (Made(c) \ {}) /\ temps' = temps \ (Made(c) \ {})
        BY <2>1 DEF RemoveMade
      <3> QED
        BY <3>1
    <2>2. CASE \E left \in SUBSET (Made(c) \cap (files \cup temps)) :
                 /\ left # {} /\ stray' = stray \cup left
                 /\ files' = files \ (Made(c) \ left) /\ temps' = temps \ (Made(c) \ left)
      BY <2>2
    <2> QED
      BY <2>1, <2>2 DEF Undo
  <1>3. /\ op' \in [Actors -> Ops] /\ op'[c].pc = "done"
        /\ \A y \in Actors : y # c => op'[y] = op[y]
    BY <1>1, GoesTo DEF Places
  <1>4. /\ rows' \in [Creators -> [kept : BOOLEAN, thumb : Thumbs \cup {Nobody}]]
        /\ outcome' \in [Creators -> {"none", "stored", "refused", "owed", "lost"}]
        /\ \A a \in Creators : a # c => outcome'[a] = outcome[a]
    BY <1>1 DEF ImagesInv, ImageKinds
  <1>5. ~rows[c].kept /\ Named(c) = {}
    BY <1>1, NamedOfOne DEF ImagesInv, Rows, Fresh
  <1>6. \A a \in Creators : Named(a) \cap Made(c) = {}
    BY <1>5, NamedOfOne, MadeByOne DEF ImagesInv
  <1>7. Rows'
    BY <1>1, <1>2, <1>3, <1>4, <1>5, <1>6, RowsTold
  <1>8. Kept' = Kept
    BY <1>1, SameNamed
  <1>9. /\ \A f \in files : f \in stray \/ f \in Kept \/ f \in Made(c)
        /\ \A f \in temps : f \in stray \/ f \in Made(c)
    <2>1. Owed(c) = Made(c) /\ OwedTemps(c) = Made(c)
      BY <1>1, OwedAt DEF Owed, OwedTemps
    <2> QED
      BY <1>1, <2>1, OnlyHolderOwes DEF Release
  <1>10. /\ \A f \in files' : f \in stray' \/ f \in Kept'
         /\ temps' \subseteq stray'
    BY <1>2, <1>8, <1>9
  <1> QED
    BY <1>1, <1>2, <1>3, <1>4, <1>7, <1>8, <1>10, Released

LEMMA DiscardKeeps == ASSUME ImagesInv, NEW c \in Creators, Discard(c) PROVE ImagesInv'
  <1>1. /\ c \in Actors /\ op \in [Actors -> Ops] /\ op[c].pc = "discard" /\ GoesOn(c, "done") /\ Release(c)
        /\ UNCHANGED <<temps, stray>> /\ c \notin Viewers
    BY ImagesAssumption DEF Discard, Doing, Actors, ImagesInv, ImageKinds
  <1>2. /\ op' \in [Actors -> Ops] /\ op'[c].pc = "done" /\ op'[c].pc \notin Fresh \cup {"start"}
        /\ \A y \in Actors : y # c => op'[y] = op[y]
    <2>1. "done" \in Places /\ "done" \notin Fresh \cup {"start"}
      BY DEF Places, Fresh, Writes, Promotes
    <2> QED
      BY <1>1, <2>1, GoesTo
  <1>3. /\ \A f \in files : f \in stray \/ f \in Kept
        /\ temps \subseteq stray
    BY <1>1, OnlyHolderOwes, OwedAt DEF Owed, OwedTemps, Release
  <1>4. \A a \in Creators : a # c => Named(a) \cap Named(c) = {}
    BY NamedOfOne DEF ImagesInv
  <1>5. CASE /\ UNCHANGED doomed /\ outcome' = [outcome EXCEPT ![c] = "refused"]
             /\ files' = files \ Named(c) /\ rows' = [rows EXCEPT ![c] = Absent]
    <2>1. /\ rows' \in [Creators -> [kept : BOOLEAN, thumb : Thumbs \cup {Nobody}]]
          /\ outcome' \in [Creators -> {"none", "stored", "refused", "owed", "lost"}]
          /\ \A a \in Creators : a # c => outcome'[a] = outcome[a] /\ rows'[a] = rows[a]
          /\ ~rows'[c].kept /\ rows'[c].thumb = Nobody /\ Nobody \notin Viewers
      BY <1>5, ImagesAssumption DEF ImagesInv, ImageKinds, Absent, Actors
    <2>2. Named(c)' = {} /\ \A a \in Creators : a # c => Named(a)' = Named(a)
      BY <2>1 DEF Named
    <2>3. /\ \A f : f \in Kept' => f \in Kept
          /\ \A f : f \in Kept /\ f \notin Named(c) => f \in Kept'
      <3>1. \A f : f \in Kept' <=> \E a \in Creators : f \in Named(a)'
        BY DEF Kept
      <3>2. \A f : f \in Kept <=> \E a \in Creators : f \in Named(a)
        BY DEF Kept
      <3> QED
        BY <2>2, <3>1, <3>2
    <2>4. Rows'
      <3>1. \A a \in Creators : op'[a].pc \in Fresh \cup {"start"} => ~rows'[a].kept
        BY <1>2, <2>1 DEF ImagesInv, Rows, Actors
      <3>2. \A a \in Creators : outcome'[a] = "refused" => op'[a].pc = "done" /\ ~rows'[a].kept
        BY <1>2, <2>1 DEF ImagesInv, Rows, Actors
      <3>3. \A a \in Creators : \A v \in Viewers : rows'[a].thumb = v => op'[v].pc \in {"drop", "done"}
        BY <1>1, <1>2, <2>1 DEF ImagesInv, Rows, Actors
      <3>4. \A a \in Creators : rows'[a].kept /\ a \notin doomed' => Named(a)' \subseteq files'
        BY <1>4, <1>5, <2>1, <2>2 DEF ImagesInv, Rows
      <3> QED
        BY <3>1, <3>2, <3>3, <3>4 DEF Rows
    <2>5. files' \subseteq files /\ Kept' \subseteq Kept /\ (\A f \in files' : f \in stray' \/ f \in Kept')
          /\ temps' \subseteq stray'
      BY <1>1, <1>3, <1>5, <2>3
    <2> QED
      BY <1>1, <1>2, <2>1, <2>4, <2>5, Released
  <1>6. CASE /\ outcome' = [outcome EXCEPT ![c] = "owed"]
             /\ doomed' = doomed \cup {c}
             /\ \E gone \in SUBSET Named(c) : files' = files \ gone
             /\ UNCHANGED rows
    <2>1. /\ rows' \in [Creators -> [kept : BOOLEAN, thumb : Thumbs \cup {Nobody}]]
          /\ outcome' \in [Creators -> {"none", "stored", "refused", "owed", "lost"}]
          /\ outcome'[c] = "owed" /\ \A a \in Creators : a # c => outcome'[a] = outcome[a]
      BY <1>6 DEF ImagesInv, ImageKinds
    <2>2. Kept' = Kept /\ \A a \in Creators : Named(a)' = Named(a)
      BY <1>6, SameNamed
    <2>3. Rows'
      <3>1. \A a \in Creators : op'[a].pc \in Fresh \cup {"start"} => ~rows'[a].kept
        BY <1>2, <1>6 DEF ImagesInv, Rows, Actors
      <3>2. \A a \in Creators : outcome'[a] = "refused" => op'[a].pc = "done" /\ ~rows'[a].kept
        BY <1>2, <1>6, <2>1 DEF ImagesInv, Rows, Actors
      <3>3. \A a \in Creators : \A v \in Viewers : rows'[a].thumb = v => op'[v].pc \in {"drop", "done"}
        BY <1>1, <1>2, <1>6 DEF ImagesInv, Rows, Actors
      <3>4. \A a \in Creators : rows'[a].kept /\ a \notin doomed' => Named(a)' \subseteq files'
        BY <1>4, <1>6, <2>2 DEF ImagesInv, Rows
      <3> QED
        BY <3>1, <3>2, <3>3, <3>4 DEF Rows
    <2>4. files' \subseteq files /\ (\A f \in files' : f \in stray' \/ f \in Kept') /\ temps' \subseteq stray'
      BY <1>1, <1>3, <1>6, <2>2
    <2> QED
      BY <1>1, <1>2, <2>1, <2>2, <2>3, <2>4, Released
  <1> QED
    BY <1>5, <1>6 DEF Discard

(* The places of a view: what it works on, and its way to the end.         *)
LEMMA ViewEnds ==
  ASSUME ImagesInv, NEW v \in Viewers, EndView(v)
  PROVE  /\ v \in Actors /\ op' \in [Actors -> Ops] /\ op'[v].pc = "done"
         /\ \A y \in Actors : y # v => op'[y] = op[y]
  <1>1. v \in Actors /\ op \in [Actors -> Ops] /\ "done" \in Places /\ GoesOn(v, "done")
    BY DEF Actors, ImagesInv, ImageKinds, Places, EndView
  <1> QED
    BY <1>1, GoesTo

LEMMA RowsOfViewer ==
  ASSUME ImagesInv, NEW v \in Viewers, \A y \in Actors : y # v => op'[y] = op[y],
         UNCHANGED <<rows, doomed, outcome>>,
         \A a \in Creators : a \notin doomed => Named(a) \cap files \subseteq files',
         op[v].pc \in {"drop", "done"} => op'[v].pc \in {"drop", "done"}
  PROVE  Rows'
  <1>1. v \in Actors /\ v \notin Creators
    BY ImagesAssumption DEF Actors
  <1> QED
    BY <1>1, RowsStay

LEMMA LookUpKeeps == ASSUME ImagesInv, NEW v \in Viewers, NEW a \in Creators, LookUp(v, a) PROVE ImagesInv'
  <1>1. /\ v \in Actors /\ v \notin Creators /\ v \notin Deleters
        /\ op \in [Actors -> Ops] /\ op[v].pc = "start"
        /\ UNCHANGED <<rows, files, temps, holder, stray, doomed, outcome>>
    BY ImagesAssumption DEF LookUp, Doing, Actors, ImagesInv, ImageKinds
  <1>2. /\ op' \in [Actors -> Ops]
        /\ op'[v].pc = "done" \/ (op'[v].pc = "made" /\ op'[v].of = {a})
        /\ \A y \in Actors : y # v => op'[y] = op[y]
    <2>1. "done" \in Places /\ "made" \in Places /\ op[v] \in Ops
      BY <1>1 DEF Places
    <2>2. \/ op' = [op EXCEPT ![v].pc = "made", ![v].of = {a}]
          \/ GoesOn(v, "done")
      BY DEF LookUp
    <2>3. CASE op' = [op EXCEPT ![v].pc = "made", ![v].of = {a}]
      BY <1>1, <2>1, <2>3 DEF Ops
    <2>4. CASE GoesOn(v, "done")
      BY <1>1, <2>1, <2>4, GoesTo
    <2> QED
      BY <2>2, <2>3, <2>4
  <1>3. ImageKinds'
    BY <1>1, <1>2 DEF ImagesInv, ImageKinds
  <1>4. Roles'
    BY <1>1, <1>2, RolesKept
  <1>5. Rows'
    BY <1>1, <1>2, RowsOfViewer
  <1> QED
    BY <1>1, <1>2, <1>3, <1>4, <1>5, OthersMove

LEMMA ViewOf ==
  ASSUME ImagesInv, NEW v \in Viewers, op[v].pc \in {"made", "store", "name it", "drop"}, NEW a \in op[v].of
  PROVE  a \in Creators /\ op[v].of = {a}
  <1>1. PICK b \in Creators : op[v].of = {b}
    BY DEF ImagesInv, Roles
  <1> QED
    BY <1>1

(* The thumbnail a view replaces is one file, and a row names it.          *)
LEMMA ReplacedOne ==
  ASSUME ImagesInv, NEW a \in Creators
  PROVE  /\ Replaced(a) \subseteq Kept \cap files /\ Replaced(a) \subseteq {<<a, rows[a].thumb>>}
         /\ Replaced(a) \subseteq {<<a, t>> : t \in Thumbs}
         /\ IsFiniteSet(Replaced(a)) /\ Cardinality(Replaced(a)) \in Nat
  <1>1. /\ Replaced(a) \subseteq Named(a) /\ Replaced(a) \subseteq files
        /\ Replaced(a) \subseteq {<<a, t>> : t \in Thumbs}
    BY DEF Replaced
  <1>2. Replaced(a) \subseteq {<<a, rows[a].thumb>>}
    BY <1>1, ImagesAssumption DEF Named
  <1>3. IsFiniteSet(Replaced(a)) /\ Cardinality(Replaced(a)) \in Nat
    BY <1>1, FewerFiles DEF ImagesInv, ImageKinds
  <1> QED
    BY <1>1, <1>2, <1>3 DEF Kept

LEMMA ClaimSessionKeeps ==
  ASSUME ImagesInv, NEW v \in Viewers, NEW a \in Creators, ClaimSession(v, a) PROVE ImagesInv'
  <1>1. /\ v \in Actors /\ v \notin Creators /\ v \notin Deleters /\ op \in [Actors -> Ops]
        /\ op[v].pc = "made" /\ a \in op[v].of /\ holder = Nobody
        /\ UNCHANGED <<rows, files, temps, stray, doomed, outcome>>
    BY ImagesAssumption DEF ClaimSession, Doing, Actors, ImagesInv, ImageKinds
  <1>2. op[v].of = {a}
    BY <1>1, ViewOf
  <1>3. CASE /\ StillWanted(a) /\ Bytes - Cardinality(Replaced(a)) + 1 <= MaxBytes
             /\ GoesOn(v, "store") /\ holder' = v
    <2>1. "store" \in Places /\ "store" \in Inside
      BY DEF Places, Inside
    <2>2. /\ op' \in [Actors -> Ops] /\ op'[v].pc = "store" /\ op'[v].of = {a}
          /\ \A y \in Actors : y # v => op'[y] = op[y]
      BY <1>1, <1>2, <1>3, <2>1, GoesTo
    <2>3. ImageKinds'
      BY <1>1, <1>3, <2>2 DEF ImagesInv, ImageKinds
    <2>4. Roles'
      BY <1>1, <2>2, RolesKept
    <2>5. Rows'
      BY <1>1, <2>2, RowsOfViewer
    <2>6. Kept' = Kept /\ Bytes' = Bytes /\ Replaced(a)' = Replaced(a)
      BY <1>1, SameNamed DEF Bytes, Replaced
    <2>7. rows[a].kept /\ rows[a].thumb # v /\ Bytes + 1 <= MaxBytes + Cardinality(Replaced(a))
      <3>1. Bytes \in Nat /\ Cardinality(Replaced(a)) \in Nat /\ MaxBytes \in Nat
        BY ImagesCounted, ReplacedOne, ImagesAssumption DEF ImagesInv
      <3>2. rows[a].kept /\ rows[a].thumb # v
        BY <1>1, <1>3 DEF StillWanted, ImagesInv, Rows
      <3> QED
        BY <1>3, <3>1, <3>2
    <2>8. Replacing(v)'
      BY <1>1, <2>2, <2>6, <2>7 DEF Replacing
    <2>9. /\ \A f \in files : f \in stray \/ f \in Kept
          /\ \A f \in temps : f \in stray
      <3>1. Owed(v) = {} /\ OwedTemps(v) = {}
        BY <1>1, OwedAt DEF Owed, OwedTemps
      <3> QED
        BY <1>1, <3>1, OnlyHolderOwes
    <2> QED
      BY <1>1, <1>3, <2>1, <2>2, <2>3, <2>4, <2>5, <2>6, <2>8, <2>9, HolderMoves DEF ImagesInv, Within
  <1>4. CASE EndView(v) /\ UNCHANGED holder
    <2>1. /\ op' \in [Actors -> Ops] /\ op'[v].pc = "done"
          /\ \A y \in Actors : y # v => op'[y] = op[y]
      BY <1>4, ViewEnds
    <2>2. ImageKinds'
      BY <1>1, <1>4, <2>1 DEF ImagesInv, ImageKinds
    <2>3. Roles' /\ Rows'
      BY <1>1, <2>1, RolesKept, RowsOfViewer
    <2> QED
      BY <1>1, <1>4, <2>1, <2>2, <2>3, OthersMove
  <1> QED
    BY <1>3, <1>4 DEF ClaimSession

LEMMA HoldsLock ==
  ASSUME ImagesInv, NEW x \in Actors, op[x].pc \in Inside
  PROVE  holder = x
  BY DEF ImagesInv, Locked

LEMMA StoreThumbKeeps ==
  ASSUME ImagesInv, NEW v \in Viewers, NEW a \in Creators, StoreThumb(v, a) PROVE ImagesInv'
  <1>1. /\ v \in Actors /\ v \notin Creators /\ v \notin Deleters /\ op \in [Actors -> Ops]
        /\ op[v].pc = "store" /\ a \in op[v].of /\ GoesOn(v, "name it") /\ files' = files \cup {<<a, v>>}
        /\ UNCHANGED <<rows, temps, holder, stray, doomed, outcome>>
    BY ImagesAssumption DEF StoreThumb, Doing, Actors, ImagesInv, ImageKinds
  <1>2. "name it" \in Places /\ "name it" \in Inside /\ op[v].pc \in Inside
    BY <1>1 DEF Places, Inside
  <1>3. op[v].of = {a} /\ holder = v
    BY <1>1, <1>2, ViewOf, HoldsLock
  <1>4. /\ op' \in [Actors -> Ops] /\ op'[v].pc = "name it" /\ op'[v].of = {a}
        /\ \A y \in Actors : y # v => op'[y] = op[y]
    BY <1>1, <1>2, <1>3, GoesTo
  <1>5. ImageKinds'
    <2>1. <<a, v>> \in Paths
      BY DEF Paths, Thumbs
    <2>2. IsFiniteSet(files')
      BY <1>1, OneFileMore DEF ImagesInv, ImageKinds
    <2> QED
      BY <1>1, <1>4, <2>1, <2>2 DEF ImagesInv, ImageKinds
  <1>6. Roles' /\ Rows'
    BY <1>1, <1>4, RolesKept, RowsOfViewer
  <1>7. rows[a].kept /\ rows[a].thumb # v /\ Bytes + 1 <= MaxBytes + Cardinality(Replaced(a))
    BY <1>1 DEF ImagesInv, Progress, Replacing
  <1>8. <<a, v>> \notin Kept
    <2>1. <<a, v>> \notin Named(a)
      BY <1>7, ImagesAssumption DEF Named, Thumbs
    <2>2. \A b \in Creators : b # a => <<a, v>> \notin Named(b)
      BY NamedOfOne DEF ImagesInv
    <2> QED
      BY <2>1, <2>2 DEF Kept
  <1>9. Kept' = Kept /\ Bytes' = Bytes /\ Replaced(a)' = Replaced(a)
    <2>1. Kept' = Kept /\ Named(a)' = Named(a)
      BY <1>1, SameNamed
    <2>2. (Kept \cap files)' = Kept \cap files /\ <<a, v>> \notin Named(a)
      BY <1>1, <1>8, <2>1 DEF Kept
    <2> QED
      BY <1>1, <2>1, <2>2 DEF Bytes, Replaced
  <1>10. Replacing(v)'
    BY <1>1, <1>4, <1>7, <1>9 DEF Replacing
  <1>11. Owed(v) = {<<a, v>>} /\ Owed(v)' = {<<a, v>>} /\ OwedTemps(v) = {}
    <2>1. Owed(v) = {<<b, v>> : b \in op[v].of} /\ OwedTemps(v) = {}
      BY <1>1, OwedAt DEF Owed, OwedTemps
    <2>2. Owed(v)' = {<<b, v>> : b \in op'[v].of}
      BY <1>4, OwedAt DEF Owed
    <2> QED
      BY <1>3, <1>4, <2>1, <2>2
  <1>12. /\ \A f \in files' : f \in stray' \/ f \in Kept' \/ f \in Owed(v)'
         /\ \A f \in temps' : f \in stray'
    BY <1>1, <1>3, <1>9, <1>11, OnlyHolderOwes
  <1> QED
    BY <1>1, <1>2, <1>3, <1>4, <1>5, <1>6, <1>9, <1>10, <1>12, HolderMoves DEF ImagesInv, Within

(* What a view has stored and not named yet is no file of a row.           *)
LEMMA NotNamedYet ==
  ASSUME ImagesInv, NEW v \in Viewers, NEW a \in Creators, a \in op[v].of, op[v].pc \in {"store", "name it"}
  PROVE  <<a, v>> \notin Kept /\ Owed(v) = {<<a, v>>} /\ OwedTemps(v) = {} /\ op[v].of = {a}
  <1>1. op[v].of = {a}
    BY ViewOf
  <1>2. rows[a].kept /\ rows[a].thumb # v
    BY DEF ImagesInv, Progress, Replacing
  <1>3. <<a, v>> \notin Named(a)
    BY <1>2, ImagesAssumption DEF Named, Thumbs
  <1>4. \A b \in Creators : b # a => <<a, v>> \notin Named(b)
    BY NamedOfOne DEF ImagesInv
  <1>5. Owed(v) = {<<b, v>> : b \in op[v].of} /\ OwedTemps(v) = {}
    BY OwedAt DEF Owed, OwedTemps
  <1> QED
    BY <1>1, <1>3, <1>4, <1>5 DEF Kept

LEMMA NameThumbKeeps ==
  ASSUME ImagesInv, NEW v \in Viewers, NEW a \in Creators, NameThumb(v, a) PROVE ImagesInv'
  <1>1. /\ v \in Actors /\ v \notin Creators /\ v \notin Deleters /\ op \in [Actors -> Ops]
        /\ v \in Thumbs /\ v # Nobody
        /\ op[v].pc = "name it" /\ a \in op[v].of
        /\ rows' = [rows EXCEPT ![a] = [kept |-> TRUE, thumb |-> v]]
        /\ op' = [op EXCEPT ![v].pc = "drop", ![v].left = Replaced(a)]
        /\ UNCHANGED <<files, temps, holder, stray, doomed, outcome>>
    BY ImagesAssumption DEF NameThumb, Doing, Actors, Thumbs, ImagesInv, ImageKinds
  <1>2. "drop" \in Places /\ "drop" \in Inside /\ op[v].pc \in Inside
    BY <1>1 DEF Places, Inside
  <1>3. op[v].of = {a} /\ holder = v /\ <<a, v>> \notin Kept
    BY <1>1, <1>2, NotNamedYet, HoldsLock
  <1>4. /\ Replaced(a) \subseteq Kept \cap files /\ Replaced(a) \subseteq {<<a, rows[a].thumb>>}
        /\ Replaced(a) \subseteq {<<a, t>> : t \in Thumbs} /\ Replaced(a) \subseteq Paths
        /\ IsFiniteSet(Replaced(a)) /\ Cardinality(Replaced(a)) \in Nat
    BY ReplacedOne DEF Paths
  <1>5. /\ op' \in [Actors -> Ops] /\ op'[v].pc = "drop" /\ op'[v].of = {a} /\ op'[v].left = Replaced(a)
        /\ \A y \in Actors : y # v => op'[y] = op[y]
    <2>1. op[v] \in Ops
      BY <1>1
    <2> QED
      BY <1>1, <1>2, <1>3, <1>4, <2>1 DEF Ops
  <1>6. /\ rows[a].kept /\ rows[a].thumb # v /\ <<a, v>> \in files
        /\ Bytes + 1 <= MaxBytes + Cardinality(Replaced(a))
    BY <1>1 DEF ImagesInv, Progress, Replacing
  <1>7. /\ rows' \in [Creators -> [kept : BOOLEAN, thumb : Thumbs \cup {Nobody}]]
        /\ \A b \in Creators : b # a => rows'[b] = rows[b]
        /\ rows'[a].kept /\ rows'[a].thumb = v
    BY <1>1 DEF ImagesInv, ImageKinds
  <1>8. ImageKinds' /\ Roles'
    <2>1. ImageKinds'
      BY <1>1, <1>5, <1>7 DEF ImagesInv, ImageKinds
    <2>2. Roles'
      BY <1>1, <1>5, RolesKept
    <2> QED
      BY <2>1, <2>2
  <1>9. /\ Named(a)' = Pictures(a) \cup {<<a, v>>}
        /\ \A b \in Creators : b # a => Named(b)' = Named(b)
        /\ Pictures(a) \subseteq Named(a)
        /\ Named(a) \subseteq Pictures(a) \cup {<<a, rows[a].thumb>>}
        /\ rows[a].thumb = Nobody => Named(a) \subseteq Pictures(a)
    <2>1. Named(a)' = {<<a, t>> : t \in Required \cup ({v} \ {Nobody})}
      BY <1>7 DEF Named
    <2>2. \A b \in Creators : b # a => Named(b)' = Named(b)
      BY <1>7 DEF Named
    <2>3. Named(a) = {<<a, t>> : t \in Required \cup ({rows[a].thumb} \ {Nobody})}
      BY <1>6 DEF Named
    <2> QED
      BY <1>1, <2>1, <2>2, <2>3 DEF Pictures
  <1>10. Rows'
    <2>1. op[a].pc \notin Fresh \cup {"start"} /\ outcome[a] # "refused" /\ op'[a] = op[a]
      BY <1>1, <1>5, <1>6 DEF ImagesInv, Rows, Actors
    <2>2. \A c \in Creators : op'[c].pc \in Fresh \cup {"start"} => ~rows'[c].kept
      BY <1>1, <1>5, <1>7, <2>1 DEF ImagesInv, Rows, Actors
    <2>3. \A c \in Creators : outcome'[c] = "refused" => op'[c].pc = "done" /\ ~rows'[c].kept
      BY <1>1, <1>5, <1>7, <2>1 DEF ImagesInv, Rows, Actors
    <2>4. \A c \in Creators : \A w \in Viewers : rows'[c].thumb = w => op'[w].pc \in {"drop", "done"}
      BY <1>1, <1>5, <1>7 DEF ImagesInv, Rows, Actors
    <2>5. \A c \in Creators : rows'[c].kept /\ c \notin doomed' => Named(c)' \subseteq files'
      <3>1. a \notin doomed => Pictures(a) \subseteq files
        BY <1>6, <1>9 DEF ImagesInv, Rows
      <3>2. a \notin doomed' => Named(a)' \subseteq files'
        BY <1>1, <1>6, <1>9, <3>1
      <3>3. \A c \in Creators : c # a /\ rows'[c].kept /\ c \notin doomed' => Named(c)' \subseteq files'
        <4> SUFFICES ASSUME NEW c \in Creators, c # a, rows'[c].kept, c \notin doomed'
                     PROVE  Named(c)' \subseteq files'
          OBVIOUS
        <4>1. rows[c].kept /\ c \notin doomed
          BY <1>1, <1>7
        <4>2. Named(c) \subseteq files
          BY <4>1 DEF ImagesInv, Rows
        <4> QED
          BY <1>1, <1>9, <4>2
      <3> QED
        BY <3>2, <3>3
    <2> QED
      BY <2>2, <2>3, <2>4, <2>5 DEF Rows
  <1>11. /\ \A f : f \in Kept' <=>
              (f = <<a, v>> \/ f \in Pictures(a) \/ \E b \in Creators : b # a /\ f \in Named(b))
         /\ \A f : f \in Kept <=> (f \in Named(a) \/ \E b \in Creators : b # a /\ f \in Named(b))
    <2>1. \A f : f \in Kept' <=> \E b \in Creators : f \in Named(b)'
      BY DEF Kept
    <2>2. \A f : f \in Kept <=> \E b \in Creators : f \in Named(b)
      BY DEF Kept
    <2> QED
      BY <1>9, <2>1, <2>2
  <1>12. \A f \in Kept \cap files : f \in Kept' \/ f \in Replaced(a)
    <2> SUFFICES ASSUME NEW f \in Kept \cap files, f \notin Kept' PROVE f \in Replaced(a)
      OBVIOUS
    <2>1. f \in Named(a) /\ f \notin Pictures(a)
      BY <1>11
    <2>2. rows[a].thumb \in Thumbs /\ f = <<a, rows[a].thumb>>
      BY <1>9, <2>1 DEF ImagesInv, ImageKinds
    <2> QED
      BY <2>1, <2>2 DEF Replaced
  <1>13. Kept' \cap Replaced(a) = {}
    <2> SUFFICES ASSUME NEW f \in Kept', f \in Replaced(a) PROVE FALSE
      OBVIOUS
    <2>1. f = <<a, rows[a].thumb>> /\ f # <<a, v>> /\ \E t \in Thumbs : f = <<a, t>>
      BY <1>4, <1>6
    <2>2. f \notin Pictures(a)
      BY <2>1, ImagesAssumption DEF Pictures
    <2>3. \A b \in Creators : b # a => f \notin Named(b)
      BY <2>1, NamedOfOne DEF ImagesInv
    <2> QED
      BY <1>11, <2>1, <2>2, <2>3
  <1>14. Bytes' <= MaxBytes
    <2> DEFINE S == Kept \cap files
               R == Replaced(a)
               T == (S \ R) \cup {<<a, v>>}
    <2>1. IsFiniteSet(S) /\ Bytes = Cardinality(S) /\ Bytes \in Nat /\ MaxBytes \in Nat
      BY ImagesCounted, ImagesAssumption DEF ImagesInv
    <2>2. /\ IsFiniteSet(S \ R) /\ Cardinality(S \ R) \in Nat
          /\ Cardinality(S \ R) + Cardinality(R) = Cardinality(S)
      <3>1. CASE R = {}
        <4>1. S \ R = S /\ Cardinality(R) = 0
          BY <3>1, FS_EmptySet
        <4> HIDE DEF S, R
        <4> QED
          BY <2>1, <4>1
      <3>2. CASE R # {}
        <4>1. R = {<<a, rows[a].thumb>>} /\ <<a, rows[a].thumb>> \in S
          BY <1>4, <3>2
        <4>2. Cardinality(R) = 1
          BY <4>1, FS_Singleton
        <4>3. /\ IsFiniteSet(S \ {<<a, rows[a].thumb>>})
              /\ Cardinality(S \ {<<a, rows[a].thumb>>}) = Cardinality(S) - 1
          <5>1. PICK f : f = <<a, rows[a].thumb>>
            OBVIOUS
          <5>2. f \in S /\ IsFiniteSet(S)
            BY <2>1, <4>1, <5>1
          <5> HIDE DEF S
          <5>3. IsFiniteSet(S \ {f}) /\ Cardinality(S \ {f}) = Cardinality(S) - 1
            BY <5>2, FS_RemoveElement
          <5> QED
            BY <5>1, <5>3
        <4>4. Cardinality(S \ {<<a, rows[a].thumb>>}) \in Nat
          BY <4>3, FS_CardinalityType
        <4> HIDE DEF S, R
        <4> QED
          BY <2>1, <4>1, <4>2, <4>3, <4>4
      <3> QED
        BY <3>1, <3>2
    <2>3. IsFiniteSet(T) /\ Cardinality(T) \in Nat /\ Cardinality(T) <= Cardinality(S \ R) + 1
      BY <2>2, OneFileMore
    <2>4. (Kept \cap files)' \subseteq T
      <3> SUFFICES ASSUME NEW f \in Kept', f \in files PROVE f \in T
        BY <1>1
      <3>1. f = <<a, v>> \/ f \in Kept
        BY <1>9, <1>11
      <3> QED
        BY <1>13, <3>1
    <2>5. Bytes' = Cardinality((Kept \cap files)')
      BY DEF Bytes
    <2>6. Bytes' <= Cardinality(T) /\ Bytes' \in Nat
      BY <2>3, <2>4, <2>5, FewerFiles
    <2> HIDE DEF S, T
    <2> QED
      BY <1>4, <1>6, <2>1, <2>2, <2>3, <2>6
  <1>15. Replacing(v)'
    <2>1. Replaced(a) \subseteq {<<a, t>> : t \in Thumbs \ {v}}
      BY <1>4, <1>6
    <2> QED
      BY <1>5, <1>7, <2>1 DEF Replacing
  <1>16. /\ \A f \in files' : f \in stray' \/ f \in Kept' \/ f \in Owed(v)'
         /\ \A f \in temps' : f \in stray'
    <2>1. Owed(v) = {<<a, v>>} /\ OwedTemps(v) = {}
      BY <1>1, NotNamedYet
    <2>2. Owed(v)' = Replaced(a)
      BY <1>5, OwedAt DEF Owed
    <2>3. <<a, v>> \in Kept'
      BY <1>11
    <2> QED
      BY <1>1, <1>3, <1>12, <2>1, <2>2, <2>3, OnlyHolderOwes
  <1> QED
    BY <1>1, <1>2, <1>3, <1>5, <1>8, <1>10, <1>14, <1>15, <1>16, HolderMoves

LEMMA DropOldKeeps == ASSUME ImagesInv, NEW v \in Viewers, DropOld(v) PROVE ImagesInv'
  <1>1. /\ v \in Actors /\ op[v].pc = "drop" /\ EndView(v) /\ Release(v) /\ holder = v
        /\ UNCHANGED <<rows, temps, doomed, outcome>>
    BY DEF DropOld, Doing, Actors, Release
  <1>2. /\ op' \in [Actors -> Ops] /\ op'[v].pc = "done"
        /\ \A y \in Actors : y # v => op'[y] = op[y]
    BY <1>1, ViewEnds
  <1>3. PICK a \in Creators : op[v].of = {a}
    BY <1>1 DEF ImagesInv, Roles
  <1>4. rows[a].thumb = v /\ op[v].left \subseteq {<<a, t>> : t \in Thumbs \ {v}}
    BY <1>1, <1>3 DEF ImagesInv, Progress, Replacing
  <1>5. \A b \in Creators : Named(b) \cap op[v].left = {}
    <2>1. Named(a) \cap op[v].left = {}
      BY <1>4, ImagesAssumption DEF Named
    <2>2. \A b \in Creators : b # a => Named(b) \cap op[v].left = {}
      BY <1>4, NamedOfOne DEF ImagesInv
    <2> QED
      BY <2>1, <2>2
  <1>6. \/ files' = files \ op[v].left /\ UNCHANGED stray
        \/ stray' = stray \cup op[v].left /\ UNCHANGED files
    BY DEF DropOld
  <1>7. Owed(v) = op[v].left /\ OwedTemps(v) = {}
    BY <1>1, OwedAt DEF Owed, OwedTemps
  <1>8. Kept' = Kept
    BY <1>1, SameNamed
  <1>9. files' \subseteq files /\ (\A f \in files' : f \in stray' \/ f \in Kept') /\ temps' \subseteq stray'
    BY <1>1, <1>6, <1>7, <1>8, OnlyHolderOwes
  <1>10. Rows'
    BY <1>1, <1>2, <1>5, <1>6, RowsOfViewer
  <1> QED
    BY <1>1, <1>2, <1>8, <1>9, <1>10, Released DEF ImagesInv, ImageKinds

LEMMA AbortViewKeeps ==
  ASSUME ImagesInv, NEW v \in Viewers, NEW a \in Creators, AbortView(v, a) PROVE ImagesInv'
  <1>1. /\ v \in Actors /\ v \notin Creators /\ v \notin Deleters /\ a \in op[v].of /\ EndView(v)
        /\ UNCHANGED <<rows, temps, doomed, outcome>>
    BY ImagesAssumption DEF AbortView, Actors
  <1>2. /\ op' \in [Actors -> Ops] /\ op'[v].pc = "done"
        /\ \A y \in Actors : y # v => op'[y] = op[y]
    BY <1>1, ViewEnds
  <1>3. CASE op[v].pc = "made" /\ UNCHANGED <<holder, files, stray>>
    <2>1. ImageKinds'
      BY <1>1, <1>2, <1>3 DEF ImagesInv, ImageKinds
    <2>2. Roles' /\ Rows'
      BY <1>1, <1>2, <1>3, RolesKept, RowsOfViewer
    <2> QED
      BY <1>1, <1>2, <1>3, <2>1, <2>2, OthersMove
  <1>4. CASE /\ op[v].pc \in {"store", "name it"} /\ Release(v)
             /\ \/ files' = files \ {<<a, v>>} /\ UNCHANGED stray
                \/ stray' = stray \cup ({<<a, v>>} \cap files) /\ UNCHANGED files
    <2>1. <<a, v>> \notin Kept /\ Owed(v) = {<<a, v>>} /\ OwedTemps(v) = {}
      BY <1>1, <1>4, NotNamedYet
    <2>2. \A b \in Creators : <<a, v>> \notin Named(b)
      BY <2>1 DEF Kept
    <2>3. Rows'
      BY <1>1, <1>2, <1>4, <2>2, RowsOfViewer
    <2>4. Kept' = Kept
      BY <1>1, SameNamed
    <2>5. files' \subseteq files /\ (\A f \in files' : f \in stray' \/ f \in Kept') /\ temps' \subseteq stray'
      BY <1>1, <1>4, <2>1, <2>4, OnlyHolderOwes DEF Release
    <2> QED
      BY <1>1, <1>2, <1>4, <2>3, <2>4, <2>5, Released DEF ImagesInv, ImageKinds
  <1> QED
    BY <1>3, <1>4 DEF AbortView, Doing

(* What two artifacts' rows name is apart.                                 *)
LEMMA NamedApart ==
  ASSUME ImageKinds, NEW a \in Creators, NEW b \in Creators, a # b
  PROVE  Named(a) \cap Named(b) = {}
  BY NamedOfOne

LEMMA DeleterIs ==
  ASSUME ImagesInv, NEW d \in Deleters
  PROVE  /\ d \in Actors /\ d \notin Creators /\ d \notin Viewers /\ op \in [Actors -> Ops] /\ op[d] \in Ops
         /\ {"start", "unlink", "done"} \subseteq Places /\ "unlink" \in Inside
         /\ "start" \notin Inside /\ "done" \notin Inside
  <1>1. d \in Actors /\ d \notin Creators /\ d \notin Viewers
    BY ImagesAssumption DEF Actors
  <1>2. /\ {"start", "unlink", "done"} \subseteq Places /\ "unlink" \in Inside
        /\ "start" \notin Inside /\ "done" \notin Inside
    BY DEF Places, Inside, Fresh, Writes, Promotes
  <1> QED
    BY <1>1, <1>2 DEF ImagesInv, ImageKinds

LEMMA BeginDeleteKeeps ==
  ASSUME ImagesInv, NEW d \in Deleters, NEW which \in SUBSET Creators, BeginDelete(d, which) PROVE ImagesInv'
  <1>1. /\ op[d].pc = "start" /\ holder = Nobody /\ holder' = d
        /\ op' = [op EXCEPT ![d] = [@ EXCEPT !.pc = "unlink", !.of = which \cap Retained,
                                             !.left = UNION {Named(a) : a \in which}]]
        /\ doomed' = doomed \cup (which \cap Retained)
        /\ UNCHANGED <<rows, files, temps, outcome, stray>>
    BY DEF BeginDelete, Doing
  <1>2. UNION {Named(a) : a \in which} \subseteq Paths
    BY NamedOfOne DEF ImagesInv, Paths
  <1>3. /\ op' \in [Actors -> Ops] /\ op'[d].pc = "unlink" /\ op'[d].of = which \cap Retained
        /\ op'[d].left = UNION {Named(a) : a \in which}
        /\ \A y \in Actors : y # d => op'[y] = op[y]
    BY <1>1, <1>2, DeleterIs DEF Ops
  <1>4. ImageKinds'
    BY <1>1, <1>3, DeleterIs DEF ImagesInv, ImageKinds
  <1>5. Roles'
    BY <1>3, DeleterIs, RolesKept
  <1>6. Kept' = Kept /\ \A a \in Creators : Named(a)' = Named(a)
    BY <1>1, SameNamed
  <1>7. Bytes' = Bytes
    BY <1>1, <1>6 DEF Bytes
  <1>8. Rows'
    <2>1. \A c \in Creators : op'[c] = op[c]
      BY <1>3, DeleterIs DEF Actors
    <2>2. \A v \in Viewers : op'[v] = op[v]
      BY <1>3, DeleterIs DEF Actors
    <2> QED
      BY <1>1, <1>6, <2>1, <2>2 DEF ImagesInv, Rows
  <1>9. Unlinking(d)'
    <2>1. \A f \in op'[d].left : \E a \in op'[d].of : f \in Named(a)'
      <3> SUFFICES ASSUME NEW f \in op'[d].left PROVE \E a \in op'[d].of : f \in Named(a)'
        OBVIOUS
      <3>1. PICK a \in which : f \in Named(a)
        BY <1>3
      <3>2. rows[a].kept
        BY <3>1 DEF Named
      <3> QED
        BY <1>3, <1>6, <3>1, <3>2 DEF Retained
    <2>2. \A a \in op'[d].of : Named(a)' \cap files' \subseteq op'[d].left
      BY <1>3, <1>6
    <2>3. op'[d].of \subseteq doomed'
      BY <1>1, <1>3
    <2> QED
      BY <2>1, <2>2, <2>3 DEF Unlinking
  <1>10. /\ \A f \in files : f \in stray \/ f \in Kept
         /\ \A f \in temps : f \in stray
    <2>1. Owed(d) = {} /\ OwedTemps(d) = {}
      BY <1>1, OwedAt DEF Owed, OwedTemps
    <2> QED
      BY <1>1, <2>1, DeleterIs, OnlyHolderOwes
  <1> QED
    BY <1>1, <1>3, <1>4, <1>5, <1>6, <1>7, <1>8, <1>9, <1>10, DeleterIs, HolderMoves DEF ImagesInv, Within

LEMMA UnlinkKeeps == ASSUME ImagesInv, NEW d \in Deleters, Unlink(d) PROVE ImagesInv'
  <1>1. /\ op[d].pc = "unlink"
        /\ UNCHANGED <<rows, temps, holder, outcome, stray, doomed>>
    BY DEF Unlink, Doing
  <1>2. PICK f \in op[d].left :
          op' = [op EXCEPT ![d].left = @ \ {f}] /\ files' = files \ {f}
    BY DEF Unlink
  <1>3. /\ op' \in [Actors -> Ops] /\ op'[d].pc = "unlink" /\ op'[d].of = op[d].of
        /\ op'[d].left = op[d].left \ {f}
        /\ \A y \in Actors : y # d => op'[y] = op[y]
    BY <1>1, <1>2, DeleterIs DEF Ops
  <1>4. holder = d
    BY <1>1, DeleterIs, HoldsLock
  <1>5. /\ op[d].of \subseteq doomed /\ op[d].of \subseteq Creators
        /\ \A g \in op[d].left : \E a \in op[d].of : g \in Named(a)
        /\ \A a \in op[d].of : Named(a) \cap files \subseteq op[d].left
    BY <1>1, DeleterIs DEF ImagesInv, Progress, Unlinking, Ops
  <1>6. PICK a \in op[d].of : f \in Named(a)
    BY <1>2, <1>5
  <1>7. ImageKinds'
    <2>1. IsFiniteSet(files') /\ files' \subseteq Paths
      BY <1>2, FewerFiles DEF ImagesInv, ImageKinds
    <2> QED
      BY <1>1, <1>3, <2>1 DEF ImagesInv, ImageKinds
  <1>8. Roles'
    BY <1>3, DeleterIs, RolesKept
  <1>9. Kept' = Kept /\ \A b \in Creators : Named(b)' = Named(b)
    BY <1>1, SameNamed
  <1>10. Bytes' <= MaxBytes
    <2>1. Bytes' <= Bytes
      BY <1>2, <1>7, <1>9, FewerBytes DEF ImagesInv
    <2>2. Bytes <= MaxBytes /\ Bytes \in Nat /\ Bytes' \in Nat /\ MaxBytes \in Nat
      <3>1. Bytes' \in Nat
        <4>1. IsFiniteSet((Kept \cap files)')
          BY <1>7, FewerFiles DEF ImageKinds
        <4> QED
          BY <4>1, FewerFiles DEF Bytes
      <3> QED
        BY <3>1, ImagesCounted, ImagesAssumption DEF ImagesInv, Within
    <2> QED
      BY <2>1, <2>2
  <1>11. Rows'
    <2>1. \A b \in Creators : b \notin doomed => Named(b) \cap files \subseteq files'
      <3> SUFFICES ASSUME NEW b \in Creators, b \notin doomed PROVE f \notin Named(b)
        BY <1>2
      <3>1. b # a /\ a \in Creators
        BY <1>5
      <3> QED
        BY <1>6, <3>1, NamedApart DEF ImagesInv
    <2> QED
      BY <1>1, <1>3, <2>1, DeleterIs, RowsStay
  <1>12. Unlinking(d)'
    BY <1>1, <1>2, <1>3, <1>5, <1>9 DEF Unlinking
  <1>13. /\ \A g \in files' : g \in stray \/ g \in Kept
         /\ \A g \in temps : g \in stray
    <2>1. Owed(d) = {} /\ OwedTemps(d) = {}
      BY <1>1, OwedAt DEF Owed, OwedTemps
    <2> QED
      BY <1>2, <1>4, <2>1, DeleterIs, OnlyHolderOwes
  <1> QED
    BY <1>1, <1>3, <1>4, <1>7, <1>8, <1>9, <1>10, <1>11, <1>12, <1>13, DeleterIs, HolderMoves

LEMMA DeleteRowsKeeps == ASSUME ImagesInv, NEW d \in Deleters, DeleteRows(d) PROVE ImagesInv'
  <1>1. /\ op[d].pc = "unlink" /\ op[d].left = {} /\ Release(d) /\ GoesOn(d, "done")
        /\ rows' = [a \in Creators |-> IF a \in op[d].of THEN Absent ELSE rows[a]]
        /\ doomed' = doomed \ op[d].of
        /\ UNCHANGED <<files, temps, outcome, stray>>
    BY DEF DeleteRows, FilesAreGone, Doing
  <1>2. /\ op' \in [Actors -> Ops] /\ op'[d].pc = "done"
        /\ \A y \in Actors : y # d => op'[y] = op[y]
    BY <1>1, DeleterIs, GoesTo
  <1>3. \A a \in op[d].of : Named(a) \cap files = {}
    BY <1>1 DEF ImagesInv, Progress, Unlinking
  <1>4. /\ rows' \in [Creators -> [kept : BOOLEAN, thumb : Thumbs \cup {Nobody}]]
        /\ \A a \in Creators : a \in op[d].of => ~rows'[a].kept /\ rows'[a].thumb = Nobody
        /\ \A a \in Creators : a \notin op[d].of => rows'[a] = rows[a]
    BY <1>1 DEF ImagesInv, ImageKinds, Absent
  <1>5. /\ \A a \in Creators : a \in op[d].of => Named(a)' = {}
        /\ \A a \in Creators : a \notin op[d].of => Named(a)' = Named(a)
    BY <1>4 DEF Named
  <1>6. Kept' \subseteq Kept /\ \A f \in files : f \in Kept => f \in Kept'
    <2>1. \A f : f \in Kept' <=> \E a \in Creators : f \in Named(a)'
      BY DEF Kept
    <2>2. \A f : f \in Kept <=> \E a \in Creators : f \in Named(a)
      BY DEF Kept
    <2> QED
      BY <1>3, <1>5, <2>1, <2>2
  <1>7. Rows'
    <2>1. \A c \in Creators : op'[c] = op[c]
      BY <1>2, DeleterIs DEF Actors
    <2>2. \A v \in Viewers : op'[v] = op[v] /\ v # Nobody
      BY <1>2, DeleterIs, ImagesAssumption DEF Actors
    <2>3. \A c \in Creators : op'[c].pc \in Fresh \cup {"start"} => ~rows'[c].kept
      BY <1>4, <2>1 DEF ImagesInv, Rows
    <2>4. \A c \in Creators : outcome'[c] = "refused" => op'[c].pc = "done" /\ ~rows'[c].kept
      BY <1>1, <1>4, <2>1 DEF ImagesInv, Rows
    <2>5. \A c \in Creators : \A v \in Viewers : rows'[c].thumb = v => op'[v].pc \in {"drop", "done"}
      BY <1>4, <2>2 DEF ImagesInv, Rows
    <2>6. \A c \in Creators : rows'[c].kept /\ c \notin doomed' => Named(c)' \subseteq files'
      BY <1>1, <1>4, <1>5 DEF ImagesInv, Rows
    <2> QED
      BY <2>3, <2>4, <2>5, <2>6 DEF Rows
  <1>8. /\ \A f \in files : f \in stray \/ f \in Kept
        /\ temps \subseteq stray
    <2>1. Owed(d) = {} /\ OwedTemps(d) = {}
      BY <1>1, OwedAt DEF Owed, OwedTemps
    <2> QED
      BY <1>1, <2>1, DeleterIs, OnlyHolderOwes DEF Release
  <1> QED
    BY <1>1, <1>2, <1>4, <1>6, <1>7, <1>8, DeleterIs, Released DEF ImagesInv, ImageKinds

LEMMA AbortDeleteKeeps == ASSUME ImagesInv, NEW d \in Deleters, AbortDelete(d) PROVE ImagesInv'
  <1>1. /\ op[d].pc = "unlink" /\ Release(d) /\ GoesOn(d, "start")
        /\ UNCHANGED <<rows, files, temps, outcome, stray, doomed>>
    BY DEF AbortDelete, Doing
  <1>2. /\ op' \in [Actors -> Ops] /\ op'[d].pc = "start"
        /\ \A y \in Actors : y # d => op'[y] = op[y]
    BY <1>1, DeleterIs, GoesTo
  <1>3. Kept' = Kept
    BY <1>1, SameNamed
  <1>4. Rows'
    BY <1>1, <1>2, DeleterIs, RowsStay
  <1>5. /\ \A f \in files : f \in stray \/ f \in Kept
        /\ temps \subseteq stray
    <2>1. Owed(d) = {} /\ OwedTemps(d) = {}
      BY <1>1, OwedAt DEF Owed, OwedTemps
    <2> QED
      BY <1>1, <2>1, DeleterIs, OnlyHolderOwes DEF Release
  <1> QED
    BY <1>1, <1>2, <1>3, <1>4, <1>5, DeleterIs, Released DEF ImagesInv, ImageKinds

LEMMA ImagesStay ==
  ASSUME ImagesInv, UNCHANGED <<rows, files, temps, holder, op, outcome, stray, doomed>> PROVE ImagesInv'
  <1>1. /\ Kept' = Kept /\ Bytes' = Bytes
        /\ \A a \in Creators : Named(a)' = Named(a) /\ Replaced(a)' = Replaced(a)
    BY SameNamed DEF Bytes, Replaced, Kept
  <1>2. ImageKinds' /\ Roles' /\ Locked' /\ Within'
    BY <1>1 DEF ImagesInv, ImageKinds, Roles, Locked, Within
  <1>3. Rows'
    BY <1>1 DEF ImagesInv, Rows
  <1>4. Accounted'
    <2>1. \A x \in Actors : Owed(x)' = Owed(x) /\ OwedTemps(x)' = OwedTemps(x)
      BY DEF Owed, OwedTemps
    <2> QED
      BY <1>1, <2>1 DEF ImagesInv, Accounted
  <1>5. \A c \in Creators : Promoted(c)'
    BY <1>1 DEF ImagesInv, Progress, Promoted
  <1>6. \A v \in Viewers : Replacing(v)'
    <2> SUFFICES ASSUME NEW v \in Viewers PROVE Replacing(v)'
      OBVIOUS
    <2>1. op[v] \in Ops /\ Replacing(v)
      BY DEF ImagesInv, ImageKinds, Actors, Progress
    <2>2. op[v].of \subseteq Creators
      BY <2>1 DEF Ops
    <2> QED
      BY <1>1, <2>1, <2>2 DEF Replacing
  <1>7. \A d \in Deleters : Unlinking(d)'
    <2> SUFFICES ASSUME NEW d \in Deleters PROVE Unlinking(d)'
      OBVIOUS
    <2>1. op[d] \in Ops /\ Unlinking(d)
      BY DEF ImagesInv, ImageKinds, Actors, Progress
    <2>2. op[d].of \subseteq Creators
      BY <2>1 DEF Ops
    <2> QED
      BY <1>1, <2>1, <2>2 DEF Unlinking
  <1> QED
    BY <1>2, <1>3, <1>4, <1>5, <1>6, <1>7 DEF ImagesInv, Progress

(* A death frees the locks: what no row names is astray, and nothing is    *)
(* owed any more.                                                          *)
LEMMA DieKeeps == ASSUME ImagesInv, Die PROVE ImagesInv'
  <1>1. /\ stray' = stray \cup temps \cup (files \ Kept)
        /\ op' = [x \in Actors |-> IF Doing(x, "start") \/ x \in Deleters
                                   THEN [op[x] EXCEPT !.pc = IF Doing(x, "done") THEN "done" ELSE "start"]
                                   ELSE [op[x] EXCEPT !.pc = "done"]]
        /\ outcome' = [c \in Creators |-> IF op[c].pc \in {"start", "done"} THEN outcome[c] ELSE "lost"]
        /\ holder' = Nobody /\ UNCHANGED <<rows, files, temps, doomed>>
    BY DEF Die
  <1>2. op \in [Actors -> Ops] /\ {"start", "done"} \subseteq Places
    BY DEF ImagesInv, ImageKinds, Places
  <1>3. /\ op' \in [Actors -> Ops]
        /\ \A x \in Actors : op'[x].pc \in {"start", "done"}
    <2> SUFFICES ASSUME NEW x \in Actors PROVE op'[x] \in Ops /\ op'[x].pc \in {"start", "done"}
      BY <1>1
    <2>1. op[x] \in Ops
      BY <1>2
    <2>2. PICK place \in {"start", "done"} : op'[x] = [op[x] EXCEPT !.pc = place]
      BY <1>1
    <2> QED
      BY <1>2, <2>1, <2>2 DEF Ops
  <1>4. \A x \in Actors : x \notin Deleters /\ op[x].pc # "start" => op'[x].pc = "done"
    <2> SUFFICES ASSUME NEW x \in Actors, x \notin Deleters, op[x].pc # "start" PROVE op'[x].pc = "done"
      OBVIOUS
    <2>1. op[x] \in Ops /\ op'[x] = [op[x] EXCEPT !.pc = "done"]
      BY <1>1, <1>2 DEF Doing
    <2> QED
      BY <2>1 DEF Ops
  <1>5. /\ {"start", "done"} \cap Inside = {} /\ {"start", "done"} \cap Fresh = {}
        /\ "save" \notin {"start", "done"} /\ {"start", "done"} \cap Promotes = {}
    BY DEF Inside, Fresh, Writes, Promotes
  <1>6. ImageKinds'
    BY <1>1, <1>3 DEF ImagesInv, ImageKinds
  <1>7. Roles'
    BY <1>3 DEF Roles, Actors
  <1>8. Locked'
    BY <1>1, <1>3, <1>5, ImagesAssumption DEF Locked
  <1>9. Kept' = Kept /\ Bytes' = Bytes /\ \A a \in Creators : Named(a)' = Named(a)
    BY <1>1, SameNamed DEF Bytes
  <1>10. Accounted'
    BY <1>1, <1>9 DEF Accounted
  <1>11. Rows'
    <2>1. \A c \in Creators : op'[c].pc \in Fresh \cup {"start"} => ~rows[c].kept
      BY <1>3, <1>4, <1>5, ImagesAssumption DEF ImagesInv, Rows, Actors
    <2>2. \A c \in Creators : outcome'[c] = "refused" => op'[c].pc = "done" /\ ~rows[c].kept
      <3> SUFFICES ASSUME NEW c \in Creators, outcome'[c] = "refused"
                   PROVE  op'[c].pc = "done" /\ ~rows[c].kept
        OBVIOUS
      <3>1. outcome[c] = "refused"
        BY <1>1
      <3>2. op[c].pc = "done" /\ ~rows[c].kept
        BY <3>1 DEF ImagesInv, Rows
      <3> QED
        BY <1>4, <3>2, ImagesAssumption DEF Actors
    <2>3. \A a \in Creators : \A v \in Viewers : rows[a].thumb = v => op'[v].pc \in {"drop", "done"}
      <3> SUFFICES ASSUME NEW a \in Creators, NEW v \in Viewers, rows[a].thumb = v PROVE op'[v].pc = "done"
        OBVIOUS
      <3>1. op[v].pc \in {"drop", "done"}
        BY DEF ImagesInv, Rows
      <3> QED
        BY <1>4, <3>1, ImagesAssumption DEF Actors
    <2> QED
      BY <1>1, <1>9, <2>1, <2>2, <2>3 DEF ImagesInv, Rows
  <1>12. \A c \in Creators : Promoted(c)'
    BY <1>3, <1>5 DEF Promoted, Actors, Promotes
  <1>13. \A v \in Viewers : Replacing(v)'
    BY <1>3 DEF Replacing, Actors
  <1>14. \A d \in Deleters : Unlinking(d)'
    BY <1>3 DEF Unlinking, Actors
  <1> QED
    BY <1>6, <1>7, <1>8, <1>9, <1>10, <1>11, <1>12, <1>13, <1>14 DEF ImagesInv, Within, Progress

LEMMA ImagesBegin == ImagesInit => ImagesInv
  <1> SUFFICES ASSUME ImagesInit PROVE ImagesInv
    OBVIOUS
  <1>1. \A x \in Actors : op[x].pc = "start"
    BY DEF ImagesInit
  <1>2. \A a \in Creators : ~rows[a].kept /\ rows[a].thumb = Nobody /\ Named(a) = {}
    BY DEF ImagesInit, Absent, Named
  <1>3. "start" \notin Inside /\ "start" \notin Promotes /\ "start" \in Places
    BY DEF Inside, Fresh, Writes, Promotes, Places
  <1>4. ImageKinds
    <2>1. rows \in [Creators -> [kept : BOOLEAN, thumb : Thumbs \cup {Nobody}]]
      BY DEF ImagesInit, Absent
    <2>2. op \in [Actors -> Ops]
      BY <1>3 DEF ImagesInit, Ops
    <2>3. files \subseteq Paths /\ IsFiniteSet(files)
      BY FS_EmptySet DEF ImagesInit
    <2> QED
      BY <2>1, <2>2, <2>3 DEF ImagesInit, ImageKinds
  <1>5. Roles
    BY <1>1 DEF Roles, Actors
  <1>6. Locked
    BY <1>1, <1>3, ImagesAssumption DEF Locked, ImagesInit
  <1>7. Accounted
    BY DEF Accounted, ImagesInit
  <1>8. Rows
    <2>1. \A v \in Viewers : v # Nobody
      BY ImagesAssumption DEF Actors
    <2> QED
      BY <1>2, <2>1 DEF ImagesInit, Rows
  <1>9. Within
    <2>1. Kept \cap files = {}
      BY DEF ImagesInit
    <2>2. Bytes = 0
      BY <2>1, FS_EmptySet DEF Bytes
    <2> QED
      BY <2>2, ImagesAssumption DEF Within
  <1>10. Progress
    <2>1. \A c \in Creators : Promoted(c)
      BY <1>1, <1>3 DEF Promoted, Actors
    <2>2. \A v \in Viewers : Replacing(v)
      BY <1>1 DEF Replacing, Actors
    <2>3. \A d \in Deleters : Unlinking(d)
      BY <1>1 DEF Unlinking, Actors
    <2> QED
      BY <2>1, <2>2, <2>3 DEF Progress
  <1> QED
    BY <1>4, <1>5, <1>6, <1>7, <1>8, <1>9, <1>10 DEF ImagesInv

LEMMA ImagesStep == ASSUME ImagesInv, [ImagesNext]_mvars PROVE ImagesInv'
  <1>1. ASSUME NEW c \in Creators, CreateImage(c) PROVE ImagesInv'
    <2>1. CASE \E v \in Variants : Write(c, v) \/ PromoteImage(c, v)
      BY <2>1, WriteKeeps, PromoteImageKeeps
    <2>2. CASE BeginCreate(c) \/ CheckQuota(c) \/ LoseThumbnail(c) \/ Save(c)
      BY <2>2, BeginCreateKeeps, CheckQuotaKeeps, LoseThumbnailKeeps, SaveKeeps
    <2>3. CASE Tidy(c) \/ AbortCreate(c) \/ Undo(c) \/ Discard(c)
      BY <2>3, TidyKeeps, AbortCreateKeeps, UndoKeeps, DiscardKeeps
    <2> QED
      BY <1>1, <2>1, <2>2, <2>3 DEF CreateImage
  <1>2. ASSUME NEW v \in Viewers, View(v) PROVE ImagesInv'
    <2>1. CASE DropOld(v)
      BY <2>1, DropOldKeeps
    <2>2. ASSUME NEW a \in Creators, LookUp(v, a) \/ ClaimSession(v, a) \/ StoreThumb(v, a)
          PROVE ImagesInv'
      BY <2>2, LookUpKeeps, ClaimSessionKeeps, StoreThumbKeeps
    <2>3. ASSUME NEW a \in Creators, NameThumb(v, a) \/ AbortView(v, a)
          PROVE ImagesInv'
      <3>1. CASE NameThumb(v, a)
        <4>1. a \in op[v].of
          BY <3>1 DEF NameThumb
        <4> QED
          BY <3>1, <4>1, NameThumbKeeps
      <3>2. CASE AbortView(v, a)
        BY <3>2, AbortViewKeeps
      <3> QED
        BY <2>3, <3>1, <3>2
    <2> QED
      BY <1>2, <2>1, <2>2, <2>3 DEF View
  <1>3. ASSUME NEW d \in Deleters, DeleteImages(d) PROVE ImagesInv'
    <2>1. ASSUME NEW which \in SUBSET Creators, BeginDelete(d, which) PROVE ImagesInv'
      BY <2>1, BeginDeleteKeeps
    <2> QED
      BY <1>3, <2>1, UnlinkKeeps, DeleteRowsKeeps, AbortDeleteKeeps DEF DeleteImages
  <1>4. ASSUME NEW f \in files, Damage(f) PROVE ImagesInv'
    BY <1>4, ImagesStay DEF Damage
  <1>5. CASE UNCHANGED mvars
    BY <1>5, ImagesStay DEF mvars
  <1> QED
    BY <1>1, <1>2, <1>3, <1>4, <1>5, DieKeeps DEF ImagesNext

LEMMA ImagesHeld == ImagesInv => ImagesAgree
  <1> SUFFICES ASSUME ImagesInv PROVE ImagesAgree
    OBVIOUS
  <1>1. ASSUME holder = Nobody PROVE \A x \in Actors : Owed(x) = {} /\ OwedTemps(x) = {}
    <2> SUFFICES ASSUME NEW x \in Actors PROVE Owed(x) = {} /\ OwedTemps(x) = {}
      OBVIOUS
    <2>1. op[x].pc \in {"start", "made", "done"}
      BY <1>1, ImagesAssumption DEF ImagesInv, Locked, ImageKinds, Ops, Places
    <2> QED
      BY <2>1, OwedAt DEF Owed, OwedTemps
  <1>2. FilesAccounted
    BY <1>1 DEF ImagesInv, Accounted, Within, FilesAccounted
  <1>3. RowsHaveFiles
    BY DEF ImagesInv, Rows, RowsHaveFiles
  <1> QED
    BY <1>2, <1>3 DEF ImagesAgree

(* Files and rows of the images agree at every release of the lock         *)
(* (ArtifactService), for every set of callers, quota and number of faults.*)
THEOREM ImagesAlwaysAgree == ImagesSpec => []ImagesAgree
  <1>1. ImagesInit => ImagesInv
    BY ImagesBegin
  <1>2. ImagesInv /\ [ImagesNext]_mvars => ImagesInv'
    BY ImagesStep
  <1>3. ImagesInv => ImagesAgree
    BY ImagesHeld
  <1> QED
    BY <1>1, <1>2, <1>3, PTL DEF ImagesSpec

-----------------------------------------------------------------------------
(* The child of a directory (SecureFiles), for any number of processes that *)
(* delete it and any number of failed calls, crashes and power cuts.  While *)
(* a deletion has the directory to itself, where it is tells what the two   *)
(* names stand for (Sees).  Nobody deletes before the creation has begun,   *)
(* which happens once (Begun), so that a child that is gone stays gone.     *)

Entries == {"none", "child", "other"}
Directory == [leaf : Entries, quarantine : Entries]
SystemCalls == {"idle", "look", "verify", "recheck", "rename", "flush rename",
                "verify quarantine", "unlink", "flush gone", "restore", "rename back",
                "flush back", "return", "rename again"}
Attempts == [pc : SystemCalls, leaf : Entries, moved : BOOLEAN]

ChildKinds ==
    /\ names \in Directory /\ flushed \in Directory
    /\ removal \in [Hands -> Attempts]
    /\ knows \subseteq Hands /\ alone \subseteq Hands
    /\ result \in [Hands -> {"none", "gone", "disturbed"}]
    /\ deaths \in Nat

InPlace(leaf, quarantine) == names.leaf = leaf /\ names.quarantine = quarantine

Sees(a) ==
    /\ Calls(a, "look") => removal[a].leaf = names.leaf
    /\ removal[a].pc \in {"verify", "recheck", "rename", "flush back", "return", "rename again"} =>
         InPlace("child", "none")
    /\ removal[a].pc \in {"flush rename", "verify quarantine", "unlink", "rename back"} =>
         InPlace("none", "child")
    /\ Calls(a, "flush gone") => InPlace("none", "none")
    /\ Calls(a, "restore") => names.leaf = "none" /\ names.quarantine # "other"

ChildFree == ~Under("child") /\ "child" \notin {flushed.leaf, flushed.quarantine}

Begun ==
    make = "start" =>
        knows = {} /\ \A a \in Hands : removal[a].pc = "idle" /\ result[a] = "none"

ChildInv ==
    /\ ChildKinds /\ Begun
    /\ \A a \in alone : Sees(a)
    /\ \A a \in Hands : result[a] = "gone" => ChildFree

LEMMA ThenIs ==
    ASSUME ChildInv, NEW a \in Hands, NEW p \in SystemCalls, Then(a, p)
    PROVE  /\ removal' \in [Hands -> Attempts]
           /\ removal'[a].pc = p /\ removal'[a].leaf = removal[a].leaf
           /\ \A b \in Hands : b # a => removal'[b] = removal[b]
BY DEF ChildInv, ChildKinds, Then, Attempts

LEMMA NoCallIs ==
    ASSUME ChildInv, NEW a \in Hands, removal' = [removal EXCEPT ![a] = NoCall]
    PROVE  /\ removal' \in [Hands -> Attempts] /\ removal'[a].pc = "idle"
           /\ \A b \in Hands : b # a => removal'[b] = removal[b]
<1>1. NoCall \in Attempts /\ NoCall.pc = "idle"
  BY DEF NoCall, Attempts, SystemCalls, Entries
<1> QED
  BY <1>1 DEF ChildInv, ChildKinds

LEMMA BeginIs ==
    ASSUME ChildInv, NEW a \in Hands, Begin(a)
    PROVE  /\ removal' \in [Hands -> Attempts] /\ removal'[a].pc = "look"
           /\ removal'[a].leaf = names.leaf
           /\ \A b \in Hands : b # a => removal'[b] = removal[b]
           /\ alone' = alone \cup {a}
<1>1. names.leaf \in Entries
  BY DEF ChildInv, ChildKinds, Directory
<1>2. PICK o : o = [NoCall EXCEPT !.pc = "look", !.leaf = names.leaf]
  OBVIOUS
<1>3. o \in Attempts /\ o.pc = "look" /\ o.leaf = names.leaf
  BY <1>1, <1>2 DEF NoCall, Attempts, SystemCalls
<1>4. removal' = [removal EXCEPT ![a] = o]
  BY <1>2 DEF Begin
<1> QED
  BY <1>3, <1>4 DEF Begin, ChildInv, ChildKinds

LEMMA MoveIs ==
    ASSUME ChildInv, NEW a \in Hands, NEW from \in {"leaf", "quarantine"},
           NEW to \in {"leaf", "quarantine"} \ {from}, Move(a, from, to)
    PROVE  /\ names' \in Directory /\ alone' = alone \cap {a}
           /\ names'[to] = names[from] /\ names'[from] = "none"
           /\ ~Under("child") => ~Under("child")'
<1>1. names \in Directory
  BY DEF ChildInv, ChildKinds
<1>2. names' = [names EXCEPT ![to] = names[from], ![from] = "none"] /\ alone' = alone \cap {a}
  BY DEF Move, Becomes
<1>3. CASE from = "leaf" /\ to = "quarantine"
  <2>1. names' = [leaf |-> "none", quarantine |-> names.leaf]
    BY <1>1, <1>2, <1>3 DEF Directory
  <2> QED
    BY <1>1, <1>2, <1>3, <2>1 DEF Directory, Entries, Under
<1>4. CASE from = "quarantine" /\ to = "leaf"
  <2>1. names' = [leaf |-> names.quarantine, quarantine |-> "none"]
    BY <1>1, <1>2, <1>4 DEF Directory
  <2> QED
    BY <1>1, <1>2, <1>4, <2>1 DEF Directory, Entries, Under
<1> QED
  BY <1>3, <1>4

\* What a step of one process has to show.
LEMMA StepKeeps ==
    ASSUME ChildInv, NEW a \in Hands,
           ChildKinds', Begun',
           \A b \in Hands : b # a => removal'[b] = removal[b],
           (UNCHANGED names /\ alone' \subseteq alone \cup {a}) \/ alone' \subseteq {a},
           a \in alone' => Sees(a)',
           ChildFree => ChildFree',
           \A b \in Hands : result'[b] = "gone" => result[b] = "gone" \/ ChildFree'
    PROVE  ChildInv'
<1>1. ASSUME NEW b \in alone', b # a
      PROVE  Sees(b)'
  <2>1. UNCHANGED names /\ b \in alone /\ b \in Hands
    BY <1>1 DEF ChildInv, ChildKinds
  <2>2. Sees(b) /\ removal'[b] = removal[b]
    BY <1>1, <2>1 DEF ChildInv
  <2> QED
    BY <2>1, <2>2 DEF Sees, Calls, InPlace
<1> QED
  BY <1>1 DEF ChildInv

\* A step of a deletion under way, which the creation preceded.
LEMMA UnderWay ==
    ASSUME ChildInv, NEW a \in Hands, removal[a].pc # "idle"
    PROVE  make # "start"
BY DEF ChildInv, Begun

\* Such a step that only looks, or flushes.
LEMMA LookKeeps ==
    ASSUME ChildInv, NEW a \in Hands, removal[a].pc # "idle",
           removal' \in [Hands -> Attempts],
           \A b \in Hands : b # a => removal'[b] = removal[b],
           UNCHANGED <<names, alone, make, knows, deaths>>,
           flushed' \in {flushed, names},
           a \in alone => Sees(a)',
           \/ UNCHANGED result
           \/ /\ result' = [result EXCEPT ![a] = IF a \in alone THEN "gone" ELSE "disturbed"]
              /\ a \in alone => ChildFree'
    PROVE  ChildInv'
<1>1. make' # "start"
  BY UnderWay
<1>2. result' \in [Hands -> {"none", "gone", "disturbed"}]
  BY DEF ChildInv, ChildKinds
<1>3. ChildKinds' /\ Begun'
  BY <1>1, <1>2 DEF ChildInv, ChildKinds, Begun
<1>4. ChildFree => ChildFree'
  BY DEF ChildFree, Under
<1>5. \A b \in Hands : result'[b] = "gone" => result[b] = "gone" \/ ChildFree'
  BY DEF ChildInv, ChildKinds
<1> QED
  BY <1>3, <1>4, <1>5, StepKeeps

LEMMA WithdrawKeeps ==
    ASSUME ChildInv, NEW a \in Hands, removal[a].pc # "idle", Withdraw(a),
           UNCHANGED <<names, alone, make, knows, deaths>>, flushed' \in {flushed, names}
    PROVE  ChildInv'
<1>1. /\ removal' \in [Hands -> Attempts] /\ removal'[a].pc = "idle"
      /\ \A b \in Hands : b # a => removal'[b] = removal[b]
      /\ UNCHANGED result
  BY NoCallIs DEF Withdraw
<1>2. Sees(a)'
  BY <1>1 DEF Sees, Calls
<1> QED
  BY <1>1, <1>2, LookKeeps

LEMMA ThenKeeps ==
    ASSUME ChildInv, NEW a \in Hands, removal[a].pc # "idle", NEW p \in SystemCalls,
           Then(a, p), UNCHANGED result,
           UNCHANGED <<names, alone, make, knows, deaths>>, flushed' \in {flushed, names},
           a \in alone => Sees(a)'
    PROVE  ChildInv'
BY ThenIs, LookKeeps

LEMMA ReturnKeeps ==
    ASSUME ChildInv, NEW a \in Hands, removal[a].pc # "idle", Return(a),
           UNCHANGED <<names, alone, make, knows, deaths>>, flushed' \in {flushed, names},
           a \in alone => ChildFree'
    PROVE  ChildInv'
<1>1. /\ removal' \in [Hands -> Attempts] /\ removal'[a].pc = "idle"
      /\ \A b \in Hands : b # a => removal'[b] = removal[b]
      /\ result' = [result EXCEPT ![a] = IF a \in alone THEN "gone" ELSE "disturbed"]
  BY NoCallIs DEF Return
<1>2. Sees(a)'
  BY <1>1 DEF Sees, Calls
<1> QED
  BY <1>1, <1>2, LookKeeps

\* What the names are: a record of two entries.
LEMMA NamesAre ==
    ASSUME ChildInv
    PROVE  /\ names.leaf \in Entries /\ names.quarantine \in Entries
           /\ \A x, y \in Entries : names = [leaf |-> x, quarantine |-> y] <=> InPlace(x, y)
BY DEF ChildInv, ChildKinds, Directory, InPlace

LEMMA LookHeld ==
    ASSUME ChildInv, NEW a \in Hands, Look(a)
    PROVE  ChildInv'
<1>1. /\ removal[a].pc = "look"
      /\ UNCHANGED <<names, alone, make, knows, deaths>> /\ flushed' = flushed
      /\ a \in alone => removal[a].leaf = names.leaf
  BY DEF Look, Keep, Still, Calls, ChildInv, Sees
<1>2. CASE removal[a].leaf = "none" /\ names.quarantine = "none"
  <2>1. Then(a, "flush gone") /\ UNCHANGED result
    BY <1>2 DEF Look, Decide
  <2>2. removal'[a].pc = "flush gone"
    BY <2>1, ThenIs DEF SystemCalls
  <2>3. a \in alone => Sees(a)'
    BY <1>1, <1>2, <2>2 DEF Sees, Calls, InPlace
  <2> QED
    BY <1>1, <2>1, <2>3, ThenKeeps DEF SystemCalls
<1>3. CASE removal[a].leaf = "none" /\ names.quarantine = "child"
  <2>1. Then(a, "verify quarantine") /\ UNCHANGED result
    BY <1>3 DEF Look, Decide
  <2>2. removal'[a].pc = "verify quarantine"
    BY <2>1, ThenIs DEF SystemCalls
  <2>3. a \in alone => Sees(a)'
    BY <1>1, <1>3, <2>2 DEF Sees, Calls, InPlace
  <2> QED
    BY <1>1, <2>1, <2>3, ThenKeeps DEF SystemCalls
<1>4. CASE removal[a].leaf = "child" /\ names.quarantine = "none"
  <2>1. Then(a, "verify") /\ UNCHANGED result
    BY <1>4 DEF Look, Decide
  <2>2. removal'[a].pc = "verify"
    BY <2>1, ThenIs DEF SystemCalls
  <2>3. a \in alone => Sees(a)'
    BY <1>1, <1>4, <2>2 DEF Sees, Calls, InPlace
  <2> QED
    BY <1>1, <2>1, <2>3, ThenKeeps DEF SystemCalls
<1>5. CASE /\ ~(removal[a].leaf = "none" /\ names.quarantine = "none")
           /\ ~(removal[a].leaf = "none" /\ names.quarantine = "child")
           /\ ~(removal[a].leaf = "child" /\ names.quarantine = "none")
  <2>1. Withdraw(a)
    BY <1>5 DEF Look, Decide
  <2> QED
    BY <1>1, <2>1, WithdrawKeeps
<1> QED
  BY <1>2, <1>3, <1>4, <1>5

LEMMA VerifyHeld ==
    ASSUME ChildInv, NEW a \in Hands, Verify(a)
    PROVE  ChildInv'
<1>1. /\ removal[a].pc = "verify"
      /\ UNCHANGED <<names, alone, make, knows, deaths>> /\ flushed' = flushed
      /\ a \in alone => InPlace("child", "none")
  BY DEF Verify, Keep, Still, Calls, ChildInv, Sees
<1>2. CASE names.leaf = "none"
  <2>1. Return(a) /\ a \notin alone
    BY <1>1, <1>2 DEF Verify, Missing, InPlace
  <2> QED
    BY <1>1, <2>1, ReturnKeeps
<1>3. CASE names.leaf = "child"
  <2>1. Then(a, "recheck") /\ UNCHANGED result
    BY <1>3 DEF Verify
  <2>2. removal'[a].pc = "recheck"
    BY <2>1, ThenIs DEF SystemCalls
  <2>3. a \in alone => Sees(a)'
    BY <1>1, <2>2 DEF Sees, Calls, InPlace
  <2> QED
    BY <1>1, <2>1, <2>3, ThenKeeps DEF SystemCalls
<1>4. CASE names.leaf # "none" /\ names.leaf # "child"
  BY <1>1, <1>4, WithdrawKeeps DEF Verify
<1> QED
  BY <1>2, <1>3, <1>4

LEMMA RecheckHeld ==
    ASSUME ChildInv, NEW a \in Hands, Recheck(a) \/ ReturnToQuarantine(a)
    PROVE  ChildInv'
<1>1. /\ removal[a].pc \in {"recheck", "return"}
      /\ UNCHANGED <<names, alone, make, knows, deaths>> /\ flushed' = flushed
      /\ a \in alone => InPlace("child", "none")
  BY DEF Recheck, ReturnToQuarantine, Keep, Still, Calls, ChildInv, Sees
<1>2. CASE Withdraw(a)
  BY <1>1, <1>2, WithdrawKeeps
<1>3. ASSUME NEW p \in {"rename", "rename again"}, Then(a, p), UNCHANGED result
      PROVE  ChildInv'
  <2>1. removal'[a].pc = p
    BY <1>3, ThenIs DEF SystemCalls
  <2>2. a \in alone => Sees(a)'
    BY <1>1, <2>1 DEF Sees, Calls, InPlace
  <2> QED
    BY <1>1, <1>3, <2>2, ThenKeeps DEF SystemCalls
<1> QED
  BY <1>2, <1>3 DEF Recheck, ReturnToQuarantine

LEMMA FlushRenameHeld ==
    ASSUME ChildInv, NEW a \in Hands, FlushRename(a)
    PROVE  ChildInv'
<1>1. /\ removal[a].pc = "flush rename"
      /\ UNCHANGED <<names, alone, make, knows, deaths, result>> /\ flushed' = names
      /\ Then(a, "verify quarantine")
      /\ a \in alone => InPlace("none", "child")
  BY DEF FlushRename, Sync, Keep, Still, Calls, ChildInv, Sees
<1>2. removal'[a].pc = "verify quarantine"
  BY <1>1, ThenIs DEF SystemCalls
<1>3. a \in alone => Sees(a)'
  BY <1>1, <1>2 DEF Sees, Calls, InPlace
<1> QED
  BY <1>1, <1>3, ThenKeeps DEF SystemCalls

\* An attempt that fails puts the child back, if it is its to put back.
LEMMA FailsKeeps ==
    ASSUME ChildInv, NEW a \in Hands, removal[a].pc # "idle", Fails(a),
           UNCHANGED <<names, alone, make, knows, deaths>>, flushed' = flushed,
           a \in alone => names.leaf = "none" /\ names.quarantine # "other"
    PROVE  ChildInv'
<1>1. CASE Withdraw(a)
  BY <1>1, WithdrawKeeps
<1>2. CASE Then(a, "restore") /\ UNCHANGED result
  <2>1. removal'[a].pc = "restore"
    BY <1>2, ThenIs DEF SystemCalls
  <2>2. a \in alone => Sees(a)'
    BY <2>1 DEF Sees, Calls
  <2> QED
    BY <1>2, <2>2, ThenKeeps DEF SystemCalls
<1> QED
  BY <1>1, <1>2 DEF Fails

LEMMA VerifyQuarantineHeld ==
    ASSUME ChildInv, NEW a \in Hands, VerifyQuarantine(a)
    PROVE  ChildInv'
<1>1. /\ removal[a].pc = "verify quarantine"
      /\ UNCHANGED <<names, alone, make, knows, deaths>> /\ flushed' = flushed
      /\ a \in alone => InPlace("none", "child")
  BY DEF VerifyQuarantine, Keep, Still, Calls, ChildInv, Sees
<1>2. CASE Then(a, "unlink") /\ UNCHANGED result
  <2>1. removal'[a].pc = "unlink"
    BY <1>2, ThenIs DEF SystemCalls
  <2>2. a \in alone => Sees(a)'
    BY <1>1, <2>1 DEF Sees, Calls, InPlace
  <2> QED
    BY <1>1, <1>2, <2>2, ThenKeeps DEF SystemCalls
<1>3. CASE Fails(a)
  BY <1>1, <1>3, FailsKeeps DEF InPlace
<1> QED
  BY <1>2, <1>3 DEF VerifyQuarantine

LEMMA FlushGoneHeld ==
    ASSUME ChildInv, NEW a \in Hands, FlushGone(a)
    PROVE  ChildInv'
<1>1. /\ removal[a].pc = "flush gone" /\ Return(a)
      /\ UNCHANGED <<names, alone, make, knows, deaths>> /\ flushed' = names
      /\ a \in alone => InPlace("none", "none")
  BY DEF FlushGone, FlushedGone, Sync, Keep, Still, Calls, ChildInv, Sees
<1>2. a \in alone => ChildFree'
  BY <1>1 DEF ChildFree, Under, InPlace
<1> QED
  BY <1>1, <1>2, ReturnKeeps

LEMMA RestoreHeld ==
    ASSUME ChildInv, NEW a \in Hands, Restore(a)
    PROVE  ChildInv'
<1>1. /\ removal[a].pc = "restore"
      /\ UNCHANGED <<names, alone, make, knows, deaths>> /\ flushed' = flushed
  BY DEF Restore, Keep, Still, Calls
<1>2. CASE names = [leaf |-> "none", quarantine |-> "child"]
  <2>1. Then(a, "rename back") /\ UNCHANGED result
    BY <1>2 DEF Restore
  <2>2. removal'[a].pc = "rename back"
    BY <2>1, ThenIs DEF SystemCalls
  <2>3. a \in alone => Sees(a)'
    BY <1>1, <1>2, <2>2 DEF Sees, Calls, InPlace
  <2> QED
    BY <1>1, <2>1, <2>3, ThenKeeps DEF SystemCalls
<1>3. CASE names # [leaf |-> "none", quarantine |-> "child"]
  BY <1>1, <1>3, WithdrawKeeps DEF Restore
<1> QED
  BY <1>2, <1>3

LEMMA FlushBackHeld ==
    ASSUME ChildInv, NEW a \in Hands, FlushBack(a)
    PROVE  ChildInv'
<1>1. /\ removal[a].pc = "flush back" /\ Withdraw(a)
      /\ UNCHANGED <<names, alone, make, knows, deaths>> /\ flushed' = names
  BY DEF FlushBack, Sync, Keep, Still, Calls
<1> QED
  BY <1>1, WithdrawKeeps

LEMMA FaultHeld ==
    ASSUME ChildInv, NEW a \in Hands, Fault(a)
    PROVE  ChildInv'
<1>1. /\ removal[a].pc # "idle"
      /\ UNCHANGED <<names, alone, make, knows, deaths>> /\ flushed' = flushed
  BY DEF Fault, Keep, Still
<1>2. CASE removal[a].pc \in {"flush rename", "verify quarantine", "unlink", "flush gone"}
  <2>1. Fails(a)
    BY <1>2 DEF Fault, Calls
  <2>2. a \in alone => names.leaf = "none" /\ names.quarantine # "other"
    BY <1>2 DEF ChildInv, Sees, Calls, InPlace
  <2> QED
    BY <1>1, <2>1, <2>2, FailsKeeps
<1>3. CASE removal[a].pc = "flush back"
  <2>1. Then(a, "return") /\ UNCHANGED result
    BY <1>3 DEF Fault, Calls
  <2>2. removal'[a].pc = "return"
    BY <2>1, ThenIs DEF SystemCalls
  <2>3. a \in alone => Sees(a)'
    BY <1>1, <1>3, <2>2 DEF ChildInv, Sees, Calls, InPlace
  <2> QED
    BY <1>1, <2>1, <2>3, ThenKeeps DEF SystemCalls
<1>4. CASE removal[a].pc \notin {"flush rename", "verify quarantine", "unlink", "flush gone",
                                 "flush back"}
  <2>1. Withdraw(a)
    BY <1>4 DEF Fault, Calls
  <2> QED
    BY <1>1, <2>1, WithdrawKeeps
<1> QED
  BY <1>2, <1>3, <1>4

\* A step that renames or unlinks: who does it keeps the directory to himself,
\* nobody else does.
LEMMA ChangeStep ==
    ASSUME ChildInv, NEW a \in Hands, removal[a].pc # "idle",
           removal' \in [Hands -> Attempts],
           \A b \in Hands : b # a => removal'[b] = removal[b],
           names' \in Directory, flushed' \in Directory,
           UNCHANGED <<make, knows, deaths, result>>, alone' = alone \cap {a},
           a \in alone => Sees(a)',
           ChildFree => ChildFree'
    PROVE  ChildInv'
<1>1. make' # "start"
  BY UnderWay
<1>2. ChildKinds' /\ Begun'
  BY <1>1 DEF ChildInv, ChildKinds, Begun
<1> QED
  BY <1>2, StepKeeps

LEMMA RenameHeld ==
    ASSUME ChildInv, NEW a \in Hands, Rename(a)
    PROVE  ChildInv'
<1>1. /\ removal[a].pc = "rename"
      /\ UNCHANGED <<make, knows, deaths>> /\ flushed' = flushed
      /\ a \in alone => InPlace("child", "none")
  BY DEF Rename, Still, Calls, ChildInv, Sees
<1>2. CASE names.leaf = "none"
  <2>1. Return(a) /\ a \notin alone /\ UNCHANGED <<names, alone>>
    BY <1>1, <1>2 DEF Rename, Missing, Keep, InPlace
  <2> QED
    BY <1>1, <2>1, ReturnKeeps
<1>3. CASE names.leaf # "none"
  <2>1. /\ removal' = [removal EXCEPT ![a].pc = "flush rename", ![a].moved = TRUE]
        /\ Move(a, "leaf", "quarantine") /\ UNCHANGED result
    BY <1>3 DEF Rename
  <2>2. /\ removal' \in [Hands -> Attempts] /\ removal'[a].pc = "flush rename"
        /\ \A b \in Hands : b # a => removal'[b] = removal[b]
    <3>1. removal \in [Hands -> Attempts] /\ removal[a] \in Attempts
      BY DEF ChildInv, ChildKinds
    <3>2. PICK o : o = [removal[a] EXCEPT !.pc = "flush rename", !.moved = TRUE]
      OBVIOUS
    <3>3. o \in Attempts /\ o.pc = "flush rename"
      BY <3>1, <3>2 DEF Attempts, SystemCalls
    <3>4. removal' = [removal EXCEPT ![a] = o]
      BY <2>1, <3>1, <3>2 DEF Attempts
    <3> QED
      BY <3>1, <3>3, <3>4
  <2>3. /\ names' \in Directory /\ alone' = alone \cap {a}
        /\ names'.quarantine = names.leaf /\ names'.leaf = "none"
        /\ ~Under("child") => ~Under("child")'
    BY <2>1, MoveIs
  <2>4. a \in alone => Sees(a)'
    BY <1>1, <2>2, <2>3 DEF Sees, Calls, InPlace
  <2>5. ChildFree => ChildFree'
    BY <1>1, <2>3 DEF ChildFree
  <2> QED
    BY <1>1, <2>1, <2>2, <2>3, <2>4, <2>5, ChangeStep DEF ChildInv, ChildKinds
<1> QED
  BY <1>2, <1>3

LEMMA UnlinkChildHeld ==
    ASSUME ChildInv, NEW a \in Hands, UnlinkChild(a)
    PROVE  ChildInv'
<1>1. /\ removal[a].pc = "unlink"
      /\ UNCHANGED <<make, knows, deaths>> /\ flushed' = flushed
      /\ a \in alone => InPlace("none", "child")
  BY DEF UnlinkChild, Still, Calls, ChildInv, Sees
<1>2. CASE names.quarantine = "none"
  <2>1. Fails(a) /\ UNCHANGED <<names, alone>>
    BY <1>2 DEF UnlinkChild, Keep
  <2> QED
    BY <1>1, <2>1, FailsKeeps DEF InPlace
<1>3. CASE names.quarantine # "none"
  <2>1. /\ Then(a, "flush gone") /\ UNCHANGED result
        /\ names' = [names EXCEPT !.quarantine = "none"] /\ alone' = alone \cap {a}
    BY <1>3 DEF UnlinkChild, Becomes
  <2>2. /\ removal' \in [Hands -> Attempts] /\ removal'[a].pc = "flush gone"
        /\ \A b \in Hands : b # a => removal'[b] = removal[b]
    BY <2>1, ThenIs DEF SystemCalls
  <2>3. names' \in Directory /\ names'.quarantine = "none" /\ names'.leaf = names.leaf
    BY <2>1 DEF ChildInv, ChildKinds, Directory, Entries
  <2>4. a \in alone => Sees(a)'
    BY <1>1, <2>2, <2>3 DEF Sees, Calls, InPlace
  <2>5. ChildFree => ChildFree'
    BY <1>1, <2>3 DEF ChildFree, Under
  <2> QED
    BY <1>1, <2>1, <2>2, <2>3, <2>4, <2>5, ChangeStep DEF ChildInv, ChildKinds
<1> QED
  BY <1>2, <1>3

LEMMA RenameBackHeld ==
    ASSUME ChildInv, NEW a \in Hands, RenameBack(a)
    PROVE  ChildInv'
<1>1. /\ removal[a].pc = "rename back"
      /\ UNCHANGED <<make, knows, deaths>> /\ flushed' = flushed
      /\ a \in alone => InPlace("none", "child")
  BY DEF RenameBack, Still, Calls, ChildInv, Sees
<1>2. CASE names.quarantine = "none"
  <2>1. Withdraw(a) /\ UNCHANGED <<names, alone>>
    BY <1>2 DEF RenameBack, Keep
  <2> QED
    BY <1>1, <2>1, WithdrawKeeps
<1>3. CASE names.quarantine # "none"
  <2>1. Then(a, "flush back") /\ UNCHANGED result /\ Move(a, "quarantine", "leaf")
    BY <1>3 DEF RenameBack
  <2>2. /\ removal' \in [Hands -> Attempts] /\ removal'[a].pc = "flush back"
        /\ \A b \in Hands : b # a => removal'[b] = removal[b]
    BY <2>1, ThenIs DEF SystemCalls
  <2>3. /\ names' \in Directory /\ alone' = alone \cap {a}
        /\ names'.leaf = names.quarantine /\ names'.quarantine = "none"
        /\ ~Under("child") => ~Under("child")'
    BY <2>1, MoveIs
  <2>4. a \in alone => Sees(a)'
    BY <1>1, <2>2, <2>3 DEF Sees, Calls, InPlace
  <2>5. ChildFree => ChildFree'
    BY <1>1, <2>3 DEF ChildFree
  <2> QED
    BY <1>1, <2>1, <2>2, <2>3, <2>4, <2>5, ChangeStep DEF ChildInv, ChildKinds
<1> QED
  BY <1>2, <1>3

LEMMA RenameAgainHeld ==
    ASSUME ChildInv, NEW a \in Hands, RenameAgain(a)
    PROVE  ChildInv'
<1>1. /\ removal[a].pc = "rename again" /\ Withdraw(a)
      /\ UNCHANGED <<make, knows, deaths>>
  BY DEF RenameAgain, Still, Calls
<1>2. CASE UNCHANGED <<names, alone, flushed>>
  BY <1>1, <1>2, WithdrawKeeps
<1>3. CASE Move(a, "leaf", "quarantine") /\ flushed' \in {flushed, names'}
  <2>1. /\ removal' \in [Hands -> Attempts] /\ removal'[a].pc = "idle"
        /\ \A b \in Hands : b # a => removal'[b] = removal[b]
        /\ UNCHANGED result
    BY <1>1, NoCallIs DEF Withdraw
  <2>2. /\ names' \in Directory /\ alone' = alone \cap {a}
        /\ ~Under("child") => ~Under("child")'
    BY <1>3, MoveIs
  <2>3. Sees(a)'
    BY <2>1 DEF Sees, Calls
  <2>4. ChildFree => ChildFree'
    BY <1>3, <2>2 DEF ChildFree, Under
  <2>5. flushed' \in Directory
    BY <1>3, <2>2 DEF ChildInv, ChildKinds
  <2> QED
    BY <1>1, <2>1, <2>2, <2>3, <2>4, <2>5, ChangeStep
<1> QED
  BY <1>2, <1>3 DEF RenameAgain, Keep

LEMMA RemoveHeld ==
    ASSUME ChildInv, NEW a \in Hands, Remove(a) \/ Fault(a)
    PROVE  ChildInv'
<1>1. CASE Start(a)
  <2>1. /\ Begin(a) /\ a \in knows
        /\ UNCHANGED <<names, flushed, knows, result, make, deaths>>
    BY <1>1 DEF Start, Still
  <2>2. /\ removal' \in [Hands -> Attempts] /\ removal'[a].pc = "look"
        /\ removal'[a].leaf = names.leaf
        /\ \A b \in Hands : b # a => removal'[b] = removal[b]
        /\ alone' = alone \cup {a}
    BY <2>1, BeginIs
  <2>3. ChildKinds' /\ Begun'
    BY <2>1, <2>2 DEF ChildInv, ChildKinds, Begun
  <2>4. Sees(a)'
    BY <2>1, <2>2 DEF Sees, Calls
  <2>5. ChildFree => ChildFree'
    BY <2>1 DEF ChildFree, Under
  <2> QED
    BY <2>1, <2>2, <2>3, <2>4, <2>5, StepKeeps
<1> QED
  BY <1>1, LookHeld, VerifyHeld, RecheckHeld, RenameHeld, FlushRenameHeld, VerifyQuarantineHeld,
     UnlinkChildHeld, FlushGoneHeld, RestoreHeld, RenameBackHeld, FlushBackHeld, RenameAgainHeld,
     FaultHeld DEF Remove

\* A step of the creation leaves the names alone; it may begin the deletion of
\* what it made.
LEMMA MakerKeeps ==
    ASSUME ChildInv, make' # "start", UNCHANGED <<names, deaths, result>>,
           flushed' \in {flushed, names}, knows' \subseteq Hands,
           UNCHANGED <<removal, alone>> \/ Begin(Maker)
    PROVE  ChildInv'
<1>1. Maker \in Hands
  BY DEF Hands
<1>2. /\ removal' \in [Hands -> Attempts] /\ alone' \subseteq alone \cup {Maker}
      /\ \A b \in Hands : b # Maker => removal'[b] = removal[b]
  BY <1>1, BeginIs DEF ChildInv, ChildKinds
<1>3. Maker \in alone' => Sees(Maker)'
  <2>1. CASE UNCHANGED <<removal, alone>>
    BY <2>1 DEF ChildInv, Sees, Calls, InPlace
  <2>2. CASE Begin(Maker)
    <3>1. removal'[Maker].pc = "look" /\ removal'[Maker].leaf = names.leaf
      BY <1>1, <2>2, BeginIs
    <3> QED
      BY <3>1 DEF Sees, Calls
  <2> QED
    BY <2>1, <2>2
<1>4. ChildKinds' /\ Begun'
  BY <1>1, <1>2 DEF ChildInv, ChildKinds, Begun
<1>5. ChildFree => ChildFree'
  BY DEF ChildFree, Under
<1> QED
  BY <1>1, <1>2, <1>3, <1>4, <1>5, StepKeeps

(* Those who are told are among those who may know.                        *)
LEMMA ToldInMemory == Told => knows' \subseteq Hands
  BY DEF Told, Hands

LEMMA CreationHeld ==
    ASSUME ChildInv, Creation
    PROVE  ChildInv'
<1>1. CASE CreateChild
  <2>1. /\ make = "start" /\ make' # "start"
        /\ UNCHANGED <<flushed, removal, knows, result, deaths>>
    BY <1>1 DEF CreateChild, Creating, Becoming
  <2>2. \A a \in Hands : removal[a].pc = "idle" /\ result[a] = "none"
    BY <2>1 DEF ChildInv, Begun
  <2>3. names' \in Directory /\ alone' \subseteq alone
    <3>1. CASE Keep
      BY <3>1 DEF Keep, ChildInv, ChildKinds
    <3>2. CASE Becomes(Maker, [names EXCEPT !.leaf = "child"])
      BY <3>2 DEF Becomes, ChildInv, ChildKinds, Directory, Entries
    <3> QED
      BY <1>1, <3>1, <3>2 DEF CreateChild
  <2>4. ChildKinds' /\ Begun'
    BY <2>1, <2>3 DEF ChildInv, ChildKinds, Begun
  <2>5. \A a \in Hands : Sees(a)'
    BY <2>1, <2>2 DEF Sees, Calls
  <2> QED
    BY <2>1, <2>2, <2>4, <2>5 DEF ChildInv, ChildKinds
<1>2. CASE Identify
  <2>1. /\ make' # "start" /\ UNCHANGED <<names, flushed, deaths, result>>
        /\ knows' \in {knows, knows \cup {Maker}}
        /\ UNCHANGED <<removal, alone>> \/ Begin(Maker)
    BY <1>2 DEF Identify, Becoming, Creating, Known
  <2> QED
    BY <2>1, MakerKeeps DEF ChildInv, ChildKinds, Hands
<1>3. CASE Open
  <2>1. /\ make' # "start" /\ UNCHANGED <<names, flushed, deaths, result>>
        /\ knows' \in {knows, knows \cup {Maker}}
        /\ UNCHANGED <<removal, alone>> \/ Begin(Maker)
    BY <1>3 DEF Open, Becoming, Creating, Known
  <2> QED
    BY <2>1, MakerKeeps DEF ChildInv, ChildKinds, Hands
<1>4. CASE FlushCreated
  <2>1. /\ make' # "start" /\ UNCHANGED <<names, deaths, result>>
        /\ flushed' \in {flushed, names} /\ (UNCHANGED knows \/ Told)
        /\ UNCHANGED <<removal, alone>> \/ Begin(Maker)
    BY <1>4 DEF FlushCreated, Becoming, Creating, Sync
  <2> QED
    BY <2>1, MakerKeeps, ToldInMemory DEF ChildInv, ChildKinds
<1>5. CASE EndUndo \/ Adopt
  <2>1. /\ make' # "start" /\ UNCHANGED <<names, deaths, result>>
        /\ flushed' \in {flushed, names} /\ (UNCHANGED knows \/ Told)
        /\ UNCHANGED <<removal, alone>>
    BY <1>5 DEF EndUndo, Adopt, Becoming, Creating, Sync, Keep
  <2> QED
    BY <2>1, MakerKeeps, ToldInMemory DEF ChildInv, ChildKinds
<1> QED
  BY <1>1, <1>2, <1>3, <1>4, <1>5 DEF Creation

LEMMA FindHeld ==
    ASSUME ChildInv, NEW a \in Hands, Find(a)
    PROVE  ChildInv'
<1>1. /\ make # "start" /\ UNCHANGED <<names, flushed, alone, removal, make, deaths>>
      /\ knows' = knows \cup {a} /\ result' = [result EXCEPT ![a] = "none"]
  BY DEF Find, Over, Keep, Still
<1>2. ChildKinds' /\ Begun'
  BY <1>1 DEF ChildInv, ChildKinds, Begun
<1>3. a \in alone' => Sees(a)'
  BY <1>1 DEF ChildInv, Sees, Calls, InPlace
<1>4. ChildFree => ChildFree'
  BY <1>1 DEF ChildFree, Under
<1>5. \A b \in Hands : result'[b] = "gone" => result[b] = "gone"
  BY <1>1 DEF ChildInv, ChildKinds
<1> QED
  BY <1>1, <1>2, <1>3, <1>4, <1>5, StepKeeps

LEMMA DieHoldingHeld ==
    ASSUME ChildInv, NEW a \in Hands, DieHolding(a)
    PROVE  ChildInv'
<1>1. /\ UNCHANGED <<names, flushed, result, alone>> /\ deaths' = deaths + 1
      /\ removal' = [removal EXCEPT ![a] = NoCall] /\ knows' = knows \ {a}
      /\ make' \in {make, "gone"}
  BY DEF DieHolding
<1>2. /\ removal' \in [Hands -> Attempts] /\ removal'[a].pc = "idle"
      /\ \A b \in Hands : b # a => removal'[b] = removal[b]
  BY <1>1, NoCallIs
<1>3. ChildKinds' /\ Begun'
  BY <1>1, <1>2 DEF ChildInv, ChildKinds, Begun
<1>4. Sees(a)'
  BY <1>2 DEF Sees, Calls
<1>5. ChildFree => ChildFree'
  BY <1>1 DEF ChildFree, Under
<1> QED
  BY <1>1, <1>2, <1>3, <1>4, <1>5, StepKeeps

LEMMA PowerCutHeld ==
    ASSUME ChildInv, PowerCut
    PROVE  ChildInv'
<1>1. /\ names' = flushed /\ UNCHANGED <<flushed, result>> /\ deaths' = deaths + 1
      /\ removal' = [a \in Hands |-> NoCall] /\ knows' = {} /\ alone' = {}
      /\ make' # "start"
  BY DEF PowerCut
<1>2. NoCall \in Attempts
  BY DEF NoCall, Attempts, SystemCalls, Entries
<1>3. ChildKinds' /\ Begun'
  BY <1>1, <1>2 DEF ChildInv, ChildKinds, Begun
<1>4. ChildFree => ChildFree'
  BY <1>1 DEF ChildFree, Under
<1> QED
  BY <1>1, <1>3, <1>4 DEF ChildInv

LEMMA IntrudeHeld ==
    ASSUME ChildInv, NEW name \in {"leaf", "quarantine"}, Intrude(name)
    PROVE  ChildInv'
<1>1. /\ names' = [names EXCEPT ![name] = "other"] /\ alone' = {}
      /\ UNCHANGED <<flushed, removal, knows, result, make, deaths>>
  BY DEF Intrude, Still
<1>2. names' \in Directory /\ (~Under("child") => ~Under("child")')
  <2>1. names \in Directory
    BY DEF ChildInv, ChildKinds
  <2>2. CASE name = "leaf"
    BY <1>1, <2>1, <2>2 DEF Directory, Entries, Under
  <2>3. CASE name = "quarantine"
    BY <1>1, <2>1, <2>3 DEF Directory, Entries, Under
  <2> QED
    BY <2>2, <2>3
<1>3. ChildKinds' /\ Begun'
  BY <1>1, <1>2 DEF ChildInv, ChildKinds, Begun
<1>4. ChildFree => ChildFree'
  BY <1>1, <1>2 DEF ChildFree
<1> QED
  BY <1>1, <1>3, <1>4 DEF ChildInv

LEMMA ChildStart ==
    ASSUME ChildInit
    PROVE  ChildInv
<1>1. NoCall \in Attempts /\ NoCall.pc = "idle"
  BY DEF NoCall, Attempts, SystemCalls, Entries
<1> QED
  BY <1>1 DEF ChildInit, ChildInv, ChildKinds, Begun, Directory, Entries

LEMMA ChildStep ==
    ASSUME ChildInv, [ChildNext]_childVars
    PROVE  ChildInv'
<1>1. CASE ChildNext
  BY <1>1, RemoveHeld, FindHeld, DieHoldingHeld, CreationHeld, PowerCutHeld, IntrudeHeld
     DEF ChildNext
<1>2. CASE UNCHANGED childVars
  BY <1>2 DEF childVars, ChildInv, ChildKinds, Begun, Sees, Calls, InPlace, ChildFree, Under
<1> QED
  BY <1>1, <1>2

\* The steps of a deletion that had the directory to itself, and change a name,
\* find nothing there but the child.
LEMMA OthersAreKept ==
    ASSUME ChildInv, [ChildNext]_childVars
    PROVE  OthersKept
<1> SUFFICES ASSUME NEW a \in Hands, a \in alone, removal'[a] # removal[a], deaths' = deaths,
                    Under("other"), ~Under("other")'
             PROVE  FALSE
  BY DEF OthersKept
<1>1. names' # names
  BY DEF Under
<1>2. deaths' # deaths + 1
  BY DEF ChildInv, ChildKinds
<1>3. ASSUME NEW b \in Hands,
             Rename(b) \/ UnlinkChild(b) \/ RenameBack(b) \/ RenameAgain(b)
      PROVE  FALSE
  <2>1. /\ removal[b].pc \in {"rename", "unlink", "rename back", "rename again"}
        /\ \E o : removal' = [removal EXCEPT ![b] = o]
    <3>1. CASE Rename(b) /\ removal' = [removal EXCEPT ![b].pc = "flush rename", ![b].moved = TRUE]
      <4>1. PICK o : o = [removal[b] EXCEPT !.pc = "flush rename", !.moved = TRUE]
        OBVIOUS
      <4>2. removal[b] \in Attempts /\ removal \in [Hands -> Attempts]
        BY DEF ChildInv, ChildKinds
      <4>3. removal' = [removal EXCEPT ![b] = o]
        BY <3>1, <4>1, <4>2 DEF Attempts
      <4> QED
        BY <3>1, <4>3 DEF Rename, Calls
    <3>2. CASE removal' = [removal EXCEPT ![b] = NoCall]
      BY <1>3, <3>2 DEF Rename, UnlinkChild, RenameBack, RenameAgain, Calls
    <3>3. ASSUME NEW p \in SystemCalls, Then(b, p)
          PROVE  \E o : removal' = [removal EXCEPT ![b] = o]
      <4>1. PICK o : o = [removal[b] EXCEPT !.pc = p]
        OBVIOUS
      <4> QED
        BY <3>3, <4>1 DEF Then
    <3> QED
      BY <1>3, <3>1, <3>2, <3>3 DEF Rename, Missing, Return, UnlinkChild, Fails, Withdraw,
         RenameBack, RenameAgain, Calls, SystemCalls
  <2>2. a = b
    BY <2>1 DEF ChildInv, ChildKinds
  <2>3. InPlace("child", "none") \/ InPlace("none", "child")
    BY <2>1, <2>2 DEF ChildInv, Sees
  <2> QED
    BY <2>3 DEF Under, InPlace
<1>4. ASSUME NEW b \in Hands, Remove(b) \/ Fault(b) \/ Find(b) \/ DieHolding(b)
      PROVE  FALSE
  BY <1>1, <1>2, <1>3, <1>4 DEF Remove, Fault, Find, DieHolding, Start, Look, Verify, Recheck,
     FlushRename, VerifyQuarantine, FlushGone, Restore, FlushBack, ReturnToQuarantine, Keep
<1>5. CASE Creation
  <2>1. CreateChild
    BY <1>1, <1>5 DEF Creation, Identify, Open, FlushCreated, EndUndo, Adopt, Keep
  <2> QED
    BY <2>1 DEF CreateChild
<1>6. CASE PowerCut \/ \E name \in {"leaf", "quarantine"} : Intrude(name)
  BY <1>2, <1>6 DEF PowerCut, Intrude
<1>7. CASE UNCHANGED childVars
  BY <1>1, <1>7 DEF childVars
<1> QED
  BY <1>4, <1>5, <1>6, <1>7 DEF ChildNext

\* A deletion that had the directory to itself and reports the child as gone is
\* right, before and after a power cut, and removes nothing else
\* (_quarantine_delete): for any number of processes and failures.
THEOREM DeletionsAreExact == ChildSpec => DeletesExactly
<1>1. ChildInv /\ [ChildNext]_childVars => ChildInv' /\ (DeletedIsGone' /\ OthersKept)
  BY ChildStep, OthersAreKept DEF ChildInv, DeletedIsGone, ChildFree
<1> QED
  BY <1>1, ChildStart, PTL DEF ChildSpec, DeletesExactly

=============================================================================
