----------------------------- MODULE SecureFiles -----------------------------
(***************************************************************************)
(* media/secure_fs.py on POSIX: one child of a pinned directory is created *)
(* and deleted.  A deletion moves the child to a quarantine name, which    *)
(* follows from leaf and identity, looks at it once more and unlinks it;    *)
(* what goes wrong on the way moves it back.  Every system call is a step  *)
(* of its own.  Processes and power may fail between any two, and a        *)
(* directory that was not flushed may come back as it was.                 *)
(*                                                                         *)
(* The module asks its callers to keep other writers out of the directory. *)
(* The model lets them in, and notes which operations had it to themselves.*)
(***************************************************************************)
EXTENDS Naturals

CONSTANTS
    Removers,       \* processes that delete the child, each as often as it takes
    Maker,          \* the process that creates it, and undoes a failed creation
    MaxFailures,    \* bound: failed system calls
    MaxDeaths       \* bound: crashed processes and power cuts

VARIABLES
    names,          \* what the two names stand for: nothing, the child, another file
    flushed,        \* what they would stand for after a power cut
    make,           \* where the creation is, and how it ended
    kind,           \* whether the child is a directory, and whether it is traced
    removal,        \* removal[a]: the deletion a is at
    knows,          \* those that know the identity of the child
    result,         \* result[a]: a has reported the child as deleted
    alone,          \* those whose deletion nobody disturbed so far
    failures, deaths

childVars == <<names, flushed, make, kind, removal, knows, result, alone, failures, deaths>>

Hands == Removers \cup {Maker}

\* A traced child can be told by what is kept on disk apart from its leaf: a
\* recovery journal by its contents, a batch directory because a sweep takes it
\* under any name, a staged file or manifest once a journal holds its identity.
\* Without one a manifest, a file whose record has no identity yet, or what a
\* document row tells nothing of is found by its leaf alone.
Kinds == [directory : BOOLEAN, traced : BOOLEAN]

\* No deletion under way.
NoCall == [pc |-> "idle", leaf |-> "none", moved |-> FALSE]

ChildTypeOK ==
    /\ {names.leaf, names.quarantine, flushed.leaf, flushed.quarantine} \subseteq
         {"none", "child", "other"}
    /\ make \in {"start", "identify", "open", "flush", "undo", "settle",
                 "made", "exists", "clean", "left", "unknown", "anonymous", "gone"}
    /\ kind \in Kinds
    /\ \A a \in Hands :
          removal[a].pc \in {"idle", "look", "verify", "recheck", "rename", "flush rename",
                             "verify quarantine", "unlink", "flush gone", "restore",
                             "rename back", "flush back", "return", "rename again"}
    /\ knows \subseteq Hands /\ alone \subseteq Hands
    /\ result \in [Hands -> {"none", "gone", "disturbed"}]
    /\ failures <= MaxFailures /\ deaths <= MaxDeaths

ChildInit ==
    /\ names = [leaf |-> "none", quarantine |-> "none"] /\ flushed = names
    /\ make = "start" /\ kind \in Kinds
    /\ removal = [a \in Hands |-> NoCall]
    /\ knows = {} /\ alone = {}
    /\ result = [a \in Hands |-> "none"]
    /\ failures = 0 /\ deaths = 0

-----------------------------------------------------------------------------
(* The system calls.                                                       *)

Calls(a, call) == removal[a].pc = call
Then(a, call) == removal' = [removal EXCEPT ![a].pc = call]

\* Who changes a name disturbs everybody else's deletion.
Becomes(a, now) == names' = now /\ alone' = alone \cap {a}

\* rename replaces what has the new name.
Move(a, from, to) ==
    Becomes(a, [names EXCEPT ![to] = names[from], ![from] = "none"])

Sync == flushed' = names
CallFails == failures < MaxFailures /\ failures' = failures + 1

Still == UNCHANGED <<make, kind, deaths>>
Keep == UNCHANGED <<names, alone>>

\* A deletion ends: the child is gone, or the caller will try again.  Callers
\* take FileNotFoundError for a child that is gone.
Return(a) ==
    /\ removal' = [removal EXCEPT ![a] = NoCall]
    /\ result' = [result EXCEPT ![a] = IF a \in alone THEN "gone" ELSE "disturbed"]
Withdraw(a) == removal' = [removal EXCEPT ![a] = NoCall] /\ UNCHANGED result
Missing(a) == Return(a)

-----------------------------------------------------------------------------
(* _quarantine_delete.                                                     *)

Begin(a) ==
    /\ removal' = [removal EXCEPT ![a] = [NoCall EXCEPT !.pc = "look", !.leaf = names.leaf]]
    /\ alone' = alone \cup {a}

Start(a) ==
    /\ a \in Removers \cap knows /\ Calls(a, "idle") /\ result[a] = "none"
    /\ Begin(a)
    /\ UNCHANGED <<names, flushed, knows, result, failures>> /\ Still

\* Mutant: a quarantine name left by an earlier attempt is not taken up.
DecideAfresh(a) ==
    IF removal[a].leaf = "none" /\ names.quarantine = "none"
    THEN Then(a, "flush gone") /\ UNCHANGED result
    ELSE IF removal[a].leaf = "child" /\ names.quarantine = "none"
         THEN Then(a, "verify") /\ UNCHANGED result
    ELSE Withdraw(a)

\* The leaf was looked at before the quarantine name.
Decide(a) ==
    IF removal[a].leaf = "none" /\ names.quarantine = "none"
    THEN Then(a, "flush gone") /\ UNCHANGED result
    ELSE IF removal[a].leaf = "none" /\ names.quarantine = "child"
         THEN Then(a, "verify quarantine") /\ UNCHANGED result
    ELSE IF removal[a].leaf = "child" /\ names.quarantine = "none"
         THEN Then(a, "verify") /\ UNCHANGED result
    ELSE Withdraw(a)

Look(a) ==
    /\ Calls(a, "look") /\ Decide(a)
    /\ UNCHANGED <<flushed, knows, failures>> /\ Keep /\ Still

\* _verify_named_child opens the name and compares: missing, another, or it.
Verify(a) ==
    /\ Calls(a, "verify")
    /\ IF names.leaf = "none" THEN Missing(a)
       ELSE IF names.leaf = "child" THEN Then(a, "recheck") /\ UNCHANGED result
       ELSE Withdraw(a)
    /\ UNCHANGED <<flushed, knows, failures>> /\ Keep /\ Still

\* The child is where it was and its new name is free.
Recheck(a) ==
    /\ Calls(a, "recheck")
    /\ IF names = [leaf |-> "child", quarantine |-> "none"]
       THEN Then(a, "rename") /\ UNCHANGED result ELSE Withdraw(a)
    /\ UNCHANGED <<flushed, knows, failures>> /\ Keep /\ Still

Rename(a) ==
    /\ Calls(a, "rename")
    /\ IF names.leaf = "none" THEN Missing(a) /\ Keep
       ELSE /\ removal' = [removal EXCEPT ![a].pc = "flush rename", ![a].moved = TRUE]
            /\ Move(a, "leaf", "quarantine") /\ UNCHANGED result
    /\ UNCHANGED <<flushed, knows, failures>> /\ Still

FlushRename(a) ==
    /\ Calls(a, "flush rename") /\ Sync /\ Then(a, "verify quarantine")
    /\ UNCHANGED <<knows, result, failures>> /\ Keep /\ Still

\* An attempt that moved the child itself moves it back when it fails.
Fails(a) == IF removal[a].moved THEN Then(a, "restore") /\ UNCHANGED result ELSE Withdraw(a)

\* _delete_verified_quarantine.
VerifyQuarantine(a) ==
    /\ Calls(a, "verify quarantine")
    /\ IF names.quarantine = "child" THEN Then(a, "unlink") /\ UNCHANGED result ELSE Fails(a)
    /\ UNCHANGED <<flushed, knows, failures>> /\ Keep /\ Still

UnlinkChild(a) ==
    /\ Calls(a, "unlink")
    /\ IF names.quarantine = "none" THEN Fails(a) /\ Keep
       ELSE /\ Then(a, "flush gone") /\ UNCHANGED result
            /\ Becomes(a, [names EXCEPT !.quarantine = "none"])
    /\ UNCHANGED <<flushed, knows, failures>> /\ Still

\* Mutant: a deletion that finds nothing, or has unlinked, does not flush.
Unflushed == UNCHANGED flushed

FlushedGone == Sync

FlushGone(a) ==
    /\ Calls(a, "flush gone") /\ FlushedGone /\ Return(a)
    /\ UNCHANGED <<knows, failures>> /\ Keep /\ Still

-----------------------------------------------------------------------------
(* _restore_quarantine, _return_restored_child_to_quarantine.              *)

Restore(a) ==
    /\ Calls(a, "restore")
    /\ IF names = [leaf |-> "none", quarantine |-> "child"]
       THEN Then(a, "rename back") /\ UNCHANGED result ELSE Withdraw(a)
    /\ UNCHANGED <<flushed, knows, failures>> /\ Keep /\ Still

RenameBack(a) ==
    /\ Calls(a, "rename back")
    /\ IF names.quarantine = "none" THEN Withdraw(a) /\ Keep
       ELSE Then(a, "flush back") /\ Move(a, "quarantine", "leaf") /\ UNCHANGED result
    /\ UNCHANGED <<flushed, knows, failures>> /\ Still

FlushBack(a) ==
    /\ Calls(a, "flush back") /\ Sync /\ Withdraw(a)
    /\ UNCHANGED <<knows, failures>> /\ Keep /\ Still

ReturnToQuarantine(a) ==
    /\ Calls(a, "return")
    /\ IF names = [leaf |-> "child", quarantine |-> "none"]
       THEN Then(a, "rename again") /\ UNCHANGED result ELSE Withdraw(a)
    /\ UNCHANGED <<flushed, knows, failures>> /\ Keep /\ Still

RenameAgain(a) ==
    /\ Calls(a, "rename again")
    /\ IF names.leaf = "none" THEN Keep /\ UNCHANGED flushed
       ELSE Move(a, "leaf", "quarantine") /\ flushed' \in {flushed, names'}
    /\ Withdraw(a)
    /\ UNCHANGED <<knows, failures>> /\ Still

\* A call raises: before the child was moved the attempt just fails.
Fault(a) ==
    /\ removal[a].pc # "idle" /\ CallFails
    /\ CASE removal[a].pc \in {"flush rename", "verify quarantine", "unlink", "flush gone"} ->
              Fails(a)
         [] Calls(a, "flush back") -> Then(a, "return") /\ UNCHANGED result
         [] OTHER -> Withdraw(a)
    /\ UNCHANGED <<flushed, knows>> /\ Keep /\ Still

-----------------------------------------------------------------------------
(* _create_child: the child exists before anybody knows its identity.      *)

Creating == UNCHANGED <<kind, result, deaths>>
Becoming(place) == make' = place
Known(a) == knows' = knows \cup {a}

\* Who made the child, and who is told of one that remains, has it in memory.
Told == \E a \in Removers : knows' = IF kind.traced THEN Hands ELSE {a, Maker}

\* O_EXCL, or mkdir.
CreateChild ==
    /\ make = "start"
    /\ IF names.leaf # "none" THEN Becoming("exists") /\ Keep
       ELSE /\ Becoming(IF kind.directory THEN "identify" ELSE "open")
            /\ Becomes(Maker, [names EXCEPT !.leaf = "child"])
    /\ UNCHANGED <<flushed, removal, knows, failures>> /\ Creating

Identify ==
    /\ make = "identify"
    /\ \/ Becoming("open") /\ Known(Maker) /\ UNCHANGED <<removal, alone, failures>>
       \/ /\ CallFails                      \* _settle_directory_created_before_identity
          /\ \/ Becoming("settle") /\ Begin(Maker) /\ Known(Maker)
             \/ Becoming("unknown") /\ UNCHANGED <<removal, knows, alone>>
    /\ UNCHANGED <<names, flushed>> /\ Creating

\* A file that cannot be identified is left where it is, under an error that
\* does not say so, and so is a directory that cannot the second time.
Open ==
    /\ make = "open"
    /\ \/ Becoming("flush") /\ Known(Maker) /\ UNCHANGED <<removal, alone, failures>>
       \/ /\ CallFails
          /\ \/ kind.directory /\ Becoming("settle") /\ Begin(Maker)
             \/ Becoming("anonymous") /\ UNCHANGED <<removal, alone>>
          /\ UNCHANGED knows
    /\ UNCHANGED <<names, flushed>> /\ Creating

FlushCreated ==
    /\ make = "flush"
    /\ \/ Sync /\ Becoming("made") /\ Told /\ UNCHANGED <<removal, alone, failures>>
       \/ /\ CallFails /\ Becoming("undo") /\ Begin(Maker) /\ UNCHANGED <<flushed, knows>>
    /\ UNCHANGED names /\ Creating

\* The child was deleted again and the directory flushed, or the caller is told
\* which child remains (CreatedChildCleanupError).
EndUndo ==
    /\ make \in {"undo", "settle"} /\ Calls(Maker, "idle")
    /\ \/ result[Maker] # "none" /\ Sync /\ Becoming("clean") /\ UNCHANGED <<knows, failures>>
       \/ /\ result[Maker] # "gone" \/ make = "undo"
          /\ IF result[Maker] = "none" THEN UNCHANGED failures ELSE CallFails
          /\ Becoming("left") /\ Told /\ UNCHANGED flushed
    /\ UNCHANGED removal /\ Keep /\ Creating

\* Without an identity the caller opens the leaf again
\* (CreatedChildUnknownIdentityError, _remove_staged_batch_capability).
Adopt ==
    /\ make = "unknown"
    /\ IF names.leaf = "none" THEN Sync /\ Becoming("clean") /\ UNCHANGED knows
       ELSE Becoming("left") /\ Told /\ UNCHANGED flushed
    /\ UNCHANGED <<removal, failures>> /\ Keep /\ Creating

-----------------------------------------------------------------------------
(* What else happens.                                                      *)

Over == make \in {"made", "exists", "clean", "left", "unknown", "anonymous", "gone"}

\* A process that knows nothing opens the leaf (_inspect_manifest_batch,
\* inspect_document_sync).  Under its quarantine name it finds a traced child:
\* leaf and identity give that name, or the sweep reads the journal there.
Find(a) ==
    /\ a \in Removers \ knows /\ Over
    /\ names.leaf = "child" \/ (kind.traced /\ names.quarantine = "child")
    /\ knows' = knows \cup {a}
    /\ result' = [result EXCEPT ![a] = "none"]
    /\ UNCHANGED <<flushed, removal, failures>> /\ Keep /\ Still

DieHolding(a) ==
    /\ deaths < MaxDeaths /\ deaths' = deaths + 1
    /\ removal[a].pc # "idle" \/ (a = Maker /\ ~Over)
    /\ removal' = [removal EXCEPT ![a] = NoCall] /\ knows' = knows \ {a}
    /\ make' = IF a = Maker THEN "gone" ELSE make
    /\ UNCHANGED <<names, flushed, kind, result, alone, failures>>

PowerCut ==
    /\ deaths < MaxDeaths /\ deaths' = deaths + 1
    /\ make # "start" /\ make' = IF Over /\ make # "unknown" THEN make ELSE "gone"
    /\ names' = flushed
    /\ removal' = [a \in Hands |-> NoCall] /\ knows' = {} /\ alone' = {}
    /\ UNCHANGED <<flushed, kind, result, failures>>

\* Somebody else writes into the directory, which secure_fs asks them not to.
Intrude(name) ==
    /\ CallFails /\ names[name] = "none" /\ "other" \notin {names.leaf, names.quarantine}
    /\ names' = [names EXCEPT ![name] = "other"] /\ alone' = {}
    /\ UNCHANGED <<flushed, removal, knows, result>> /\ Still

Remove(a) ==
    \/ Start(a) \/ Look(a) \/ Verify(a) \/ Recheck(a) \/ Rename(a) \/ FlushRename(a)
    \/ VerifyQuarantine(a) \/ UnlinkChild(a) \/ FlushGone(a)
    \/ Restore(a) \/ RenameBack(a) \/ FlushBack(a)
    \/ ReturnToQuarantine(a) \/ RenameAgain(a)
Creation == CreateChild \/ Identify \/ Open \/ FlushCreated \/ EndUndo \/ Adopt

ChildNext ==
    \/ \E a \in Hands : Remove(a) \/ Fault(a) \/ Find(a) \/ DieHolding(a)
    \/ Creation \/ PowerCut
    \/ \E name \in {"leaf", "quarantine"} : Intrude(name)

\* A creation that began goes on; a deletion too, and one that failed is tried
\* again by whoever holds the obligation (sweep_stale_staging,
\* retry_pending_attachment_cleanups).
ChildFairness ==
    /\ WF_childVars(Creation /\ make # "start")
    /\ \A a \in Hands : WF_childVars(Remove(a)) /\ WF_childVars(Find(a))

ChildSpec == ChildInit /\ [][ChildNext]_childVars /\ ChildFairness

-----------------------------------------------------------------------------
(* What a deletion promises.                                               *)

Under(thing) == thing \in {names.leaf, names.quarantine}

\* A deletion that had the directory to itself and returned is final: the child
\* is under neither name and would not be after a power cut, whatever earlier
\* attempts and failed flushes left behind (_quarantine_delete) ...
DeletedIsGone ==
    \A a \in Hands : result[a] = "gone" =>
        ~Under("child") /\ "child" \notin {flushed.leaf, flushed.quarantine}

\* ... and it never removes or replaces what is not the child.
OthersKept ==
    \A a \in Hands :
        a \in alone /\ removal'[a] # removal[a] /\ deaths' = deaths /\ Under("other") =>
            Under("other")'

DeletesExactly == [][DeletedIsGone' /\ OthersKept]_childVars

\* The child goes in the end, unless something else has taken one of its names:
\* failed attempts, crashes and lost identities leave it where a later attempt
\* looks (_posix_quarantine_leaf, _remove_quarantined_recovery_journal).  But an
\* untraced child is left under its quarantine name for ever when whoever put
\* it there died, and the others who knew it have died or took it for gone.
Stranded ==
    /\ ~kind.traced /\ names.leaf = "none"
    /\ \A a \in Removers \cap knows : result[a] # "none"

ChildGoes == <>[](Under("child") => Under("other") \/ Stranded)

=============================================================================
