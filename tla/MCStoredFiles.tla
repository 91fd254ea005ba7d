--------------------------- MODULE MCStoredFiles ---------------------------
(* What the process keeps on disk for a session: uploads being staged, the *)
(* files and directories everything is stored in, and images.  They share  *)
(* no state; a behaviour of the run is one of one of them, the two others  *)
(* keep the state they start in, where no action of theirs is fair.        *)
EXTENDS AttachmentStaging, SecureFiles, MediaAssets

VARIABLE part

StoredInit ==
    /\ part \in {"uploads", "child", "images"}
    /\ Init /\ ChildInit /\ ImagesInit
    /\ part # "child" => kind = [directory |-> FALSE, traced |-> TRUE]

StoredNext ==
    /\ UNCHANGED part
    /\ \/ part = "uploads" /\ Next /\ UNCHANGED <<childVars, mvars>>
       \/ part = "child" /\ ChildNext /\ UNCHANGED <<vars, mvars>>
       \/ part = "images" /\ ImagesNext /\ UNCHANGED <<vars, childVars>>

StoredSpec ==
    /\ StoredInit /\ [][StoredNext]_<<part, vars, childVars, mvars>>
    /\ Fairness /\ ChildFairness

TypeOK == ChildTypeOK /\ ImagesTypeOK

=============================================================================
