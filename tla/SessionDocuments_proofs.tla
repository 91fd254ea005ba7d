------------------------- MODULE SessionDocuments_proofs -------------------------
(***************************************************************************)
(* Proofs about the documents of one session, for every number of turns,    *)
(* requests and crashes and every quota, and about the sessions of a user. *)
(*                                                                         *)
(* The four stores are written one at a time by turns, requests and the    *)
(* maintenance loop.  The invariant says of each document where its turn   *)
(* is and what that turn may still write (DocumentHeld), of each request   *)
(* what it has listed (RequestHeld), and of the loop what it has taken     *)
(* (RecoveryHeld); nobody releases the token of a document whose bytes     *)
(* another still writes.  Second, the history: which documents it will not *)
(* name again (Lost), so that their bytes may go.  Of a document that a    *)
(* request listed too late (outrun) neither says anything.                 *)
(***************************************************************************)
EXTENDS SessionDocuments, ChatSessions, FiniteSetTheorems, TLAPS

States   == {"active", "clearing", "deleting", "none"}
Tokens   == {"none", "pending", "adopting", "committed"}
Statuses == {"none", "intent", "pending", "ready", "adopted", "reconciling"}
Coming   == {"intent", "reserve", "mark", "adopt"}
Making   == {"create", "write"}
Bare     == {"idle", "bind", "create", "undo row", "undo ledger", "rb row",
             "rb ledger"} \cup Coming
TurnPlaces == {"finalize", "save", "mark adopted", "commit", "answer", "rb file",
               "done", "dead"} \cup Making \cup Bare
RequestPlaces == {"idle", "chat", "find", "list", "file", "row", "ledger", "finish"}
LoopPlaces == {"idle", "inspect", "ready", "adopted", "commit", "file", "row", "ledger"}

Bindings == [state: States, gen: Nat, count: Nat, ledger: [Docs -> Tokens]]

RequestStates ==
    [pc: RequestPlaces, todo: SUBSET Docs, doc: Docs \cup {NoDoc}, status: Statuses]

Typed ==
    /\ own \in Bindings
    /\ row \in [Docs -> Statuses]
    /\ file \in [Docs -> {"none", "torn", "whole"}]
    /\ turn \in [Docs -> TurnPlaces]
    /\ gen \in [Docs -> Nat]
    /\ seen \in [Docs -> Statuses]
    /\ req \in [Requests -> RequestStates]
    /\ moved \in [Requests -> SUBSET {"self", "other", "begin"}]
    /\ rec \in [pc: LoopPlaces, doc: Docs \cup {NoDoc}]
    /\ straddled \subseteq Docs
    /\ outrun \subseteq Docs
    /\ crashes \in Nat

-----------------------------------------------------------------------------
(* The invariant.                                                          *)

\* A turn that has not made its file is of an earlier generation than the one
\* a request is clearing, one that makes it is of the current generation and
\* has the lease and the row the file will need.
DocumentHeld(d) == d \in outrun \/
    /\ turn[d] \in Coming =>
          /\ gen[d] <= own.gen
          /\ own.state # "active" => gen[d] < own.gen
    /\ turn[d] = "adopt" /\ gen[d] = own.gen => row[d] = "pending"
    /\ turn[d] \in Making =>
          /\ own.state = "active" /\ own.gen = gen[d]
          /\ own.ledger[d] = "adopting" /\ row[d] = "pending"
    /\ turn[d] \in {"idle", "bind", "intent"} => row[d] = "none"
    /\ turn[d] \in Bare => file[d] = "none"
    /\ file[d] # "none" =>
          own.ledger[d] \in {"adopting", "committed"} /\ row[d] # "none"

\* What a request has listed is not going to be written any more, and while its
\* token is good no other file is left.
Listed(r) == req[r].todo \cup ({req[r].doc} \cap Docs)

RequestHeld(r) ==
    /\ \A d \in Listed(r) \ outrun :
          /\ turn[d] \notin Making \cup {"idle", "bind"}
          /\ turn[d] \in Coming => gen[d] < own.gen
    /\ req[r].pc \in {"row", "ledger"} => 
          req[r].doc \in Docs /\ (req[r].doc \in outrun \/ file[req[r].doc] = "none")
    /\ req[r].pc = "finish" => req[r].todo = {}
    /\ /\ req[r].pc \in {"file", "row", "ledger", "finish"}
       /\ moved[r] = {} /\ own.state = Lifecycle(r)
       => \A d \in Docs \ outrun : file[d] # "none" => d \in req[r].todo

\* What the loop has taken is not between the adoption of its lease and that
\* of its document, and will not come there.
RecoveryHeld ==
    rec.pc # "idle" =>
        /\ rec.doc \in Docs
        /\ \/ rec.doc \in outrun
           \/ /\ turn[rec.doc] \notin Making \cup {"idle", "bind", "intent", "adopt"}
              /\ turn[rec.doc] \in {"reserve", "mark"} => row[rec.doc] # "intent"
              /\ rec.pc \in {"row", "ledger"} => file[rec.doc] = "none"

\* The quota, of a ledger and its counter.
Holding(ledger)   == {d \in Docs : ledger[d] # "none"}
Committed(ledger) == {d \in Docs : ledger[d] = "committed"}
Counted(ledger, count) ==
    /\ IsFiniteSet(Holding(ledger))
    /\ Cardinality(Holding(ledger)) <= Quota
    /\ count = Cardinality(Committed(ledger))

QuotaInv == /\ Typed
            /\ \A d \in Docs : DocumentHeld(d)
            /\ \A r \in Requests : RequestHeld(r)
            /\ RecoveryHeld
            /\ Counted(own.ledger, own.count)

-----------------------------------------------------------------------------
(* The ledger.                                                             *)

LEMMA OwnType ==
    ASSUME Typed
    PROVE  /\ own = [state |-> own.state, gen |-> own.gen, count |-> own.count,
                     ledger |-> own.ledger]
           /\ own.state \in States /\ own.gen \in Nat /\ own.count \in Nat
           /\ own.ledger \in [Docs -> Tokens]
  BY DEF Typed, Bindings

\* What a step that writes the token of one document leaves of the rest.
Touched == \A r \in Requests : req[r].pc # "idle" => moved'[r] # {}

LedgerStep(d) ==
    /\ own' \in Bindings
    /\ moved' \in [Requests -> SUBSET {"self", "other", "begin"}]
    /\ own'.state = own.state /\ own'.gen = own.gen
    /\ \A e \in Docs \ {d} :
          \/ own'.ledger[e] = own.ledger[e]
          \/ own.ledger[e] = "pending" /\ own'.ledger[e] = "none"
    /\ Counted(own'.ledger, own'.count)
    /\ moved' = moved \/ Touched

LEMMA CasMoves ==
    ASSUME Typed, NEW actor, NEW value, Cas(actor, value)
    PROVE  /\ own' = value
           /\ moved' \in [Requests -> SUBSET {"self", "other", "begin"}]
           /\ Touched
  BY DEF Cas, Typed, Touched

LEMMA Unmoved ==
    ASSUME Typed, NEW d \in Docs, Counted(own.ledger, own.count),
           UNCHANGED <<own, moved>>
    PROVE  LedgerStep(d)
  BY DEF LedgerStep, Typed

\* The three ways a single token changes.
LEMMA FreesPending ==
    ASSUME NEW ledger \in [Docs -> Tokens], NEW count \in Nat, NEW d \in Docs,
           Counted(ledger, count), ledger[d] \in {"pending", "adopting"}
    PROVE  Counted([ledger EXCEPT ![d] = "none"], count)
  <1> DEFINE after == [ledger EXCEPT ![d] = "none"]
  <1>1. Holding(after) = Holding(ledger) \ {d}
    BY DEF Holding
  <1>2. Committed(after) = Committed(ledger)
    BY DEF Committed, Tokens
  <1>3. IsFiniteSet(Holding(ledger)) /\ Cardinality(Holding(ledger)) <= Quota
    BY DEF Counted
  <1>4. /\ IsFiniteSet(Holding(after))
        /\ Cardinality(Holding(after)) = Cardinality(Holding(ledger)) - 1
    BY <1>1, <1>3, FS_RemoveElement DEF Holding
  <1>5. Cardinality(Holding(ledger)) \in Nat
    BY <1>3, FS_CardinalityType
  <1>6. Cardinality(Holding(after)) <= Quota
    BY <1>3, <1>4, <1>5, SessionAssumption
  <1> QED
    BY <1>2, <1>4, <1>6 DEF Counted

LEMMA Counts ==
    ASSUME NEW ledger \in [Docs -> Tokens], NEW count, Counted(ledger, count)
    PROVE  /\ IsFiniteSet(Holding(ledger)) /\ IsFiniteSet(Committed(ledger))
           /\ Cardinality(Holding(ledger)) \in Nat
           /\ Cardinality(Committed(ledger)) \in Nat
           /\ Cardinality(Holding(ledger)) <= Quota
           /\ count = Cardinality(Committed(ledger))
           /\ Quota \in Nat
  <1>1. Committed(ledger) \in SUBSET Holding(ledger)
    BY DEF Committed, Holding
  <1> QED
    BY <1>1, FS_Subset, FS_CardinalityType, SessionAssumption DEF Counted

LEMMA FreesCommitted ==
    ASSUME NEW ledger \in [Docs -> Tokens], NEW count \in Nat, NEW d \in Docs,
           Counted(ledger, count), ledger[d] = "committed"
    PROVE  Counted([ledger EXCEPT ![d] = "none"], count - 1)
  <1> DEFINE after == [ledger EXCEPT ![d] = "none"]
  <1>1. Holding(after) = Holding(ledger) \ {d} /\ d \in Holding(ledger)
    BY DEF Holding
  <1>2. Committed(after) = Committed(ledger) \ {d} /\ d \in Committed(ledger)
    BY DEF Committed
  <1>. IsFiniteSet(Holding(ledger)) /\ IsFiniteSet(Committed(ledger))
    BY Counts
  <1>3. /\ IsFiniteSet(Holding(after))
        /\ Cardinality(Holding(after)) = Cardinality(Holding(ledger)) - 1
    BY <1>1, FS_RemoveElement
  <1>4. Cardinality(Committed(after)) = Cardinality(Committed(ledger)) - 1
    BY <1>2, FS_RemoveElement
  <1>5. Cardinality(Holding(after)) <= Quota
    BY <1>3, Counts
  <1>6. count - 1 = Cardinality(Committed(after))
    BY <1>4, Counts
  <1> QED
    BY <1>3, <1>5, <1>6 DEF Counted

LEMMA Commits ==
    ASSUME NEW ledger \in [Docs -> Tokens], NEW count \in Nat, NEW d \in Docs,
           Counted(ledger, count), ledger[d] = "adopting"
    PROVE  Counted([ledger EXCEPT ![d] = "committed"], count + 1)
  <1> DEFINE after == [ledger EXCEPT ![d] = "committed"]
  <1>1. Holding(after) = Holding(ledger)
    BY DEF Holding
  <1>2. Committed(after) = Committed(ledger) \cup {d} /\ d \notin Committed(ledger)
    BY DEF Committed
  <1>3. Cardinality(Committed(after)) = Cardinality(Committed(ledger)) + 1
    BY <1>2, Counts, FS_AddElement
  <1>4. count + 1 = Cardinality(Committed(after))
    BY <1>3, Counts
  <1> QED
    BY <1>1, <1>4 DEF Counted

LEMMA Adopts ==
    ASSUME NEW ledger \in [Docs -> Tokens], NEW count \in Nat, NEW d \in Docs,
           Counted(ledger, count), ledger[d] = "pending"
    PROVE  Counted([ledger EXCEPT ![d] = "adopting"], count)
  <1> DEFINE after == [ledger EXCEPT ![d] = "adopting"]
  <1>1. Holding(after) = Holding(ledger)
    BY DEF Holding
  <1>2. Committed(after) = Committed(ledger)
    BY DEF Committed
  <1> QED
    BY <1>1, <1>2 DEF Counted

\* A reservation drops leases that ran out and takes what room there is.
LEMMA Reserves ==
    ASSUME Typed, Counted(own.ledger, own.count), NEW d \in Docs,
           NEW gone \in SUBSET Pending, own.ledger[d] = "none", Room(gone)
    PROVE  Counted([Without(gone) EXCEPT ![d] = "pending"], own.count)
  <1> DEFINE after == [Without(gone) EXCEPT ![d] = "pending"]
             kept  == Uncommitted \ gone
             C     == Committed(own.ledger)
  <1>0. own.ledger \in [Docs -> Tokens]
    BY OwnType
  <1>1. Holding(after) = (C \cup kept) \cup {d} /\ d \notin C \cup kept
    BY <1>0 DEF Holding, Committed, Uncommitted, Without, Pending, Tokens
  <1>2. Committed(after) = C
    BY <1>0 DEF Committed, Without, Pending, Tokens
  <1>3. kept \in SUBSET Holding(own.ledger) /\ C \cap kept = {}
    BY DEF Holding, Uncommitted, Committed
  <1>4. IsFiniteSet(kept) /\ IsFiniteSet(C) /\ Cardinality(kept) \in Nat
    BY <1>0, <1>3, Counts, FS_Subset, FS_CardinalityType
  <1>5. own.count = Cardinality(C) /\ own.count \in Nat /\ Quota \in Nat
    BY <1>0, Counts, OwnType
  <1>6. Cardinality(C \cap kept) = 0
    BY <1>3, FS_EmptySet
  <1> HIDE DEF C, kept, after
  <1>7. /\ IsFiniteSet(C \cup kept)
        /\ Cardinality(C \cup kept)
             = Cardinality(C) + Cardinality(kept) - Cardinality(C \cap kept)
    BY <1>4, FS_Union
  <1>8. /\ IsFiniteSet(Holding(after))
        /\ Cardinality(Holding(after)) = Cardinality(C \cup kept) + 1
    <2>1. /\ IsFiniteSet((C \cup kept) \cup {d})
          /\ Cardinality((C \cup kept) \cup {d}) = Cardinality(C \cup kept) + 1
      BY <1>1, <1>7, FS_AddElement
    <2> QED
      BY <1>1, <2>1
  <1>9. own.count + Cardinality(kept) < Quota
    BY DEF Room, kept
  <1>10. Cardinality(Holding(after)) <= Quota
    BY <1>4, <1>5, <1>6, <1>7, <1>8, <1>9
  <1> QED
    BY <1>2, <1>5, <1>8, <1>10 DEF Counted, C, after

\* The leases that ran out when a clear or delete begins, and the empty ledger
\* that ends one.
LEMMA DropsPending ==
    ASSUME Typed, Counted(own.ledger, own.count)
    PROVE  Counted(Without(Pending), own.count)
  <1>0. own.ledger \in [Docs -> Tokens]
    BY OwnType
  <1>1. Holding(Without(Pending)) \in SUBSET Holding(own.ledger)
    BY <1>0 DEF Holding, Without
  <1>2. Committed(Without(Pending)) = Committed(own.ledger)
    BY <1>0 DEF Committed, Without, Pending
  <1>3. /\ IsFiniteSet(Holding(Without(Pending)))
        /\ Cardinality(Holding(Without(Pending))) <= Cardinality(Holding(own.ledger))
        /\ Cardinality(Holding(Without(Pending))) \in Nat
    BY <1>0, <1>1, Counts, FS_Subset, FS_CardinalityType
  <1>4. Cardinality(Holding(Without(Pending))) <= Quota
    BY <1>0, <1>3, Counts, SessionAssumption
  <1> QED
    BY <1>0, <1>2, <1>3, <1>4, Counts DEF Counted

LEMMA EmptyLedger == Counted([d \in Docs |-> "none"], 0)
  <1>1. /\ Holding([d \in Docs |-> "none"]) = {}
        /\ Committed([d \in Docs |-> "none"]) = {}
    BY DEF Holding, Committed
  <1> QED
    BY <1>1, FS_EmptySet, SessionAssumption DEF Counted

\* Hence what the operators of the ledger do.
LEMMA CasSteps ==
    ASSUME Typed, NEW actor, NEW d \in Docs, NEW token \in Tokens, NEW count \in Nat,
           Cas(actor, [own EXCEPT !.ledger[d] = token, !.count = count]),
           Counted([own.ledger EXCEPT ![d] = token], count)
    PROVE  LedgerStep(d) /\ own'.ledger[d] = token
  <1>1. /\ own' = [own EXCEPT !.ledger[d] = token, !.count = count]
        /\ moved' \in [Requests -> SUBSET {"self", "other", "begin"}]
        /\ Touched
    BY CasMoves
  <1>2. /\ own' \in Bindings
        /\ own'.state = own.state /\ own'.gen = own.gen /\ own'.count = count
        /\ own'.ledger = [own.ledger EXCEPT ![d] = token]
    BY <1>1, OwnType DEF Bindings
  <1>3. own.ledger \in [Docs -> Tokens]
    BY OwnType
  <1> QED
    BY <1>1, <1>2, <1>3 DEF LedgerStep

LEMMA ReservationReleased ==
    ASSUME Typed, Counted(own.ledger, own.count), NEW actor, NEW d \in Docs,
           ReleaseReservation(actor, d)
    PROVE  LedgerStep(d)
  <1>1. CASE UNCHANGED <<own, moved>>
    BY <1>1, Unmoved
  <1>2. CASE /\ own.ledger[d] \in {"pending", "adopting"}
             /\ Cas(actor, [own EXCEPT !.ledger[d] = "none"])
    <2>1. [own EXCEPT !.ledger[d] = "none"]
            = [own EXCEPT !.ledger[d] = "none", !.count = own.count]
      BY OwnType
    <2>2. Counted([own.ledger EXCEPT ![d] = "none"], own.count)
      BY <1>2, OwnType, FreesPending
    <2> QED
      BY <1>2, <2>1, <2>2, OwnType, CasSteps DEF Tokens
  <1> QED
    BY <1>1, <1>2 DEF ReleaseReservation

LEMMA DocumentReleased ==
    ASSUME Typed, Counted(own.ledger, own.count), NEW actor, NEW d \in Docs,
           ReleaseDocument(actor, d)
    PROVE  LedgerStep(d)
  <1>1. CASE UNCHANGED <<own, moved>>
    BY <1>1, Unmoved
  <1>2. CASE /\ own.ledger[d] = "committed" /\ own.count > 0
             /\ Cas(actor, [own EXCEPT !.ledger[d] = "none", !.count = @ - 1])
    <2>1. Counted([own.ledger EXCEPT ![d] = "none"], own.count - 1)
      BY <1>2, OwnType, FreesCommitted
    <2>2. own.count - 1 \in Nat
      BY <1>2, OwnType
    <2>3. Cas(actor, [own EXCEPT !.ledger[d] = "none", !.count = own.count - 1])
      BY <1>2
    <2> QED
      BY <2>1, <2>2, <2>3, CasSteps DEF Tokens
  <1> QED
    BY <1>1, <1>2 DEF ReleaseDocument

LEMMA Released ==
    ASSUME Typed, Counted(own.ledger, own.count), NEW actor, NEW d \in Docs, NEW status,
           Release(actor, d, status)
    PROVE  LedgerStep(d)
  BY ReservationReleased, DocumentReleased DEF Release

LEMMA Committing ==
    ASSUME Typed, Counted(own.ledger, own.count), NEW actor, NEW d \in Docs,
           own.ledger[d] \in {"adopting", "committed"}, Commit(actor, d)
    PROVE  LedgerStep(d) /\ own'.ledger[d] = "committed"
  <1>1. CASE own.ledger[d] = "committed" /\ UNCHANGED <<own, moved>>
    BY <1>1, Unmoved
  <1>2. CASE /\ own.ledger[d] = "adopting"
             /\ Cas(actor, [own EXCEPT !.ledger[d] = "committed", !.count = @ + 1])
    <2>1. Counted([own.ledger EXCEPT ![d] = "committed"], own.count + 1)
      BY <1>2, OwnType, Commits
    <2>2. own.count + 1 \in Nat
      BY OwnType
    <2>3. Cas(actor, [own EXCEPT !.ledger[d] = "committed", !.count = own.count + 1])
      BY <1>2
    <2> QED
      BY <2>1, <2>2, <2>3, CasSteps DEF Tokens
  <1> QED
    BY <1>1, <1>2 DEF Commit

-----------------------------------------------------------------------------
(* Most steps are about one document: the others keep their state, and what *)
(* remains to be said is about that one.                                    *)

About(d) ==
    /\ Typed'
    /\ LedgerStep(d)
    /\ outrun' = outrun
    /\ \A e \in Docs \ {d} : /\ turn'[e] = turn[e] /\ gen'[e] = gen[e]
                             /\ row'[e] = row[e] /\ file'[e] = file[e]

LEMMA OthersHeld ==
    ASSUME \A e \in Docs : DocumentHeld(e), NEW d \in Docs, About(d)
    PROVE  \A e \in Docs \ {d} : DocumentHeld(e)'
  <1> SUFFICES ASSUME NEW e \in Docs \ {d}
               PROVE  DocumentHeld(e)'
    OBVIOUS
  <1>1. /\ turn'[e] = turn[e] /\ gen'[e] = gen[e]
        /\ row'[e] = row[e] /\ file'[e] = file[e]
        /\ own'.state = own.state /\ own'.gen = own.gen /\ outrun' = outrun
        /\ own.ledger[e] \in {"adopting", "committed"} => own'.ledger[e] = own.ledger[e]
    BY DEF About, LedgerStep
  <1>2. DocumentHeld(e)
    OBVIOUS
  <1> QED
    BY <1>1, <1>2 DEF DocumentHeld

\* What a document must not become while a request or the loop has it in hand.
Untaken(d) ==
    \/ d \in outrun
    \/ /\ turn'[d] \notin Making \cup {"idle", "bind"}
       /\ turn'[d] \in Coming => gen'[d] < own.gen

LEMMA RequestStays ==
    ASSUME Typed, NEW d \in Docs, About(d), NEW q \in Requests, RequestHeld(q),
           req'[q] = req[q],
           d \in Listed(q) => Untaken(d),
           file'[d] # "none" /\ d \notin outrun =>
               file[d] # "none" \/ (d \notin Listed(q) /\ own.state = "active")
    PROVE  RequestHeld(q)'
  <1>1. own'.state = own.state /\ own'.gen = own.gen /\ outrun' = outrun
    BY DEF About, LedgerStep
  <1>2. \A e \in Docs \ {d} : /\ turn'[e] = turn[e] /\ gen'[e] = gen[e]
                              /\ file'[e] = file[e]
    BY DEF About
  <1>3. Listed(q)' = Listed(q) /\ Listed(q) \subseteq Docs
    BY DEF Listed, Typed, RequestStates
  <1>4. \A e \in Listed(q)' \ outrun :
           /\ turn'[e] \notin Making \cup {"idle", "bind"}
           /\ turn'[e] \in Coming => gen'[e] < own'.gen
    BY <1>1, <1>2, <1>3 DEF RequestHeld, Untaken
  <1>5. req'[q].pc \in {"row", "ledger"} =>
            req'[q].doc \in Docs /\ (req'[q].doc \in outrun \/ file'[req'[q].doc] = "none")
    BY <1>2 DEF RequestHeld, Listed
  <1>6. req'[q].pc = "finish" => req'[q].todo = {}
    BY DEF RequestHeld
  <1>7. ASSUME req'[q].pc \in {"file", "row", "ledger", "finish"}, moved'[q] = {},
               own'.state = Lifecycle(q), NEW e \in Docs \ outrun, file'[e] # "none"
        PROVE  e \in req'[q].todo
    <2>1. moved[q] = {}
      BY <1>7 DEF About, LedgerStep, Touched
    <2>2. own.state # "active"
      BY <1>1, <1>7 DEF Lifecycle
    <2>3. file[e] # "none"
      BY <1>2, <1>7, <2>2
    <2> QED
      BY <1>1, <1>7, <2>1, <2>3 DEF RequestHeld
  <1>8. outrun' = outrun /\ Lifecycle(q)' = Lifecycle(q)
    BY <1>1 DEF Lifecycle
  <1> QED
    BY <1>4, <1>5, <1>6, <1>7, <1>8 DEF RequestHeld

LEMMA LoopStays ==
    ASSUME RecoveryHeld, NEW d \in Docs, About(d), rec' = rec,
           rec.pc # "idle" /\ rec.doc = d /\ d \notin outrun =>
               /\ turn'[d] \notin Making \cup {"idle", "bind", "intent", "adopt"}
               /\ turn'[d] \in {"reserve", "mark"} => row'[d] # "intent"
               /\ file'[d] # "none" => file[d] # "none"
    PROVE  RecoveryHeld'
  <1>1. /\ outrun' = outrun
        /\ \A e \in Docs \ {d} : /\ turn'[e] = turn[e] /\ row'[e] = row[e]
                                  /\ file'[e] = file[e]
    BY DEF About
  <1> QED
    BY <1>1 DEF RecoveryHeld

\* A step of the turn of a document.
LEMMA TurnHeld ==
    ASSUME QuotaInv, NEW d \in Docs, About(d), req' = req, rec' = rec,
           DocumentHeld(d)',
           \A q \in Requests : d \in Listed(q) => Untaken(d),
           file'[d] # "none" /\ d \notin outrun =>
               \/ file[d] # "none"
               \/ own.state = "active" /\ \A q \in Requests : d \notin Listed(q),
           rec.pc # "idle" /\ rec.doc = d /\ d \notin outrun =>
               /\ turn'[d] \notin Making \cup {"idle", "bind", "intent", "adopt"}
               /\ turn'[d] \in {"reserve", "mark"} => row'[d] # "intent"
               /\ file'[d] # "none" => file[d] # "none"
    PROVE  QuotaInv'
  <1>1. Typed' /\ Counted(own.ledger, own.count)'
    BY DEF About, LedgerStep, Counted, Holding, Committed
  <1>2. \A e \in Docs : DocumentHeld(e)'
    BY OthersHeld DEF QuotaInv
  <1>3. \A q \in Requests : RequestHeld(q)'
    BY RequestStays DEF QuotaInv
  <1>4. RecoveryHeld'
    BY LoopStays DEF QuotaInv
  <1> QED
    BY <1>1, <1>2, <1>3, <1>4 DEF QuotaInv

-----------------------------------------------------------------------------
(* The steps of a turn.                                                    *)

USE DEF Making, Bare, Coming, TurnPlaces, Statuses, Go

LEMMA ResolveHeld ==
    ASSUME QuotaInv, NEW d \in Docs, Resolve(d)
    PROVE  QuotaInv'
  <1>1. /\ UNCHANGED <<own, moved, req, rec, outrun>>
        /\ \A e \in Docs \ {d} : /\ turn'[e] = turn[e] /\ gen'[e] = gen[e]
                                  /\ row'[e] = row[e] /\ file'[e] = file[e]
    BY DEF QuotaInv, Typed, Resolve, store
  <1>2. Typed'
    BY DEF QuotaInv, Typed, Resolve, store
  <1>3. About(d)
    BY <1>1, <1>2, Unmoved DEF QuotaInv, About
  <1>4. /\ turn[d] = "idle"
        /\ turn'[d] = "bind"
        /\ row'[d] = row[d]
        /\ file'[d] = file[d]
        /\ gen'[d] = gen[d]
    BY DEF QuotaInv, Typed, Resolve, store
  <1>5. DocumentHeld(d)'
    BY <1>1, <1>4, OwnType DEF QuotaInv, DocumentHeld
  <1>6. \A q \in Requests : d \in Listed(q) => Untaken(d)
    BY <1>1, <1>4 DEF QuotaInv, RequestHeld, Untaken
  <1>7. /\ file'[d] # "none" => file[d] # "none"
        /\ rec.pc # "idle" /\ rec.doc = d /\ d \notin outrun =>
              /\ turn'[d] \notin Making \cup {"idle", "bind", "intent", "adopt"}
              /\ turn'[d] \in {"reserve", "mark"} => row'[d] # "intent"
    BY <1>4 DEF QuotaInv, RecoveryHeld
  <1> QED
    BY <1>1, <1>3, <1>5, <1>6, <1>7, TurnHeld

LEMMA ReadBindingHeld ==
    ASSUME QuotaInv, NEW d \in Docs, ReadBinding(d)
    PROVE  QuotaInv'
  <1>. own.gen \in Nat
    BY OwnType DEF QuotaInv
  <1>1. /\ UNCHANGED <<own, moved, req, rec, outrun>>
        /\ \A e \in Docs \ {d} : /\ turn'[e] = turn[e] /\ gen'[e] = gen[e]
                                  /\ row'[e] = row[e] /\ file'[e] = file[e]
    BY DEF QuotaInv, Typed, ReadBinding, store
  <1>2. Typed'
    BY DEF QuotaInv, Typed, ReadBinding, store
  <1>3. About(d)
    BY <1>1, <1>2, Unmoved DEF QuotaInv, About
  <1>4. /\ turn[d] = "bind"
        /\ turn'[d] = IF own.state = "active" THEN "intent" ELSE "done"
        /\ row'[d] = row[d]
        /\ file'[d] = file[d]
        /\ gen'[d] = own.gen
    BY DEF QuotaInv, Typed, ReadBinding, store
  <1>. DocumentHeld(d)
    BY DEF QuotaInv
  <1>5. DocumentHeld(d)'
    BY <1>1, <1>4 DEF DocumentHeld
  <1>6. \A q \in Requests : d \in Listed(q) => Untaken(d)
    BY <1>1, <1>4 DEF QuotaInv, RequestHeld, Untaken
  <1>7. /\ file'[d] # "none" => file[d] # "none"
        /\ rec.pc # "idle" /\ rec.doc = d /\ d \notin outrun =>
              /\ turn'[d] \notin Making \cup {"idle", "bind", "intent", "adopt"}
              /\ turn'[d] \in {"reserve", "mark"} => row'[d] # "intent"
    BY <1>4 DEF QuotaInv, RecoveryHeld
  <1> QED
    BY <1>1, <1>3, <1>5, <1>6, <1>7, TurnHeld

LEMMA SaveIntentHeld ==
    ASSUME QuotaInv, NEW d \in Docs, SaveIntent(d)
    PROVE  QuotaInv'
  <1>1. /\ UNCHANGED <<own, moved, req, rec, outrun>>
        /\ \A e \in Docs \ {d} : /\ turn'[e] = turn[e] /\ gen'[e] = gen[e]
                                  /\ row'[e] = row[e] /\ file'[e] = file[e]
    BY DEF QuotaInv, Typed, SaveIntent, store
  <1>2. Typed'
    BY DEF QuotaInv, Typed, SaveIntent, store
  <1>3. About(d)
    BY <1>1, <1>2, Unmoved DEF QuotaInv, About
  <1>4. /\ turn[d] = "intent"
        /\ turn'[d] = "reserve"
        /\ row'[d] = "intent"
        /\ file'[d] = file[d]
        /\ gen'[d] = gen[d]
    BY DEF QuotaInv, Typed, SaveIntent, store
  <1>5. DocumentHeld(d)'
    BY <1>1, <1>4, OwnType DEF QuotaInv, DocumentHeld
  <1>6. \A q \in Requests : d \in Listed(q) => Untaken(d)
    BY <1>1, <1>4 DEF QuotaInv, RequestHeld, Untaken
  <1>7. /\ file'[d] # "none" => file[d] # "none"
        /\ rec.pc # "idle" /\ rec.doc = d /\ d \notin outrun =>
              /\ turn'[d] \notin Making \cup {"idle", "bind", "intent", "adopt"}
              /\ turn'[d] \in {"reserve", "mark"} => row'[d] # "intent"
    BY <1>4 DEF QuotaInv, RecoveryHeld
  <1> QED
    BY <1>1, <1>3, <1>5, <1>6, <1>7, TurnHeld

LEMMA MarkPendingHeld ==
    ASSUME QuotaInv, NEW d \in Docs, MarkPending(d)
    PROVE  QuotaInv'
  <1>1. /\ UNCHANGED <<own, moved, req, rec, outrun>>
        /\ \A e \in Docs \ {d} : /\ turn'[e] = turn[e] /\ gen'[e] = gen[e]
                                  /\ row'[e] = row[e] /\ file'[e] = file[e]
    BY DEF QuotaInv, Typed, MarkPending, store
  <1>2. Typed'
    BY DEF QuotaInv, Typed, MarkPending, store
  <1>3. About(d)
    BY <1>1, <1>2, Unmoved DEF QuotaInv, About
  <1>4. /\ turn[d] = "mark"
        /\ turn'[d] = IF row[d] = "intent" THEN "adopt" ELSE "undo row"
        /\ row'[d] = IF row[d] = "intent" THEN "pending" ELSE row[d]
        /\ file'[d] = file[d]
        /\ gen'[d] = gen[d]
    BY DEF QuotaInv, Typed, MarkPending, store
  <1>5. DocumentHeld(d)'
    BY <1>1, <1>4, OwnType DEF QuotaInv, DocumentHeld
  <1>6. \A q \in Requests : d \in Listed(q) => Untaken(d)
    BY <1>1, <1>4 DEF QuotaInv, RequestHeld, Untaken
  <1>7. /\ file'[d] # "none" => file[d] # "none"
        /\ rec.pc # "idle" /\ rec.doc = d /\ d \notin outrun =>
              /\ turn'[d] \notin Making \cup {"idle", "bind", "intent", "adopt"}
              /\ turn'[d] \in {"reserve", "mark"} => row'[d] # "intent"
    BY <1>4 DEF QuotaInv, RecoveryHeld
  <1> QED
    BY <1>1, <1>3, <1>5, <1>6, <1>7, TurnHeld

LEMMA UndoRowHeld ==
    ASSUME QuotaInv, NEW d \in Docs, UndoRow(d)
    PROVE  QuotaInv'
  <1>1. /\ UNCHANGED <<own, moved, req, rec, outrun>>
        /\ \A e \in Docs \ {d} : /\ turn'[e] = turn[e] /\ gen'[e] = gen[e]
                                  /\ row'[e] = row[e] /\ file'[e] = file[e]
    BY DEF QuotaInv, Typed, UndoRow, store
  <1>2. Typed'
    BY DEF QuotaInv, Typed, UndoRow, store
  <1>3. About(d)
    BY <1>1, <1>2, Unmoved DEF QuotaInv, About
  <1>4. /\ turn[d] = "undo row"
        /\ turn'[d] = "undo ledger"
        /\ file'[d] = file[d]
        /\ gen'[d] = gen[d]
    BY DEF QuotaInv, Typed, UndoRow, store
  <1>5. DocumentHeld(d)'
    BY <1>1, <1>4, OwnType DEF QuotaInv, DocumentHeld
  <1>6. \A q \in Requests : d \in Listed(q) => Untaken(d)
    BY <1>1, <1>4 DEF QuotaInv, RequestHeld, Untaken
  <1>7. /\ file'[d] # "none" => file[d] # "none"
        /\ rec.pc # "idle" /\ rec.doc = d /\ d \notin outrun =>
              /\ turn'[d] \notin Making \cup {"idle", "bind", "intent", "adopt"}
              /\ turn'[d] \in {"reserve", "mark"} => row'[d] # "intent"
    BY <1>4 DEF QuotaInv, RecoveryHeld
  <1> QED
    BY <1>1, <1>3, <1>5, <1>6, <1>7, TurnHeld

LEMMA CreateFileHeld ==
    ASSUME QuotaInv, NEW d \in Docs, CreateFile(d)
    PROVE  QuotaInv'
  <1>1. /\ UNCHANGED <<own, moved, req, rec, outrun>>
        /\ \A e \in Docs \ {d} : /\ turn'[e] = turn[e] /\ gen'[e] = gen[e]
                                  /\ row'[e] = row[e] /\ file'[e] = file[e]
    BY DEF QuotaInv, Typed, CreateFile, store
  <1>2. Typed'
    BY DEF QuotaInv, Typed, CreateFile, store
  <1>3. About(d)
    BY <1>1, <1>2, Unmoved DEF QuotaInv, About
  <1>4. /\ turn[d] = "create"
        /\ turn'[d] = "write"
        /\ row'[d] = row[d]
        /\ file'[d] = "torn"
        /\ gen'[d] = gen[d]
    BY DEF QuotaInv, Typed, CreateFile, store
  <1>5. DocumentHeld(d)'
    BY <1>1, <1>4, OwnType DEF QuotaInv, DocumentHeld
  <1>6. d \notin outrun => \A q \in Requests : d \notin Listed(q)
    BY <1>4 DEF QuotaInv, RequestHeld
  <1>7. d \notin outrun => own.state = "active" /\ (rec.pc # "idle" => rec.doc # d)
    BY <1>4 DEF QuotaInv, DocumentHeld, RecoveryHeld
  <1>8. \A q \in Requests : d \in Listed(q) => Untaken(d)
    BY <1>6 DEF Untaken
  <1> QED
    BY <1>1, <1>3, <1>4, <1>5, <1>6, <1>7, <1>8, TurnHeld

LEMMA WriteFileHeld ==
    ASSUME QuotaInv, NEW d \in Docs, WriteFile(d)
    PROVE  QuotaInv'
  <1>1. /\ UNCHANGED <<own, moved, req, rec, outrun>>
        /\ \A e \in Docs \ {d} : /\ turn'[e] = turn[e] /\ gen'[e] = gen[e]
                                  /\ row'[e] = row[e] /\ file'[e] = file[e]
    BY DEF QuotaInv, Typed, WriteFile, store
  <1>2. Typed'
    BY DEF QuotaInv, Typed, WriteFile, store
  <1>3. About(d)
    BY <1>1, <1>2, Unmoved DEF QuotaInv, About
  <1>4. /\ turn[d] = "write"
        /\ turn'[d] = "finalize"
        /\ row'[d] = row[d]
        /\ file'[d] = "whole"
        /\ gen'[d] = gen[d]
    BY DEF QuotaInv, Typed, WriteFile, store
  <1>5. DocumentHeld(d)'
    BY <1>1, <1>4, OwnType DEF QuotaInv, DocumentHeld
  <1>6. d \notin outrun => \A q \in Requests : d \notin Listed(q)
    BY <1>4 DEF QuotaInv, RequestHeld
  <1>7. d \notin outrun => own.state = "active" /\ (rec.pc # "idle" => rec.doc # d)
    BY <1>4 DEF QuotaInv, DocumentHeld, RecoveryHeld
  <1>8. \A q \in Requests : d \in Listed(q) => Untaken(d)
    BY <1>6 DEF Untaken
  <1> QED
    BY <1>1, <1>3, <1>4, <1>5, <1>6, <1>7, <1>8, TurnHeld

LEMMA FinalizeHeld ==
    ASSUME QuotaInv, NEW d \in Docs, Finalize(d)
    PROVE  QuotaInv'
  <1>1. /\ UNCHANGED <<own, moved, req, rec, outrun>>
        /\ \A e \in Docs \ {d} : /\ turn'[e] = turn[e] /\ gen'[e] = gen[e]
                                  /\ row'[e] = row[e] /\ file'[e] = file[e]
    BY DEF QuotaInv, Typed, Finalize, store
  <1>2. Typed'
    BY DEF QuotaInv, Typed, Finalize, store
  <1>3. About(d)
    BY <1>1, <1>2, Unmoved DEF QuotaInv, About
  <1>4. /\ turn[d] = "finalize"
        /\ turn'[d] \in {"save", "rb file"}
        /\ row'[d] = IF row[d] = "pending" THEN "ready" ELSE row[d]
        /\ file'[d] = file[d]
        /\ gen'[d] = gen[d]
    BY DEF QuotaInv, Typed, Finalize, store
  <1>5. DocumentHeld(d)'
    BY <1>1, <1>4, OwnType DEF QuotaInv, DocumentHeld
  <1>6. Untaken(d)
    BY <1>4 DEF Untaken
  <1> QED
    BY <1>1, <1>3, <1>4, <1>5, <1>6, TurnHeld

LEMMA SaveHistoryHeld ==
    ASSUME QuotaInv, NEW d \in Docs, SaveHistory(d)
    PROVE  QuotaInv'
  <1>1. /\ UNCHANGED <<own, moved, req, rec, outrun>>
        /\ \A e \in Docs \ {d} : /\ turn'[e] = turn[e] /\ gen'[e] = gen[e]
                                  /\ row'[e] = row[e] /\ file'[e] = file[e]
    BY DEF QuotaInv, Typed, SaveHistory, store
  <1>2. Typed'
    BY DEF QuotaInv, Typed, SaveHistory, store
  <1>3. About(d)
    BY <1>1, <1>2, Unmoved DEF QuotaInv, About
  <1>4. /\ turn[d] = "save"
        /\ turn'[d] = "mark adopted"
        /\ row'[d] = row[d]
        /\ file'[d] = file[d]
        /\ gen'[d] = gen[d]
    BY DEF QuotaInv, Typed, SaveHistory, store
  <1>5. DocumentHeld(d)'
    BY <1>1, <1>4, OwnType DEF QuotaInv, DocumentHeld
  <1>6. Untaken(d)
    BY <1>4 DEF Untaken
  <1> QED
    BY <1>1, <1>3, <1>4, <1>5, <1>6, TurnHeld

LEMMA MarkAdoptedHeld ==
    ASSUME QuotaInv, NEW d \in Docs, MarkAdopted(d)
    PROVE  QuotaInv'
  <1>1. /\ UNCHANGED <<own, moved, req, rec, outrun>>
        /\ \A e \in Docs \ {d} : /\ turn'[e] = turn[e] /\ gen'[e] = gen[e]
                                  /\ row'[e] = row[e] /\ file'[e] = file[e]
    BY DEF QuotaInv, Typed, MarkAdopted, store
  <1>2. Typed'
    BY DEF QuotaInv, Typed, MarkAdopted, store
  <1>3. About(d)
    BY <1>1, <1>2, Unmoved DEF QuotaInv, About
  <1>4. /\ turn[d] = "mark adopted"
        /\ turn'[d] \in {"commit", "answer"}
        /\ row'[d] = IF row[d] = "ready" THEN "adopted" ELSE row[d]
        /\ file'[d] = file[d]
        /\ gen'[d] = gen[d]
    BY DEF QuotaInv, Typed, MarkAdopted, store
  <1>5. DocumentHeld(d)'
    BY <1>1, <1>4, OwnType DEF QuotaInv, DocumentHeld
  <1>6. \A q \in Requests : d \in Listed(q) => Untaken(d)
    BY <1>1, <1>4 DEF QuotaInv, RequestHeld, Untaken
  <1>7. /\ file'[d] # "none" => file[d] # "none"
        /\ rec.pc # "idle" /\ rec.doc = d /\ d \notin outrun =>
              /\ turn'[d] \notin Making \cup {"idle", "bind", "intent", "adopt"}
              /\ turn'[d] \in {"reserve", "mark"} => row'[d] # "intent"
    BY <1>4 DEF QuotaInv, RecoveryHeld
  <1> QED
    BY <1>1, <1>3, <1>5, <1>6, <1>7, TurnHeld

LEMMA SaveAnswerHeld ==
    ASSUME QuotaInv, NEW d \in Docs, SaveAnswer(d)
    PROVE  QuotaInv'
  <1>1. /\ UNCHANGED <<own, moved, req, rec, outrun>>
        /\ \A e \in Docs \ {d} : /\ turn'[e] = turn[e] /\ gen'[e] = gen[e]
                                  /\ row'[e] = row[e] /\ file'[e] = file[e]
    BY DEF QuotaInv, Typed, SaveAnswer, store
  <1>2. Typed'
    BY DEF QuotaInv, Typed, SaveAnswer, store
  <1>3. About(d)
    BY <1>1, <1>2, Unmoved DEF QuotaInv, About
  <1>4. /\ turn[d] = "answer"
        /\ turn'[d] = "done"
        /\ row'[d] = row[d]
        /\ file'[d] = file[d]
        /\ gen'[d] = gen[d]
    BY DEF QuotaInv, Typed, SaveAnswer, store
  <1>5. DocumentHeld(d)'
    BY <1>1, <1>4, OwnType DEF QuotaInv, DocumentHeld
  <1>6. \A q \in Requests : d \in Listed(q) => Untaken(d)
    BY <1>1, <1>4 DEF QuotaInv, RequestHeld, Untaken
  <1>7. /\ file'[d] # "none" => file[d] # "none"
        /\ rec.pc # "idle" /\ rec.doc = d /\ d \notin outrun =>
              /\ turn'[d] \notin Making \cup {"idle", "bind", "intent", "adopt"}
              /\ turn'[d] \in {"reserve", "mark"} => row'[d] # "intent"
    BY <1>4 DEF QuotaInv, RecoveryHeld
  <1> QED
    BY <1>1, <1>3, <1>5, <1>6, <1>7, TurnHeld

LEMMA AbandonHeld ==
    ASSUME QuotaInv, NEW d \in Docs, Abandon(d)
    PROVE  QuotaInv'
  <1>1. /\ UNCHANGED <<own, moved, req, rec, outrun>>
        /\ \A e \in Docs \ {d} : /\ turn'[e] = turn[e] /\ gen'[e] = gen[e]
                                  /\ row'[e] = row[e] /\ file'[e] = file[e]
    BY DEF QuotaInv, Typed, Abandon, store
  <1>2. Typed'
    BY DEF QuotaInv, Typed, Abandon, store
  <1>3. About(d)
    BY <1>1, <1>2, Unmoved DEF QuotaInv, About
  <1>4. /\ turn[d] \in {"create", "write", "finalize", "save"}
        /\ turn'[d] = "rb file"
        /\ row'[d] = row[d]
        /\ file'[d] = file[d]
        /\ gen'[d] = gen[d]
    BY DEF QuotaInv, Typed, Abandon, store
  <1>5. DocumentHeld(d)'
    BY <1>1, <1>4, OwnType DEF QuotaInv, DocumentHeld
  <1>6. \A q \in Requests : d \in Listed(q) => Untaken(d)
    BY <1>1, <1>4 DEF QuotaInv, RequestHeld, Untaken
  <1>7. /\ file'[d] # "none" => file[d] # "none"
        /\ rec.pc # "idle" /\ rec.doc = d /\ d \notin outrun =>
              /\ turn'[d] \notin Making \cup {"idle", "bind", "intent", "adopt"}
              /\ turn'[d] \in {"reserve", "mark"} => row'[d] # "intent"
    BY <1>4 DEF QuotaInv, RecoveryHeld
  <1> QED
    BY <1>1, <1>3, <1>5, <1>6, <1>7, TurnHeld

LEMMA RollbackFileHeld ==
    ASSUME QuotaInv, NEW d \in Docs, RollbackFile(d)
    PROVE  QuotaInv'
  <1>1. /\ UNCHANGED <<own, moved, req, rec, outrun>>
        /\ \A e \in Docs \ {d} : /\ turn'[e] = turn[e] /\ gen'[e] = gen[e]
                                  /\ row'[e] = row[e] /\ file'[e] = file[e]
    BY DEF QuotaInv, Typed, RollbackFile, store
  <1>2. Typed'
    BY DEF QuotaInv, Typed, RollbackFile, store
  <1>3. About(d)
    BY <1>1, <1>2, Unmoved DEF QuotaInv, About
  <1>4. /\ turn[d] = "rb file"
        /\ turn'[d] = "rb row"
        /\ row'[d] = row[d]
        /\ file'[d] = "none"
        /\ gen'[d] = gen[d]
    BY DEF QuotaInv, Typed, RollbackFile, store
  <1>5. DocumentHeld(d)'
    BY <1>1, <1>4, OwnType DEF QuotaInv, DocumentHeld
  <1>6. \A q \in Requests : d \in Listed(q) => Untaken(d)
    BY <1>1, <1>4 DEF QuotaInv, RequestHeld, Untaken
  <1>7. /\ file'[d] # "none" => file[d] # "none"
        /\ rec.pc # "idle" /\ rec.doc = d /\ d \notin outrun =>
              /\ turn'[d] \notin Making \cup {"idle", "bind", "intent", "adopt"}
              /\ turn'[d] \in {"reserve", "mark"} => row'[d] # "intent"
    BY <1>4 DEF QuotaInv, RecoveryHeld
  <1> QED
    BY <1>1, <1>3, <1>5, <1>6, <1>7, TurnHeld

LEMMA RollbackRowHeld ==
    ASSUME QuotaInv, NEW d \in Docs, RollbackRow(d)
    PROVE  QuotaInv'
  <1>1. /\ UNCHANGED <<own, moved, req, rec, outrun>>
        /\ \A e \in Docs \ {d} : /\ turn'[e] = turn[e] /\ gen'[e] = gen[e]
                                  /\ row'[e] = row[e] /\ file'[e] = file[e]
    BY DEF QuotaInv, Typed, RollbackRow, store
  <1>2. Typed'
    BY DEF QuotaInv, Typed, RollbackRow, store
  <1>3. About(d)
    BY <1>1, <1>2, Unmoved DEF QuotaInv, About
  <1>4. /\ turn[d] = "rb row"
        /\ turn'[d] \in {"done", "rb ledger"}
        /\ row'[d] = "none"
        /\ file'[d] = file[d]
        /\ gen'[d] = gen[d]
    BY DEF QuotaInv, Typed, RollbackRow, store
  <1>5. DocumentHeld(d)'
    BY <1>1, <1>4, OwnType DEF QuotaInv, DocumentHeld
  <1>6. \A q \in Requests : d \in Listed(q) => Untaken(d)
    BY <1>1, <1>4 DEF QuotaInv, RequestHeld, Untaken
  <1>7. /\ file'[d] # "none" => file[d] # "none"
        /\ rec.pc # "idle" /\ rec.doc = d /\ d \notin outrun =>
              /\ turn'[d] \notin Making \cup {"idle", "bind", "intent", "adopt"}
              /\ turn'[d] \in {"reserve", "mark"} => row'[d] # "intent"
    BY <1>4 DEF QuotaInv, RecoveryHeld
  <1> QED
    BY <1>1, <1>3, <1>5, <1>6, <1>7, TurnHeld

\* The steps that write the ledger too.
LEMMA ReserveIntentHeld ==
    ASSUME QuotaInv, NEW d \in Docs, ReserveIntent(d)
    PROVE  QuotaInv'
  <1>0. Typed /\ Counted(own.ledger, own.count) /\ own.ledger \in [Docs -> Tokens]
    BY OwnType DEF QuotaInv
  <1>1. /\ UNCHANGED <<row, file, gen, req, rec, seen, straddled, outrun, crashes>>
        /\ turn[d] = "reserve"
        /\ \/ turn' = [turn EXCEPT ![d] = "undo row"] /\ UNCHANGED <<own, moved>>
           \/ /\ turn' = [turn EXCEPT ![d] = "mark"] /\ Current(d)
              /\ own.ledger[d] = "none"
              /\ \E gone \in SUBSET Pending :
                    /\ Room(gone)
                    /\ Cas(d, [own EXCEPT !.ledger =
                                  [Without(gone) EXCEPT ![d] = "pending"]])
    BY DEF ReserveIntent
  <1>2. LedgerStep(d)
    <2>1. CASE UNCHANGED <<own, moved>>
      BY <1>0, <2>1, Unmoved
    <2>2. ASSUME NEW gone \in SUBSET Pending, Room(gone), own.ledger[d] = "none",
                 Cas(d, [own EXCEPT !.ledger = [Without(gone) EXCEPT ![d] = "pending"]])
          PROVE  LedgerStep(d)
      <3> DEFINE after == [Without(gone) EXCEPT ![d] = "pending"]
      <3>1. after \in [Docs -> Tokens]
        BY <1>0 DEF Without, Tokens
      <3>2. \A e \in Docs \ {d} :
               after[e] = own.ledger[e] \/ (own.ledger[e] = "pending" /\ after[e] = "none")
        BY <1>0 DEF Without, Pending
      <3>3. Counted(after, own.count)
        BY <1>0, <2>2, Reserves
      <3> HIDE DEF after
      <3>4. /\ own' = [own EXCEPT !.ledger = after]
            /\ moved' \in [Requests -> SUBSET {"self", "other", "begin"}] /\ Touched
        BY <1>0, <2>2, CasMoves DEF after
      <3>5. /\ own' \in Bindings
            /\ own'.state = own.state /\ own'.gen = own.gen
            /\ own'.ledger = after /\ own'.count = own.count
        BY <1>0, <3>1, <3>4, OwnType DEF Bindings
      <3> QED
        BY <3>2, <3>3, <3>4, <3>5 DEF LedgerStep
    <2> QED
      BY <1>1, <2>1, <2>2
  <1>3. Typed'
    <2>1. own' \in Bindings /\ moved' \in [Requests -> SUBSET {"self", "other", "begin"}]
      BY <1>2 DEF LedgerStep
    <2> QED
      BY <1>0, <1>1, <2>1 DEF Typed
  <1>4. About(d)
    <2>1. \A e \in Docs \ {d} : /\ turn'[e] = turn[e] /\ gen'[e] = gen[e]
                              /\ row'[e] = row[e] /\ file'[e] = file[e]
      BY <1>0, <1>1 DEF Typed
    <2> QED
      BY <1>1, <1>2, <1>3, <2>1 DEF About
  <1>5. /\ turn'[d] = "undo row" \/ (turn'[d] = "mark" /\ Current(d))
        /\ gen'[d] = gen[d] /\ row'[d] = row[d] /\ file'[d] = file[d]
        /\ own'.state = own.state /\ own'.gen = own.gen
    BY <1>0, <1>1, <1>2 DEF Typed, LedgerStep
  <1>6. DocumentHeld(d)'
    BY <1>1, <1>5 DEF QuotaInv, DocumentHeld
  <1> QED
    BY <1>1, <1>4, <1>5, <1>6, TurnHeld
    DEF QuotaInv, DocumentHeld, RequestHeld, RecoveryHeld, Untaken

LEMMA AdoptReservationHeld ==
    ASSUME QuotaInv, NEW d \in Docs, AdoptReservation(d)
    PROVE  QuotaInv'
  <1>0. Typed /\ Counted(own.ledger, own.count) /\ own.ledger \in [Docs -> Tokens]
    BY OwnType DEF QuotaInv
  <1>1. /\ UNCHANGED <<row, file, gen, req, rec, seen, straddled, outrun, crashes>>
        /\ turn[d] = "adopt"
        /\ \/ turn' = [turn EXCEPT ![d] = "undo row"] /\ UNCHANGED <<own, moved>>
           \/ /\ turn' = [turn EXCEPT ![d] = "create"] /\ Current(d)
              /\ own.ledger[d] = "pending"
              /\ Cas(d, [own EXCEPT !.ledger[d] = "adopting"])
    BY DEF AdoptReservation
  <1>2. LedgerStep(d) /\ (turn'[d] = "create" => own'.ledger[d] = "adopting")
    <2>1. CASE turn' = [turn EXCEPT ![d] = "undo row"] /\ UNCHANGED <<own, moved>>
      BY <1>0, <2>1, Unmoved DEF Typed
    <2>2. CASE /\ own.ledger[d] = "pending"
               /\ Cas(d, [own EXCEPT !.ledger[d] = "adopting"])
      <3>1. [own EXCEPT !.ledger[d] = "adopting"]
              = [own EXCEPT !.ledger[d] = "adopting", !.count = own.count]
        BY <1>0, OwnType
      <3>2. Counted([own.ledger EXCEPT ![d] = "adopting"], own.count)
        BY <1>0, <2>2, OwnType, Adopts
      <3> QED
        BY <1>0, <2>2, <3>1, <3>2, OwnType, CasSteps DEF Tokens
    <2> QED
      BY <1>1, <2>1, <2>2
  <1>3. Typed'
    <2>1. own' \in Bindings /\ moved' \in [Requests -> SUBSET {"self", "other", "begin"}]
      BY <1>2 DEF LedgerStep
    <2> QED
      BY <1>0, <1>1, <2>1 DEF Typed
  <1>4. About(d)
    <2>1. \A e \in Docs \ {d} : /\ turn'[e] = turn[e] /\ gen'[e] = gen[e]
                              /\ row'[e] = row[e] /\ file'[e] = file[e]
      BY <1>0, <1>1 DEF Typed
    <2> QED
      BY <1>1, <1>2, <1>3, <2>1 DEF About
  <1>5. /\ turn'[d] = "undo row" \/ (turn'[d] = "create" /\ Current(d))
        /\ gen'[d] = gen[d] /\ row'[d] = row[d] /\ file'[d] = file[d]
        /\ own'.state = own.state /\ own'.gen = own.gen
    BY <1>0, <1>1, <1>2 DEF Typed, LedgerStep
  <1>6. gen[d] \in Nat /\ own.gen \in Nat
    BY <1>0, OwnType DEF Typed
  <1>7. DocumentHeld(d)'
    BY <1>1, <1>2, <1>5, <1>6 DEF QuotaInv, DocumentHeld, Current
  <1>8. ASSUME NEW q \in Requests, d \in Listed(q)
        PROVE  Untaken(d)
    <2>1. d \in outrun \/ gen[d] < own.gen
      BY <1>1, <1>8 DEF QuotaInv, RequestHeld
    <2>2. d \in outrun \/ own.gen # gen[d]
      BY <1>6, <2>1
    <2>3. d \in outrun \/ turn'[d] = "undo row"
      BY <1>5, <2>2 DEF Current
    <2> QED
      BY <2>3 DEF Untaken
  <1>9. d \notin outrun /\ rec.pc # "idle" => rec.doc # d
    BY <1>1 DEF QuotaInv, RecoveryHeld
  <1> QED
    BY <1>1, <1>4, <1>5, <1>7, <1>8, <1>9, TurnHeld

LEMMA UndoLedgerHeld ==
    ASSUME QuotaInv, NEW d \in Docs, UndoLedger(d)
    PROVE  QuotaInv'
  <1>0. Typed /\ Counted(own.ledger, own.count)
    BY DEF QuotaInv
  <1>1. /\ UNCHANGED <<row, file, gen, req, rec, seen, straddled, outrun, crashes>>
        /\ turn[d] = "undo ledger" /\ turn' = [turn EXCEPT ![d] = "rb row"]
    BY DEF UndoLedger
  <1>2. LedgerStep(d)
    BY <1>0, ReservationReleased DEF UndoLedger
  <1>3. Typed'
    <2>1. own' \in Bindings /\ moved' \in [Requests -> SUBSET {"self", "other", "begin"}]
      BY <1>2 DEF LedgerStep
    <2> QED
      BY <1>0, <1>1, <2>1 DEF Typed
  <1>4. About(d)
    <2>1. \A e \in Docs \ {d} : /\ turn'[e] = turn[e] /\ gen'[e] = gen[e]
                              /\ row'[e] = row[e] /\ file'[e] = file[e]
      BY <1>0, <1>1 DEF Typed
    <2> QED
      BY <1>1, <1>2, <1>3, <2>1 DEF About
  <1>5. turn'[d] = "rb row" /\ file'[d] = file[d] /\ row'[d] = row[d]
    BY <1>0, <1>1 DEF Typed
  <1>6. DocumentHeld(d)' /\ Untaken(d)
    BY <1>1, <1>5 DEF QuotaInv, DocumentHeld, Untaken
  <1> QED
    BY <1>1, <1>4, <1>5, <1>6, TurnHeld

LEMMA RollbackLedgerHeld ==
    ASSUME QuotaInv, NEW d \in Docs, RollbackLedger(d)
    PROVE  QuotaInv'
  <1>0. Typed /\ Counted(own.ledger, own.count)
    BY DEF QuotaInv
  <1>1. /\ UNCHANGED <<row, file, gen, req, rec, straddled, outrun, crashes>>
        /\ seen' = [seen EXCEPT ![d] = "none"]
        /\ turn[d] = "rb ledger" /\ turn' = [turn EXCEPT ![d] = "done"]
    BY DEF RollbackLedger
  <1>2. LedgerStep(d)
    BY <1>0, Released DEF RollbackLedger
  <1>3. Typed'
    <2>1. own' \in Bindings /\ moved' \in [Requests -> SUBSET {"self", "other", "begin"}]
      BY <1>2 DEF LedgerStep
    <2> QED
      BY <1>0, <1>1, <2>1 DEF Typed
  <1>4. About(d)
    <2>1. \A e \in Docs \ {d} : /\ turn'[e] = turn[e] /\ gen'[e] = gen[e]
                              /\ row'[e] = row[e] /\ file'[e] = file[e]
      BY <1>0, <1>1 DEF Typed
    <2> QED
      BY <1>1, <1>2, <1>3, <2>1 DEF About
  <1>5. turn'[d] = "done" /\ file'[d] = file[d] /\ row'[d] = row[d]
    BY <1>0, <1>1 DEF Typed
  <1>6. DocumentHeld(d)' /\ Untaken(d)
    BY <1>1, <1>5 DEF QuotaInv, DocumentHeld, Untaken
  <1> QED
    BY <1>1, <1>4, <1>5, <1>6, TurnHeld

LEMMA CommitReservationHeld ==
    ASSUME QuotaInv, NEW d \in Docs, CommitReservation(d)
    PROVE  QuotaInv'
  <1>0. Typed /\ Counted(own.ledger, own.count)
    BY DEF QuotaInv
  <1>1. /\ UNCHANGED <<row, file, gen, req, rec, seen, straddled, outrun, crashes>>
        /\ turn[d] = "commit" /\ turn' = [turn EXCEPT ![d] = "answer"]
    BY DEF CommitReservation
  <1>2. LedgerStep(d) /\ (own' = own \/ own'.ledger[d] = "committed")
    BY <1>0, Unmoved, Committing DEF CommitReservation, CanCommit
  <1>3. Typed'
    <2>1. own' \in Bindings /\ moved' \in [Requests -> SUBSET {"self", "other", "begin"}]
      BY <1>2 DEF LedgerStep
    <2> QED
      BY <1>0, <1>1, <2>1 DEF Typed
  <1>4. About(d)
    <2>1. \A e \in Docs \ {d} : /\ turn'[e] = turn[e] /\ gen'[e] = gen[e]
                              /\ row'[e] = row[e] /\ file'[e] = file[e]
      BY <1>0, <1>1 DEF Typed
    <2> QED
      BY <1>1, <1>2, <1>3, <2>1 DEF About
  <1>5. turn'[d] = "answer" /\ file'[d] = file[d] /\ row'[d] = row[d]
    BY <1>0, <1>1 DEF Typed
  <1>. DocumentHeld(d)
    BY DEF QuotaInv
  <1>6. DocumentHeld(d)' /\ Untaken(d)
    BY <1>1, <1>2, <1>5 DEF DocumentHeld, Untaken
  <1> QED
    BY <1>1, <1>4, <1>5, <1>6, TurnHeld

LEMMA TurnKeeps ==
    ASSUME QuotaInv, NEW d \in Docs, Turn(d)
    PROVE  QuotaInv'
  BY ResolveHeld, ReadBindingHeld, SaveIntentHeld, ReserveIntentHeld, MarkPendingHeld,
     AdoptReservationHeld, UndoRowHeld, UndoLedgerHeld, CreateFileHeld, WriteFileHeld,
     FinalizeHeld, SaveHistoryHeld, MarkAdoptedHeld, CommitReservationHeld,
     SaveAnswerHeld, AbandonHeld, RollbackFileHeld, RollbackRowHeld, RollbackLedgerHeld,
     Zenon
  DEF Turn

-----------------------------------------------------------------------------
(* The steps of a clear or a delete.                                       *)

USE DEF RequestPlaces, Working, Becomes, To

\* A request writes its own record only.
LEMMA OneRequest ==
    ASSUME Typed, NEW r \in Requests,
           NEW now \in RequestStates,
           req' = [req EXCEPT ![r] = now]
    PROVE  /\ req' \in [Requests -> RequestStates]
           /\ req'[r] = now
           /\ \A q \in Requests \ {r} : req'[q] = req[q]
  BY DEF Typed

LEMMA RequestType ==
    ASSUME Typed, NEW r \in Requests
    PROVE  /\ req[r].pc \in RequestPlaces /\ req[r].todo \in SUBSET Docs
           /\ req[r].doc \in Docs \cup {NoDoc} /\ req[r].status \in Statuses
           /\ req[r] = [pc |-> req[r].pc, todo |-> req[r].todo,
                        doc |-> req[r].doc, status |-> req[r].status]
  BY DEF Typed, RequestStates

LEMMA GoesTo ==
    ASSUME NEW state \in RequestStates, NEW pc \in RequestPlaces
    PROVE  /\ [state EXCEPT !.pc = pc] \in RequestStates
           /\ [state EXCEPT !.pc = pc].pc = pc
           /\ [state EXCEPT !.pc = pc].todo = state.todo
           /\ [state EXCEPT !.pc = pc].doc = state.doc
           /\ [state EXCEPT !.pc = pc].status = state.status
  BY DEF RequestStates

LEMMA IdleIs ==
    /\ Idle \in RequestStates /\ Idle.pc = "idle" /\ Idle.todo = {}
    /\ Idle.doc = NoDoc /\ NoDoc \notin Docs
  BY SessionAssumption DEF Idle, RequestStates

LEMMA ListedIs ==
    ASSUME NEW todo \in SUBSET Docs
    PROVE  LET listed == [Idle EXCEPT !.pc = "file", !.todo = todo] IN
           /\ listed \in RequestStates /\ listed.pc = "file"
           /\ listed.todo = todo /\ listed.doc = NoDoc
  BY DEF Idle, RequestStates

\* A step of a request about one document.
LEMMA RequestStep ==
    ASSUME QuotaInv, NEW d \in Docs, About(d), NEW r \in Requests,
           \A q \in Requests \ {r} : req'[q] = req[q],
           RequestHeld(r)', DocumentHeld(d)',
           \A q \in Requests : d \in Listed(q) => Untaken(d),
           file'[d] # "none" /\ d \notin outrun => file[d] # "none",
           rec' = rec,
           rec.pc # "idle" /\ rec.doc = d /\ d \notin outrun =>
               /\ turn'[d] \notin Making \cup {"idle", "bind", "intent", "adopt"}
               /\ turn'[d] \in {"reserve", "mark"} => row'[d] # "intent"
    PROVE  QuotaInv'
  <1>1. Typed' /\ Counted(own.ledger, own.count)'
    BY DEF About, LedgerStep, Counted, Holding, Committed
  <1>2. \A e \in Docs : DocumentHeld(e)'
    BY OthersHeld DEF QuotaInv
  <1>3. \A q \in Requests : RequestHeld(q)'
    BY RequestStays DEF QuotaInv
  <1>4. RecoveryHeld'
    BY LoopStays DEF QuotaInv
  <1> QED
    BY <1>1, <1>2, <1>3, <1>4 DEF QuotaInv

\* A step of a request about none.
LEMMA ControlStep ==
    ASSUME QuotaInv, NEW r \in Requests, Typed', RequestHeld(r)',
           UNCHANGED <<own, row, file, turn, gen, rec>>, outrun \subseteq outrun',
           \A q \in Requests \ {r} : req'[q] = req[q] /\ moved'[q] = moved[q]
    PROVE  QuotaInv'
  <1>1. \A d \in Docs : DocumentHeld(d)'
    BY DEF QuotaInv, DocumentHeld
  <1>2. \A q \in Requests \ {r} : RequestHeld(q)'
    BY DEF QuotaInv, RequestHeld, Listed, Lifecycle
  <1>3. RecoveryHeld' /\ Counted(own.ledger, own.count)'
    BY DEF QuotaInv, RecoveryHeld, Counted, Holding, Committed
  <1> QED
    BY <1>1, <1>2, <1>3 DEF QuotaInv

LEMMA ResumeLifecycleHeld ==
    ASSUME QuotaInv, NEW r \in Requests, ResumeLifecycle(r)
    PROVE  QuotaInv'
  <1> DEFINE now == [req[r] EXCEPT !.pc = First(r)]
  <1>0. Typed /\ RequestHeld(r)
    BY DEF QuotaInv
  <1>1. /\ now \in RequestStates
        /\ now.pc \in {"chat", "find"} /\ now.todo = req[r].todo /\ now.doc = req[r].doc
    <2>1. req[r] \in RequestStates
      BY <1>0 DEF Typed
    <2> DEFINE pc == First(r)
    <2>2. pc \in {"chat", "find"} /\ pc \in RequestPlaces
      BY DEF First
    <2> HIDE DEF pc
    <2>3. /\ [req[r] EXCEPT !.pc = pc] \in RequestStates
          /\ [req[r] EXCEPT !.pc = pc].pc = pc
          /\ [req[r] EXCEPT !.pc = pc].todo = req[r].todo
          /\ [req[r] EXCEPT !.pc = pc].doc = req[r].doc
      BY <2>1, <2>2, GoesTo, Zenon
    <2> QED
      BY <2>2, <2>3 DEF pc
  <1>2. /\ req' = [req EXCEPT ![r] = now] /\ moved' = [moved EXCEPT ![r] = {}]
        /\ UNCHANGED <<own, row, file, turn, gen, seen, rec, straddled, outrun, crashes>>
    BY DEF ResumeLifecycle, store, turns
  <1> HIDE DEF now
  <1>3. req'[r] = now /\ \A q \in Requests \ {r} : req'[q] = req[q] /\ moved'[q] = moved[q]
    <2>1. req'[r] = now /\ \A q \in Requests \ {r} : req'[q] = req[q]
      BY <1>0, <1>1, <1>2, OneRequest
    <2>2. \A q \in Requests \ {r} : moved'[q] = moved[q]
      BY <1>0, <1>2 DEF Typed
    <2> QED
      BY <2>1, <2>2
  <1>4. Typed'
    <2>1. moved' \in [Requests -> SUBSET {"self", "other", "begin"}]
      BY <1>0, <1>2 DEF Typed
    <2> QED
      BY <1>0, <1>1, <1>2, <2>1, OneRequest DEF Typed
  <1>5. RequestHeld(r)'
    BY <1>0, <1>1, <1>2, <1>3 DEF RequestHeld, Listed
  <1> QED
    BY <1>2, <1>3, <1>4, <1>5, ControlStep

LEMMA ClearChatHeld ==
    ASSUME QuotaInv, NEW r \in Requests, ClearChat(r)
    PROVE  QuotaInv'
  <1> DEFINE now == [req[r] EXCEPT !.pc = "find"]
  <1>0. Typed /\ RequestHeld(r)
    BY DEF QuotaInv
  <1>1. /\ now \in RequestStates
        /\ now.pc = "find" /\ now.todo = req[r].todo /\ now.doc = req[r].doc
    <2>1. req[r] \in RequestStates
      BY <1>0 DEF Typed
    <2> QED
      BY <2>1, GoesTo
  <1>2. /\ req' = [req EXCEPT ![r] = now]
        /\ UNCHANGED <<own, row, file, turn, gen, seen, moved, rec, straddled, outrun, crashes>>
    BY DEF ClearChat, turns
  <1> HIDE DEF now
  <1>3. req'[r] = now /\ \A q \in Requests \ {r} : req'[q] = req[q] /\ moved'[q] = moved[q]
    BY <1>0, <1>1, <1>2, OneRequest
  <1>4. Typed'
    BY <1>0, <1>1, <1>2, OneRequest DEF Typed
  <1>5. RequestHeld(r)'
    BY <1>0, <1>1, <1>2, <1>3 DEF RequestHeld, Listed
  <1> QED
    BY <1>2, <1>3, <1>4, <1>5, ControlStep

LEMMA DeleteSessionHeld ==
    ASSUME QuotaInv, NEW r \in Requests, DeleteSession(r)
    PROVE  QuotaInv'
  <1> DEFINE now == [req[r] EXCEPT !.pc = "finish"]
  <1>0. Typed /\ RequestHeld(r)
    BY DEF QuotaInv
  <1>1. /\ now \in RequestStates
        /\ now.pc = "finish" /\ now.todo = req[r].todo /\ now.doc = req[r].doc
    <2>1. req[r] \in RequestStates
      BY <1>0 DEF Typed
    <2> QED
      BY <2>1, GoesTo
  <1>2. /\ req' = [req EXCEPT ![r] = now] /\ req[r].pc = "file" /\ req[r].todo = {}
        /\ UNCHANGED <<own, row, file, turn, gen, seen, moved, rec, straddled, outrun, crashes>>
    BY DEF DeleteSession, Emptied, turns
  <1> HIDE DEF now
  <1>3. req'[r] = now /\ \A q \in Requests \ {r} : req'[q] = req[q] /\ moved'[q] = moved[q]
    BY <1>0, <1>1, <1>2, OneRequest
  <1>4. Typed'
    BY <1>0, <1>1, <1>2, OneRequest DEF Typed
  <1>5. RequestHeld(r)'
    BY <1>0, <1>1, <1>2, <1>3 DEF RequestHeld, Listed, Lifecycle
  <1> QED
    BY <1>2, <1>3, <1>4, <1>5, ControlStep

LEMMA CheckAuthorityHeld ==
    ASSUME QuotaInv, NEW r \in Requests, CheckAuthority(r)
    PROVE  QuotaInv'
  <1> DEFINE pc  == IF Authorized(r) THEN "list" ELSE "idle"
             now == [req[r] EXCEPT !.pc = pc]
  <1>0. Typed /\ RequestHeld(r)
    BY DEF QuotaInv
  <1>1. /\ now \in RequestStates
        /\ now.pc \in {"list", "idle"} /\ now.todo = req[r].todo /\ now.doc = req[r].doc
    <2>1. req[r] \in RequestStates
      BY <1>0 DEF Typed
    <2>2. pc \in {"list", "idle"} /\ pc \in RequestPlaces
      OBVIOUS
    <2> HIDE DEF pc
    <2>3. /\ [req[r] EXCEPT !.pc = pc] \in RequestStates
          /\ [req[r] EXCEPT !.pc = pc].pc = pc
          /\ [req[r] EXCEPT !.pc = pc].todo = req[r].todo
          /\ [req[r] EXCEPT !.pc = pc].doc = req[r].doc
      BY <2>1, <2>2, GoesTo, Zenon
    <2> QED
      BY <2>2, <2>3
  <1>2. /\ req' = [req EXCEPT ![r] = now]
        /\ UNCHANGED <<own, row, file, turn, gen, seen, moved, rec, straddled, outrun, crashes>>
    BY DEF CheckAuthority, store, turns
  <1> HIDE DEF now
  <1>3. req'[r] = now /\ \A q \in Requests \ {r} : req'[q] = req[q] /\ moved'[q] = moved[q]
    BY <1>0, <1>1, <1>2, OneRequest
  <1>4. Typed'
    BY <1>0, <1>1, <1>2, OneRequest DEF Typed
  <1>5. RequestHeld(r)'
    BY <1>0, <1>1, <1>2, <1>3 DEF RequestHeld, Listed
  <1> QED
    BY <1>2, <1>3, <1>4, <1>5, ControlStep

\* What is listed in time is of an earlier generation, and every file left is
\* listed, in time or not.
LEMMA FindDocumentsHeld ==
    ASSUME QuotaInv, NEW r \in Requests, FindDocuments(r)
    PROVE  QuotaInv'
  <1> DEFINE found  == {d \in Docs : row[d] # "none"}
             listed == [Idle EXCEPT !.pc = "file", !.todo = found]
  <1>0. Typed /\ RequestHeld(r) /\ \A d \in Docs : DocumentHeld(d)
    BY DEF QuotaInv
  <1>1. PICK now \in {Idle, listed} :
           /\ req' = [req EXCEPT ![r] = now]
           /\ outrun \subseteq outrun' /\ outrun' \subseteq Docs
           /\ now = listed /\ ~Authorized(r) => found \subseteq outrun'
    BY <1>0 DEF FindDocuments, Idle, Typed
  <1>2. UNCHANGED <<own, row, file, turn, gen, seen, moved, rec, straddled, crashes>>
    BY DEF FindDocuments, store, turns
  <1>3. /\ Idle.pc = "idle" /\ Idle.todo = {} /\ Idle.doc = NoDoc /\ NoDoc \notin Docs
        /\ listed.pc = "file" /\ listed.todo = found
        /\ listed.doc = NoDoc
        /\ {Idle, listed} \subseteq RequestStates
    BY IdleIs, ListedIs
  <1> HIDE DEF listed
  <1>4. req'[r] = now /\ \A q \in Requests \ {r} : req'[q] = req[q] /\ moved'[q] = moved[q]
    BY <1>0, <1>1, <1>2, <1>3, OneRequest
  <1>5. Typed'
    BY <1>0, <1>1, <1>2, <1>3, OneRequest DEF Typed
  <1>6. RequestHeld(r)'
    <2>1. CASE now = Idle
      BY <1>3, <1>4, <2>1 DEF RequestHeld, Listed
    <2>2. CASE now = listed
      <3>1. Authorized(r) => own.state # "active"
        BY DEF Lifecycle, Authorized
      <3>2. \A d \in Docs \ outrun' : row[d] # "none" =>
               /\ turn[d] \notin Making \cup {"idle", "bind"}
               /\ turn[d] \in Coming => gen[d] < own.gen
        BY <1>0, <1>1, <2>2, <3>1 DEF DocumentHeld
      <3>3. \A d \in Docs \ outrun' : file[d] # "none" => row[d] # "none"
        BY <1>0, <1>1 DEF DocumentHeld
      <3> QED
        BY <1>2, <1>3, <1>4, <2>2, <3>2, <3>3 DEF RequestHeld, Listed
    <2> QED
      BY <2>1, <2>2
  <1> QED
    BY <1>1, <1>2, <1>4, <1>5, <1>6, ControlStep

LEMMA DeleteFileHeld ==
    ASSUME QuotaInv, NEW r \in Requests, NEW d \in Docs, DeleteFile(r, d)
    PROVE  QuotaInv'
  <1> DEFINE next == [req[r] EXCEPT !.pc = "row", !.doc = d]
  <1>0. /\ Typed /\ RequestHeld(r) /\ DocumentHeld(d) /\ RecoveryHeld
        /\ Counted(own.ledger, own.count) /\ req[r] \in RequestStates
    BY DEF QuotaInv, Typed
  <1>1. /\ req[r].pc = "file" /\ d \in req[r].todo
        /\ UNCHANGED <<own, row, turn, gen, seen, moved, rec, straddled, outrun, crashes>>
        /\ \/ req' = [req EXCEPT ![r] = Idle] /\ UNCHANGED file
           \/ req' = [req EXCEPT ![r] = next] /\ file' = [file EXCEPT ![d] = "none"]
    BY DEF DeleteFile, turns
  <1>2. /\ next \in RequestStates
        /\ next.pc = "row" /\ next.todo = req[r].todo /\ next.doc = d
    BY <1>0 DEF RequestStates
  <1> HIDE DEF next
  <1>3. PICK now \in {Idle, next} :
           /\ req' = [req EXCEPT ![r] = now]
           /\ \/ now = Idle /\ file' = file
              \/ now = next /\ file' = [file EXCEPT ![d] = "none"]
    BY <1>1
  <1>4. req'[r] = now /\ \A q \in Requests \ {r} : req'[q] = req[q]
    BY <1>0, <1>2, <1>3, IdleIs, OneRequest
  <1>5. Typed'
    <2>1. req' \in [Requests -> RequestStates]
      BY <1>0, <1>2, <1>3, IdleIs, OneRequest
    <2>2. file' \in [Docs -> {"none", "torn", "whole"}]
      BY <1>0, <1>3 DEF Typed
    <2> QED
      BY <1>0, <1>1, <2>1, <2>2 DEF Typed
  <1>6. About(d)
    <2>1. LedgerStep(d)
      BY <1>0, <1>1, Unmoved
    <2>2. \A e \in Docs \ {d} : file'[e] = file[e]
      BY <1>0, <1>3 DEF Typed
    <2> QED
      BY <1>1, <1>5, <2>1, <2>2 DEF About
  <1>7. file'[d] = file[d] \/ (now = next /\ file'[d] = "none")
    BY <1>0, <1>3 DEF Typed
  <1>8. RequestHeld(r)'
    <2>1. CASE now = Idle
      <3>1. Listed(r)' = {} /\ req'[r].pc = "idle"
        BY <1>4, <2>1, IdleIs DEF Listed
      <3> QED
        BY <3>1 DEF RequestHeld
    <2>2. CASE now = next /\ file' = [file EXCEPT ![d] = "none"]
      <3>1. file'[d] = "none" /\ \A e \in Docs : file'[e] # "none" => file[e] # "none"
        BY <1>0, <2>2 DEF Typed
      <3>2. req'[r].pc = "row" /\ req'[r].todo = req[r].todo /\ req'[r].doc = d
        BY <1>2, <1>4, <2>2
      <3>3. Listed(r)' \subseteq Listed(r)
        BY <1>1, <3>2 DEF Listed
      <3>4. UNCHANGED <<own, turn, gen, moved>>
        BY <1>1
      <3> QED
        BY <1>0, <1>1, <3>1, <3>2, <3>3, <3>4 DEF RequestHeld, Lifecycle
    <2> QED
      BY <1>3, <2>1, <2>2
  <1>9. DocumentHeld(d)'
    BY <1>0, <1>1, <1>7 DEF DocumentHeld
  <1>10. ASSUME NEW q \in Requests, d \in Listed(q)
         PROVE  Untaken(d)
    BY <1>1, <1>10 DEF QuotaInv, RequestHeld, Untaken
  <1>11. rec.pc # "idle" /\ rec.doc = d /\ d \notin outrun =>
             /\ turn'[d] \notin Making \cup {"idle", "bind", "intent", "adopt"}
             /\ turn'[d] \in {"reserve", "mark"} => row'[d] # "intent"
    BY <1>0, <1>1 DEF RecoveryHeld
  <1> QED
    BY <1>1, <1>4, <1>6, <1>7, <1>8, <1>9, <1>10, <1>11, RequestStep

LEMMA DeleteRowHeld ==
    ASSUME QuotaInv, NEW r \in Requests, DeleteRow(r)
    PROVE  QuotaInv'
  <1>0. /\ Typed /\ RequestHeld(r) /\ RecoveryHeld
        /\ Counted(own.ledger, own.count)
    BY DEF QuotaInv
  <1>. PICK d \in Docs : d = req[r].doc
    BY <1>0 DEF DeleteRow, RequestHeld
  <1> DEFINE rest == [Idle EXCEPT !.pc = "file", !.todo = req[r].todo \ {d}]
             next == [pc |-> "ledger", todo |-> req[r].todo \ {d}, doc |-> d,
                      status |-> row[d]]
  <1>1. /\ req[r].pc = "row"
        /\ UNCHANGED <<own, file, turn, gen, seen, moved, rec, straddled, outrun, crashes>>
        /\ row' = [row EXCEPT ![d] = "none"]
        /\ req' = [req EXCEPT ![r] = IF row[d] = "none" THEN rest ELSE next]
    BY DEF DeleteRow, turns
  <1>2. d \in Docs /\ (d \in outrun \/ file[d] = "none") /\ req[r].todo \in SUBSET Docs /\ row[d] \in Statuses
    BY <1>0, <1>1, RequestType DEF RequestHeld, Typed
  <1>3. /\ rest \in RequestStates /\ next \in RequestStates
        /\ rest.pc = "file" /\ rest.doc = NoDoc /\ rest.todo = req[r].todo \ {d}
        /\ next.pc = "ledger" /\ next.doc = d /\ next.todo = req[r].todo \ {d}
    <2>1. /\ rest \in RequestStates /\ rest.pc = "file" /\ rest.doc = NoDoc
          /\ rest.todo = req[r].todo \ {d}
      BY <1>2, ListedIs
    <2>2. next \in RequestStates
      BY <1>2 DEF RequestStates
    <2> QED
      BY <2>1, <2>2
  <1> HIDE DEF next, rest
  <1>4. PICK now \in {rest, next} : req' = [req EXCEPT ![r] = now]
    BY <1>1
  <1>5. req'[r] = now /\ \A q \in Requests \ {r} : req'[q] = req[q]
    BY <1>0, <1>3, <1>4, OneRequest
  <1>6. Listed(r)' \subseteq Listed(r) /\ d \in Listed(r)
    <2>1. req'[r].todo = req[r].todo \ {d} /\ req'[r].doc \in {NoDoc, d} /\ NoDoc \notin Docs
      BY <1>3, <1>5, IdleIs
    <2> QED
      BY <1>2, <2>1 DEF Listed
  <1>7. RequestHeld(r)'
    <2>1. \A e \in Listed(r)' \ outrun :
             /\ turn'[e] \notin Making \cup {"idle", "bind"}
             /\ turn'[e] \in Coming => gen'[e] < own'.gen
      BY <1>0, <1>1, <1>6 DEF RequestHeld
    <2>2. req'[r].pc \in {"row", "ledger"} =>
              req'[r].doc \in Docs /\ (req'[r].doc \in outrun \/ file'[req'[r].doc] = "none")
      BY <1>1, <1>2, <1>3, <1>5
    <2>3. req'[r].pc # "finish"
      BY <1>3, <1>5
    <2>4. moved'[r] = {} /\ own'.state = Lifecycle(r) =>
              \A e \in Docs \ outrun : file'[e] # "none" => e \in req'[r].todo
      BY <1>0, <1>1, <1>2, <1>3, <1>5 DEF RequestHeld
    <2>5. outrun' = outrun /\ Lifecycle(r)' = Lifecycle(r)
      BY <1>1 DEF Lifecycle
    <2> QED
      BY <2>1, <2>2, <2>3, <2>4, <2>5 DEF RequestHeld
  <1>8. Typed'
    <2>1. req' \in [Requests -> RequestStates]
      BY <1>0, <1>3, <1>4, OneRequest
    <2>2. row' \in [Docs -> Statuses]
      BY <1>0, <1>1 DEF Typed
    <2> QED
      BY <1>0, <1>1, <2>1, <2>2 DEF Typed
  <1>9. About(d)
    <2>1. LedgerStep(d)
      BY <1>0, <1>1, <1>2, Unmoved
    <2>2. \A e \in Docs \ {d} : row'[e] = row[e]
      BY <1>0, <1>1 DEF Typed
    <2> QED
      BY <1>1, <1>8, <2>1, <2>2 DEF About
  <1>10. d \notin outrun =>
             /\ turn[d] \notin Making \cup {"idle", "bind"}
             /\ turn[d] \in Coming => gen[d] < own.gen
    BY <1>0, <1>6 DEF RequestHeld
  <1>11. DocumentHeld(d)'
    <2>1. row'[d] = "none" /\ gen[d] \in Nat /\ own.gen \in Nat
      BY <1>0, <1>1, <1>2, OwnType DEF QuotaInv, Typed
    <2>2. d \notin outrun /\ turn[d] \in Coming =>
              gen[d] # own.gen /\ gen[d] <= own.gen /\ gen[d] < own.gen
      <3>1. \A m, n \in Nat : m < n => m # n /\ m <= n
        OBVIOUS
      <3> QED
        BY <1>10, <2>1, <3>1
    <2>3. /\ own' = own /\ turn'[d] = turn[d] /\ gen'[d] = gen[d]
          /\ (d \in outrun \/ file'[d] = "none") /\ outrun' = outrun
      BY <1>1, <1>2
    <2>4. CASE d \in outrun
      BY <2>3, <2>4 DEF DocumentHeld
    <2>5. CASE d \notin outrun
      <3>1. turn[d] \notin Making \cup {"idle", "bind"} /\ file'[d] = "none"
        BY <1>10, <2>3, <2>5
      <3>2. turn[d] = "adopt" => gen[d] # own.gen
        BY <2>2, <2>5
      <3> QED
        BY <2>1, <2>2, <2>3, <2>5, <3>1, <3>2 DEF DocumentHeld
    <2> QED
      BY <2>4, <2>5
  <1>12. Untaken(d)
    BY <1>1, <1>10 DEF Untaken
  <1>13. row'[d] # "intent"
    BY <1>0, <1>1, <1>2 DEF Typed
  <1>14. rec.pc # "idle" /\ rec.doc = d /\ d \notin outrun =>
             turn'[d] \notin Making \cup {"idle", "bind", "intent", "adopt"}
    BY <1>0, <1>1 DEF RecoveryHeld
  <1>15. (file'[d] # "none" => file[d] # "none") /\ rec' = rec
    BY <1>1
  <1> QED
    BY <1>2, <1>5, <1>7, <1>9, <1>11, <1>12, <1>13, <1>14, <1>15, RequestStep, Zenon

LEMMA ReleaseQuotaHeld ==
    ASSUME QuotaInv, NEW r \in Requests, ReleaseQuota(r)
    PROVE  QuotaInv'
  <1>0. /\ Typed /\ RequestHeld(r) /\ RecoveryHeld
        /\ Counted(own.ledger, own.count) /\ req[r] \in RequestStates
    BY DEF QuotaInv, Typed
  <1>. PICK d \in Docs : d = req[r].doc
    BY <1>0 DEF ReleaseQuota, RequestHeld
  <1> DEFINE next == [req[r] EXCEPT !.pc = "file", !.doc = NoDoc, !.status = "none"]
  <1>1. /\ req[r].pc = "ledger" /\ req' = [req EXCEPT ![r] = next]
        /\ UNCHANGED <<row, file, turn, gen, seen, rec, straddled, outrun, crashes>>
        /\ Release(r, d, req[r].status)
    BY DEF ReleaseQuota, turns
  <1>2. /\ next \in RequestStates
        /\ next.pc = "file" /\ next.todo = req[r].todo /\ next.doc = NoDoc
    BY <1>0 DEF RequestStates
  <1> HIDE DEF next
  <1>3. req'[r] = next /\ \A q \in Requests \ {r} : req'[q] = req[q]
    BY <1>0, <1>1, <1>2, OneRequest
  <1>4. LedgerStep(d)
    BY <1>0, <1>1, Released
  <1>5. Typed'
    <2>1. own' \in Bindings /\ moved' \in [Requests -> SUBSET {"self", "other", "begin"}]
      BY <1>4 DEF LedgerStep
    <2>2. req' \in [Requests -> RequestStates]
      BY <1>0, <1>1, <1>2, OneRequest
    <2> QED
      BY <1>0, <1>1, <2>1, <2>2 DEF Typed
  <1>6. About(d)
    BY <1>1, <1>4, <1>5 DEF About
  <1>7. /\ own'.state = own.state /\ own'.gen = own.gen
        /\ turn' = turn /\ gen' = gen /\ file' = file /\ row' = row /\ outrun' = outrun
        /\ moved'[r] = {} => moved[r] = {}
    BY <1>1, <1>4 DEF LedgerStep, Touched
  <1>8. RequestHeld(r)'
    <2>1. req'[r].pc = "file" /\ req'[r].todo = req[r].todo
      BY <1>2, <1>3
    <2>2. Listed(r)' \subseteq Listed(r)
      BY <1>2, <1>3, IdleIs DEF Listed
    <2> QED
      BY <1>0, <1>1, <1>7, <2>1, <2>2 DEF RequestHeld, Lifecycle
  <1>9. d \notin outrun =>
            /\ file[d] = "none" /\ turn[d] \notin Making \cup {"idle", "bind"}
            /\ turn[d] \in Coming => gen[d] < own.gen
    BY <1>0, <1>1 DEF RequestHeld, Listed
  <1>10. DocumentHeld(d)'
    <2>1. DocumentHeld(d)
      BY DEF QuotaInv
    <2> QED
      BY <1>7, <1>9, <2>1 DEF DocumentHeld
  <1>11. Untaken(d) /\ (d \in outrun \/ file'[d] = "none") /\ rec' = rec
    BY <1>1, <1>7, <1>9 DEF Untaken
  <1>12. rec.pc # "idle" /\ rec.doc = d /\ d \notin outrun =>
             /\ turn'[d] \notin Making \cup {"idle", "bind", "intent", "adopt"}
             /\ turn'[d] \in {"reserve", "mark"} => row'[d] # "intent"
    BY <1>0, <1>7 DEF RecoveryHeld
  <1> QED
    BY <1>3, <1>6, <1>8, <1>10, <1>11, <1>12, RequestStep

\* A token that is still good finds no file left, so an empty ledger is true.
LEMMA FinishHeld ==
    ASSUME QuotaInv, NEW r \in Requests, Finish(r)
    PROVE  QuotaInv'
  <1> DEFINE empty == [d \in Docs |-> "none"]
             state == IF Kind[r] = "clear" THEN "active" ELSE "none"
  <1>0. /\ Typed /\ RequestHeld(r) /\ RecoveryHeld /\ own.gen \in Nat
        /\ \A d \in Docs : DocumentHeld(d) /\ gen[d] \in Nat
    BY OwnType DEF QuotaInv, Typed
  <1>1. /\ AtFinish(r) /\ req' = [req EXCEPT ![r] = Idle]
        /\ UNCHANGED <<row, file, turn, gen, seen, rec, straddled, outrun, crashes>>
    BY DEF Finish, turns
  <1>2. req'[r] = Idle /\ \A q \in Requests \ {r} : req'[q] = req[q]
    BY <1>0, <1>1, IdleIs, OneRequest
  <1>3. RequestHeld(r)'
    <2>1. Listed(r)' = {} /\ req'[r].pc = "idle"
      BY <1>2, IdleIs DEF Listed
    <2> QED
      BY <2>1 DEF RequestHeld
  <1>4. CASE UNCHANGED <<own, moved>>
    <2>1. Typed'
      <3>1. req' \in [Requests -> RequestStates]
        BY <1>0, <1>1, IdleIs, OneRequest
      <3> QED
        BY <1>0, <1>1, <1>4, <3>1 DEF Typed
    <2> QED
      BY <1>1, <1>2, <1>3, <1>4, <2>1, ControlStep
  <1>5. CASE /\ moved[r] = {} /\ own.state = Lifecycle(r)
             /\ Cas(r, [own EXCEPT !.state = state, !.count = 0, !.ledger = empty])
    <2>1. own.state # "active" /\ state \in States
      BY <1>5 DEF Lifecycle, States
    <2>2. req[r].todo = {} /\ req[r].pc \in {"file", "finish"}
      BY <1>0, <1>1 DEF AtFinish, Emptied, RequestHeld
    <2>3. \A d \in Docs \ outrun : file[d] = "none"
      BY <1>0, <1>5, <2>2 DEF RequestHeld
    <2>4. empty \in [Docs -> Tokens]
      BY DEF Tokens
    <2>5. Counted(empty, 0)
      BY EmptyLedger
    <2> HIDE DEF empty, state
    <2>6. /\ own' = [own EXCEPT !.state = state, !.count = 0, !.ledger = empty]
          /\ moved' \in [Requests -> SUBSET {"self", "other", "begin"}] /\ Touched
      BY <1>0, <1>5, CasMoves
    <2>7. /\ own' \in Bindings /\ own'.gen = own.gen
          /\ own'.ledger = empty /\ own'.count = 0
      BY <1>0, <2>1, <2>4, <2>6, OwnType DEF Bindings
    <2>8. Typed'
      <3>1. req' \in [Requests -> RequestStates]
        BY <1>0, <1>1, IdleIs, OneRequest
      <3> QED
        BY <1>0, <1>1, <2>6, <2>7, <3>1 DEF Typed
    <2>9. ASSUME NEW d \in Docs
          PROVE  DocumentHeld(d)'
      <3>0. CASE d \in outrun
        BY <1>1, <3>0 DEF DocumentHeld
      <3>. SUFFICES ASSUME d \notin outrun
                    PROVE  DocumentHeld(d)'
        BY <3>0
      <3>1. /\ turn'[d] = turn[d] /\ gen'[d] = gen[d] /\ row'[d] = row[d]
            /\ file'[d] = "none" /\ own'.gen = own.gen
        BY <1>1, <2>3, <2>7
      <3>2. /\ turn[d] \notin Making
            /\ turn[d] \in Coming => gen[d] < own.gen
            /\ turn[d] \in {"idle", "bind", "intent"} => row[d] = "none"
        BY <1>0, <2>1 DEF DocumentHeld
      <3>3. turn[d] \in Coming => gen[d] # own.gen /\ gen[d] <= own.gen
        BY <1>0, <3>2
      <3> QED
        BY <3>1, <3>2, <3>3 DEF DocumentHeld
    <2>10. ASSUME NEW q \in Requests \ {r}
           PROVE  RequestHeld(q)'
      <3>1. RequestHeld(q) /\ req'[q] = req[q] /\ Listed(q)' = Listed(q)
        BY <1>2 DEF QuotaInv, Listed
      <3>2. req[q].pc # "idle" => moved'[q] # {}
        BY <2>6 DEF Touched
      <3>3. /\ turn' = turn /\ gen' = gen /\ file' = file /\ own'.gen = own.gen
            /\ outrun' = outrun
        BY <1>1, <2>7
      <3>4. Listed(q) \subseteq Docs
        BY <1>0 DEF Typed, RequestStates, Listed
      <3> QED
        BY <3>1, <3>2, <3>3, <3>4 DEF RequestHeld
    <2>11. RecoveryHeld'
      BY <1>0, <1>1 DEF RecoveryHeld
    <2>12. Counted(own.ledger, own.count)'
      BY <2>5, <2>7 DEF Counted, Holding, Committed
    <2> QED
      BY <1>3, <2>8, <2>9, <2>10, <2>11, <2>12 DEF QuotaInv
  <1> QED
    BY <1>4, <1>5 DEF Finish

\* No turn makes its file now, and those that come are of the old generation.
LEMMA BeginLifecycleHeld ==
    ASSUME QuotaInv, NEW r \in Requests, BeginLifecycle(r)
    PROVE  QuotaInv'
  <1> DEFINE now    == [req[r] EXCEPT !.pc = First(r)]
             ledger == Without(Pending)
             state  == Lifecycle(r)
  <1>0. /\ Typed /\ RequestHeld(r) /\ RecoveryHeld /\ Counted(own.ledger, own.count)
        /\ own.gen \in Nat /\ own.ledger \in [Docs -> Tokens] /\ req[r] \in RequestStates
        /\ \A d \in Docs : DocumentHeld(d) /\ gen[d] \in Nat
    BY OwnType DEF QuotaInv, Typed
  <1>1. /\ req[r].pc = "idle" /\ own.state = "active" /\ Uncommitted = Pending
        /\ own' = [own EXCEPT !.state = state, !.gen = @ + 1, !.ledger = ledger]
        /\ moved' = [q \in Requests |->
                        IF q = r \/ req[q].pc = "idle" THEN {} ELSE moved[q] \cup {"begin"}]
        /\ req' = [req EXCEPT ![r] = now]
        /\ straddled' = straddled \cup {d \in Docs : turn[d] \notin Ended}
        /\ UNCHANGED <<row, file, turn, gen, seen, rec, outrun, crashes>>
    BY DEF BeginLifecycle, turns
  <1>2. /\ now \in RequestStates /\ now.pc \in {"chat", "find"}
        /\ now.todo = req[r].todo /\ now.doc = req[r].doc
    <2> DEFINE pc == First(r)
    <2>1. pc \in {"chat", "find"} /\ pc \in RequestPlaces
      BY DEF First
    <2> HIDE DEF pc
    <2>2. /\ [req[r] EXCEPT !.pc = pc] \in RequestStates
          /\ [req[r] EXCEPT !.pc = pc].pc = pc
          /\ [req[r] EXCEPT !.pc = pc].todo = req[r].todo
          /\ [req[r] EXCEPT !.pc = pc].doc = req[r].doc
      BY <1>0, <2>1, GoesTo, Zenon
    <2> QED
      BY <2>1, <2>2 DEF pc
  <1>3. /\ ledger \in [Docs -> Tokens] /\ state \in States \ {"active"}
        /\ \A d \in Docs : own.ledger[d] \in {"adopting", "committed"} =>
                               ledger[d] = own.ledger[d]
        /\ Counted(ledger, own.count)
    <2>1. Counted(ledger, own.count)
      BY <1>0, DropsPending
    <2> QED
      BY <1>0, <2>1 DEF Without, Pending, Tokens, Lifecycle, States
  <1>4. \A d \in Docs : own.ledger[d] # "adopting"
    BY <1>1 DEF Uncommitted, Pending
  <1> HIDE DEF now, ledger, state
  <1>5. /\ own' \in Bindings /\ own'.state = state /\ own'.gen = own.gen + 1
        /\ own'.ledger = ledger /\ own'.count = own.count
    <2>1. own \in Bindings
      BY <1>0 DEF Typed
    <2>. own.gen + 1 \in Nat /\ state \in States /\ ledger \in [Docs -> Tokens]
      BY <1>0, <1>3
    <2>2. own' = [own EXCEPT !.state = state, !.gen = own.gen + 1, !.ledger = ledger]
      BY <1>1
    <2> QED
      BY <2>1, <2>2 DEF Bindings
  <1>6. req'[r] = now /\ \A q \in Requests \ {r} : req'[q] = req[q]
    BY <1>0, <1>1, <1>2, OneRequest
  <1>7. Typed'
    <2>1. req' \in [Requests -> RequestStates]
      BY <1>0, <1>1, <1>2, OneRequest
    <2>2. moved' \in [Requests -> SUBSET {"self", "other", "begin"}]
      BY <1>0, <1>1 DEF Typed
    <2> QED
      BY <1>0, <1>1, <1>5, <2>1, <2>2 DEF Typed
  <1>8. ASSUME NEW d \in Docs
        PROVE  DocumentHeld(d)'
    <2>0. CASE d \in outrun
      BY <1>1, <2>0 DEF DocumentHeld
    <2>. SUFFICES ASSUME d \notin outrun
                  PROVE  DocumentHeld(d)'
      BY <2>0
    <2>1. /\ turn'[d] = turn[d] /\ gen'[d] = gen[d] /\ row'[d] = row[d]
          /\ file'[d] = file[d] /\ own'.gen = own.gen + 1
      BY <1>1, <1>5
    <2>2. DocumentHeld(d) /\ (d \in outrun \/ turn[d] \notin Making)
      BY <1>0, <1>4 DEF DocumentHeld
    <2>3. turn[d] \in Coming =>
             gen[d] # own.gen + 1 /\ gen[d] <= own.gen + 1 /\ gen[d] < own.gen + 1
      <3>1. gen[d] \in Nat /\ own.gen \in Nat
        BY <1>0
      <3>2. turn[d] \in Coming => gen[d] <= own.gen
        BY <2>2 DEF DocumentHeld
      <3> QED
        BY <3>1, <3>2
    <2>4. file[d] # "none" =>
             own'.ledger[d] \in {"adopting", "committed"} /\ row[d] # "none"
      BY <1>3, <1>5, <2>2 DEF DocumentHeld
    <2> QED
      BY <2>1, <2>2, <2>3, <2>4 DEF DocumentHeld
  <1>9. ASSUME NEW q \in Requests
        PROVE  RequestHeld(q)'
    <2>1. /\ RequestHeld(q) /\ Listed(q) \subseteq Docs
      BY <1>0 DEF QuotaInv, Typed, RequestStates, Listed
    <2>2. Listed(q)' = Listed(q)
      BY <1>2, <1>6 DEF Listed
    <2>3. /\ turn' = turn /\ gen' = gen /\ file' = file /\ own'.gen = own.gen + 1
          /\ outrun' = outrun
      BY <1>1, <1>5
    <2>4. \A d \in Listed(q)' \ outrun :
             /\ turn'[d] \notin Making \cup {"idle", "bind"}
             /\ turn'[d] \in Coming => gen'[d] < own'.gen
      <3> SUFFICES ASSUME NEW d \in Listed(q) \ outrun
                   PROVE  /\ turn[d] \notin Making \cup {"idle", "bind"}
                          /\ turn[d] \in Coming => gen[d] < own.gen + 1
        BY <2>2, <2>3
      <3>1. gen[d] \in Nat /\ own.gen \in Nat
        BY <1>0, <2>1
      <3>2. /\ turn[d] \notin Making \cup {"idle", "bind"}
            /\ turn[d] \in Coming => gen[d] < own.gen
        BY <2>1 DEF RequestHeld
      <3> QED
        BY <3>1, <3>2
    <2>5. req'[q].pc \in {"file", "row", "ledger", "finish"} =>
              req'[q] = req[q] /\ moved'[q] # {}
      BY <1>1, <1>2, <1>6
    <2> QED
      BY <2>1, <2>3, <2>4, <2>5 DEF RequestHeld
  <1>10. RecoveryHeld'
    BY <1>0, <1>1 DEF RecoveryHeld
  <1>11. Counted(own.ledger, own.count)'
    BY <1>3, <1>5 DEF Counted, Holding, Committed
  <1> QED
    BY <1>7, <1>8, <1>9, <1>10, <1>11 DEF QuotaInv

LEMMA RequestKeeps ==
    ASSUME QuotaInv, NEW r \in Requests, Request(r)
    PROVE  QuotaInv'
  BY BeginLifecycleHeld, ResumeLifecycleHeld, ClearChatHeld, CheckAuthorityHeld, FindDocumentsHeld,
     DeleteFileHeld, DeleteRowHeld, ReleaseQuotaHeld, DeleteSessionHeld, FinishHeld, Zenon
  DEF Request

-----------------------------------------------------------------------------
(* The steps of the maintenance loop, and the crash.                       *)

USE DEF LoopPlaces

\* A step of the loop about one document, which it has in hand afterwards or not.
LEMMA LoopStep ==
    ASSUME QuotaInv, NEW d \in Docs, About(d), req' = req, DocumentHeld(d)', RecoveryHeld',
           turn' = turn, gen' = gen,
           file'[d] # "none" /\ d \notin outrun => file[d] # "none"
    PROVE  QuotaInv'
  <1>1. Typed' /\ Counted(own.ledger, own.count)'
    BY DEF About, LedgerStep, Counted, Holding, Committed
  <1>2. \A e \in Docs : DocumentHeld(e)'
    BY OthersHeld DEF QuotaInv
  <1>3. ASSUME NEW q \in Requests
        PROVE  RequestHeld(q)'
    <2>1. d \in Listed(q) => Untaken(d)
      BY DEF QuotaInv, RequestHeld, Untaken
    <2> QED
      BY <2>1, RequestStays DEF QuotaInv
  <1> QED
    BY <1>1, <1>2, <1>3 DEF QuotaInv

LEMMA TakeExpiredHeld ==
    ASSUME QuotaInv, NEW d \in Docs, TakeExpired(d), ~SlowTurns
    PROVE  QuotaInv'
  <1>0. Typed /\ DocumentHeld(d) /\ Counted(own.ledger, own.count)
    BY DEF QuotaInv
  <1>1. /\ rec.pc = "idle" /\ row[d] # "none" /\ ~Promoting(d)
        /\ row' = [row EXCEPT ![d] = "reconciling"]
        /\ rec' = [pc |-> "inspect", doc |-> d]
        /\ UNCHANGED <<own, file, turn, gen, seen, req, moved, straddled, outrun, crashes>>
    BY DEF TakeExpired, turns
  <1>2. row'[d] = "reconciling" /\ \A e \in Docs \ {d} : row'[e] = row[e]
    BY <1>0, <1>1 DEF Typed
  <1>3. Typed'
    BY <1>0, <1>1 DEF Typed
  <1>4. About(d)
    BY <1>0, <1>1, <1>2, <1>3, Unmoved DEF About
  <1>5. d \in outrun \/ turn[d] \notin Making \cup {"idle", "bind", "intent", "adopt"}
    BY <1>0, <1>1 DEF DocumentHeld, Promoting
  <1>6. DocumentHeld(d)'
    BY <1>0, <1>1, <1>2, <1>5 DEF DocumentHeld
  <1>7. RecoveryHeld'
    BY <1>1, <1>2, <1>5 DEF RecoveryHeld
  <1> QED
    BY <1>1, <1>4, <1>6, <1>7, LoopStep

\* What the loop says of the document it has in hand, and what its row may
\* become without harm.
LEMMA InHand ==
    ASSUME QuotaInv, rec.pc # "idle"
    PROVE  /\ rec.doc \in Docs /\ rec = [pc |-> rec.pc, doc |-> rec.doc]
           /\ \/ rec.doc \in outrun
              \/ /\ turn[rec.doc] \notin Making \cup {"idle", "bind", "intent", "adopt"}
                 /\ turn[rec.doc] \in {"reserve", "mark"} => row[rec.doc] # "intent"
                 /\ rec.pc \in {"row", "ledger"} => file[rec.doc] = "none"
           /\ DocumentHeld(rec.doc)
  BY DEF QuotaInv, RecoveryHeld, Typed

LEMMA RecoverMoves ==
    ASSUME Typed, NEW from \in LoopPlaces, NEW pc \in LoopPlaces, Recover(from, pc)
    PROVE  /\ rec.pc = from /\ rec' \in [pc: LoopPlaces, doc: Docs \cup {NoDoc}]
           /\ rec'.pc = pc /\ (pc # "idle" => rec'.doc = rec.doc)
  BY DEF Typed, Recover, Fresh

LEMMA InspectHeld ==
    ASSUME QuotaInv, Inspect
    PROVE  QuotaInv'
  <1>0. Typed /\ Counted(own.ledger, own.count)
    BY DEF QuotaInv
  <1>1. PICK pc \in {"idle", "ready", "file"} : Recover("inspect", pc)
    BY DEF Inspect
  <1>2. UNCHANGED <<own, row, file, turn, gen, seen, req, moved, straddled, outrun, crashes>>
    BY DEF Inspect, store, turns
  <1>3. /\ rec.pc = "inspect" /\ rec' \in [pc: LoopPlaces, doc: Docs \cup {NoDoc}]
        /\ rec'.pc = pc /\ (pc # "idle" => rec'.doc = rec.doc)
    BY <1>0, <1>1, RecoverMoves
  <1>. PICK d \in Docs : d = rec.doc
    BY <1>3, InHand
  <1>4. Typed'
    BY <1>0, <1>2, <1>3 DEF Typed
  <1>5. About(d)
    BY <1>0, <1>2, <1>4, Unmoved DEF About
  <1>6. RecoveryHeld'
    BY <1>1, <1>2, <1>3, InHand DEF RecoveryHeld
  <1>7. DocumentHeld(d)'
    BY <1>2, <1>3, InHand DEF DocumentHeld
  <1> QED
    BY <1>2, <1>5, <1>6, <1>7, LoopStep

\* A row that changes to another status past the intent.
LEMMA RowStep ==
    ASSUME QuotaInv, NEW d \in Docs, rec.pc # "idle", d = rec.doc, NEW status \in Statuses,
           row' = [row EXCEPT ![d] = status],
           status # "none" \/ rec.pc = "row" \/ row[d] = "none",
           status # "intent" \/ row[d] = "intent",
           UNCHANGED <<own, file, turn, gen, seen, req, moved, straddled, outrun, crashes>>,
           rec' \in [pc: LoopPlaces, doc: Docs \cup {NoDoc}],
           rec'.pc # "idle" => rec'.doc = d,
           rec'.pc \in {"row", "ledger"} => rec.pc \in {"row", "ledger"}
    PROVE  QuotaInv'
  <1>0. Typed /\ Counted(own.ledger, own.count)
    BY DEF QuotaInv
  <1>1. row'[d] = status /\ \A e \in Docs \ {d} : row'[e] = row[e]
    BY <1>0 DEF Typed
  <1>2. Typed'
    BY <1>0 DEF Typed
  <1>3. About(d)
    BY <1>0, <1>1, <1>2, Unmoved DEF About
  <1>4. /\ \/ d \in outrun
           \/ /\ turn[d] \notin Making \cup {"idle", "bind", "intent", "adopt"}
              /\ turn[d] \in {"reserve", "mark"} => row[d] # "intent"
              /\ rec.pc \in {"row", "ledger"} => file[d] = "none"
        /\ DocumentHeld(d)
    BY InHand
  <1>5. DocumentHeld(d)'
    BY <1>1, <1>4 DEF DocumentHeld
  <1>6. RecoveryHeld'
    BY <1>1, <1>4 DEF RecoveryHeld
  <1> QED
    BY <1>3, <1>5, <1>6, LoopStep

LEMMA RecoverReadyHeld ==
    ASSUME QuotaInv, RecoverReady
    PROVE  QuotaInv'
  <1>0. Typed
    BY DEF QuotaInv
  <1>1. PICK pc \in {"adopted", "idle"} : Recover("ready", pc)
    BY DEF RecoverReady
  <1>2. /\ rec.pc = "ready" /\ rec' \in [pc: LoopPlaces, doc: Docs \cup {NoDoc}]
        /\ rec'.pc = pc /\ (pc # "idle" => rec'.doc = rec.doc)
    BY <1>0, <1>1, RecoverMoves
  <1>. PICK d \in Docs : d = rec.doc
    BY <1>2, InHand
  <1> DEFINE status == IF row[d] = "reconciling" THEN "ready" ELSE row[d]
  <1>3. row[d] \in Statuses /\ status \in Statuses
    BY <1>0 DEF Typed
  <1>4. /\ row' = [row EXCEPT ![d] = status]
        /\ UNCHANGED <<own, file, turn, gen, seen, req, moved, straddled, outrun, crashes>>
    BY DEF RecoverReady, turns
  <1> QED
    BY <1>2, <1>3, <1>4, RowStep

LEMMA RecoverAdoptedHeld ==
    ASSUME QuotaInv, RecoverAdopted
    PROVE  QuotaInv'
  <1>0. Typed
    BY DEF QuotaInv
  <1>1. PICK pc \in {"commit", "idle"} : Recover("adopted", pc)
    BY DEF RecoverAdopted
  <1>2. /\ rec.pc = "adopted" /\ rec' \in [pc: LoopPlaces, doc: Docs \cup {NoDoc}]
        /\ rec'.pc = pc /\ (pc # "idle" => rec'.doc = rec.doc)
    BY <1>0, <1>1, RecoverMoves
  <1>. PICK d \in Docs : d = rec.doc
    BY <1>2, InHand
  <1> DEFINE status == IF row[d] = "ready" THEN "adopted" ELSE row[d]
  <1>3. row[d] \in Statuses /\ status \in Statuses
    BY <1>0 DEF Typed
  <1>4. /\ row' = [row EXCEPT ![d] = status]
        /\ UNCHANGED <<own, file, turn, gen, seen, req, moved, straddled, outrun, crashes>>
    BY DEF RecoverAdopted, turns
  <1> QED
    BY <1>2, <1>3, <1>4, RowStep

LEMMA RecoverRowHeld ==
    ASSUME QuotaInv, RecoverRow
    PROVE  QuotaInv'
  <1>0. Typed
    BY DEF QuotaInv
  <1>1. PICK pc \in {"ledger", "idle"} : Recover("row", pc)
    BY DEF RecoverRow
  <1>2. /\ rec.pc = "row" /\ rec' \in [pc: LoopPlaces, doc: Docs \cup {NoDoc}]
        /\ rec'.pc = pc /\ (pc # "idle" => rec'.doc = rec.doc)
    BY <1>0, <1>1, RecoverMoves
  <1>. PICK d \in Docs : d = rec.doc
    BY <1>2, InHand
  <1> DEFINE status == IF row[d] = "reconciling" THEN "none" ELSE row[d]
  <1>3. row[d] \in Statuses /\ status \in Statuses
    BY <1>0 DEF Typed
  <1>4. /\ row' = [row EXCEPT ![d] = status]
        /\ UNCHANGED <<own, file, turn, gen, seen, req, moved, straddled, outrun, crashes>>
    BY DEF RecoverRow, turns
  <1> QED
    BY <1>2, <1>3, <1>4, RowStep

LEMMA RecoverCommitHeld ==
    ASSUME QuotaInv, RecoverCommit
    PROVE  QuotaInv'
  <1>0. Typed /\ Counted(own.ledger, own.count)
    BY DEF QuotaInv
  <1>1. Recover("commit", "idle")
    BY DEF RecoverCommit
  <1>2. /\ rec.pc = "commit" /\ rec' \in [pc: LoopPlaces, doc: Docs \cup {NoDoc}]
        /\ rec'.pc = "idle"
    BY <1>0, <1>1, RecoverMoves
  <1>. PICK d \in Docs : d = rec.doc
    BY <1>2, InHand
  <1>3. LedgerStep(d) /\ (own' = own \/ own'.ledger[d] = "committed")
    BY <1>0, Unmoved, Committing DEF RecoverCommit, CanCommit
  <1>4. UNCHANGED <<row, file, turn, gen, seen, req, straddled, outrun, crashes>>
    BY DEF RecoverCommit, turns
  <1>5. Typed'
    <2>1. own' \in Bindings /\ moved' \in [Requests -> SUBSET {"self", "other", "begin"}]
      BY <1>3 DEF LedgerStep
    <2> QED
      BY <1>0, <1>2, <1>4, <2>1 DEF Typed
  <1>6. About(d)
    BY <1>3, <1>4, <1>5 DEF About
  <1>7. DocumentHeld(d)'
    <2>1. /\ turn'[d] = turn[d] /\ gen'[d] = gen[d] /\ row'[d] = row[d]
          /\ file'[d] = file[d] /\ own'.gen = own.gen /\ own'.state = own.state
          /\ outrun' = outrun
      BY <1>3, <1>4 DEF LedgerStep
    <2>2. DocumentHeld(d) /\ (d \in outrun \/ turn[d] \notin Making)
      BY <1>2, InHand
    <2> QED
      BY <1>3, <2>1, <2>2 DEF DocumentHeld
  <1>8. RecoveryHeld'
    BY <1>2 DEF RecoveryHeld
  <1> QED
    BY <1>4, <1>6, <1>7, <1>8, LoopStep

LEMMA RecoverLedgerHeld ==
    ASSUME QuotaInv, RecoverLedger
    PROVE  QuotaInv'
  <1>0. Typed /\ Counted(own.ledger, own.count)
    BY DEF QuotaInv
  <1>1. Recover("ledger", "idle")
    BY DEF RecoverLedger
  <1>2. /\ rec.pc = "ledger" /\ rec' \in [pc: LoopPlaces, doc: Docs \cup {NoDoc}]
        /\ rec'.pc = "idle"
    BY <1>0, <1>1, RecoverMoves
  <1>. PICK d \in Docs : d = rec.doc
    BY <1>2, InHand
  <1>3. LedgerStep(d)
    BY <1>0, ReservationReleased DEF RecoverLedger
  <1>4. UNCHANGED <<row, file, turn, gen, seen, req, straddled, outrun, crashes>>
    BY DEF RecoverLedger, turns
  <1>5. Typed'
    <2>1. own' \in Bindings /\ moved' \in [Requests -> SUBSET {"self", "other", "begin"}]
      BY <1>3 DEF LedgerStep
    <2> QED
      BY <1>0, <1>2, <1>4, <2>1 DEF Typed
  <1>6. About(d)
    BY <1>3, <1>4, <1>5 DEF About
  <1>7. DocumentHeld(d)'
    <2>1. /\ turn'[d] = turn[d] /\ gen'[d] = gen[d] /\ row'[d] = row[d]
          /\ file'[d] = file[d] /\ own'.gen = own.gen /\ own'.state = own.state
          /\ outrun' = outrun
      BY <1>3, <1>4 DEF LedgerStep
    <2>2. DocumentHeld(d) /\ (d \in outrun \/ (turn[d] \notin Making /\ file[d] = "none"))
      BY <1>2, InHand
    <2> QED
      BY <2>1, <2>2 DEF DocumentHeld
  <1>8. RecoveryHeld'
    BY <1>2 DEF RecoveryHeld
  <1> QED
    BY <1>4, <1>6, <1>7, <1>8, LoopStep

LEMMA RecoverFileHeld ==
    ASSUME QuotaInv, RecoverFile
    PROVE  QuotaInv'
  <1>0. Typed /\ Counted(own.ledger, own.count)
    BY DEF QuotaInv
  <1>1. Recover("file", "row")
    BY DEF RecoverFile
  <1>2. /\ rec.pc = "file" /\ rec' \in [pc: LoopPlaces, doc: Docs \cup {NoDoc}]
        /\ rec'.pc = "row" /\ rec'.doc = rec.doc
    BY <1>0, <1>1, RecoverMoves
  <1>. PICK d \in Docs : d = rec.doc
    BY <1>2, InHand
  <1>3. /\ UNCHANGED <<own, row, turn, gen, seen, req, moved, straddled, outrun, crashes>>
        /\ file' = [file EXCEPT ![d] = "none"]
    BY DEF RecoverFile, turns
  <1>4. file'[d] = "none" /\ \A e \in Docs \ {d} : file'[e] = file[e]
    BY <1>0, <1>3 DEF Typed
  <1>5. Typed'
    BY <1>0, <1>2, <1>3 DEF Typed
  <1>6. About(d)
    BY <1>0, <1>3, <1>4, <1>5, Unmoved DEF About
  <1>7. DocumentHeld(d)'
    BY <1>2, <1>3, <1>4, InHand DEF DocumentHeld
  <1>8. RecoveryHeld'
    BY <1>2, <1>3, <1>4, InHand DEF RecoveryHeld
  <1> QED
    BY <1>3, <1>4, <1>6, <1>7, <1>8, LoopStep

LEMMA SweepLedgerHeld ==
    ASSUME QuotaInv, NEW d \in Docs, SweepLedger(d)
    PROVE  QuotaInv'
  <1>0. Typed /\ Counted(own.ledger, own.count) /\ DocumentHeld(d)
    BY DEF QuotaInv
  <1>1. /\ rec.pc = "idle"
        /\ UNCHANGED <<row, file, turn, gen, seen, req, rec, straddled, outrun, crashes>>
    BY DEF SweepLedger, turns
  <1>2. LedgerStep(d) /\ (row[d] = "none" \/ (row[d] = "adopted"
                                               /\ own'.ledger[d] = "committed"))
    BY <1>0, DocumentReleased, ReservationReleased, Committing DEF SweepLedger
  <1>3. Typed'
    <2>1. own' \in Bindings /\ moved' \in [Requests -> SUBSET {"self", "other", "begin"}]
      BY <1>2 DEF LedgerStep
    <2> QED
      BY <1>0, <1>1, <2>1 DEF Typed
  <1>4. About(d)
    BY <1>1, <1>2, <1>3 DEF About
  <1>5. DocumentHeld(d)'
    <2>1. /\ turn'[d] = turn[d] /\ gen'[d] = gen[d] /\ row'[d] = row[d]
          /\ file'[d] = file[d] /\ own'.gen = own.gen /\ own'.state = own.state
          /\ outrun' = outrun
      BY <1>1, <1>2 DEF LedgerStep
    <2>2. row[d] \in {"none", "adopted"}
      BY <1>2
    <2> QED
      BY <1>0, <1>2, <2>1, <2>2 DEF DocumentHeld
  <1>6. RecoveryHeld'
    BY <1>1 DEF RecoveryHeld
  <1> QED
    BY <1>1, <1>4, <1>5, <1>6, LoopStep

\* What a crash may make of the files: one that was being deleted is lost.
LEMMA CrashLoses ==
    ASSUME Typed, Crash
    PROVE  /\ file' \in [Docs -> {"none", "torn", "whole"}]
           /\ \A d \in Docs :
                 \/ file'[d] = file[d]
                 \/ d \in Losable /\ file[d] = "whole" /\ file'[d] = "torn"
  <1>1. PICK cut \in SUBSET Losable :
            file' = [d \in Docs |-> IF d \in cut THEN "torn" ELSE file[d]]
    BY DEF Crash
  <1>2. \A d \in Losable : file[d] = "whole"
    BY DEF Losable
  <1> QED
    BY <1>1, <1>2 DEF Typed

LEMMA CrashHeld ==
    ASSUME QuotaInv, Crash
    PROVE  QuotaInv'
  <1>0. Typed /\ Counted(own.ledger, own.count) /\ \A d \in Docs : DocumentHeld(d)
    BY DEF QuotaInv
  <1>1. /\ UNCHANGED <<own, row, gen, seen, straddled, outrun>>
        /\ turn' = [d \in Docs |-> IF turn[d] \in Ended THEN turn[d] ELSE "dead"]
        /\ req' = [r \in Requests |-> Idle] /\ moved' = [r \in Requests |-> {}]
        /\ rec' = Fresh /\ crashes' = crashes + 1
    BY DEF Crash
  <1>7. file' \in [Docs -> {"none", "torn", "whole"}]
        /\ \A d \in Docs : file'[d] # "none" <=> file[d] # "none"
    BY <1>0, CrashLoses DEF Typed
  <1>2. Typed'
    <2>1. turn' \in [Docs -> TurnPlaces]
      BY <1>0, <1>1 DEF Typed
    <2>2. req' \in [Requests -> RequestStates]
      BY <1>1, IdleIs
    <2>3. rec' \in [pc: LoopPlaces, doc: Docs \cup {NoDoc}]
      BY <1>1 DEF Fresh
    <2>4. crashes' \in Nat
      <3>1. crashes \in Nat
        BY <1>0 DEF Typed
      <3>2. crashes' = crashes + 1
        BY <1>1
      <3> QED
        BY <3>1, <3>2
    <2>5. moved' \in [Requests -> SUBSET {"self", "other", "begin"}]
      BY <1>1
    <2> QED
      BY <1>0, <1>1, <1>7, <2>1, <2>2, <2>3, <2>4, <2>5 DEF Typed
  <1>3. ASSUME NEW d \in Docs
        PROVE  DocumentHeld(d)'
    <2>1. /\ \/ turn'[d] = turn[d] /\ turn[d] \in {"idle", "done", "dead"}
             \/ turn'[d] = "dead"
          /\ gen'[d] = gen[d] /\ row'[d] = row[d] /\ own' = own
          /\ outrun' = outrun /\ (file'[d] # "none" <=> file[d] # "none")
      BY <1>1, <1>7 DEF Ended
    <2> QED
      BY <1>0, <2>1 DEF DocumentHeld
  <1>4. ASSUME NEW q \in Requests
        PROVE  RequestHeld(q)'
    <2>1. Listed(q)' = {} /\ req'[q].pc = "idle"
      BY <1>1, IdleIs DEF Listed
    <2> QED
      BY <2>1 DEF RequestHeld
  <1>5. RecoveryHeld'
    BY <1>1 DEF RecoveryHeld, Fresh
  <1>6. Counted(own.ledger, own.count)'
    BY <1>0, <1>1 DEF Counted, Holding, Committed
  <1> QED
    BY <1>2, <1>3, <1>4, <1>5, <1>6 DEF QuotaInv

LEMMA StutterHeld ==
    ASSUME QuotaInv, UNCHANGED vars
    PROVE  QuotaInv'
  <1>1. Typed' /\ Counted(own.ledger, own.count)'
    BY DEF QuotaInv, Typed, Counted, Holding, Committed, vars, store, turns
  <1>2. \A d \in Docs : DocumentHeld(d)'
    BY DEF QuotaInv, DocumentHeld, vars, store, turns
  <1>3. \A q \in Requests : RequestHeld(q)'
    BY DEF QuotaInv, RequestHeld, Listed, Lifecycle, vars, store, turns
  <1>4. RecoveryHeld'
    BY DEF QuotaInv, RecoveryHeld, vars, store, turns
  <1> QED
    BY <1>1, <1>2, <1>3, <1>4 DEF QuotaInv

LEMMA QuotaStep ==
    ASSUME QuotaInv, ~SlowTurns, [Next]_vars
    PROVE  QuotaInv'
  BY TurnKeeps, RequestKeeps, TakeExpiredHeld, SweepLedgerHeld, InspectHeld,
     RecoverReadyHeld, RecoverAdoptedHeld, RecoverCommitHeld, RecoverFileHeld,
     RecoverRowHeld, RecoverLedgerHeld, CrashHeld, StutterHeld, Zenon
  DEF Next, Maintenance, Reconcile

LEMMA QuotaInit ==
    ASSUME Init
    PROVE  QuotaInv
  <1>1. Typed
    BY IdleIs DEF Init, Typed, Bindings, States, Tokens, Fresh
  <1>2. \A d \in Docs : DocumentHeld(d)
    BY DEF Init, DocumentHeld
  <1>3. ASSUME NEW q \in Requests
        PROVE  RequestHeld(q)
    <2>1. Listed(q) = {} /\ req[q].pc = "idle"
      BY IdleIs DEF Init, Listed
    <2> QED
      BY <2>1 DEF RequestHeld
  <1>4. RecoveryHeld
    BY DEF Init, RecoveryHeld, Fresh
  <1>5. Counted(own.ledger, own.count)
    BY EmptyLedger DEF Init
  <1> QED
    BY <1>1, <1>2, <1>3, <1>4, <1>5 DEF QuotaInv

\* A file has a token, so the files are no more than the tokens.
LEMMA QuotaBounds ==
    ASSUME QuotaInv
    PROVE  QuotaHolds
  <1> DEFINE files == {d \in Docs \ outrun : file[d] # "none"}
  <1>1. \A d \in Docs \ outrun : file[d] # "none" =>
           own.ledger[d] \in {"adopting", "committed"} /\ row[d] # "none"
    BY DEF QuotaInv, DocumentHeld
  <1>2. files \in SUBSET Holding(own.ledger)
    BY <1>1 DEF Holding
  <1>3. /\ IsFiniteSet(Holding(own.ledger)) /\ Cardinality(Holding(own.ledger)) <= Quota
        /\ Cardinality(Holding(own.ledger)) \in Nat /\ Quota \in Nat
        /\ own.count = Cardinality(Committed(own.ledger))
    BY OwnType, Counts DEF QuotaInv
  <1>4. /\ Cardinality(files) <= Cardinality(Holding(own.ledger))
        /\ Cardinality(files) \in Nat
    BY <1>2, <1>3, FS_Subset, FS_CardinalityType
  <1>5. Cardinality(files) <= Quota
    BY <1>3, <1>4
  <1> QED
    BY <1>1, <1>3, <1>5 DEF QuotaHolds, FileCharged, CountExact, Committed

(* However many uploads, requests, crashes and sweeps of the maintenance    *)
(* loop there are, bytes on disk have a ledger token that time alone does   *)
(* not release and a row, the files of a session are at most its quota, and *)
(* the counter is the number of committed documents, provided that no live  *)
(* promotion outlasts its lease.  Excepted are documents that a clear or    *)
(* delete listed after another had ended the one it was to do               *)
(* (session_ownership.py, media/documents.py, media/document_storage.py).   *)
THEOREM QuotaKept ==
    ASSUME ~SlowTurns
    PROVE  Spec => []QuotaHolds
  <1>1. Init => QuotaInv
    BY QuotaInit
  <1>2. QuotaInv /\ [Next]_vars => QuotaInv'
    BY QuotaStep
  <1>3. QuotaInv => QuotaHolds
    BY QuotaBounds
  <1> QED
    BY <1>1, <1>2, <1>3, PTL DEF Spec

-----------------------------------------------------------------------------
(* The history.  Every save writes the whole history as its turn loaded it, *)
(* so what a file may still be needed for is in the history and in the      *)
(* memory of every running turn.  The invariant says which documents the    *)
(* history will never name again (Lost), and that only those, or those of a *)
(* turn that straddles a clear, are without their bytes.                    *)

Running(e) == turn[e] \notin Ended
Covered(d) == d \in outrun \/ \E e \in straddled : d \in mem[e]
AllCovered == \A d \in history : Covered(d)

\* Known beyond the document's own turn.
Elsewhere(d) ==
    d \in history \/ \E e \in Docs \ {d} : Running(e) /\ d \in mem[e]

Saved      == {"mark adopted", "commit", "answer"}
Unfinished == {"reserve", "mark", "undo row", "undo ledger", "rb file", "rb row",
               "rb ledger"}
Kept       == {"finalize", "save"} \cup Saved
Past       == Unfinished \cup {"done", "dead"}

Lost(d) ==
    \/ Covered(d)
    \/ /\ turn[d] \in Past
       /\ ~Elsewhere(d)
       /\ turn[d] \in {"reserve", "mark"} => row[d] # "intent"

Remembered == mem \in [Docs -> SUBSET Docs] /\ history \subseteq Docs

\* What a turn has in memory: nobody knows its document before it saves, and of
\* a dead turn's document every running turn knows what the history does.
TurnRemembers(d) ==
    /\ Running(d) /\ own.state # "active" => d \in straddled
    /\ turn[d] = "idle" => d \notin straddled
    /\ turn[d] # "idle" => d \in mem[d]
    /\ turn[d] \notin Saved \cup {"done", "dead"} =>
          d \notin history /\ \A e \in Docs \ {d} : d \notin mem[e]
    /\ turn[d] = "dead" =>
          Covered(d) \/ \A e \in Docs : Running(e) => (d \in mem[e] <=> d \in history)

\* Unless a clear came between, a turn finds its file and row as it left them.
StoresAgree(d) ==
    Covered(d) \/
    /\ turn[d] \in Kept => file[d] = "whole"
    /\ turn[d] \in {"save", "mark adopted"} => row[d] = "ready"
    /\ turn[d] \in {"commit", "answer"} => row[d] = "adopted"
    /\ turn[d] = "rb ledger" => row[d] = "none"
    /\ turn[d] = "done" => row[d] \in {"none", "adopted"}

Served(d) ==
    own.state \in {"active", "clearing"} /\ Elsewhere(d) =>
        Covered(d) \/ file[d] = "whole"

\* What a clear deletes is lost already; a delete need not care.
RequestForgets(r) ==
    /\ req[r].pc # "idle" /\ Kind[r] = "delete" => own.state \in {"deleting", "none"}
    /\ req[r].pc = "finish" => Kind[r] = "delete"
    /\ req[r].pc = "chat" => Kind[r] = "clear"
    /\ /\ req[r].pc \in {"find", "list", "file", "row", "ledger"}
       /\ own.state = "clearing" /\ "begin" \notin moved[r]
       => AllCovered
    /\ req[r].pc = "finish" /\ own.state = "deleting" => AllCovered
    /\ req[r].pc = "chat" /\ own.state = "active" =>
          \A d \in Docs : turn[d] = "dead" => Lost(d)
    /\ Kind[r] = "clear" => \A d \in Listed(r) : Lost(d)

\* The loop works on documents of dead turns and on lost ones, and deletes the
\* file of a lost one only.
RecoveryForgets ==
    /\ rec.pc # "idle" => turn[rec.doc] = "dead" \/ Lost(rec.doc)
    /\ rec.pc = "file" => own.state \in {"deleting", "none"} \/ Lost(rec.doc)

ServedInv ==
    /\ Remembered
    /\ \A d \in Docs : TurnRemembers(d) /\ StoresAgree(d) /\ Served(d)
    /\ own.state = "none" => AllCovered
    /\ \A r \in Requests : RequestForgets(r)
    /\ RecoveryForgets

-----------------------------------------------------------------------------
(* What the parts of the invariant depend on.                              *)

HIDE DEF Making, Bare, Coming, TurnPlaces, Statuses, Go, RequestPlaces, Working,
         Becomes, To, LoopPlaces

\* A step that leaves the history, what turns have loaded and the lifecycle.
Quiet ==
    UNCHANGED <<history, mem, straddled>> /\ own'.state = own.state /\ outrun \subseteq outrun'

\* A turn on its way out does not come back.
NoWayBack(d) ==
    turn[d] \in Past /\ (turn[d] \in {"reserve", "mark"} => row[d] # "intent") =>
        turn'[d] \in Past /\ (turn'[d] \in {"reserve", "mark"} => row'[d] # "intent")

SameDocument(d) == turn'[d] = turn[d] /\ row'[d] = row[d] /\ file'[d] = file[d]

LEMMA QuietCovered ==
    ASSUME Quiet
    PROVE  (\A d : Covered(d) => Covered(d)') /\ (AllCovered => AllCovered')
  BY DEF Quiet, Covered, AllCovered

LEMMA LostStays ==
    ASSUME NEW d, Lost(d), NoWayBack(d), Covered(d) => Covered(d)',
           turn[d] \in Past => (Elsewhere(d)' => Elsewhere(d))
    PROVE  Lost(d)'
  BY DEF Lost, NoWayBack

\* A request that waits, and the loop between its steps.
LEMMA RequestWaits ==
    ASSUME NEW q \in Requests, RequestForgets(q), req'[q] = req[q],
           own'.state = own.state, NoDoc \notin Docs,
           req[q].todo \subseteq Docs,
           req[q].pc # "idle" /\ "begin" \in moved[q] => "begin" \in moved'[q],
           \A d \in Docs : Lost(d) => Lost(d)',
           \A d \in Docs : turn'[d] = "dead" => turn[d] = "dead",
           own.state # "active" /\ AllCovered => AllCovered'
    PROVE  RequestForgets(q)'
  <1>1. Listed(q)' = Listed(q) /\ Listed(q) \subseteq Docs
    BY DEF Listed
  <1>2. Kind[q] = "clear" => \A d \in Listed(q)' : Lost(d)'
    BY <1>1 DEF RequestForgets
  <1>3. req'[q].pc = "chat" /\ own'.state = "active" =>
            \A d \in Docs : turn'[d] = "dead" => Lost(d)'
    BY DEF RequestForgets
  <1> QED
    BY <1>2, <1>3 DEF RequestForgets

LEMMA LoopWaits ==
    ASSUME RecoveryForgets, rec' = rec, own'.state = own.state,
           rec.pc # "idle" => rec.doc \in Docs,
           \A d \in Docs : Lost(d) => Lost(d)',
           \A d \in Docs : turn[d] = "dead" => turn'[d] = "dead"
    PROVE  RecoveryForgets'
  BY DEF RecoveryForgets

\* A turn keeps what it remembers as long as nothing is loaded, saved or begun.
LEMMA QuietRemembers ==
    ASSUME ServedInv, Quiet, NEW d \in Docs,
           turn'[d] # turn[d] => turn'[d] \notin {"idle", "dead"} /\ Running(d),
           turn'[d] \notin Saved \cup {"done", "dead"} =>
               turn[d] \notin Saved \cup {"done", "dead"},
           \A e \in Docs : Running(e)' => Running(e)
    PROVE  TurnRemembers(d)'
  <1>1. TurnRemembers(d) /\ (Covered(d) => Covered(d)')
    BY QuietCovered DEF ServedInv
  <1>2. mem' = mem /\ history' = history /\ straddled' = straddled
    BY DEF Quiet
  <1>3. turn'[d] = "idle" => turn[d] = "idle"
    OBVIOUS
  <1>4. turn[d] = "idle" => ~Running(d)
    BY DEF Running, Ended
  <1>5. turn'[d] # "idle" => turn[d] # "idle"
    BY <1>4
  <1>6. turn'[d] = "dead" => turn[d] = "dead"
    OBVIOUS
  <1>7. Running(d)' => Running(d)
    OBVIOUS
  <1> QED
    BY <1>1, <1>2, <1>3, <1>5, <1>6, <1>7 DEF TurnRemembers, Quiet

LEMMA QuietElsewhere ==
    ASSUME Quiet, \A e \in Docs : Running(e)' => Running(e)
    PROVE  \A d : Elsewhere(d)' => Elsewhere(d)
  BY DEF Quiet, Elsewhere

\* The steps that only move control and stores.
LEMMA QuietStep ==
    ASSUME QuotaInv, ServedInv, Quiet,
           \A d \in Docs :
              /\ turn'[d] # turn[d] => turn'[d] \notin {"idle", "dead"} /\ Running(d)
              /\ turn'[d] \notin Saved \cup {"done", "dead"} =>
                    turn[d] \notin Saved \cup {"done", "dead"}
              /\ NoWayBack(d)
              /\ StoresAgree(d)'
              /\ file[d] = "whole" /\ file'[d] # "whole" =>
                    Covered(d) \/ ~Elsewhere(d) \/ own.state \in {"deleting", "none"},
           \A q \in Requests :
              \/ /\ req'[q] = req[q]
                 /\ req[q].pc # "idle" /\ "begin" \in moved[q] => "begin" \in moved'[q]
              \/ (\A d \in Docs : Lost(d) => Lost(d)') => RequestForgets(q)',
           rec' = rec \/ ((\A d \in Docs : Lost(d) => Lost(d)') => RecoveryForgets')
    PROVE  ServedInv'
  <1>1. \A e \in Docs : Running(e)' => Running(e)
    BY DEF Running
  <1>2. \A d \in Docs : (turn[d] = "dead" => turn'[d] = "dead")
                        /\ (turn'[d] = "dead" => turn[d] = "dead")
    BY DEF Running, Ended
  <1>3. \A d \in Docs : TurnRemembers(d)'
    BY <1>1, QuietRemembers
  <1>4. \A d \in Docs : Served(d)'
    BY <1>1, QuietElsewhere, QuietCovered DEF ServedInv, Served, Quiet
  <1>5. \A d \in Docs : Lost(d) => Lost(d)'
    BY <1>1, QuietElsewhere, QuietCovered, LostStays
  <1>6. Remembered' /\ (own'.state = "none" => AllCovered')
    BY QuietCovered DEF ServedInv, Remembered, Quiet
  <1>7. ASSUME NEW q \in Requests
        PROVE  RequestForgets(q)'
    <2>1. RequestForgets(q) /\ req[q].todo \subseteq Docs /\ NoDoc \notin Docs
      BY RequestType, SessionAssumption DEF ServedInv, QuotaInv
    <2>2. own'.state = own.state /\ (AllCovered => AllCovered')
      BY QuietCovered DEF Quiet
    <2> QED
      BY <1>2, <1>5, <2>1, <2>2, RequestWaits
  <1>8. RecoveryForgets'
    <2>1. RecoveryForgets /\ own'.state = own.state /\ (rec.pc # "idle" => rec.doc \in Docs)
      BY DEF ServedInv, Quiet, QuotaInv, RecoveryHeld
    <2> QED
      BY <1>2, <1>5, <2>1, LoopWaits
  <1> QED
    BY <1>3, <1>4, <1>6, <1>7, <1>8 DEF ServedInv

LEMMA SameAgrees ==
    ASSUME ServedInv, Quiet, NEW d \in Docs, SameDocument(d)
    PROVE  /\ turn'[d] = turn[d] /\ NoWayBack(d) /\ StoresAgree(d)'
           /\ ~(file[d] = "whole" /\ file'[d] # "whole")
  BY QuietCovered DEF SameDocument, NoWayBack, StoresAgree, ServedInv

\* No update of the binding but a begin takes the mark of one away.
Marked ==
    \A q \in Requests : req[q].pc # "idle" /\ "begin" \in moved[q] => "begin" \in moved'[q]

LEMMA CasMarks ==
    ASSUME Typed, NEW actor, NEW value, Cas(actor, value), value.state = own.state
    PROVE  Marked /\ own'.state = own.state
  BY DEF Cas, Marked, Typed

LEMMA UnmovedMarks ==
    ASSUME UNCHANGED <<own, moved>>
    PROVE  Marked /\ own'.state = own.state
  BY DEF Marked


-----------------------------------------------------------------------------
(* The steps of a turn.                                                    *)

\* What a step of a turn is to do: the places and what they promise.
LEMMA QuietTurn ==
    ASSUME QuotaInv, ServedInv, NEW d \in Docs, Quiet, req' = req, rec' = rec, Marked,
           \A e \in Docs \ {d} : SameDocument(e),
           turn[d] \notin Ended, turn'[d] \notin {"idle", "dead"},
           turn'[d] \notin Saved \cup {"done"} => turn[d] \notin Saved,
           NoWayBack(d), StoresAgree(d)',
           file[d] = "whole" /\ file'[d] # "whole" => ~Elsewhere(d)
    PROVE  ServedInv'
  <1>1. \A e \in Docs \ {d} :
           /\ turn'[e] = turn[e] /\ NoWayBack(e) /\ StoresAgree(e)'
           /\ ~(file[e] = "whole" /\ file'[e] # "whole")
    BY SameAgrees
  <1>2. /\ Running(d)
        /\ turn'[d] \notin Saved \cup {"done", "dead"} =>
              turn[d] \notin Saved \cup {"done", "dead"}
    BY DEF Running, Ended
  <1>3. ASSUME NEW e \in Docs
        PROVE  /\ turn'[e] # turn[e] => turn'[e] \notin {"idle", "dead"} /\ Running(e)
               /\ turn'[e] \notin Saved \cup {"done", "dead"} =>
                     turn[e] \notin Saved \cup {"done", "dead"}
               /\ NoWayBack(e)
               /\ StoresAgree(e)'
               /\ file[e] = "whole" /\ file'[e] # "whole" =>
                     Covered(e) \/ ~Elsewhere(e) \/ own.state \in {"deleting", "none"}
    <2>1. CASE e = d
      BY <1>2, <2>1
    <2>2. CASE e # d
      BY <1>1, <2>2
    <2> QED
      BY <2>1, <2>2
  <1>4. \A q \in Requests :
           /\ req'[q] = req[q]
           /\ req[q].pc # "idle" /\ "begin" \in moved[q] => "begin" \in moved'[q]
    BY DEF Marked
  <1> QED
    BY <1>3, <1>4, QuietStep

\* The same, said of a document that is not covered.
LEMMA Agrees ==
    ASSUME Quiet, NEW d \in Docs,
           ~Covered(d) =>
              /\ turn'[d] \in Kept => file'[d] = "whole"
              /\ turn'[d] \in {"save", "mark adopted"} => row'[d] = "ready"
              /\ turn'[d] \in {"commit", "answer"} => row'[d] = "adopted"
              /\ turn'[d] = "rb ledger" => row'[d] = "none"
              /\ turn'[d] = "done" => row'[d] \in {"none", "adopted"}
    PROVE  StoresAgree(d)'
  BY QuietCovered DEF StoresAgree

\* An unsaved document is nobody else's.
LEMMA Unknown ==
    ASSUME ServedInv, NEW d \in Docs, turn[d] \notin Saved \cup {"done", "dead"}
    PROVE  ~Elsewhere(d)
  BY DEF ServedInv, TurnRemembers, Elsewhere


LEMMA ReadBindingServed ==
    ASSUME QuotaInv, ServedInv, NEW d \in Docs, ReadBinding(d)
    PROVE  ServedInv'
  <1>1. /\ UNCHANGED <<own, moved, req, rec, history, mem, straddled, outrun>>
        /\ \A e \in Docs \ {d} : SameDocument(e)
    BY DEF QuotaInv, Typed, ReadBinding, Go, store, SameDocument
  <1>2. /\ turn[d] = "bind"
        /\ turn'[d] = IF own.state = "active" THEN "intent" ELSE "done"
        /\ row'[d] = row[d]
        /\ file'[d] = file[d]
    BY DEF QuotaInv, Typed, ReadBinding, Go, store
  <1>3. Quiet /\ Marked
    BY <1>1, UnmovedMarks DEF Quiet
  <1>4. StoresAgree(d)'
    BY <1>2, <1>3, Agrees DEF ServedInv, StoresAgree, Kept, Saved, QuotaInv, DocumentHeld, Covered
  <1>5. NoWayBack(d)
    BY <1>2 DEF NoWayBack, Past, Unfinished
  <1>6. turn[d] \notin Saved => ~Elsewhere(d)
    BY <1>2, Unknown
  <1> QED
    BY <1>1, <1>2, <1>3, <1>4, <1>5, <1>6, QuietTurn DEF Ended, Saved

LEMMA SaveIntentServed ==
    ASSUME QuotaInv, ServedInv, NEW d \in Docs, SaveIntent(d)
    PROVE  ServedInv'
  <1>1. /\ UNCHANGED <<own, moved, req, rec, history, mem, straddled, outrun>>
        /\ \A e \in Docs \ {d} : SameDocument(e)
    BY DEF QuotaInv, Typed, SaveIntent, Go, store, SameDocument
  <1>2. /\ turn[d] = "intent"
        /\ turn'[d] = "reserve"
        /\ row'[d] = "intent"
        /\ file'[d] = file[d]
    BY DEF QuotaInv, Typed, SaveIntent, Go, store
  <1>3. Quiet /\ Marked
    BY <1>1, UnmovedMarks DEF Quiet
  <1>4. StoresAgree(d)'
    BY <1>2, <1>3, Agrees DEF ServedInv, StoresAgree, Kept, Saved, QuotaInv, DocumentHeld
  <1>5. NoWayBack(d)
    BY <1>2 DEF NoWayBack, Past, Unfinished
  <1>6. turn[d] \notin Saved => ~Elsewhere(d)
    BY <1>2, Unknown
  <1> QED
    BY <1>1, <1>2, <1>3, <1>4, <1>5, <1>6, QuietTurn DEF Ended, Saved

LEMMA MarkPendingServed ==
    ASSUME QuotaInv, ServedInv, NEW d \in Docs, MarkPending(d)
    PROVE  ServedInv'
  <1>1. /\ UNCHANGED <<own, moved, req, rec, history, mem, straddled, outrun>>
        /\ \A e \in Docs \ {d} : SameDocument(e)
    BY DEF QuotaInv, Typed, MarkPending, Go, store, SameDocument
  <1>2. /\ turn[d] = "mark"
        /\ turn'[d] = IF row[d] = "intent" THEN "adopt" ELSE "undo row"
        /\ row'[d] = IF row[d] = "intent" THEN "pending" ELSE row[d]
        /\ file'[d] = file[d]
    BY DEF QuotaInv, Typed, MarkPending, Go, store
  <1>3. Quiet /\ Marked
    BY <1>1, UnmovedMarks DEF Quiet
  <1>4. StoresAgree(d)'
    BY <1>2, <1>3, Agrees DEF ServedInv, StoresAgree, Kept, Saved, QuotaInv, DocumentHeld
  <1>5. NoWayBack(d)
    BY <1>2 DEF NoWayBack, Past, Unfinished
  <1>6. turn[d] \notin Saved => ~Elsewhere(d)
    BY <1>2, Unknown
  <1> QED
    BY <1>1, <1>2, <1>3, <1>4, <1>5, <1>6, QuietTurn DEF Ended, Saved

LEMMA UndoRowServed ==
    ASSUME QuotaInv, ServedInv, NEW d \in Docs, UndoRow(d)
    PROVE  ServedInv'
  <1>1. /\ UNCHANGED <<own, moved, req, rec, history, mem, straddled, outrun>>
        /\ \A e \in Docs \ {d} : SameDocument(e)
    BY DEF QuotaInv, Typed, UndoRow, Go, store, SameDocument
  <1>2. /\ turn[d] = "undo row"
        /\ turn'[d] = "undo ledger"
        /\ row'[d] = IF row[d] \in {"intent", "pending"} THEN "none" ELSE row[d]
        /\ file'[d] = file[d]
    BY DEF QuotaInv, Typed, UndoRow, Go, store
  <1>3. Quiet /\ Marked
    BY <1>1, UnmovedMarks DEF Quiet
  <1>4. StoresAgree(d)'
    BY <1>2, <1>3, Agrees DEF ServedInv, StoresAgree, Kept, Saved, QuotaInv, DocumentHeld
  <1>5. NoWayBack(d)
    BY <1>2 DEF NoWayBack, Past, Unfinished
  <1>6. turn[d] \notin Saved => ~Elsewhere(d)
    BY <1>2, Unknown
  <1> QED
    BY <1>1, <1>2, <1>3, <1>4, <1>5, <1>6, QuietTurn DEF Ended, Saved

LEMMA CreateFileServed ==
    ASSUME QuotaInv, ServedInv, NEW d \in Docs, CreateFile(d)
    PROVE  ServedInv'
  <1>1. /\ UNCHANGED <<own, moved, req, rec, history, mem, straddled, outrun>>
        /\ \A e \in Docs \ {d} : SameDocument(e)
    BY DEF QuotaInv, Typed, CreateFile, Go, store, SameDocument
  <1>2. /\ turn[d] = "create"
        /\ turn'[d] = "write"
        /\ row'[d] = row[d]
        /\ file'[d] = "torn"
    BY DEF QuotaInv, Typed, CreateFile, Go, store
  <1>3. Quiet /\ Marked
    BY <1>1, UnmovedMarks DEF Quiet
  <1>4. StoresAgree(d)'
    BY <1>2, <1>3, Agrees DEF ServedInv, StoresAgree, Kept, Saved, QuotaInv, DocumentHeld
  <1>5. NoWayBack(d)
    BY <1>2 DEF NoWayBack, Past, Unfinished
  <1>6. turn[d] \notin Saved => ~Elsewhere(d)
    BY <1>2, Unknown
  <1> QED
    BY <1>1, <1>2, <1>3, <1>4, <1>5, <1>6, QuietTurn DEF Ended, Saved

LEMMA WriteFileServed ==
    ASSUME QuotaInv, ServedInv, NEW d \in Docs, WriteFile(d)
    PROVE  ServedInv'
  <1>1. /\ UNCHANGED <<own, moved, req, rec, history, mem, straddled, outrun>>
        /\ \A e \in Docs \ {d} : SameDocument(e)
    BY DEF QuotaInv, Typed, WriteFile, Go, store, SameDocument
  <1>2. /\ turn[d] = "write"
        /\ turn'[d] = "finalize"
        /\ row'[d] = row[d]
        /\ file'[d] = "whole"
    BY DEF QuotaInv, Typed, WriteFile, Go, store
  <1>3. Quiet /\ Marked
    BY <1>1, UnmovedMarks DEF Quiet
  <1>4. StoresAgree(d)'
    BY <1>2, <1>3, Agrees DEF ServedInv, StoresAgree, Kept, Saved, QuotaInv, DocumentHeld
  <1>5. NoWayBack(d)
    BY <1>2 DEF NoWayBack, Past, Unfinished
  <1>6. turn[d] \notin Saved => ~Elsewhere(d)
    BY <1>2, Unknown
  <1> QED
    BY <1>1, <1>2, <1>3, <1>4, <1>5, <1>6, QuietTurn DEF Ended, Saved

LEMMA FinalizeServed ==
    ASSUME QuotaInv, ServedInv, NEW d \in Docs, Finalize(d)
    PROVE  ServedInv'
  <1>1. /\ UNCHANGED <<own, moved, req, rec, history, mem, straddled, outrun>>
        /\ \A e \in Docs \ {d} : SameDocument(e)
    BY DEF QuotaInv, Typed, Finalize, Go, store, SameDocument
  <1>2. /\ turn[d] = "finalize"
        /\ turn'[d] = IF row[d] = "pending" THEN "save" ELSE "rb file"
        /\ row'[d] = IF row[d] = "pending" THEN "ready" ELSE row[d]
        /\ file'[d] = file[d]
    BY DEF QuotaInv, Typed, Finalize, Go, store
  <1>3. Quiet /\ Marked
    BY <1>1, UnmovedMarks DEF Quiet
  <1>4. StoresAgree(d)'
    BY <1>2, <1>3, Agrees DEF ServedInv, StoresAgree, Kept, Saved, QuotaInv, DocumentHeld
  <1>5. NoWayBack(d)
    BY <1>2 DEF NoWayBack, Past, Unfinished
  <1>6. turn[d] \notin Saved => ~Elsewhere(d)
    BY <1>2, Unknown
  <1> QED
    BY <1>1, <1>2, <1>3, <1>4, <1>5, <1>6, QuietTurn DEF Ended, Saved

LEMMA MarkAdoptedServed ==
    ASSUME QuotaInv, ServedInv, NEW d \in Docs, MarkAdopted(d)
    PROVE  ServedInv'
  <1>1. /\ UNCHANGED <<own, moved, req, rec, history, mem, straddled, outrun>>
        /\ \A e \in Docs \ {d} : SameDocument(e)
    BY DEF QuotaInv, Typed, MarkAdopted, Go, store, SameDocument
  <1>2. /\ turn[d] = "mark adopted"
        /\ turn'[d] = IF row[d] \in {"ready", "adopted"} THEN "commit"
                       ELSE "answer"
        /\ row'[d] = IF row[d] = "ready" THEN "adopted" ELSE row[d]
        /\ file'[d] = file[d]
    BY DEF QuotaInv, Typed, MarkAdopted, Go, store
  <1>3. Quiet /\ Marked
    BY <1>1, UnmovedMarks DEF Quiet
  <1>4. StoresAgree(d)'
    BY <1>2, <1>3, Agrees DEF ServedInv, StoresAgree, Kept, Saved, QuotaInv, DocumentHeld
  <1>5. NoWayBack(d)
    BY <1>2 DEF NoWayBack, Past, Unfinished
  <1>6. turn[d] \notin Saved => ~Elsewhere(d)
    BY <1>2, Unknown
  <1> QED
    BY <1>1, <1>2, <1>3, <1>4, <1>5, <1>6, QuietTurn DEF Ended, Saved

LEMMA AbandonServed ==
    ASSUME QuotaInv, ServedInv, NEW d \in Docs, Abandon(d)
    PROVE  ServedInv'
  <1>1. /\ UNCHANGED <<own, moved, req, rec, history, mem, straddled, outrun>>
        /\ \A e \in Docs \ {d} : SameDocument(e)
    BY DEF QuotaInv, Typed, Abandon, Go, store, SameDocument
  <1>2. /\ turn[d] \in {"create", "write", "finalize", "save"}
        /\ turn'[d] = "rb file"
        /\ row'[d] = row[d]
        /\ file'[d] = file[d]
    BY DEF QuotaInv, Typed, Abandon, Go, store
  <1>3. Quiet /\ Marked
    BY <1>1, UnmovedMarks DEF Quiet
  <1>4. StoresAgree(d)'
    BY <1>2, <1>3, Agrees DEF ServedInv, StoresAgree, Kept, Saved, QuotaInv, DocumentHeld
  <1>5. NoWayBack(d)
    BY <1>2 DEF NoWayBack, Past, Unfinished
  <1>6. turn[d] \notin Saved => ~Elsewhere(d)
    BY <1>2, Unknown
  <1> QED
    BY <1>1, <1>2, <1>3, <1>4, <1>5, <1>6, QuietTurn DEF Ended, Saved

LEMMA RollbackFileServed ==
    ASSUME QuotaInv, ServedInv, NEW d \in Docs, RollbackFile(d)
    PROVE  ServedInv'
  <1>1. /\ UNCHANGED <<own, moved, req, rec, history, mem, straddled, outrun>>
        /\ \A e \in Docs \ {d} : SameDocument(e)
    BY DEF QuotaInv, Typed, RollbackFile, Go, store, SameDocument
  <1>2. /\ turn[d] = "rb file"
        /\ turn'[d] = "rb row"
        /\ row'[d] = row[d]
        /\ file'[d] = "none"
    BY DEF QuotaInv, Typed, RollbackFile, Go, store
  <1>3. Quiet /\ Marked
    BY <1>1, UnmovedMarks DEF Quiet
  <1>4. StoresAgree(d)'
    BY <1>2, <1>3, Agrees DEF ServedInv, StoresAgree, Kept, Saved, QuotaInv, DocumentHeld
  <1>5. NoWayBack(d)
    BY <1>2 DEF NoWayBack, Past, Unfinished
  <1>6. turn[d] \notin Saved => ~Elsewhere(d)
    BY <1>2, Unknown
  <1> QED
    BY <1>1, <1>2, <1>3, <1>4, <1>5, <1>6, QuietTurn DEF Ended, Saved

LEMMA RollbackRowServed ==
    ASSUME QuotaInv, ServedInv, NEW d \in Docs, RollbackRow(d)
    PROVE  ServedInv'
  <1>1. /\ UNCHANGED <<own, moved, req, rec, history, mem, straddled, outrun>>
        /\ \A e \in Docs \ {d} : SameDocument(e)
    BY DEF QuotaInv, Typed, RollbackRow, Go, store, SameDocument
  <1>2. /\ turn[d] = "rb row"
        /\ turn'[d] = IF row[d] = "none" THEN "done" ELSE "rb ledger"
        /\ row'[d] = "none"
        /\ file'[d] = file[d]
    BY DEF QuotaInv, Typed, RollbackRow, Go, store
  <1>3. Quiet /\ Marked
    BY <1>1, UnmovedMarks DEF Quiet
  <1>4. StoresAgree(d)'
    BY <1>2, <1>3, Agrees DEF ServedInv, StoresAgree, Kept, Saved, QuotaInv, DocumentHeld
  <1>5. NoWayBack(d)
    BY <1>2 DEF NoWayBack, Past, Unfinished
  <1>6. turn[d] \notin Saved => ~Elsewhere(d)
    BY <1>2, Unknown
  <1> QED
    BY <1>1, <1>2, <1>3, <1>4, <1>5, <1>6, QuietTurn DEF Ended, Saved

LEMMA ReserveIntentServed ==
    ASSUME QuotaInv, ServedInv, NEW d \in Docs, ReserveIntent(d)
    PROVE  ServedInv'
  <1>0. Typed
    BY DEF QuotaInv
  <1>1. /\ UNCHANGED <<row, file, req, rec, history, mem, straddled, outrun>>
        /\ turn[d] = "reserve" /\ turn'[d] \in {"mark", "undo row"}
        /\ \A e \in Docs \ {d} : SameDocument(e)
    BY <1>0 DEF Typed, ReserveIntent, Go, SameDocument
  <1>2. Marked /\ own'.state = own.state
    BY <1>0, CasMarks, UnmovedMarks, OwnType DEF ReserveIntent
  <1>3. Quiet
    BY <1>1, <1>2 DEF Quiet
  <1>4. StoresAgree(d)'
    BY <1>1, <1>3, Agrees DEF ServedInv, StoresAgree, Kept, Saved
  <1>5. NoWayBack(d)
    BY <1>1 DEF NoWayBack, Past, Unfinished
  <1> QED
    BY <1>1, <1>2, <1>3, <1>4, <1>5, QuietTurn DEF Ended, Saved

LEMMA AdoptReservationServed ==
    ASSUME QuotaInv, ServedInv, NEW d \in Docs, AdoptReservation(d)
    PROVE  ServedInv'
  <1>0. Typed
    BY DEF QuotaInv
  <1>1. /\ UNCHANGED <<row, file, req, rec, history, mem, straddled, outrun>>
        /\ turn[d] = "adopt" /\ turn'[d] \in {"create", "undo row"}
        /\ \A e \in Docs \ {d} : SameDocument(e)
    BY <1>0 DEF Typed, AdoptReservation, Go, SameDocument
  <1>2. Marked /\ own'.state = own.state
    BY <1>0, CasMarks, UnmovedMarks, OwnType DEF AdoptReservation
  <1>3. Quiet
    BY <1>1, <1>2 DEF Quiet
  <1>4. StoresAgree(d)'
    BY <1>1, <1>3, Agrees DEF ServedInv, StoresAgree, Kept, Saved
  <1>5. NoWayBack(d)
    BY <1>1 DEF NoWayBack, Past, Unfinished
  <1> QED
    BY <1>1, <1>2, <1>3, <1>4, <1>5, QuietTurn DEF Ended, Saved

LEMMA UndoLedgerServed ==
    ASSUME QuotaInv, ServedInv, NEW d \in Docs, UndoLedger(d)
    PROVE  ServedInv'
  <1>0. Typed
    BY DEF QuotaInv
  <1>1. /\ UNCHANGED <<row, file, req, rec, history, mem, straddled, outrun>>
        /\ turn[d] = "undo ledger" /\ turn'[d] = "rb row"
        /\ \A e \in Docs \ {d} : SameDocument(e)
    BY <1>0 DEF Typed, UndoLedger, Go, SameDocument
  <1>2. Marked /\ own'.state = own.state
    BY <1>0, CasMarks, UnmovedMarks, OwnType DEF UndoLedger, ReleaseReservation
  <1>3. Quiet
    BY <1>1, <1>2 DEF Quiet
  <1>4. StoresAgree(d)'
    BY <1>1, <1>3, Agrees DEF ServedInv, StoresAgree, Kept, Saved
  <1>5. NoWayBack(d)
    BY <1>1 DEF NoWayBack, Past, Unfinished
  <1> QED
    BY <1>1, <1>2, <1>3, <1>4, <1>5, QuietTurn DEF Ended, Saved

LEMMA CommitReservationServed ==
    ASSUME QuotaInv, ServedInv, NEW d \in Docs, CommitReservation(d)
    PROVE  ServedInv'
  <1>0. Typed
    BY DEF QuotaInv
  <1>1. /\ UNCHANGED <<row, file, req, rec, history, mem, straddled, outrun>>
        /\ turn[d] = "commit" /\ turn'[d] = "answer"
        /\ \A e \in Docs \ {d} : SameDocument(e)
    BY <1>0 DEF Typed, CommitReservation, Go, SameDocument
  <1>2. Marked /\ own'.state = own.state
    BY <1>0, CasMarks, UnmovedMarks, OwnType DEF CommitReservation, Commit
  <1>3. Quiet
    BY <1>1, <1>2 DEF Quiet
  <1>4. StoresAgree(d)'
    BY <1>1, <1>3, Agrees DEF ServedInv, StoresAgree, Kept, Saved
  <1>5. NoWayBack(d)
    BY <1>1 DEF NoWayBack, Past, Unfinished
  <1> QED
    BY <1>1, <1>2, <1>3, <1>4, <1>5, QuietTurn DEF Ended, Saved

LEMMA RollbackLedgerServed ==
    ASSUME QuotaInv, ServedInv, NEW d \in Docs, RollbackLedger(d)
    PROVE  ServedInv'
  <1>0. Typed
    BY DEF QuotaInv
  <1>1. /\ UNCHANGED <<row, file, req, rec, history, mem, straddled, outrun>>
        /\ turn[d] = "rb ledger" /\ turn'[d] = "done"
        /\ \A e \in Docs \ {d} : SameDocument(e)
    BY <1>0 DEF Typed, RollbackLedger, Go, SameDocument
  <1>2. Marked /\ own'.state = own.state
    BY <1>0, CasMarks, UnmovedMarks, OwnType DEF RollbackLedger, Release, ReleaseDocument, ReleaseReservation
  <1>3. Quiet
    BY <1>1, <1>2 DEF Quiet
  <1>4. StoresAgree(d)'
    BY <1>1, <1>3, Agrees DEF ServedInv, StoresAgree, Kept, Saved
  <1>5. NoWayBack(d)
    BY <1>1 DEF NoWayBack, Past, Unfinished
  <1> QED
    BY <1>1, <1>2, <1>3, <1>4, <1>5, QuietTurn DEF Ended, Saved

\* A step that leaves the lifecycle and the requests, but not the history.
LEMMA MemoryStep ==
    ASSUME QuotaInv, ServedInv, UNCHANGED <<own, moved, req, rec>>, Remembered',
           \A d \in Docs : TurnRemembers(d)' /\ StoresAgree(d)' /\ Served(d)',
           \A d \in Docs : Lost(d) => Lost(d)',
           \A d \in Docs : turn'[d] = "dead" <=> turn[d] = "dead",
           own.state # "active" /\ AllCovered => AllCovered'
    PROVE  ServedInv'
  <1>1. ASSUME NEW q \in Requests
        PROVE  RequestForgets(q)'
    <2>1. RequestForgets(q) /\ req[q].todo \subseteq Docs /\ NoDoc \notin Docs
      BY RequestType, SessionAssumption DEF ServedInv, QuotaInv
    <2>2. /\ req'[q] = req[q] /\ own'.state = own.state
          /\ "begin" \in moved[q] => "begin" \in moved'[q]
      OBVIOUS
    <2> QED
      BY <2>1, <2>2, RequestWaits
  <1>2. RecoveryForgets'
    <2>1. RecoveryForgets /\ own'.state = own.state /\ (rec.pc # "idle" => rec.doc \in Docs)
      BY DEF ServedInv, QuotaInv, RecoveryHeld
    <2> QED
      BY <2>1, LoopWaits
  <1>3. own'.state = "none" => AllCovered'
    BY DEF ServedInv
  <1> QED
    BY <1>1, <1>2, <1>3 DEF ServedInv

\* A turn loads the history, and so knows what it knows.
LEMMA ResolveServed ==
    ASSUME QuotaInv, ServedInv, NEW d \in Docs, Resolve(d)
    PROVE  ServedInv'
  <1>1. /\ UNCHANGED <<own, moved, req, rec, history, straddled, outrun, row, file>>
        /\ own.state = "active"
        /\ turn[d] = "idle" /\ turn'[d] = "bind" /\ mem'[d] = history \cup {d}
        /\ \A e \in Docs \ {d} : turn'[e] = turn[e] /\ mem'[e] = mem[e]
        /\ Remembered'
    BY DEF QuotaInv, Typed, ServedInv, Remembered, Resolve, Go, store
  <1>2. \A e \in Docs : TurnRemembers(e) /\ StoresAgree(e) /\ Served(e)
    BY DEF ServedInv
  <1>3. d \notin straddled /\ d \notin history /\ straddled \subseteq Docs
    BY <1>1, <1>2 DEF TurnRemembers, Saved, QuotaInv, Typed
  <1>4. \A e : Covered(e)' <=> Covered(e)
    BY <1>1, <1>3 DEF Covered
  <1>5. \A e \in Docs : Elsewhere(e)' => Elsewhere(e)
    BY <1>1 DEF Elsewhere, Running
  <1>6. \A e \in Docs : NoWayBack(e) /\ (turn'[e] = "dead" <=> turn[e] = "dead")
    BY <1>1 DEF NoWayBack, Past, Unfinished
  <1>7. \A e \in Docs : Lost(e) => Lost(e)'
    BY <1>4, <1>5, <1>6, LostStays
  <1>8. TurnRemembers(d)'
    BY <1>1, <1>2, <1>3 DEF TurnRemembers, Saved
  <1>9. ASSUME NEW e \in Docs \ {d}
        PROVE  TurnRemembers(e)'
    <2>1. TurnRemembers(e) /\ turn'[e] = turn[e] /\ mem'[e] = mem[e]
      BY <1>1, <1>2
    <2>2. e \in mem'[d] <=> e \in history
      BY <1>1
    <2>3. Running(e)' <=> Running(e)
      BY <2>1 DEF Running
    <2>4. turn[e] \notin Saved \cup {"done", "dead"} =>
              e \notin history' /\ \A f \in Docs \ {e} : e \notin mem'[f]
      BY <1>1, <2>1, <2>2 DEF TurnRemembers
    <2>5. turn[e] = "dead" =>
              Covered(e)' \/ \A f \in Docs : Running(f)' => (e \in mem'[f] <=> e \in history')
      BY <1>1, <1>4, <2>1, <2>2 DEF TurnRemembers, Running
    <2> QED
      BY <1>1, <2>1, <2>3, <2>4, <2>5 DEF TurnRemembers
  <1>10. \A e \in Docs : StoresAgree(e)'
    BY <1>1, <1>2, <1>4 DEF StoresAgree, Kept, Saved
  <1>11. \A e \in Docs : Served(e)'
    BY <1>1, <1>2, <1>4, <1>5 DEF Served
  <1>12. AllCovered => AllCovered'
    BY <1>1, <1>4 DEF AllCovered
  <1> QED
    BY <1>1, <1>6, <1>7, <1>8, <1>9, <1>10, <1>11, <1>12, MemoryStep

\* A save brings back what its turn had loaded, and that is still served.
LEMMA SaveStep ==
    ASSUME QuotaInv, ServedInv, NEW d \in Docs,
           UNCHANGED <<own, moved, req, rec, mem, straddled, outrun, row, file>>,
           history' = mem[d], turn[d] \in {"save", "answer"},
           turn'[d] = IF turn[d] = "save" THEN "mark adopted" ELSE "done",
           \A e \in Docs \ {d} : turn'[e] = turn[e]
    PROVE  ServedInv'
  <1>1. \A e \in Docs : TurnRemembers(e) /\ StoresAgree(e) /\ Served(e)
    BY DEF ServedInv
  <1>2. Running(d) /\ \A e \in Docs : Running(e)' => Running(e)
    BY DEF Running, Ended
  <1>3. \A e : Covered(e)' <=> Covered(e)
    BY DEF Covered
  <1>4. \A e \in Docs \ {d} : Elsewhere(e)' => Elsewhere(e)
    BY <1>2 DEF Elsewhere
  <1>5. \A e \in Docs : turn'[e] = "dead" <=> turn[e] = "dead"
    OBVIOUS
  <1>6. ASSUME NEW e \in Docs, Lost(e)
        PROVE  Lost(e)'
    <2>1. CASE e = d
      BY <1>3, <1>6, <2>1 DEF Lost, Past, Unfinished
    <2>2. CASE e # d
      BY <1>3, <1>4, <1>6, <2>2, LostStays DEF NoWayBack
    <2> QED
      BY <2>1, <2>2
  <1>7. TurnRemembers(d)'
    BY <1>1, <1>2 DEF TurnRemembers, Saved
  <1>8. ASSUME NEW e \in Docs \ {d}
        PROVE  TurnRemembers(e)'
    <2>1. TurnRemembers(e) /\ turn'[e] = turn[e] /\ (Running(e)' <=> Running(e))
      BY <1>1 DEF Running
    <2>2. turn[e] \notin Saved \cup {"done", "dead"} => e \notin history'
      BY <2>1 DEF TurnRemembers
    <2>3. turn[e] = "dead" =>
              Covered(e)' \/ \A f \in Docs : Running(f)' => (e \in mem'[f] <=> e \in history')
      BY <1>2, <1>3, <2>1 DEF TurnRemembers
    <2> QED
      BY <2>1, <2>2, <2>3 DEF TurnRemembers
  <1>9. \A e \in Docs : StoresAgree(e)'
    BY <1>1, <1>3 DEF StoresAgree, Kept, Saved
  <1>10. Covered(d) \/ file[d] = "whole"
    BY <1>1 DEF StoresAgree, Kept, Saved
  <1>11. \A e \in Docs : Served(e)'
    BY <1>1, <1>3, <1>4, <1>10 DEF Served
  <1>12. own.state # "active" => AllCovered'
    BY <1>1, <1>2 DEF AllCovered, Covered, TurnRemembers
  <1>13. Remembered'
    BY DEF ServedInv, Remembered
  <1> QED
    BY <1>5, <1>6, <1>7, <1>8, <1>9, <1>11, <1>12, <1>13, MemoryStep

LEMMA SaveHistoryServed ==
    ASSUME QuotaInv, ServedInv, NEW d \in Docs, SaveHistory(d)
    PROVE  ServedInv'
  <1>1. /\ UNCHANGED <<own, moved, req, rec, mem, straddled, outrun, row, file>>
        /\ history' = mem[d] /\ turn[d] = "save" /\ turn'[d] = "mark adopted"
        /\ \A e \in Docs \ {d} : turn'[e] = turn[e]
    BY DEF QuotaInv, Typed, SaveHistory, Go
  <1> QED
    BY <1>1, SaveStep

LEMMA SaveAnswerServed ==
    ASSUME QuotaInv, ServedInv, NEW d \in Docs, SaveAnswer(d)
    PROVE  ServedInv'
  <1>1. /\ UNCHANGED <<own, moved, req, rec, mem, straddled, outrun, row, file>>
        /\ turn[d] = "answer" /\ turn'[d] = "done"
        /\ history' = mem[d] \/ history' = history
        /\ \A e \in Docs \ {d} : turn'[e] = turn[e] /\ SameDocument(e)
    BY DEF QuotaInv, Typed, SaveAnswer, Go, SameDocument
  <1>2. CASE history' = mem[d]
    BY <1>1, <1>2, SaveStep
  <1>3. CASE history' = history
    <2>1. Quiet /\ Marked
      BY <1>1, <1>3, UnmovedMarks DEF Quiet
    <2>2. StoresAgree(d)'
      BY <1>1, <2>1, Agrees DEF ServedInv, StoresAgree, Kept, Saved
    <2>3. NoWayBack(d)
      BY <1>1 DEF NoWayBack, Past, Unfinished
    <2> QED
      BY <1>1, <2>1, <2>2, <2>3, QuietTurn DEF Ended, Saved
  <1> QED
    BY <1>1, <1>2, <1>3

LEMMA TurnServes ==
    ASSUME QuotaInv, ServedInv, NEW d \in Docs, Turn(d)
    PROVE  ServedInv'
  BY ResolveServed, ReadBindingServed, SaveIntentServed, ReserveIntentServed,
     MarkPendingServed, AdoptReservationServed, UndoRowServed, UndoLedgerServed,
     CreateFileServed, WriteFileServed, FinalizeServed, SaveHistoryServed,
     MarkAdoptedServed, CommitReservationServed, SaveAnswerServed, AbandonServed,
     RollbackFileServed, RollbackRowServed, RollbackLedgerServed, Zenon
  DEF Turn

-----------------------------------------------------------------------------
(* The steps of the maintenance loop.                                      *)

\* A step of the loop on the document it has in hand: it changes no row of a
\* turn that counts on its own, and the file of a lost document only.
LEMMA LoopServes ==
    ASSUME QuotaInv, ServedInv, NEW d \in Docs, rec.pc # "idle", d = rec.doc,
           Quiet, turn' = turn, req' = req, Marked,
           \A e \in Docs \ {d} : row'[e] = row[e] /\ file'[e] = file[e],
           \/ row'[d] = row[d]
           \/ row[d] = "reconciling" /\ row'[d] \in {"ready", "none"}
           \/ row[d] = "ready" /\ row'[d] = "adopted",
           file'[d] = file[d] \/ rec.pc = "file",
           rec'.pc # "idle" => rec'.doc = d,
           rec'.pc = "file" => own.state \in {"deleting", "none"} \/ Lost(d)
    PROVE  ServedInv'
  <1>1. /\ turn[d] = "dead" \/ Lost(d)
        /\ rec.pc = "file" => own.state \in {"deleting", "none"} \/ Lost(d)
    BY DEF ServedInv, RecoveryForgets
  <1>2. Covered(d) \/ turn[d] \in Past
    BY <1>1 DEF Lost, Past
  <1>3. StoresAgree(d)'
    <2>1. ~Covered(d) => turn[d] \in Past /\ turn'[d] = turn[d]
      BY <1>2
    <2>2. StoresAgree(d)
      BY DEF ServedInv
    <2> QED
      BY <2>1, <2>2, Agrees DEF StoresAgree, Kept, Saved, Past, Unfinished
  <1>4. NoWayBack(d)
    BY DEF NoWayBack
  <1>5. file[d] = "whole" /\ file'[d] # "whole" =>
            Covered(d) \/ ~Elsewhere(d) \/ own.state \in {"deleting", "none"}
    BY <1>1 DEF Lost
  <1>6. \A e \in Docs \ {d} : SameDocument(e)
    BY DEF SameDocument
  <1>7. \A e \in Docs :
           /\ turn'[e] = turn[e] /\ NoWayBack(e) /\ StoresAgree(e)'
           /\ file[e] = "whole" /\ file'[e] # "whole" =>
                 Covered(e) \/ ~Elsewhere(e) \/ own.state \in {"deleting", "none"}
    BY <1>3, <1>4, <1>5, <1>6, SameAgrees
  <1>8. (\A e \in Docs : Lost(e) => Lost(e)') => RecoveryForgets'
    <2> SUFFICES ASSUME \A e \in Docs : Lost(e) => Lost(e)'
                 PROVE  RecoveryForgets'
      OBVIOUS
    <2>1. turn'[d] = "dead" \/ Lost(d)'
      BY <1>1
    <2>2. rec'.pc = "file" => own'.state \in {"deleting", "none"} \/ Lost(d)'
      BY DEF Quiet
    <2>3. rec'.pc = "file" => rec'.doc = d
      OBVIOUS
    <2> QED
      BY <2>1, <2>2, <2>3 DEF RecoveryForgets
  <1>9. \A q \in Requests :
           /\ req'[q] = req[q]
           /\ req[q].pc # "idle" /\ "begin" \in moved[q] => "begin" \in moved'[q]
    BY DEF Marked
  <1> QED
    BY <1>7, <1>8, <1>9, QuietStep

\* What is taken is of a turn that died, or is on its way out.
LEMMA TakeExpiredServed ==
    ASSUME QuotaInv, ServedInv, NEW d \in Docs, TakeExpired(d), ~SlowTurns
    PROVE  ServedInv'
  <1>1. /\ row[d] \in {"intent", "pending", "ready", "reconciling"} /\ ~Promoting(d)
        /\ rec'.doc = d /\ rec'.pc = "inspect"
        /\ UNCHANGED <<own, file, history, turn, mem, req, moved, straddled, outrun>>
        /\ row'[d] = "reconciling" /\ \A e \in Docs \ {d} : row'[e] = row[e]
    BY DEF TakeExpired, turns, QuotaInv, Typed
  <1>2. Quiet /\ Marked
    BY <1>1, UnmovedMarks DEF Quiet
  <1>3. /\ TurnRemembers(d) /\ StoresAgree(d) /\ DocumentHeld(d)
        /\ turn[d] \in TurnPlaces
    BY DEF ServedInv, QuotaInv, Typed
  <1>4. Covered(d) \/ turn[d] = "dead" \/ turn[d] \in Unfinished
    BY <1>1, <1>3 DEF DocumentHeld, StoresAgree, Promoting, TurnPlaces, Making, Bare,
                      Coming, Unfinished, Covered
  <1>5. StoresAgree(d)'
    BY <1>1, <1>2, <1>3, <1>4, Agrees DEF StoresAgree, Unfinished, Kept, Saved
  <1>6. \A e \in Docs \ {d} : SameDocument(e)
    BY <1>1 DEF SameDocument
  <1>7. NoWayBack(d)
    BY <1>1 DEF NoWayBack
  <1>8. turn[d] \in Unfinished => ~Elsewhere(d)
    BY Unknown DEF Unfinished, Saved
  <1>9. turn'[d] = "dead" \/ Lost(d)'
    <2>1. CASE Covered(d)
      BY <1>2, <2>1, QuietCovered DEF Lost
    <2>2. CASE turn[d] = "dead"
      BY <1>1, <2>2
    <2>3. CASE turn[d] \in Unfinished
      <3>1. Elsewhere(d)' <=> Elsewhere(d)
        BY <1>1 DEF Elsewhere, Running
      <3> QED
        BY <1>1, <1>8, <2>3, <3>1 DEF Lost, Past
    <2> QED
      BY <1>4, <2>1, <2>2, <2>3
  <1>10. RecoveryForgets'
    BY <1>1, <1>9 DEF RecoveryForgets
  <1>11. \A e \in Docs :
           /\ turn'[e] = turn[e] /\ NoWayBack(e) /\ StoresAgree(e)'
           /\ file'[e] = file[e]
    BY <1>1, <1>2, <1>5, <1>6, <1>7, SameAgrees
  <1>12. \A q \in Requests :
           /\ req'[q] = req[q]
           /\ req[q].pc # "idle" /\ "begin" \in moved[q] => "begin" \in moved'[q]
    BY <1>1
  <1> QED
    BY <1>2, <1>10, <1>11, <1>12, QuietStep

\* Whole bytes that the history names are kept; of a dead turn's document no
\* running turn knows more than the history.
LEMMA InspectServed ==
    ASSUME QuotaInv, ServedInv, Inspect
    PROVE  ServedInv'
  <1>1. PICK pc \in {"idle", "ready", "file"} :
           /\ Recover("inspect", pc)
           /\ pc = "file" => /\ file[rec.doc] # "torn"
                             /\ file[rec.doc] # "whole" \/ rec.doc \notin history
    BY DEF Inspect
  <1>2. /\ rec.pc = "inspect" /\ rec'.pc = pc /\ (pc # "idle" => rec'.doc = rec.doc)
    BY <1>1, RecoverMoves DEF LoopPlaces, QuotaInv
  <1>. PICK d \in Docs : d = rec.doc
    BY <1>2, InHand
  <1>3. UNCHANGED <<own, row, file, history, turn, mem, req, moved, straddled, outrun>>
    BY DEF Inspect, store, turns
  <1>4. Quiet /\ Marked
    BY <1>3, UnmovedMarks DEF Quiet
  <1>5. ASSUME rec'.pc = "file"
        PROVE  own.state \in {"deleting", "none"} \/ Lost(d)
    <2>1. /\ TurnRemembers(d) /\ Served(d) /\ own.state \in States
          /\ turn[d] = "dead" \/ Lost(d)
      BY <1>2, OwnType DEF ServedInv, RecoveryForgets, QuotaInv
    <2>2. file[d] # "whole" \/ d \notin history
      BY <1>1, <1>2, <1>5
    <2> SUFFICES ASSUME own.state \in {"active", "clearing"}, turn[d] = "dead", ~Covered(d)
                 PROVE  ~Elsewhere(d)
      BY <2>1 DEF Lost, Past, States
    <2>3. d \notin history
      BY <2>1, <2>2 DEF Served, Elsewhere
    <2> QED
      BY <2>1, <2>3 DEF TurnRemembers, Elsewhere
  <1> QED
    BY <1>2, <1>3, <1>4, <1>5, LoopServes

LEMMA RecoverReadyServed ==
    ASSUME QuotaInv, ServedInv, RecoverReady
    PROVE  ServedInv'
  <1>0. Typed
    BY DEF QuotaInv
  <1>1. PICK pc \in {"adopted", "idle"} : Recover("ready", pc)
    BY DEF RecoverReady
  <1>2. /\ rec.pc = "ready" /\ rec'.pc = pc /\ (pc # "idle" => rec'.doc = rec.doc)
    BY <1>0, <1>1, RecoverMoves DEF LoopPlaces
  <1>. PICK d \in Docs : d = rec.doc
    BY <1>2, InHand
  <1>3. /\ UNCHANGED <<own, file, history, turn, mem, req, moved, straddled, outrun>>
        /\ row'[d] = IF row[d] = "reconciling" THEN "ready" ELSE row[d]
        /\ \A e \in Docs \ {d} : row'[e] = row[e]
    BY <1>0 DEF RecoverReady, turns, Typed
  <1>4. Quiet /\ Marked
    BY <1>3, UnmovedMarks DEF Quiet
  <1> QED
    BY <1>2, <1>3, <1>4, LoopServes

LEMMA RecoverAdoptedServed ==
    ASSUME QuotaInv, ServedInv, RecoverAdopted
    PROVE  ServedInv'
  <1>0. Typed
    BY DEF QuotaInv
  <1>1. PICK pc \in {"commit", "idle"} : Recover("adopted", pc)
    BY DEF RecoverAdopted
  <1>2. /\ rec.pc = "adopted" /\ rec'.pc = pc /\ (pc # "idle" => rec'.doc = rec.doc)
    BY <1>0, <1>1, RecoverMoves DEF LoopPlaces
  <1>. PICK d \in Docs : d = rec.doc
    BY <1>2, InHand
  <1>3. /\ UNCHANGED <<own, file, history, turn, mem, req, moved, straddled, outrun>>
        /\ row'[d] = IF row[d] = "ready" THEN "adopted" ELSE row[d]
        /\ \A e \in Docs \ {d} : row'[e] = row[e]
    BY <1>0 DEF RecoverAdopted, turns, Typed
  <1>4. Quiet /\ Marked
    BY <1>3, UnmovedMarks DEF Quiet
  <1> QED
    BY <1>2, <1>3, <1>4, LoopServes

LEMMA RecoverRowServed ==
    ASSUME QuotaInv, ServedInv, RecoverRow
    PROVE  ServedInv'
  <1>0. Typed
    BY DEF QuotaInv
  <1>1. PICK pc \in {"ledger", "idle"} : Recover("row", pc)
    BY DEF RecoverRow
  <1>2. /\ rec.pc = "row" /\ rec'.pc = pc /\ (pc # "idle" => rec'.doc = rec.doc)
    BY <1>0, <1>1, RecoverMoves DEF LoopPlaces
  <1>. PICK d \in Docs : d = rec.doc
    BY <1>2, InHand
  <1>3. /\ UNCHANGED <<own, file, history, turn, mem, req, moved, straddled, outrun>>
        /\ row'[d] = IF row[d] = "reconciling" THEN "none" ELSE row[d]
        /\ \A e \in Docs \ {d} : row'[e] = row[e]
    BY <1>0 DEF RecoverRow, turns, Typed
  <1>4. Quiet /\ Marked
    BY <1>3, UnmovedMarks DEF Quiet
  <1> QED
    BY <1>2, <1>3, <1>4, LoopServes

LEMMA RecoverFileServed ==
    ASSUME QuotaInv, ServedInv, RecoverFile
    PROVE  ServedInv'
  <1>0. Typed
    BY DEF QuotaInv
  <1>1. Recover("file", "row")
    BY DEF RecoverFile
  <1>2. rec.pc = "file" /\ rec'.pc = "row" /\ rec'.doc = rec.doc
    BY <1>0, <1>1, RecoverMoves DEF LoopPlaces
  <1>. PICK d \in Docs : d = rec.doc
    BY <1>2, InHand
  <1>3. /\ UNCHANGED <<own, row, history, turn, mem, req, moved, straddled, outrun>>
        /\ \A e \in Docs \ {d} : file'[e] = file[e]
    BY <1>0 DEF RecoverFile, turns, Typed
  <1>4. Quiet /\ Marked
    BY <1>3, UnmovedMarks DEF Quiet
  <1> QED
    BY <1>2, <1>3, <1>4, LoopServes

LEMMA RecoverCommitServed ==
    ASSUME QuotaInv, ServedInv, RecoverCommit
    PROVE  ServedInv'
  <1>0. Typed
    BY DEF QuotaInv
  <1>1. Recover("commit", "idle")
    BY DEF RecoverCommit
  <1>2. rec.pc = "commit" /\ rec'.pc = "idle"
    BY <1>0, <1>1, RecoverMoves DEF LoopPlaces
  <1>. PICK d \in Docs : d = rec.doc
    BY <1>2, InHand
  <1>3. UNCHANGED <<row, file, history, turn, mem, req, straddled, outrun>>
    BY DEF RecoverCommit, turns
  <1>4. Marked /\ own'.state = own.state
    BY <1>0, CasMarks, UnmovedMarks, OwnType DEF RecoverCommit, Commit
  <1>5. Quiet
    BY <1>3, <1>4 DEF Quiet
  <1> QED
    BY <1>2, <1>3, <1>4, <1>5, LoopServes

LEMMA RecoverLedgerServed ==
    ASSUME QuotaInv, ServedInv, RecoverLedger
    PROVE  ServedInv'
  <1>0. Typed
    BY DEF QuotaInv
  <1>1. Recover("ledger", "idle")
    BY DEF RecoverLedger
  <1>2. rec.pc = "ledger" /\ rec'.pc = "idle"
    BY <1>0, <1>1, RecoverMoves DEF LoopPlaces
  <1>. PICK d \in Docs : d = rec.doc
    BY <1>2, InHand
  <1>3. UNCHANGED <<row, file, history, turn, mem, req, straddled, outrun>>
    BY DEF RecoverLedger, turns
  <1>4. Marked /\ own'.state = own.state
    BY <1>0, CasMarks, UnmovedMarks, OwnType DEF RecoverLedger, ReleaseReservation
  <1>5. Quiet
    BY <1>3, <1>4 DEF Quiet
  <1> QED
    BY <1>2, <1>3, <1>4, <1>5, LoopServes

LEMMA SweepLedgerServed ==
    ASSUME QuotaInv, ServedInv, NEW d \in Docs, SweepLedger(d)
    PROVE  ServedInv'
  <1>0. Typed
    BY DEF QuotaInv
  <1>1. UNCHANGED <<row, file, history, turn, mem, req, rec, straddled, outrun>>
    BY DEF SweepLedger, turns
  <1>2. Marked /\ own'.state = own.state
    BY <1>0, CasMarks, UnmovedMarks, OwnType
    DEF SweepLedger, ReleaseDocument, ReleaseReservation, Commit
  <1>3. Quiet
    BY <1>1, <1>2 DEF Quiet
  <1>4. \A e \in Docs :
           /\ turn'[e] = turn[e] /\ NoWayBack(e) /\ StoresAgree(e)' /\ file'[e] = file[e]
    BY <1>1, <1>3, SameAgrees DEF SameDocument
  <1>5. \A q \in Requests :
           /\ req'[q] = req[q]
           /\ req[q].pc # "idle" /\ "begin" \in moved[q] => "begin" \in moved'[q]
    BY <1>1, <1>2 DEF Marked
  <1> QED
    BY <1>1, <1>3, <1>4, <1>5, QuietStep

\* A crash takes every running turn's memory with it.
\* A file that is being deleted is one that nobody will miss.
LEMMA LosableLost ==
    ASSUME QuotaInv, ServedInv, NEW d \in Losable
    PROVE  Covered(d) \/ ~Elsewhere(d) \/ own.state \in {"deleting", "none"}
  <1>1. d \in Docs /\ Deleted(d)
    BY DEF Losable
  <1>2. CASE turn[d] = "rb file"
    BY <1>1, <1>2, Unknown DEF Saved
  <1>3. CASE rec = [pc |-> "file", doc |-> d]
    BY <1>3 DEF ServedInv, RecoveryForgets, Lost
  <1>4. ASSUME NEW r \in Requests, Working(r, "file"), d \in req[r].todo
        PROVE  Covered(d) \/ ~Elsewhere(d) \/ own.state \in {"deleting", "none"}
    <2>1. req[r].pc = "file" /\ d \in Listed(r) /\ RequestForgets(r)
      BY <1>4 DEF Working, Listed, ServedInv
    <2>2. CASE Kind[r] = "delete"
      BY <2>1, <2>2 DEF RequestForgets
    <2>3. CASE Kind[r] = "clear"
      BY <2>1, <2>3 DEF RequestForgets, Lost
    <2> QED
      BY <2>2, <2>3, SessionAssumption
  <1> QED
    BY <1>1, <1>2, <1>3, <1>4 DEF Deleted

LEMMA CrashServed ==
    ASSUME QuotaInv, ServedInv, Crash
    PROVE  ServedInv'
  <1>1. /\ UNCHANGED <<own, row, history, mem, straddled, outrun>>
        /\ turn' = [d \in Docs |-> IF turn[d] \in Ended THEN turn[d] ELSE "dead"]
        /\ req' = [r \in Requests |-> Idle] /\ rec' = Fresh
    BY DEF Crash
  <1>2. Quiet
    BY <1>1 DEF Quiet
  <1>3. \A d \in Docs : ~Running(d)'
    BY <1>1 DEF Running, Ended
  <1>4. ASSUME NEW d \in Docs
        PROVE  TurnRemembers(d)' /\ StoresAgree(d)' /\ Served(d)'
    <2>1. TurnRemembers(d) /\ StoresAgree(d) /\ Served(d)
      BY DEF ServedInv
    <2>2. \/ turn'[d] = turn[d] /\ turn[d] \in Ended
          \/ turn'[d] = "dead" /\ turn[d] # "idle"
      BY <1>1 DEF Ended
    <2>3. TurnRemembers(d)'
      BY <1>1, <1>3, <2>1, <2>2 DEF TurnRemembers, Ended
    <2>4. StoresAgree(d)'
      BY <1>1, <1>2, <2>1, <2>2, Agrees DEF StoresAgree, Ended, Kept, Saved
    <2>6. Elsewhere(d)' => Elsewhere(d)
      BY <1>1, <1>3 DEF Elsewhere
    <2>7. \/ file'[d] = file[d]
          \/ Covered(d) \/ ~Elsewhere(d) \/ own.state \in {"deleting", "none"}
      BY CrashLoses, LosableLost DEF QuotaInv
    <2>5. Served(d)'
      BY <1>1, <1>2, <2>1, <2>6, <2>7, QuietCovered DEF Served
    <2> QED
      BY <2>3, <2>4, <2>5
  <1>5. ASSUME NEW q \in Requests
        PROVE  RequestForgets(q)'
    <2>1. Listed(q)' = {} /\ req'[q].pc = "idle"
      BY <1>1, IdleIs DEF Listed
    <2> QED
      BY <2>1 DEF RequestForgets
  <1>6. RecoveryForgets'
    BY <1>1 DEF RecoveryForgets, Fresh
  <1>7. Remembered' /\ (own'.state = "none" => AllCovered')
    BY <1>1, <1>2, QuietCovered DEF ServedInv, Remembered
  <1> QED
    BY <1>4, <1>5, <1>6, <1>7 DEF ServedInv

LEMMA StutterServed ==
    ASSUME QuotaInv, ServedInv, UNCHANGED vars
    PROVE  ServedInv'
  <1>1. UNCHANGED <<own, moved, row, file, history, turn, mem, req, rec, straddled, outrun>>
    BY DEF vars, store, turns
  <1>2. Quiet
    BY <1>1 DEF Quiet
  <1>3. \A e \in Docs :
           /\ turn'[e] = turn[e] /\ NoWayBack(e) /\ StoresAgree(e)' /\ file'[e] = file[e]
    BY <1>1, <1>2, SameAgrees DEF SameDocument
  <1>4. \A q \in Requests :
           /\ req'[q] = req[q]
           /\ req[q].pc # "idle" /\ "begin" \in moved[q] => "begin" \in moved'[q]
    BY <1>1
  <1> QED
    BY <1>1, <1>2, <1>3, <1>4, QuietStep

-----------------------------------------------------------------------------
(* The steps of a clear or a delete.                                       *)

\* After the sweep of a lifecycle nobody knows the documents that are not
\* covered: the turns still running straddle it.
LEMMA Swept ==
    ASSUME ServedInv, AllCovered, own.state # "active", NEW d \in Docs, turn[d] # "idle"
    PROVE  Lost(d)
  <1>1. \A e \in Docs : TurnRemembers(e)
    BY DEF ServedInv
  <1>2. Elsewhere(d) => Covered(d)
    BY <1>1 DEF Elsewhere, AllCovered, Covered, TurnRemembers
  <1>3. Running(d) => Covered(d)
    BY <1>1 DEF TurnRemembers, Covered
  <1>4. ~Running(d) => turn[d] \in {"done", "dead"}
    BY DEF Running, Ended
  <1> QED
    BY <1>2, <1>3, <1>4 DEF Lost, Past

\* What a request has listed may be deleted.
LEMMA MayDelete ==
    ASSUME ServedInv, NEW r \in Requests, req[r].pc # "idle", NEW d \in Docs, d \in Listed(r)
    PROVE  /\ Covered(d) \/ turn[d] \notin Kept
           /\ Covered(d) \/ ~Elsewhere(d) \/ own.state \in {"deleting", "none"}
  <1>1. RequestForgets(r) /\ TurnRemembers(d)
    BY DEF ServedInv
  <1>2. CASE Kind[r] = "clear"
    BY <1>1, <1>2 DEF RequestForgets, Lost, Past, Unfinished, Kept, Saved
  <1>3. CASE Kind[r] = "delete"
    <2>1. own.state \in {"deleting", "none"}
      BY <1>1, <1>3 DEF RequestForgets
    <2>2. Running(d) => Covered(d)
      BY <1>1, <2>1 DEF TurnRemembers, Covered
    <2> QED
      BY <2>1, <2>2 DEF Running, Ended, Kept, Saved
  <1> QED
    BY <1>2, <1>3, SessionAssumption

\* A step of a request at its documents.
LEMMA RequestServes ==
    ASSUME QuotaInv, ServedInv, NEW r \in Requests, NEW d \in Docs,
           Quiet, turn' = turn, rec' = rec, Marked,
           req[r].pc \in {"file", "row", "ledger"},
           req'[r].pc \in {"idle", "file", "row", "ledger"},
           Listed(r)' \subseteq Listed(r), d \in Listed(r),
           \A q \in Requests \ {r} : req'[q] = req[q],
           \A e \in Docs \ {d} : row'[e] = row[e] /\ file'[e] = file[e],
           row'[d] \in {row[d], "none"}, file'[d] \in {file[d], "none"}
    PROVE  ServedInv'
  <1>1. /\ Covered(d) \/ turn[d] \notin Kept
        /\ Covered(d) \/ ~Elsewhere(d) \/ own.state \in {"deleting", "none"}
    BY MayDelete
  <1>2. StoresAgree(d)'
    BY <1>1, Agrees DEF ServedInv, StoresAgree, Kept, Saved
  <1>3. NoWayBack(d)
    BY DEF NoWayBack
  <1>4. \A e \in Docs \ {d} : SameDocument(e)
    BY DEF SameDocument
  <1>5. \A e \in Docs :
           /\ turn'[e] = turn[e] /\ NoWayBack(e) /\ StoresAgree(e)'
           /\ file[e] = "whole" /\ file'[e] # "whole" =>
                 Covered(e) \/ ~Elsewhere(e) \/ own.state \in {"deleting", "none"}
    BY <1>1, <1>2, <1>3, <1>4, SameAgrees
  <1>6. ASSUME \A e \in Docs : Lost(e) => Lost(e)'
        PROVE  RequestForgets(r)'
    <2>1. RequestForgets(r) /\ own'.state = own.state /\ (AllCovered => AllCovered')
      BY QuietCovered DEF ServedInv, Quiet
    <2>2. "begin" \notin moved'[r] => "begin" \notin moved[r]
      BY DEF Marked
    <2>3. Listed(r) \subseteq Docs
      BY RequestType DEF Listed, QuotaInv
    <2>4. Kind[r] = "clear" => \A e \in Listed(r)' : Lost(e)'
      BY <1>6, <2>1, <2>3 DEF RequestForgets
    <2> QED
      BY <2>1, <2>2, <2>4 DEF RequestForgets
  <1>7. \A q \in Requests \ {r} :
           /\ req'[q] = req[q]
           /\ req[q].pc # "idle" /\ "begin" \in moved[q] => "begin" \in moved'[q]
    BY DEF Marked
  <1> QED
    BY <1>5, <1>6, <1>7, QuietStep

LEMMA DeleteFileServed ==
    ASSUME QuotaInv, ServedInv, NEW r \in Requests, NEW d \in Docs, DeleteFile(r, d)
    PROVE  ServedInv'
  <1> DEFINE next == [req[r] EXCEPT !.pc = "row", !.doc = d]
  <1>0. Typed /\ req[r] \in RequestStates
    BY DEF QuotaInv, Typed
  <1>1. /\ req[r].pc = "file" /\ d \in req[r].todo
        /\ UNCHANGED <<own, row, history, turn, mem, moved, rec, straddled, outrun>>
        /\ \/ req' = [req EXCEPT ![r] = Idle] /\ UNCHANGED file
           \/ req' = [req EXCEPT ![r] = next] /\ file' = [file EXCEPT ![d] = "none"]
    BY DEF DeleteFile, turns, Working, Becomes
  <1>2. /\ next \in RequestStates /\ next.pc = "row" /\ next.todo = req[r].todo
        /\ next.doc = d
    BY <1>0 DEF RequestStates, RequestPlaces
  <1> HIDE DEF next
  <1>3. PICK now \in {Idle, next} : req' = [req EXCEPT ![r] = now]
    BY <1>1
  <1>4. req'[r] = now /\ \A q \in Requests \ {r} : req'[q] = req[q]
    BY <1>0, <1>2, <1>3, IdleIs, OneRequest
  <1>5. file'[d] \in {file[d], "none"} /\ \A e \in Docs \ {d} : file'[e] = file[e]
    BY <1>0, <1>1 DEF Typed
  <1>6. Listed(r)' \subseteq Listed(r) /\ d \in Listed(r)
        /\ req'[r].pc \in {"idle", "row"}
    BY <1>1, <1>2, <1>4, IdleIs DEF Listed
  <1>7. Quiet /\ Marked
    BY <1>1, UnmovedMarks DEF Quiet
  <1> QED
    BY <1>1, <1>4, <1>5, <1>6, <1>7, RequestServes

LEMMA DeleteRowServed ==
    ASSUME QuotaInv, ServedInv, NEW r \in Requests, DeleteRow(r)
    PROVE  ServedInv'
  <1>0. Typed /\ RequestHeld(r) /\ req[r].pc = "row"
    BY DEF QuotaInv, DeleteRow, Working
  <1>. PICK d \in Docs : d = req[r].doc
    BY <1>0 DEF RequestHeld
  <1> DEFINE rest == [Idle EXCEPT !.pc = "file", !.todo = req[r].todo \ {d}]
             next == [pc |-> "ledger", todo |-> req[r].todo \ {d}, doc |-> d,
                      status |-> row[d]]
  <1>1. /\ UNCHANGED <<own, file, history, turn, mem, moved, rec, straddled, outrun>>
        /\ row' = [row EXCEPT ![d] = "none"]
        /\ req' = [req EXCEPT ![r] = IF row[d] = "none" THEN rest ELSE next]
    BY DEF DeleteRow, turns, Becomes
  <1>2. /\ rest \in RequestStates /\ next \in RequestStates
        /\ rest.pc = "file" /\ rest.doc = NoDoc /\ rest.todo = req[r].todo \ {d}
        /\ next.pc = "ledger" /\ next.doc = d /\ next.todo = req[r].todo \ {d}
    <2>1. req[r].todo \in SUBSET Docs /\ row[d] \in Statuses
      BY <1>0, RequestType DEF Typed
    <2>2. /\ rest \in RequestStates /\ rest.pc = "file" /\ rest.doc = NoDoc
          /\ rest.todo = req[r].todo \ {d}
      BY <2>1, ListedIs
    <2>3. next \in RequestStates
      BY <2>1 DEF RequestStates, RequestPlaces
    <2> QED
      BY <2>2, <2>3
  <1> HIDE DEF next, rest
  <1>3. PICK now \in {rest, next} : req' = [req EXCEPT ![r] = now]
    BY <1>1
  <1>4. req'[r] = now /\ \A q \in Requests \ {r} : req'[q] = req[q]
    BY <1>0, <1>2, <1>3, OneRequest
  <1>5. Listed(r)' \subseteq Listed(r) /\ d \in Listed(r)
        /\ req'[r].pc \in {"file", "ledger"}
    <2>1. /\ req'[r].todo = req[r].todo \ {d} /\ req'[r].doc \in {NoDoc, d}
          /\ NoDoc \notin Docs
      BY <1>2, <1>4, IdleIs
    <2> QED
      BY <1>2, <1>4, <2>1 DEF Listed
  <1>6. row'[d] = "none" /\ \A e \in Docs \ {d} : row'[e] = row[e]
    BY <1>0, <1>1 DEF Typed
  <1>7. Quiet /\ Marked
    BY <1>1, UnmovedMarks DEF Quiet
  <1> QED
    BY <1>0, <1>1, <1>4, <1>5, <1>6, <1>7, RequestServes

LEMMA ReleaseQuotaServed ==
    ASSUME QuotaInv, ServedInv, NEW r \in Requests, ReleaseQuota(r)
    PROVE  ServedInv'
  <1>0. Typed /\ RequestHeld(r) /\ req[r].pc = "ledger" /\ req[r] \in RequestStates
    BY DEF QuotaInv, Typed, ReleaseQuota, Working
  <1>. PICK d \in Docs : d = req[r].doc
    BY <1>0 DEF RequestHeld
  <1> DEFINE next == [req[r] EXCEPT !.pc = "file", !.doc = NoDoc, !.status = "none"]
  <1>1. /\ req' = [req EXCEPT ![r] = next]
        /\ UNCHANGED <<row, file, history, turn, mem, rec, straddled, outrun>>
        /\ Release(r, d, req[r].status)
    BY DEF ReleaseQuota, turns, Becomes
  <1>2. /\ next \in RequestStates
        /\ next.pc = "file" /\ next.todo = req[r].todo /\ next.doc = NoDoc
    BY <1>0 DEF RequestStates, RequestPlaces, Statuses
  <1> HIDE DEF next
  <1>3. req'[r] = next /\ \A q \in Requests \ {r} : req'[q] = req[q]
    BY <1>0, <1>1, <1>2, OneRequest
  <1>4. Listed(r)' \subseteq Listed(r) /\ d \in Listed(r)
    BY <1>2, <1>3, IdleIs DEF Listed
  <1>5. Marked /\ own'.state = own.state
    BY <1>0, <1>1, CasMarks, UnmovedMarks, OwnType
    DEF Release, ReleaseDocument, ReleaseReservation
  <1>6. Quiet
    BY <1>1, <1>5 DEF Quiet
  <1> QED
    BY <1>0, <1>1, <1>2, <1>3, <1>4, <1>5, <1>6, RequestServes

\* A step of a request before and between its documents.
LEMMA ControlServes ==
    ASSUME QuotaInv, ServedInv, NEW r \in Requests, Quiet,
           UNCHANGED <<turn, row, file, rec>>,
           \A q \in Requests \ {r} : req'[q] = req[q] /\ moved'[q] = moved[q],
           (\A d \in Docs : Lost(d) => Lost(d)') => RequestForgets(r)'
    PROVE  ServedInv'
  <1>1. \A e \in Docs :
           /\ turn'[e] = turn[e] /\ NoWayBack(e) /\ StoresAgree(e)' /\ file'[e] = file[e]
    BY SameAgrees DEF SameDocument
  <1> QED
    BY <1>1, QuietStep

LEMMA ResumeLifecycleServed ==
    ASSUME QuotaInv, ServedInv, NEW r \in Requests, ResumeLifecycle(r)
    PROVE  ServedInv'
  <1> DEFINE pc  == First(r)
             now == [req[r] EXCEPT !.pc = pc]
  <1>0. Typed /\ req[r] \in RequestStates
    BY DEF QuotaInv, Typed
  <1>1. pc \in RequestPlaces /\ pc \in {"chat", "find"}
    BY DEF First, RequestPlaces
  <1>2. /\ req[r].pc = "idle" /\ own.state = Lifecycle(r)
        /\ req' = [req EXCEPT ![r] = now] /\ moved' = [moved EXCEPT ![r] = {}]
        /\ UNCHANGED <<own, row, file, history, turn, mem, rec, straddled, outrun>>
    BY DEF ResumeLifecycle, store, turns, Working, To, Becomes
  <1>3. Kind[r] = "clear" <=> pc = "chat"
    BY DEF First
  <1> HIDE DEF pc
  <1>4. /\ now \in RequestStates /\ now.pc = pc
        /\ now.todo = req[r].todo /\ now.doc = req[r].doc
    BY <1>0, <1>1, GoesTo, Zenon
  <1> HIDE DEF now
  <1>5. req'[r] = now /\ \A q \in Requests \ {r} : req'[q] = req[q] /\ moved'[q] = moved[q]
    <2>1. req'[r] = now /\ \A q \in Requests \ {r} : req'[q] = req[q]
      BY <1>0, <1>2, <1>4, OneRequest
    <2>2. \A q \in Requests \ {r} : moved'[q] = moved[q]
      BY <1>0, <1>2 DEF Typed
    <2> QED
      BY <2>1, <2>2
  <1>6. Quiet
    BY <1>2 DEF Quiet
  <1>7. ASSUME \A d \in Docs : Lost(d) => Lost(d)'
        PROVE  RequestForgets(r)'
    <2>1. Listed(r)' = Listed(r) /\ Listed(r) \subseteq Docs
      BY <1>0, <1>4, <1>5, RequestType DEF Listed
    <2>2. RequestForgets(r) /\ Kind[r] \in {"clear", "delete"}
      BY SessionAssumption DEF ServedInv
    <2>3. Kind[r] = "clear" => \A d \in Listed(r)' : Lost(d)'
      BY <1>7, <2>1, <2>2 DEF RequestForgets
    <2>4. /\ req'[r].pc = pc /\ own'.state = own.state
          /\ own.state = IF Kind[r] = "clear" THEN "clearing" ELSE "deleting"
      BY <1>2, <1>4, <1>5 DEF Lifecycle
    <2> QED
      BY <1>1, <1>3, <2>2, <2>3, <2>4 DEF RequestForgets
  <1> QED
    BY <1>2, <1>5, <1>6, <1>7, ControlServes

\* The check lets a request on or ends it.
LEMMA CheckAuthorityServed ==
    ASSUME QuotaInv, ServedInv, NEW r \in Requests, CheckAuthority(r)
    PROVE  ServedInv'
  <1> DEFINE pc  == IF Authorized(r) THEN "list" ELSE "idle"
             now == [req[r] EXCEPT !.pc = pc]
  <1>0. Typed /\ req[r] \in RequestStates /\ RequestForgets(r)
    BY DEF QuotaInv, Typed, ServedInv
  <1>1. pc \in RequestPlaces /\ pc \in {"list", "idle"}
    BY DEF RequestPlaces
  <1>2. /\ req[r].pc = "find" /\ req' = [req EXCEPT ![r] = now]
        /\ UNCHANGED <<own, row, file, history, turn, mem, moved, rec, straddled, outrun>>
    BY DEF CheckAuthority, store, turns, Working, To, Becomes
  <1> HIDE DEF pc
  <1>3. /\ now \in RequestStates /\ now.pc = pc
        /\ now.todo = req[r].todo /\ now.doc = req[r].doc
    BY <1>0, <1>1, GoesTo, Zenon
  <1> HIDE DEF now
  <1>4. req'[r] = now /\ \A q \in Requests \ {r} : req'[q] = req[q] /\ moved'[q] = moved[q]
    BY <1>0, <1>2, <1>3, OneRequest
  <1>5. Quiet
    BY <1>2 DEF Quiet
  <1>6. ASSUME \A d \in Docs : Lost(d) => Lost(d)'
        PROVE  RequestForgets(r)'
    <2>1. Listed(r)' = Listed(r) /\ Listed(r) \subseteq Docs
      BY <1>0, <1>3, <1>4, RequestType DEF Listed
    <2>2. Kind[r] = "clear" => \A d \in Listed(r)' : Lost(d)'
      BY <1>0, <1>6, <2>1 DEF RequestForgets
    <2>3. AllCovered => AllCovered'
      BY <1>5, QuietCovered
    <2> QED
      BY <1>0, <1>1, <1>2, <1>3, <1>4, <2>2, <2>3 DEF RequestForgets
  <1> QED
    BY <1>2, <1>4, <1>5, <1>6, ControlServes

\* While the generation holds, a clear lists only what is lost; afterwards
\* what it lists is set down as met too late.
LEMMA FindDocumentsServed ==
    ASSUME QuotaInv, ServedInv, NEW r \in Requests, FindDocuments(r)
    PROVE  ServedInv'
  <1> DEFINE found  == {d \in Docs : row[d] # "none"}
             listed == [Idle EXCEPT !.pc = "file", !.todo = found]
  <1>0. Typed /\ RequestForgets(r) /\ \A d \in Docs : DocumentHeld(d)
    BY DEF QuotaInv, ServedInv
  <1>1. PICK now \in {Idle, listed} :
           /\ req' = [req EXCEPT ![r] = now]
           /\ outrun \subseteq outrun'
           /\ now = listed /\ ~Authorized(r) => found \subseteq outrun'
    BY DEF FindDocuments, Idle, Becomes
  <1>2. /\ UNCHANGED <<own, row, file, history, turn, mem, moved, rec, straddled>>
        /\ req[r].pc = "list"
    BY DEF FindDocuments, store, turns, Working
  <1>3. /\ Idle.pc = "idle" /\ Idle.todo = {} /\ Idle.doc = NoDoc /\ NoDoc \notin Docs
        /\ listed.pc = "file" /\ listed.todo = found
        /\ listed.doc = NoDoc
        /\ {Idle, listed} \subseteq RequestStates
    BY IdleIs, ListedIs
  <1> HIDE DEF listed
  <1>4. req'[r] = now /\ \A q \in Requests \ {r} : req'[q] = req[q] /\ moved'[q] = moved[q]
    BY <1>0, <1>1, <1>2, <1>3, OneRequest
  <1>5. Quiet
    BY <1>1, <1>2 DEF Quiet
  <1>6. ASSUME \A d \in Docs : Lost(d) => Lost(d)'
        PROVE  RequestForgets(r)'
    <2>1. CASE now = Idle
      BY <1>3, <1>4, <2>1 DEF RequestForgets, Listed
    <2>2. CASE now = listed
      <3>1. Listed(r)' = found /\ req'[r].pc = "file" /\ own' = own /\ moved' = moved
        BY <1>2, <1>3, <1>4, <2>2 DEF Listed
      <3>2. Kind[r] = "clear" /\ Authorized(r) =>
                AllCovered /\ own.state = "clearing"
        BY <1>0, <1>2 DEF RequestForgets, Lifecycle, Authorized
      <3>3. \A d \in found : d \in Docs /\ (d \in outrun \/ turn[d] # "idle")
        BY <1>0 DEF DocumentHeld
      <3>4. ASSUME NEW d \in found, Kind[r] = "clear"
            PROVE  Lost(d)'
        <4>1. CASE d \in outrun'
          BY <4>1 DEF Lost, Covered
        <4>2. CASE d \notin outrun'
          <5>1. Authorized(r) /\ turn[d] # "idle" /\ d \in Docs
            BY <1>1, <2>2, <3>3, <4>2
          <5>2. AllCovered /\ own.state # "active"
            BY <3>2, <3>4, <5>1
          <5> HIDE DEF found
          <5> QED
            BY <1>6, <5>1, <5>2, Swept
        <4> QED
          BY <4>1, <4>2
      <3>5. Kind[r] = "clear" => \A d \in Listed(r)' : Lost(d)'
        BY <3>1, <3>4
      <3>6. Kind[r] = "clear" /\ own.state = "clearing" /\ "begin" \notin moved[r] => AllCovered'
        BY <1>5, <3>2, QuietCovered DEF Authorized, Lifecycle
      <3>7. Kind[r] = "delete" => own.state \in {"deleting", "none"}
        BY <1>0, <1>2 DEF RequestForgets
      <3> QED
        BY <3>1, <3>5, <3>6, <3>7, SessionAssumption DEF RequestForgets
    <2> QED
      BY <2>1, <2>2
  <1> QED
    BY <1>2, <1>4, <1>5, <1>6, ControlServes

\* The history is emptied: what was known is covered, or known to nobody.
LEMMA Emptying ==
    ASSUME QuotaInv, ServedInv, NEW r \in Requests,
           UNCHANGED <<own, moved, turn, row, file, mem, straddled, outrun, rec>>, history' = {},
           \A q \in Requests \ {r} : req'[q] = req[q],
           own.state = "active" => \A d \in Docs : turn[d] = "dead" => Lost(d),
           AllCovered' /\ (\A d \in Docs : Lost(d) => Lost(d)') => RequestForgets(r)'
    PROVE  ServedInv'
  <1>1. \A d \in Docs : TurnRemembers(d) /\ StoresAgree(d) /\ Served(d)
    BY DEF ServedInv
  <1>2. \A d : Covered(d)' <=> Covered(d)
    BY DEF Covered
  <1>3. \A d \in Docs : Elsewhere(d)' => Elsewhere(d)
    BY DEF Elsewhere, Running
  <1>4. \A d \in Docs : Lost(d) => Lost(d)'
    BY <1>2, <1>3, LostStays DEF NoWayBack
  <1>5. AllCovered'
    BY DEF AllCovered
  <1>6. ASSUME NEW d \in Docs
        PROVE  TurnRemembers(d)'
    <2>1. TurnRemembers(d) /\ (Running(d)' <=> Running(d))
      BY <1>1 DEF Running
    <2>2. turn[d] = "dead" => Covered(d) \/ \A e \in Docs : Running(e) => d \notin mem[e]
      <3> SUFFICES ASSUME turn[d] = "dead", ~Covered(d), NEW e \in Docs, Running(e)
                   PROVE  d \notin mem[e]
        OBVIOUS
      <3>1. e # d
        BY DEF Running, Ended
      <3>2. CASE own.state = "active"
        BY <3>1, <3>2 DEF Lost, Elsewhere
      <3>3. CASE own.state # "active"
        BY <1>1, <3>3 DEF TurnRemembers, Covered
      <3> QED
        BY <3>2, <3>3
    <2>3. turn'[d] = "dead" =>
              \/ Covered(d)'
              \/ \A e \in Docs : Running(e)' => (d \in mem'[e] <=> d \in history')
      BY <1>2, <2>2 DEF Running
    <2> QED
      BY <2>1, <2>3 DEF TurnRemembers
  <1>7. \A d \in Docs : StoresAgree(d)'
    BY <1>1, <1>2 DEF StoresAgree
  <1>8. \A d \in Docs : Served(d)'
    BY <1>1, <1>2, <1>3 DEF Served
  <1>9. ASSUME NEW q \in Requests
        PROVE  RequestForgets(q)'
    <2>1. CASE q = r
      BY <1>4, <1>5, <2>1
    <2>2. CASE q # r
      <3>1. RequestForgets(q) /\ req[q].todo \subseteq Docs /\ NoDoc \notin Docs
        BY RequestType, SessionAssumption DEF ServedInv, QuotaInv
      <3>2. /\ req'[q] = req[q] /\ own'.state = own.state
            /\ "begin" \in moved[q] => "begin" \in moved'[q]
        BY <2>2
      <3> QED
        BY <1>4, <1>5, <3>1, <3>2, RequestWaits
    <2> QED
      BY <2>1, <2>2
  <1>10. RecoveryForgets'
    <2>1. RecoveryForgets /\ own'.state = own.state /\ (rec.pc # "idle" => rec.doc \in Docs)
      BY DEF ServedInv, QuotaInv, RecoveryHeld
    <2> QED
      BY <1>4, <2>1, LoopWaits
  <1>11. Remembered'
    BY DEF ServedInv, Remembered
  <1> QED
    BY <1>5, <1>6, <1>7, <1>8, <1>9, <1>10, <1>11 DEF ServedInv

LEMMA ClearChatServed ==
    ASSUME QuotaInv, ServedInv, NEW r \in Requests, ClearChat(r)
    PROVE  ServedInv'
  <1> DEFINE now == [req[r] EXCEPT !.pc = "find"]
  <1>0. Typed /\ RequestForgets(r) /\ req[r] \in RequestStates
    BY DEF QuotaInv, Typed, ServedInv
  <1>1. /\ req[r].pc = "chat" /\ req' = [req EXCEPT ![r] = now] /\ history' = {}
        /\ UNCHANGED <<own, moved, turn, row, file, mem, straddled, outrun, rec>>
    BY DEF ClearChat, turns, Working, To, Becomes
  <1>2. /\ now \in RequestStates
        /\ now.pc = "find" /\ now.todo = req[r].todo /\ now.doc = req[r].doc
    BY <1>0, GoesTo DEF RequestPlaces
  <1> HIDE DEF now
  <1>3. req'[r] = now /\ \A q \in Requests \ {r} : req'[q] = req[q]
    BY <1>0, <1>1, <1>2, OneRequest
  <1>4. own.state = "active" => \A d \in Docs : turn[d] = "dead" => Lost(d)
    BY <1>0, <1>1 DEF RequestForgets
  <1>5. ASSUME AllCovered', \A d \in Docs : Lost(d) => Lost(d)'
        PROVE  RequestForgets(r)'
    <2>1. Listed(r)' = Listed(r) /\ Listed(r) \subseteq Docs
      BY <1>0, <1>2, <1>3, RequestType DEF Listed
    <2>2. \A d \in Listed(r)' : Kind[r] = "clear" => Lost(d)'
      BY <1>0, <1>5, <2>1 DEF RequestForgets
    <2> QED
      BY <1>0, <1>1, <1>2, <1>3, <1>5, <2>2 DEF RequestForgets
  <1> QED
    BY <1>1, <1>3, <1>4, <1>5, Emptying

LEMMA DeleteSessionServed ==
    ASSUME QuotaInv, ServedInv, NEW r \in Requests, DeleteSession(r)
    PROVE  ServedInv'
  <1> DEFINE now == [req[r] EXCEPT !.pc = "finish"]
  <1>0. Typed /\ RequestForgets(r) /\ req[r] \in RequestStates
    BY DEF QuotaInv, Typed, ServedInv
  <1>1. /\ req[r].pc = "file" /\ Kind[r] = "delete"
        /\ req' = [req EXCEPT ![r] = now] /\ history' = {}
        /\ UNCHANGED <<own, moved, turn, row, file, mem, straddled, outrun, rec>>
    BY DEF DeleteSession, Emptied, turns, Working, To, Becomes
  <1>2. /\ now \in RequestStates
        /\ now.pc = "finish" /\ now.todo = req[r].todo /\ now.doc = req[r].doc
    BY <1>0, GoesTo DEF RequestPlaces
  <1> HIDE DEF now
  <1>3. req'[r] = now /\ \A q \in Requests \ {r} : req'[q] = req[q]
    BY <1>0, <1>1, <1>2, OneRequest
  <1>4. own.state # "active"
    BY <1>0, <1>1 DEF RequestForgets
  <1>5. ASSUME AllCovered'
        PROVE  RequestForgets(r)'
    BY <1>0, <1>1, <1>2, <1>3, <1>5 DEF RequestForgets
  <1> QED
    BY <1>1, <1>3, <1>4, <1>5, Emptying

\* Every turn that runs when a lifecycle begins straddles it.
LEMMA BeginLifecycleServed ==
    ASSUME QuotaInv, ServedInv, NEW r \in Requests, BeginLifecycle(r)
    PROVE  ServedInv'
  <1> DEFINE pc    == First(r)
             now   == [req[r] EXCEPT !.pc = pc]
             state == Lifecycle(r)
  <1>0. Typed /\ req[r] \in RequestStates
    BY DEF QuotaInv, Typed
  <1>1. pc \in RequestPlaces /\ pc \in {"chat", "find"} /\ state \in {"clearing", "deleting"}
    BY DEF First, RequestPlaces, Lifecycle
  <1>2. /\ Kind[r] = "clear" <=> pc = "chat"
        /\ Kind[r] = "clear" <=> state = "clearing"
    BY DEF First, Lifecycle
  <1>3. /\ req[r].pc = "idle" /\ own.state = "active"
        /\ own' = [own EXCEPT !.state = state, !.gen = @ + 1, !.ledger = Without(Pending)]
        /\ moved' = [q \in Requests |->
                        IF q = r \/ req[q].pc = "idle" THEN {} ELSE moved[q] \cup {"begin"}]
        /\ req' = [req EXCEPT ![r] = now]
        /\ straddled' = straddled \cup {d \in Docs : turn[d] \notin Ended}
        /\ UNCHANGED <<row, file, history, turn, mem, rec, outrun>>
    BY DEF BeginLifecycle, turns, Working, To, Becomes
  <1> HIDE DEF pc, state
  <1>4. /\ now \in RequestStates /\ now.pc = pc
        /\ now.todo = req[r].todo /\ now.doc = req[r].doc
    BY <1>0, <1>1, GoesTo, Zenon
  <1> HIDE DEF now
  <1>5. req'[r] = now /\ \A q \in Requests \ {r} : req'[q] = req[q]
    BY <1>0, <1>3, <1>4, OneRequest
  <1>6. own'.state = state
    BY <1>0, <1>3, OwnType
  <1>7. /\ \A d \in Docs : TurnRemembers(d) /\ StoresAgree(d) /\ Served(d)
        /\ RecoveryForgets /\ Remembered /\ \A q \in Requests : RequestForgets(q)
    BY DEF ServedInv
  <1>8. \A d : Covered(d) => Covered(d)'
    BY <1>3 DEF Covered
  <1>9. \A d \in Docs : Elsewhere(d)' <=> Elsewhere(d)
    BY <1>3 DEF Elsewhere, Running
  <1>10. \A d \in Docs : Lost(d) => Lost(d)'
    BY <1>3, <1>8, <1>9, LostStays DEF NoWayBack
  <1>11. ASSUME NEW d \in Docs
         PROVE  TurnRemembers(d)'
    <2>1. TurnRemembers(d) /\ turn'[d] = turn[d] /\ mem' = mem /\ history' = history
      BY <1>3, <1>7
    <2>2. Running(d)' => d \in straddled'
      BY <1>3 DEF Running
    <2>3. turn'[d] = "idle" => d \notin straddled'
      BY <1>3, <2>1 DEF TurnRemembers, Ended
    <2>4. turn'[d] = "dead" =>
              \/ Covered(d)'
              \/ \A e \in Docs : Running(e)' => (d \in mem'[e] <=> d \in history')
      BY <1>3, <1>8, <2>1 DEF TurnRemembers, Running
    <2> QED
      BY <2>1, <2>2, <2>3, <2>4 DEF TurnRemembers
  <1>12. \A d \in Docs : StoresAgree(d)'
    BY <1>3, <1>7, <1>8 DEF StoresAgree
  <1>13. \A d \in Docs : Served(d)'
    BY <1>3, <1>7, <1>8, <1>9 DEF Served
  <1>14. ASSUME NEW q \in Requests
         PROVE  RequestForgets(q)'
    <2>0. RequestForgets(q) /\ Kind[q] \in {"clear", "delete"} /\ NoDoc \notin Docs
      BY <1>7, SessionAssumption
    <2>1. Listed(q)' = Listed(q) /\ Listed(q) \subseteq Docs
      BY <1>0, <1>4, <1>5, RequestType DEF Listed
    <2>2. \A d \in Listed(q)' : Kind[q] = "clear" => Lost(d)'
      BY <1>10, <2>0, <2>1 DEF RequestForgets
    <2>3. CASE q = r
      BY <1>1, <1>2, <1>4, <1>5, <1>6, <2>0, <2>2, <2>3 DEF RequestForgets
    <2>4. CASE q # r
      <3>1. req'[q] = req[q] /\ (req[q].pc # "idle" => Kind[q] = "clear" /\ "begin" \in moved'[q])
        BY <1>3, <1>5, <2>0, <2>4 DEF RequestForgets
      <3> QED
        BY <1>1, <1>6, <2>0, <2>2, <3>1 DEF RequestForgets
    <2> QED
      BY <2>3, <2>4
  <1>15. RecoveryForgets'
    <2>1. rec.pc # "idle" => rec.doc \in Docs
      BY DEF QuotaInv, RecoveryHeld
    <2>2. rec' = rec /\ turn' = turn
      BY <1>3
    <2> QED
      BY <1>3, <1>7, <1>10, <2>1, <2>2 DEF RecoveryForgets
  <1>16. Remembered' /\ own'.state # "none"
    BY <1>1, <1>3, <1>6, <1>7 DEF Remembered
  <1> QED
    BY <1>11, <1>12, <1>13, <1>14, <1>15, <1>16 DEF ServedInv

\* A token that is still good has swept its session.
LEMMA FinishServed ==
    ASSUME QuotaInv, ServedInv, NEW r \in Requests, Finish(r)
    PROVE  ServedInv'
  <1> DEFINE empty == [d \in Docs |-> "none"]
             state == IF Kind[r] = "clear" THEN "active" ELSE "none"
  <1>0. Typed /\ Kind[r] \in {"clear", "delete"}
    BY SessionAssumption DEF QuotaInv
  <1>1. /\ AtFinish(r) /\ req' = [req EXCEPT ![r] = Idle]
        /\ UNCHANGED <<row, file, history, turn, mem, rec, straddled, outrun>>
    BY DEF Finish, turns, Becomes
  <1>2. req'[r] = Idle /\ \A q \in Requests \ {r} : req'[q] = req[q]
    BY <1>0, <1>1, IdleIs, OneRequest
  <1>3. RequestForgets(r)'
    <2>1. Listed(r)' = {} /\ req'[r].pc = "idle"
      BY <1>2, IdleIs DEF Listed
    <2> QED
      BY <2>1 DEF RequestForgets
  <1>4. CASE UNCHANGED <<own, moved>>
    <2>1. Quiet
      BY <1>1, <1>4 DEF Quiet
    <2> QED
      BY <1>1, <1>2, <1>3, <1>4, <2>1, ControlServes
  <1>5. CASE /\ moved[r] = {} /\ own.state = Lifecycle(r)
             /\ Cas(r, [own EXCEPT !.state = state, !.count = 0, !.ledger = empty])
    <2>1. own.state # "active" /\ state \in {"active", "none"}
          /\ (own.state = "clearing" <=> Kind[r] = "clear")
          /\ (own.state = "deleting" <=> Kind[r] = "delete")
          /\ (state = "active" <=> Kind[r] = "clear")
      BY <1>0, <1>5 DEF Lifecycle
    <2>2. req[r].pc = "finish" \/ (Kind[r] = "clear" /\ req[r].pc = "file")
      BY <1>1 DEF AtFinish, Emptied, Working
    <2>3. AllCovered
      <3>1. RequestForgets(r)
        BY DEF ServedInv
      <3> QED
        BY <1>5, <2>1, <2>2, <3>1 DEF RequestForgets
    <2> HIDE DEF empty, state
    <2>4. own'.state = state
      <3>1. own' = [own EXCEPT !.state = state, !.count = 0, !.ledger = empty]
        BY <1>0, <1>5, CasMoves
      <3> QED
        BY <1>0, <3>1, OwnType
    <2>5. \A d : Covered(d)' <=> Covered(d)
      BY <1>1 DEF Covered
    <2>6. \A d \in Docs : (Elsewhere(d)' <=> Elsewhere(d)) /\ (Lost(d)' <=> Lost(d))
      BY <1>1, <2>5 DEF Elsewhere, Running, Lost
    <2>7. AllCovered'
      BY <1>1, <2>3, <2>5 DEF AllCovered
    <2>8. ASSUME NEW d \in Docs
          PROVE  TurnRemembers(d)' /\ StoresAgree(d)' /\ Served(d)'
      <3>1. TurnRemembers(d) /\ StoresAgree(d) /\ Served(d)
        BY DEF ServedInv
      <3>2. TurnRemembers(d)'
        BY <1>1, <2>1, <2>5, <3>1 DEF TurnRemembers, Running
      <3>3. StoresAgree(d)'
        BY <1>1, <2>5, <3>1 DEF StoresAgree
      <3>4. Served(d)'
        BY <1>1, <2>1, <2>4, <2>5, <2>6, <3>1 DEF Served
      <3> QED
        BY <3>2, <3>3, <3>4
    <2>9. ASSUME NEW q \in Requests \ {r}
          PROVE  RequestForgets(q)'
      <3>1. RequestForgets(q) /\ req'[q] = req[q] /\ Kind[q] \in {"clear", "delete"}
        BY <1>2, SessionAssumption DEF ServedInv
      <3>2. Listed(q)' = Listed(q) /\ Listed(q) \subseteq Docs
        BY <1>0, <3>1, RequestType DEF Listed
      <3>3. Kind[q] = "clear" => \A d \in Listed(q)' : Lost(d)'
        BY <2>6, <3>1, <3>2 DEF RequestForgets
      <3>4. \A d \in Docs : turn'[d] = "dead" => Lost(d)'
        BY <1>1, <2>1, <2>3, <2>6, Swept
      <3>5. req[q].pc # "idle" /\ Kind[q] = "delete" => own'.state \in {"deleting", "none"}
        BY <2>1, <2>4, <3>1 DEF RequestForgets
      <3>6. own'.state \notin {"clearing", "deleting"}
        BY <2>1, <2>4
      <3> QED
        BY <3>1, <3>3, <3>4, <3>5, <3>6 DEF RequestForgets
    <2>10. RecoveryForgets'
      <3>1. RecoveryForgets /\ (rec.pc # "idle" => rec.doc \in Docs)
        BY DEF ServedInv, QuotaInv, RecoveryHeld
      <3>2. own.state \in {"deleting", "none"} => own'.state = "none"
        BY <1>0, <2>1, <2>4
      <3> QED
        BY <1>1, <2>6, <3>1, <3>2 DEF RecoveryForgets
    <2>11. Remembered'
      BY <1>1 DEF ServedInv, Remembered
    <2> QED
      BY <1>3, <2>7, <2>8, <2>9, <2>10, <2>11 DEF ServedInv
  <1> QED
    BY <1>4, <1>5 DEF Finish

LEMMA RequestServed ==
    ASSUME QuotaInv, ServedInv, NEW r \in Requests, Request(r)
    PROVE  ServedInv'
  BY BeginLifecycleServed, ResumeLifecycleServed, ClearChatServed, CheckAuthorityServed,
     FindDocumentsServed,
     DeleteFileServed, DeleteRowServed, ReleaseQuotaServed, DeleteSessionServed,
     FinishServed, Zenon
  DEF Request

-----------------------------------------------------------------------------

LEMMA ServedStep ==
    ASSUME QuotaInv, ServedInv, ~SlowTurns, [Next]_vars
    PROVE  ServedInv'
  BY TurnServes, RequestServed, TakeExpiredServed, SweepLedgerServed, InspectServed,
     RecoverReadyServed, RecoverAdoptedServed, RecoverCommitServed, RecoverFileServed,
     RecoverRowServed, RecoverLedgerServed, CrashServed, StutterServed, Zenon
  DEF Next, Maintenance, Reconcile

LEMMA ServedInit ==
    ASSUME Init
    PROVE  ServedInv
  <1>1. \A d \in Docs : TurnRemembers(d) /\ StoresAgree(d) /\ ~Elsewhere(d)
    BY DEF Init, TurnRemembers, StoresAgree, Elsewhere, Running, Ended, Kept, Saved
  <1>2. \A d \in Docs : Served(d)
    BY <1>1 DEF Served
  <1>3. ASSUME NEW q \in Requests
        PROVE  RequestForgets(q)
    <2>1. Listed(q) = {} /\ req[q].pc = "idle"
      BY IdleIs DEF Init, Listed
    <2> QED
      BY <2>1 DEF RequestForgets
  <1>4. RecoveryForgets
    BY DEF Init, RecoveryForgets, Fresh
  <1>5. Remembered /\ own.state # "none"
    BY DEF Init, Remembered
  <1> QED
    BY <1>1, <1>2, <1>3, <1>4, <1>5 DEF ServedInv

LEMMA ServedBounds ==
    ASSUME QuotaInv, ServedInv
    PROVE  HistoryServed
  <1> SUFFICES ASSUME NEW d \in history
               PROVE  file[d] = "whole" \/ own.state = "deleting" \/ Covered(d)
    BY DEF HistoryServed, Covered
  <1>1. d \in Docs /\ Served(d) /\ Elsewhere(d)
    BY DEF ServedInv, Remembered, Elsewhere
  <1>2. own.state \in States
    BY OwnType DEF QuotaInv
  <1> QED
    BY <1>1, <1>2 DEF States, Served, ServedInv, AllCovered

(* However many uploads, requests, crashes and sweeps there are, a document *)
(* that the stored history names has its bytes, unless a delete is under    *)
(* way, a turn that was running when a clear began wrote it back, or a      *)
(* clear listed it after another had ended its own, provided that no live   *)
(* promotion outlasts its lease (sessions/base.py saves, artifacts.py       *)
(* clears, media/documents.py recovers).                                    *)
THEOREM HistoryAlwaysServed ==
    ASSUME ~SlowTurns
    PROVE  Spec => []HistoryServed
  <1>1. Init => QuotaInv /\ ServedInv
    BY QuotaInit, ServedInit
  <1>2. QuotaInv /\ ServedInv /\ [Next]_vars => QuotaInv' /\ ServedInv'
    BY QuotaStep, ServedStep
  <1>3. QuotaInv /\ ServedInv => HistoryServed
    BY ServedBounds
  <1> QED
    BY <1>1, <1>2, <1>3, PTL DEF Spec

-----------------------------------------------------------------------------
(***************************************************************************)
(* The sessions themselves (ChatSessions), for any number of clients,      *)
(* sessions, turns, changes and failures.  The invariant says of a client  *)
(* what it may rely on: that nobody else creates its session and that it   *)
(* knows of whoever else works there (Alone), that a session to be claimed *)
(* is untouched and one taken back has no row (CreationHeld), that a clear *)
(* or deletion finds the binding its stage left (ChangeHeld), and that a   *)
(* turn's history has all that is owed (TurnInHand).                       *)
(***************************************************************************)

OpStates ==
    [pc : Stages, id : Ids \cup {NoId}, todo : SUBSET Ids, gen : Nat, turn : Nat,
     resumed : BOOLEAN]

RowsTypes ==
    /\ rows \subseteq Ids
    /\ chat \in [Ids -> SUBSET Nat] /\ owed \in [Ids -> SUBSET Nat]
    /\ binding \in [Ids -> BindingStates] /\ age \in [Ids -> Nat]
    /\ \A i \in Ids : age[i] = 0 => binding[i] \in {"none", "active"}
    /\ op \in [Clients -> OpStates]
    /\ loaded \in [Clients -> SUBSET Nat] /\ cur \in [Clients -> Ids \cup {NoId}]
    /\ uses \in Nat

Creating(c) == op[c].pc \in {"claim", "undo", "undo rest"}
Busy(c) == Turning(c) \/ Changing(c)

\* Nobody else creates the session of a creation, and whoever works on a session
\* another one works on knows it.
Alone(c) ==
    \A d \in Clients \ {c} : op[c].id = op[d].id =>
        /\ ~(Creating(c) /\ Creating(d))
        /\ Busy(c) /\ Busy(d) => c \in shared

\* A session is claimed before anybody can have changed it; what is taken back
\* has no row any more.
CreationHeld(c) ==
    /\ At(c, "claim") => binding[op[c].id] = "none" /\ age[op[c].id] = 0
    /\ At(c, "undo rest") => op[c].id \notin rows \ revived

\* A clear or deletion that still holds its binding finds it as its stage left it.
ChangeHeld(c) ==
    /\ Changing(c) => op[c].gen \in 1 .. age[op[c].id]
    /\ At(c, "drop") /\ Held(c) => binding[op[c].id] \in {"deleting", "none"}
    /\ At(c, "finish") /\ Held(c) =>
         \/ binding[op[c].id] \in {"clearing", "active"}
         \/ binding[op[c].id] \in {"deleting", "none"} /\ op[c].id \notin rows \ revived

\* A turn works on a history that has all that is owed.
TurnInHand(c) ==
    /\ op[c].pc \in {"run", "save"} /\ op[c].id \notin revived =>
         owed[op[c].id] \subseteq loaded[c]
    /\ At(c, "save") => op[c].turn \in loaded[c]

ClientHeld(c) ==
    /\ Creating(c) \/ Busy(c) \/ At(c, "fetch") => op[c].id \in Ids
    /\ Alone(c) /\ CreationHeld(c) /\ ChangeHeld(c) /\ TurnInHand(c)

RowsInv ==
    /\ RowsTypes
    /\ \A c \in Clients : ClientHeld(c)
    /\ \A i \in Ids \ revived : owed[i] \subseteq chat[i]
    /\ RowsAreOwned

-----------------------------------------------------------------------------
(* What a client does next.                                                *)

LEMMA GotoIs ==
    ASSUME RowsTypes, NEW c \in Clients, NEW p \in Stages, Goto(c, p)
    PROVE  /\ op' \in [Clients -> OpStates]
           /\ op'[c].pc = p /\ op'[c].id = op[c].id /\ op'[c].gen = op[c].gen
           /\ op'[c].turn = op[c].turn
           /\ \A d \in Clients : d # c => op'[d] = op[d]
BY DEF RowsTypes, OpStates, Goto

LEMMA RestingIs ==
    /\ Resting \in OpStates /\ Resting.pc = "idle"
    /\ Resting = [pc |-> "idle", id |-> NoId, todo |-> {}, gen |-> 0, turn |-> 0, resumed |-> FALSE]
BY DEF Resting, OpStates, Stages

LEMMA BecomesIs ==
    ASSUME RowsTypes, NEW c \in Clients, NEW o \in OpStates, op' = [op EXCEPT ![c] = o]
    PROVE  /\ op' \in [Clients -> OpStates] /\ op'[c] = o
           /\ \A d \in Clients : d # c => op'[d] = op[d]
BY DEF RowsTypes

LEMMA EndIs ==
    ASSUME RowsTypes, NEW c \in Clients, End(c)
    PROVE  /\ op' \in [Clients -> OpStates] /\ op'[c].pc = "idle"
           /\ \A d \in Clients : d # c => op'[d] = op[d]
BY RestingIs, BecomesIs DEF End

-----------------------------------------------------------------------------
(* What keeps the invariant.                                               *)

\* What a step leaves a client that it is not a step of.
Leaves(d) ==
    op[d].id \in Ids =>
      LET i == op[d].id
      IN  /\ i \notin rows \ revived => i \notin rows' \ revived'
          /\ age'[i] \in Nat /\ age[i] <= age'[i]
          /\ At(d, "claim") => binding'[i] = binding[i] /\ age'[i] = age[i]
          /\ Changing(d) /\ age'[i] = age[i] =>
               \/ binding'[i] = binding[i]
               \/ binding[i] = "clearing" /\ binding'[i] = "active"
               \/ binding[i] = "deleting" /\ binding'[i] = "none"
          /\ op[d].pc \in {"run", "save"} /\ i \notin revived' => owed'[i] \subseteq owed[i]

\* A client keeps its part while another acts.
LEMMA BesideHeld ==
    ASSUME NEW d \in Clients, RowsTypes, ClientHeld(d), op'[d] = op[d], loaded'[d] = loaded[d],
           revived \subseteq revived',
           Leaves(d)
    PROVE  /\ (Creating(d) \/ Busy(d) \/ At(d, "fetch"))' => op'[d].id \in Ids
           /\ CreationHeld(d)' /\ ChangeHeld(d)' /\ TurnInHand(d)'
<1>1. PICK i : i = op[d].id
  OBVIOUS
<1>2. Creating(d) \/ Busy(d) \/ At(d, "fetch") => i \in Ids
  BY <1>1 DEF ClientHeld
<1>3. (Creating(d) \/ Busy(d) \/ At(d, "fetch"))' => op'[d].id \in Ids
  BY <1>1, <1>2 DEF Creating, Busy, Turning, Changing, At
<1>4. CreationHeld(d)'
  BY <1>1, <1>2 DEF Leaves, ClientHeld, CreationHeld, Creating, At
<1>5. ChangeHeld(d)'
  <2>1. CASE ~Changing(d)
    BY <2>1 DEF ChangeHeld, Changing, At
  <2>2. CASE Changing(d)
    <3>1. i \in Ids /\ op[d].gen \in 1 .. age[i] /\ age[i] \in Nat
      BY <1>1, <1>2, <2>2 DEF ClientHeld, Busy, ChangeHeld, RowsTypes
    <3>2. op'[d].gen \in 1 .. age'[i]
      BY <1>1, <3>1 DEF Leaves
    <3>3. Held(d)' => age'[i] = age[i] /\ Held(d)
      BY <1>1, <3>1 DEF Held, Leaves
    <3>4. (At(d, "drop") /\ Held(d))' => binding'[i] \in {"deleting", "none"}
      BY <1>1, <2>2, <3>1, <3>3 DEF Leaves, ClientHeld, ChangeHeld, At
    <3>5. (At(d, "finish") /\ Held(d))' =>
            \/ binding'[i] \in {"clearing", "active"}
            \/ binding'[i] \in {"deleting", "none"} /\ i \notin rows' \ revived'
      BY <1>1, <2>2, <3>1, <3>3 DEF Leaves, ClientHeld, ChangeHeld, At
    <3> QED
      BY <1>1, <3>2, <3>4, <3>5 DEF ChangeHeld
  <2> QED
    BY <2>1, <2>2
<1>6. TurnInHand(d)'
  <2>1. CASE op[d].pc \in {"run", "save"}
    <3>1. i \in Ids
      BY <1>2, <2>1 DEF Busy, Turning
    <3> QED
      BY <1>1, <2>1, <3>1 DEF Leaves, ClientHeld, TurnInHand, At
  <2>2. CASE op[d].pc \notin {"run", "save"}
    BY <2>2 DEF TurnInHand, At
  <2> QED
    BY <2>1, <2>2
<1> QED
  BY <1>3, <1>4, <1>5, <1>6

LEMMA AloneStays ==
    ASSUME NEW c \in Clients, \A d \in Clients : Alone(d),
           \A d \in Clients : d # c => op'[d] = op[d],
           Creating(c)' => Creating(c) /\ op'[c].id = op[c].id,
           Busy(c)' => Busy(c) /\ op'[c].id = op[c].id,
           UNCHANGED shared
    PROVE  \A d \in Clients : Alone(d)'
<1> SUFFICES ASSUME NEW d \in Clients, NEW e \in Clients \ {d}, op'[d].id = op'[e].id
             PROVE  /\ ~(Creating(d)' /\ Creating(e)')
                    /\ Busy(d)' /\ Busy(e)' => d \in shared'
  BY DEF Alone
<1>1. \A q \in Clients : q # c => /\ Creating(q)' <=> Creating(q)
                                  /\ Busy(q)' <=> Busy(q)
  BY DEF Creating, Busy, Turning, Changing
<1>2. /\ op[d].id = op[e].id => /\ ~(Creating(d) /\ Creating(e))
                                /\ Busy(d) /\ Busy(e) => d \in shared
  BY DEF Alone
<1> QED
  BY <1>1, <1>2

\* A step that writes: what it has to show.
LEMMA WriteKeeps ==
    ASSUME RowsInv, NEW c \in Clients, RowsTypes', revived \subseteq revived',
           \A d \in Clients : Alone(d)',
           \A d \in Clients : d # c => op'[d] = op[d] /\ loaded'[d] = loaded[d] /\ Leaves(d),
           (Creating(c) \/ Busy(c) \/ At(c, "fetch"))' => op'[c].id \in Ids,
           CreationHeld(c)', ChangeHeld(c)', TurnInHand(c)',
           \A i \in Ids \ revived' : owed'[i] \subseteq chat'[i],
           RowsAreOwned'
    PROVE  RowsInv'
<1>1. ASSUME NEW d \in Clients, d # c
      PROVE  ClientHeld(d)'
  BY <1>1, BesideHeld DEF RowsInv, ClientHeld
<1>2. ClientHeld(c)'
  BY DEF ClientHeld
<1> QED
  BY <1>1, <1>2 DEF RowsInv

\* A step that neither writes a store nor begins anything.
LEMMA QuietClient ==
    ASSUME RowsInv, NEW c \in Clients, RowsTypes',
           UNCHANGED <<rows, chat, binding, age, owed, shared, revived, lost>>,
           \A d \in Clients : d # c => op'[d] = op[d] /\ loaded'[d] = loaded[d],
           op[c].pc \notin {"claim", "undo"}, ~Creating(c)',
           Busy(c)' => Busy(c) /\ op'[c].id = op[c].id,
           At(c, "fetch")' => op'[c].id \in Ids,
           ChangeHeld(c)', TurnInHand(c)'
    PROVE  RowsInv'
<1>1. \A d \in Clients : Alone(d)'
  BY AloneStays DEF RowsInv, ClientHeld
<1>2. ASSUME NEW d \in Clients, d # c
      PROVE  ClientHeld(d)'
  <2>1. Leaves(d)
    BY DEF RowsInv, RowsTypes, Leaves
  <2>2. /\ (Creating(d) \/ Busy(d) \/ At(d, "fetch"))' => op'[d].id \in Ids
        /\ CreationHeld(d)' /\ ChangeHeld(d)' /\ TurnInHand(d)'
    BY <1>2, <2>1, BesideHeld DEF RowsInv
  <2> QED
    BY <1>1, <2>2 DEF ClientHeld
<1>3. ClientHeld(c)'
  <2>1. CreationHeld(c)'
    BY DEF CreationHeld, Creating, At
  <2>2. Busy(c)' => op'[c].id \in Ids
    BY DEF RowsInv, ClientHeld
  <2> QED
    BY <1>1, <2>1, <2>2 DEF ClientHeld
<1>4. \A i \in Ids \ revived' : owed'[i] \subseteq chat'[i]
  BY DEF RowsInv
<1>5. RowsAreOwned'
  <2> SUFFICES ASSUME NEW i \in rows \ (revived \cup lost), binding[i] = "none"
               PROVE  \E d \in Clients : op'[d].id = i /\ op'[d].pc \in {"claim", "undo"}
    BY DEF RowsAreOwned
  <2>1. PICK d \in Clients : op[d].id = i /\ op[d].pc \in {"claim", "undo"}
    BY DEF RowsInv, RowsAreOwned
  <2> QED
    BY <2>1
<1> QED
  BY <1>2, <1>3, <1>4, <1>5 DEF RowsInv

-----------------------------------------------------------------------------
(* Steps that write nothing.                                               *)

LEMMA QuietEnds ==
    ASSUME RowsInv, NEW c \in Clients, RowsTypes',
           UNCHANGED <<rows, chat, binding, age, owed, shared, revived, lost>>,
           \A d \in Clients : d # c => op'[d] = op[d] /\ loaded'[d] = loaded[d],
           op[c].pc \notin {"claim", "undo"},
           op'[c].pc \in {"idle", "check", "create", "fetch"},
           op'[c].pc = "fetch" => op'[c].id \in Ids
    PROVE  RowsInv'
<1>1. ~Creating(c)' /\ ~Busy(c)' /\ (At(c, "fetch")' => op'[c].id \in Ids)
  BY DEF Creating, Busy, Turning, Changing, At
<1>2. ChangeHeld(c)' /\ TurnInHand(c)'
  BY DEF ChangeHeld, TurnInHand, Changing, At
<1> QED
  BY <1>1, <1>2, QuietClient

LEMMA OpenHeld ==
    ASSUME RowsInv, NEW c \in Clients, Open(c) \/ CheckBinding(c) \/ New(c)
    PROVE  RowsInv'
<1>1. /\ UNCHANGED <<rows, chat, binding, age, owed, shared, revived, lost, loaded, cur, uses>>
      /\ op[c].pc \notin {"claim", "undo"}
  BY DEF Open, CheckBinding, New, Stored, InMemory, Ghosts, At
<1>2. PICK o \in OpStates : /\ op' = [op EXCEPT ![c] = o]
                            /\ o.pc \in {"idle", "check", "create", "fetch"}
                            /\ o.pc = "fetch" => o.id \in Ids
  <2>1. op[c] \in OpStates /\ op \in [Clients -> OpStates]
    BY DEF RowsInv, RowsTypes
  <2>2. CASE Open(c)
    <3>1. PICK T : T = {i \in Ids : binding[i] = "active"}
      OBVIOUS
    <3>2. [Resting EXCEPT !.pc = "check", !.todo = T] \in OpStates
      BY <3>1, RestingIs DEF OpStates, Stages
    <3>3. [Resting EXCEPT !.pc = "check", !.todo = T].pc = "check"
      BY RestingIs
    <3> WITNESS [Resting EXCEPT !.pc = "check", !.todo = T] \in OpStates
    <3> QED
      BY <2>2, <3>1, <3>3 DEF Open
  <2>3. CASE New(c) \/ (CheckBinding(c) /\ op[c].todo = {})
    <3>1. op' = [op EXCEPT ![c].pc = "create"]
      BY <2>3 DEF New, CheckBinding, Goto
    <3>2. [op[c] EXCEPT !.pc = "create"] \in OpStates
      BY <2>1 DEF OpStates, Stages
    <3> WITNESS [op[c] EXCEPT !.pc = "create"] \in OpStates
    <3> QED
      BY <2>1, <3>1 DEF OpStates
  <2>4. CASE CheckBinding(c) /\ op[c].todo # {}
    <3>1. PICK i \in op[c].todo :
            op' = [op EXCEPT ![c].todo = @ \ {i}, ![c].id = i,
                             ![c].pc = IF binding[i] = "active" THEN "fetch" ELSE "check"]
      BY <2>4 DEF CheckBinding
    <3>2. PICK p \in {"fetch", "check"} : p = IF binding[i] = "active" THEN "fetch" ELSE "check"
      OBVIOUS
    <3>3. i \in Ids
      BY <2>1 DEF OpStates
    <3>4. [op[c] EXCEPT !.todo = @ \ {i}, !.id = i, !.pc = p] \in OpStates
      BY <2>1, <3>3 DEF OpStates, Stages
    <3> WITNESS [op[c] EXCEPT !.todo = @ \ {i}, !.id = i, !.pc = p] \in OpStates
    <3> QED
      BY <2>1, <3>1, <3>2, <3>3 DEF OpStates
  <2> QED
    BY <2>2, <2>3, <2>4
<1>3. /\ op' \in [Clients -> OpStates] /\ op'[c] = o
      /\ \A d \in Clients : d # c => op'[d] = op[d]
  BY <1>2, BecomesIs DEF RowsInv
<1>4. RowsTypes'
  BY <1>1, <1>3 DEF RowsInv, RowsTypes
<1> QED
  BY <1>1, <1>2, <1>3, <1>4, QuietEnds

LEMMA LoadHeld ==
    ASSUME RowsInv, NEW c \in Clients,
           FetchRow(c) \/ Helper(c) \/ \E i \in Ids : Select(c, i)
    PROVE  RowsInv'
<1>1. /\ UNCHANGED <<rows, chat, binding, age, owed, shared, revived, lost, uses>>
      /\ op[c].pc \notin {"claim", "undo"}
  BY DEF FetchRow, Helper, Select, Stored, Ghosts, At
<1>2. /\ op' \in [Clients -> OpStates] /\ op'[c].pc \in {"idle", "check"}
      /\ \A d \in Clients : d # c => op'[d] = op[d]
  <2>1. CASE UNCHANGED op /\ At(c, "idle")
    BY <2>1 DEF RowsInv, RowsTypes, At
  <2>2. CASE End(c)
    BY <2>2, EndIs DEF RowsInv
  <2>3. CASE Goto(c, "check")
    BY <2>3, GotoIs DEF RowsInv, Stages
  <2> QED
    BY <2>1, <2>2, <2>3 DEF FetchRow, Helper, Select
<1>3. /\ loaded' \in [Clients -> SUBSET Nat] /\ cur' \in [Clients -> Ids \cup {NoId}]
      /\ \A d \in Clients : d # c => loaded'[d] = loaded[d]
  <2>1. CASE FetchRow(c)
    <3>1. op[c].id \in Ids
      BY <2>1 DEF FetchRow, RowsInv, ClientHeld, At
    <3> QED
      BY <2>1, <3>1 DEF FetchRow, RowsInv, RowsTypes, InMemory
  <2>2. CASE Helper(c)
    BY <2>2 DEF Helper, RowsInv, RowsTypes
  <2>3. CASE \E i \in Ids : Select(c, i)
    BY <2>3 DEF Select, RowsInv, RowsTypes
  <2> QED
    BY <2>1, <2>2, <2>3
<1>4. RowsTypes'
  BY <1>1, <1>2, <1>3 DEF RowsInv, RowsTypes
<1> QED
  BY <1>1, <1>2, <1>3, <1>4, QuietEnds

LEMMA AbortHeld ==
    ASSUME RowsInv, NEW c \in Clients, Abort(c)
    PROVE  RowsInv'
<1>1. /\ UNCHANGED <<rows, chat, binding, age, owed, shared, revived, lost, loaded, cur, uses>>
      /\ op[c].pc \notin {"claim", "undo"} /\ End(c)
  BY DEF Abort, Stored, InMemory, Ghosts, Changing
<1>2. /\ op' \in [Clients -> OpStates] /\ op'[c].pc = "idle"
      /\ \A d \in Clients : d # c => op'[d] = op[d]
  BY <1>1, EndIs DEF RowsInv
<1>3. RowsTypes'
  BY <1>1, <1>2 DEF RowsInv, RowsTypes
<1> QED
  BY <1>1, <1>2, <1>3, QuietEnds

\* A turn takes up the stored history, which has all that is owed.
LEMMA LoadTurnHeld ==
    ASSUME RowsInv, NEW c \in Clients, LoadTurn(c)
    PROVE  RowsInv'
<1>1. /\ UNCHANGED <<rows, chat, binding, age, owed, shared, revived, lost, cur, uses>>
      /\ op[c].pc = "load" /\ op[c].id \in Ids
  BY DEF LoadTurn, Stored, Ghosts, At, RowsInv, ClientHeld, Busy, Turning
<1>2. CASE op[c].id \in rows
  <2>1. Goto(c, "run") /\ loaded' = [loaded EXCEPT ![c] = chat[op[c].id]]
    BY <1>2 DEF LoadTurn, Reload
  <2>2. /\ op' \in [Clients -> OpStates] /\ op'[c].pc = "run" /\ op'[c].id = op[c].id
        /\ \A d \in Clients : d # c => op'[d] = op[d]
    BY <2>1, GotoIs DEF RowsInv, Stages
  <2>3. /\ loaded' \in [Clients -> SUBSET Nat] /\ loaded'[c] = chat[op[c].id]
        /\ \A d \in Clients : d # c => loaded'[d] = loaded[d]
    BY <1>1, <2>1 DEF RowsInv, RowsTypes
  <2>4. RowsTypes'
    BY <1>1, <2>2, <2>3 DEF RowsInv, RowsTypes
  <2>5. ChangeHeld(c)' /\ ~Creating(c)' /\ ~At(c, "fetch")' /\ Busy(c)
    BY <1>1, <2>2 DEF ChangeHeld, Changing, Creating, At, Busy, Turning
  <2>6. TurnInHand(c)'
    BY <1>1, <2>2, <2>3 DEF TurnInHand, At, RowsInv
  <2> QED
    BY <1>1, <2>2, <2>3, <2>4, <2>5, <2>6, QuietClient
<1>3. CASE op[c].id \notin rows
  <2>1. End(c) /\ UNCHANGED loaded
    BY <1>3 DEF LoadTurn
  <2>2. /\ op' \in [Clients -> OpStates] /\ op'[c].pc = "idle"
        /\ \A d \in Clients : d # c => op'[d] = op[d]
    BY <2>1, EndIs DEF RowsInv
  <2>3. RowsTypes'
    BY <1>1, <2>1, <2>2 DEF RowsInv, RowsTypes
  <2> QED
    BY <1>1, <2>1, <2>2, <2>3, QuietEnds
<1> QED
  BY <1>2, <1>3

LEMMA ExchangeHeld ==
    ASSUME RowsInv, NEW c \in Clients, Exchange(c)
    PROVE  RowsInv'
<1>1. /\ UNCHANGED <<rows, chat, binding, age, owed, shared, revived, lost, cur, uses>>
      /\ op[c].pc = "run" /\ Goto(c, "save")
      /\ loaded' = [loaded EXCEPT ![c] = @ \cup {op[c].turn}]
  BY DEF Exchange, Stored, Ghosts, At
<1>2. /\ op' \in [Clients -> OpStates] /\ op'[c].pc = "save" /\ op'[c].id = op[c].id
      /\ op'[c].turn = op[c].turn
      /\ \A d \in Clients : d # c => op'[d] = op[d]
  BY <1>1, GotoIs DEF RowsInv, Stages
<1>3. /\ loaded' \in [Clients -> SUBSET Nat] /\ loaded'[c] = loaded[c] \cup {op[c].turn}
      /\ \A d \in Clients : d # c => loaded'[d] = loaded[d]
  <2>1. op[c].turn \in Nat
    BY DEF RowsInv, RowsTypes, OpStates
  <2> QED
    BY <1>1, <2>1 DEF RowsInv, RowsTypes
<1>4. RowsTypes'
  BY <1>1, <1>2, <1>3 DEF RowsInv, RowsTypes
<1>5. ChangeHeld(c)' /\ ~Creating(c)' /\ ~At(c, "fetch")' /\ Busy(c)
  BY <1>1, <1>2 DEF ChangeHeld, Changing, Creating, At, Busy, Turning
<1>6. TurnInHand(c)'
  BY <1>1, <1>2, <1>3 DEF TurnInHand, At, RowsInv, ClientHeld
<1> QED
  BY <1>1, <1>2, <1>3, <1>4, <1>5, <1>6, QuietClient

LEMMA CleanHeld ==
    ASSUME RowsInv, NEW c \in Clients, Clean(c)
    PROVE  RowsInv'
<1>1. /\ UNCHANGED <<rows, chat, binding, age, owed, shared, revived, lost, loaded, cur, uses>>
      /\ op[c].pc = "clean" /\ op[c].id \in Ids /\ op[c].gen \in 1 .. age[op[c].id]
  BY DEF Clean, Stored, InMemory, Ghosts, At, RowsInv, ClientHeld, ChangeHeld, Busy, Changing
<1>2. CASE ~(Held(c) /\ binding[op[c].id] \in {"clearing", "deleting"})
  <2>1. End(c)
    BY <1>2 DEF Clean
  <2>2. /\ op' \in [Clients -> OpStates] /\ op'[c].pc = "idle"
        /\ \A d \in Clients : d # c => op'[d] = op[d]
    BY <2>1, EndIs DEF RowsInv
  <2>3. RowsTypes'
    BY <1>1, <2>2 DEF RowsInv, RowsTypes
  <2> QED
    BY <1>1, <2>2, <2>3, QuietEnds
<1>3. CASE Held(c) /\ binding[op[c].id] \in {"clearing", "deleting"}
  <2>1. PICK p \in {"finish", "drop"} :
          /\ Goto(c, p)
          /\ binding[op[c].id] = IF p = "finish" THEN "clearing" ELSE "deleting"
    <3>1. CASE binding[op[c].id] = "clearing"
      BY <1>3, <3>1 DEF Clean
    <3>2. CASE binding[op[c].id] = "deleting"
      BY <1>3, <3>2 DEF Clean
    <3> QED
      BY <1>3, <3>1, <3>2
  <2>2. /\ op' \in [Clients -> OpStates] /\ op'[c].pc = p /\ op'[c].id = op[c].id
        /\ op'[c].gen = op[c].gen
        /\ \A d \in Clients : d # c => op'[d] = op[d]
    BY <2>1, GotoIs DEF RowsInv, Stages
  <2>3. RowsTypes'
    BY <1>1, <2>2 DEF RowsInv, RowsTypes
  <2>4. ChangeHeld(c)'
    BY <1>1, <2>1, <2>2 DEF ChangeHeld, At
  <2>5. TurnInHand(c)' /\ ~Creating(c)' /\ ~At(c, "fetch")' /\ Busy(c)
    BY <1>1, <2>2 DEF TurnInHand, Creating, At, Busy, Changing
  <2> QED
    BY <1>1, <2>2, <2>3, <2>4, <2>5, QuietClient
<1> QED
  BY <1>2, <1>3

-----------------------------------------------------------------------------
(* A session is created, or taken back.                                    *)

LEMMA CreateRowHeld ==
    ASSUME RowsInv, NEW c \in Clients, CreateRow(c)
    PROVE  RowsInv'
<1>1. /\ UNCHANGED <<chat, binding, age, owed, shared, revived, lost, loaded, cur, uses>>
      /\ op[c].pc = "create"
  BY DEF CreateRow, InMemory, Ghosts, At
<1>2. CASE End(c) /\ UNCHANGED rows
  <2>1. /\ op' \in [Clients -> OpStates] /\ op'[c].pc = "idle"
        /\ \A d \in Clients : d # c => op'[d] = op[d]
    BY <1>2, EndIs DEF RowsInv
  <2>2. RowsTypes'
    BY <1>1, <1>2, <2>1 DEF RowsInv, RowsTypes
  <2> QED
    BY <1>1, <1>2, <2>1, <2>2, QuietEnds
<1>3. ASSUME NEW i \in Ids, Unused(i), NEW p \in {"claim", "undo"}, rows' = rows \cup {i},
             op' = [op EXCEPT ![c].pc = p, ![c].id = i]
      PROVE  RowsInv'
  <2>1. /\ i \notin rows \cup revived \cup lost /\ binding[i] = "none" /\ age[i] = 0
        /\ \A d \in Clients : op[d].id # i
    BY <1>3 DEF Unused
  <2>2. /\ op' \in [Clients -> OpStates] /\ op'[c].pc = p /\ op'[c].id = i
        /\ \A d \in Clients : d # c => op'[d] = op[d]
    <3>1. op \in [Clients -> OpStates] /\ op[c] \in OpStates
      BY DEF RowsInv, RowsTypes
    <3>2. PICK o \in OpStates : o = [op[c] EXCEPT !.pc = p, !.id = i]
      BY <3>1 DEF OpStates, Stages
    <3>3. op' = [op EXCEPT ![c] = o] /\ o.pc = p /\ o.id = i
      BY <1>3, <3>1, <3>2 DEF OpStates
    <3> QED
      BY <3>3, BecomesIs DEF RowsInv
  <2>3. RowsTypes'
    BY <1>1, <1>3, <2>2 DEF RowsInv, RowsTypes
  <2>4. \A d \in Clients : Alone(d)'
    <3> SUFFICES ASSUME NEW d \in Clients, NEW e \in Clients \ {d}, op'[d].id = op'[e].id
                 PROVE  /\ ~(Creating(d)' /\ Creating(e)')
                        /\ Busy(d)' /\ Busy(e)' => d \in shared'
      BY DEF Alone
    <3>1. d # c /\ e # c
      BY <2>1, <2>2
    <3>2. Creating(d)' = Creating(d) /\ Creating(e)' = Creating(e)
      BY <2>2, <3>1 DEF Creating
    <3>3. Busy(d)' = Busy(d) /\ Busy(e)' = Busy(e)
      BY <2>2, <3>1 DEF Busy, Turning, Changing
    <3> QED
      BY <1>1, <2>2, <3>1, <3>2, <3>3 DEF RowsInv, ClientHeld, Alone
  <2>5. \A d \in Clients : d # c => op'[d] = op[d] /\ loaded'[d] = loaded[d] /\ Leaves(d)
    BY <1>1, <1>3, <2>1, <2>2 DEF Leaves, RowsInv, RowsTypes
  <2>6. CreationHeld(c)' /\ ChangeHeld(c)' /\ TurnInHand(c)'
    BY <1>1, <2>1, <2>2 DEF CreationHeld, ChangeHeld, TurnInHand, Changing, At
  <2>7. \A k \in Ids \ revived' : owed'[k] \subseteq chat'[k]
    BY <1>1 DEF RowsInv
  <2>8. RowsAreOwned'
    <3> SUFFICES ASSUME NEW k \in rows' \ (revived \cup lost), binding[k] = "none"
                 PROVE  \E d \in Clients : op'[d].id = k /\ op'[d].pc \in {"claim", "undo"}
      BY <1>1 DEF RowsAreOwned
    <3>1. CASE k = i
      BY <2>2, <3>1
    <3>2. CASE k # i
      <4>1. PICK d \in Clients : op[d].id = k /\ op[d].pc \in {"claim", "undo"}
        BY <1>3, <3>2 DEF RowsInv, RowsAreOwned
      <4> QED
        BY <1>1, <2>2, <4>1
    <3> QED
      BY <3>1, <3>2
  <2> QED
    BY <1>1, <2>2, <2>3, <2>4, <2>5, <2>6, <2>7, <2>8, WriteKeeps
<1> QED
  BY <1>2, <1>3 DEF CreateRow

LEMMA ClaimHeld ==
    ASSUME RowsInv, NEW c \in Clients, Claim(c)
    PROVE  RowsInv'
<1>1. /\ UNCHANGED <<rows, chat, age, owed, shared, revived, lost, uses>>
      /\ op[c].pc = "claim"
  BY DEF Claim, Ghosts, At
<1>2. PICK i : i = op[c].id
  OBVIOUS
<1>3. i \in Ids /\ binding[i] = "none" /\ age[i] = 0
  BY <1>1, <1>2 DEF RowsInv, ClientHeld, CreationHeld, Creating, At
<1>4. binding' = binding \/ binding' = [binding EXCEPT ![i] = "active"]
  BY <1>2 DEF Claim
<1>5. /\ op' \in [Clients -> OpStates] /\ op'[c].pc \in {"idle", "undo"}
      /\ \A d \in Clients : d # c => op'[d] = op[d]
      /\ op'[c].pc = "undo" => op'[c].id = i
      /\ op'[c].pc = "idle" => binding' = [binding EXCEPT ![i] = "active"]
  <2>1. CASE End(c) /\ binding' = [binding EXCEPT ![i] = "active"]
    BY <2>1, EndIs DEF RowsInv
  <2>2. CASE Goto(c, "undo")
    BY <1>2, <2>2, GotoIs DEF RowsInv, Stages
  <2> QED
    BY <1>2, <2>1, <2>2 DEF Claim
<1>6. /\ loaded' \in [Clients -> SUBSET Nat] /\ cur' \in [Clients -> Ids \cup {NoId}]
      /\ \A d \in Clients : d # c => loaded'[d] = loaded[d]
  <2>1. CASE UNCHANGED InMemory
    BY <2>1 DEF InMemory, RowsInv, RowsTypes
  <2>2. CASE cur' = [cur EXCEPT ![c] = i] /\ loaded' = [loaded EXCEPT ![c] = {}]
    BY <1>3, <2>2 DEF RowsInv, RowsTypes
  <2> QED
    BY <1>2, <2>1, <2>2 DEF Claim
<1>7. RowsTypes'
  BY <1>1, <1>3, <1>4, <1>5, <1>6 DEF RowsInv, RowsTypes, BindingStates
<1>8. \A d \in Clients : Alone(d)'
  <2>1. /\ Creating(c)' => Creating(c) /\ op'[c].id = op[c].id
        /\ Busy(c)' => Busy(c) /\ op'[c].id = op[c].id
    BY <1>1, <1>2, <1>5 DEF Creating, Busy, Turning, Changing
  <2> QED
    BY <1>1, <1>5, <2>1, AloneStays DEF RowsInv, ClientHeld
<1>9. ASSUME NEW d \in Clients, d # c
      PROVE  Leaves(d)
  <2>1. CASE op[d].id = i
    <3>1. ~At(d, "claim")
      BY <1>1, <1>2, <1>9, <2>1 DEF RowsInv, ClientHeld, Alone, Creating, At
    <3>2. ~Changing(d)
      BY <1>3, <2>1 DEF RowsInv, ClientHeld, ChangeHeld
    <3> QED
      BY <1>1, <1>3, <2>1, <3>1, <3>2 DEF Leaves
  <2>2. CASE op[d].id # i
    <3>1. op[d].id \in Ids => binding'[op[d].id] = binding[op[d].id]
      BY <1>4, <2>2 DEF RowsInv, RowsTypes
    <3> QED
      BY <1>1, <3>1 DEF Leaves, RowsInv, RowsTypes
  <2> QED
    BY <2>1, <2>2
<1>10. CreationHeld(c)' /\ ChangeHeld(c)' /\ TurnInHand(c)'
  BY <1>5 DEF CreationHeld, ChangeHeld, TurnInHand, Changing, At
<1>11. \A k \in Ids \ revived' : owed'[k] \subseteq chat'[k]
  BY <1>1 DEF RowsInv
<1>12. RowsAreOwned'
  <2> SUFFICES ASSUME NEW k \in rows \ (revived \cup lost), binding'[k] = "none"
               PROVE  \E d \in Clients : op'[d].id = k /\ op'[d].pc \in {"claim", "undo"}
    BY <1>1 DEF RowsAreOwned
  <2>1. binding[k] = "none"
    BY <1>4 DEF RowsInv, RowsTypes
  <2>2. PICK d \in Clients : op[d].id = k /\ op[d].pc \in {"claim", "undo"}
    BY <2>1 DEF RowsInv, RowsAreOwned
  <2>3. CASE d = c
    <3>1. op'[c].pc # "idle"
      BY <1>2, <1>3, <1>5, <2>2, <2>3 DEF RowsInv, RowsTypes
    <3> QED
      BY <1>2, <1>5, <2>2, <2>3, <3>1
  <2>4. CASE d # c
    BY <1>5, <2>2, <2>4
  <2> QED
    BY <2>3, <2>4
<1>13. (Creating(c) \/ Busy(c) \/ At(c, "fetch"))' => op'[c].id \in Ids
  BY <1>3, <1>5 DEF Creating, Busy, Turning, Changing, At
<1> QED
  BY <1>1, <1>5, <1>6, <1>7, <1>8, <1>9, <1>10, <1>11, <1>12, <1>13, WriteKeeps

\* The two halves of a compensation.
LEMMA HalvesOf ==
    ASSUME NEW c \in Clients, Compensate(c)
    PROVE  LET i == op[c].id IN
           \/ /\ At(c, "undo") /\ Goto(c, "undo rest")
              /\ rows' = rows \ {i} /\ UNCHANGED <<binding, lost>>
           \/ /\ At(c, "undo rest") /\ End(c) /\ UNCHANGED <<rows, lost>>
              /\ \/ UNCHANGED binding
                 \/ /\ binding[i] = "active" /\ age[i] = 0
                    /\ binding' = [binding EXCEPT ![i] = "none"]
           \/ /\ End(c) /\ UNCHANGED <<rows, binding>>
              /\ lost' = IF binding[i] = "none" THEN lost \cup ({i} \cap rows) ELSE lost
<1>1. CompensationOrder[1] = "row" /\ CompensationOrder[2] = "binding"
  BY DEF CompensationOrder
<1>2. CASE At(c, "undo")
  BY <1>1, <1>2 DEF Compensate, At
<1>3. CASE At(c, "undo rest")
  <2>1. ~At(c, "undo")
    BY <1>3 DEF At
  <2> QED
    BY <1>1, <1>3, <2>1 DEF Compensate
<1> QED
  BY <1>2, <1>3 DEF Compensate, At

LEMMA CompensateHeld ==
    ASSUME RowsInv, NEW c \in Clients, Compensate(c)
    PROVE  RowsInv'
<1>1. /\ UNCHANGED <<chat, age, owed, shared, revived, loaded, cur, uses>>
      /\ op[c].pc \in {"undo", "undo rest"}
  BY DEF Compensate, InMemory, At
<1>2. PICK i : i = op[c].id
  OBVIOUS
<1>3. i \in Ids
  BY <1>1, <1>2 DEF RowsInv, ClientHeld, Creating
<1>4. /\ op' \in [Clients -> OpStates] /\ op'[c].pc \in {"idle", "undo rest"}
      /\ \A d \in Clients : d # c => op'[d] = op[d]
      /\ op'[c].pc = "undo rest" => op'[c].id = i /\ rows' = rows \ {i}
  <2>1. CASE Goto(c, "undo rest") /\ rows' = rows \ {i}
    BY <1>2, <2>1, GotoIs DEF RowsInv, Stages
  <2>2. CASE End(c)
    BY <2>2, EndIs DEF RowsInv
  <2> QED
    BY <1>2, <2>1, <2>2, HalvesOf
<1>5. rows' \subseteq rows /\ lost \subseteq lost'
  BY HalvesOf
<1>6. \/ UNCHANGED binding
      \/ /\ op[c].pc = "undo rest" /\ binding[i] = "active" /\ age[i] = 0
         /\ binding' = [binding EXCEPT ![i] = "none"]
  BY <1>2, HalvesOf DEF At
<1>7. RowsTypes'
  <2>1. binding' \in [Ids -> BindingStates]
    BY <1>6 DEF RowsInv, RowsTypes, BindingStates
  <2>2. \A k \in Ids : age'[k] = 0 => binding'[k] \in {"none", "active"}
    BY <1>1, <1>6 DEF RowsInv, RowsTypes
  <2>3. /\ rows' \subseteq Ids
        /\ chat' \in [Ids -> SUBSET Nat] /\ owed' \in [Ids -> SUBSET Nat]
        /\ age' \in [Ids -> Nat] /\ uses' \in Nat
        /\ loaded' \in [Clients -> SUBSET Nat] /\ cur' \in [Clients -> Ids \cup {NoId}]
    BY <1>1, <1>5 DEF RowsInv, RowsTypes
  <2> QED
    BY <1>4, <2>1, <2>2, <2>3 DEF RowsTypes
<1>8. \A d \in Clients : Alone(d)'
  <2>1. /\ Creating(c)' => Creating(c) /\ op'[c].id = op[c].id
        /\ Busy(c)' => Busy(c) /\ op'[c].id = op[c].id
    BY <1>1, <1>2, <1>4 DEF Creating, Busy, Turning, Changing
  <2> QED
    BY <1>1, <1>4, <2>1, AloneStays DEF RowsInv, ClientHeld
<1>9. ASSUME NEW d \in Clients, d # c
      PROVE  Leaves(d)
  <2>1. CASE op[d].id = i
    <3>1. ~At(d, "claim")
      BY <1>1, <1>2, <1>9, <2>1 DEF RowsInv, ClientHeld, Alone, Creating, At
    <3>2. Changing(d) => age[i] # 0
      BY <1>3, <2>1 DEF RowsInv, RowsTypes, ClientHeld, ChangeHeld
    <3>3. Changing(d) => binding'[i] = binding[i]
      BY <1>6, <3>2
    <3>4. age[i] \in Nat /\ age'[i] = age[i] /\ owed'[i] = owed[i]
      BY <1>1, <1>3 DEF RowsInv, RowsTypes
    <3>5. i \notin rows \ revived => i \notin rows' \ revived'
      BY <1>1, <1>5
    <3> QED
      BY <2>1, <3>1, <3>3, <3>4, <3>5 DEF Leaves
  <2>2. CASE op[d].id # i
    <3>1. op[d].id \in Ids => binding'[op[d].id] = binding[op[d].id]
      BY <1>6, <2>2 DEF RowsInv, RowsTypes
    <3>2. op[d].id \in Ids =>
            /\ age[op[d].id] \in Nat /\ age'[op[d].id] = age[op[d].id]
            /\ owed'[op[d].id] = owed[op[d].id]
      BY <1>1 DEF RowsInv, RowsTypes
    <3>3. op[d].id \notin rows \ revived => op[d].id \notin rows' \ revived'
      BY <1>1, <1>5
    <3> QED
      BY <3>1, <3>2, <3>3 DEF Leaves
  <2> QED
    BY <2>1, <2>2
<1>10. CreationHeld(c)' /\ ChangeHeld(c)' /\ TurnInHand(c)'
  BY <1>4 DEF CreationHeld, ChangeHeld, TurnInHand, Changing, At
<1>11. \A k \in Ids \ revived' : owed'[k] \subseteq chat'[k]
  BY <1>1 DEF RowsInv
<1>12. RowsAreOwned'
  <2> SUFFICES ASSUME NEW k \in rows' \ (revived \cup lost'), binding'[k] = "none"
               PROVE  \E d \in Clients : op'[d].id = k /\ op'[d].pc \in {"claim", "undo"}
    BY <1>1 DEF RowsAreOwned
  <2>1. binding[k] = "none"
    <3>1. SUFFICES ASSUME binding[k] # "none"
                   PROVE  FALSE
      OBVIOUS
    <3>2. k = i /\ op[c].pc = "undo rest"
      <4>1. k \in Ids /\ binding \in [Ids -> BindingStates]
        BY <1>5 DEF RowsInv, RowsTypes
      <4>2. binding' # binding
        BY <3>1
      <4>3. op[c].pc = "undo rest" /\ binding' = [binding EXCEPT ![i] = "none"]
        BY <1>6, <4>2
      <4> QED
        BY <3>1, <4>1, <4>3
    <3>3. i \notin rows \ revived
      BY <1>2, <3>2 DEF RowsInv, ClientHeld, CreationHeld, At
    <3> QED
      BY <1>5, <3>2, <3>3
  <2>2. PICK d \in Clients : op[d].id = k /\ op[d].pc \in {"claim", "undo"}
    BY <1>5, <2>1 DEF RowsInv, RowsAreOwned
  <2>3. d # c
    <3>1. SUFFICES ASSUME d = c
                   PROVE  FALSE
      OBVIOUS
    <3>2. k = i /\ op[c].pc = "undo"
      BY <1>1, <1>2, <2>2, <3>1
    <3>3. i \notin rows' \/ i \in lost'
      BY <1>2, <2>1, <3>2, HalvesOf DEF At
    <3> QED
      BY <3>2, <3>3
  <2> QED
    BY <1>4, <2>2, <2>3
<1>13. (Creating(c) \/ Busy(c) \/ At(c, "fetch"))' => op'[c].id \in Ids
  BY <1>3, <1>4 DEF Creating, Busy, Turning, Changing, At
<1> QED
  BY <1>1, <1>4, <1>7, <1>8, <1>9, <1>10, <1>11, <1>12, <1>13, WriteKeeps

-----------------------------------------------------------------------------
(* A turn, a clear or a deletion begins.                                   *)

LEMMA UntouchedLeaves ==
    ASSUME RowsInv, NEW d \in Clients, UNCHANGED <<rows, binding, age, owed, revived>>
    PROVE  Leaves(d)
BY DEF RowsInv, RowsTypes, Leaves

\* Whoever is met is noted, on both sides.
LEMMA MeetsAlone ==
    ASSUME NEW c \in Clients, NEW i \in Ids, \A d \in Clients : Alone(d), Meet(c, i),
           op'[c].id = i, \A d \in Clients : d # c => op'[d] = op[d], ~Creating(c)'
    PROVE  \A d \in Clients : Alone(d)'
<1> SUFFICES ASSUME NEW d \in Clients, NEW e \in Clients \ {d}, op'[d].id = op'[e].id
             PROVE  /\ ~(Creating(d)' /\ Creating(e)')
                    /\ Busy(d)' /\ Busy(e)' => d \in shared'
  BY DEF Alone
<1>1. \A q \in Clients : q # c => /\ Creating(q)' <=> Creating(q)
                                  /\ Busy(q)' <=> Busy(q)
  BY DEF Creating, Busy, Turning, Changing
<1>2. shared \ {c} \subseteq shared'
  BY DEF Meet
<1>3. \A q \in Clients \ {c} : op[q].id = i /\ Busy(q) => q \in shared' /\ c \in shared'
  <2> SUFFICES ASSUME NEW q \in Clients \ {c}, op[q].id = i, Busy(q)
               PROVE  q \in shared' /\ c \in shared'
    OBVIOUS
  <2>1. q \in Others(c, i)
    BY DEF Others, Busy
  <2> QED
    BY <2>1 DEF Meet
<1>4. CASE d = c
  BY <1>1, <1>3, <1>4
<1>5. CASE e = c
  BY <1>1, <1>3, <1>5
<1>6. CASE d # c /\ e # c
  <2>1. op[d].id = op[e].id
    BY <1>6
  <2>2. /\ ~(Creating(d) /\ Creating(e))
        /\ Busy(d) /\ Busy(e) => d \in shared
    BY <2>1 DEF Alone
  <2> QED
    BY <1>1, <1>2, <1>6, <2>2
<1> QED
  BY <1>4, <1>5, <1>6

\* A client that was not creating leaves every row its owner.
LEMMA StayOwned ==
    ASSUME RowsInv, NEW c \in Clients, op[c].pc \notin {"claim", "undo"},
           \A d \in Clients : d # c => op'[d] = op[d],
           rows' \ (revived' \cup lost') \subseteq rows \ (revived \cup lost),
           \A i \in rows' \ (revived' \cup lost') : binding'[i] = "none" => binding[i] = "none"
    PROVE  RowsAreOwned'
<1> SUFFICES ASSUME NEW i \in rows' \ (revived' \cup lost'), binding'[i] = "none"
             PROVE  \E d \in Clients : op'[d].id = i /\ op'[d].pc \in {"claim", "undo"}
  BY DEF RowsAreOwned
<1>1. PICK d \in Clients : op[d].id = i /\ op[d].pc \in {"claim", "undo"}
  BY DEF RowsInv, RowsAreOwned
<1> QED
  BY <1>1

LEMMA BeginTurnHeld ==
    ASSUME RowsInv, NEW c \in Clients, BeginTurn(c)
    PROVE  RowsInv'
<1>1. /\ UNCHANGED <<rows, chat, binding, age, loaded, cur, owed, revived, lost>>
      /\ op[c].pc = "idle" /\ uses' = uses + 1 /\ Meet(c, cur[c])
  BY DEF BeginTurn, Stored, InMemory, At
<1>2. cur[c] \in Ids /\ uses \in Nat
  BY DEF BeginTurn, RowsInv, RowsTypes
<1>3. /\ op' \in [Clients -> OpStates] /\ op'[c].pc = "load" /\ op'[c].id = cur[c]
      /\ \A d \in Clients : d # c => op'[d] = op[d]
  <2>1. PICK o \in OpStates : o = [Resting EXCEPT !.pc = "load", !.id = cur[c], !.turn = uses + 1]
    <3>1. PICK n \in Nat : n = uses + 1
      BY <1>2
    <3>2. [Resting EXCEPT !.pc = "load", !.id = cur[c], !.turn = n] \in OpStates
      BY <1>2, RestingIs DEF OpStates, Stages
    <3> QED
      BY <3>1, <3>2
  <2>2. op' = [op EXCEPT ![c] = o] /\ o.pc = "load" /\ o.id = cur[c]
    BY <2>1, RestingIs DEF BeginTurn
  <2> QED
    BY <2>2, BecomesIs DEF RowsInv
<1>4. RowsTypes'
  BY <1>1, <1>2, <1>3 DEF RowsInv, RowsTypes
<1>5. \A d \in Clients : Alone(d)'
  <2>1. ~Creating(c)'
    BY <1>3 DEF Creating
  <2> QED
    BY <1>1, <1>2, <1>3, <2>1, MeetsAlone DEF RowsInv, ClientHeld
<1>6. CreationHeld(c)' /\ ChangeHeld(c)' /\ TurnInHand(c)'
  BY <1>3 DEF CreationHeld, ChangeHeld, TurnInHand, Changing, At
<1>7. \A k \in Ids \ revived' : owed'[k] \subseteq chat'[k]
  BY <1>1 DEF RowsInv
<1>8. RowsAreOwned'
  BY <1>1, <1>3, StayOwned
<1> QED
  BY <1>1, <1>2, <1>3, <1>4, <1>5, <1>6, <1>7, <1>8, WriteKeeps, UntouchedLeaves

LEMMA BeginChangeHeld ==
    ASSUME RowsInv, NEW c \in Clients, NEW i \in Ids, NEW what \in {"clear", "delete"},
           BeginChange(c, i, what)
    PROVE  RowsInv'
<1>1. /\ UNCHANGED <<rows, chat, loaded, cur, uses, owed, revived, lost>>
      /\ op[c].pc = "idle" /\ Meet(c, i)
  BY DEF BeginChange, InMemory, At
<1>2. During[what] \in {"clearing", "deleting"} /\ FirstOf[what] \in {"empty", "clean"}
  BY DEF During, FirstOf
<1>3. binding \in [Ids -> BindingStates] /\ age \in [Ids -> Nat]
  BY DEF RowsInv, RowsTypes
<1>4. \/ /\ binding[i] = "active" /\ binding' = [binding EXCEPT ![i] = During[what]]
         /\ age' = [age EXCEPT ![i] = @ + 1]
      \/ binding[i] = During[what] /\ UNCHANGED <<binding, age>>
  BY DEF BeginChange
<1>5. /\ binding' \in [Ids -> BindingStates] /\ age' \in [Ids -> Nat] /\ age'[i] > 0
      /\ \A k \in Ids : k # i => binding'[k] = binding[k] /\ age'[k] = age[k]
      /\ \A k \in Ids : binding'[k] = "none" => binding[k] = "none"
  <2>1. CASE binding[i] = During[what] /\ UNCHANGED <<binding, age>>
    <3>1. age[i] # 0
      BY <1>2, <2>1 DEF RowsInv, RowsTypes
    <3> QED
      BY <1>3, <2>1, <3>1
  <2>2. CASE /\ binding[i] = "active" /\ binding' = [binding EXCEPT ![i] = During[what]]
             /\ age' = [age EXCEPT ![i] = @ + 1]
    BY <1>2, <1>3, <2>2 DEF BindingStates
  <2> QED
    BY <1>4, <2>1, <2>2
<1>6. /\ op' \in [Clients -> OpStates] /\ op'[c].pc \in {"empty", "clean"} /\ op'[c].id = i
      /\ op'[c].gen = age'[i]
      /\ \A d \in Clients : d # c => op'[d] = op[d]
  <2>1. PICK r \in BOOLEAN : r = (binding[i] # "active")
    OBVIOUS
  <2>2. PICK o \in OpStates : o = [Resting EXCEPT !.pc = FirstOf[what], !.id = i, !.gen = age'[i],
                                                  !.resumed = r]
    BY <1>2, <1>5, RestingIs DEF OpStates, Stages
  <2>3. o.pc \in {"empty", "clean"} /\ o.id = i /\ o.gen = age'[i]
    BY <1>2, <2>2, RestingIs
  <2>4. op' = [op EXCEPT ![c] = o]
    BY <2>1, <2>2 DEF BeginChange
  <2> QED
    BY <2>3, <2>4, BecomesIs DEF RowsInv
<1>7. RowsTypes'
  BY <1>1, <1>5, <1>6 DEF RowsInv, RowsTypes
<1>8. \A d \in Clients : Alone(d)'
  <2>1. ~Creating(c)'
    BY <1>6 DEF Creating
  <2> QED
    BY <1>1, <1>6, <2>1, MeetsAlone DEF RowsInv, ClientHeld
<1>9. ASSUME NEW d \in Clients, d # c
      PROVE  Leaves(d)
  <2>1. CASE UNCHANGED <<binding, age>>
    BY <1>1, <2>1, UntouchedLeaves
  <2>2. CASE /\ binding[i] = "active" /\ binding' = [binding EXCEPT ![i] = During[what]]
             /\ age' = [age EXCEPT ![i] = @ + 1]
    <3>1. CASE op[d].id = i
      <4>1. ~At(d, "claim")
        BY <2>2, <3>1 DEF RowsInv, ClientHeld, CreationHeld
      <4>2. age'[i] = age[i] + 1 /\ age[i] \in Nat
        BY <1>3, <2>2
      <4> QED
        BY <1>1, <3>1, <4>1, <4>2 DEF Leaves
    <3>2. CASE op[d].id # i
      BY <1>1, <1>3, <1>5, <3>2 DEF Leaves
    <3> QED
      BY <3>1, <3>2
  <2> QED
    BY <1>4, <2>1, <2>2
<1>10. CreationHeld(c)' /\ ChangeHeld(c)' /\ TurnInHand(c)'
  <2>1. CreationHeld(c)' /\ TurnInHand(c)' /\ ~At(c, "drop")' /\ ~At(c, "finish")'
    BY <1>6 DEF CreationHeld, TurnInHand, At
  <2>2. op'[c].gen \in 1 .. age'[op'[c].id]
    BY <1>5, <1>6
  <2> QED
    BY <2>1, <2>2 DEF ChangeHeld
<1>11. \A k \in Ids \ revived' : owed'[k] \subseteq chat'[k]
  BY <1>1 DEF RowsInv
<1>12. RowsAreOwned'
  <2>1. rows \subseteq Ids
    BY DEF RowsInv, RowsTypes
  <2> QED
    BY <1>1, <1>5, <1>6, <2>1, StayOwned
<1> QED
  BY <1>1, <1>6, <1>7, <1>8, <1>9, <1>10, <1>11, <1>12, WriteKeeps
-----------------------------------------------------------------------------
(* A turn saves; a clear or deletion empties, drops and finishes.          *)

LEMMA SaveTurnHeld ==
    ASSUME RowsInv, NEW c \in Clients, SaveTurn(c)
    PROVE  RowsInv'
<1>1. /\ UNCHANGED <<binding, age, loaded, cur, uses, shared, lost>>
      /\ op[c].pc = "save" /\ End(c)
  BY DEF SaveTurn, InMemory, At
<1>2. PICK i \in Ids : i = op[c].id
  BY <1>1 DEF RowsInv, ClientHeld, Busy, Turning
<1>3. /\ op' \in [Clients -> OpStates] /\ op'[c].pc = "idle"
      /\ \A d \in Clients : d # c => op'[d] = op[d]
  BY <1>1, EndIs DEF RowsInv
<1>4. CASE UNCHANGED <<rows, chat, revived, owed>>
  <2>1. RowsTypes'
    BY <1>1, <1>3, <1>4 DEF RowsInv, RowsTypes
  <2> QED
    BY <1>1, <1>3, <1>4, <2>1, QuietEnds
<1>5. CASE /\ rows' = rows \cup {i} /\ chat' = [chat EXCEPT ![i] = loaded[c]]
           /\ revived' = IF i \in rows THEN revived ELSE revived \cup {i}
           /\ owed' = IF c \in shared THEN owed ELSE [owed EXCEPT ![i] = @ \cup {op[c].turn}]
  <2>1. /\ chat \in [Ids -> SUBSET Nat] /\ owed \in [Ids -> SUBSET Nat]
        /\ loaded[c] \subseteq Nat /\ op[c].turn \in Nat
    BY DEF RowsInv, RowsTypes, OpStates
  <2>2. /\ chat' \in [Ids -> SUBSET Nat] /\ chat'[i] = loaded[c]
        /\ \A k \in Ids : k # i => chat'[k] = chat[k]
    BY <1>5, <2>1
  <2>3. /\ owed' \in [Ids -> SUBSET Nat] /\ owed'[i] \subseteq owed[i] \cup {op[c].turn}
        /\ \A k \in Ids : k # i => owed'[k] = owed[k]
        /\ c \in shared => owed' = owed
    <3>1. CASE c \in shared
      BY <1>5, <2>1, <3>1
    <3>2. CASE c \notin shared
      BY <1>5, <2>1, <3>2
    <3> QED
      BY <3>1, <3>2
  <2>4. revived \subseteq revived' /\ rows' \ revived' \subseteq rows \ revived
        /\ (i \notin revived' => i \notin revived)
        /\ \A k : k # i => (k \in rows' \ revived' <=> k \in rows \ revived)
        /\ (i \in revived' => i \notin rows' \ revived')
        /\ (i \in rows \ revived <=> i \in rows' \ revived')
    BY <1>5
  <2>5. RowsTypes'
    BY <1>1, <1>3, <1>5, <2>2, <2>3 DEF RowsInv, RowsTypes
  <2>6. \A d \in Clients : Alone(d)'
    <3>1. ~Creating(c)' /\ ~Busy(c)'
      BY <1>3 DEF Creating, Busy, Turning, Changing
    <3> QED
      BY <1>1, <1>3, <3>1, AloneStays DEF RowsInv, ClientHeld
  <2>7. ASSUME NEW d \in Clients, d # c
        PROVE  Leaves(d)
    <3>1. CASE op[d].id = i
      <4>1. op[d].pc \in {"run", "save"} => owed' = owed
        <5> SUFFICES ASSUME op[d].pc \in {"run", "save"}
                     PROVE  c \in shared
          BY <2>3
        <5>1. Busy(c) /\ Busy(d)
          BY <1>1 DEF Busy, Turning
        <5> QED
          BY <1>2, <2>7, <3>1, <5>1 DEF RowsInv, ClientHeld, Alone
      <4>2. age[i] \in Nat
        BY DEF RowsInv, RowsTypes
      <4> QED
        BY <1>1, <2>4, <3>1, <4>1, <4>2 DEF Leaves
    <3>2. CASE op[d].id # i
      <4>1. op[d].id \in Ids => age[op[d].id] \in Nat /\ owed'[op[d].id] = owed[op[d].id]
        BY <2>3, <3>2 DEF RowsInv, RowsTypes
      <4> QED
        BY <1>1, <2>4, <3>2, <4>1 DEF Leaves
    <3> QED
      BY <3>1, <3>2
  <2>8. /\ CreationHeld(c)' /\ ChangeHeld(c)' /\ TurnInHand(c)'
        /\ ~(Creating(c) \/ Busy(c) \/ At(c, "fetch"))'
    BY <1>3 DEF CreationHeld, ChangeHeld, TurnInHand, Changing, Creating, Busy, Turning, At
  <2>9. \A k \in Ids \ revived' : owed'[k] \subseteq chat'[k]
    <3>1. i \notin revived' => owed'[i] \subseteq chat'[i]
      BY <1>1, <1>2, <2>2, <2>3, <2>4 DEF RowsInv, ClientHeld, TurnInHand, At
    <3>2. \A k \in Ids \ revived' : k # i => owed'[k] \subseteq chat'[k]
      BY <2>2, <2>3, <2>4 DEF RowsInv
    <3> QED
      BY <3>1, <3>2
  <2>10. RowsAreOwned'
    BY <1>1, <1>3, <2>4, StayOwned
  <2> QED
    BY <1>1, <1>3, <2>4, <2>5, <2>6, <2>7, <2>8, <2>9, <2>10, WriteKeeps
<1> QED
  BY <1>2, <1>4, <1>5 DEF SaveTurn

\* The history of one session is emptied, and with it what was owed.
LEMMA EmptiedIs ==
    ASSUME RowsInv, NEW i \in Ids,
           chat' = [chat EXCEPT ![i] = {}], owed' = [owed EXCEPT ![i] = {}], revived \subseteq revived'
    PROVE  /\ chat' \in [Ids -> SUBSET Nat] /\ owed' \in [Ids -> SUBSET Nat]
           /\ \A k \in Ids : owed'[k] \subseteq owed[k]
           /\ \A k \in Ids \ revived' : owed'[k] \subseteq chat'[k]
<1>1. /\ chat \in [Ids -> SUBSET Nat] /\ owed \in [Ids -> SUBSET Nat]
      /\ \A k \in Ids \ revived : owed[k] \subseteq chat[k]
  BY DEF RowsInv, RowsTypes
<1> QED
  BY <1>1

\* A step of a clear or deletion after which nobody finds a row he did not have.
LEMMA ChangeKeeps ==
    ASSUME RowsInv, NEW c \in Clients, RowsTypes', Changing(c),
           UNCHANGED <<age, shared, loaded, lost>>, revived \subseteq revived',
           rows' \ revived' \subseteq rows \ revived,
           \A d \in Clients : d # c => op'[d] = op[d] /\ Leaves(d),
           Busy(c)' => op'[c].id = op[c].id, ~Creating(c)', ~At(c, "fetch")',
           ~Turning(c)', ChangeHeld(c)',
           \A k \in Ids \ revived' : owed'[k] \subseteq chat'[k],
           \A k \in rows' \ (revived' \cup lost) : binding'[k] = "none" => binding[k] = "none"
    PROVE  RowsInv'
<1>1. \A d \in Clients : Alone(d)'
  BY AloneStays DEF RowsInv, ClientHeld, Busy
<1>2. CreationHeld(c)' /\ TurnInHand(c)'
  BY DEF CreationHeld, TurnInHand, Creating, Turning, At
<1>3. Busy(c)' => op'[c].id \in Ids
  BY DEF RowsInv, ClientHeld, Busy
<1>4. RowsAreOwned'
  BY StayOwned DEF Changing
<1> QED
  BY <1>1, <1>2, <1>3, <1>4, WriteKeeps

LEMMA EmptyHeld ==
    ASSUME RowsInv, NEW c \in Clients, Empty(c)
    PROVE  RowsInv'
<1>1. /\ UNCHANGED <<binding, age, loaded, cur, uses, shared, lost>>
      /\ op[c].pc = "empty" /\ Goto(c, "clean")
  BY DEF Empty, InMemory, At
<1>2. PICK i \in Ids : i = op[c].id
  BY <1>1 DEF RowsInv, ClientHeld, Busy, Changing
<1>3. /\ op' \in [Clients -> OpStates] /\ op'[c].pc = "clean" /\ op'[c].id = op[c].id
      /\ op'[c].gen = op[c].gen
      /\ \A d \in Clients : d # c => op'[d] = op[d]
  BY <1>1, GotoIs DEF RowsInv, Stages
<1>4. /\ rows' \in {rows, rows \cup {i}} /\ revived' = revived \cup (rows' \ rows)
      /\ chat' = [chat EXCEPT ![i] = {}] /\ owed' = [owed EXCEPT ![i] = {}]
  BY <1>2 DEF Empty
<1>5. /\ revived \subseteq revived' /\ rows' \ revived' \subseteq rows \ revived
      /\ rows' \subseteq rows \cup {i}
  BY <1>4
<1>6. /\ chat' \in [Ids -> SUBSET Nat] /\ owed' \in [Ids -> SUBSET Nat]
      /\ \A k \in Ids : owed'[k] \subseteq owed[k]
      /\ \A k \in Ids \ revived' : owed'[k] \subseteq chat'[k]
  BY <1>4, <1>5, EmptiedIs
<1>7. RowsTypes'
  BY <1>1, <1>3, <1>5, <1>6 DEF RowsInv, RowsTypes
<1>8. ASSUME NEW d \in Clients, d # c
      PROVE  Leaves(d)
  <2>1. op[d].id \in Ids => age[op[d].id] \in Nat
    BY DEF RowsInv, RowsTypes
  <2> QED
    BY <1>1, <1>5, <1>6, <2>1 DEF Leaves
<1>9. /\ Changing(c) /\ ~Creating(c)' /\ ~At(c, "fetch")' /\ ~Turning(c)'
  BY <1>1, <1>3 DEF Changing, Creating, Turning, At
<1>10. ChangeHeld(c)'
  BY <1>1, <1>3, <1>9 DEF RowsInv, ClientHeld, ChangeHeld, At
<1> QED
  BY <1>1, <1>3, <1>5, <1>6, <1>7, <1>8, <1>9, <1>10, ChangeKeeps

LEMMA DropRowHeld ==
    ASSUME RowsInv, NEW c \in Clients, DropRow(c)
    PROVE  RowsInv'
<1>1. /\ UNCHANGED <<binding, age, loaded, cur, uses, shared, revived, lost>>
      /\ op[c].pc = "drop"
  BY DEF DropRow, InMemory, At
<1>2. PICK i \in Ids : i = op[c].id
  BY <1>1 DEF RowsInv, ClientHeld, Busy, Changing
<1>3. /\ op' \in [Clients -> OpStates] /\ op'[c].pc \in {"finish", "idle"}
      /\ op'[c].pc = "finish" => op'[c].id = op[c].id /\ op'[c].gen = op[c].gen
      /\ \A d \in Clients : d # c => op'[d] = op[d]
  <2>1. CASE Goto(c, "finish")
    BY <2>1, GotoIs DEF RowsInv, Stages
  <2>2. CASE End(c)
    BY <2>2, EndIs DEF RowsInv
  <2> QED
    BY <2>1, <2>2 DEF DropRow
<1>4. /\ rows' = rows \ {i}
      /\ chat' = [chat EXCEPT ![i] = {}] /\ owed' = [owed EXCEPT ![i] = {}]
  BY <1>2 DEF DropRow
<1>5. /\ chat' \in [Ids -> SUBSET Nat] /\ owed' \in [Ids -> SUBSET Nat]
      /\ \A k \in Ids : owed'[k] \subseteq owed[k]
      /\ \A k \in Ids \ revived' : owed'[k] \subseteq chat'[k]
  BY <1>1, <1>4, EmptiedIs
<1>6. RowsTypes'
  BY <1>1, <1>3, <1>4, <1>5 DEF RowsInv, RowsTypes
<1>7. ASSUME NEW d \in Clients, d # c
      PROVE  Leaves(d)
  <2>1. op[d].id \in Ids => age[op[d].id] \in Nat
    BY DEF RowsInv, RowsTypes
  <2>2. op[d].id \notin rows \ revived => op[d].id \notin rows' \ revived'
    BY <1>1, <1>4
  <2> QED
    BY <1>1, <1>5, <2>1, <2>2 DEF Leaves
<1>8. Changing(c) /\ ~Creating(c)' /\ ~At(c, "fetch")' /\ ~Turning(c)'
  BY <1>1, <1>3 DEF Changing, Creating, Turning, At
<1>9. ChangeHeld(c)'
  <2>1. CASE op'[c].pc = "idle"
    BY <2>1 DEF ChangeHeld, Changing, At
  <2>2. CASE op'[c].pc = "finish"
    <3>1. op'[c].gen \in 1 .. age'[op'[c].id]
      BY <1>1, <1>3, <1>8, <2>2 DEF RowsInv, ClientHeld, ChangeHeld
    <3>2. Held(c)' => binding'[i] \in {"deleting", "none"} /\ i \notin rows' \ revived'
      BY <1>1, <1>2, <1>3, <1>4, <2>2 DEF RowsInv, ClientHeld, ChangeHeld, Held, At
    <3> QED
      BY <1>2, <1>3, <2>2, <3>1, <3>2 DEF ChangeHeld, At
  <2> QED
    BY <1>3, <2>1, <2>2
<1>10. Busy(c)' => op'[c].id = op[c].id
  BY <1>3 DEF Busy, Turning, Changing
<1>11. rows' \ revived' \subseteq rows \ revived
  BY <1>1, <1>4
<1> QED
  BY <1>1, <1>3, <1>5, <1>6, <1>7, <1>8, <1>9, <1>10, <1>11, ChangeKeeps

LEMMA FinishChangeHeld ==
    ASSUME RowsInv, NEW c \in Clients, FinishChange(c)
    PROVE  RowsInv'
<1>1. /\ UNCHANGED <<rows, chat, age, loaded, cur, uses, owed, shared, revived, lost>>
      /\ op[c].pc = "finish" /\ End(c)
  BY DEF FinishChange, InMemory, Ghosts, At
<1>2. PICK i \in Ids : i = op[c].id
  BY <1>1 DEF RowsInv, ClientHeld, Busy, Changing
<1>3. /\ op' \in [Clients -> OpStates] /\ op'[c].pc = "idle"
      /\ \A d \in Clients : d # c => op'[d] = op[d]
  BY <1>1, EndIs DEF RowsInv
<1>4. \/ UNCHANGED binding
      \/ binding[i] = "clearing" /\ binding' = [binding EXCEPT ![i] = "active"]
      \/ Held(c) /\ binding[i] = "deleting" /\ binding' = [binding EXCEPT ![i] = "none"]
  <2>1. binding \in [Ids -> BindingStates]
    BY DEF RowsInv, RowsTypes
  <2>2. PICK b : b = IF ~Held(c) THEN binding[i] ELSE IF binding[i] = "clearing" THEN "active"
                     ELSE IF binding[i] = "deleting" THEN "none" ELSE binding[i]
    OBVIOUS
  <2>3. binding' = [binding EXCEPT ![i] = b]
    BY <1>2, <2>2 DEF FinishChange
  <2>4. b = binding[i] => binding' = binding
    BY <2>1, <2>3
  <2>5. CASE ~Held(c)
    BY <2>2, <2>4, <2>5
  <2>6. CASE Held(c)
    BY <2>2, <2>3, <2>4, <2>6
  <2> QED
    BY <2>5, <2>6
<1>5. /\ binding' \in [Ids -> BindingStates]
      /\ \A k \in Ids : k # i => binding'[k] = binding[k]
      /\ binding'[i] # binding[i] =>
           \/ binding[i] = "clearing" /\ binding'[i] = "active"
           \/ Held(c) /\ binding[i] = "deleting" /\ binding'[i] = "none"
  BY <1>4 DEF RowsInv, RowsTypes, BindingStates
<1>6. RowsTypes'
  <2>1. \A k \in Ids : age'[k] = 0 => binding'[k] \in {"none", "active"}
    BY <1>1, <1>5 DEF RowsInv, RowsTypes
  <2> QED
    BY <1>1, <1>3, <1>5, <2>1 DEF RowsInv, RowsTypes
<1>7. ASSUME NEW d \in Clients, d # c
      PROVE  Leaves(d)
  <2>1. op[d].id \in Ids => age[op[d].id] \in Nat
    BY DEF RowsInv, RowsTypes
  <2>2. At(d, "claim") /\ op[d].id = i => binding'[i] = binding[i]
    BY <1>5 DEF RowsInv, ClientHeld, CreationHeld
  <2> QED
    BY <1>1, <1>5, <2>1, <2>2 DEF Leaves
<1>8. Changing(c) /\ ~Creating(c)' /\ ~At(c, "fetch")' /\ ~Turning(c)' /\ ~Changing(c)'
  BY <1>1, <1>3 DEF Changing, Creating, Turning, At
<1>9. ChangeHeld(c)' /\ ~Busy(c)'
  BY <1>3, <1>8 DEF ChangeHeld, Busy, At
<1>10. \A k \in rows' \ (revived' \cup lost) : binding'[k] = "none" => binding[k] = "none"
  <2> SUFFICES ASSUME NEW k \in rows \ revived, binding'[k] = "none", binding[k] # "none"
               PROVE  FALSE
    BY <1>1
  <2>1. k \in Ids
    BY DEF RowsInv, RowsTypes
  <2>2. k = i /\ Held(c) /\ binding[i] = "deleting"
    BY <1>5, <2>1
  <2>3. i \notin rows \ revived
    BY <1>1, <1>2, <2>2 DEF RowsInv, ClientHeld, ChangeHeld, At
  <2> QED
    BY <2>2, <2>3
<1>11. \A k \in Ids \ revived' : owed'[k] \subseteq chat'[k]
  BY <1>1 DEF RowsInv
<1> QED
  BY <1>1, <1>3, <1>6, <1>7, <1>8, <1>9, <1>10, <1>11, ChangeKeeps
\* Whoever was creating is gone: his rows are among the lost ones.
LEMMA DieHeld ==
    ASSUME RowsInv, Die
    PROVE  RowsInv'
<1>1. /\ UNCHANGED <<rows, chat, binding, age, uses, owed, shared, revived>>
      /\ op' = [c \in Clients |-> Resting]
      /\ loaded' = [c \in Clients |-> {}] /\ cur' = [c \in Clients |-> NoId]
      /\ lost' = lost \cup {i \in rows : binding[i] = "none"}
  BY DEF Die, Stored
<1>2. op' \in [Clients -> OpStates] /\ \A c \in Clients : op'[c].pc = "idle"
  BY <1>1, RestingIs
<1>3. RowsTypes'
  BY <1>1, <1>2 DEF RowsInv, RowsTypes
<1>4. ASSUME NEW c \in Clients
      PROVE  ClientHeld(c)'
  <2>1. \A d \in Clients : ~Creating(d)' /\ ~Busy(d)' /\ ~At(d, "fetch")' /\ ~Changing(d)'
    BY <1>2 DEF Creating, Busy, Turning, Changing, At
  <2>2. Alone(c)'
    BY <2>1 DEF Alone
  <2>3. CreationHeld(c)' /\ ChangeHeld(c)' /\ TurnInHand(c)'
    BY <1>2, <2>1 DEF CreationHeld, ChangeHeld, TurnInHand, At
  <2> QED
    BY <2>1, <2>2, <2>3 DEF ClientHeld
<1>5. \A k \in Ids \ revived' : owed'[k] \subseteq chat'[k]
  BY <1>1 DEF RowsInv
<1>6. RowsAreOwned'
  BY <1>1 DEF RowsAreOwned
<1> QED
  BY <1>3, <1>4, <1>5, <1>6 DEF RowsInv

-----------------------------------------------------------------------------
(* The theorem.                                                            *)

LEMMA RowsStart ==
    ASSUME RowsInit
    PROVE  RowsInv
<1>1. op = [c \in Clients |-> Resting] /\ \A c \in Clients : op[c].pc = "idle"
  BY RestingIs DEF RowsInit
<1>2. RowsTypes
  BY <1>1, RestingIs DEF RowsInit, RowsTypes, BindingStates
<1>3. ASSUME NEW c \in Clients
      PROVE  ClientHeld(c)
  <2>1. \A d \in Clients : ~Creating(d) /\ ~Busy(d) /\ ~At(d, "fetch") /\ ~Changing(d)
    BY <1>1 DEF Creating, Busy, Turning, Changing, At
  <2>2. Alone(c)
    BY <2>1 DEF Alone
  <2>3. CreationHeld(c) /\ ChangeHeld(c) /\ TurnInHand(c)
    BY <1>1, <2>1 DEF CreationHeld, ChangeHeld, TurnInHand, At
  <2> QED
    BY <2>1, <2>2, <2>3 DEF ClientHeld
<1>4. (\A i \in Ids \ revived : owed[i] \subseteq chat[i]) /\ RowsAreOwned
  BY DEF RowsInit, RowsAreOwned
<1> QED
  BY <1>2, <1>3, <1>4 DEF RowsInv

LEMMA RowsStep ==
    ASSUME RowsInv, [RowsNext]_rowVars
    PROVE  RowsInv'
<1>1. ASSUME NEW c \in Clients, Use(c)
      PROVE  RowsInv'
  BY <1>1, OpenHeld, LoadHeld, CreateRowHeld, ClaimHeld, CompensateHeld, BeginTurnHeld,
     LoadTurnHeld, ExchangeHeld, SaveTurnHeld, EmptyHeld, CleanHeld, DropRowHeld,
     FinishChangeHeld, AbortHeld, BeginChangeHeld DEF Use
<1>2. CASE Die
  BY <1>2, DieHeld
<1>3. CASE UNCHANGED rowVars
  BY <1>3 DEF rowVars, RowsInv, RowsTypes, ClientHeld, Alone, CreationHeld, ChangeHeld,
     TurnInHand, Creating, Busy, Turning, Changing, Held, At, RowsAreOwned
<1> QED
  BY <1>1, <1>2, <1>3 DEF RowsNext

\* Every stored session has an owner, up to the ones the module names, and a
\* turn that had the session to itself keeps what it added: for any number of
\* clients, sessions, turns, changes and failures.
THEOREM SessionsAlwaysKept == RowsSpec => []SessionsKept
<1>1. RowsInv => SessionsKept
  <2>1. RowsInv => rows \subseteq Ids
    BY DEF RowsInv, RowsTypes
  <2> QED
    BY <2>1 DEF RowsInv, SessionsKept, TurnsKept
<1> QED
  BY <1>1, RowsStart, RowsStep, PTL DEF RowsSpec

=============================================================================
