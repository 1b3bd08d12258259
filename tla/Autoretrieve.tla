---------------------------- MODULE Autoretrieve ----------------------------
(***************************************************************************)
(* The autoretrieve advertisement loop of src/autoretrieve/autoretrieve.go *)
(* (Provider.Run), the published_batches ledger it keeps, the index-       *)
(* provider engine it drives (NotifyPut / NotifyRemove) and the indexer    *)
(* that later pulls the multihashes of an advertised context through the   *)
(* lister registered in NewProvider (readContextID + NewIterator).         *)
(*                                                                         *)
(* Data is abstracted: a content is its ID, an autoretrieve is a model     *)
(* value, a context ID is the pair <<node, firstContentID>> it encodes     *)
(* (its count field is always the configured batch size, line 275).        *)
(***************************************************************************)
EXTENDS Integers, FiniteSets

CONSTANTS
    Nodes,       \* registered autoretrieve handles
    BadAddr,     \* autoretrieves whose Addresses string does not parse
    BatchSize,   \* Provider.batchSize
    MaxID,       \* bound on the highest content ID
    PinLag,      \* TRUE: a content row exists before its obj_refs do
    SoftDelete,  \* TRUE: contents are soft-deleted (gorm DeletedAt)
    FaultKinds,  \* which calls may fail: "read", "put", "remove", "write"
    MaxFaults,   \* bound on injected call failures
    MaxFlaps     \* bound on autoretrieve connection changes

ASSUME NodesAssumption == BadAddr \subseteq Nodes
ASSUME BatchSizeAssumption == BatchSize \in Nat \ {0}
ASSUME MaxIDAssumption == MaxID \in Nat
ASSUME BoundsAssumption == MaxFaults \in Nat /\ MaxFlaps \in Nat
ASSUME FaultAssumption == FaultKinds \subseteq {"read", "put", "remove", "write"}
ASSUME PinLagAssumption == PinLag \in BOOLEAN /\ SoftDelete \in BOOLEAN

VARIABLES
    \* content catalog (external, read-only to the loop)
    lastID,    \* ID of the last content row (db.Last(&lastContent))
    pinned,    \* content IDs whose objects are joined through obj_refs
    created,   \* content IDs handed out so far (the auto-increment)
    removed,   \* soft-deleted content IDs, which db.Last and the join skip
    \* autoretrieve registry (external)
    online,    \* LastConnection within advertisementInterval, now
    flaps,     \* number of connection changes so far
    \* published_batches table, owned by the loop
    ledger,    \* ledger[n][f]: Count of the row (n, f), or NoRow
    \* index-provider engine and the indexer
    ads,       \* contexts currently advertised (put and not removed)
    pending,   \* advertised contexts whose entries the indexer has not pulled
    index,     \* index[k]: content IDs the indexer holds for context k
    \* Provider.Run locals
    pc,        \* "idle" (waiting on the ticker), "nodes", "windows"
    last,      \* lastContent.ID of the current (or last) tick
    seen,      \* seen[n]: LastConnection, as read by db.Find, still recent
    todo,      \* autoretrieves not yet visited in this tick
    cur,       \* the autoretrieve whose batches are being visited
    first,     \* firstContentID of the batch being visited
    faults     \* injected failures so far

catalogVars == <<lastID, pinned, created, removed>>
registryVars == <<online, flaps>>
engineVars == <<ads, pending, index>>
loopVars == <<pc, last, seen, todo, cur, first>>
vars == <<lastID, pinned, created, removed, online, flaps, ledger, ads, pending, index,
          pc, last, seen, todo, cur, first, faults>>

NoRow == -1
ContentIDs == 1..MaxID
\* Every firstContentID the loop can visit: multiples of the batch size.
Firsts == {f \in 0..MaxID : f % BatchSize = 0}
\* Tables are keyed by any ID up to MaxID; only Firsts are ever written.
Keys == 0..MaxID
Contexts == Nodes \X Keys

\* Mutant: the min with the batch size dropped (lines 244-246 lost).
WindowCountUncapped(l, f) == l - f

\* The Count of batch f when the last content ID is l (lines 242-246).
WindowCount(l, f) == IF l - f < BatchSize THEN l - f ELSE BatchSize

\* Mutant: the SQL lower bound made exclusive (content > f).
WindowExclusive(f) == {id \in ContentIDs : f < id /\ id <= f + BatchSize}

\* Content IDs the lister returns for a context of batch f: the SQL
\* "obj_refs.content BETWEEN f AND f + count" with count = batchSize, an
\* inclusive range (lines 98-101, count decoded at line 378).
Window(f) == {id \in ContentIDs : f <= id /\ id <= f + BatchSize}

\* Batches of the current catalog: none while it is empty (lines 204-212).
Plan == IF lastID = 0 THEN {} ELSE {f \in Firsts : f <= lastID}

HasRow(n, f) == ledger[n][f] # NoRow

\* db.Create of a published_batches row violates the unique index on
\* first_content_id alone (line 50) when any autoretrieve has that batch.
CreateRejected(f) == \E m \in Nodes : HasRow(m, f)

\* Fault injection: call kind k fails, consuming one unit of the budget.
Fail(k) == /\ k \in FaultKinds
           /\ faults < MaxFaults
           /\ faults' = faults + 1
NoFail == UNCHANGED faults

\* NotifyPut of a context not yet advertised: the engine publishes an
\* advertisement, and the indexer will pull its entries.
Announce(k) == /\ ads' = ads \cup {k}
               /\ pending' = pending \cup {k}
               /\ UNCHANGED index

\* Mutant: the republish without its NotifyRemove; the re-put of a live
\* context publishes nothing new and the indexer pulls nothing.
ReannounceNoPull(k) == /\ ads' = ads \cup {k}
                       /\ UNCHANGED <<pending, index>>

\* NotifyRemove followed by a successful NotifyPut of the same context:
\* the indexer drops the old entries and pulls anew.
Reannounce(k) == /\ ads' = ads \cup {k}
                 /\ pending' = pending \cup {k}
                 /\ index' = [index EXCEPT ![k] = {}]

\* NotifyRemove succeeds (or finds nothing to remove), then NotifyPut fails.
Withdraw(k) == /\ ads' = ads \ {k}
               /\ pending' = pending \ {k}
               /\ index' = [index EXCEPT ![k] = {}]

TypeOK ==
    /\ lastID \in 0..MaxID
    /\ pinned \subseteq ContentIDs
    /\ created \in 0..MaxID
    /\ removed \subseteq ContentIDs
    /\ online \in [Nodes -> BOOLEAN]
    /\ flaps \in 0..MaxFlaps
    /\ ledger \in [Nodes -> [Keys -> {NoRow} \cup 0..BatchSize]]
    /\ ads \subseteq Contexts
    /\ pending \subseteq Contexts
    /\ index \in [Contexts -> SUBSET ContentIDs]
    /\ pc \in {"idle", "nodes", "windows"}
    /\ last \in 0..MaxID
    /\ seen \in [Nodes -> BOOLEAN]
    /\ todo \subseteq Nodes
    /\ cur \in Nodes
    /\ first \in Nat
    /\ faults \in 0..MaxFaults

Init ==
    /\ lastID = 0
    /\ pinned = {}
    /\ created = 0
    /\ removed = {}
    /\ online \in [Nodes -> BOOLEAN]
    /\ flaps = 0
    /\ ledger = [n \in Nodes |-> [f \in Keys |-> NoRow]]
    /\ ads = {}
    /\ pending = {}
    /\ index = [k \in Contexts |-> {}]
    /\ pc = "idle"
    /\ last = 0
    /\ seen = [n \in Nodes |-> FALSE]
    /\ todo = {}
    /\ cur \in Nodes
    /\ first = 0
    /\ faults = 0

-----------------------------------------------------------------------------
(* Provider.Run, one tick (lines 194-339).                                 *)

\* db.Last finds no content or fails: the tick is skipped (lines 203-212).
LastFails ==
    /\ pc = "idle"
    /\ \/ lastID = 0 /\ NoFail
       \/ Fail("read")
    /\ UNCHANGED <<catalogVars, registryVars, ledger, engineVars, loopVars>>

\* db.Find(&autoretrieves) fails: the tick is skipped (lines 214-218).
ListFails ==
    /\ pc = "idle"
    /\ lastID > 0
    /\ Fail("read")
    /\ UNCHANGED <<catalogVars, registryVars, ledger, engineVars, loopVars>>

\* Mutant: the autoretrieve list read once, never refreshed by a tick.
StartTickStaleList ==
    /\ pc = "idle"
    /\ lastID > 0
    /\ last' = lastID
    /\ todo' = Nodes
    /\ pc' = "nodes"
    /\ UNCHANGED <<catalogVars, registryVars, ledger, engineVars, seen, cur, first, faults>>

\* The tick reads the last content ID and the autoretrieve list.
StartTick ==
    /\ pc = "idle"
    /\ lastID > 0
    /\ last' = lastID
    /\ seen' = online
    /\ todo' = Nodes
    /\ pc' = "nodes"
    /\ UNCHANGED <<catalogVars, registryVars, ledger, engineVars, cur, first, faults>>

\* An autoretrieve that is offline, or whose address does not parse, is
\* skipped (lines 224-235).
SkipNode ==
    /\ pc = "nodes"
    /\ \E n \in todo :
         /\ ~seen[n] \/ n \in BadAddr
         /\ todo' = todo \ {n}
    /\ UNCHANGED <<catalogVars, registryVars, ledger, engineVars,
                   pc, last, seen, cur, first, faults>>

\* Its batches are visited from firstContentID 0 (line 238).
EnterNode ==
    /\ pc = "nodes"
    /\ \E n \in todo :
         /\ seen[n] /\ n \notin BadAddr
         /\ todo' = todo \ {n}
         /\ cur' = n
    /\ first' = 0
    /\ pc' = "windows"
    /\ UNCHANGED <<catalogVars, registryVars, ledger, engineVars, last, seen, faults>>

\* All autoretrieves visited: wait for the next tick.
EndTick ==
    /\ pc = "nodes"
    /\ todo = {}
    /\ pc' = "idle"
    /\ UNCHANGED <<catalogVars, registryVars, ledger, engineVars,
                   last, seen, todo, cur, first, faults>>

\* The batch loop ends when firstContentID passes lastContent.ID.
EndNode ==
    /\ pc = "windows"
    /\ first > last
    /\ pc' = "nodes"
    /\ UNCHANGED <<catalogVars, registryVars, ledger, engineVars,
                   last, seen, todo, cur, first, faults>>

InWindow == pc = "windows" /\ first <= last
NextWindow == first' = first + BatchSize

\* The ledger lookup fails: continue with the next batch (lines 252-260).
LookupFails ==
    /\ InWindow
    /\ Fail("read")
    /\ NextWindow
    /\ UNCHANGED <<catalogVars, registryVars, ledger, engineVars,
                   pc, last, seen, todo, cur>>

\* The skip taken whenever the row counts at least the window's contents.
SkipAdvertisedAtLeast ==
    /\ InWindow
    /\ ledger[cur][first] >= WindowCount(last, first)
    /\ NextWindow
    /\ UNCHANGED <<catalogVars, registryVars, ledger, engineVars,
                   pc, last, seen, todo, cur, faults>>

\* The row's Count equals the batch's: nothing to do (lines 264-268).
SkipAdvertised ==
    /\ InWindow
    /\ ledger[cur][first] = WindowCount(last, first)
    /\ NextWindow
    /\ UNCHANGED <<catalogVars, registryVars, ledger, engineVars,
                   pc, last, seen, todo, cur, faults>>

\* Mutant: the row created although the first NotifyPut failed (no continue
\* at line 292).
PublishPutFailsSaved(k) ==
    /\ Fail("put")
    /\ ledger' = [ledger EXCEPT ![k[1]][k[2]] = WindowCount(last, k[2])]
    /\ UNCHANGED engineVars

\* NotifyPut of a new context fails: continue without a row (lines 284-293).
PublishPutFails(k) ==
    /\ Fail("put")
    /\ UNCHANGED <<ledger, engineVars>>

\* No row: NotifyPut, then db.Create of the row (lines 282-304). NotifyPut
\* of a context the engine already advertises fails (ErrAlreadyAdvertised);
\* a failed Create is only logged.
PublishNew ==
    LET k == <<cur, first>>
        c == WindowCount(last, first)
    IN
    /\ InWindow
    /\ ~HasRow(cur, first)
    /\ NextWindow
    /\ \/ /\ k \in ads /\ NoFail
          /\ UNCHANGED <<ledger, engineVars>>
       \/ /\ k \notin ads /\ PublishPutFails(k)
       \/ /\ k \notin ads /\ Announce(k)
          /\ \/ CreateRejected(first) /\ NoFail
             \/ Fail("write")
          /\ UNCHANGED ledger
       \/ /\ k \notin ads /\ Announce(k)
          /\ ~CreateRejected(first) /\ NoFail
          /\ ledger' = [ledger EXCEPT ![cur][first] = c]
    /\ UNCHANGED <<catalogVars, registryVars, pc, last, seen, todo, cur>>

\* Mutant: the row saved although the re-publish failed (no continue at
\* line 327).
RepublishPutFailsSaved(k) ==
    /\ Fail("put")
    /\ Withdraw(k)
    /\ ledger' = [ledger EXCEPT ![k[1]][k[2]] = WindowCount(last, k[2])]

\* Mutant: a failed re-publish marks the row unadvertised by saving Count 0.
RepublishPutFailsReset(k) ==
    /\ Fail("put")
    /\ Withdraw(k)
    /\ ledger' = [ledger EXCEPT ![k[1]][k[2]] = 0]

\* NotifyRemove succeeded (or found nothing), NotifyPut failed: continue
\* without touching the row (lines 319-328).
RepublishPutFails(k) ==
    /\ Fail("put")
    /\ Withdraw(k)
    /\ UNCHANGED ledger

\* A row with another Count: NotifyRemove (its failure only logged), then
\* NotifyPut, then db.Save of the new Count (lines 306-336).
Republish ==
    LET k == <<cur, first>>
        c == WindowCount(last, first)
    IN
    /\ InWindow
    /\ HasRow(cur, first)
    /\ ledger[cur][first] # c
    /\ NextWindow
    /\ \/ /\ k \in ads /\ Fail("remove")      \* re-put: ErrAlreadyAdvertised
          /\ UNCHANGED <<ledger, engineVars>>
       \/ RepublishPutFails(k)
       \/ /\ Fail("write")
          /\ Reannounce(k)
          /\ UNCHANGED ledger
       \/ /\ NoFail
          /\ Reannounce(k)
          /\ ledger' = [ledger EXCEPT ![cur][first] = c]
    /\ UNCHANGED <<catalogVars, registryVars, pc, last, seen, todo, cur>>

-----------------------------------------------------------------------------
(* The indexer pulls an advertised context: the lister decodes the context *)
(* ID and NewIterator reads the hashes of its window (lines 154-176,       *)
(* 94-146). An empty result fails the pull and no entries are indexed.     *)

Pull ==
    /\ \E k \in pending :
         /\ pending' = pending \ {k}
         /\ index' = [index EXCEPT ![k] = pinned \cap Window(k[2])]
    /\ UNCHANGED <<catalogVars, registryVars, ledger, ads, loopVars, faults>>

-----------------------------------------------------------------------------
(* The environment: contents are added, pinned and deleted, autoretrieves *)
(* connect and go quiet.                                                   *)

\* Contents that exist and are not deleted.
Live == (1..created) \ removed

\* A content row gets the next auto-increment ID, which is the new last row.
AddContent ==
    /\ created < MaxID
    /\ created' = created + 1
    /\ lastID' = created + 1
    /\ pinned' = IF PinLag THEN pinned ELSE pinned \cup {created + 1}
    /\ UNCHANGED <<removed, registryVars, ledger, engineVars, loopVars, faults>>

PinContent ==
    /\ PinLag
    /\ \E id \in Live \ pinned : pinned' = pinned \cup {id}
    /\ UNCHANGED <<lastID, created, removed, registryVars, ledger, engineVars,
                   loopVars, faults>>

\* A content is deleted: its row is soft-deleted and its obj_refs removed.
\* db.Last now returns the highest content still live, or nothing.
DeleteContent ==
    /\ SoftDelete
    /\ \E id \in Live :
         LET rest == Live \ {id} IN
         /\ removed' = removed \cup {id}
         /\ pinned' = pinned \ {id}
         /\ lastID' \in {0} \cup rest
         /\ \A x \in rest : x <= lastID'
    /\ UNCHANGED <<created, registryVars, ledger, engineVars, loopVars, faults>>

Heartbeat ==
    /\ flaps < MaxFlaps
    /\ \E n \in Nodes :
         /\ ~online[n]
         /\ online' = [online EXCEPT ![n] = TRUE]
    /\ flaps' = flaps + 1
    /\ UNCHANGED <<catalogVars, ledger, engineVars, loopVars, faults>>

\* advertisementInterval passes without a heartbeat: the LastConnection the
\* tick read is now old as well (time.Since at line 225).
GoOffline ==
    /\ flaps < MaxFlaps
    /\ \E n \in Nodes :
         /\ online[n]
         /\ online' = [online EXCEPT ![n] = FALSE]
         /\ seen' = [seen EXCEPT ![n] = FALSE]
    /\ flaps' = flaps + 1
    /\ UNCHANGED <<catalogVars, ledger, engineVars, pc, last, todo, cur, first, faults>>

-----------------------------------------------------------------------------

Loop == LastFails \/ ListFails \/ StartTick \/ SkipNode \/ EnterNode \/ EndTick
        \/ EndNode \/ LookupFails \/ SkipAdvertised \/ PublishNew \/ Republish

Environment == AddContent \/ PinContent \/ DeleteContent \/ Heartbeat \/ GoOffline

Next == Loop \/ Pull \/ Environment

\* The loop is one goroutine driven by a ticker that keeps firing; the
\* indexer eventually processes every advertisement it is sent.
Fairness == WF_vars(Loop) /\ WF_vars(Pull)

Spec == Init /\ [][Next]_vars

FairSpec == Spec /\ Fairness

-----------------------------------------------------------------------------
(* Properties.                                                             *)

\* Content IDs the loop assigns to batch f: one tile of the tiling it walks.
Batch(f) == {id \in ContentIDs : f <= id /\ id < f + BatchSize}

\* A ledger row whose Count equals the current batch Count makes the loop
\* skip the batch (line 265), so such a row must stand for a live
\* advertisement: the Remove/Put/Save sequence of a republish and the
\* Put/Create sequence of a first publish may never leave a matching row
\* behind a failed or withdrawn advertisement.
MatchingRowIsAdvertised ==
    \A n \in Nodes, f \in Firsts :
        HasRow(n, f) /\ ledger[n][f] = WindowCount(lastID, f) => <<n, f>> \in ads

\* Stronger, end to end: a row the loop will skip stands for an
\* advertisement whose entries, once pulled through NewIterator, hold every
\* pinned content of its batch.
MatchingRowIsIndexed ==
    \A n \in Nodes, f \in Firsts :
        HasRow(n, f) /\ ledger[n][f] = WindowCount(lastID, f) =>
            /\ <<n, f>> \in ads
            /\ <<n, f>> \in pending \/ pinned \cap Batch(f) \subseteq index[<<n, f>>]

\* published_batches rows are created and saved, never deleted, and a save
\* (line 331) writes the Count of the tick's lastContent snapshot.  While no
\* content is deleted, no step lowers a row's Count: a republish never
\* replaces an advertisement by one for fewer contents.
RowsNeverShrink ==
    [][\A n \in Nodes, f \in Keys : ledger'[n][f] >= ledger[n][f]]_ledger

\* Every batch of the catalog is recorded with its current Count and
\* advertised for the autoretrieve.
Synced(n) == \A f \in Plan : ledger[n][f] = WindowCount(lastID, f) /\ <<n, f>> \in ads

\* Self-healing by re-attempt: once the catalog, the connections and the
\* failures stop changing, every tick's diff converges the ledger and the
\* engine to the plan of every reachable, online autoretrieve.
LedgerConverges ==
    <>[](\A n \in Nodes \ BadAddr : online[n] => Synced(n))

\* The purpose of the loop: eventually the indexer holds every pinned
\* content for every reachable, online autoretrieve.
CatalogEventuallyIndexed ==
    <>[](\A n \in Nodes \ BadAddr : online[n] =>
            \A id \in pinned : \E f \in Firsts : id \in index[<<n, f>>])

-----------------------------------------------------------------------------
(* Refinement: with contents never deleted, the loop implements the        *)
(* abstract ledger of AutoretrieveLedger, the rows being the              *)
(* published_batches table, the live contexts the engine's advertisements *)
(* and the catalog's last content ID the one db.Last returns.             *)

Ledger == INSTANCE AutoretrieveLedger WITH rows <- ledger, live <- ads, highest <- lastID

\* Every step of Provider.Run, of the indexer and of the catalog is a step of
\* the abstract ledger or leaves it alone: a row is only written together
\* with a live advertisement and with the Count of a catalog size some tick
\* read, and NotifyRemove is only left standing on a batch whose row
\* disagrees with the catalog.
ImplementsLedger == Ledger!Spec
=============================================================================
