# Verification of estuary's autoretrieve advertisement provider

TLA+ models of the code under `src/`, TLC configurations that check them on
small instances, and TLAPS proofs that hold for every value of the constants.

## The system

`src/autoretrieve/autoretrieve.go` holds the autoretrieve provider of estuary.
The file also carries the `DealQueue` table (no behaviour).

- **Autoretrieve registry** (`Autoretrieve`, `AddrInfo`, lines 25-44).
  - A row per autoretrieve server: its handle, its `LastConnection` time and its addresses.
  - The handlers that register servers and refresh `LastConnection` are not in this excerpt.
- **Content catalog** (the `contents` and `obj_refs` tables).
  - Contents get increasing IDs from an auto-increment.
  - A content's object hashes come through `obj_refs`.
  - Contents can be deleted: gorm soft-deletes the row, and `db.Last` and the lister's join no longer see it, so the highest visible ID can go down.
  - The tables are written by code outside `src/`.
- **Ledger** (`PublishedBatch`, lines 46-55).
  - One row per published batch: `FirstContentID`, `AutoretrieveHandle` and `Count`.
  - The gorm tag makes `first_content_id` unique on its own.
- **Reconciliation loop** (`Provider.Run`, lines 186-342). On each tick it:
  - reads the highest content ID (`db.Last`) and the list of autoretrieves (`db.Find`);
  - for every server seen within `advertisementInterval` whose addresses parse, walks the content-ID range in batches of 25000 (`Count = min(last - first, 25000)`);
  - looks up the ledger row (node, first) and acts on it:
    - no row: `NotifyPut` then `db.Create`;
    - row with the same Count: skip;
    - row with a different Count: `NotifyRemove` (failure only logged), then `NotifyPut` then `db.Save`.
  - Every failure is logged and the walk goes on with the next batch.
- **Lister / iterator** (lines 94-176).
  - The index-provider engine calls this callback when an indexer pulls a context.
  - It decodes the context ID to (node, first).
  - It queries the hashes of contents `BETWEEN first AND first+25000` joined with `obj_refs`, at pull time.
  - An empty result is an error.
- **Context codec** (`makeContextID`/`readContextID`, lines 355-380).
  - Eight bytes, a big-endian `uint32` first content ID and a `uint32` count (the configured batch size), then the announcing peer's serialized ID with no length prefix.
- **Index-provider engine** (go-legs/index-provider, external).
  - It keeps the set of live contexts.
  - `NotifyPut` of a live context fails with `ErrAlreadyAdvertised`.
  - `NotifyRemove` of a context that is not live fails.
  - Indexers pull an advertised context's entries asynchronously.

`src/unnamed/part_000` holds two pieces:
- the `benchest` command-line benchmark (lines 1-253);
- estuary's shuttle RPC registry (lines 254-517): `registerShuttleConnection` with its close function, `sendMessage`, `sendShuttleCommand`, `shuttleIsOnline` and the message handlers.

`src/model/splitqueue.go` holds two gorm tables, `SplitQueue` and `SplitQueueTracker`, and a Dockerfile. None of these has any behaviour.

The pieces interact as follows:
- the loop writes the ledger and calls the engine;
- the engine makes indexers pull;
- a pull calls back into the lister, which reads the catalog as it is *at that time*;
- the loop only re-advertises a batch when its Count (computed from content IDs) differs from the ledger's.

What makes this hard:
- the loop and the indexer's pulls interleave;
- each of the four calls in a batch step can fail independently, so the ledger and the engine can disagree;
- the catalog changes between a tick's snapshot and a later pull;
- deletions make the catalog's last ID, and so the batch Counts, go down as well as up.

## Modules

| Module | Models |
|---|---|
| `Autoretrieve` | The loop, ledger, engine, indexer and catalog, composed. |
| `MCAutoretrieve` | TLC instantiation: fault sets, symmetry. |
| `AutoretrieveLedger` | The abstract ledger: what the loop promises about rows and live advertisements, with ticks, failures and the indexer hidden. |
| `AutoretrieveProofs` | TLAPS proofs of the type invariant, the two safety invariants, the action property `RowsNeverShrink` and the refinement of `AutoretrieveLedger`. |
| `AutoretrieveLedgerProofs` | TLAPS proof that the abstract ledger keeps its promise (`MatchingRowLive`). |
| `ShuttleRegistry` | The shuttle connection registry: map, sessions, command channels, senders. |
| `ShuttleRegistryProofs` | TLAPS proofs of its type invariant and of `OpenSessionRegistered`. |
| `ContextCodec`, `MCContextCodec` | `makeContextID`/`readContextID` on byte sequences, with a harness of bounded inputs. |
| `ContextCodecProofs` | TLAPS proofs of the round trip and of unambiguous decoding for the code's own layout (uint32 fields of bytes). |

### `Autoretrieve`: state

| Variable | Code |
|---|---|
| `lastID` | ID of the newest content (`db.Last`). |
| `pinned` | Contents whose `obj_refs` exist. |
| `created`, `removed` | IDs the auto-increment has handed out, and the soft-deleted ones. |
| `online`, `flaps` | Whether each autoretrieve's `LastConnection` is recent. `flaps` bounds how often that flips. |
| `ledger[n][f]` | Count of the `PublishedBatch` row (n, f), or `NoRow`. |
| `ads` | Contexts the engine holds as advertised. |
| `pending` | Advertisements the indexer has not pulled yet. |
| `index[k]` | Multihashes the indexer holds for context k (the content IDs). |
| `pc`, `last`, `seen`, `todo`, `cur`, `first` | The loop's program counter and the tick's locals: the `lastContent` snapshot, the `autoretrieves` snapshot (as online flags), the servers left, the current server and `firstContentID`. |
| `faults` | Failures injected so far (bounded by `MaxFaults`). |

A context ID is the pair `<<n, f>>`, since the count written into it is always the configured batch size. `ContextCodec` shows that this identity abstraction is exact while content IDs stay below 2^32.

### `Autoretrieve`: actions

One action per step of `Run`, each with its guard from the code's conditions and its failure paths as disjuncts:
- `LastFails`, `ListFails`: the `db.Last` and `db.Find` errors;
- `StartTick`: a tick's reads;
- `SkipNode`: offline, or bad address;
- `EnterNode`, `EndNode`, `EndTick`: the batch walk;
- `LookupFails`: the ledger query fails;
- `SkipAdvertised`: the row has the same Count;
- `PublishNew`: a failed put (`PublishPutFails`), a put with a rejected or failed `Create`, a clean publish;
- `Republish`: a remove failing then a live put failing, a remove then a failed put, a failed `Save`, a clean republish.

The indexer's `Pull` reads the catalog's pinned contents in the inclusive window. The environment changes the catalog:
- `AddContent` adds a content with the next auto-increment ID, already pinned or, with `PinLag`, not yet;
- `PinContent` pins a live content later;
- `DeleteContent`, with `SoftDelete`, deletes a live content and its `obj_refs`; `lastID` becomes the highest live ID (or 0), which is what `db.Last` returns;
- `Heartbeat` and `GoOffline` flip `online`.

The environment actions model code outside `src/` and are marked as modelled from the spec in `PROJECT.json`.

## Properties and runs

All runs use `BatchSize = 2`, so that windows, the inclusive overlap and the capped Count all occur within `MaxID` 3-5. They use one or two autoretrieves; symmetry over `Nodes` is used in the invariant runs only.

| Run | cfg | Checks | Result |
|---|---|---|---|
| `reconcile_safety` | `MCSafety.cfg` (2 nodes, `MaxID` 4, every kind of failure, 2 faults, 1 flap) | `TypeOK`. `MatchingRowIsAdvertised`: a row whose Count equals its batch's current Count always stands for a live advertisement; this is what makes the skip in step 1 sound. `MatchingRowIsIndexed`: such a row's advertisement is either still to be pulled or its pulled entries hold every content of the batch. `RowsNeverShrink` (action property): no step lowers a row's Count, so a republish never replaces an advertisement by one for fewer contents. | pass (2.7M states) |
| `reconcile_liveness` | `MCLiveness.cfg` (2 nodes, one with a bad address, `MaxID` 5, read/put/remove failures, 3 faults, 2 flaps) | `LedgerConverges`: eventually every reachable online autoretrieve's ledger matches the plan. `CatalogEventuallyIndexed`: its index holds every content. `ImplementsLedger`: every step is a step of the abstract ledger (see below). | pass |
| `catalog_churn` | `MCChurn.cfg` (1 node, `MaxID` 4, pin lag, deletions, read/remove failures, 2 faults) | `LedgerConverges` while contents are also deleted and pinned late. | pass (1M states) |
| `unique_first_id` | `MCUniqueFirst.cfg` (2 nodes, no failures) | `LedgerConverges` | violated: the second autoretrieve's rows are rejected by the unique index on `first_content_id`. |
| `ledger_write_failure` | `MCWriteFailure.cfg` (1 node, one write failure) | `CatalogEventuallyIndexed` | violated: a lost `Create` after a put leaves a live context that the loop re-puts in vain and that is never re-pulled. |
| `pin_after_pull` | `MCPinLag.cfg` (1 node, pin lag) | `MatchingRowIsIndexed` | violated: objects joined after the pull are not indexed and nothing triggers a re-pull. |
| `content_deletion` | `MCDeletion.cfg` (1 node, `MaxID` 3, deletions, one put failure) | `MatchingRowIsAdvertised` | violated in 12 steps. A republish removes the context and its put fails, so the row keeps the old Count. Then the newest content is deleted: `db.Last` drops back, the old Count is current again, and every later tick skips a batch nothing advertises. |

The four violations are recorded as findings in `PROJECT.json`. The last one is a gap of the spec, which assumes an ever-growing catalog. The same deletion also leaves rows and advertisements of batches above the new last ID in place for good; `catalog_churn` shows that without a failed put the loop still converges on the batches of the current catalog.

Each passing property has a mutant that breaks it, a plausible bug in the mapped code:
- the Count not capped;
- the row saved although the put failed;
- an exclusive window;
- a tick that keeps the previous autoretrieve list;
- a re-put that does not make the indexer re-pull;
- a row created although the first put failed (breaks `ImplementsLedger`);
- a skip taken whenever the row's Count is at least the batch's, which only differs once a deletion lowers a Count (breaks `LedgerConverges` in `catalog_churn`).

### Refinement: the abstract ledger

`AutoretrieveLedger` states what the loop promises, with three variables: `rows` (the ledger), `live` (the advertised contexts) and `highest` (the catalog's last ID). Its actions:
- `Grow`: a content is added.
- `Advertise(n, f)`: a context of a batch of the catalog is advertised, its row untouched.
- `Record(n, f)`: a context is advertised and its row written with the Count at some catalog size `l` between `f` and the current one. This is a snapshot that may be old.
- `Retract(n, f)`: a context is retracted, only while its row disagrees with the catalog.

`Autoretrieve` instantiates it as `Ledger` with `rows <- ledger`, `live <- ads`, `highest <- lastID`. `ImplementsLedger == Ledger!Spec` is checked by TLC in `reconcile_liveness` and proved by TLAPS.
- The loop's ticks, its locals, the failures, the indexer and the pinning are hidden.
- `PublishNew`'s and `Republish`'s clean paths are `Record`; the paths where only the row write fails are `Advertise`; a republish whose put fails is `Retract`; every other step is a stutter.
- With deletions the mapping fails, because `highest` only grows.

### `ShuttleRegistry`

State:
- `shuttles`: `cm.shuttles`.
- `conn[c]`: each `shuttleConnection`'s handle and the stage of its session:
  - new;
  - open, with the writer running;
  - ending, with the context cancelled and the writer stopped;
  - closing, after `close(d.closing)`;
  - done, after the close function deletes the entry.
- `cmds[c]`: the buffered channel, with capacity `Cap`.
- `spc`, `target`, `sent`: each sender's position in `sendShuttleCommand` and the connection it read under the lock.

Actions:
- Each critical section of `shuttlesLk` touches only the map, so it is one step:
  - `Register`: the duplicate check and the insert;
  - `Unregister`: the conditional delete;
  - `Lookup`: the read in `sendShuttleCommand`.
- What runs outside the lock is a step of its own:
  - `CloseChannel`: `close(d.closing)`;
  - `SendQueued` and `SendClosed`: the two cases of `sendMessage`'s select. Both are enabled when both are ready, which is Go's random choice.
- The websocket handler that owns a session is outside `src/`. It cancels its writer and then runs the close function, both deferred. These are `Disconnect` and `Deliver`, modelled from that behaviour.
- `Finished` is the idle step once no connection is left to create and no sender has a command left to issue.

One run, with 2 handles, 2 senders, 3 connections, channel capacity 1 (so that a full channel occurs) and 2 commands each:

| Run | cfg | Checks | Result |
|---|---|---|---|
| `shuttle_registry` | `MCShuttle.cfg` (2 handles, 3 connections) | `TypeOK` (the channel never over capacity). `OpenSessionRegistered`: a session whose writer may still run is its handle's entry. `SendsReturn`: every send returns, under weak fairness of the senders' selects, the writers and the close function's two halves (goroutines are scheduled; deferred calls run). A disconnect is not fair. | pass (82,801 distinct states) |

The registry's mutants:
- a register without the duplicate check;
- a select without the closing case, which leaves a sender blocked forever on a full channel of a dead session;
- a send that ignores the capacity.

### `ContextCodec`

The codec is modelled as operators:
- `ToUint32`: the uint32 conversion, as `% Radix^Width`;
- `PutUint` and `GetUint`: big-endian, the latter as a recursive function over the digits;
- `MakeContextID`;
- `ReadContextID`, with its three outcomes in the code's order: a panic of `contextID[8:]`, the `IDFromBytes` error, the decoded parameters.

The code's bytes (256 values, 4-byte fields) are scaled down in `MCContextCodec`:
- 3-valued bytes and 2-byte fields, so the "uint32" limit is 9;
- two peer IDs of two bytes each.

The variables only pick an input: every `contextParams` with first ID up to `MaxContent`, and every byte string up to one byte longer than the longest context ID (531,360 combinations).

| Run | cfg | Checks | Result |
|---|---|---|---|
| `codec_round_trip` | `MCCodec.cfg` | `CodecRoundTrip`: decode of encode gives back the parameters, for first IDs below the limit. `DecodeReencodes`: every accepted string (up to one byte longer than a context ID) is the encoding of what it decodes to. | pass |
| `codec_uint32_overflow` | `MCCodecOverflow.cfg` | `EveryBatchRoundTrips` (`MaxContent` 10) | violated at first ID 9, the scaled 2^32. |
| `codec_short_input` | `MCCodecShort.cfg` | `DecodeNeverPanics` | violated by the empty string. The spec says short input is rejected; the code panics. |

Mutants:
- little-endian writing;
- a peer-ID parse that ignores trailing bytes.

### Bounds

`faults`, `flaps` and the catalog size (`MaxID`) are bounded. With `BatchSize = 2` and `MaxID >= 3` there are at least two batches, a batch with a capped Count, and a Count change when the catalog grows. `MaxFaults = 2` allows a failure in the remove step followed by one in the put step, the sequence behind `MatchingRowIsAdvertised`.

### Fairness

`FairSpec` assumes weak fairness of the loop and of the indexer's pull:
- the loop runs on a ticker forever (line 194), and every step it takes returns (the hang of an engine call is a listed hazard, not modelled);
- an indexer eventually pulls an announced context.

The environment, including failures, is not fair. Failures and flaps are bounded, so they eventually stop, which is the only condition under which convergence can be expected.

## Proofs

`AutoretrieveProofs` assumes, for every value of the constants:
- `Nodes` finite and non-empty;
- `BatchSize` a positive natural;
- `MaxID`, `MaxFaults`, `MaxFlaps` naturals.

- `TypeCorrect`: `Spec => []TypeOK`. The lemma `TypeStep` has one case per action. It rests on `WindowCountRange` (the Count lies in `0..BatchSize`).
- `MatchingRowAdvertised`: `Spec => []MatchingRowIsAdvertised`, under the hypothesis `~SoftDelete` (the `content_deletion` run shows why it is needed).
  - The invariant is not inductive: a failed put withdraws a context whose row stays.
  - The strengthening `IInv` adds four facts:
    - `RowsBehindTick`: every visited row's Count is the window Count of some ID up to the tick's snapshot;
    - `TickBehindCatalog`: the snapshot never exceeds `lastID`;
    - `WithdrawnRowsStale`: a row whose context is not live has a Count that differs from the current Count of its batch.
    - `CatalogComplete`: `lastID = created`, true while nothing is deleted. This is what makes `AddContent` raise `lastID` by one.
  - With `WindowCountMonotone`, `IInv` implies the property: a row that matches the current Count is therefore live.
  - `IInv` was also checked by TLC on the `reconcile_safety` instance before it was proved.
- `Refinement`: `Spec => ImplementsLedger`, under `~SoftDelete`.
  - `Init` maps to the abstract `Init`.
  - Every step maps to an abstract step or a stutter, given `IInv`. The argument is one case per action:
    - a written row has the Count of the tick's snapshot `last`, and `IInv` keeps `first <= last <= lastID` (`VisitedBatch`, `RecordStep`);
    - a retracted context's row differs from the snapshot's Count and is at most that Count (`RowsBehindTick`), so by `WindowCountMonotone` it differs from the catalog's (`RetractStep`);
    - `AddContent` is `Grow` because of `CatalogComplete`.
- `MatchingRowIndexed`: `Spec => []MatchingRowIsIndexed`, under the hypotheses `~SoftDelete` and `~PinLag`. The runs `content_deletion` and `pin_after_pull` show that each hypothesis is needed.
  - The invariant is not inductive. A pull of a context whose row is stale may leave the index short, and a later `AddContent` could seem to make that row match.
  - It cannot, because an addition changes the batch's Count and `IInv` keeps the row at most the old Count.
  - The strengthening `JInv` adds two facts to `IInv`:
    - `PinnedAll`: without pin lag or deletion, obj_refs exist for every content up to `lastID`;
    - `PulledRowsIndexed`: every pulled live context whose row matches holds every content of its batch, whether or not it is the row the property asks about.
  - A pull reads the whole inclusive window (`BatchInWindow`). The lemmas `PulledRowsPull`, `PulledRowsAdd` and `PulledRowsPublish` cover the actions that can disturb the fact.
- `RowsMonotone`: `Spec => RowsNeverShrink`, under `~SoftDelete`.
  - A publish or republish writes the Count of the tick's snapshot `last`, at least the old Count (`RowsBehindTick`, `TickBehindCatalog`, `WindowCountMonotone`).
  - A failed republish leaves the row alone.
  - The mutant that saves Count 0 after a failed republish breaks it.

`AutoretrieveLedgerProofs` proves `LedgerKeepsPromise`: in the abstract ledger, `MatchingRowLive` (a row that agrees with the catalog is live) holds for every positive batch size and every bound.
- The inductive invariant adds `RowsRecorded`: a row exists only for a batch of the catalog and is at most its current Count.
- A retracted row is therefore strictly behind, and `Grow` cannot make it agree again, since Count only grows with the catalog.
- This is the abstract reason why the loop's skip is sound; `Refinement` transfers it to the code's model.

`ShuttleRegistryProofs` proves `TypeCorrect` and `RegistryConsistent` (`Spec => []OpenSessionRegistered`) for every set of handles and senders and every capacity and bound.
- The invariant alone is not inductive.
- `IInv` adds two facts:
  - `EntriesLive`: an entry names a connection created under that handle whose close function has not finished. This is why `Unregister` can never delete another live session's entry, and why a registration never meets a live session.
  - `SendersHoldConn`: a sender in the select holds a real connection and an issued command. This is what types the channel append.

`ContextCodecProofs` proves two theorems for the code's own layout: `Radix = 256` and `Width = 4`, so uint32 fields of bytes. They hold for every set of peers with an injective encoding (`CodecAssumption`) and every `MaxContent`.
- `CodecRoundTripHolds`: `Spec => []CodecRoundTrip`. Decoding the encoding of parameters whose first ID is below 2^32 gives them back.
- `DecodeReencodesHolds`: `Spec => []DecodeReencodes`. Every string `readContextID` accepts is the encoding of what it decoded.
- The argument:
  - `GetUint` over four bytes unfolds to the polynomial `Word`. The recursive function is taken apart through its CHOOSE definition.
  - `PutUint` of `Word(a, b, c, d)` gives the digits `a, b, c, d` (`ByteDigits`), and `GetUint(PutUint(x)) = x` below 2^32 (`GetPutUint`).
  - `LayoutSlices` reads the three parts back at the offsets `readContextID` slices, and `RejoinSlices` puts an accepted string back together.
- TLC checks the same two properties on the scaled instance, with Radix 3 and Width 2.

Only TLC checks the following:
- the codec for a field width left open: the unfolding of `GetUint` is then an induction over the digits, which the provers cannot instantiate;
- the liveness properties (`LedgerConverges`, `CatalogEventuallyIndexed`, `SendsReturn`): tlapm does not handle liveness under fairness or ENABLED;
- the violation runs, which show counterexamples, not theorems.

## Not modelled (yet), and the plan

- **Shuttle registry, rest**: a sender's context cancellation (the third case of the select) is not modelled. The shuttle message handlers delegate to ContentManager code not in this excerpt.
- **Content deletion, rest**: a deleted content below the last ID changes no Count, so its entries stay in the index. No run asks for their removal (listed as a hazard).
- **Hung engine calls**: `NotifyPut`/`NotifyRemove` have no timeout. The loop's fairness assumes every call returns.
- **Cancellation and `Stop`**; engine start and shutdown.
- **Further proofs**: an action property of the shuttle registry (an entry changes only by a register into an empty slot or a delete by its owner), and a proof that `AutoretrieveLedger`'s `MatchingRowLive` follows in `Autoretrieve` through the refinement.
- **Out of scope**:
  - `benchest` (HTTP benchmarking);
  - the gorm table declarations without operations;
  - the Dockerfile;
  - the shuttle RPC handlers, which delegate to ContentManager code not in this excerpt.
