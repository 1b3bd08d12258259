------------------------ MODULE AutoretrieveLedger ------------------------
(***************************************************************************)
(* What the advertisement loop of the autoretrieve provider promises about *)
(* its published_batches ledger and the advertisements it keeps live, with *)
(* the ticks, the autoretrieve list, the failures and the indexer hidden.  *)
(*                                                                         *)
(* A batch is keyed by its first content ID f; its Count for a catalog     *)
(* whose last content ID is l is min(l - f, BatchSize).  The loop may:     *)
(*   - record a batch: advertise its context and write its row with the    *)
(*     Count at some catalog size the loop read (a snapshot, maybe old);   *)
(*   - advertise a context without touching its row (the row write failed *)
(*     or was rejected);                                                   *)
(*   - retract a context, but only while its row disagrees with the        *)
(*     catalog, so that a later tick revisits it;                          *)
(* and the catalog grows by one content at a time.                         *)
(*                                                                         *)
(* Autoretrieve implements this specification (Autoretrieve!Ledger) when   *)
(* contents are never deleted.                                             *)
(***************************************************************************)
EXTENDS Integers

CONSTANTS
    Nodes,       \* autoretrieve handles
    BatchSize,   \* contents per batch
    MaxID        \* largest content ID

VARIABLES
    rows,        \* node -> first content ID -> recorded Count, or NoRow
    live,        \* contexts <<node, first>> currently advertised
    highest      \* last content ID of the catalog

vars == <<rows, live, highest>>

NoRow == -1
Keys == 0..MaxID

\* The Count of batch f in a catalog whose last content ID is l.
Count(l, f) == IF l - f < BatchSize THEN l - f ELSE BatchSize

TypeOK ==
    /\ rows \in [Nodes -> [Keys -> {NoRow} \cup 0..BatchSize]]
    /\ live \subseteq Nodes \X Keys
    /\ highest \in 0..MaxID

Init ==
    /\ rows = [n \in Nodes |-> [f \in Keys |-> NoRow]]
    /\ live = {}
    /\ highest = 0

\* A content is added to the catalog.
Grow ==
    /\ highest < MaxID
    /\ highest' = highest + 1
    /\ UNCHANGED <<rows, live>>

\* Context <<n, f>> of a batch of the catalog is advertised.
Advertise(n, f) ==
    /\ f <= highest
    /\ live' = live \cup {<<n, f>>}
    /\ UNCHANGED <<rows, highest>>

\* Context <<n, f>> is advertised and its row records the batch's Count at
\* a catalog size l the loop read, at most the current one.
Record(n, f) ==
    /\ \E l \in f..highest : rows' = [rows EXCEPT ![n][f] = Count(l, f)]
    /\ live' = live \cup {<<n, f>>}
    /\ UNCHANGED highest

\* Context <<n, f>> is retracted while its row disagrees with the catalog.
Retract(n, f) ==
    /\ rows[n][f] # Count(highest, f)
    /\ live' = live \ {<<n, f>>}
    /\ UNCHANGED <<rows, highest>>

Next ==
    \/ Grow
    \/ \E n \in Nodes, f \in Keys : Advertise(n, f) \/ Record(n, f) \/ Retract(n, f)

Spec == Init /\ [][Next]_vars

-----------------------------------------------------------------------------
\* The promise the loop's skip rests on: a row that agrees with the current
\* catalog stands for a live advertisement, so skipping its batch loses
\* nothing.
MatchingRowLive ==
    \A n \in Nodes, f \in 0..highest :
        rows[n][f] = Count(highest, f) => <<n, f>> \in live
=============================================================================
