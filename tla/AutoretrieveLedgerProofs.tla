--------------------- MODULE AutoretrieveLedgerProofs ---------------------
(***************************************************************************)
(* The abstract ledger keeps its promise: a row that agrees with the       *)
(* catalog stands for a live advertisement.                                *)
(*                                                                         *)
(* MatchingRowLive alone is not inductive: a retracted context keeps its   *)
(* row, and the catalog's growth could make that row agree again.  It     *)
(* cannot, because every row records the Count of a catalog no larger     *)
(* than the current one, and Count only grows with the catalog: a row     *)
(* that disagrees is strictly behind, and stays behind.                   *)
(***************************************************************************)
EXTENDS AutoretrieveLedger, TLAPS

\* Every recorded row is for a batch of the catalog and at most its Count.
RowsRecorded ==
    \A n \in Nodes, f \in Keys :
        rows[n][f] # NoRow => f <= highest /\ rows[n][f] <= Count(highest, f)

LInv == TypeOK /\ RowsRecorded /\ MatchingRowLive

\* A batch's Count never shrinks as the catalog grows.
LEMMA CountMonotone ==
    ASSUME NEW l1 \in Int, NEW l2 \in Int, NEW f \in Int, l1 <= l2,
           NEW B \in Int
    PROVE  (IF l1 - f < B THEN l1 - f ELSE B) <= (IF l2 - f < B THEN l2 - f ELSE B)
OBVIOUS

\* The abstract ledger keeps LInv, for every batch size and catalog bound.
LEMMA LInvStep ==
    ASSUME BatchSize \in Nat \ {0}, MaxID \in Nat,
           LInv, [Next]_vars
    PROVE  LInv'
<1> USE DEF LInv, TypeOK, RowsRecorded, MatchingRowLive, Keys, NoRow
<1>1. CASE Grow
  <2> highest \in Int /\ highest < MaxID /\ highest' = highest + 1
      /\ UNCHANGED <<rows, live>>
    BY <1>1 DEF Grow
  <2>1. RowsRecorded'
    <3> SUFFICES ASSUME NEW n \in Nodes, NEW f \in Keys, rows[n][f] # NoRow
                 PROVE  f <= highest + 1 /\ rows[n][f] <= Count(highest + 1, f)
      OBVIOUS
    <3> f <= highest /\ rows[n][f] <= Count(highest, f)
      OBVIOUS
    <3> Count(highest, f) <= Count(highest + 1, f)
      BY CountMonotone DEF Count
    <3> QED
      BY DEF Count
  <2>2. MatchingRowLive'
    <3> SUFFICES ASSUME NEW n \in Nodes, NEW f \in 0..highest + 1,
                        rows[n][f] = Count(highest + 1, f)
                 PROVE  <<n, f>> \in live
      OBVIOUS
    <3>1. rows[n][f] # NoRow
      BY DEF Count
    <3>2. f \in 0..highest /\ rows[n][f] <= Count(highest, f)
      BY <3>1 DEF Count
    <3>3. Count(highest, f) <= Count(highest + 1, f)
      BY <3>2, CountMonotone DEF Count
    <3>4. rows[n][f] = Count(highest, f)
      BY <3>2, <3>3 DEF Count
    <3> QED
      BY <3>2, <3>4
  <2> QED
    BY <1>1, <2>1, <2>2 DEF Grow
<1>2. ASSUME NEW n \in Nodes, NEW f \in Keys, Advertise(n, f)
      PROVE  LInv'
  BY <1>2 DEF Advertise
<1>3. ASSUME NEW n \in Nodes, NEW f \in Keys, Record(n, f)
      PROVE  LInv'
  <2> PICK l \in f..highest : rows' = [rows EXCEPT ![n][f] = Count(l, f)]
    BY <1>3 DEF Record
  <2> live' = live \cup {<<n, f>>} /\ UNCHANGED highest
    BY <1>3 DEF Record
  <2>1. Count(l, f) \in 0..BatchSize /\ Count(l, f) <= Count(highest, f)
    BY CountMonotone DEF Count
  <2> QED
    BY <2>1
<1>4. ASSUME NEW n \in Nodes, NEW f \in Keys, Retract(n, f)
      PROVE  LInv'
  BY <1>4 DEF Retract
<1>5. CASE UNCHANGED vars
  BY <1>5 DEF vars
<1> QED
  BY <1>1, <1>2, <1>3, <1>4, <1>5 DEF Next

\* Whatever the interleaving of records, announcements, retractions and
\* growth, a row that agrees with the catalog, the row that makes the loop
\* skip its batch, stands for a live advertisement.
THEOREM LedgerKeepsPromise ==
    ASSUME BatchSize \in Nat \ {0}, MaxID \in Nat
    PROVE  Spec => []MatchingRowLive
<1>1. Init => LInv
  BY DEF Init, LInv, TypeOK, RowsRecorded, MatchingRowLive, Keys, NoRow, Count
<1>2. LInv /\ [Next]_vars => LInv'
  BY LInvStep
<1>3. LInv => MatchingRowLive
  BY DEF LInv
<1> QED
  BY <1>1, <1>2, <1>3, PTL DEF Spec
=============================================================================
