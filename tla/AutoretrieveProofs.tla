------------------------- MODULE AutoretrieveProofs -------------------------
(***************************************************************************)
(* Proofs about the advertisement loop of Autoretrieve, for every value of *)
(* the constants that satisfies its assumptions.                           *)
(***************************************************************************)
EXTENDS Autoretrieve, TLAPS

\* The assumptions on the constants hold throughout.
USE NodesAssumption, BatchSizeAssumption, MaxIDAssumption, BoundsAssumption

-----------------------------------------------------------------------------
(* Facts about the batch arithmetic.                                       *)

\* The Count of a visited batch lies between 0 and the batch size.
LEMMA WindowCountRange ==
    ASSUME NEW l \in Int, NEW f \in Int, f <= l
    PROVE  WindowCount(l, f) \in 0..BatchSize
BY DEF WindowCount

\* A batch's Count never shrinks as the catalog grows (lines 242-246).
LEMMA WindowCountMonotone ==
    ASSUME NEW l1 \in Int, NEW l2 \in Int, NEW f \in Int, l1 <= l2
    PROVE  WindowCount(l1, f) <= WindowCount(l2, f)
BY DEF WindowCount

-----------------------------------------------------------------------------
(* Type correctness.                                                       *)

\* Every step of the loop, the indexer and the environment keeps the types.
LEMMA TypeStep == TypeOK /\ [Next]_vars => TypeOK'
<1> SUFFICES ASSUME TypeOK, [Next]_vars PROVE TypeOK'
  OBVIOUS
<1> USE DEF TypeOK
<1>1. CASE LastFails
  BY <1>1 DEF LastFails, Fail, NoFail, catalogVars, registryVars, engineVars, loopVars
<1>2. CASE ListFails
  BY <1>2 DEF ListFails, Fail, catalogVars, registryVars, engineVars, loopVars
<1>3. CASE StartTick
  BY <1>3 DEF StartTick, catalogVars, registryVars, engineVars
<1>4. CASE SkipNode
  BY <1>4 DEF SkipNode, catalogVars, registryVars, engineVars
<1>5. CASE EnterNode
  BY <1>5 DEF EnterNode, catalogVars, registryVars, engineVars
<1>6. CASE EndTick
  BY <1>6 DEF EndTick, catalogVars, registryVars, engineVars
<1>7. CASE EndNode
  BY <1>7 DEF EndNode, catalogVars, registryVars, engineVars
<1>8. CASE LookupFails
  BY <1>8
  DEF LookupFails, InWindow, NextWindow, Fail, catalogVars, registryVars, engineVars
<1>9. CASE SkipAdvertised
  BY <1>9
  DEF SkipAdvertised, InWindow, NextWindow, catalogVars, registryVars, engineVars
<1>10. CASE PublishNew
  <2> first \in Keys /\ <<cur, first>> \in Contexts
    BY <1>10 DEF PublishNew, InWindow, Contexts, Keys
  <2> InWindow
    BY <1>10 DEF PublishNew
  <2> WindowCount(last, first) \in 0..BatchSize
    <3> last \in Int /\ first \in Int /\ first <= last
      BY DEF InWindow
    <3> QED
      BY WindowCountRange
  <2> first' \in Nat
    BY <1>10 DEF PublishNew, NextWindow
  <2>1. ledger' \in [Nodes -> [Keys -> {NoRow} \cup 0..BatchSize]]
    BY <1>10 DEF PublishNew, PublishPutFails
  <2>2. ads' \subseteq Contexts /\ pending' \subseteq Contexts
    BY <1>10 DEF PublishNew, PublishPutFails, Announce, engineVars
  <2>3. index' \in [Contexts -> SUBSET ContentIDs]
    BY <1>10 DEF PublishNew, PublishPutFails, Announce, engineVars
  <2>4. faults' \in 0..MaxFaults
    BY <1>10 DEF PublishNew, PublishPutFails, Fail, NoFail
  <2> QED
    BY <1>10, <2>1, <2>2, <2>3, <2>4 DEF PublishNew, catalogVars, registryVars
<1>11. CASE Republish
  <2> first \in Keys /\ <<cur, first>> \in Contexts
    BY <1>11 DEF Republish, InWindow, Contexts, Keys
  <2> InWindow
    BY <1>11 DEF Republish
  <2> WindowCount(last, first) \in 0..BatchSize
    <3> last \in Int /\ first \in Int /\ first <= last
      BY DEF InWindow
    <3> QED
      BY WindowCountRange
  <2> first' \in Nat
    BY <1>11 DEF Republish, NextWindow
  <2>1. ledger' \in [Nodes -> [Keys -> {NoRow} \cup 0..BatchSize]]
    BY <1>11 DEF Republish, RepublishPutFails
  <2>2. ads' \subseteq Contexts /\ pending' \subseteq Contexts
    BY <1>11 DEF Republish, RepublishPutFails, Reannounce, Withdraw, engineVars
  <2>3. index' \in [Contexts -> SUBSET ContentIDs]
    BY <1>11 DEF Republish, RepublishPutFails, Reannounce, Withdraw, engineVars
  <2>4. faults' \in 0..MaxFaults
    BY <1>11 DEF Republish, RepublishPutFails, Fail, NoFail
  <2> QED
    BY <1>11, <2>1, <2>2, <2>3, <2>4 DEF Republish, catalogVars, registryVars
<1>12. CASE Pull
  BY <1>12 DEF Pull, Window, loopVars, catalogVars, registryVars
<1>13. CASE AddContent
  BY <1>13 DEF AddContent, ContentIDs, registryVars, engineVars, loopVars
<1>14. CASE PinContent
  BY <1>14 DEF PinContent, Live, ContentIDs, registryVars, engineVars, loopVars
<1>19. CASE DeleteContent
  <2> PICK id \in Live : LET rest == Live \ {id} IN
                          /\ removed' = removed \cup {id}
                          /\ pinned' = pinned \ {id}
                          /\ lastID' \in {0} \cup rest
    BY <1>19 DEF DeleteContent
  <2> Live \subseteq ContentIDs
    BY DEF Live, ContentIDs
  <2> QED
    BY <1>19 DEF DeleteContent, registryVars, engineVars, loopVars, ContentIDs
<1>15. CASE Heartbeat
  BY <1>15 DEF Heartbeat, catalogVars, engineVars, loopVars
<1>16. CASE GoOffline
  BY <1>16 DEF GoOffline, catalogVars, engineVars
<1>17. CASE UNCHANGED vars
  BY <1>17 DEF vars
<1>18. QED
  BY <1>1, <1>2, <1>3, <1>4, <1>5, <1>6, <1>7, <1>8, <1>9, <1>10, <1>11,
     <1>12, <1>13, <1>14, <1>15, <1>16, <1>17, <1>19 DEF Next, Loop, Environment

\* The loop, the indexer and the environment keep the types they start with.
THEOREM TypeCorrect == Spec => []TypeOK
<1>1. Init => TypeOK
  BY DEF Init, TypeOK, NoRow, Contexts, Keys
<1>2. QED
  BY <1>1, TypeStep, PTL DEF Spec

-----------------------------------------------------------------------------
(* A row the loop will skip stands for a live advertisement.               *)
(*                                                                         *)
(* MatchingRowIsAdvertised is not inductive: a republish that withdraws    *)
(* the advertisement and then fails to put it leaves the row in place, and *)
(* the row is harmless only because its Count is strictly behind the      *)
(* batch's. The strengthening records that every row is at most the Count  *)
(* of its batch at the tick's snapshot, that the snapshot is never ahead   *)
(* of the catalog, and that a row without an advertisement is strictly     *)
(* behind the snapshot; the catalog only grows, so it stays behind.        *)

\* Rows are written with the Count of the tick that wrote them.
RowsBehindTick ==
    \A n \in Nodes, f \in Keys :
        HasRow(n, f) => f <= last /\ ledger[n][f] <= WindowCount(last, f)

\* lastContent.ID is read from a catalog that only grows.
TickBehindCatalog == last <= lastID

\* A withdrawn advertisement's row is behind its batch, so a tick retries it.
WithdrawnRowsStale ==
    \A n \in Nodes, f \in Keys :
        HasRow(n, f) /\ <<n, f>> \notin ads => ledger[n][f] < WindowCount(last, f)

\* With no content deleted, db.Last returns the newest content created.
CatalogComplete == lastID = created

IInv == TypeOK /\ RowsBehindTick /\ TickBehindCatalog /\ WithdrawnRowsStale
        /\ CatalogComplete

\* The part of IInv beyond the type, for brevity in the steps below.
RowsInv == RowsBehindTick /\ TickBehindCatalog /\ WithdrawnRowsStale

\* Steps that change neither the rows, the advertisements, the snapshot nor
\* the catalog's last ID keep RowsInv.
LEMMA RowsInvFrame ==
    ASSUME RowsInv,
           UNCHANGED <<ledger, ads, last, lastID>>
    PROVE  RowsInv'
BY DEF RowsInv, RowsBehindTick, TickBehindCatalog, WithdrawnRowsStale, HasRow

\* A step that visits batch first of autoretrieve cur, writes its row with
\* the batch's Count or leaves it, and only adds advertisements (except
\* withdrawing <<cur, first>> when that row is behind) keeps RowsInv.
LEMMA RowsInvVisit ==
    ASSUME TypeOK, RowsInv, InWindow,
           UNCHANGED <<last, lastID>>,
           \/ UNCHANGED ledger
           \/ /\ ledger' = [ledger EXCEPT ![cur][first] = WindowCount(last, first)]
              /\ <<cur, first>> \in ads',
           \/ ads \subseteq ads'
           \/ /\ ads' = ads \ {<<cur, first>>}
              /\ UNCHANGED ledger
              /\ HasRow(cur, first)
              /\ ledger[cur][first] # WindowCount(last, first)
    PROVE  RowsInv'
<1> USE DEF TypeOK, InWindow
<1>1. TickBehindCatalog'
  BY DEF RowsInv, TickBehindCatalog
<1>2. WindowCount(last, first) \in 0..BatchSize
  <2> last \in Int /\ first \in Int /\ first <= last
    OBVIOUS
  <2> QED
    BY WindowCountRange
<1>3. RowsBehindTick'
  BY <1>2 DEF RowsInv, RowsBehindTick, HasRow, NoRow, Keys
<1>4. WithdrawnRowsStale'
  <2> SUFFICES ASSUME NEW n \in Nodes, NEW f \in Keys,
                      HasRow(n, f)', <<n, f>> \notin ads'
               PROVE  ledger'[n][f] < WindowCount(last, f)
    BY DEF WithdrawnRowsStale
  <2>1. CASE <<n, f>> = <<cur, first>>
    BY <2>1, <1>2 DEF RowsInv, RowsBehindTick, WithdrawnRowsStale, HasRow, NoRow, Keys
  <2>2. CASE <<n, f>> # <<cur, first>>
    <3> ledger'[n][f] = ledger[n][f]
      BY <2>2 DEF Keys
    <3> <<n, f>> \notin ads
      BY <2>2
    <3> QED
      BY DEF RowsInv, WithdrawnRowsStale, HasRow
  <2> QED
    BY <2>1, <2>2
<1> QED
  BY <1>1, <1>3, <1>4 DEF RowsInv

\* IInv holds initially.
LEMMA InitIInv == Init => IInv
BY DEF Init, IInv, TypeOK, RowsBehindTick, TickBehindCatalog,
       WithdrawnRowsStale, CatalogComplete, HasRow, NoRow, Contexts, Keys

\* Every step keeps IInv while no content is deleted.
LEMMA IInvStep ==
    ASSUME ~SoftDelete
    PROVE  IInv /\ [Next]_vars => IInv'
<1>2. TypeOK /\ RowsInv /\ CatalogComplete /\ [Next]_vars => RowsInv'
  <2> SUFFICES ASSUME TypeOK, RowsInv, CatalogComplete, [Next]_vars
               PROVE  RowsInv'
    OBVIOUS
  <2>1. CASE StartTick
    <3> last' = lastID /\ UNCHANGED <<ledger, ads, lastID>>
      BY <2>1 DEF StartTick, catalogVars, engineVars
    <3> last \in Int /\ lastID \in Int
      BY DEF TypeOK
    <3>1. RowsBehindTick'
      BY DEF RowsInv, RowsBehindTick, TickBehindCatalog, HasRow, TypeOK, Keys,
             WindowCount
    <3>2. WithdrawnRowsStale'
      BY DEF RowsInv, WithdrawnRowsStale, TickBehindCatalog, HasRow, TypeOK, Keys,
             WindowCount
    <3> QED
      BY <3>1, <3>2 DEF RowsInv, TickBehindCatalog
  <2>2. CASE PublishNew
    <3> InWindow /\ UNCHANGED <<last, lastID>>
      BY <2>2 DEF PublishNew, catalogVars
    <3> ads \subseteq ads'
      BY <2>2 DEF PublishNew, PublishPutFails, Announce, engineVars
    <3> \/ UNCHANGED ledger
        \/ /\ ledger' = [ledger EXCEPT ![cur][first] = WindowCount(last, first)]
           /\ <<cur, first>> \in ads'
      BY <2>2 DEF PublishNew, PublishPutFails, Announce
    <3> QED
      BY RowsInvVisit
  <2>3. CASE Republish
    <3> InWindow /\ UNCHANGED <<last, lastID>>
      BY <2>3 DEF Republish, catalogVars
    <3>1. CASE RepublishPutFails(<<cur, first>>)
      <4> ads' = ads \ {<<cur, first>>} /\ UNCHANGED ledger
        BY <3>1 DEF RepublishPutFails, Withdraw
      <4> HasRow(cur, first) /\ ledger[cur][first] # WindowCount(last, first)
        BY <2>3 DEF Republish
      <4> QED
        BY RowsInvVisit
    <3>2. CASE ~RepublishPutFails(<<cur, first>>)
      <4> ads \subseteq ads'
        BY <2>3, <3>2 DEF Republish, Reannounce, engineVars
      <4> \/ UNCHANGED ledger
          \/ /\ ledger' = [ledger EXCEPT ![cur][first] = WindowCount(last, first)]
             /\ <<cur, first>> \in ads'
        BY <2>3, <3>2 DEF Republish, Reannounce
      <4> QED
        BY RowsInvVisit
    <3> QED
      BY <3>1, <3>2
  <2>4. CASE AddContent
    <3> lastID' = lastID + 1 /\ UNCHANGED <<ledger, ads, last>>
      BY <2>4 DEF AddContent, CatalogComplete, engineVars, loopVars
    <3> QED
      BY DEF RowsInv, RowsBehindTick, TickBehindCatalog, WithdrawnRowsStale,
             HasRow, TypeOK
  <2>5. CASE LastFails \/ ListFails \/ SkipNode \/ EnterNode \/ EndTick
             \/ EndNode \/ LookupFails \/ SkipAdvertised
    <3> UNCHANGED <<ledger, ads, last, lastID>>
      BY <2>5 DEF LastFails, ListFails, SkipNode, EnterNode, EndTick, EndNode,
                  LookupFails, SkipAdvertised, catalogVars, engineVars, loopVars
    <3> QED
      BY RowsInvFrame
  <2>6. CASE Pull \/ PinContent \/ Heartbeat \/ GoOffline \/ UNCHANGED vars
    <3> UNCHANGED <<ledger, ads, last, lastID>>
      BY <2>6 DEF Pull, PinContent, Heartbeat, GoOffline, vars,
                  catalogVars, engineVars, loopVars
    <3> QED
      BY RowsInvFrame
  <2>7. CASE DeleteContent
    BY <2>7 DEF DeleteContent
  <2>8. QED
    BY <2>1, <2>2, <2>3, <2>4, <2>5, <2>6, <2>7 DEF Next, Loop, Environment
<1>3. CatalogComplete /\ [Next]_vars => CatalogComplete'
  <2> SUFFICES ASSUME CatalogComplete, [Next]_vars PROVE CatalogComplete'
    OBVIOUS
  <2>1. CASE AddContent
    BY <2>1 DEF AddContent, CatalogComplete
  <2>2. CASE ~AddContent
    <3> UNCHANGED <<lastID, created>>
      BY <2>2 DEF Next, Loop, Environment, DeleteContent, LastFails, ListFails,
                  StartTick, SkipNode, EnterNode, EndTick, EndNode, LookupFails,
                  SkipAdvertised, PublishNew, Republish, Pull, PinContent,
                  Heartbeat, GoOffline, vars, catalogVars
    <3> QED
      BY DEF CatalogComplete
  <2> QED
    BY <2>1, <2>2
<1>4. QED
  BY <1>2, <1>3, TypeStep DEF IInv, RowsInv

\* IInv holds throughout every behaviour in which no content is deleted.
THEOREM IInvInductive ==
    ASSUME ~SoftDelete
    PROVE  Spec => []IInv
BY InitIInv, IInvStep, PTL DEF Spec

\* IInv implies that a row matching the catalog is advertised.
LEMMA IInvAdvertised == IInv => MatchingRowIsAdvertised
<1> SUFFICES ASSUME IInv, NEW n \in Nodes, NEW f \in Firsts,
                    HasRow(n, f), ledger[n][f] = WindowCount(lastID, f)
             PROVE  <<n, f>> \in ads
  BY DEF MatchingRowIsAdvertised
<1>1. f \in Keys
  BY DEF Firsts, Keys
<1>2. WindowCount(last, f) <= WindowCount(lastID, f)
  <2> last \in Int /\ lastID \in Int /\ f \in Int /\ last <= lastID
    BY DEF IInv, TypeOK, TickBehindCatalog, Firsts
  <2> QED
    BY WindowCountMonotone
<1>3. WindowCount(last, f) \in Int /\ WindowCount(lastID, f) \in Int
  BY DEF IInv, TypeOK, Firsts, WindowCount
<1>4. <<n, f>> \notin ads => ledger[n][f] < WindowCount(last, f)
  BY <1>1 DEF IInv, WithdrawnRowsStale
<1> QED
  BY <1>2, <1>3, <1>4

\* A published_batches row whose Count equals its batch's current Count,
\* the row that makes Provider.Run skip the batch (line 265), always stands
\* for a live advertisement, whatever the failures of NotifyRemove,
\* NotifyPut and the ledger writes, and for any number of autoretrieves.
\* (Deleting contents breaks this: see the content_deletion run.)
THEOREM MatchingRowAdvertised ==
    ASSUME ~SoftDelete
    PROVE  Spec => []MatchingRowIsAdvertised
BY IInvAdvertised, IInvInductive, PTL

\* Under IInv, a step that writes a row raises it or leaves it: a create
\* replaces NoRow, and a save writes the tick's Count, which RowsBehindTick
\* says the row does not exceed.
LEMMA RowsGrowStep ==
    ASSUME IInv, [Next]_vars
    PROVE  [\A n \in Nodes, f \in Keys : ledger'[n][f] >= ledger[n][f]]_ledger
<1> DEFINE c == WindowCount(last, first)
           Raised == \A n \in Nodes, f \in Keys : ledger'[n][f] >= ledger[n][f]
<1>1. CASE PublishNew \/ Republish
  <2>1. InWindow /\ first \in Keys
    BY <1>1 DEF PublishNew, Republish, InWindow, IInv, TypeOK, Keys
  <2>2. c \in 0..BatchSize
    <3> last \in Int /\ first \in Int /\ first <= last
      BY <2>1 DEF InWindow, IInv, TypeOK, Keys
    <3> QED
      BY WindowCountRange
  <2>3. UNCHANGED ledger \/ ledger' = [ledger EXCEPT ![cur][first] = c]
    BY <1>1 DEF PublishNew, Republish, PublishPutFails, RepublishPutFails
  <2>4. ledger[cur][first] <= c
    <3>1. CASE HasRow(cur, first)
      BY <2>1, <3>1 DEF IInv, RowsBehindTick, TypeOK
    <3>2. CASE ~HasRow(cur, first)
      BY <2>2, <3>2 DEF HasRow, NoRow
    <3> QED
      BY <3>1, <3>2
  <2>5. CASE ledger' = [ledger EXCEPT ![cur][first] = c]
    <3> ledger \in [Nodes -> [Keys -> {NoRow} \cup 0..BatchSize]]
      BY DEF IInv, TypeOK
    <3> QED
      BY <2>1, <2>2, <2>4, <2>5 DEF IInv, TypeOK, NoRow
  <2> QED
    BY <2>3, <2>5
<1>2. CASE ~(PublishNew \/ Republish)
  BY <1>2 DEF Next, Loop, Environment, LastFails, ListFails, StartTick, SkipNode,
              EnterNode, EndTick, EndNode, LookupFails, SkipAdvertised, Pull,
              AddContent, PinContent, DeleteContent, Heartbeat, GoOffline, vars
<1> QED
  BY <1>1, <1>2

\* While no content is deleted, no step of Provider.Run lowers the Count
\* of a published_batches row, whatever the failures: a republish never
\* replaces an advertisement by one for fewer contents.  (Deleting
\* contents lowers lastContent.ID and then the Counts the loop saves.)
THEOREM RowsMonotone ==
    ASSUME ~SoftDelete
    PROVE  Spec => RowsNeverShrink
<1>1. IInv /\ [Next]_vars => [\A n \in Nodes, f \in Keys : ledger'[n][f] >= ledger[n][f]]_ledger
  BY RowsGrowStep
<1> QED
  BY <1>1, IInvInductive, PTL DEF Spec, RowsNeverShrink

-----------------------------------------------------------------------------
(* A row the loop will skip stands for indexed content, when obj_refs are  *)
(* written with the content and nothing is deleted.                        *)
(*                                                                         *)
(* MatchingRowIsIndexed is not inductive: a pull fixes a context's entries *)
(* to the catalog of that moment, and AddContent later adds contents to    *)
(* its batch.  Such an addition changes the batch's Count, so the row,     *)
(* which IInv keeps at most the old Count, no longer matches; a pull reads *)
(* every pinned content of the inclusive window, and every content is      *)
(* pinned.  The strengthening says so for every context, matching or not.  *)

\* With PinLag off and no deletion, obj_refs exist for every content.
PinnedAll == pinned = 1..lastID

\* A pulled live context whose row matches the catalog holds every content
\* of its batch.
PulledRowsIndexed ==
    \A n \in Nodes, f \in Keys :
        /\ <<n, f>> \in ads \ pending
        /\ HasRow(n, f)
        /\ ledger[n][f] = WindowCount(lastID, f)
        => Batch(f) \cap 1..lastID \subseteq index[<<n, f>>]

JInv == IInv /\ PinnedAll /\ PulledRowsIndexed

\* Every content of batch f is in the window the lister reads for it.
LEMMA BatchInWindow ==
    ASSUME NEW f \in Int
    PROVE  Batch(f) \subseteq Window(f)
BY BatchSizeAssumption DEF Batch, Window, ContentIDs

\* An added content leaves a batch's Count unchanged only when it lies
\* beyond the batch.
LEMMA WindowCountSettled ==
    ASSUME NEW l \in Int, NEW f \in Int,
           WindowCount(l + 1, f) = WindowCount(l, f)
    PROVE  l + 1 \notin Batch(f)
BY BatchSizeAssumption DEF WindowCount, Batch, ContentIDs

\* Steps that change none of the contexts, rows, entries or the catalog's
\* last ID keep PulledRowsIndexed.
LEMMA PulledRowsFrame ==
    ASSUME PulledRowsIndexed,
           UNCHANGED <<ads, pending, ledger, index, lastID>>
    PROVE  PulledRowsIndexed'
BY DEF PulledRowsIndexed, HasRow

\* A step that touches only context <<cur, first>>, leaving it to be pulled
\* or not advertised, keeps PulledRowsIndexed.
LEMMA PulledRowsVisit ==
    ASSUME TypeOK, PulledRowsIndexed, UNCHANGED lastID,
           NEW k, k = <<cur, first>>,
           k \in pending' \/ k \notin ads',
           ads' \ {k} = ads \ {k},
           pending' \ {k} = pending \ {k},
           \A j \in Contexts \ {k} : index'[j] = index[j],
           \A n \in Nodes, f \in Keys : <<n, f>> # k => ledger'[n][f] = ledger[n][f]
    PROVE  PulledRowsIndexed'
<1> SUFFICES ASSUME NEW n \in Nodes, NEW f \in Keys,
                    <<n, f>> \in ads' \ pending', HasRow(n, f)',
                    ledger'[n][f] = WindowCount(lastID', f)
             PROVE  Batch(f) \cap 1..lastID' \subseteq index'[<<n, f>>]
  BY DEF PulledRowsIndexed
<1>1. <<n, f>> # k
  OBVIOUS
<1>2. <<n, f>> \in ads \ pending /\ index'[<<n, f>>] = index[<<n, f>>]
  BY <1>1 DEF Contexts
<1> QED
  BY <1>1, <1>2 DEF PulledRowsIndexed, HasRow

\* JInv holds initially.
LEMMA InitJInv == Init => JInv
BY InitIInv DEF Init, JInv, PinnedAll, PulledRowsIndexed

\* With obj_refs written with their content, every content is pinned.
LEMMA PinnedAllStep ==
    ASSUME ~SoftDelete, ~PinLag, TypeOK, CatalogComplete, PinnedAll, [Next]_vars
    PROVE  PinnedAll'
<1>1. CASE AddContent
  <2> lastID' = lastID + 1 /\ pinned' = pinned \cup {lastID + 1} /\ lastID \in Nat
    BY <1>1 DEF AddContent, CatalogComplete, TypeOK
  <2> QED
    BY DEF PinnedAll
<1>2. CASE ~AddContent
  <2> UNCHANGED <<lastID, pinned>>
    BY <1>2 DEF Next, Loop, Environment, DeleteContent, PinContent, LastFails,
                ListFails, StartTick, SkipNode, EnterNode, EndTick, EndNode,
                LookupFails, SkipAdvertised, PublishNew, Republish, Pull,
                Heartbeat, GoOffline, vars, catalogVars
  <2> QED
    BY DEF PinnedAll
<1> QED
  BY <1>1, <1>2

\* A pull of context k stores every content of its batch the catalog has.
LEMMA PulledRowsPull ==
    ASSUME TypeOK, PinnedAll, PulledRowsIndexed, Pull
    PROVE  PulledRowsIndexed'
<1> PICK k \in pending : /\ pending' = pending \ {k}
                         /\ index' = [index EXCEPT ![k] = pinned \cap Window(k[2])]
  BY DEF Pull
<1> UNCHANGED <<ads, ledger, lastID>>
  BY DEF Pull, catalogVars
<1> SUFFICES ASSUME NEW n \in Nodes, NEW f \in Keys,
                    <<n, f>> \in ads' \ pending', HasRow(n, f)',
                    ledger'[n][f] = WindowCount(lastID', f)
             PROVE  Batch(f) \cap 1..lastID' \subseteq index'[<<n, f>>]
  BY DEF PulledRowsIndexed
<1>1. CASE <<n, f>> = k
  <2> k \in Contexts /\ index'[k] = pinned \cap Window(f)
    BY <1>1 DEF TypeOK
  <2> Batch(f) \subseteq Window(f)
    BY BatchInWindow DEF Keys
  <2> QED
    BY <1>1 DEF PinnedAll
<1>2. CASE <<n, f>> # k
  <2> <<n, f>> \in ads \ pending /\ index'[<<n, f>>] = index[<<n, f>>]
    BY <1>2 DEF TypeOK, Contexts
  <2> QED
    BY DEF PulledRowsIndexed, HasRow
<1> QED
  BY <1>1, <1>2

\* A content added beyond a matching row's batch leaves the row matching
\* only if the batch was full, so the new content is not in it.
LEMMA PulledRowsAdd ==
    ASSUME IInv, PulledRowsIndexed, AddContent
    PROVE  PulledRowsIndexed'
<1> lastID' = lastID + 1 /\ UNCHANGED <<ads, pending, index, ledger, last>>
  BY DEF AddContent, IInv, CatalogComplete, engineVars, loopVars
<1> SUFFICES ASSUME NEW n \in Nodes, NEW f \in Keys,
                    <<n, f>> \in ads \ pending, HasRow(n, f),
                    ledger[n][f] = WindowCount(lastID + 1, f)
             PROVE  Batch(f) \cap 1..lastID + 1 \subseteq index[<<n, f>>]
  BY DEF PulledRowsIndexed, HasRow
<1>1. last \in Int /\ lastID \in Int /\ f \in Int /\ last <= lastID
  BY DEF IInv, TypeOK, TickBehindCatalog, Keys
<1>2. ledger[n][f] <= WindowCount(last, f)
  BY DEF IInv, RowsBehindTick
<1>3. WindowCount(last, f) <= WindowCount(lastID, f)
  BY <1>1, WindowCountMonotone
<1>4. WindowCount(lastID, f) <= WindowCount(lastID + 1, f)
  BY <1>1, WindowCountMonotone
<1>5. WindowCount(lastID, f) = WindowCount(lastID + 1, f)
  BY <1>1, <1>2, <1>3, <1>4 DEF WindowCount
<1>6. lastID + 1 \notin Batch(f)
  BY <1>1, <1>5, WindowCountSettled
<1>7. Batch(f) \cap 1..lastID \subseteq index[<<n, f>>]
  BY <1>5 DEF PulledRowsIndexed
<1> QED
  BY <1>1, <1>6, <1>7

\* A publish or republish of <<cur, first>> either changes nothing the
\* property reads, or leaves that context to be pulled (Announce,
\* Reannounce) or unadvertised (Withdraw).
LEMMA PulledRowsPublish ==
    ASSUME TypeOK, PulledRowsIndexed, PublishNew \/ Republish
    PROVE  PulledRowsIndexed'
<1> DEFINE k == <<cur, first>>
<1>1. UNCHANGED lastID /\ InWindow
  BY DEF PublishNew, Republish, catalogVars
<1>2. k \in Contexts
  BY <1>1 DEF InWindow, TypeOK, Contexts, Keys
<1>3. WindowCount(last, first) \in Int
  BY <1>1 DEF InWindow, TypeOK, WindowCount
<1>4. CASE UNCHANGED <<ledger, engineVars>>
  BY <1>1, <1>4, PulledRowsFrame DEF engineVars
<1>5. ASSUME k \in pending' \/ k \notin ads',
             ads' \ {k} = ads \ {k},
             pending' \ {k} = pending \ {k},
             \A j \in Contexts \ {k} : index'[j] = index[j],
             \/ UNCHANGED ledger
             \/ ledger' = [ledger EXCEPT ![cur][first] = WindowCount(last, first)]
      PROVE  PulledRowsIndexed'
  <2> \A n \in Nodes, f \in Keys : <<n, f>> # k => ledger'[n][f] = ledger[n][f]
    BY <1>2, <1>5 DEF TypeOK, Contexts
  <2> QED
    BY <1>1, <1>5, PulledRowsVisit
<1>6. CASE PublishNew
  <2>1. CASE k \in ads /\ NoFail /\ UNCHANGED <<ledger, engineVars>>
    BY <2>1, <1>4
  <2>2. CASE k \notin ads /\ PublishPutFails(k)
    BY <2>2, <1>4 DEF PublishPutFails
  <2>3. CASE k \notin ads /\ Announce(k)
    <3>1. UNCHANGED ledger \/ ledger' = [ledger EXCEPT ![cur][first] = WindowCount(last, first)]
      BY <1>6, <2>3 DEF PublishNew, PublishPutFails
    <3>2. /\ k \in pending'
          /\ ads' \ {k} = ads \ {k}
          /\ pending' \ {k} = pending \ {k}
          /\ \A j \in Contexts \ {k} : index'[j] = index[j]
      BY <2>3 DEF Announce
    <3> QED
      BY <3>1, <3>2, <1>5
  <2> QED
    BY <1>6, <2>1, <2>2, <2>3 DEF PublishNew
<1>7. CASE Republish
  <2>1. CASE UNCHANGED <<ledger, engineVars>>
    BY <2>1, <1>4
  <2>2. CASE RepublishPutFails(k)
    BY <2>2, <1>5, <1>2 DEF RepublishPutFails, Withdraw
  <2>3. CASE Reannounce(k) /\ (UNCHANGED ledger \/
                               ledger' = [ledger EXCEPT ![cur][first] = WindowCount(last, first)])
    BY <2>3, <1>5, <1>2 DEF Reannounce
  <2> QED
    BY <1>7, <2>1, <2>2, <2>3 DEF Republish
<1> QED
  BY <1>6, <1>7
\* Every step keeps JInv while obj_refs come with their content and no
\* content is deleted.
LEMMA JInvStep ==
    ASSUME ~SoftDelete, ~PinLag
    PROVE  JInv /\ [Next]_vars => JInv'
<1> SUFFICES ASSUME JInv, [Next]_vars PROVE JInv'
  OBVIOUS
<1>1. IInv'
  BY IInvStep DEF JInv
<1>2. PinnedAll'
  BY PinnedAllStep DEF JInv, IInv
<1>3. PulledRowsIndexed'
  <2>1. CASE Pull
    BY <2>1, PulledRowsPull DEF JInv, IInv
  <2>2. CASE AddContent
    BY <2>2, PulledRowsAdd DEF JInv
  <2>3. CASE PublishNew \/ Republish
    BY <2>3, PulledRowsPublish DEF JInv, IInv
  <2>4. CASE PinContent \/ DeleteContent
    BY <2>4 DEF PinContent, DeleteContent
  <2>5. CASE LastFails \/ ListFails \/ StartTick \/ SkipNode \/ EnterNode \/ EndTick
             \/ EndNode \/ LookupFails \/ SkipAdvertised \/ Heartbeat \/ GoOffline
             \/ UNCHANGED vars
    <3> UNCHANGED <<ads, pending, ledger, index, lastID>>
      BY <2>5 DEF LastFails, ListFails, StartTick, SkipNode, EnterNode, EndTick,
                  EndNode, LookupFails, SkipAdvertised, Heartbeat, GoOffline, vars,
                  catalogVars, engineVars
    <3> QED
      BY PulledRowsFrame DEF JInv
  <2> QED
    BY <2>1, <2>2, <2>3, <2>4, <2>5 DEF Next, Loop, Environment
<1> QED
  BY <1>1, <1>2, <1>3 DEF JInv

\* JInv implies that a matching row stands for indexed content.
LEMMA JInvIndexed == JInv => MatchingRowIsIndexed
<1> SUFFICES ASSUME JInv, NEW n \in Nodes, NEW f \in Firsts,
                    HasRow(n, f), ledger[n][f] = WindowCount(lastID, f)
             PROVE  /\ <<n, f>> \in ads
                    /\ <<n, f>> \in pending \/ pinned \cap Batch(f) \subseteq index[<<n, f>>]
  BY DEF MatchingRowIsIndexed
<1>1. <<n, f>> \in ads
  BY IInvAdvertised DEF JInv, MatchingRowIsAdvertised
<1>2. <<n, f>> \notin pending => Batch(f) \cap 1..lastID \subseteq index[<<n, f>>]
  BY <1>1 DEF JInv, PulledRowsIndexed, Firsts, Keys
<1> QED
  BY <1>1, <1>2 DEF JInv, PinnedAll

\* When obj_refs are written with their content and nothing is deleted, a
\* published_batches row that makes Provider.Run skip its batch (line 265)
\* stands for an advertisement that is either still to be pulled or whose
\* entries, read through the lister's NewIterator, hold every content of
\* the batch: skipping never hides content from the indexer.  (The runs
\* pin_after_pull and content_deletion show both hypotheses are needed.)
THEOREM MatchingRowIndexed ==
    ASSUME ~SoftDelete, ~PinLag
    PROVE  Spec => []MatchingRowIsIndexed
BY InitJInv, JInvStep, JInvIndexed, PTL DEF Spec

-----------------------------------------------------------------------------
(* Refinement: the loop implements the abstract ledger.                    *)
(*                                                                         *)
(* Under the mapping rows <- ledger, live <- ads, highest <- lastID, a     *)
(* step that writes a row writes the Count of the tick's snapshot last,    *)
(* which IInv keeps between the batch and the catalog (Record); a step    *)
(* that only announces is Advertise; and a republish whose NotifyPut      *)
(* fails retracts a context whose row differs from the snapshot's Count,  *)
(* hence, by RowsBehindTick and the monotony of Count, from the           *)
(* catalog's (Retract).  Every other step leaves the three alone, except   *)
(* AddContent, which is Grow because lastID = created.                    *)

\* The batch visited by the loop is a context of the abstract ledger whose
\* first content ID lies in the catalog.
LEMMA VisitedBatch ==
    ASSUME IInv, InWindow
    PROVE  /\ cur \in Nodes /\ first \in Ledger!Keys
           /\ first <= last /\ last <= lastID /\ last \in Int
           /\ first <= lastID
<1> USE DEF IInv, TypeOK, InWindow
<1> first <= last /\ last <= lastID
  BY DEF TickBehindCatalog
<1> QED
  BY DEF Ledger!Keys

\* Writing the snapshot's Count into the visited batch's row, together with
\* its announcement, is a Record step.
LEMMA RecordStep ==
    ASSUME IInv, InWindow, UNCHANGED lastID,
           ledger' = [ledger EXCEPT ![cur][first] = WindowCount(last, first)],
           ads' = ads \cup {<<cur, first>>}
    PROVE  Ledger!Record(cur, first)
<1>1. last \in first..lastID
  BY VisitedBatch
<1>2. WindowCount(last, first) = Ledger!Count(last, first)
  BY DEF WindowCount, Ledger!Count
<1> QED
  BY <1>1, <1>2 DEF Ledger!Record

\* Withdrawing a context whose row differs from the snapshot's Count is a
\* Retract step.
LEMMA RetractStep ==
    ASSUME IInv, InWindow, UNCHANGED <<ledger, lastID>>,
           HasRow(cur, first), ledger[cur][first] # WindowCount(last, first),
           ads' = ads \ {<<cur, first>>}
    PROVE  Ledger!Retract(cur, first)
<1>1. /\ cur \in Nodes /\ first \in Keys
      /\ first <= last /\ last <= lastID /\ last \in Int /\ lastID \in Int
  BY VisitedBatch DEF Ledger!Keys, Keys, IInv, TypeOK
<1>2. ledger[cur][first] <= WindowCount(last, first)
  BY <1>1 DEF IInv, RowsBehindTick
<1>3. WindowCount(last, first) <= WindowCount(lastID, first)
  BY <1>1, WindowCountMonotone DEF Keys
<1>4. ledger[cur][first] \in Int /\ WindowCount(last, first) \in Int
      /\ WindowCount(lastID, first) \in Int
  <2>1. ledger[cur][first] \in {NoRow} \cup 0..BatchSize
    BY <1>1 DEF IInv, TypeOK
  <2> QED
    BY <1>1, <2>1 DEF NoRow, WindowCount, Keys
<1>5. ledger[cur][first] # Ledger!Count(lastID, first)
  BY <1>2, <1>3, <1>4 DEF WindowCount, Ledger!Count
<1> QED
  BY <1>5 DEF Ledger!Retract

\* With contents never deleted, Provider.Run, the indexer and the catalog
\* implement the abstract ledger: every row write comes with a live
\* advertisement and a Count some tick read, and only stale rows lose
\* their advertisement.
THEOREM Refinement ==
    ASSUME ~SoftDelete
    PROVE  Spec => ImplementsLedger
<1>1. Init => Ledger!Init
  BY DEF Init, Ledger!Init, NoRow, Ledger!NoRow, Keys, Ledger!Keys
<1>2. IInv /\ [Next]_vars => [Ledger!Next]_Ledger!vars
  <2> SUFFICES ASSUME IInv, [Next]_vars PROVE [Ledger!Next]_Ledger!vars
    OBVIOUS
  <2> DEFINE k == <<cur, first>>
  <2>0. UNCHANGED <<ledger, ads, lastID>> => [Ledger!Next]_Ledger!vars
    BY DEF Ledger!vars
  <2>1. CASE PublishNew
    <3> InWindow /\ UNCHANGED lastID
      BY <2>1 DEF PublishNew, catalogVars
    <3> cur \in Nodes /\ first \in Ledger!Keys /\ first <= lastID
      BY VisitedBatch
    <3>1. CASE ads' = ads \cup {k} /\ UNCHANGED ledger
      BY <3>1 DEF Ledger!Next, Ledger!Advertise, Ledger!vars
    <3>2. CASE ads' = ads \cup {k} /\ ledger' = [ledger EXCEPT ![cur][first] = WindowCount(last, first)]
      BY <3>2, RecordStep DEF Ledger!Next
    <3>3. CASE UNCHANGED <<ledger, ads>>
      BY <3>3 DEF Ledger!vars
    <3> QED
      BY <2>1, <3>1, <3>2, <3>3 DEF PublishNew, PublishPutFails, Announce, engineVars
  <2>2. CASE Republish
    <3> InWindow /\ UNCHANGED lastID
      BY <2>2 DEF Republish, catalogVars
    <3> cur \in Nodes /\ first \in Ledger!Keys /\ first <= lastID
      BY VisitedBatch
    <3>1. CASE ads' = ads \cup {k} /\ UNCHANGED ledger
      BY <3>1 DEF Ledger!Next, Ledger!Advertise, Ledger!vars
    <3>2. CASE ads' = ads \cup {k} /\ ledger' = [ledger EXCEPT ![cur][first] = WindowCount(last, first)]
      BY <3>2, RecordStep DEF Ledger!Next
    <3>3. CASE UNCHANGED <<ledger, ads>>
      BY <3>3 DEF Ledger!vars
    <3>4. CASE RepublishPutFails(k)
      <4> ads' = ads \ {k} /\ UNCHANGED ledger
        BY <3>4 DEF RepublishPutFails, Withdraw
      <4> HasRow(cur, first) /\ ledger[cur][first] # WindowCount(last, first)
        BY <2>2 DEF Republish
      <4> QED
        BY RetractStep DEF Ledger!Next
    <3> QED
      BY <2>2, <3>1, <3>2, <3>3, <3>4 DEF Republish, Reannounce, engineVars
  <2>3. CASE AddContent
    <3> lastID < MaxID /\ lastID' = lastID + 1 /\ UNCHANGED <<ledger, ads>>
      BY <2>3 DEF AddContent, IInv, CatalogComplete, engineVars
    <3> QED
      BY DEF Ledger!Next, Ledger!Grow
  <2>4. CASE DeleteContent
    BY <2>4 DEF DeleteContent
  <2>5. CASE LastFails \/ ListFails \/ StartTick \/ SkipNode \/ EnterNode \/ EndTick
             \/ EndNode \/ LookupFails \/ SkipAdvertised
             \/ Pull \/ PinContent \/ Heartbeat \/ GoOffline \/ UNCHANGED vars
    <3> UNCHANGED <<ledger, ads, lastID>>
      BY <2>5 DEF LastFails, ListFails, StartTick, SkipNode, EnterNode, EndTick,
                  EndNode, LookupFails, SkipAdvertised, Pull, PinContent,
                  Heartbeat, GoOffline, vars, catalogVars, engineVars
    <3> QED
      BY <2>0
  <2> QED
    BY <2>1, <2>2, <2>3, <2>4, <2>5 DEF Next, Loop, Environment
<1>3. QED
  BY <1>1, <1>2, IInvInductive, PTL DEF Spec, ImplementsLedger, Ledger!Spec
=============================================================================
