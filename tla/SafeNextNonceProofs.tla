------------------------- MODULE SafeNextNonceProofs -------------------------
(***************************************************************************)
(* Proofs about SafeNextNonce, for every set of transactions, every nonce  *)
(* they are bound to and every page length of at least two.                *)
(***************************************************************************)
EXTENDS SafeNextNonce, FiniteSetTheorems, TLAPS

\* The invariant holds before the call.
LEMMA InitScanInvariant == Init => ScanInvariant
<1>. SUFFICES ASSUME Init PROVE ScanInvariant
  OBVIOUS
<1>1. TypeOK
  <2>1. unbounded \in BOOLEAN /\ spentLate \in BOOLEAN
    BY Zenon DEF Init
  <2>. QED
    BY <2>1, SafeNextNonceAssumption DEF Init, TypeOK
<1>2. ScanCovers /\ ReadsAreFloored
  BY DEF Init, ScanCovers, ReadsAreFloored
<1>3. ScanIsHonest
  BY DEF Init, ScanIsHonest
<1>. QED
  BY <1>1, <1>2, <1>3 DEF ScanInvariant

\* A full page that is not rejected is ordered by descending nonce: what the
\* page leaves out lies at or below its lowest nonce.
LEMMA AcceptedPageIsDescending ==
    ASSUME TypeOK, NEW page \in SUBSET Matching, IsPage(page), Cardinality(page) = Limit,
           ordering = "descending" \/ \A t, u \in page : Nonce[t] = Nonce[u]
    PROVE  ordering = "descending"
<1>. SUFFICES ASSUME ordering # "descending" PROVE FALSE
  OBVIOUS
<1>1. ordering = "ascending" /\ "ascending" \in Orderings
  BY SafeNextNonceAssumption DEF TypeOK
<1>2. page \subseteq Txs /\ IsFiniteSet(Txs) /\ IsFiniteSet(page)
  BY SafeNextNonceAssumption, FS_Subset DEF TypeOK, Matching
<1>3. page # {}
  BY FS_EmptySet, SafeNextNonceAssumption
<1>4. PICK u \in page : TRUE
  BY <1>3
<1>. DEFINE rivals == {t \in Txs : Nonce[t] = Nonce[u]}
<1>5. page \subseteq rivals /\ rivals \subseteq Txs
  BY <1>2, <1>4
<1>6. IsFiniteSet(rivals)
  BY <1>2, <1>5, FS_Subset
<1>7. Cardinality(page) <= Cardinality(rivals) /\ Cardinality(rivals) \in Nat
  BY <1>5, <1>6, FS_Subset, FS_CardinalityType
<1>8. Cardinality(rivals) < Limit
  BY <1>1, <1>2, <1>4, SafeNextNonceAssumption
<1>. QED
  BY <1>7, <1>8, SafeNextNonceAssumption

\* The scan loses no transaction that stays queued: a page and the bound it
\* leaves cover everything the range held.
LEMMA ScanPagePreserves ==
    ASSUME ScanInvariant, ScanPage
    PROVE  ScanInvariant'
<1>. USE SafeNextNonceAssumption
<1>1. PICK page \in SUBSET Matching :
        /\ IsPage(page)
        /\ \/ /\ Cardinality(page) < Limit
              /\ Collect(page)
              /\ pc' = "scanned"
              /\ UNCHANGED <<bound, unbounded>>
           \/ /\ Cardinality(page) = Limit
              /\ ordering = "descending" \/ \A t, u \in page : Nonce[t] = Nonce[u]
              /\ Collect(page)
              /\ DropBelow(page)
              /\ unbounded' = FALSE
              /\ pc' = IF bound' < floor THEN "scanned" ELSE "scanning"
  BY DEF ScanPage
<1>2. /\ pc = "scanning"
      /\ UNCHANGED <<service, floor, current, answer, history>>
  BY DEF ScanPage
<1>3. page \subseteq queue /\ page \subseteq Txs /\ page \subseteq glimpsed
  BY <1>2 DEF ScanInvariant, TypeOK, ScanIsHonest, Matching
<1>4. /\ found' = found \cup {Nonce[t] : t \in page}
      /\ \A t \in page : Nonce[t] \in found'
      /\ found \subseteq found'
  BY <1>1 DEF Collect
<1>5. ScanIsHonest'
  BY <1>2, <1>3, <1>4 DEF ScanInvariant, TypeOK, ScanIsHonest, history, service
<1>6. ReadsAreFloored'
  BY <1>1, <1>2 DEF ReadsAreFloored
<1>7. found' \subseteq Nat
  BY <1>3, <1>4 DEF ScanInvariant, TypeOK
<1>8. CASE Cardinality(page) < Limit
  <2>1. page = Matching /\ pc' = "scanned" /\ UNCHANGED <<bound, unbounded>>
    BY <1>1, <1>8 DEF IsPage
  <2>2. TypeOK'
    BY <1>2, <1>7, <2>1 DEF ScanInvariant, TypeOK, history, service
  <2>3. ASSUME NEW t \in steady, Nonce[t] >= floor
        PROVE  Nonce[t] \in found'
    <3>1. CASE InRange(t)
      BY <2>1, <2>3, <3>1, <1>4 DEF ScanInvariant, ScanIsHonest, Matching
    <3>2. CASE Nonce[t] \in found
      BY <3>2, <1>4
    <3>. QED
      BY <1>2, <2>3, <3>1, <3>2 DEF ScanInvariant, ScanCovers, Holds
  <2>4. ScanCovers'
    BY <1>2, <2>1, <2>3 DEF ScanCovers, Holds, history
  <2>. QED
    BY <1>5, <1>6, <2>2, <2>4 DEF ScanInvariant
<1>9. CASE Cardinality(page) = Limit
  <2>1. /\ ordering = "descending"
        /\ DropBelow(page) /\ unbounded' = FALSE
        /\ pc' = IF bound' < floor THEN "scanned" ELSE "scanning"
    BY <1>1, <1>9, AcceptedPageIsDescending DEF ScanInvariant
  <2>2. PICK low \in page :
          /\ \A t \in page : Nonce[low] <= Nonce[t]
          /\ bound' = Nonce[low] - 1
    BY <2>1 DEF DropBelow
  <2>3. low \in Txs /\ Nonce[low] \in Nat
    BY <1>3, <2>2
  <2>4. TypeOK'
    <3>1. unbounded' \in BOOLEAN
      BY <2>1, Zenon
    <3>2. bound' \in Int
      BY <2>2, <2>3
    <3>. QED
      BY <1>2, <1>7, <2>1, <3>1, <3>2 DEF ScanInvariant, TypeOK, history, service
  <2>5. ASSUME NEW t \in steady, Nonce[t] >= floor
        PROVE  Nonce[t] \in found' \/ Nonce[t] <= bound'
    <3>1. t \in Txs /\ Nonce[t] \in Nat /\ t \in queue
      BY <2>5 DEF ScanInvariant, TypeOK, ScanIsHonest
    <3>2. CASE Nonce[t] \in found
      BY <3>2, <1>4
    <3>3. CASE t \in page
      BY <3>3, <1>4
    <3>4. CASE InRange(t) /\ t \notin page
      <4>1. Nonce[low] >= Nonce[t]
        BY <1>1, <2>1, <3>1, <3>4 DEF IsPage, Matching
      <4>2. Nonce[low] = Nonce[t] \/ Nonce[t] <= Nonce[low] - 1
        BY <4>1, <3>1, <2>3
      <4>. QED
        BY <4>2, <1>4, <2>2
    <3>. QED
      BY <1>2, <2>5, <3>2, <3>3, <3>4 DEF ScanInvariant, ScanCovers, Holds
  <2>6. ScanCovers'
    <3>1. CASE bound' < floor
      <4>1. ASSUME NEW t \in steady, Nonce[t] >= floor PROVE Nonce[t] \in found'
        <5>1. Nonce[t] \in Nat /\ floor \in Nat /\ bound' \in Int
          BY <2>2, <2>3 DEF ScanInvariant, TypeOK
        <5>. QED
          BY <2>5, <3>1, <4>1, <5>1
      <4>. QED
        BY <1>2, <2>1, <3>1, <4>1 DEF ScanCovers, Holds, history
    <3>2. CASE ~(bound' < floor)
      BY <1>2, <2>1, <2>5, <3>2 DEF ScanCovers, Holds, InRange, history
    <3>. QED
      BY <3>1, <3>2
  <2>. QED
    BY <1>5, <1>6, <2>4, <2>6 DEF ScanInvariant
<1>. QED
  BY <1>1, <1>8, <1>9

\* Proposals, deletions and executions only shrink what the scan owes.
LEMMA ServicePreserves ==
    ASSUME ScanInvariant, NEW t \in Txs, Propose(t) \/ Delete(t) \/ Execute(t)
    PROVE  ScanInvariant'
<1>. USE SafeNextNonceAssumption
<1>1. /\ UNCHANGED <<pc, floor, bound, unbounded, found, current, answer, ordering, scans>>
      /\ steady' \subseteq steady
  BY DEF Propose, Delete, Execute, call
<1>2. TypeOK'
  <2>1. CASE Propose(t)
    BY <2>1, <1>1 DEF Propose, ScanInvariant, TypeOK
  <2>2. CASE Delete(t)
    BY <2>2, <1>1 DEF Delete, ScanInvariant, TypeOK
  <2>3. CASE Execute(t)
    BY <2>3, <1>1 DEF Execute, ScanInvariant, TypeOK
  <2>. QED
    BY <2>1, <2>2, <2>3
<1>3. ScanCovers'
  BY <1>1 DEF ScanInvariant, ScanCovers, Holds, InRange
<1>4. ScanIsHonest'
  <2>1. CASE Propose(t)
    BY <2>1, <1>1 DEF Propose, ScanInvariant, ScanIsHonest
  <2>2. CASE Delete(t)
    BY <2>2, <1>1 DEF Delete, ScanInvariant, ScanIsHonest
  <2>3. CASE Execute(t)
    BY <2>3, <1>1 DEF Execute, ScanInvariant, ScanIsHonest
  <2>. QED
    BY <2>1, <2>2, <2>3
<1>5. ReadsAreFloored'
  BY <1>1 DEF Propose, Delete, Execute, ScanInvariant, TypeOK, ReadsAreFloored, LowestFree
<1>. QED
  BY <1>2, <1>3, <1>4, <1>5 DEF ScanInvariant

\* The steps of the call other than reading a page.
LEMMA CallPreserves ==
    ASSUME ScanInvariant, ReadNonceBeforeScan \/ RejectPage \/ ScanFails \/ ReadNonceAfterScan \/ Answer
    PROVE  ScanInvariant'
<1>. USE SafeNextNonceAssumption
<1>1. CASE ReadNonceBeforeScan
  BY <1>1 DEF ReadNonceBeforeScan, ScanInvariant, TypeOK, ScanCovers, ScanIsHonest,
              ReadsAreFloored, Holds, InRange, service
<1>2. CASE RejectPage \/ ScanFails
  BY <1>2 DEF RejectPage, ScanFails, ScanInvariant, TypeOK, ScanCovers, ScanIsHonest,
              ReadsAreFloored, service, history
<1>3. CASE ReadNonceAfterScan
  <2>1. TypeOK'
    BY <1>3 DEF ReadNonceAfterScan, ScanInvariant, TypeOK, service
  <2>2. ScanCovers'
    BY <1>3 DEF ReadNonceAfterScan, ScanInvariant, ScanCovers, Holds
  <2>3. ScanIsHonest'
    BY <1>3 DEF ReadNonceAfterScan, ScanInvariant, ScanIsHonest, service
  <2>4. ReadsAreFloored'
    BY <1>3 DEF ReadNonceAfterScan, ScanInvariant, TypeOK, ReadsAreFloored, service
  <2>. QED
    BY <2>1, <2>2, <2>3, <2>4 DEF ScanInvariant
<1>4. CASE Answer
  <2>1. PICK n \in current .. current + Cardinality(found) : LowestFree(n) /\ answer' = n
    BY <1>4 DEF Answer
  <2>2. n \in Nat /\ n >= current
    BY <2>1 DEF LowestFree, ScanInvariant, TypeOK
  <2>. QED
    BY <1>4, <2>1, <2>2 DEF Answer, ScanInvariant, TypeOK, ScanCovers, ScanIsHonest,
       ReadsAreFloored, LowestFree, Holds, service, history
<1>. QED
  BY <1>1, <1>2, <1>3, <1>4

\* The scan invariant of readNextNonce holds in every reachable state.
THEOREM ScanInvariantHolds == Spec => []ScanInvariant
<1>1. ScanInvariant /\ UNCHANGED vars => ScanInvariant'
  BY DEF ScanInvariant, TypeOK, ScanCovers, ScanIsHonest, ReadsAreFloored, Holds, InRange,
         LowestFree, vars, service, call, history
<1>2. ScanInvariant /\ Next => ScanInvariant'
  BY ScanPagePreserves, ServicePreserves, CallPreserves DEF Next
<1>. QED
  BY <1>1, <1>2, InitScanInvariant, PTL DEF Spec

\* readNextNonce never answers a nonce that a transaction held in the queue
\* for the whole call.
THEOREM NextNonceNeverCollides == Spec => []NextNonceIsFree
<1>1. ScanInvariant => NextNonceIsFree
  BY SafeNextNonceAssumption
     DEF ScanInvariant, TypeOK, ScanCovers, ReadsAreFloored, LowestFree, Holds, NextNonceIsFree
<1>. QED
  BY <1>1, ScanInvariantHolds, PTL

\* readNextNonce skips a slot only over a transaction that was queued.
THEOREM NextNonceFillsHoles == Spec => []HolesAreFilled
<1>1. ScanInvariant => HolesAreFilled
  BY DEF ScanInvariant, ScanIsHonest, ReadsAreFloored, LowestFree, HolesAreFilled
<1>. QED
  BY <1>1, ScanInvariantHolds, PTL

\* A nonce that readNextNonce answers was not spent before its second read.
THEOREM NextNonceIsAlive == Spec => []SpentOnlyInWindow
<1>1. ScanInvariant => SpentOnlyInWindow
  BY DEF ScanInvariant, TypeOK, ReadsAreFloored, LowestFree, SpentOnlyInWindow
<1>. QED
  BY <1>1, ScanInvariantHolds, PTL
=============================================================================
