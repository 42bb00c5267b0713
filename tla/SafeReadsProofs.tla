--------------------------- MODULE SafeReadsProofs --------------------------
(***************************************************************************)
(* The Safe pages read through one cache and one hourly budget, for every  *)
(* set of readers and processes, every pair of limits, every division into *)
(* buckets and every lifetime of a page: the budget and its reserve hold,  *)
(* pages are as recent as they claim, and a process has one read of a key  *)
(* open at a time, which those who joined it await.                        *)
(***************************************************************************)
EXTENDS SafeReads, FiniteSetTheorems, TLAPS

-----------------------------------------------------------------------------
(* Cardinalities of the holders before and after a step *)

\* A subset is not larger.
LEMMA SubsetCardinality ==
    ASSUME NEW S, NEW T, IsFiniteSet(S), T \subseteq S
    PROVE  Cardinality(T) <= Cardinality(S) /\ Cardinality(S) \in Nat /\ Cardinality(T) \in Nat
BY FS_Subset, FS_CardinalityType

\* One more holder at most.
LEMMA GrownCardinality ==
    ASSUME NEW S, NEW T, NEW x, IsFiniteSet(S), T \subseteq S \cup {x}
    PROVE  Cardinality(T) <= Cardinality(S) + 1 /\ Cardinality(S) \in Nat /\ Cardinality(T) \in Nat
<1>1. /\ IsFiniteSet(S \cup {x})
      /\ Cardinality(S \cup {x}) = IF x \in S THEN Cardinality(S) ELSE Cardinality(S) + 1
  BY FS_AddElement
<1>2. Cardinality(T) <= Cardinality(S \cup {x}) /\ Cardinality(T) \in Nat
  BY <1>1, SubsetCardinality
<1>3. Cardinality(S) \in Nat
  BY FS_CardinalityType
<1>. QED
  BY <1>1, <1>2, <1>3

\* One holder less.
LEMMA ShrunkCardinality ==
    ASSUME NEW S, NEW T, NEW x, IsFiniteSet(S), x \in S, T \subseteq S \ {x}
    PROVE  Cardinality(T) + 1 <= Cardinality(S) /\ Cardinality(S) \in Nat /\ Cardinality(T) \in Nat
<1>1. /\ IsFiniteSet(S \ {x})
      /\ Cardinality(S \ {x}) = IF x \in S THEN Cardinality(S) - 1 ELSE Cardinality(S)
  BY FS_RemoveElement
<1>2. Cardinality(T) <= Cardinality(S \ {x}) /\ Cardinality(T) \in Nat
  BY <1>1, SubsetCardinality
<1>3. Cardinality(S) \in Nat
  BY FS_CardinalityType
<1>. QED
  BY <1>1, <1>2, <1>3

\* Holders are counted.
LEMMA HoldersAreFinite == \A h : IsFiniteSet(Holders(h))
<1>1. \A h : Holders(h) \subseteq Readers
  BY DEF Holders
<1>. QED
  BY <1>1, FS_Subset, SafeReadsAssumption

-----------------------------------------------------------------------------
(* The steps, by what they do to the units *)

counters == <<count, spent, failOpens>>

\* Steps that grant, spend and return no unit.
Quiet ==
    \/ Tick \/ Change \/ Purge
    \/ \E p \in Processes : Crash(p)
    \/ \E r \in PageReaders : StartPage(r) \/ PageStep(r)
    \/ \E r \in NonceReaders : StartNonce(r)
    \/ \E r \in Readers : CheckBudget(r) \/ Answered(r) \/ Unanswered(r) \/ Drop(r) \/ FailNonce(r)

\* Steps that touch no counter keep the types.
LEMMA QuietKeepsTypes ==
    ASSUME BudgetTypeOK, Quiet
    PROVE  BudgetTypeOK' /\ UNCHANGED counters
<1>. USE SafeReadsAssumption DEF BudgetTypeOK, counters, history, budgetHistory, time, Step, Idle, Steps
<1>1. CASE Tick \/ Change \/ Purge
  BY <1>1 DEF Tick, Change, Purge
<1>2. ASSUME NEW p \in Processes, Crash(p) PROVE BudgetTypeOK' /\ UNCHANGED counters
  BY <1>2 DEF Crash
<1>3. ASSUME NEW r \in PageReaders, StartPage(r) PROVE BudgetTypeOK' /\ UNCHANGED counters
  BY <1>3 DEF StartPage, Readers
<1>4. ASSUME NEW r \in PageReaders, ReadCache(r) \/ ReadExpired(r) PROVE BudgetTypeOK' /\ UNCHANGED counters
  BY <1>4 DEF ReadCache, ReadExpired, Readers
<1>5. ASSUME NEW r \in PageReaders, JoinOrRead(r) PROVE BudgetTypeOK' /\ UNCHANGED counters
  BY <1>5 DEF JoinOrRead, Readers, BucketHours
<1>6. ASSUME NEW r \in PageReaders, Write(r) \/ FailPage(r) PROVE BudgetTypeOK' /\ UNCHANGED counters
  BY <1>6 DEF Write, FailPage, Settle
<1>7. ASSUME NEW r \in NonceReaders, StartNonce(r) PROVE BudgetTypeOK' /\ UNCHANGED counters
  BY <1>7 DEF StartNonce, Readers, BucketHours
<1>8. ASSUME NEW r \in Readers, CheckBudget(r) \/ Answered(r) \/ Unanswered(r) \/ Drop(r) \/ FailNonce(r)
      PROVE  BudgetTypeOK' /\ UNCHANGED counters
  BY <1>8 DEF CheckBudget, Answered, Unanswered, Drop, FailNonce
<1>. QED
  BY <1>1, <1>2, <1>3, <1>4, <1>5, <1>6, <1>7, <1>8 DEF Quiet, PageStep

\* They give nobody a unit.
LEMMA QuietKeepsHolders ==
    ASSUME BudgetTypeOK, Quiet, NEW h
    PROVE  Holders(h)' \subseteq Holders(h)
<1>. USE DEF BudgetTypeOK, Holders, Step, Idle
<1>1. CASE Tick \/ Change \/ Purge
  BY <1>1 DEF Tick, Change, Purge
<1>2. ASSUME NEW p \in Processes, Crash(p) PROVE Holders(h)' \subseteq Holders(h)
  BY <1>2 DEF Crash
<1>3. ASSUME NEW r \in PageReaders, StartPage(r) PROVE Holders(h)' \subseteq Holders(h)
  BY <1>3 DEF StartPage, Readers
<1>4. ASSUME NEW r \in PageReaders, ReadCache(r) \/ ReadExpired(r) PROVE Holders(h)' \subseteq Holders(h)
  BY <1>4 DEF ReadCache, ReadExpired, Readers
<1>5. ASSUME NEW r \in PageReaders, JoinOrRead(r) PROVE Holders(h)' \subseteq Holders(h)
  BY <1>5 DEF JoinOrRead, Readers
<1>6. ASSUME NEW r \in PageReaders, Write(r) \/ FailPage(r) PROVE Holders(h)' \subseteq Holders(h)
  BY <1>6 DEF Write, FailPage, Settle
<1>7. ASSUME NEW r \in NonceReaders, StartNonce(r) PROVE Holders(h)' \subseteq Holders(h)
  BY <1>7 DEF StartNonce, Readers
<1>8. ASSUME NEW r \in Readers, CheckBudget(r) \/ Answered(r) \/ Unanswered(r) \/ Drop(r) \/ FailNonce(r)
      PROVE  Holders(h)' \subseteq Holders(h)
  BY <1>8 DEF CheckBudget, Answered, Unanswered, Drop, FailNonce
<1>. QED
  BY <1>1, <1>2, <1>3, <1>4, <1>5, <1>6, <1>7, <1>8 DEF Quiet, PageStep

\* They keep the units counted.
LEMMA QuietPreserves ==
    ASSUME BudgetInvariant, Quiet
    PROVE  BudgetInvariant'
<1>1. BudgetTypeOK' /\ UNCHANGED counters
  BY QuietKeepsTypes DEF BudgetInvariant
<1>2. ASSUME NEW h \in BucketHours
      PROVE  Cardinality(Holders(h)') + spent'[h] <= count'[h] + failOpens'[h] /\ count'[h] <= GlobalLimit
  <2>1. Cardinality(Holders(h)') <= Cardinality(Holders(h))
        /\ Cardinality(Holders(h)) \in Nat /\ Cardinality(Holders(h)') \in Nat
    BY QuietKeepsHolders, HoldersAreFinite, SubsetCardinality DEF BudgetInvariant
  <2>2. /\ count[h] \in Nat /\ spent[h] \in Nat /\ failOpens[h] \in Nat
        /\ Cardinality(Holders(h)) + spent[h] <= count[h] + failOpens[h] /\ count[h] <= GlobalLimit
    BY DEF BudgetInvariant, BudgetTypeOK, UnitsAreCounted, CountIsCapped
  <2>. QED
    BY <1>1, <2>1, <2>2 DEF counters
<1>. QED
  BY <1>1, <1>2 DEF BudgetInvariant, UnitsAreCounted, CountIsCapped, BucketHours, Hour

-----------------------------------------------------------------------------
(* The steps that move a unit *)

\* A unit that is charged is counted, and refused at the limit.
LEMMA ChargePreserves ==
    ASSUME BudgetInvariant, NEW r \in Readers, Charge(r)
    PROVE  BudgetInvariant'
<1>. USE SafeReadsAssumption
<1>1. BudgetTypeOK'
  BY DEF BudgetInvariant, BudgetTypeOK, Charge, CountNonce, Increment, Step, Steps, time
<1>2. UNCHANGED <<spent, failOpens, hour>> /\ hour[r] \in BucketHours
  BY DEF BudgetInvariant, BudgetTypeOK, Charge
<1>3. ASSUME NEW h \in BucketHours
      PROVE  Cardinality(Holders(h)') + spent'[h] <= count'[h] + failOpens'[h] /\ count'[h] <= GlobalLimit
  <2>1. /\ count[h] \in Nat /\ spent[h] \in Nat /\ failOpens[h] \in Nat
        /\ Cardinality(Holders(h)) + spent[h] <= count[h] + failOpens[h] /\ count[h] <= GlobalLimit
    BY DEF BudgetInvariant, BudgetTypeOK, UnitsAreCounted, CountIsCapped
  <2>2. CASE count[hour[r]] < LimitOf(r) /\ h = hour[r]
    <3>1. count'[h] = count[h] + 1 /\ count[h] < GlobalLimit
      BY <1>2, <2>1, <2>2 DEF BudgetInvariant, BudgetTypeOK, Charge, Increment, LimitOf
    <3>2. Holders(h)' \subseteq Holders(h) \cup {r}
      BY <1>2 DEF Charge, Step, Holders, BudgetInvariant, BudgetTypeOK
    <3>3. Cardinality(Holders(h)') <= Cardinality(Holders(h)) + 1
          /\ Cardinality(Holders(h)) \in Nat /\ Cardinality(Holders(h)') \in Nat
      BY <3>2, HoldersAreFinite, GrownCardinality
    <3>. QED
      BY <1>2, <2>1, <3>1, <3>3
  <2>3. CASE ~(count[hour[r]] < LimitOf(r) /\ h = hour[r])
    <3>1. count'[h] = count[h]
      BY <1>2, <2>1, <2>3 DEF BudgetInvariant, BudgetTypeOK, Charge, Increment, LimitOf
    <3>2. Holders(h)' \subseteq Holders(h)
      BY <1>2, <2>3 DEF Charge, Step, Holders, BudgetInvariant, BudgetTypeOK, LimitOf
    <3>3. Cardinality(Holders(h)') <= Cardinality(Holders(h))
          /\ Cardinality(Holders(h)) \in Nat /\ Cardinality(Holders(h)') \in Nat
      BY <3>2, HoldersAreFinite, SubsetCardinality
    <3>. QED
      BY <1>2, <2>1, <3>1, <3>3
  <2>. QED
    BY <2>2, <2>3
<1>. QED
  BY <1>1, <1>3 DEF BudgetInvariant, UnitsAreCounted, CountIsCapped, BucketHours, Hour

\* A unit granted while Mongo fails is remembered as such.
LEMMA FailOpenPreserves ==
    ASSUME BudgetInvariant, NEW r \in Readers, FailOpen(r)
    PROVE  BudgetInvariant'
<1>. USE SafeReadsAssumption
<1>1. BudgetTypeOK'
  BY DEF BudgetInvariant, BudgetTypeOK, FailOpen, Increment, Step, Steps, time
<1>2. UNCHANGED <<spent, count, hour>> /\ hour[r] \in BucketHours
  BY DEF BudgetInvariant, BudgetTypeOK, FailOpen
<1>3. ASSUME NEW h \in BucketHours
      PROVE  Cardinality(Holders(h)') + spent'[h] <= count'[h] + failOpens'[h] /\ count'[h] <= GlobalLimit
  <2>1. /\ count[h] \in Nat /\ spent[h] \in Nat /\ failOpens[h] \in Nat
        /\ Cardinality(Holders(h)) + spent[h] <= count[h] + failOpens[h] /\ count[h] <= GlobalLimit
    BY DEF BudgetInvariant, BudgetTypeOK, UnitsAreCounted, CountIsCapped
  <2>2. failOpens'[h] = IF h = hour[r] THEN failOpens[h] + 1 ELSE failOpens[h]
    BY <1>2 DEF FailOpen, Increment, BudgetInvariant, BudgetTypeOK
  <2>3. CASE h = hour[r]
    <3>1. Holders(h)' \subseteq Holders(h) \cup {r}
      BY <1>2 DEF FailOpen, Step, Holders, BudgetInvariant, BudgetTypeOK
    <3>2. Cardinality(Holders(h)') <= Cardinality(Holders(h)) + 1
          /\ Cardinality(Holders(h)) \in Nat /\ Cardinality(Holders(h)') \in Nat
      BY <3>1, HoldersAreFinite, GrownCardinality
    <3>. QED
      BY <1>2, <2>1, <2>2, <2>3, <3>2
  <2>4. CASE h # hour[r]
    <3>1. Holders(h)' \subseteq Holders(h)
      BY <1>2, <2>4 DEF FailOpen, Step, Holders, BudgetInvariant, BudgetTypeOK
    <3>2. Cardinality(Holders(h)') <= Cardinality(Holders(h))
          /\ Cardinality(Holders(h)) \in Nat /\ Cardinality(Holders(h)') \in Nat
      BY <3>1, HoldersAreFinite, SubsetCardinality
    <3>. QED
      BY <1>2, <2>1, <2>2, <2>4, <3>2
  <2>. QED
    BY <2>3, <2>4
<1>. QED
  BY <1>1, <1>3 DEF BudgetInvariant, UnitsAreCounted, CountIsCapped, BucketHours, Hour

\* A holder that spends or returns its unit holds it no longer.
LEMMA LetGoPreserves ==
    ASSUME BudgetInvariant, NEW r \in Readers, ReachUpstream(r) \/ Refund(r)
    PROVE  BudgetInvariant'
<1>. USE SafeReadsAssumption
<1>1. BudgetTypeOK'
  <2>1. CASE ReachUpstream(r)
    BY <2>1 DEF BudgetInvariant, BudgetTypeOK, ReachUpstream, Increment, Step, Steps, time
  <2>2. CASE Refund(r)
    BY <2>2 DEF BudgetInvariant, BudgetTypeOK, Refund, Step, Steps, time, history, budgetHistory
  <2>. QED
    BY <2>1, <2>2
<1>2. UNCHANGED <<failOpens, hour>> /\ hour[r] \in BucketHours
  BY DEF BudgetInvariant, BudgetTypeOK, ReachUpstream, Refund, history, budgetHistory
<1>3. ASSUME NEW h \in BucketHours
      PROVE  Cardinality(Holders(h)') + spent'[h] <= count'[h] + failOpens'[h] /\ count'[h] <= GlobalLimit
  <2>1. /\ count[h] \in Nat /\ spent[h] \in Nat /\ failOpens[h] \in Nat
        /\ Cardinality(Holders(h)) + spent[h] <= count[h] + failOpens[h] /\ count[h] <= GlobalLimit
    BY DEF BudgetInvariant, BudgetTypeOK, UnitsAreCounted, CountIsCapped
  <2>2. CASE h = hour[r]
    <3>1. r \in Holders(h) /\ Holders(h)' \subseteq Holders(h) \ {r}
      BY <1>2, <2>2 DEF ReachUpstream, Refund, Step, Holders, BudgetInvariant, BudgetTypeOK
    <3>2. Cardinality(Holders(h)') + 1 <= Cardinality(Holders(h))
          /\ Cardinality(Holders(h)) \in Nat /\ Cardinality(Holders(h)') \in Nat
      BY <3>1, HoldersAreFinite, ShrunkCardinality
    <3>3. \/ spent'[h] = spent[h] + 1 /\ count'[h] = count[h]
          \/ spent'[h] = spent[h] /\ count'[h] \in {count[h], count[h] - 1}
      BY <1>2, <2>2 DEF ReachUpstream, Refund, Increment, BudgetInvariant, BudgetTypeOK, history, budgetHistory
    <3>. QED
      BY <1>2, <2>1, <3>2, <3>3
  <2>3. CASE h # hour[r]
    <3>1. spent'[h] = spent[h] /\ count'[h] = count[h]
      BY <1>2, <2>3 DEF ReachUpstream, Refund, Increment, BudgetInvariant, BudgetTypeOK, history, budgetHistory
    <3>2. Holders(h)' \subseteq Holders(h)
      BY <1>2, <2>3 DEF ReachUpstream, Refund, Step, Holders, BudgetInvariant, BudgetTypeOK
    <3>3. Cardinality(Holders(h)') <= Cardinality(Holders(h))
          /\ Cardinality(Holders(h)) \in Nat /\ Cardinality(Holders(h)') \in Nat
      BY <3>2, HoldersAreFinite, SubsetCardinality
    <3>. QED
      BY <1>2, <2>1, <3>1, <3>3
  <2>. QED
    BY <2>2, <2>3
<1>. QED
  BY <1>1, <1>3 DEF BudgetInvariant, UnitsAreCounted, CountIsCapped, BucketHours, Hour

\* Nothing is spent at the start.
LEMMA InitBudgetInvariant == Init => BudgetInvariant
<1>. SUFFICES ASSUME Init PROVE BudgetInvariant
  OBVIOUS
<1>0. Hour(0) \in BucketHours
  BY SafeReadsAssumption DEF BucketHours
<1>1. BudgetTypeOK
  BY <1>0, SafeReadsAssumption DEF Init, BudgetTypeOK
<1>2. \A h : Holders(h) = {}
  BY DEF Init, Holders, Idle
<1>3. \A h : Cardinality(Holders(h)) = 0
  BY <1>2, FS_EmptySet
<1>4. \A h \in BucketHours : count[h] = 0 /\ spent[h] = 0 /\ failOpens[h] = 0
  BY DEF Init
<1>5. UnitsAreCounted /\ CountIsCapped
  BY <1>3, <1>4, SafeReadsAssumption DEF UnitsAreCounted, CountIsCapped
<1>. QED
  BY <1>1, <1>5 DEF BudgetInvariant

\* Which steps touch the budget.
LEMMA NextIsClassified ==
    ASSUME Next
    PROVE  Quiet \/ \E r \in Readers : Charge(r) \/ FailOpen(r) \/ ReachUpstream(r) \/ Refund(r)
BY DEF Next, Quiet, FetchStep

\* The units of every bucket stay counted and the counter stays capped.
THEOREM BudgetInvariantHolds == Spec => []BudgetInvariant
<1>1. BudgetInvariant /\ UNCHANGED vars => BudgetInvariant'
  BY DEF BudgetInvariant, BudgetTypeOK, UnitsAreCounted, CountIsCapped, Holders, vars, history, budgetHistory, time
<1>2. BudgetInvariant /\ Next => BudgetInvariant'
  BY NextIsClassified, QuietPreserves, ChargePreserves, FailOpenPreserves, LetGoPreserves
<1>. QED
  BY <1>1, <1>2, InitBudgetInvariant, PTL DEF Spec

\* An hour's bucket never pays for more upstream reads than its limit and the
\* grants made while Mongo was failing, whatever the readers' interleaving.
THEOREM BudgetIsNeverOverspent == Spec => []SpentWithinBudget
<1>1. BudgetInvariant => SpentWithinBudget
  <2>. SUFFICES ASSUME BudgetInvariant, NEW h \in BucketHours
                PROVE  spent[h] <= GlobalLimit + failOpens[h]
    BY DEF SpentWithinBudget
  <2>1. Cardinality(Holders(h)) \in Nat
    BY HoldersAreFinite, FS_CardinalityType
  <2>. QED
    BY <2>1, SafeReadsAssumption DEF BudgetInvariant, BudgetTypeOK, UnitsAreCounted, CountIsCapped
<1>. QED
  BY <1>1, BudgetInvariantHolds, PTL

-----------------------------------------------------------------------------
(* The reserve *)

ReserveInvariant == BudgetTypeOK /\ ReserveIsKept

\* A page read is refused once its share is used up, whoever used it.
LEMMA ChargeKeepsReserve ==
    ASSUME ReserveInvariant, NEW r \in Readers, Charge(r)
    PROVE  ReserveIsKept'
<1>. USE SafeReadsAssumption DEF ReserveInvariant, BudgetTypeOK
<1>. SUFFICES ASSUME NEW h \in BucketHours PROVE count'[h] <= PageLimit + nonceCharges'[h]
  BY DEF ReserveIsKept, BucketHours, Hour
<1>1. count[h] \in Nat /\ nonceCharges[h] \in Nat /\ count[h] <= PageLimit + nonceCharges[h]
  BY DEF ReserveIsKept
<1>2. CASE h = hour[r] /\ count[hour[r]] < LimitOf(r)
  <2>1. count'[h] = count[h] + 1
    BY <1>1, <1>2 DEF Charge, Increment, LimitOf
  <2>2. CASE r \in PageReaders
    <3>1. nonceCharges' = nonceCharges
      BY <1>1, <1>2, <2>2 DEF Charge, CountNonce
    <3>. QED
      BY <1>1, <1>2, <2>1, <2>2, <3>1 DEF LimitOf
  <2>3. CASE r \in NonceReaders
    <3>1. nonceCharges'[h] = nonceCharges[h] + 1
      BY <1>1, <1>2, <2>3 DEF Charge, CountNonce, Increment, LimitOf
    <3>. QED
      BY <1>1, <2>1, <3>1
  <2>. QED
    BY <2>2, <2>3 DEF Readers
<1>3. CASE ~(h = hour[r] /\ count[hour[r]] < LimitOf(r))
  <2>1. count'[h] = count[h] /\ nonceCharges'[h] = nonceCharges[h]
    BY <1>1, <1>3 DEF Charge, CountNonce, Increment, LimitOf
  <2>. QED
    BY <1>1, <2>1
<1>. QED
  BY <1>2, <1>3

\* Page reads never eat the share of the bucket kept for next-nonce reads.
THEOREM ReserveIsNeverEaten == Spec => []ReserveIsKept
<1>1. Init => ReserveInvariant
  <2>. SUFFICES ASSUME Init PROVE ReserveInvariant
    OBVIOUS
  <2>1. \A h \in BucketHours : count[h] = 0 /\ nonceCharges[h] = 0
    BY DEF Init
  <2>. QED
    BY <2>1, InitBudgetInvariant, SafeReadsAssumption DEF ReserveInvariant, ReserveIsKept, BudgetInvariant
<1>2. ReserveInvariant /\ BudgetInvariant' /\ [Next]_vars => ReserveInvariant'
  <2>. SUFFICES ASSUME ReserveInvariant, BudgetInvariant', [Next]_vars PROVE ReserveIsKept'
    BY DEF ReserveInvariant, BudgetInvariant
  <2>1. CASE UNCHANGED vars
    BY <2>1 DEF ReserveInvariant, ReserveIsKept, vars, history, budgetHistory
  <2>2. CASE Quiet
    BY <2>2 DEF ReserveInvariant, ReserveIsKept, Quiet, PageStep, Tick, Change, Purge, Crash, StartPage,
       ReadCache, ReadExpired, JoinOrRead, Write, FailPage, StartNonce, CheckBudget, Answered, Unanswered,
       Drop, FailNonce, history, budgetHistory
  <2>3. ASSUME NEW r \in Readers, FailOpen(r) \/ ReachUpstream(r) \/ Refund(r) PROVE ReserveIsKept'
    <3>1. nonceCharges' = nonceCharges
      BY <2>3 DEF FailOpen, ReachUpstream, Refund, history, budgetHistory
    <3>2. ASSUME NEW h \in BucketHours
          PROVE  count[h] \in Nat /\ nonceCharges[h] \in Nat /\ count'[h] \in {count[h], count[h] - 1}
      BY <2>3 DEF FailOpen, ReachUpstream, Refund, ReserveInvariant, BudgetTypeOK
    <3>3. ASSUME NEW h \in BucketHours PROVE count'[h] <= PageLimit + nonceCharges'[h]
      BY <3>1, <3>2, SafeReadsAssumption DEF ReserveInvariant, ReserveIsKept
    <3>. QED
      BY <3>3 DEF ReserveIsKept, BucketHours, Hour
  <2>. QED
    BY <2>1, <2>2, <2>3, ChargeKeepsReserve, NextIsClassified
<1>3. ReserveInvariant => ReserveIsKept
  BY DEF ReserveInvariant
<1>. QED
  BY <1>1, <1>2, <1>3, BudgetInvariantHolds, PTL DEF Spec

-----------------------------------------------------------------------------
(* The age of pages *)

\* Steps that touch neither the clock nor the service's data.
Reading ==
    \/ Purge
    \/ \E p \in Processes : Crash(p)
    \/ \E r \in PageReaders : StartPage(r) \/ PageStep(r)
    \/ \E r \in NonceReaders : StartNonce(r)
    \/ \E r \in Readers : FetchStep(r)

\* Reads take no time by themselves.
LEMMA ReadingKeepsTime == Reading => UNCHANGED time
BY DEF Reading, PageStep, FetchStep, Purge, Crash, StartPage, ReadCache, ReadExpired, JoinOrRead, Write,
   FailPage, StartNonce, CheckBudget, Charge, FailOpen, ReachUpstream, Answered, Unanswered, Drop, Refund, FailNonce

\* No page claims nothing.
LEMMA NoPageIsHonest == NoPage \in Pages /\ Honest(NoPage)
BY DEF Pages, Honest

\* Time passing makes no page that was honest a lie: the clock only moves
\* forward and the version of a past moment is never rewritten.
LEMMA TimeKeepsHonesty ==
    ASSUME AgeInvariant, Tick \/ Change \/ UNCHANGED time, NEW page \in Pages, Honest(page)
    PROVE  Honest(page)'
<1>. USE SafeReadsAssumption DEF AgeInvariant, PageTypeOK
<1>1. CASE page = NoPage
  BY <1>1 DEF Honest
<1>2. CASE page # NoPage
  <2>1. page.at \in Nat /\ page.at <= clock /\ page.content \in Nat /\ page.content >= versionAt[page.at]
    BY <1>2 DEF Pages, Honest
  <2>2. clock' >= clock /\ clock' \in Nat
    BY DEF Tick, Change, time
  <2>3. versionAt'[page.at] = versionAt[page.at]
    BY <2>1 DEF Tick, Change, time
  <2>. QED
    BY <2>1, <2>2, <2>3 DEF Honest
<1>. QED
  BY <1>1, <1>2

\* Time passing and the service changing make no page newer than it claims.
LEMMA TickKeepsAge ==
    ASSUME AgeInvariant, Tick \/ Change
    PROVE  AgeInvariant'
<1>. USE SafeReadsAssumption
<1>1. UNCHANGED <<cache, start, kept, got, served>>
  BY DEF Tick, Change
<1>2. PageTypeOK'
  <2>1. clock' \in 0 .. MaxTime /\ upstream' \in Nat /\ versionAt' \in [0 .. MaxTime -> Nat]
    <3>1. clock \in 0 .. MaxTime /\ upstream \in Nat /\ versionAt \in [0 .. MaxTime -> Nat]
      BY DEF AgeInvariant, PageTypeOK
    <3>2. CASE Tick
      BY <3>1, <3>2 DEF Tick
    <3>3. CASE Change
      BY <3>1, <3>3 DEF Change
    <3>. QED
      BY <3>2, <3>3
  <2>. QED
    BY <1>1, <2>1 DEF AgeInvariant, PageTypeOK, Pages, NoPage
<1>3. \A t \in 0 .. clock' : versionAt'[t] <= upstream'
  BY DEF Tick, Change, AgeInvariant, PageTypeOK
<1>4. clock <= clock' /\ \A r \in Readers : start'[r] <= clock'
  BY <1>1 DEF Tick, Change, AgeInvariant, PageTypeOK
<1>5. Honest(cache)'
  BY <1>1, TimeKeepsHonesty DEF AgeInvariant, PageTypeOK, Honest
<1>6. ASSUME NEW r \in Readers PROVE Honest(kept[r])' /\ Honest(got[r])' /\ Honest(served[r].page)'
  <2>1. kept[r] \in Pages /\ got[r] \in Pages /\ served[r].page \in Pages
    BY DEF AgeInvariant, PageTypeOK
  <2>. QED
    BY <1>1, <2>1, TimeKeepsHonesty DEF AgeInvariant, Honest
<1>. QED
  BY <1>2, <1>3, <1>4, <1>5, <1>6 DEF AgeInvariant

\* Where every page of a read comes from, while time stands still.
HonestPages == {page \in Pages : Honest(page)}

PagesAreHonest ==
    /\ cache \in HonestPages
    /\ start \in [Readers -> 0 .. clock]
    /\ kept \in [Readers -> HonestPages] /\ got \in [Readers -> HonestPages]
    /\ served \in [Readers -> [page : HonestPages, stale : BOOLEAN]]

\* What a fetch that began at s is answered is at least the version of s.
LEMMA FetchedPageIsHonest ==
    ASSUME AgeInvariant, NEW s \in 0 .. clock
    PROVE  [at |-> s, content |-> upstream] \in HonestPages
<1>1. clock \in Nat /\ upstream \in Nat /\ s \in Nat /\ s <= clock
  BY SafeReadsAssumption DEF AgeInvariant, PageTypeOK
<1>2. [at |-> s, content |-> upstream] \in Pages
  BY <1>1 DEF Pages
<1>3. versionAt[s] <= upstream /\ versionAt[s] \in Nat
  BY <1>1, SafeReadsAssumption DEF AgeInvariant, PageTypeOK
<1>. QED
  BY <1>1, <1>2, <1>3 DEF HonestPages, Honest

\* All pages of the invariant are honest.
LEMMA AgeInvariantPages == AgeInvariant => PagesAreHonest
BY SafeReadsAssumption DEF AgeInvariant, PageTypeOK, PagesAreHonest, HonestPages

\* A step of a reader, of a crash or of the TTL worker moves honest pages around.
LEMMA ReadingMovesPages ==
    ASSUME AgeInvariant, Reading
    PROVE  /\ cache' \in HonestPages
           /\ start' \in [Readers -> 0 .. clock]
           /\ kept' \in [Readers -> HonestPages] /\ got' \in [Readers -> HonestPages]
           /\ served' \in [Readers -> [page : HonestPages, stale : BOOLEAN]]
<1>. DEFINE Moved == /\ cache' \in HonestPages
                     /\ start' \in [Readers -> 0 .. clock]
                     /\ kept' \in [Readers -> HonestPages] /\ got' \in [Readers -> HonestPages]
                     /\ served' \in [Readers -> [page : HonestPages, stale : BOOLEAN]]
<1>1. PagesAreHonest
  BY AgeInvariantPages
<1>2. NoPage \in HonestPages
  BY NoPageIsHonest DEF HonestPages
<1>3. clock \in Nat /\ PageReaders \subseteq Readers /\ NonceReaders \subseteq Readers
  BY SafeReadsAssumption DEF AgeInvariant, PageTypeOK, Readers
<1>. USE <1>1, <1>2, <1>3 DEF PagesAreHonest
<1>4. CASE Purge
  BY <1>4 DEF Purge
<1>5. ASSUME NEW p \in Processes, Crash(p) PROVE Moved
  BY <1>5 DEF Crash
<1>6. ASSUME NEW r \in PageReaders, StartPage(r) PROVE Moved
  BY <1>6 DEF StartPage, Serve
<1>7. ASSUME NEW r \in PageReaders, ReadCache(r) PROVE Moved
  <2>1. cache' = cache /\ got' = got
    BY <1>7 DEF ReadCache
  <2>2. kept' = kept \/ kept' = [kept EXCEPT ![r] = cache]
    BY <1>7 DEF ReadCache
  <2>3. start' = start \/ start' = [start EXCEPT ![r] = 0]
    BY <1>7 DEF ReadCache
  <2>4. served' = served \/ served' = [served EXCEPT ![r] = [page |-> cache, stale |-> FALSE]]
    BY <1>7 DEF ReadCache, Serve
  <2>5. kept' \in [Readers -> HonestPages]
    BY <2>2
  <2>6. start' \in [Readers -> 0 .. clock]
    BY <2>3
  <2>7. served' \in [Readers -> [page : HonestPages, stale : BOOLEAN]]
    <3>1. [page |-> cache, stale |-> FALSE] \in [page : HonestPages, stale : BOOLEAN]
      OBVIOUS
    <3>. QED
      BY <2>4, <3>1
  <2>. QED
    BY <2>1, <2>5, <2>6, <2>7
<1>8. ASSUME NEW r \in PageReaders, ReadExpired(r) \/ JoinOrRead(r) PROVE Moved
  BY <1>8 DEF ReadExpired, JoinOrRead
<1>9. ASSUME NEW r \in PageReaders, Write(r) PROVE Moved
  BY <1>9 DEF Write, Settle
<1>10. ASSUME NEW r \in PageReaders, FailPage(r) PROVE Moved
  BY <1>10 DEF FailPage, Settle
<1>11. ASSUME NEW r \in NonceReaders, StartNonce(r) PROVE Moved
  BY <1>11 DEF StartNonce
<1>12. ASSUME NEW r \in Readers, Answered(r) PROVE Moved
  <2>1. [at |-> start[r], content |-> upstream] \in HonestPages
    BY FetchedPageIsHonest
  <2>. QED
    BY <1>12, <2>1 DEF Answered
<1>13. ASSUME NEW r \in Readers,
              CheckBudget(r) \/ Charge(r) \/ FailOpen(r) \/ ReachUpstream(r) \/ Unanswered(r) \/ Drop(r)
                \/ Refund(r) \/ FailNonce(r)
       PROVE  Moved
  BY <1>13 DEF CheckBudget, Charge, FailOpen, ReachUpstream, Unanswered, Drop, Refund, FailNonce
<1>. QED
  BY <1>4, <1>5, <1>6, <1>7, <1>8, <1>9, <1>10, <1>11, <1>12, <1>13 DEF Reading, PageStep, FetchStep

\* Steps of the readers hand on honest pages and fetch honest ones.
LEMMA ReadingKeepsAge ==
    ASSUME AgeInvariant, Reading
    PROVE  AgeInvariant'
<1>1. UNCHANGED <<clock, upstream, versionAt>>
  BY ReadingKeepsTime DEF time
<1>2. /\ cache' \in HonestPages
      /\ start' \in [Readers -> 0 .. clock]
      /\ kept' \in [Readers -> HonestPages] /\ got' \in [Readers -> HonestPages]
      /\ served' \in [Readers -> [page : HonestPages, stale : BOOLEAN]]
  BY ReadingMovesPages
<1>3. clock \in 0 .. MaxTime /\ clock \in Nat /\ MaxTime \in Nat
  BY SafeReadsAssumption DEF AgeInvariant, PageTypeOK
<1>4. PageTypeOK'
  <2>1. HonestPages \subseteq Pages
    BY DEF HonestPages
  <2>2. 0 .. clock \subseteq 0 .. MaxTime
    BY <1>3
  <2>3. cache' \in Pages /\ kept' \in [Readers -> Pages] /\ got' \in [Readers -> Pages]
        /\ start' \in [Readers -> 0 .. MaxTime] /\ served' \in [Readers -> [page : Pages, stale : BOOLEAN]]
    BY <1>2, <2>1, <2>2
  <2>. QED
    BY <1>1, <2>3 DEF AgeInvariant, PageTypeOK, Pages, NoPage
<1>5. \A page \in HonestPages : Honest(page)'
  BY <1>1 DEF HonestPages, Honest
<1>6. Honest(cache)'
  BY <1>1, <1>2 DEF HonestPages, Honest
<1>7. ASSUME NEW r \in Readers
      PROVE  (start[r] <= clock)' /\ Honest(kept[r])' /\ Honest(got[r])' /\ Honest(served[r].page)'
  <2>1. kept'[r] \in HonestPages /\ got'[r] \in HonestPages /\ served'[r].page \in HonestPages
        /\ start'[r] \in 0 .. clock
    BY <1>2
  <2>. QED
    BY <1>1, <1>3, <2>1 DEF HonestPages, Honest
<1>. QED
  BY <1>1, <1>4, <1>6, <1>7 DEF AgeInvariant

\* There is no page at the start.
LEMMA InitAgeInvariant == Init => AgeInvariant
<1>. SUFFICES ASSUME Init PROVE AgeInvariant
  OBVIOUS
<1>1. PageTypeOK
  BY NoPageIsHonest, SafeReadsAssumption DEF Init, PageTypeOK
<1>. QED
  BY <1>1, NoPageIsHonest, SafeReadsAssumption DEF Init, AgeInvariant

\* A page is at least as recent as the moment it claims to be fetched at, for
\* every cache lifetime, stale window and interleaving of reads and changes,
\* and so are the pages that reads hold in the meantime.
THEOREM AgeInvariantHolds == Spec => []AgeInvariant
<1>1. AgeInvariant /\ UNCHANGED vars => AgeInvariant'
  BY DEF AgeInvariant, PageTypeOK, Honest, Pages, NoPage, vars, time
<1>2. AgeInvariant /\ Next => AgeInvariant'
  BY TickKeepsAge, ReadingKeepsAge DEF Next, Reading
<1>. QED
  BY <1>1, <1>2, InitAgeInvariant, PTL DEF Spec

\* The fetchedAt of a cached or answered page never claims more than its
\* content: syncStore may order pages by it.
THEOREM AgesAreHonest == Spec => []AgeIsHonest
<1>1. AgeInvariant => AgeIsHonest
  BY DEF AgeInvariant, AgeIsHonest, Readers
<1>. QED
  BY <1>1, AgeInvariantHolds, PTL

-----------------------------------------------------------------------------
(* One open read per process and key *)

KeysTypeOK ==
    /\ pc \in [Readers -> Steps \cup {Idle}]
    /\ inFlight \in [Processes -> PageReaders \cup {Idle}]
    /\ joined \in [Readers -> Readers]

KeysInvariant == KeysTypeOK /\ OneReadPerKey /\ InFlightIsOpen

\* Page readers and next-nonce readers are distinct, each in a process.
LEMMA ReadersAreReaders ==
    /\ PageReaders \subseteq Readers /\ NonceReaders \subseteq Readers /\ Idle \notin Readers
    /\ PageReaders \cap NonceReaders = {}
    /\ \A r \in Readers : ProcessOf[r] \in Processes
    /\ Idle \notin ReadingSteps /\ "joined" \notin ReadingSteps /\ ReadingSteps \subseteq Steps
BY SafeReadsAssumption DEF Readers, Processes, Idle, ReadingSteps, Steps

\* A step that only moves one reader between steps that hold the promise, or
\* between steps that do not, changes nobody's promise.
LEMMA MoveKeepsKeys ==
    ASSUME KeysInvariant, UNCHANGED <<inFlight, joined>>,
           NEW r \in Readers, NEW to \in Steps \cup {Idle}, to # "joined", pc[r] # "joined",
           pc' = [pc EXCEPT ![r] = to],
           r \in PageReaders => (pc[r] \in ReadingSteps <=> to \in ReadingSteps)
    PROVE  KeysInvariant'
<1>. USE ReadersAreReaders DEF KeysInvariant, KeysTypeOK
<1>1. KeysTypeOK'
  BY DEF Steps, Idle
<1>2. \A q \in PageReaders : pc'[q] \in ReadingSteps <=> pc[q] \in ReadingSteps
  OBVIOUS
<1>3. \A q \in PageReaders : pc'[q] = "joined" <=> pc[q] = "joined"
  OBVIOUS
<1>4. \A q \in PageReaders : pc[q] = "joined" => joined[q] \in PageReaders
  BY DEF OneReadPerKey
<1>5. OneReadPerKey'
  BY <1>2, <1>3, <1>4 DEF OneReadPerKey, ReadingSteps
<1>6. InFlightIsOpen'
  BY <1>2 DEF InFlightIsOpen, ReadingSteps, Processes, Idle, Readers
<1>. QED
  BY <1>1, <1>5, <1>6

\* A read that goes on stays the one its process has open.
LEMMA FetchKeepsKeys ==
    ASSUME KeysInvariant, NEW r \in Readers, FetchStep(r) \/ (r \in NonceReaders /\ StartNonce(r))
    PROVE  KeysInvariant'
<1>1. PICK to \in Steps \cup {Idle} :
        /\ to # "joined" /\ pc[r] # "joined" /\ pc' = [pc EXCEPT ![r] = to]
        /\ r \in PageReaders => (pc[r] \in ReadingSteps <=> to \in ReadingSteps)
  <2>. USE ReadersAreReaders DEF Step, Steps, Idle, ReadingSteps
  <2>1. CASE CheckBudget(r)
    BY <2>1 DEF CheckBudget
  <2>2. CASE Charge(r)
    BY <2>2 DEF Charge
  <2>3. CASE FailOpen(r) \/ ReachUpstream(r)
    BY <2>3 DEF FailOpen, ReachUpstream
  <2>4. CASE Answered(r)
    BY <2>4 DEF Answered
  <2>5. CASE Unanswered(r) \/ Drop(r) \/ Refund(r)
    BY <2>5 DEF Unanswered, Drop, Refund
  <2>6. CASE FailNonce(r) \/ (r \in NonceReaders /\ StartNonce(r))
    BY <2>6 DEF FailNonce, StartNonce
  <2>. QED
    BY <2>1, <2>2, <2>3, <2>4, <2>5, <2>6 DEF FetchStep
<1>2. UNCHANGED <<inFlight, joined>>
  BY DEF FetchStep, CheckBudget, Charge, FailOpen, ReachUpstream, Answered, Unanswered, Drop, Refund, FailNonce,
     StartNonce
<1>. QED
  BY <1>1, <1>2, MoveKeepsKeys

\* Up to the join a page reader holds no promise.
LEMMA ApproachKeepsKeys ==
    ASSUME KeysInvariant, NEW r \in PageReaders, StartPage(r) \/ ReadCache(r) \/ ReadExpired(r)
    PROVE  KeysInvariant'
<1>1. PICK to \in Steps \cup {Idle} :
        /\ to # "joined" /\ pc[r] # "joined" /\ pc' = [pc EXCEPT ![r] = to]
        /\ pc[r] \notin ReadingSteps /\ to \notin ReadingSteps
  <2>. USE DEF Step, Steps, Idle, ReadingSteps
  <2>1. CASE StartPage(r)
    BY <2>1 DEF StartPage
  <2>2. CASE ReadCache(r)
    BY <2>2 DEF ReadCache
  <2>3. CASE ReadExpired(r)
    BY <2>3 DEF ReadExpired
  <2>. QED
    BY <2>1, <2>2, <2>3
<1>2. UNCHANGED <<inFlight, joined>>
  BY DEF StartPage, ReadCache, ReadExpired
<1>. QED
  BY <1>1, <1>2, MoveKeepsKeys, ReadersAreReaders

\* Either the promise found is open and becomes the reader's, or none is and
\* the reader's own goes into the map in the same step.
LEMMA JoinKeepsKeys ==
    ASSUME KeysInvariant, NEW r \in PageReaders, JoinOrRead(r)
    PROVE  KeysInvariant'
<1>. DEFINE p == ProcessOf[r]
<1>. USE ReadersAreReaders DEF KeysInvariant, KeysTypeOK
<1>1. p \in Processes /\ r \in Readers
  OBVIOUS
<1>2. \A q \in PageReaders : pc[q] = "joined" => joined[q] \in PageReaders
  BY DEF OneReadPerKey
<1>3. CASE inFlight[p] # Idle /\ Step(r, "join", "joined") /\ joined' = [joined EXCEPT ![r] = inFlight[p]]
           /\ inFlight' = inFlight
  <2>1. inFlight[p] \in PageReaders /\ pc[inFlight[p]] \in ReadingSteps /\ inFlight[p] # r
    BY <1>1, <1>3 DEF InFlightIsOpen, Step, ReadingSteps
  <2>2. KeysTypeOK'
    BY <1>1, <1>3, <2>1 DEF Step, Steps, Idle
  <2>3. \A q \in Readers : pc'[q] = IF q = r THEN "joined" ELSE pc[q]
    BY <1>3 DEF Step
  <2>4. pc[r] \notin ReadingSteps /\ "joined" \notin ReadingSteps
    BY <1>3 DEF Step, ReadingSteps
  <2>5. OneReadPerKey'
    <3>. SUFFICES ASSUME NEW q \in PageReaders
                  PROVE  /\ pc'[q] \in ReadingSteps => inFlight'[ProcessOf[q]] = q
                         /\ pc'[q] = "joined" => inFlight'[ProcessOf[q]] = joined'[q]
                                                 /\ pc'[joined'[q]] \in ReadingSteps
      BY DEF OneReadPerKey, ReadingSteps
    <3>1. CASE q = r
      BY <1>3, <2>1, <2>3, <2>4, <3>1
    <3>2. CASE q # r
      BY <1>2, <1>3, <2>3, <2>4, <3>2 DEF OneReadPerKey
    <3>. QED
      BY <3>1, <3>2
  <2>6. InFlightIsOpen'
    BY <1>3, <2>3, <2>4 DEF InFlightIsOpen, Processes, Readers, Idle, ReadingSteps
  <2>. QED
    BY <2>2, <2>5, <2>6
<1>4. CASE inFlight[p] = Idle /\ Step(r, "join", "checkBudget") /\ inFlight' = [inFlight EXCEPT ![p] = r]
           /\ joined' = joined
  <2>1. KeysTypeOK'
    BY <1>1, <1>4 DEF Step, Steps, Idle
  <2>2. \A q \in Readers : pc'[q] = IF q = r THEN "checkBudget" ELSE pc[q]
    BY <1>4 DEF Step
  <2>3. "checkBudget" \in ReadingSteps /\ pc[r] \notin ReadingSteps /\ pc[r] # "joined"
    BY <1>4 DEF Step, ReadingSteps
  <2>4. \A o \in Processes : inFlight'[o] = IF o = p THEN r ELSE inFlight[o]
    BY <1>1, <1>4
  <2>5. OneReadPerKey'
    <3>. SUFFICES ASSUME NEW q \in PageReaders
                  PROVE  /\ pc'[q] \in ReadingSteps => inFlight'[ProcessOf[q]] = q
                         /\ pc'[q] = "joined" => inFlight'[ProcessOf[q]] = joined'[q]
                                                 /\ pc'[joined'[q]] \in ReadingSteps
      BY DEF OneReadPerKey, ReadingSteps
    <3>1. CASE q = r
      BY <2>2, <2>3, <2>4, <3>1
    <3>2. CASE q # r
      <4>1. pc'[q] = pc[q] /\ (pc[q] \in ReadingSteps => inFlight[ProcessOf[q]] = q)
        BY <2>2, <3>2 DEF OneReadPerKey
      <4>2. pc[q] \in ReadingSteps => ProcessOf[q] # p
        BY <1>4, <4>1
      <4>3. pc[q] = "joined" => /\ inFlight[ProcessOf[q]] = joined[q] /\ pc[joined[q]] \in ReadingSteps
                                /\ joined[q] \in PageReaders
        BY <1>2 DEF OneReadPerKey
      <4>4. pc[q] = "joined" => ProcessOf[q] # p /\ joined[q] # r
        BY <1>4, <2>3, <4>3
      <4>. QED
        BY <1>4, <2>2, <2>4, <4>1, <4>2, <4>3, <4>4
    <3>. QED
      BY <3>1, <3>2
  <2>6. InFlightIsOpen'
    <3>. SUFFICES ASSUME NEW o \in Processes, inFlight'[o] # Idle
                  PROVE  ProcessOf[inFlight'[o]] = o /\ pc'[inFlight'[o]] \in ReadingSteps
      BY DEF InFlightIsOpen, Processes, Readers, Idle, ReadingSteps
    <3>1. CASE o = p
      BY <2>2, <2>3, <2>4, <3>1
    <3>2. CASE o # p
      BY <2>2, <2>3, <2>4, <3>2 DEF InFlightIsOpen
    <3>. QED
      BY <3>1, <3>2
  <2>. QED
    BY <2>1, <2>5, <2>6
<1>. QED
  BY <1>3, <1>4 DEF JoinOrRead

\* Whoever awaits the promise goes with it, and nobody else does.
LEMMA SettleKeepsKeys ==
    ASSUME KeysInvariant, NEW r \in PageReaders, Write(r) \/ FailPage(r)
    PROVE  KeysInvariant'
<1>. DEFINE p == ProcessOf[r]
<1>. USE ReadersAreReaders DEF KeysInvariant, KeysTypeOK
<1>1. p \in Processes /\ r \in Readers /\ pc[r] \in ReadingSteps
  BY DEF Write, FailPage, ReadingSteps
<1>2. /\ pc' = [q \in Readers |-> IF q \in Waiting(r) THEN Idle ELSE pc[q]]
      /\ inFlight' = [inFlight EXCEPT ![p] = Idle]
      /\ joined' = [q \in Readers |-> IF q \in Waiting(r) THEN q ELSE joined[q]]
  BY DEF Write, FailPage, Settle
<1>3. inFlight[p] = r
  BY <1>1 DEF OneReadPerKey
<1>4. KeysTypeOK'
  BY <1>1, <1>2
<1>5. \A o \in Processes : inFlight'[o] = IF o = p THEN Idle ELSE inFlight[o]
  BY <1>1, <1>2
<1>6. \A q \in PageReaders : pc[q] = "joined" => /\ inFlight[ProcessOf[q]] = joined[q]
                                                 /\ pc[joined[q]] \in ReadingSteps
                                                 /\ joined[q] \in PageReaders
  BY DEF OneReadPerKey
<1>7. OneReadPerKey'
  <2>. SUFFICES ASSUME NEW q \in PageReaders
                PROVE  /\ pc'[q] \in ReadingSteps => inFlight'[ProcessOf[q]] = q
                       /\ pc'[q] = "joined" => inFlight'[ProcessOf[q]] = joined'[q]
                                               /\ pc'[joined'[q]] \in ReadingSteps
    BY DEF OneReadPerKey, ReadingSteps
  <2>1. CASE q \in Waiting(r)
    BY <1>2, <2>1 DEF Idle, ReadingSteps
  <2>2. CASE q \notin Waiting(r)
    <3>1. q # r /\ pc'[q] = pc[q] /\ joined'[q] = joined[q]
      BY <1>2, <2>2 DEF Waiting
    <3>2. pc[q] \in ReadingSteps => ProcessOf[q] # p /\ inFlight[ProcessOf[q]] = q
      BY <1>3, <3>1 DEF OneReadPerKey
    <3>3. ASSUME pc[q] = "joined" PROVE inFlight'[ProcessOf[q]] = joined[q] /\ pc'[joined[q]] \in ReadingSteps
      <4>1. joined[q] # r /\ ProcessOf[q] # p
        BY <1>3, <1>6, <2>2, <3>3 DEF Waiting
      <4>2. joined[q] \notin Waiting(r)
        BY <1>6, <3>3, <4>1 DEF Waiting, ReadingSteps
      <4>. QED
        BY <1>2, <1>5, <1>6, <3>3, <4>1, <4>2
    <3>. QED
      BY <1>5, <3>1, <3>2, <3>3
  <2>. QED
    BY <2>1, <2>2
<1>8. InFlightIsOpen'
  <2>. SUFFICES ASSUME NEW o \in Processes, inFlight'[o] # Idle
                PROVE  ProcessOf[inFlight'[o]] = o /\ pc'[inFlight'[o]] \in ReadingSteps
    BY DEF InFlightIsOpen, Processes, Readers, Idle, ReadingSteps
  <2>1. o # p /\ inFlight'[o] = inFlight[o] /\ inFlight[o] \in PageReaders
    BY <1>5
  <2>2. ProcessOf[inFlight[o]] = o /\ pc[inFlight[o]] \in ReadingSteps
    BY <2>1 DEF InFlightIsOpen
  <2>3. inFlight[o] \notin Waiting(r)
    BY <2>1, <2>2 DEF Waiting, ReadingSteps
  <2>. QED
    BY <1>2, <2>1, <2>2, <2>3
<1>. QED
  BY <1>4, <1>7, <1>8

\* A crash takes a process's readers and its map together.
LEMMA CrashKeepsKeys ==
    ASSUME KeysInvariant, NEW p \in Processes, Crash(p)
    PROVE  KeysInvariant'
<1>. USE ReadersAreReaders DEF KeysInvariant, KeysTypeOK
<1>1. /\ \A q \in Readers : pc'[q] = IF ProcessOf[q] = p THEN Idle ELSE pc[q]
      /\ \A o \in Processes : inFlight'[o] = IF o = p THEN Idle ELSE inFlight[o]
      /\ \A q \in Readers : joined'[q] = IF ProcessOf[q] = p THEN q ELSE joined[q]
  BY DEF Crash
<1>2. KeysTypeOK'
  BY DEF Crash
<1>3. OneReadPerKey'
  <2>. SUFFICES ASSUME NEW q \in PageReaders
                PROVE  /\ pc'[q] \in ReadingSteps => inFlight'[ProcessOf[q]] = q
                       /\ pc'[q] = "joined" => inFlight'[ProcessOf[q]] = joined'[q]
                                               /\ pc'[joined'[q]] \in ReadingSteps
    BY DEF OneReadPerKey, ReadingSteps
  <2>1. CASE ProcessOf[q] = p
    BY <1>1, <2>1 DEF Idle, ReadingSteps
  <2>2. CASE ProcessOf[q] # p
    <3>1. ASSUME pc[q] = "joined" PROVE joined[q] \in PageReaders /\ ProcessOf[joined[q]] = ProcessOf[q]
      BY <3>1 DEF OneReadPerKey, InFlightIsOpen
    <3>. QED
      BY <1>1, <2>2, <3>1 DEF OneReadPerKey
  <2>. QED
    BY <2>1, <2>2
<1>4. InFlightIsOpen'
  <2>. SUFFICES ASSUME NEW o \in Processes, inFlight'[o] # Idle
                PROVE  ProcessOf[inFlight'[o]] = o /\ pc'[inFlight'[o]] \in ReadingSteps
    BY DEF InFlightIsOpen, Processes, Readers, Idle, ReadingSteps
  <2>. QED
    BY <1>1 DEF InFlightIsOpen
<1>. QED
  BY <1>2, <1>3, <1>4

\* KeysInvariant is inductive.
LEMMA NextKeepsKeys == KeysInvariant /\ [Next]_vars => KeysInvariant'
<1>. SUFFICES ASSUME KeysInvariant, [Next]_vars PROVE KeysInvariant'
  OBVIOUS
<1>1. CASE Tick \/ Change \/ Purge \/ UNCHANGED vars
  <2>1. UNCHANGED <<pc, inFlight, joined>>
    BY <1>1 DEF Tick, Change, Purge, vars
  <2>. QED
    BY <2>1 DEF KeysInvariant, KeysTypeOK, OneReadPerKey, InFlightIsOpen
<1>. QED
  BY <1>1, CrashKeepsKeys, ApproachKeepsKeys, JoinKeepsKeys, SettleKeepsKeys, FetchKeepsKeys, ReadersAreReaders
  DEF Next, PageStep

\* No read is open at the start.
LEMMA InitKeysInvariant == Init => KeysInvariant
BY ReadersAreReaders DEF Init, KeysInvariant, KeysTypeOK, OneReadPerKey, InFlightIsOpen, Idle, ReadingSteps, Steps

\* The reads of all processes keep their types, the budget, the pages' ages and
\* one open read per process and key, in every interleaving and through crashes.
THEOREM ReadsInvariantHolds == Spec => []ReadsInvariant
<1>1. Spec => []KeysInvariant
  BY InitKeysInvariant, NextKeepsKeys, PTL DEF Spec
<1>2. KeysInvariant /\ BudgetInvariant /\ AgeInvariant => ReadsInvariant
  BY DEF KeysInvariant, KeysTypeOK, BudgetInvariant, AgeInvariant, ReadsInvariant, TypeOK
<1>. QED
  BY <1>1, <1>2, BudgetInvariantHolds, AgeInvariantHolds, PTL
=============================================================================
