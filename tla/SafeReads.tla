------------------------------ MODULE SafeReads -----------------------------
(***************************************************************************)
(* Page reads and next-nonce reads of the Safe Transaction Service: the    *)
(* shared Mongo cache, the in-process join of equal reads, the hourly      *)
(* budget with its refund, and the stale answer when a read fails.         *)
(*                                                                         *)
(* A reader is one call of _readCachedPage (for one cache key) or of       *)
(* _fetchPage by the next-nonce scan.  Readers of one process share the    *)
(* inFlight map; all processes share the cache and the counter.  A page is *)
(* abstracted to the moment it claims to have been fetched at and to the   *)
(* version of the service's data it holds.                                 *)
(***************************************************************************)
EXTENDS Integers, FiniteSets

CONSTANTS
    PageReaders,   \* calls of _readCachedPage
    BypassReaders, \* those among them that set bypassCache
    NonceReaders,  \* pages of a next-nonce scan
    ProcessOf,     \* the process a reader runs in
    GlobalLimit,   \* BUDGET_GLOBAL_PER_HOUR
    PageLimit,     \* its floor(BUDGET_PAGE_SHARE) part
    HourBucket,    \* the budget bucket of each time of the clock
    CacheTtl, StaleWindow,
    MaxTime,       \* bound on the clock
    MaxVersion,    \* bound on changes of the service's data
    MaxReads,      \* bound on reads started
    MaxFailOpens,  \* bound on failures of Mongo at the budget gate
    MaxCrashes     \* bound on process crashes

Readers == PageReaders \cup NonceReaders
Processes == {ProcessOf[r] : r \in Readers}
Idle == "idle"

ASSUME SafeReadsAssumption ==
    /\ IsFiniteSet(Readers)
    /\ PageReaders \cap NonceReaders = {} /\ BypassReaders \subseteq PageReaders
    /\ Idle \notin Readers
    /\ GlobalLimit \in Nat /\ PageLimit \in Nat /\ PageLimit <= GlobalLimit
    /\ CacheTtl \in Nat /\ StaleWindow \in Nat
    /\ MaxTime \in Nat /\ MaxVersion \in Nat /\ MaxReads \in Nat
    /\ MaxFailOpens \in Nat /\ MaxCrashes \in Nat

Hour(t) == HourBucket[t]
BucketHours == {Hour(t) : t \in 0 .. MaxTime}

\* Mutation: page reads may spend the whole bucket.
UndividedLimit(r) == GlobalLimit

\* effectiveLimit
LimitOf(r) == IF r \in PageReaders THEN PageLimit ELSE GlobalLimit

NoPage == [at |-> -1, content |-> -1]

VARIABLES
    clock, upstream,            \* the time, the version of the service's data
    versionAt,                  \* history: upstream when the clock reached a time
    cache,                      \* the cached page of the key, or NoPage
    inFlight,                   \* process -> the reader whose promise is in the map, or Idle
    count,                      \* hour -> the counter of the bucket
    pc, start, hour, kept, got, \* per reader: its step, now, the bucket of chargedAt,
                                \* the page to fall back on and the page read
    joined,                     \* per reader: whose promise it awaits
    served,                     \* per reader: the page answered, with its stale flag
    spent, failOpens, nonceCharges, \* history: upstream reads, uncounted grants, nonce grants by hour
    reads, crashes              \* reads started, crashes so far

time == <<clock, upstream, versionAt>>
budgetHistory == <<spent, failOpens, nonceCharges>>
history == <<budgetHistory, reads, crashes>>
vars == <<time, cache, inFlight, count, pc, start, hour, kept, got, joined, served, history>>

Init ==
    /\ clock = 0 /\ upstream = 0
    /\ versionAt = [t \in 0 .. MaxTime |-> 0]
    /\ cache = NoPage
    /\ inFlight = [p \in Processes |-> Idle]
    /\ count = [h \in BucketHours |-> 0]
    /\ spent = count /\ failOpens = count /\ nonceCharges = count
    /\ pc = [r \in Readers |-> Idle]
    /\ start = [r \in Readers |-> 0] /\ hour = [r \in Readers |-> Hour(0)]
    /\ kept = [r \in Readers |-> NoPage] /\ got = kept
    /\ joined = [r \in Readers |-> r]
    /\ served = [r \in Readers |-> [page |-> NoPage, stale |-> FALSE]]
    /\ reads = 0 /\ crashes = 0

Step(r, from, to) == pc[r] = from /\ pc' = [pc EXCEPT ![r] = to]

-----------------------------------------------------------------------------
(* The service, the clock and Mongo's TTL worker: external. *)

Tick ==
    /\ clock < MaxTime
    /\ clock' = clock + 1
    /\ versionAt' = [versionAt EXCEPT ![clock + 1] = upstream]
    /\ UNCHANGED <<upstream, cache, inFlight, count, pc, start, hour, kept, got, joined, served, history>>

Change ==
    /\ upstream < MaxVersion
    /\ upstream' = upstream + 1
    /\ UNCHANGED <<clock, versionAt, cache, inFlight, count, pc, start, hour, kept, got, joined, served, history>>

Expired(page, now) == page # NoPage /\ page.at + CacheTtl <= now
Purgeable(page, now) == page # NoPage /\ page.at + CacheTtl + StaleWindow <= now

Purge ==
    /\ Purgeable(cache, clock)
    /\ cache' = NoPage
    /\ UNCHANGED <<time, inFlight, count, pc, start, hour, kept, got, joined, served, history>>

\* A process stops: its readers and its inFlight map are gone, Mongo keeps the rest.
\* An idle process has nothing to lose.
Crash(p) ==
    /\ crashes < MaxCrashes /\ \E r \in Readers : ProcessOf[r] = p /\ pc[r] # Idle
    /\ crashes' = crashes + 1
    /\ inFlight' = [inFlight EXCEPT ![p] = Idle]
    /\ pc' = [r \in Readers |-> IF ProcessOf[r] = p THEN Idle ELSE pc[r]]
    /\ start' = [r \in Readers |-> IF ProcessOf[r] = p THEN 0 ELSE start[r]]
    /\ kept' = [r \in Readers |-> IF ProcessOf[r] = p THEN NoPage ELSE kept[r]]
    /\ got' = [r \in Readers |-> IF ProcessOf[r] = p THEN NoPage ELSE got[r]]
    /\ joined' = [r \in Readers |-> IF ProcessOf[r] = p THEN r ELSE joined[r]]
    /\ served' = [r \in Readers |-> IF ProcessOf[r] = p THEN [page |-> NoPage, stale |-> FALSE] ELSE served[r]]
    /\ UNCHANGED <<time, cache, count, hour, budgetHistory, reads>>

-----------------------------------------------------------------------------
(* _readCachedPage, up to the upstream read *)

Serve(r, page, stale) == served' = [served EXCEPT ![r] = [page |-> page, stale |-> stale]]

StartPage(r) ==
    /\ IF r \in BypassReaders THEN Step(r, Idle, "readExpired") ELSE Step(r, Idle, "readCache")
    /\ start' = [start EXCEPT ![r] = clock]
    /\ kept' = [kept EXCEPT ![r] = NoPage]
    /\ Serve(r, NoPage, FALSE)
    /\ reads < MaxReads /\ reads' = reads + 1
    /\ UNCHANGED <<time, cache, inFlight, count, hour, got, joined, budgetHistory, crashes>>

\* SafeCache.read: a fresh page is the answer, a stale one is kept; a failed read finds nothing.
ReadCache(r) ==
    /\ \/ /\ cache # NoPage /\ ~Expired(cache, start[r])
          /\ Step(r, "readCache", Idle)
          /\ Serve(r, cache, FALSE)
          /\ start' = [start EXCEPT ![r] = 0]
          /\ UNCHANGED kept
       \/ /\ Expired(cache, start[r]) /\ ~Purgeable(cache, start[r])
          /\ Step(r, "readCache", "join")
          /\ kept' = [kept EXCEPT ![r] = cache]
          /\ UNCHANGED <<start, served>>
       \/ /\ Step(r, "readCache", "readExpired")
          /\ UNCHANGED <<start, kept, served>>
    /\ UNCHANGED <<time, cache, inFlight, count, hour, got, joined, history>>

ReadExpired(r) ==
    /\ Step(r, "readExpired", "join")
    /\ \/ Expired(cache, start[r]) /\ kept' = [kept EXCEPT ![r] = cache]
       \/ UNCHANGED kept
    /\ UNCHANGED <<time, cache, inFlight, count, start, hour, got, joined, served, history>>

\* inFlight.get and inFlight.set run without an await between them; the read that
\* is set has computed chargedAt and asked Mongo for the counter.
JoinOrRead(r) ==
    LET p == ProcessOf[r] IN
    /\ \/ /\ inFlight[p] # Idle
          /\ Step(r, "join", "joined")
          /\ joined' = [joined EXCEPT ![r] = inFlight[p]]
          /\ UNCHANGED <<inFlight, hour>>
       \/ /\ inFlight[p] = Idle
          /\ Step(r, "join", "checkBudget")
          /\ inFlight' = [inFlight EXCEPT ![p] = r]
          /\ hour' = [hour EXCEPT ![r] = Hour(clock)]
          /\ UNCHANGED joined
    /\ UNCHANGED <<time, cache, count, start, kept, got, served, history>>

StartNonce(r) ==
    /\ Step(r, Idle, "checkBudget")
    /\ hour' = [hour EXCEPT ![r] = Hour(clock)]
    /\ reads < MaxReads /\ reads' = reads + 1
    /\ UNCHANGED <<time, cache, inFlight, count, start, kept, got, joined, served, budgetHistory, crashes>>

-----------------------------------------------------------------------------
(* The budget gate, the call and the refund: _fetchPage *)

CheckBudget(r) ==
    /\ \/ count[hour[r]] >= LimitOf(r) /\ Step(r, "checkBudget", "failed")
       \/ count[hour[r]] < LimitOf(r) /\ Step(r, "checkBudget", "charge")
    /\ UNCHANGED <<time, cache, inFlight, count, start, hour, kept, got, joined, served, history>>

Increment(f, h) == [f EXCEPT ![h] = @ + 1]
CountNonce(r) ==
    nonceCharges' = IF r \in NonceReaders THEN Increment(nonceCharges, hour[r]) ELSE nonceCharges

\* Mutation: the counter is incremented on the strength of the read before it.
ChargeChecked(r) ==
    /\ Step(r, "charge", "calling")
    /\ count' = Increment(count, hour[r])
    /\ CountNonce(r)
    /\ UNCHANGED <<time, cache, inFlight, start, hour, kept, got, joined, served, spent, failOpens, reads, crashes>>

\* One conditional update; when the bucket filled meanwhile the upsert collides.
Charge(r) ==
    /\ \/ /\ count[hour[r]] < LimitOf(r)
          /\ Step(r, "charge", "calling")
          /\ count' = Increment(count, hour[r])
          /\ CountNonce(r)
       \/ /\ count[hour[r]] >= LimitOf(r)
          /\ Step(r, "charge", "failed")
          /\ UNCHANGED <<count, nonceCharges>>
    /\ UNCHANGED <<time, cache, inFlight, start, hour, kept, got, joined, served, spent, failOpens, reads, crashes>>

\* Mongo fails in either step: the call is allowed, and a kill switch (limit 0) is not.
FailOpen(r) ==
    /\ LimitOf(r) >= 1 /\ failOpens[hour[r]] < MaxFailOpens
    /\ Step(r, "checkBudget", "calling") \/ Step(r, "charge", "calling")
    /\ failOpens' = Increment(failOpens, hour[r])
    /\ UNCHANGED <<time, cache, inFlight, count, start, hour, kept, got, joined, served, spent, nonceCharges, reads, crashes>>

\* The limiter lets the request through; retries of an unanswered one are the same read.
ReachUpstream(r) ==
    /\ Step(r, "calling", "reached")
    /\ spent' = Increment(spent, hour[r])
    /\ UNCHANGED <<time, cache, inFlight, count, start, hour, kept, got, joined, served, failOpens, nonceCharges, reads, crashes>>

\* A page reader writes what it got; a next-nonce scan has its page and stores nothing.
Answered(r) ==
    /\ \/ /\ r \in PageReaders /\ Step(r, "reached", "write")
          /\ got' = [got EXCEPT ![r] = [at |-> start[r], content |-> upstream]]
       \/ r \in NonceReaders /\ Step(r, "reached", Idle) /\ UNCHANGED got
    /\ UNCHANGED <<time, cache, inFlight, count, start, hour, kept, joined, served, history>>

\* A status, no answer to any attempt, a body that does not parse, or a retry the limiter drops.
Unanswered(r) ==
    /\ Step(r, "reached", "failed")
    /\ UNCHANGED <<time, cache, inFlight, count, start, hour, kept, got, joined, served, history>>

\* The limiter drops the first attempt past its high water mark.
Drop(r) ==
    /\ Step(r, "calling", "refund")
    /\ UNCHANGED <<time, cache, inFlight, count, start, hour, kept, got, joined, served, history>>

\* To the bucket of chargedAt, never below zero; a failed refund is only logged.
Refund(r) ==
    /\ Step(r, "refund", "failed")
    /\ \/ count[hour[r]] > 0 /\ count' = [count EXCEPT ![hour[r]] = @ - 1]
       \/ UNCHANGED count
    /\ UNCHANGED <<time, cache, inFlight, start, hour, kept, got, joined, served, history>>

-----------------------------------------------------------------------------
(* The end of a read *)

Waiting(r) == {q \in PageReaders : q = r \/ (pc[q] = "joined" /\ joined[q] = r)}

\* Everyone who awaits the promise continues in one run of the microtask queue.
Settle(r, failed) ==
    LET all == Waiting(r)
        answer(q) == IF ~failed THEN [page |-> got[r], stale |-> FALSE]
                     ELSE [page |-> kept[q], stale |-> TRUE]
    IN  /\ pc' = [q \in Readers |-> IF q \in all THEN Idle ELSE pc[q]]
        /\ served' = [q \in Readers |-> IF q \in all THEN answer(q) ELSE served[q]]
        /\ inFlight' = [inFlight EXCEPT ![ProcessOf[r]] = Idle]
        /\ start' = [q \in Readers |-> IF q \in all THEN 0 ELSE start[q]]
        /\ kept' = [q \in Readers |-> IF q \in all THEN NoPage ELSE kept[q]]
        /\ got' = [got EXCEPT ![r] = NoPage]
        /\ joined' = [q \in Readers |-> IF q \in all THEN q ELSE joined[q]]

\* Mutation: the cache entry and the answer are stamped when the answer arrived.
WriteStampedLate(r) ==
    /\ r \in PageReaders /\ pc[r] = "write"
    /\ cache' = [got[r] EXCEPT !.at = clock] \/ UNCHANGED cache
    /\ Settle(r, FALSE)
    /\ UNCHANGED <<time, count, hour, history>>

\* SafeCache.write, whose failure is only logged; then the promise resolves.
Write(r) ==
    /\ r \in PageReaders /\ pc[r] = "write"
    /\ cache' = got[r] \/ UNCHANGED cache
    /\ Settle(r, FALSE)
    /\ UNCHANGED <<time, count, hour, history>>

\* Mutation: a rejected promise stays in the inFlight map.
FailInPlace(r) ==
    /\ r \in PageReaders /\ pc[r] = "failed"
    /\ pc' = [pc EXCEPT ![r] = Idle]
    /\ served' = [served EXCEPT ![r] = [page |-> kept[r], stale |-> TRUE]]
    /\ UNCHANGED <<time, cache, inFlight, count, start, hour, kept, got, joined, history>>

\* The promise rejects: whoever kept a page answers it as stale, the others fail.
FailPage(r) ==
    /\ r \in PageReaders /\ pc[r] = "failed"
    /\ Settle(r, TRUE)
    /\ UNCHANGED <<time, cache, count, hour, history>>

FailNonce(r) ==
    /\ r \in NonceReaders
    /\ Step(r, "failed", Idle)
    /\ UNCHANGED <<time, cache, inFlight, count, start, hour, kept, got, joined, served, history>>

PageStep(r) == ReadCache(r) \/ ReadExpired(r) \/ JoinOrRead(r) \/ Write(r) \/ FailPage(r)
FetchStep(r) ==
    \/ CheckBudget(r) \/ Charge(r) \/ FailOpen(r) \/ ReachUpstream(r)
    \/ Answered(r) \/ Unanswered(r) \/ Drop(r) \/ Refund(r) \/ FailNonce(r)

Next ==
    \/ Tick \/ Change \/ Purge
    \/ \E p \in Processes : Crash(p)
    \/ \E r \in PageReaders : StartPage(r) \/ PageStep(r)
    \/ \E r \in NonceReaders : StartNonce(r)
    \/ \E r \in Readers : FetchStep(r)

Spec == Init /\ [][Next]_vars
-----------------------------------------------------------------------------
Steps == {"readCache", "readExpired", "join", "joined", "checkBudget", "charge", "calling",
          "reached", "write", "refund", "failed"}
Pages == [at : Nat, content : Nat] \cup {NoPage}

BudgetTypeOK ==
    /\ clock \in 0 .. MaxTime
    /\ count \in [BucketHours -> Nat] /\ spent \in [BucketHours -> Nat]
    /\ failOpens \in [BucketHours -> Nat] /\ nonceCharges \in [BucketHours -> Nat]
    /\ pc \in [Readers -> Steps \cup {Idle}]
    /\ hour \in [Readers -> BucketHours]
    /\ reads \in 0 .. MaxReads /\ crashes \in 0 .. MaxCrashes

PageTypeOK ==
    /\ clock \in 0 .. MaxTime /\ upstream \in Nat
    /\ versionAt \in [0 .. MaxTime -> Nat]
    /\ cache \in Pages
    /\ start \in [Readers -> 0 .. MaxTime]
    /\ kept \in [Readers -> Pages] /\ got \in [Readers -> Pages]
    /\ served \in [Readers -> [page : Pages, stale : BOOLEAN]]

TypeOK ==
    /\ BudgetTypeOK /\ PageTypeOK
    /\ inFlight \in [Processes -> PageReaders \cup {Idle}]
    /\ joined \in [Readers -> Readers]

\* Readers that hold a granted unit they have not spent yet.
Holders(h) == {r \in Readers : pc[r] \in {"calling", "refund"} /\ hour[r] = h}

\* Every unit held or spent was counted, or granted while Mongo was failing.
UnitsAreCounted == \A h \in BucketHours : Cardinality(Holders(h)) + spent[h] <= count[h] + failOpens[h]
CountIsCapped == \A h \in BucketHours : count[h] <= GlobalLimit

\* The inductive invariant of the budget.
BudgetInvariant == BudgetTypeOK /\ UnitsAreCounted /\ CountIsCapped

\* However readers of all processes interleave between the read of the counter
\* and its update, and whatever is dropped, refunded late or lost in a crash:
\* an hour's bucket pays for at most its limit of upstream reads, plus one for
\* each grant made while Mongo was failing.
SpentWithinBudget == \A h \in BucketHours : spent[h] <= GlobalLimit + failOpens[h]

\* Page reads never eat the share reserved for next-nonce reads: what the
\* counter holds beyond the page share was charged by next-nonce reads.
ReserveIsKept == \A h \in BucketHours : count[h] <= PageLimit + nonceCharges[h]

Honest(page) == page # NoPage => page.at <= clock /\ page.content >= versionAt[page.at]

\* The inductive invariant of the pages' age: a read's own page and the page
\* it keeps to fall back on are honest as well.
AgeInvariant ==
    /\ PageTypeOK
    /\ \A t \in 0 .. clock : versionAt[t] <= upstream
    /\ Honest(cache)
    /\ \A r \in Readers : start[r] <= clock /\ Honest(kept[r]) /\ Honest(got[r]) /\ Honest(served[r].page)

\* A page, cached or answered, fresh or stale, is at least as recent as its
\* fetchedAt claims: SafeServiceModule.syncStore orders pages by it.
AgeIsHonest == Honest(cache) /\ \A r \in PageReaders : Honest(served[r].page)

ReadingSteps == {"checkBudget", "charge", "calling", "reached", "write", "refund", "failed"}

\* A process has at most one upstream read of a key open, and its inFlight
\* map names it; a reader that joined awaits exactly that one, so it settles.
OneReadPerKey ==
    \A r \in PageReaders :
        /\ pc[r] \in ReadingSteps => inFlight[ProcessOf[r]] = r
        /\ pc[r] = "joined" => inFlight[ProcessOf[r]] = joined[r] /\ pc[joined[r]] \in ReadingSteps

\* An entry of a process's inFlight map is a promise of that process that has
\* not settled: whoever finds it may join it.
InFlightIsOpen ==
    \A p \in Processes : inFlight[p] # Idle =>
        ProcessOf[inFlight[p]] = p /\ pc[inFlight[p]] \in ReadingSteps

\* What holds of the reads of all processes at once, and is inductive: the
\* types, the budget's and the pages' invariants, one read per key and a map
\* of open promises.
ReadsInvariant == TypeOK /\ BudgetInvariant /\ AgeInvariant /\ OneReadPerKey /\ InFlightIsOpen

=============================================================================
