---------------------------- MODULE SafeNextNonce ---------------------------
(***************************************************************************)
(* SafeServiceModule.readNextNonce: the nonce a new Safe transaction must  *)
(* occupy.  The chain's nonce is read, the service's queue is scanned page *)
(* by page under a descending nonce bound, the chain's nonce is read again *)
(* and the lowest slot that nothing seen occupies is answered.             *)
(*                                                                         *)
(* The queue belongs to the Safe Transaction Service and to every other    *)
(* application that uses the Safe: transactions are proposed, deleted and  *)
(* executed between any two steps of the scan.  Several of them may hold   *)
(* one nonce.  A transaction is abstracted to its identity and its nonce.  *)
(***************************************************************************)
EXTENDS Integers, FiniteSets

CONSTANTS
    Txs,           \* the transactions ever proposed
    Nonce,         \* the nonce each of them is bound to
    Limit,         \* Math.max(2, NEXT_NONCE_SCAN_LIMIT)
    Orderings,     \* how the service may answer `ordering=-nonce`:
                   \* "descending", or "ascending" when it ignores it
    MaxScans       \* bound on calls of readNextNonce

ASSUME SafeNextNonceAssumption ==
    /\ IsFiniteSet(Txs)
    /\ Nonce \in [Txs -> Nat]
    /\ Limit \in Nat /\ Limit >= 2
    /\ Orderings \subseteq {"descending", "ascending"}
    /\ MaxScans \in Nat
    \* A page full of rivals at one nonce is in descending order whatever the
    \* service does, so the order check needs fewer rivals than a page holds.
    /\ "ascending" \in Orderings =>
          \A u \in Txs : Cardinality({t \in Txs : Nonce[t] = Nonce[u]}) < Limit

VARIABLES
    ordering,      \* what this service does with the ordering; never changes
    chainNonce,    \* the Safe's onchain nonce
    proposed,      \* transactions proposed so far
    queue,         \* proposed, not executed and not deleted
    pc,            \* where the call is
    floor,         \* nonceBeforeScan
    bound,         \* upperBound of the page to come
    unbounded,     \* no upperBound yet: the first page
    found,         \* nonces of the transactions collected
    current,       \* the higher of the two nonces read
    answer,        \* nextNonce, once answered
    steady,        \* history: queued ever since the call began
    glimpsed,      \* history: queued at some moment of the call
    spentLate,     \* history: a nonce was spent after the second read
    scans

service == <<ordering, chainNonce, proposed, queue>>
call == <<pc, floor, bound, unbounded, found, current, answer>>
history == <<steady, glimpsed, spentLate, scans>>
vars == <<service, call, history>>

Init ==
    /\ ordering \in Orderings
    /\ chainNonce = 0
    /\ proposed = {} /\ queue = {}
    /\ pc = "idle"
    /\ floor = 0 /\ bound = 0 /\ unbounded = TRUE /\ found = {} /\ current = 0 /\ answer = 0
    /\ steady = {} /\ glimpsed = {} /\ spentLate = FALSE /\ scans = 0

-----------------------------------------------------------------------------
(* The Safe and the transaction service: external. *)

Propose(t) ==
    /\ t \notin proposed
    /\ proposed' = proposed \cup {t}
    /\ queue' = queue \cup {t}
    /\ glimpsed' = glimpsed \cup {t}
    /\ UNCHANGED <<ordering, chainNonce, call, steady, spentLate, scans>>

Delete(t) ==
    /\ t \in queue
    /\ queue' = queue \ {t}
    /\ steady' = steady \ {t}
    /\ UNCHANGED <<ordering, chainNonce, proposed, call, glimpsed, spentLate, scans>>

\* A Safe executes in nonce order; its rivals stay in the queue as dead rows.
Execute(t) ==
    /\ t \in queue /\ Nonce[t] = chainNonce
    /\ chainNonce' = chainNonce + 1
    /\ queue' = queue \ {t}
    /\ steady' = steady \ {t}
    /\ spentLate' = TRUE
    /\ UNCHANGED <<ordering, proposed, call, glimpsed, scans>>

-----------------------------------------------------------------------------
(* readNextNonce *)

ReadNonceBeforeScan ==
    /\ pc \in {"idle", "answered", "failed"} /\ scans < MaxScans
    /\ scans' = scans + 1
    /\ pc' = "scanning"
    /\ floor' = chainNonce
    /\ unbounded' = TRUE /\ bound' = 0 /\ found' = {}
    /\ steady' = queue /\ glimpsed' = queue
    /\ UNCHANGED <<service, current, answer, spentLate>>

InRange(t) == Nonce[t] >= floor /\ (unbounded \/ Nonce[t] <= bound)
Matching == {t \in queue : InRange(t)}

\* The first Limit matches, by the order the service applies.
IsPage(page) ==
    /\ page \subseteq Matching
    /\ Cardinality(page) <= Limit
    /\ Cardinality(page) < Limit => page = Matching
    /\ \A t \in page, u \in Matching \ page :
          IF ordering = "descending" THEN Nonce[t] >= Nonce[u] ELSE Nonce[t] <= Nonce[u]

Collect(page) == found' = found \cup {Nonce[t] : t \in page}

\* Mutation: the bound drops by a page's length, as if no two rows shared a nonce.
DropByLength(page) ==
    \E high \in page :
        /\ \A t \in page : Nonce[t] <= Nonce[high]
        /\ bound' = Nonce[high] - Limit

\* upperBound = lowest - 1n
DropBelow(page) ==
    \E low \in page :
        /\ \A t \in page : Nonce[low] <= Nonce[t]
        /\ bound' = Nonce[low] - 1

\* A short page is the last one, and so is one that reaches down to the floor.
ScanPage ==
    /\ pc = "scanning"
    /\ \E page \in SUBSET Matching :
          /\ IsPage(page)
          /\ \/ /\ Cardinality(page) < Limit
                /\ Collect(page)
                /\ pc' = "scanned"
                /\ UNCHANGED <<bound, unbounded>>
             \/ /\ Cardinality(page) = Limit
                /\ ordering = "descending" \/ \A t, u \in page : Nonce[t] = Nonce[u]
                /\ Collect(page)
                /\ DropBelow(page)
                /\ unbounded' = FALSE
                /\ pc' = IF bound' < floor THEN "scanned" ELSE "scanning"
    /\ UNCHANGED <<service, floor, current, answer, history>>

\* A full page that is not in descending order is an invalid response.
RejectPage ==
    /\ pc = "scanning" /\ ordering = "ascending"
    /\ \E page \in SUBSET Matching :
          /\ IsPage(page) /\ Cardinality(page) = Limit
          /\ \E t, u \in page : Nonce[t] # Nonce[u]
    /\ pc' = "failed"
    /\ UNCHANGED <<service, floor, bound, unbounded, found, current, answer, history>>

\* No budget, no connection or an unexpected body: the read fails rather than guess.
ScanFails ==
    /\ pc = "scanning"
    /\ pc' = "failed"
    /\ UNCHANGED <<service, floor, bound, unbounded, found, current, answer, history>>

\* Mutation: the nonce read before the scan is trusted.
ReadNonceOnce ==
    /\ pc = "scanned"
    /\ pc' = "rereadNonce"
    /\ current' = floor
    /\ spentLate' = FALSE
    /\ UNCHANGED <<service, floor, bound, unbounded, found, answer, steady, glimpsed, scans>>

ReadNonceAfterScan ==
    /\ pc = "scanned"
    /\ pc' = "rereadNonce"
    /\ current' = IF chainNonce > floor THEN chainNonce ELSE floor
    /\ spentLate' = FALSE
    /\ UNCHANGED <<service, floor, bound, unbounded, found, answer, steady, glimpsed, scans>>

\* Mutation: the nonce above everything queued, leaving holes unfilled.
AboveEverything(n) == n >= current /\ \A m \in found : m < n

\* Where the walk of lowestFreeNonce stops.
LowestFree(n) == n >= current /\ n \notin found /\ \A m \in current .. n - 1 : m \in found

Answer ==
    /\ pc = "rereadNonce"
    /\ \E n \in current .. current + Cardinality(found) : LowestFree(n) /\ answer' = n
    /\ pc' = "answered"
    /\ UNCHANGED <<service, floor, bound, unbounded, found, current, history>>

Next ==
    \/ \E t \in Txs : Propose(t) \/ Delete(t) \/ Execute(t)
    \/ ReadNonceBeforeScan \/ ScanPage \/ RejectPage \/ ScanFails
    \/ ReadNonceAfterScan \/ Answer

Spec == Init /\ [][Next]_vars

-----------------------------------------------------------------------------
TypeOK ==
    /\ ordering \in Orderings
    /\ chainNonce \in Nat /\ floor \in Nat /\ current \in Nat /\ answer \in Nat /\ bound \in Int
    /\ proposed \subseteq Txs /\ queue \subseteq proposed
    /\ steady \subseteq Txs /\ glimpsed \subseteq Txs
    /\ found \subseteq Nat
    /\ unbounded \in BOOLEAN /\ spentLate \in BOOLEAN
    /\ pc \in {"idle", "scanning", "scanned", "rereadNonce", "answered", "failed"}
    /\ scans \in 0 .. MaxScans

Holds(nonces, t) == Nonce[t] \in nonces

\* While pages are read, a transaction that stayed queued at or above the
\* floor was collected or lies below the bound of the next page.
ScanCovers ==
    /\ pc = "scanning" => \A t \in steady : Nonce[t] >= floor => Holds(found, t) \/ InRange(t)
    /\ pc \in {"scanned", "rereadNonce", "answered"} =>
          \A t \in steady : Nonce[t] >= floor => Holds(found, t)

\* Nothing is collected that was not queued during the call.
ScanIsHonest ==
    /\ steady \subseteq queue /\ (pc # "idle" => queue \subseteq glimpsed)
    /\ found \subseteq {Nonce[t] : t \in glimpsed}

ReadsAreFloored ==
    /\ pc \in {"rereadNonce", "answered"} => floor <= current /\ (spentLate \/ chainNonce <= current)
    /\ pc = "answered" => LowestFree(answer)

\* The inductive invariant behind the three properties.
ScanInvariant == TypeOK /\ ScanCovers /\ ScanIsHonest /\ ReadsAreFloored

\* readNextNonce never answers a nonce that a transaction held in the queue
\* from before the call until the answer, whatever is proposed, deleted or
\* executed between the pages of the scan.
NextNonceIsFree == pc = "answered" => \A t \in steady : Nonce[t] # answer

\* Holes are filled, not skipped: every slot between the chain's nonce and the
\* answer was held by a transaction queued at some moment of the call.
HolesAreFilled ==
    pc = "answered" => \A m \in current .. answer - 1 : \E t \in glimpsed : Nonce[t] = m

\* An answered nonce is already spent only if it was spent in the one round
\* trip that the second read of the chain's nonce leaves open.
SpentOnlyInWindow == pc = "answered" /\ answer < chainNonce => spentLate
=============================================================================
