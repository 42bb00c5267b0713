------------------------------ MODULE SafeStore -----------------------------
(***************************************************************************)
(* The stored copy of a tracked Safe's transactions: syncStore jobs pull   *)
(* the service's queue and history into SafeTransaction rows, and the      *)
(* execution handler settles rows from chain events.  Every database       *)
(* operation and every read is a step of its own; jobs, events, the Safe   *)
(* service and the chain interleave between them.                          *)
(*                                                                         *)
(* A transaction is abstracted to its identity and its nonce.  A page is   *)
(* as old as the read that brought it: the job's own, one that was pending *)
(* when the job asked, or one the shared cache kept from before the job    *)
(* began, whose expiry and overwriting SafeReads models.  So a job of any  *)
(* kind may reconcile an outdated page, and one that is answered with a    *)
(* stale page, or with one no newer than the stamp, reconciles nothing and *)
(* still ends as done.  Rows of one bulkWrite are written together.        *)
(***************************************************************************)
EXTENDS Integers, FiniteSets

CONSTANTS
    Txs, Nonce,    \* the Safe's transactions and their nonces
    Jobs,          \* workers that run syncStore
    PageSize,      \* BACKFILL_PAGE_SIZE
    MaxTime,       \* bound on the clock
    MaxSyncs,      \* bound on jobs started
    MaxEvents      \* bound on execution events delivered

ASSUME SafeStoreAssumption ==
    /\ Nonce \in [Txs -> Nat]
    /\ PageSize \in Nat \ {0}
    /\ MaxTime \in Nat /\ MaxSyncs \in Nat /\ MaxEvents \in Nat

VARIABLES
    clock,
    chainNonce, executed,       \* the Safe onchain: its nonce, what it executed
    proposed, deleted, indexed, \* the service: proposed, deleted, known as executed
    state, refreshedAt,         \* the rows: "absent" or their state, and their age
    queueStamp, historyStamp,   \* the SafeAccount row
    cached,                     \* worker -> the older queue page its next job may be answered with
    job,                        \* worker -> its job
    event,                      \* the execution event in hand
    syncs, events

chain == <<chainNonce, executed>>
service == <<proposed, deleted, indexed>>
rows == <<state, refreshedAt>>
account == <<queueStamp, historyStamp>>
vars == <<clock, chain, service, rows, account, cached, job, event, syncs, events>>

Unsettled == {"live", "removed"}
NoJob == [step |-> "idle", phase |-> "queue", full |-> FALSE, bypass |-> FALSE, solo |-> FALSE, at |-> 0,
          page |-> {}, complete |-> FALSE, dead |-> {}, queueSeen |-> 0, historySeen |-> 0]
NoPage == [at |-> 0, page |-> {}, complete |-> FALSE]
NoEvent == [step |-> "idle", tx |-> "none"]

Init ==
    /\ clock = 1
    /\ chainNonce = 0 /\ executed = {}
    /\ proposed = {} /\ deleted = {} /\ indexed = {}
    /\ state = [t \in Txs |-> "absent"] /\ refreshedAt = [t \in Txs |-> 0]
    /\ queueStamp = 0 /\ historyStamp = 0
    /\ cached = [w \in Jobs |-> NoPage]
    /\ job = [w \in Jobs |-> NoJob] /\ event = NoEvent
    /\ syncs = 0 /\ events = 0

-----------------------------------------------------------------------------
(* The clock, the chain and the Safe service: external. *)

Queue == proposed \ (deleted \cup indexed)

\* A job that ran undisturbed so far is disturbed.
Disturb == job' = [w \in Jobs |-> [job[w] EXCEPT !.solo = FALSE]]

Tick ==
    /\ clock < MaxTime
    /\ clock' = clock + 1
    /\ UNCHANGED <<chain, service, rows, account, cached, job, event, syncs, events>>

Propose(t) ==
    /\ t \notin proposed
    /\ proposed' = proposed \cup {t}
    /\ Disturb
    /\ UNCHANGED <<clock, chain, deleted, indexed, rows, account, cached, event, syncs, events>>

Delete(t) ==
    /\ t \in Queue /\ t \notin executed
    /\ deleted' = deleted \cup {t}
    /\ Disturb
    /\ UNCHANGED <<clock, chain, proposed, indexed, rows, account, cached, event, syncs, events>>

\* A transaction of the current nonce executes; its rivals stay queued.
Execute(t) ==
    /\ t \in proposed \ executed /\ Nonce[t] = chainNonce
    /\ executed' = executed \cup {t} /\ chainNonce' = chainNonce + 1
    /\ Disturb
    /\ UNCHANGED <<clock, service, rows, account, cached, event, syncs, events>>

\* The service learns of an execution.
Index(t) ==
    /\ t \in executed \ indexed
    /\ indexed' = indexed \cup {t} /\ deleted' = deleted \ {t}
    /\ Disturb
    /\ UNCHANGED <<clock, chain, proposed, rows, account, cached, event, syncs, events>>

-----------------------------------------------------------------------------
(* syncStore *)

Set(w, j) == job' = [job EXCEPT ![w] = j]
At(w, step) == job[w].step = step
Ended(w) == job[w].step \in {"idle", "done"}
Go(w, step) == Set(w, [job[w] EXCEPT !.step = step])

Done(j) == [NoJob EXCEPT !.step = "done", !.solo = j.solo]

StartHistory(j) == [j EXCEPT !.step = "readHistory", !.phase = "history", !.at = 0, !.page = {},
                             !.complete = FALSE, !.queueSeen = 0]

\* The first page of all: the whole of it, or as many as a page holds.
IsPage(page, all) ==
    /\ page \subseteq all
    /\ page = all \/ Cardinality(page) = PageSize
    /\ Cardinality(page) <= PageSize

\* The answers to a read that began now or earlier and comes back now.
Pages(all) ==
    {[at |-> a, page |-> p, complete |-> (p = all)] : a \in 1..clock, p \in {q \in SUBSET all : IsPage(q, all)}}

\* _readCachedPage, by any process: a queue page is answered, and the next job of
\* this worker, not begun yet, may find it in the cache. Which worker runs a job
\* does not matter, so a page is used once.
CacheQueue(w) ==
    /\ Ended(w) /\ cached[w] = NoPage /\ syncs < MaxSyncs
    /\ \E p \in Pages(Queue) : cached' = [cached EXCEPT ![w] = p]
    /\ UNCHANGED <<clock, chain, service, rows, account, job, event, syncs, events>>

\* SafeAccount.ensure. A backfill is undisturbed while nothing else runs.
Begin(w, full) ==
    /\ Ended(w) /\ syncs < MaxSyncs
    /\ syncs' = syncs + 1
    /\ LET alone == event.step = "idle" /\ \A v \in Jobs : Ended(v)
       IN  job' = [v \in Jobs |->
                     IF v # w THEN [job[v] EXCEPT !.solo = FALSE]
                     ELSE [NoJob EXCEPT !.step = "readQueue", !.full = full, !.bypass = full,
                                        !.queueSeen = queueStamp, !.historySeen = historyStamp,
                                        !.solo = full /\ alone]]
    /\ UNCHANGED <<clock, chain, service, rows, account, cached, event, events>>

\* The page a job goes on with. One that is no newer than the last stamped one is
\* not applied: a backfill goes on to the history as well. The job counts as
\* undisturbed if the page is still the whole queue, and newer than every row.
TakeQueue(w, p) ==
    Set(w, IF p.at > job[w].queueSeen
           THEN [job[w] EXCEPT !.at = p.at, !.page = p.page, !.complete = p.complete, !.step = "revive", !.queueSeen = 0,
                               !.solo = @ /\ p.complete /\ p.page = Queue /\ \A t \in Txs : refreshedAt[t] < p.at]
           ELSE StartHistory([job[w] EXCEPT !.solo = FALSE]))

\* The queue is always read through the cache: the job's own read, one it joins, or
\* a page kept from before.
ReadQueue(w) ==
    /\ At(w, "readQueue")
    /\ \/ \E p \in Pages(Queue) : TakeQueue(w, p)
       \/ cached[w] # NoPage /\ TakeQueue(w, cached[w])
    /\ cached' = [cached EXCEPT ![w] = NoPage]
    /\ UNCHANGED <<clock, chain, service, rows, account, event, syncs, events>>

\* Without any page a backfill throws and a poll goes on to the history; on a stale
\* page both go on, with nothing reconciled.
QueueUnread(w) ==
    /\ At(w, "readQueue")
    /\ \/ job[w].full /\ Set(w, NoJob)
       \/ Set(w, StartHistory([job[w] EXCEPT !.solo = FALSE]))
    /\ cached' = [cached EXCEPT ![w] = NoPage]
    /\ UNCHANGED <<clock, chain, service, rows, account, event, syncs, events>>

\* reconcileQueue, first update: a removed row that is seen again is live.
Revive(w) ==
    /\ At(w, "revive")
    /\ state' = [t \in Txs |-> IF t \in job[w].page /\ state[t] = "removed" THEN "live" ELSE state[t]]
    /\ Go(w, "retire")
    /\ UNCHANGED <<clock, chain, service, refreshedAt, account, cached, event, syncs, events>>

\* reconcileQueue, second update: only a complete page proves a live row gone. A row
\* removed makes the history read skip its cache.
Retire(w) ==
    LET gone == {t \in Txs \ job[w].page : state[t] = "live" /\ refreshedAt[t] < job[w].at} IN
    /\ At(w, "retire")
    /\ state' = [t \in Txs |-> IF job[w].complete /\ t \in gone THEN "removed" ELSE state[t]]
    /\ Set(w, [job[w] EXCEPT !.step = "upsertQueue", !.complete = FALSE,
                             !.bypass = @ \/ (job[w].complete /\ gone # {})])
    /\ UNCHANGED <<clock, chain, service, refreshedAt, account, cached, event, syncs, events>>

Refresh(w) == refreshedAt' = [t \in Txs |-> IF t \in job[w].page THEN job[w].at ELSE refreshedAt[t]]

\* Mutation: a page only updates rows that exist.
UpdateQueue(w) ==
    /\ At(w, "upsertQueue")
    /\ Refresh(w)
    /\ Go(w, "settleFind")
    /\ UNCHANGED <<clock, chain, service, state, account, cached, event, syncs, events>>

\* record, with the rows of a queue page: a new row is live, an old one keeps its state.
UpsertQueue(w) ==
    /\ At(w, "upsertQueue")
    /\ state' = [t \in Txs |-> IF t \in job[w].page /\ state[t] = "absent" THEN "live" ELSE state[t]]
    /\ Refresh(w)
    /\ Go(w, "settleFind")
    /\ UNCHANGED <<clock, chain, service, account, cached, event, syncs, events>>

\* Mutation: removed rows are not retired by the nonce.
SettleFindLive(w) ==
    LET found == {t \in Txs : state[t] = "live"} IN
    /\ At(w, "settleFind")
    /\ Set(w, [job[w] EXCEPT !.dead = found, !.step = IF found = {} THEN "stamp" ELSE "settleRead"])
    /\ UNCHANGED <<clock, chain, service, rows, account, cached, event, syncs, events>>

\* settleBelowNonce: the unsettled rows, the chain's nonce, the conditional update.
SettleFind(w) ==
    LET found == {t \in Txs : state[t] \in Unsettled} IN
    /\ At(w, "settleFind")
    /\ Set(w, [job[w] EXCEPT !.dead = found, !.step = IF found = {} THEN "stamp" ELSE "settleRead"])
    /\ UNCHANGED <<clock, chain, service, rows, account, cached, event, syncs, events>>

\* Mutation: the current nonce counts as spent.
SettleReadInclusive(w) ==
    LET dead == {t \in job[w].dead : Nonce[t] <= chainNonce} IN
    /\ At(w, "settleRead")
    /\ Set(w, [job[w] EXCEPT !.dead = dead, !.step = IF dead = {} THEN "stamp" ELSE "settleWrite"])
    /\ UNCHANGED <<clock, chain, service, rows, account, cached, event, syncs, events>>

SettleRead(w) ==
    LET dead == {t \in job[w].dead : Nonce[t] < chainNonce} IN
    /\ At(w, "settleRead")
    /\ Set(w, [job[w] EXCEPT !.dead = dead, !.step = IF dead = {} THEN "stamp" ELSE "settleWrite"])
    /\ UNCHANGED <<clock, chain, service, rows, account, cached, event, syncs, events>>

\* Mutation: the state is not part of the predicate again.
SettleAll(w) ==
    /\ At(w, "settleWrite")
    /\ state' = [t \in Txs |-> IF t \in job[w].dead THEN "superseded" ELSE state[t]]
    /\ Set(w, [job[w] EXCEPT !.dead = {}, !.step = "stamp"])
    /\ UNCHANGED <<clock, chain, service, refreshedAt, account, cached, event, syncs, events>>

SettleWrite(w) ==
    /\ At(w, "settleWrite")
    /\ state' = [t \in Txs |-> IF t \in job[w].dead /\ state[t] \in Unsettled THEN "superseded" ELSE state[t]]
    /\ Set(w, [job[w] EXCEPT !.dead = {}, !.step = "stamp"])
    /\ UNCHANGED <<clock, chain, service, refreshedAt, account, cached, event, syncs, events>>

\* SafeAccount.stamp only moves forward.
Stamp(w) ==
    /\ At(w, "stamp")
    /\ IF job[w].phase = "queue"
       THEN /\ queueStamp' = IF job[w].at > queueStamp THEN job[w].at ELSE queueStamp
            /\ Set(w, StartHistory(job[w]))
            /\ UNCHANGED historyStamp
       ELSE /\ historyStamp' = IF job[w].at > historyStamp THEN job[w].at ELSE historyStamp
            /\ Set(w, Done(job[w]))
            /\ UNCHANGED queueStamp
    /\ UNCHANGED <<clock, chain, service, rows, cached, event, syncs, events>>

-----------------------------------------------------------------------------
(* _syncHistory, page zero *)

\* The job's own read or one it joins brings the history as it is. A poll that
\* removed nothing may find an older page in the cache: the history only grows, so
\* that is a page of a part of it.
ReadHistory(w) ==
    /\ At(w, "readHistory")
    /\ \E past \in SUBSET indexed : \E p \in Pages(past) :
          /\ job[w].bypass => past = indexed
          /\ Set(w, IF p.at > job[w].historySeen
                    THEN [job[w] EXCEPT !.at = p.at, !.page = p.page, !.step = "upsertHistory", !.bypass = FALSE,
                                        !.historySeen = 0, !.solo = @ /\ p.page = indexed]
                    ELSE Done([job[w] EXCEPT !.solo = FALSE]))
    /\ UNCHANGED <<clock, chain, service, rows, account, cached, event, syncs, events>>

\* A stale history page makes a backfill throw, as no page does; a poll ends quietly.
HistoryUnread(w) ==
    /\ At(w, "readHistory")
    /\ Set(w, IF job[w].full THEN NoJob ELSE Done(job[w]))
    /\ UNCHANGED <<clock, chain, service, rows, account, cached, event, syncs, events>>

UpsertHistory(w) ==
    /\ At(w, "upsertHistory")
    /\ state' = [t \in Txs |-> IF t \in job[w].page THEN "executed" ELSE state[t]]
    /\ Refresh(w)
    /\ Go(w, "rivals")
    /\ UNCHANGED <<clock, chain, service, account, cached, event, syncs, events>>

\* The live rows that share a nonce with a winner and are not that winner.
LiveRivals(winners) ==
    {t \in Txs : state[t] = "live" /\ \E u \in winners : u # t /\ Nonce[u] = Nonce[t]}

Supersede(ts) == state' = [t \in Txs |-> IF t \in ts THEN "superseded" ELSE state[t]]

Rivals(w) ==
    /\ At(w, "rivals")
    /\ Supersede(LiveRivals(job[w].page))
    /\ Go(w, "settleFind")
    /\ UNCHANGED <<clock, chain, service, refreshedAt, account, cached, event, syncs, events>>

\* A database or chain error throws out of the job, and a crash ends it.
JobFails(w) ==
    /\ ~Ended(w)
    /\ Set(w, NoJob)
    /\ UNCHANGED <<clock, chain, service, rows, account, cached, event, syncs, events>>

-----------------------------------------------------------------------------
(* SafeExecutionHandler.settle and markExecuted *)

\* An event is delivered at least once. An unknown row only requests a backfill.
HandleFind(t) ==
    /\ event.step = "idle" /\ t \in executed /\ events < MaxEvents
    /\ events' = events + 1
    /\ event' = IF state[t] = "absent" THEN NoEvent ELSE [step |-> "update", tx |-> t]
    /\ Disturb
    /\ UNCHANGED <<clock, chain, service, rows, account, cached, syncs>>

HandleUpdate ==
    /\ event.step = "update"
    /\ state' = [state EXCEPT ![event.tx] = "executed"]
    /\ event' = [event EXCEPT !.step = "rivals"]
    /\ UNCHANGED <<clock, chain, service, refreshedAt, account, cached, job, syncs, events>>

HandleRivals ==
    /\ event.step = "rivals"
    /\ Supersede(LiveRivals({event.tx}))
    /\ event' = NoEvent
    /\ UNCHANGED <<clock, chain, service, refreshedAt, account, cached, job, syncs, events>>

\* Errors are only logged; a crash ends the handler too.
HandlerFails ==
    /\ event.step # "idle"
    /\ event' = NoEvent
    /\ UNCHANGED <<clock, chain, service, rows, account, cached, job, syncs, events>>

-----------------------------------------------------------------------------
JobStep(w) ==
    \/ \E full \in BOOLEAN : Begin(w, full)
    \/ ReadQueue(w) \/ QueueUnread(w) \/ Revive(w) \/ Retire(w) \/ UpsertQueue(w)
    \/ SettleFind(w) \/ SettleRead(w) \/ SettleWrite(w) \/ Stamp(w)
    \/ ReadHistory(w) \/ HistoryUnread(w) \/ UpsertHistory(w) \/ Rivals(w)
    \/ JobFails(w)

Next ==
    \/ Tick
    \/ \E t \in Txs : Propose(t) \/ Delete(t) \/ Execute(t) \/ Index(t) \/ HandleFind(t)
    \/ \E w \in Jobs : CacheQueue(w) \/ JobStep(w)
    \/ HandleUpdate \/ HandleRivals \/ HandlerFails

Spec == Init /\ [][Next]_vars

-----------------------------------------------------------------------------
RowStates == {"absent", "live", "removed", "executed", "superseded"}
JobSteps == {"idle", "readQueue", "revive", "retire", "upsertQueue", "settleFind", "settleRead", "settleWrite",
             "stamp", "readHistory", "upsertHistory", "rivals", "done"}

JobStates ==
    [step : JobSteps, phase : {"queue", "history"}, full : BOOLEAN, bypass : BOOLEAN, solo : BOOLEAN, at : Nat,
     page : SUBSET Txs, complete : BOOLEAN, dead : SUBSET Txs, queueSeen : Nat, historySeen : Nat]

PageStates == [at : Nat, page : SUBSET Txs, complete : BOOLEAN]

TypeOK ==
    /\ clock \in Nat /\ chainNonce \in Nat
    /\ executed \subseteq Txs /\ indexed \subseteq executed
    /\ proposed \subseteq Txs /\ deleted \subseteq Txs
    /\ state \in [Txs -> RowStates] /\ refreshedAt \in [Txs -> Nat]
    /\ queueStamp \in Nat /\ historyStamp \in Nat
    /\ event \in [step : {"idle", "update", "rivals"}, tx : Txs \cup {"none"}]
    /\ cached \in [Jobs -> PageStates]
    /\ job \in [Jobs -> JobStates]

\* What settles a row is true of the chain: a superseded row's nonce is spent,
\* an executed row's transaction executed.
SettledIsTrue ==
    \A t \in Txs : /\ state[t] = "superseded" => Nonce[t] < chainNonce
                   /\ state[t] = "executed" => t \in executed

\* What jobs and events still intend to write is true as well.
IntentsAreTrue ==
    /\ \A t \in executed : Nonce[t] < chainNonce
    /\ event.step # "idle" => event.tx \in executed
    /\ \A w \in Jobs :
          /\ At(w, "settleWrite") => \A t \in job[w].dead : Nonce[t] < chainNonce
          /\ job[w].phase = "history" => job[w].page \subseteq executed
          /\ job[w].step \in {"readQueue", "revive", "retire", "upsertQueue"} => job[w].phase = "queue"
          /\ job[w].step \in {"readHistory", "upsertHistory", "rivals"} => job[w].phase = "history"

\* Only what was proposed has a row, and a page that was upserted has its rows.
RowsAreKnown ==
    /\ executed \subseteq proposed
    /\ \A t \in Txs : state[t] # "absent" => t \in proposed
    /\ \A w \in Jobs :
          /\ job[w].page \subseteq proposed /\ cached[w].page \subseteq proposed
          /\ job[w].step \in {"rivals", "settleFind", "settleRead", "settleWrite", "stamp"} =>
                \A t \in job[w].page : state[t] # "absent"

\* The stored rows agree with the service's queue, with its history, and with
\* the chain's nonce.
QueueIsStored == \A t \in Txs : IF t \in Queue THEN state[t] \in {"live", "superseded", "executed"}
                                ELSE state[t] # "live"
HistoryIsStored == \A t \in indexed : state[t] = "executed"
Spent == {t \in Txs : state[t] \in Unsettled /\ Nonce[t] < chainNonce}

\* How far an undisturbed backfill has got, step by step.
Repairing(w) ==
    LET step == job[w].step
        page == job[w].page
        onHistory == job[w].phase = "history" \/ step = "done"
        settling == {"settleFind", "settleRead", "settleWrite", "stamp", "done"}
    IN  /\ step \in {"revive", "retire"} => \A t \in Txs : refreshedAt[t] < job[w].at
        /\ step \in {"revive", "retire"} => job[w].complete
        /\ step \in {"revive", "retire", "upsertQueue"} => page = Queue
        /\ step \in {"retire", "upsertQueue"} => \A t \in Queue : state[t] # "removed"
        /\ step = "upsertQueue" => \A t \in Txs \ Queue : state[t] # "live"
        /\ step \in settling \cup {"readHistory", "upsertHistory", "rivals"} => QueueIsStored
        /\ step \in {"upsertHistory", "rivals"} => page = indexed
        /\ step = "rivals" \/ (onHistory /\ step \in settling) => HistoryIsStored
        /\ step = "settleRead" => \A t \in Txs : state[t] \in Unsettled => t \in job[w].dead
        /\ step = "settleWrite" => Spent \subseteq job[w].dead
        /\ step \in {"stamp", "done"} => Spent = {}

\* An undisturbed backfill is alone and has repaired as much as its step says.
UndisturbedRepairs ==
    \A w \in Jobs : job[w].solo =>
        /\ event.step = "idle" /\ \A v \in Jobs \ {w} : Ended(v)
        /\ job[w].step # "idle"
        /\ job[w].step # "done" => job[w].full
        /\ Repairing(w)

\* The inductive invariant of the store.
StoreInvariant == TypeOK /\ SettledIsTrue /\ IntentsAreTrue /\ RowsAreKnown /\ UndisturbedRepairs

\* A row that is settled stays settled, whichever page or event arrives late:
\* an executed one for good, a superseded one unless it turns out executed.
SettledIsFinal ==
    [][\A t \in Txs : /\ state[t] = "executed" => state'[t] = "executed"
                      /\ state[t] = "superseded" => state'[t] \in {"superseded", "executed"}]_vars

\* A stamp advertises rows already written: when SafeAccount.queueFetchedAt
\* moves, every transaction of the page it stands for has a row.
StampAdvertisesRows ==
    [][queueStamp' # queueStamp =>
         \E w \in Jobs : /\ job[w].at = queueStamp' /\ job[w].phase = "queue"
                         /\ \A t \in job[w].page : state'[t] # "absent"]_vars

\* What a row should say of a transaction once the sync has caught up.
Reconciled(t) ==
    LET spent == Nonce[t] < chainNonce IN
    /\ t \notin proposed => state[t] = "absent"
    /\ t \in indexed => state[t] = "executed"
    /\ t \in Queue => IF spent THEN state[t] \in {"superseded", "executed"} ELSE state[t] = "live"
    /\ t \in deleted => IF spent THEN state[t] \in {"absent", "superseded", "executed"}
                        ELSE state[t] \in {"absent", "removed"}
    /\ state[t] = "executed" => t \in executed

\* A backfill that runs alone repairs whatever earlier jobs and events left behind,
\* however they raced, failed or stopped half way, if its two pages are applied, are
\* complete and still say what the service has when it takes them, be they read now
\* or kept in the cache. Not so one answered with a stale, an outdated or an already
\* stamped queue page: it ends as done too, and has not reconciled the queue.
BackfillRepairs == \A w \in Jobs : At(w, "done") /\ job[w].solo => \A t \in Txs : Reconciled(t)
=============================================================================
