--------------------------- MODULE SafeStoreProofs --------------------------
(***************************************************************************)
(* The stored copy of a Safe's transactions, for every set of transactions *)
(* and workers and every page size: what rows say is true of the chain, a  *)
(* settled row stays settled, a stamp stands for written rows, and an      *)
(* undisturbed backfill leaves every row as the service and the chain      *)
(* have it.                                                                *)
(***************************************************************************)
EXTENDS SafeStore, TLAPS

USE SafeStoreAssumption

-----------------------------------------------------------------------------
(* Jobs as records *)

\* A job that has not begun.
LEMMA NoJobIsAJob == NoJob \in JobStates
BY DEF NoJob, JobStates, JobSteps

\* A job that has ended.
LEMMA DoneIsAJob == ASSUME NEW j \in JobStates PROVE Done(j) \in JobStates
BY DEF Done, NoJob, JobStates, JobSteps

\* A job that turns to the history forgets the queue's page.
LEMMA StartHistoryIsAJob ==
    ASSUME NEW j \in JobStates
    PROVE  /\ StartHistory(j) \in JobStates
           /\ StartHistory(j).step = "readHistory" /\ StartHistory(j).phase = "history"
           /\ StartHistory(j).page = {} /\ StartHistory(j).dead = j.dead
           /\ StartHistory(j).solo = j.solo /\ StartHistory(j).full = j.full
BY DEF StartHistory, JobStates, JobSteps

\* A disturbed job only loses its history of being alone.
LEMMA DisturbedIsAJob ==
    ASSUME NEW j \in JobStates
    PROVE  LET k == [j EXCEPT !.solo = FALSE]
           IN  /\ k \in JobStates /\ k.solo = FALSE
               /\ k.step = j.step /\ k.phase = j.phase /\ k.page = j.page /\ k.dead = j.dead
BY DEF JobStates

\* A job that turns to the history without its queue reconciled.
LEMMA DisturbedStartsHistory ==
    ASSUME NEW j \in JobStates
    PROVE  LET k == StartHistory([j EXCEPT !.solo = FALSE]) IN k \in JobStates /\ k.solo = FALSE
BY DisturbedIsAJob, StartHistoryIsAJob

\* The record of a job that begins.
Begun(full, solo) ==
    [NoJob EXCEPT !.step = "readQueue", !.full = full, !.bypass = full,
                  !.queueSeen = queueStamp, !.historySeen = historyStamp, !.solo = solo]

\* A job that begins knows the stamps it must beat.
LEMMA BegunIsAJob ==
    ASSUME queueStamp \in Nat, historyStamp \in Nat, NEW full \in BOOLEAN, NEW solo \in BOOLEAN
    PROVE  LET k == Begun(full, solo)
           IN  /\ k \in JobStates /\ k.solo = solo /\ k.full = full
               /\ k.step = "readQueue" /\ k.phase = "queue" /\ k.page = {} /\ k.dead = {}
BY DEF Begun, NoJob, JobStates, JobSteps

\* The record of a job that goes on with a page of the queue, or of the history.
QueueReadBy(j, p, solo) ==
    [j EXCEPT !.at = p.at, !.page = p.page, !.complete = p.complete, !.step = "revive", !.queueSeen = 0, !.solo = solo]
HistoryReadBy(j, p, solo) ==
    [j EXCEPT !.at = p.at, !.page = p.page, !.step = "upsertHistory", !.bypass = FALSE, !.historySeen = 0, !.solo = solo]

\* A job with its page of the queue.
LEMMA QueueReadIsAJob ==
    ASSUME NEW j \in JobStates, NEW p \in PageStates, NEW solo \in BOOLEAN
    PROVE  LET k == QueueReadBy(j, p, solo)
           IN  /\ k \in JobStates /\ k.solo = solo /\ k.full = j.full /\ k.complete = p.complete
               /\ k.step = "revive" /\ k.phase = j.phase /\ k.page = p.page /\ k.dead = j.dead /\ k.at = p.at
BY DEF QueueReadBy, JobStates, JobSteps, PageStates

\* A job with its page of the history.
LEMMA HistoryReadIsAJob ==
    ASSUME NEW j \in JobStates, NEW p \in PageStates, NEW solo \in BOOLEAN
    PROVE  LET k == HistoryReadBy(j, p, solo)
           IN  /\ k \in JobStates /\ k.solo = solo /\ k.full = j.full
               /\ k.step = "upsertHistory" /\ k.phase = j.phase /\ k.page = p.page /\ k.dead = j.dead /\ k.at = p.at
BY DEF HistoryReadBy, JobStates, JobSteps, PageStates

\* An answer is a page of what was asked for.
LEMMA PagesAreStates ==
    ASSUME clock \in Nat, NEW all \in SUBSET Txs, NEW p \in Pages(all)
    PROVE  p \in PageStates /\ p.page \subseteq all
<1>1. PICK a \in 1..clock, page \in {q \in SUBSET all : IsPage(q, all)} :
        p = [at |-> a, page |-> page, complete |-> (page = all)]
  BY DEF Pages
<1>2. a \in Nat /\ page \subseteq all /\ page \subseteq Txs /\ (page = all) \in BOOLEAN
  OBVIOUS
<1>. QED
  BY <1>1, <1>2 DEF PageStates

\* What syncStore starts from.
LEMMA BeginSetsJobs ==
    ASSUME NEW w \in Jobs, NEW full \in BOOLEAN, Begin(w, full)
    PROVE  \E solo \in BOOLEAN :
              /\ solo => full /\ event.step = "idle" /\ (\A v \in Jobs : Ended(v))
              /\ job' = [v \in Jobs |-> IF v # w THEN [job[v] EXCEPT !.solo = FALSE] ELSE Begun(full, solo)]
<1>. DEFINE solo == full /\ event.step = "idle" /\ (\A v \in Jobs : Ended(v))
<1>1. solo \in BOOLEAN
  OBVIOUS
<1>2. job' = [v \in Jobs |-> IF v # w THEN [job[v] EXCEPT !.solo = FALSE] ELSE Begun(full, solo)]
  BY Zenon DEF Begin, Begun
<1>. QED
  BY <1>1, <1>2, Zenon

\* A page of the queue was answered just now or kept, and is used only if it is
\* newer than the stamp.
LEMMA ReadQueueSetsJob ==
    ASSUME TypeOK, NEW w \in Jobs, ReadQueue(w)
    PROVE  \E p \in PageStates :
              /\ p.page \subseteq Queue \/ p = cached[w]
              /\ \/ \E solo \in BOOLEAN :
                       /\ solo => /\ job[w].solo /\ p.complete /\ p.page = Queue
                                  /\ \A t \in Txs : refreshedAt[t] < p.at
                       /\ Set(w, QueueReadBy(job[w], p, solo))
                 \/ Set(w, StartHistory([job[w] EXCEPT !.solo = FALSE]))
<1>1. PICK p \in PageStates : TakeQueue(w, p) /\ (p.page \subseteq Queue \/ p = cached[w])
  <2>1. Queue \in SUBSET Txs /\ clock \in Nat /\ cached[w] \in PageStates
    BY DEF TypeOK, Queue
  <2>2. CASE \E p \in Pages(Queue) : TakeQueue(w, p)
    BY <2>1, <2>2, PagesAreStates
  <2>3. CASE TakeQueue(w, cached[w])
    BY <2>1, <2>3
  <2>. QED
    BY <2>2, <2>3 DEF ReadQueue
<1>. DEFINE solo == job[w].solo /\ p.complete /\ p.page = Queue /\ (\A t \in Txs : refreshedAt[t] < p.at)
<1>2. solo \in BOOLEAN
  OBVIOUS
<1>3. Set(w, IF p.at > job[w].queueSeen THEN QueueReadBy(job[w], p, solo)
             ELSE StartHistory([job[w] EXCEPT !.solo = FALSE]))
  BY <1>1, Zenon DEF TakeQueue, QueueReadBy
<1>4. CASE p.at > job[w].queueSeen
  <2>1. Set(w, QueueReadBy(job[w], p, solo))
    BY <1>3, <1>4, Zenon DEF Set
  <2>. QED
    BY <1>1, <1>2, <2>1, Zenon
<1>5. CASE ~(p.at > job[w].queueSeen)
  <2>1. Set(w, StartHistory([job[w] EXCEPT !.solo = FALSE]))
    BY <1>3, <1>5, Zenon DEF Set
  <2>. QED
    BY <1>1, <2>1, Zenon
<1>. QED
  BY <1>4, <1>5, Zenon

\* A page of the history is used only if it is newer than the stamp.
LEMMA ReadHistorySetsJob ==
    ASSUME TypeOK, NEW w \in Jobs, ReadHistory(w)
    PROVE  \/ \E p \in PageStates, solo \in BOOLEAN :
                 /\ p.page \subseteq indexed
                 /\ solo => job[w].solo /\ p.page = indexed
                 /\ Set(w, HistoryReadBy(job[w], p, solo))
           \/ Set(w, Done([job[w] EXCEPT !.solo = FALSE]))
<1>0. PICK past \in SUBSET indexed : \E p \in Pages(past) :
        Set(w, IF p.at > job[w].historySeen THEN HistoryReadBy(job[w], p, job[w].solo /\ p.page = indexed)
               ELSE Done([job[w] EXCEPT !.solo = FALSE]))
  BY Zenon DEF ReadHistory, HistoryReadBy
<1>1. PICK p \in Pages(past) :
        Set(w, IF p.at > job[w].historySeen THEN HistoryReadBy(job[w], p, job[w].solo /\ p.page = indexed)
               ELSE Done([job[w] EXCEPT !.solo = FALSE]))
  BY <1>0
<1>2. p \in PageStates /\ p.page \subseteq indexed
  <2>1. past \in SUBSET Txs /\ clock \in Nat
    BY DEF TypeOK
  <2>. QED
    BY <2>1, PagesAreStates
<1>. DEFINE solo == job[w].solo /\ p.page = indexed
<1>3. solo \in BOOLEAN
  OBVIOUS
<1>4. CASE p.at > job[w].historySeen
  <2>1. Set(w, HistoryReadBy(job[w], p, solo))
    BY <1>1, <1>4, Zenon DEF Set
  <2>. QED
    BY <1>2, <1>3, <2>1, Zenon
<1>5. CASE ~(p.at > job[w].historySeen)
  BY <1>1, <1>5, Zenon DEF Set
<1>. QED
  BY <1>4, <1>5, Zenon

\* The record of a job that moves on, has retired rows, or settles rows.
MovedOn(j, step) == [j EXCEPT !.step = step]
RetiredBy(j, bypass) == [j EXCEPT !.step = "upsertQueue", !.complete = FALSE, !.bypass = bypass]
SettlingWith(j, dead, step) == [j EXCEPT !.dead = dead, !.step = step]

\* A job that moves on keeps its pages and its times.
LEMMA GoIsAJob ==
    ASSUME NEW j \in JobStates, NEW step \in JobSteps
    PROVE  LET k == MovedOn(j, step)
           IN  /\ k \in JobStates /\ k.step = step /\ k.phase = j.phase /\ k.page = j.page /\ k.dead = j.dead
               /\ k.solo = j.solo /\ k.full = j.full /\ k.at = j.at /\ k.complete = j.complete
BY DEF MovedOn, JobStates

\* A job after it retired the rows that left the queue.
LEMMA RetiredIsAJob ==
    ASSUME NEW j \in JobStates, NEW bypass \in BOOLEAN
    PROVE  LET k == RetiredBy(j, bypass)
           IN  /\ k \in JobStates /\ k.step = "upsertQueue" /\ k.phase = j.phase /\ k.page = j.page /\ k.dead = j.dead
               /\ k.solo = j.solo /\ k.full = j.full /\ k.at = j.at
BY DEF RetiredBy, JobStates, JobSteps

\* What the second update of reconcileQueue leaves to do.
LEMMA RetireSetsJob ==
    ASSUME NEW w \in Jobs, job[w] \in JobStates, Retire(w)
    PROVE  \E bypass \in BOOLEAN : job[w].step = "retire" /\ Set(w, RetiredBy(job[w], bypass))
<1>. DEFINE gone == {t \in Txs \ job[w].page : state[t] = "live" /\ refreshedAt[t] < job[w].at}
            bypass == job[w].bypass \/ (job[w].complete /\ gone # {})
<1>1. bypass \in BOOLEAN
  OBVIOUS
<1>2. job[w].step = "retire" /\ Set(w, RetiredBy(job[w], bypass))
  BY Zenon DEF Retire, RetiredBy, At
<1>. QED
  BY <1>1, <1>2, Zenon

\* A job that settles rows of spent nonces.
LEMMA SettlingIsAJob ==
    ASSUME NEW j \in JobStates, NEW dead \in SUBSET Txs, NEW step \in JobSteps
    PROVE  LET k == SettlingWith(j, dead, step)
           IN  /\ k \in JobStates /\ k.step = step /\ k.phase = j.phase /\ k.page = j.page /\ k.dead = dead
               /\ k.solo = j.solo /\ k.full = j.full /\ k.at = j.at
BY DEF SettlingWith, JobStates

\* A job that is not under way intends nothing.
LEMMA EndedJobs ==
    /\ NoJob.step = "idle" /\ NoJob.phase = "queue" /\ NoJob.page = {} /\ NoJob.dead = {} /\ NoJob.solo = FALSE
    /\ \A j : /\ Done(j).step = "done" /\ Done(j).phase = "queue" /\ Done(j).page = {}
              /\ Done(j).dead = {} /\ Done(j).solo = j.solo
BY DEF NoJob, Done

\* A step of a running job leaves the clock, the chain, the service and the event alone.
LEMMA JobStepFrame ==
    ASSUME NEW w \in Jobs, JobStep(w)
    PROVE  UNCHANGED <<clock, chainNonce, executed, proposed, deleted, indexed, event>>
BY DEF JobStep, Begin, ReadQueue, QueueUnread, Revive, Retire, UpsertQueue, SettleFind, SettleRead, SettleWrite,
   Stamp, ReadHistory, HistoryUnread, UpsertHistory, Rivals, JobFails, chain, service

\* A job takes a kept page at most away.
LEMMA CachedIsKnown ==
    ASSUME TypeOK, NEW w \in Jobs, JobStep(w)
    PROVE  /\ cached' \in [Jobs -> PageStates]
           /\ \A v \in Jobs : cached'[v].page \subseteq cached[v].page
<1>1. cached \in [Jobs -> PageStates] /\ NoPage \in PageStates /\ NoPage.page = {}
  BY DEF TypeOK, NoPage, PageStates
<1>2. cached' = cached \/ cached' = [cached EXCEPT ![w] = NoPage]
  BY DEF JobStep, Begin, ReadQueue, QueueUnread, Revive, Retire, UpsertQueue, SettleFind, SettleRead, SettleWrite,
     Stamp, ReadHistory, HistoryUnread, UpsertHistory, Rivals, JobFails
<1>. QED
  BY <1>1, <1>2

\* Every step of a job keeps the types.
LEMMA JobStepTypes ==
    ASSUME TypeOK, NEW w \in Jobs, JobStep(w)
    PROVE  TypeOK'
<1>. USE DEF TypeOK
<1>0. UNCHANGED <<clock, chainNonce, executed, proposed, deleted, indexed, event>>
  BY JobStepFrame
<1>1. job[w] \in JobStates
  OBVIOUS
<1>2. job' \in [Jobs -> JobStates]
  <2>1. ASSUME NEW full \in BOOLEAN, Begin(w, full) PROVE job' \in [Jobs -> JobStates]
    <3>1. PICK solo \in BOOLEAN :
            job' = [v \in Jobs |-> IF v # w THEN [job[v] EXCEPT !.solo = FALSE] ELSE Begun(full, solo)]
      BY <2>1, BeginSetsJobs
    <3>2. Begun(full, solo) \in JobStates
      BY BegunIsAJob
    <3>3. \A v \in Jobs : [job[v] EXCEPT !.solo = FALSE] \in JobStates
      BY DisturbedIsAJob
    <3>. QED
      BY <3>1, <3>2, <3>3
  <2>. DEFINE Sets == \E j \in JobStates : Set(w, j)
  <2>. USE <1>1, NoJobIsAJob, DoneIsAJob, StartHistoryIsAJob
  <2>2. ASSUME ReadQueue(w) PROVE Sets
    <3>1. Queue \subseteq Txs
      BY DEF Queue
    <3>. QED
      BY <2>2, <3>1, ReadQueueSetsJob, QueueReadIsAJob, DisturbedIsAJob
  <2>3. ASSUME QueueUnread(w) \/ HistoryUnread(w) \/ JobFails(w) PROVE Sets
    BY <2>3, DisturbedIsAJob DEF QueueUnread, HistoryUnread, JobFails
  <2>4. ASSUME Revive(w) \/ UpsertQueue(w) \/ UpsertHistory(w) \/ Rivals(w) PROVE Sets
    BY <2>4 DEF Revive, UpsertQueue, UpsertHistory, Rivals, Go, JobStates, JobSteps
  <2>5. ASSUME Retire(w) \/ SettleWrite(w) PROVE Sets
    BY <2>5, RetireSetsJob, RetiredIsAJob DEF SettleWrite, JobStates, JobSteps
  <2>6. ASSUME SettleFind(w) PROVE Sets
    BY <2>6 DEF SettleFind, JobStates, JobSteps
  <2>7. ASSUME SettleRead(w) PROVE Sets
    BY <2>7 DEF SettleRead, JobStates, JobSteps
  <2>8. ASSUME Stamp(w) PROVE Sets
    BY <2>8 DEF Stamp
  <2>9. ASSUME ReadHistory(w) PROVE Sets
    BY <2>9, ReadHistorySetsJob, HistoryReadIsAJob, DisturbedIsAJob
  <2>10. Sets => job' \in [Jobs -> JobStates]
    BY DEF Set
  <2>. QED
    BY <2>1, <2>2, <2>3, <2>4, <2>5, <2>6, <2>7, <2>8, <2>9, <2>10 DEF JobStep
<1>3. state' \in [Txs -> RowStates]
  BY DEF JobStep, Begin, ReadQueue, QueueUnread, Revive, Retire, UpsertQueue, SettleFind, SettleRead, SettleWrite,
     Stamp, ReadHistory, HistoryUnread, UpsertHistory, Rivals, JobFails, Supersede, rows, RowStates
<1>4. refreshedAt' \in [Txs -> Nat]
  <2>1. refreshedAt' = refreshedAt \/ Refresh(w)
    BY DEF JobStep, Begin, ReadQueue, QueueUnread, Revive, Retire, UpsertQueue, SettleFind, SettleRead, SettleWrite,
       Stamp, ReadHistory, HistoryUnread, UpsertHistory, Rivals, JobFails, rows
  <2>. QED
    BY <1>1, <2>1 DEF Refresh, JobStates
<1>5. queueStamp' \in Nat /\ historyStamp' \in Nat
  <2>1. CASE Stamp(w)
    BY <1>1, <2>1 DEF Stamp, JobStates
  <2>2. CASE ~Stamp(w)
    BY <2>2 DEF JobStep, Begin, ReadQueue, QueueUnread, Revive, Retire, UpsertQueue, SettleFind, SettleRead,
       SettleWrite, ReadHistory, HistoryUnread, UpsertHistory, Rivals, JobFails, account
  <2>. QED
    BY <2>1, <2>2
<1>. QED
  BY <1>0, <1>2, <1>3, <1>4, <1>5, CachedIsKnown DEF RowStates, JobStates, JobSteps

-----------------------------------------------------------------------------
(* What rows, jobs and events say is true of the chain *)

Truth == TypeOK /\ SettledIsTrue /\ IntentsAreTrue /\ RowsAreKnown

\* What a job may intend, when the rows are st.
TrueJob(j, st) ==
    /\ j.step = "settleWrite" => \A t \in j.dead : Nonce[t] < chainNonce
    /\ j.phase = "history" => j.page \subseteq executed
    /\ j.step \in {"readQueue", "revive", "retire", "upsertQueue"} => j.phase = "queue"
    /\ j.step \in {"readHistory", "upsertHistory", "rivals"} => j.phase = "history"
    /\ j.page \subseteq proposed
    /\ j.step \in {"rivals", "settleFind", "settleRead", "settleWrite", "stamp"} =>
          \A t \in j.page : st[t] # "absent"

\* What the rows may become.
TrueRows(st) ==
    \A t \in Txs : /\ st[t] = "superseded" => Nonce[t] < chainNonce
                   /\ st[t] = "executed" => t \in executed
                   /\ st[t] # "absent" => t \in proposed
                   /\ state[t] # "absent" => st[t] # "absent"

\* The truth of rows and jobs, as facts about values.
LEMMA TruthOfJobs == Truth => TrueRows(state) /\ \A w \in Jobs : TrueJob(job[w], state)
BY DEF Truth, SettledIsTrue, IntentsAreTrue, RowsAreKnown, TrueRows, TrueJob, At

\* A step of one job keeps the truth if what it writes is true.
LEMMA JobKeepsTruth ==
    ASSUME Truth, TypeOK', NEW w \in Jobs, NEW j \in JobStates, Set(w, j),
           UNCHANGED <<chainNonce, executed, proposed, event>>, TrueJob(j, state'), TrueRows(state'),
           \A v \in Jobs : cached'[v].page \subseteq cached[v].page
    PROVE  Truth'
<1>1. \A v \in Jobs : job'[v] = IF v = w THEN j ELSE job[v]
  BY DEF Set, Truth, TypeOK
<1>2. SettledIsTrue'
  BY DEF SettledIsTrue, TrueRows
<1>3. \A v \in Jobs : TrueJob(job[v], state')
  <2>. SUFFICES ASSUME NEW v \in Jobs PROVE TrueJob(job[v], state')
    OBVIOUS
  <2>1. TrueJob(job[v], state) /\ job[v].page \subseteq Txs
    BY TruthOfJobs DEF Truth, TypeOK, JobStates
  <2>. QED
    BY <2>1 DEF TrueJob, TrueRows
<1>4. \A v \in Jobs : TrueJob(job'[v], state')
  BY <1>1, <1>3
<1>5. IntentsAreTrue'
  BY <1>4 DEF Truth, IntentsAreTrue, TrueJob, At
<1>6. RowsAreKnown'
  BY <1>4 DEF Truth, RowsAreKnown, TrueJob, TrueRows
<1>. QED
  BY <1>2, <1>5, <1>6 DEF Truth

\* A step of a job writes what its page and the chain said, and neither can be undone.
LEMMA JobStepKeepsTruth ==
    ASSUME Truth, NEW w \in Jobs, JobStep(w)
    PROVE  Truth'
<1>0. UNCHANGED <<clock, chainNonce, executed, proposed, deleted, indexed, event>>
  BY JobStepFrame
<1>1. TypeOK'
  BY JobStepTypes DEF Truth
<1>2. /\ job[w] \in JobStates /\ state \in [Txs -> RowStates] /\ clock \in Nat /\ indexed \subseteq executed
      /\ Queue \subseteq proposed /\ Queue \subseteq Txs /\ executed \subseteq Txs /\ executed \subseteq proposed
      /\ \A t \in executed : Nonce[t] < chainNonce
  BY DEF Truth, TypeOK, Queue, RowsAreKnown, IntentsAreTrue
<1>3. TrueJob(job[w], state) /\ TrueRows(state)
  BY TruthOfJobs
<1>. DEFINE Kept == \E j \in JobStates : Set(w, j) /\ TrueJob(j, state') /\ TrueRows(state')
<1>. USE <1>2, <1>3
<1>4. Kept => Truth'
  BY <1>0, <1>1, JobKeepsTruth, CachedIsKnown DEF Truth
<1>5. ASSUME NEW full \in BOOLEAN, Begin(w, full) PROVE Truth'
  <2>1. PICK solo \in BOOLEAN :
          job' = [v \in Jobs |-> IF v # w THEN [job[v] EXCEPT !.solo = FALSE] ELSE Begun(full, solo)]
    BY <1>5, BeginSetsJobs
  <2>2. state' = state /\ cached' = cached
    BY <1>5 DEF Begin, rows
  <2>3. \A v \in Jobs : TrueJob(job'[v], state)
    <3>. SUFFICES ASSUME NEW v \in Jobs PROVE TrueJob(job'[v], state)
      OBVIOUS
    <3>1. CASE v = w
      <4>1. job'[v] = Begun(full, solo)
        BY <2>1, <3>1
      <4>. QED
        BY <4>1, BegunIsAJob DEF Truth, TypeOK, TrueJob
    <3>2. CASE v # w
      <4>1. job'[v] = [job[v] EXCEPT !.solo = FALSE] /\ job[v] \in JobStates
        BY <2>1, <3>2 DEF Truth, TypeOK
      <4>2. /\ job'[v].step = job[v].step /\ job'[v].phase = job[v].phase /\ job'[v].page = job[v].page
            /\ job'[v].dead = job[v].dead
        BY <4>1, DisturbedIsAJob
      <4>. QED
        BY <4>2, TruthOfJobs DEF TrueJob
    <3>. QED
      BY <3>1, <3>2
  <2>. QED
    BY <1>0, <1>1, <2>2, <2>3 DEF Truth, SettledIsTrue, IntentsAreTrue, RowsAreKnown, TrueJob, At
<1>6. ASSUME ReadQueue(w) PROVE Kept
  <2>1. state' = state /\ job[w].phase = "queue"
    BY <1>6 DEF ReadQueue, rows, At, TrueJob
  <2>2. CASE Set(w, StartHistory([job[w] EXCEPT !.solo = FALSE]))
    BY <2>1, <2>2, DisturbedIsAJob, StartHistoryIsAJob DEF TrueJob
  <2>3. ASSUME NEW p \in PageStates, p.page \subseteq Queue \/ p = cached[w], NEW solo \in BOOLEAN,
               Set(w, QueueReadBy(job[w], p, solo))
        PROVE  Kept
    <3>1. p.page \subseteq proposed
      BY <2>3 DEF Truth, RowsAreKnown
    <3>. QED
      BY <2>1, <2>3, <3>1, QueueReadIsAJob DEF TrueJob
  <2>. QED
    BY <1>6, <2>2, <2>3, ReadQueueSetsJob DEF Truth
<1>7. ASSUME QueueUnread(w) PROVE Kept
  <2>1. state' = state
    BY <1>7 DEF QueueUnread, rows
  <2>2. CASE Set(w, NoJob)
    BY <2>1, <2>2, NoJobIsAJob, EndedJobs DEF TrueJob
  <2>3. CASE Set(w, StartHistory([job[w] EXCEPT !.solo = FALSE]))
    BY <2>1, <2>3, DisturbedIsAJob, StartHistoryIsAJob DEF TrueJob
  <2>. QED
    BY <1>7, <2>2, <2>3 DEF QueueUnread
<1>8. ASSUME Revive(w) PROVE Kept
  <2>1. TrueRows(state')
    BY <1>8 DEF Revive, TrueRows
  <2>5. job[w].step = "revive" /\ Set(w, MovedOn(job[w], "retire")) /\ "retire" \in JobSteps
    BY <1>8 DEF Revive, Go, At, MovedOn, JobSteps
  <2>. QED
    BY <2>1, <2>5, GoIsAJob DEF TrueJob
<1>9. ASSUME Retire(w) PROVE Kept
  <2>1. TrueRows(state')
    BY <1>9 DEF Retire, TrueRows
  <2>. QED
    <3>1. PICK bypass \in BOOLEAN : job[w].step = "retire" /\ Set(w, RetiredBy(job[w], bypass))
      BY <1>9, RetireSetsJob
    <3>. QED
      BY <2>1, <3>1, RetiredIsAJob DEF TrueJob
<1>10. ASSUME UpsertQueue(w) PROVE Kept
  <2>1. job[w].page \subseteq proposed /\ job[w].page \subseteq Txs
    BY DEF TrueJob, JobStates
  <2>2. TrueRows(state') /\ \A t \in job[w].page : state'[t] # "absent"
    BY <1>10, <2>1 DEF UpsertQueue, TrueRows
  <2>5. job[w].step = "upsertQueue" /\ Set(w, MovedOn(job[w], "settleFind")) /\ "settleFind" \in JobSteps
    BY <1>10 DEF UpsertQueue, Go, At, MovedOn, JobSteps
  <2>. QED
    BY <2>2, <2>5, GoIsAJob DEF TrueJob
<1>11. ASSUME SettleFind(w) PROVE Kept
  <2>1. PICK dead \in SUBSET Txs, step \in {"stamp", "settleRead"} :
           Set(w, SettlingWith(job[w], dead, step))
    BY <1>11 DEF SettleFind, SettlingWith
  <2>2. state' = state
    BY <1>11 DEF SettleFind, rows
  <2>3. step \in JobSteps
    BY DEF JobSteps
  <2>4. job[w].step = "settleFind"
    BY <1>11 DEF SettleFind, At
  <2>. QED
    BY <2>1, <2>2, <2>3, <2>4, SettlingIsAJob DEF TrueJob
<1>12. ASSUME SettleRead(w) PROVE Kept
  <2>1. PICK dead \in SUBSET Txs, step \in {"stamp", "settleWrite"} :
           Set(w, SettlingWith(job[w], dead, step)) /\ \A t \in dead : Nonce[t] < chainNonce
    <3>. DEFINE dead == {t \in job[w].dead : Nonce[t] < chainNonce}
    <3>1. dead \in SUBSET Txs
      BY DEF JobStates
    <3>2. Set(w, SettlingWith(job[w], dead, IF dead = {} THEN "stamp" ELSE "settleWrite"))
      BY <1>12 DEF SettleRead, SettlingWith
    <3>. QED
      BY <3>1, <3>2
  <2>2. state' = state
    BY <1>12 DEF SettleRead, rows
  <2>3. step \in JobSteps
    BY DEF JobSteps
  <2>4. job[w].step = "settleRead"
    BY <1>12 DEF SettleRead, At
  <2>. QED
    BY <2>1, <2>2, <2>3, <2>4, SettlingIsAJob DEF TrueJob
<1>13. ASSUME SettleWrite(w) PROVE Kept
  <2>1. /\ job[w].step = "settleWrite" /\ Set(w, SettlingWith(job[w], {}, "stamp"))
        /\ "stamp" \in JobSteps /\ {} \in SUBSET Txs /\ job[w].page \subseteq Txs
    BY <1>13 DEF SettleWrite, At, SettlingWith, JobSteps, JobStates
  <2>2. TrueRows(state')
    BY <1>13, <2>1 DEF SettleWrite, TrueRows, TrueJob, Unsettled
  <2>. QED
    BY <2>1, <2>2, SettlingIsAJob DEF TrueJob, TrueRows
<1>14. ASSUME Stamp(w) PROVE Kept
  <2>1. state' = state
    BY <1>14 DEF Stamp, rows
  <2>. QED
    BY <1>14, <2>1, StartHistoryIsAJob, DoneIsAJob, EndedJobs DEF Stamp, TrueJob
<1>15. ASSUME ReadHistory(w) PROVE Kept
  <2>1. state' = state /\ job[w].phase = "history"
    BY <1>15 DEF ReadHistory, rows, At, TrueJob
  <2>2. CASE Set(w, Done([job[w] EXCEPT !.solo = FALSE]))
    BY <2>1, <2>2, DoneIsAJob, DisturbedIsAJob, EndedJobs DEF TrueJob
  <2>3. ASSUME NEW p \in PageStates, NEW solo \in BOOLEAN, p.page \subseteq indexed,
               Set(w, HistoryReadBy(job[w], p, solo))
        PROVE  Kept
    BY <2>1, <2>3, HistoryReadIsAJob DEF TrueJob
  <2>. QED
    BY <1>15, <2>2, <2>3, ReadHistorySetsJob DEF Truth
<1>16. ASSUME HistoryUnread(w) \/ JobFails(w) PROVE Kept
  BY <1>16, NoJobIsAJob, DoneIsAJob, EndedJobs DEF HistoryUnread, JobFails, rows, TrueJob
<1>17. ASSUME UpsertHistory(w) PROVE Kept
  <2>1. job[w].phase = "history" /\ job[w].page \subseteq executed
    BY <1>17 DEF UpsertHistory, At, TrueJob
  <2>2. TrueRows(state') /\ \A t \in job[w].page : state'[t] # "absent"
    BY <1>17, <2>1 DEF UpsertHistory, TrueRows
  <2>5. job[w].step = "upsertHistory" /\ Set(w, MovedOn(job[w], "rivals")) /\ "rivals" \in JobSteps
    BY <1>17 DEF UpsertHistory, Go, At, MovedOn, JobSteps
  <2>. QED
    BY <2>1, <2>2, <2>5, GoIsAJob DEF TrueJob
<1>18. ASSUME Rivals(w) PROVE Kept
  <2>1. job[w].phase = "history" /\ job[w].page \subseteq executed
    BY <1>18 DEF Rivals, At, TrueJob
  <2>2. TrueRows(state')
    BY <1>18, <2>1 DEF Rivals, Supersede, LiveRivals, TrueRows
  <2>5. job[w].step = "rivals" /\ Set(w, MovedOn(job[w], "settleFind")) /\ "settleFind" \in JobSteps
    BY <1>18 DEF Rivals, Go, At, MovedOn, JobSteps
  <2>. QED
    <3>1. \A t \in job[w].page : state'[t] # "absent"
      BY <2>2, <2>5 DEF TrueJob, TrueRows, JobStates
    <3>. QED
      BY <2>1, <2>2, <2>5, <3>1, GoIsAJob DEF TrueJob
<1>. QED
  BY <1>4, <1>5, <1>6, <1>7, <1>8, <1>9, <1>10, <1>11, <1>12, <1>13, <1>14, <1>15, <1>16, <1>17, <1>18 DEF JobStep

\* The steps of others leave a job's pages and times alone.
LEMMA DisturbKeepsJobs ==
    ASSUME TypeOK, Disturb
    PROVE  /\ job' \in [Jobs -> JobStates]
           /\ \A w \in Jobs : /\ job'[w].solo = FALSE /\ job'[w].step = job[w].step /\ job'[w].phase = job[w].phase
                              /\ job'[w].page = job[w].page /\ job'[w].dead = job[w].dead
<1>1. \A w \in Jobs : job[w] \in JobStates /\ job'[w] = [job[w] EXCEPT !.solo = FALSE]
  BY DEF TypeOK, Disturb
<1>2. \A w \in Jobs : job'[w] \in JobStates
  BY <1>1, DisturbedIsAJob
<1>3. job' = [w \in Jobs |-> [job[w] EXCEPT !.solo = FALSE]]
  BY DEF Disturb
<1>. QED
  BY <1>1, <1>2, <1>3, DisturbedIsAJob

\* What is proposed, deleted, executed or indexed meanwhile refutes no row and
\* no intent: nonces are only ever spent.
LEMMA ServiceKeepsTruth ==
    ASSUME Truth, NEW t \in Txs, Propose(t) \/ Delete(t) \/ Execute(t) \/ Index(t)
    PROVE  Truth'
<1>1. Disturb /\ UNCHANGED <<state, refreshedAt, queueStamp, historyStamp, cached, event, clock>>
  BY DEF Propose, Delete, Execute, Index, rows, account
<1>2. /\ job' \in [Jobs -> JobStates]
      /\ \A w \in Jobs : /\ job'[w].step = job[w].step /\ job'[w].phase = job[w].phase
                         /\ job'[w].page = job[w].page /\ job'[w].dead = job[w].dead
  BY <1>1, DisturbKeepsJobs DEF Truth
<1>3. /\ executed \subseteq executed' /\ proposed \subseteq proposed' /\ chainNonce \in Nat /\ chainNonce' \in Nat
      /\ chainNonce <= chainNonce' /\ executed' \subseteq proposed' /\ executed' \subseteq Txs /\ proposed' \subseteq Txs
      /\ deleted' \subseteq Txs /\ indexed' \subseteq executed'
      /\ \A u \in executed' : Nonce[u] < chainNonce'
  BY DEF Truth, TypeOK, RowsAreKnown, IntentsAreTrue, Propose, Delete, Execute, Index, service, chain, Queue
<1>4. TypeOK'
  BY <1>1, <1>2, <1>3 DEF Truth, TypeOK, RowStates, JobStates, JobSteps
<1>5. \A u \in Txs : Nonce[u] < chainNonce => Nonce[u] < chainNonce'
  BY <1>3
<1>6. SettledIsTrue'
  BY <1>1, <1>3, <1>5 DEF Truth, SettledIsTrue
<1>7. RowsAreKnown'
  BY <1>1, <1>2, <1>3 DEF Truth, RowsAreKnown
<1>8. IntentsAreTrue'
  <2>1. event'.step # "idle" => event'.tx \in executed'
    BY <1>1, <1>3 DEF Truth, IntentsAreTrue
  <2>2. ASSUME NEW w \in Jobs
        PROVE  /\ job'[w].step = "settleWrite" => \A u \in job'[w].dead : Nonce[u] < chainNonce'
               /\ job'[w].phase = "history" => job'[w].page \subseteq executed'
               /\ job'[w].step \in {"readQueue", "revive", "retire", "upsertQueue"} => job'[w].phase = "queue"
               /\ job'[w].step \in {"readHistory", "upsertHistory", "rivals"} => job'[w].phase = "history"
    <3>1. job[w].dead \subseteq Txs
      BY DEF Truth, TypeOK, JobStates
    <3>. QED
      BY <1>2, <1>3, <1>5, <3>1 DEF Truth, IntentsAreTrue, At
  <2>. QED
    BY <1>3, <2>1, <2>2 DEF IntentsAreTrue, At
<1>. QED
  BY <1>4, <1>6, <1>7, <1>8 DEF Truth

\* SafeExecutionHandler writes what the chain's event says.
LEMMA HandlerKeepsTruth ==
    ASSUME Truth, (\E t \in Txs : HandleFind(t)) \/ HandleUpdate \/ HandleRivals \/ HandlerFails
    PROVE  Truth'
<1>1. UNCHANGED <<clock, chainNonce, executed, proposed, deleted, indexed, refreshedAt, queueStamp, historyStamp, cached>>
  BY DEF HandleFind, HandleUpdate, HandleRivals, HandlerFails, chain, service, rows, account
<1>2. /\ job' \in [Jobs -> JobStates]
      /\ \A w \in Jobs : /\ job'[w].step = job[w].step /\ job'[w].phase = job[w].phase
                         /\ job'[w].page = job[w].page /\ job'[w].dead = job[w].dead
  BY DisturbKeepsJobs DEF Truth, TypeOK, HandleFind, HandleUpdate, HandleRivals, HandlerFails
<1>3. /\ event' \in [step : {"idle", "update", "rivals"}, tx : Txs \cup {"none"}]
      /\ event'.step # "idle" => event'.tx \in executed
  BY DEF Truth, TypeOK, IntentsAreTrue, HandleFind, HandleUpdate, HandleRivals, HandlerFails, NoEvent
<1>4. state' \in [Txs -> RowStates] /\ TrueRows(state')
  <2>1. TrueRows(state) /\ state \in [Txs -> RowStates] /\ executed \subseteq proposed
        /\ \A t \in executed : Nonce[t] < chainNonce
    BY TruthOfJobs DEF Truth, TypeOK, RowsAreKnown, IntentsAreTrue
  <2>2. CASE state' = state
    BY <2>1, <2>2
  <2>3. CASE HandleUpdate
    <3>1. event.tx \in executed
      BY <2>3 DEF Truth, IntentsAreTrue, HandleUpdate
    <3>. QED
      BY <2>1, <2>3, <3>1 DEF HandleUpdate, TrueRows, RowStates
  <2>4. CASE HandleRivals
    <3>1. event.tx \in executed
      BY <2>4 DEF Truth, IntentsAreTrue, HandleRivals
    <3>. QED
      BY <2>1, <2>4, <3>1 DEF HandleRivals, Supersede, LiveRivals, TrueRows, RowStates
  <2>. QED
    BY <2>2, <2>3, <2>4 DEF HandleFind, HandlerFails, rows
<1>5. TypeOK'
  BY <1>1, <1>2, <1>3, <1>4 DEF Truth, TypeOK, RowStates, JobStates, JobSteps
<1>6. SettledIsTrue'
  BY <1>1, <1>4 DEF SettledIsTrue, TrueRows
<1>7. RowsAreKnown'
  <2>1. \A w \in Jobs : job[w].page \subseteq Txs
    BY DEF Truth, TypeOK, JobStates
  <2>. QED
    BY <1>1, <1>2, <1>4, <2>1 DEF Truth, RowsAreKnown, TrueRows
<1>8. IntentsAreTrue'
  BY <1>1, <1>2, <1>3 DEF Truth, IntentsAreTrue, At
<1>. QED
  BY <1>5, <1>6, <1>7, <1>8 DEF Truth

\* What the cache keeps was proposed.
LEMMA CacheKeepsTruth ==
    ASSUME Truth, NEW w \in Jobs, CacheQueue(w)
    PROVE  Truth'
<1>1. UNCHANGED <<clock, chainNonce, executed, proposed, deleted, indexed, state, refreshedAt, queueStamp,
                  historyStamp, job, event>>
  BY DEF CacheQueue, chain, service, rows, account
<1>2. PICK p \in PageStates : cached' = [cached EXCEPT ![w] = p] /\ p.page \subseteq proposed
  <2>1. Queue \in SUBSET Txs /\ clock \in Nat /\ Queue \subseteq proposed
    BY DEF Truth, TypeOK, Queue
  <2>2. PICK p \in Pages(Queue) : cached' = [cached EXCEPT ![w] = p]
    BY DEF CacheQueue
  <2>3. p \in PageStates /\ p.page \subseteq Queue
    BY <2>1, PagesAreStates
  <2>. QED
    BY <2>1, <2>2, <2>3
<1>3. cached' \in [Jobs -> PageStates] /\ \A v \in Jobs : cached'[v].page \subseteq proposed
  BY <1>2 DEF Truth, TypeOK, RowsAreKnown
<1>4. TypeOK' /\ SettledIsTrue' /\ IntentsAreTrue'
  BY <1>1, <1>3 DEF Truth, TypeOK, SettledIsTrue, IntentsAreTrue, At
<1>5. RowsAreKnown'
  BY <1>1, <1>3 DEF Truth, RowsAreKnown
<1>. QED
  BY <1>4, <1>5 DEF Truth

\* There are no rows at the start.
LEMMA InitTruth == Init => Truth
BY NoJobIsAJob, EndedJobs
DEF Init, NoPage, PageStates, Truth, TypeOK, SettledIsTrue, IntentsAreTrue, RowsAreKnown, RowStates, NoEvent, At

\* The truth of rows and jobs is inductive.
LEMMA NextKeepsTruth == Truth /\ [Next]_vars => Truth'
<1>. SUFFICES ASSUME Truth, [Next]_vars PROVE Truth'
  OBVIOUS
<1>1. CASE Tick
  <2>1. UNCHANGED <<chainNonce, executed, proposed, deleted, indexed, state, refreshedAt, queueStamp, historyStamp,
                    cached, job, event>> /\ clock' \in Nat
    BY <1>1 DEF Tick, chain, service, rows, account, Truth, TypeOK
  <2>. QED
    BY <2>1 DEF Truth, TypeOK, SettledIsTrue, IntentsAreTrue, RowsAreKnown, At
<1>2. CASE UNCHANGED vars
  <2>1. UNCHANGED <<clock, chainNonce, executed, proposed, deleted, indexed, state, refreshedAt, queueStamp,
                    historyStamp, cached, job, event>>
    BY <1>2 DEF vars, chain, service, rows, account
  <2>. QED
    BY <2>1 DEF Truth, TypeOK, SettledIsTrue, IntentsAreTrue, RowsAreKnown, At
<1>. QED
  BY <1>1, <1>2, ServiceKeepsTruth, HandlerKeepsTruth, CacheKeepsTruth, JobStepKeepsTruth DEF Next

\* Every settled row is true of the chain, and only proposed transactions have
\* rows, however jobs, events, the service and the chain interleave.
THEOREM RowsAreTrue == Spec => [](TypeOK /\ SettledIsTrue /\ IntentsAreTrue /\ RowsAreKnown)
BY InitTruth, NextKeepsTruth, PTL DEF Spec, Truth

-----------------------------------------------------------------------------
(* Settled rows and stamps *)

\* A row that is settled stays settled, whichever page or event comes late.
THEOREM SettledRowsStay == Spec => SettledIsFinal
<1>. DEFINE A == \A t \in Txs : /\ state[t] = "executed" => state'[t] = "executed"
                                /\ state[t] = "superseded" => state'[t] \in {"superseded", "executed"}
<1>1. Truth /\ [Next]_vars => [A]_vars
  <2>. SUFFICES ASSUME Truth, Next PROVE A
    OBVIOUS
  <2>1. state \in [Txs -> RowStates]
    BY DEF Truth, TypeOK
  <2>2. CASE state' = state
    BY <2>2
  <2>3. ASSUME NEW w \in Jobs, JobStep(w) PROVE A
    <3>1. CASE Revive(w) \/ Retire(w) \/ UpsertQueue(w) \/ SettleWrite(w) \/ UpsertHistory(w)
      BY <2>1, <3>1 DEF Revive, Retire, UpsertQueue, SettleWrite, UpsertHistory, Unsettled
    <3>2. CASE Rivals(w)
      BY <2>1, <3>2 DEF Rivals, Supersede, LiveRivals
    <3>. QED
      BY <2>2, <2>3, <3>1, <3>2 DEF JobStep, Begin, ReadQueue, QueueUnread, SettleFind, SettleRead, Stamp,
         ReadHistory, HistoryUnread, JobFails, rows
  <2>4. CASE HandleUpdate
    BY <2>1, <2>4 DEF HandleUpdate
  <2>5. CASE HandleRivals
    BY <2>1, <2>5 DEF HandleRivals, Supersede, LiveRivals
  <2>. QED
    BY <2>2, <2>3, <2>4, <2>5 DEF Next, Tick, Propose, Delete, Execute, Index, HandleFind, HandlerFails, CacheQueue, rows
<1>. QED
  BY <1>1, InitTruth, NextKeepsTruth, PTL DEF Spec, SettledIsFinal

\* When the queue's stamp moves, the rows of the page it stands for are there:
\* whoever reads the stamp before the rows reads no row missing.
THEOREM StampsFollowRows == Spec => StampAdvertisesRows
<1>. DEFINE A == queueStamp' # queueStamp =>
                   \E w \in Jobs : /\ job[w].at = queueStamp' /\ job[w].phase = "queue"
                                   /\ \A t \in job[w].page : state'[t] # "absent"
<1>1. Truth /\ [Next]_vars => [A]_vars
  <2>. SUFFICES ASSUME Truth, Next, queueStamp' # queueStamp
                PROVE  \E w \in Jobs : /\ job[w].at = queueStamp' /\ job[w].phase = "queue"
                                       /\ \A t \in job[w].page : state'[t] # "absent"
    OBVIOUS
  <2>1. PICK w \in Jobs : Stamp(w)
    BY DEF Next, JobStep, CacheQueue, Tick, Propose, Delete, Execute, Index, HandleFind, HandleUpdate, HandleRivals, HandlerFails,
       Begin, ReadQueue, QueueUnread, Revive, Retire, UpsertQueue, SettleFind, SettleRead, SettleWrite,
       ReadHistory, HistoryUnread, UpsertHistory, Rivals, JobFails, account
  <2>2. job[w].phase = "queue" /\ job[w].at = queueStamp' /\ job[w].step = "stamp" /\ state' = state
    BY <2>1 DEF Stamp, At, rows
  <2>. QED
    BY <2>2 DEF Truth, RowsAreKnown
<1>. QED
  BY <1>1, InitTruth, NextKeepsTruth, PTL DEF Spec, StampAdvertisesRows

-----------------------------------------------------------------------------
(* An undisturbed backfill *)

QueueStoredIn(st) == \A t \in Txs : /\ t \in Queue => st[t] \in {"live", "superseded", "executed"}
                                    /\ t \notin Queue => st[t] # "live"
HistoryStoredIn(st) == \A t \in indexed : st[t] = "executed"
NothingSpentIn(st) == \A t \in Txs : st[t] \in Unsettled => ~(Nonce[t] < chainNonce)

Settling == {"settleFind", "settleRead", "settleWrite", "stamp"}

\* What Repairing says of a job j, when the rows are st with ages ages.
Repaired(j, st, ages) ==
    /\ j.step \in {"revive", "retire"} => \A t \in Txs : ages[t] < j.at
    /\ j.step \in {"revive", "retire"} => j.complete
    /\ j.step \in {"revive", "retire", "upsertQueue"} => j.page = Queue
    /\ j.step \in {"retire", "upsertQueue"} => \A t \in Queue : st[t] # "removed"
    /\ j.step = "upsertQueue" => \A t \in Txs \ Queue : st[t] # "live"
    /\ j.step \in Settling \cup {"done", "readHistory", "upsertHistory", "rivals"} => QueueStoredIn(st)
    /\ j.step \in {"upsertHistory", "rivals"} => j.page = indexed
    /\ j.step \in {"rivals", "done"} \/ (j.phase = "history" /\ j.step \in Settling) => HistoryStoredIn(st)
    /\ j.step = "settleRead" => \A t \in Txs : st[t] \in Unsettled => t \in j.dead
    /\ j.step = "settleWrite" => \A t \in Txs : st[t] \in Unsettled /\ Nonce[t] < chainNonce => t \in j.dead
    /\ j.step \in {"stamp", "done"} => NothingSpentIn(st)

\* Only a backfill counts as undisturbed.
Ahead(j) == j.step # "done" => j.full

\* What an undisturbed backfill has repaired, as a fact about values.
LEMMA RepairedIsRepairing ==
    ASSUME NEW w \in Jobs
    PROVE  Repairing(w) <=> Repaired(job[w], state, refreshedAt)
<1>1. QueueIsStored <=> QueueStoredIn(state)
  BY DEF QueueIsStored, QueueStoredIn
<1>2. HistoryIsStored <=> HistoryStoredIn(state)
  BY DEF HistoryIsStored, HistoryStoredIn
<1>3. Spent = {} <=> NothingSpentIn(state)
  BY DEF Spent, NothingSpentIn
<1>4. Spent \subseteq job[w].dead <=>
         \A t \in Txs : state[t] \in Unsettled /\ Nonce[t] < chainNonce => t \in job[w].dead
  BY DEF Spent
<1>. QED
  BY <1>1, <1>2, <1>3, <1>4 DEF Repairing, Repaired, Settling

\* The same of the state after a step of a job.
LEMMA RepairedIsRepairingNext ==
    ASSUME NEW w \in Jobs, UNCHANGED <<chainNonce, proposed, deleted, indexed>>
    PROVE  Repairing(w)' <=> Repaired(job'[w], state', refreshedAt')
<1>1. Queue' = Queue
  BY DEF Queue
<1>2. QueueIsStored' <=> QueueStoredIn(state')
  BY <1>1 DEF QueueIsStored, QueueStoredIn
<1>3. HistoryIsStored' <=> HistoryStoredIn(state')
  BY DEF HistoryIsStored, HistoryStoredIn
<1>4. Spent' = {} <=> NothingSpentIn(state')
  BY DEF Spent, NothingSpentIn, Unsettled
<1>5. Spent' \subseteq job'[w].dead <=>
         \A t \in Txs : state'[t] \in Unsettled /\ Nonce[t] < chainNonce => t \in job'[w].dead
  BY DEF Spent, Unsettled
<1>. QED
  BY <1>1, <1>2, <1>3, <1>4, <1>5 DEF Repairing, Repaired, Settling

\* A running job is the only one that may be undisturbed, and repairs if its
\* own record still does.
LEMMA OnlyTheRunningJobRepairs ==
    ASSUME StoreInvariant, NEW w \in Jobs, ~Ended(w), NEW j \in JobStates, Set(w, j),
           UNCHANGED <<clock, chainNonce, proposed, deleted, indexed, event>>,
           j.solo => /\ job[w].solo /\ j.step # "idle" /\ Ahead(j)
                     /\ Repaired(j, state', refreshedAt')
    PROVE  UndisturbedRepairs'
<1>1. \A v \in Jobs : job'[v] = IF v = w THEN j ELSE job[v]
  BY DEF Set, StoreInvariant, TypeOK
<1>2. \A v \in Jobs : v # w => ~job[v].solo
  BY DEF StoreInvariant, UndisturbedRepairs
<1>. SUFFICES ASSUME NEW v \in Jobs, job'[v].solo
              PROVE  /\ event'.step = "idle" /\ \A u \in Jobs \ {v} : Ended(u)'
                     /\ job'[v].step # "idle"
                     /\ job'[v].step # "done" => job'[v].full
                     /\ Repairing(v)'
  BY DEF UndisturbedRepairs
<1>3. v = w /\ job'[v] = j
  BY <1>1, <1>2
<1>4. Repairing(v)'
  BY <1>3, RepairedIsRepairingNext
<1>5. event.step = "idle" /\ \A u \in Jobs \ {w} : Ended(u)
  BY <1>3 DEF StoreInvariant, UndisturbedRepairs
<1>6. \A u \in Jobs \ {v} : Ended(u)'
  BY <1>1, <1>3, <1>5 DEF Ended
<1>. QED
  BY <1>3, <1>4, <1>5, <1>6 DEF Ahead

Running(w) ==
    \/ ReadQueue(w) \/ QueueUnread(w) \/ Revive(w) \/ Retire(w) \/ UpsertQueue(w)
    \/ SettleFind(w) \/ SettleRead(w) \/ SettleWrite(w) \/ Stamp(w)
    \/ ReadHistory(w) \/ HistoryUnread(w) \/ UpsertHistory(w) \/ Rivals(w)
    \/ JobFails(w)

\* A step of a job that has begun and has not ended.
LEMMA RunningIsRunning == ASSUME NEW w \in Jobs, Running(w) PROVE JobStep(w) /\ ~Ended(w)
BY DEF Running, JobStep, Ended, ReadQueue, QueueUnread, Revive, Retire, UpsertQueue, SettleFind, SettleRead,
   SettleWrite, Stamp, ReadHistory, HistoryUnread, UpsertHistory, Rivals, JobFails, At

\* Each step of an undisturbed backfill brings the rows one step closer to the
\* service and the chain and undoes nothing.
LEMMA RunningJobRepairs ==
    ASSUME StoreInvariant, NEW w \in Jobs, Running(w)
    PROVE  UndisturbedRepairs'
<1>0. UNCHANGED <<clock, chainNonce, executed, proposed, deleted, indexed, event>> /\ ~Ended(w)
  BY RunningIsRunning, JobStepFrame
<1>1. /\ job[w] \in JobStates /\ state \in [Txs -> RowStates] /\ refreshedAt \in [Txs -> Nat] /\ clock \in Nat
      /\ indexed \subseteq Txs /\ Queue \subseteq Txs /\ Queue \cap indexed = {} /\ indexed \subseteq executed
      /\ \A t \in executed : Nonce[t] < chainNonce
  BY DEF StoreInvariant, TypeOK, Queue, IntentsAreTrue
<1>2. job[w].solo => Ahead(job[w]) /\ Repaired(job[w], state, refreshedAt)
  <2>. SUFFICES ASSUME job[w].solo PROVE Ahead(job[w]) /\ Repaired(job[w], state, refreshedAt)
    OBVIOUS
  <2>. QED
    BY RepairedIsRepairing DEF StoreInvariant, UndisturbedRepairs, Ahead
<1>3. /\ job[w].step \in {"readQueue", "revive", "retire", "upsertQueue"} => job[w].phase = "queue"
      /\ job[w].step \in {"readHistory", "upsertHistory", "rivals"} => job[w].phase = "history"
  BY DEF StoreInvariant, IntentsAreTrue
<1>. DEFINE Kept == \E j \in JobStates :
               /\ Set(w, j)
               /\ j.solo => /\ job[w].solo /\ j.step # "idle" /\ Ahead(j)
                            /\ Repaired(j, state', refreshedAt')
<1>4. Kept => UndisturbedRepairs'
  BY <1>0, OnlyTheRunningJobRepairs
<1>. USE <1>1, <1>2, <1>3
<1>5. ASSUME ReadQueue(w) PROVE Kept
  <2>1. state' = state /\ refreshedAt' = refreshedAt /\ job[w].step = "readQueue"
    BY <1>5 DEF ReadQueue, rows, At
  <2>2. CASE Set(w, StartHistory([job[w] EXCEPT !.solo = FALSE]))
    BY <2>2, DisturbedStartsHistory
  <2>3. ASSUME NEW p \in PageStates, NEW solo \in BOOLEAN,
               solo => job[w].solo /\ p.complete /\ p.page = Queue /\ \A t \in Txs : refreshedAt[t] < p.at,
               Set(w, QueueReadBy(job[w], p, solo))
        PROVE  Kept
    <3>. DEFINE j == QueueReadBy(job[w], p, solo)
    <3>1. /\ j \in JobStates /\ j.solo = solo /\ j.full = job[w].full /\ j.complete = p.complete
          /\ j.step = "revive" /\ j.page = p.page /\ j.at = p.at /\ j.phase = "queue"
      BY <2>1, QueueReadIsAJob
    <3>. HIDE DEF j
    <3>2. ASSUME j.solo PROVE Ahead(j) /\ Repaired(j, state', refreshedAt')
      BY <2>1, <2>3, <3>1, <3>2 DEF Ahead, Repaired, Settling
    <3>. QED
      BY <2>3, <3>1, <3>2 DEF j
  <2>. QED
    BY <1>5, <2>2, <2>3, ReadQueueSetsJob DEF StoreInvariant
<1>6. ASSUME QueueUnread(w) PROVE Kept
  BY <1>6, NoJobIsAJob, EndedJobs, DisturbedStartsHistory DEF QueueUnread
<1>7. ASSUME HistoryUnread(w) \/ JobFails(w) PROVE Kept
  <2>1. job[w].solo => Set(w, NoJob)
    BY <1>7 DEF HistoryUnread, JobFails, Ahead, At
  <2>. QED
    BY <1>7, <2>1, NoJobIsAJob, DoneIsAJob, EndedJobs DEF HistoryUnread, JobFails
<1>8. ASSUME Revive(w) PROVE Kept
  <2>1. job[w].step = "revive" /\ Set(w, MovedOn(job[w], "retire")) /\ "retire" \in JobSteps
        /\ refreshedAt' = refreshedAt
    BY <1>8 DEF Revive, Go, At, MovedOn, JobSteps
  <2>. DEFINE j == MovedOn(job[w], "retire")
  <2>2. /\ j \in JobStates /\ j.step = "retire" /\ j.phase = "queue" /\ j.page = job[w].page /\ j.dead = job[w].dead
        /\ j.solo = job[w].solo /\ j.full = job[w].full /\ j.at = job[w].at /\ j.complete = job[w].complete
    BY <2>1, GoIsAJob
  <2>. HIDE DEF j
  <2>3. ASSUME job[w].solo PROVE \A t \in Queue : state'[t] # "removed"
    BY <1>8, <2>1, <2>3 DEF Revive, Repaired
  <2>4. ASSUME job[w].solo PROVE Ahead(j) /\ Repaired(j, state', refreshedAt')
    BY <2>1, <2>2, <2>3, <2>4 DEF Ahead, Repaired, Settling
  <2>. QED
    BY <2>1, <2>2, <2>4 DEF j
<1>9. ASSUME Retire(w) PROVE Kept
  <2>1. PICK bypass \in BOOLEAN : job[w].step = "retire" /\ Set(w, RetiredBy(job[w], bypass))
    BY <1>9, RetireSetsJob
  <2>5. refreshedAt' = refreshedAt
    BY <1>9 DEF Retire
  <2>. DEFINE j == RetiredBy(job[w], bypass)
  <2>2. /\ j \in JobStates /\ j.step = "upsertQueue" /\ j.phase = "queue" /\ j.page = job[w].page
        /\ j.solo = job[w].solo /\ j.full = job[w].full /\ j.at = job[w].at
    BY <2>1, RetiredIsAJob
  <2>. HIDE DEF j
  <2>3. ASSUME job[w].solo
        PROVE  /\ \A t \in Queue : state'[t] # "removed"
               /\ \A t \in Txs \ Queue : state'[t] # "live"
    BY <1>9, <2>1, <2>3 DEF Retire, Repaired
  <2>4. ASSUME job[w].solo PROVE Ahead(j) /\ Repaired(j, state', refreshedAt')
    BY <2>1, <2>2, <2>3, <2>4, <2>5 DEF Ahead, Repaired, Settling
  <2>. QED
    BY <2>1, <2>2, <2>4 DEF j
<1>10. ASSUME UpsertQueue(w) PROVE Kept
  <2>1. job[w].step = "upsertQueue" /\ Set(w, MovedOn(job[w], "settleFind")) /\ "settleFind" \in JobSteps
    BY <1>10 DEF UpsertQueue, Go, At, MovedOn, JobSteps
  <2>. DEFINE j == MovedOn(job[w], "settleFind")
  <2>2. /\ j \in JobStates /\ j.step = "settleFind" /\ j.phase = "queue" /\ j.page = job[w].page
        /\ j.solo = job[w].solo /\ j.full = job[w].full /\ j.at = job[w].at
    BY <2>1, GoIsAJob
  <2>. HIDE DEF j
  <2>3. ASSUME job[w].solo PROVE QueueStoredIn(state')
    BY <1>10, <2>1, <2>3 DEF UpsertQueue, Repaired, QueueStoredIn, RowStates
  <2>4. ASSUME job[w].solo PROVE Ahead(j) /\ Repaired(j, state', refreshedAt')
    BY <2>1, <2>2, <2>3, <2>4 DEF Ahead, Repaired, Settling
  <2>. QED
    BY <2>1, <2>2, <2>4 DEF j
<1>11. ASSUME SettleFind(w) PROVE Kept
  <2>. DEFINE dead == {t \in Txs : state[t] \in Unsettled}
              next == IF dead = {} THEN "stamp" ELSE "settleRead"
              j == SettlingWith(job[w], dead, next)
  <2>1. job[w].step = "settleFind" /\ Set(w, j) /\ state' = state /\ refreshedAt' = refreshedAt
    BY <1>11 DEF SettleFind, At, SettlingWith, rows
  <2>2. dead \in SUBSET Txs /\ next \in JobSteps /\ next # "idle"
    BY DEF JobStates, JobSteps
  <2>3. /\ j \in JobStates /\ j.step = next /\ j.phase = job[w].phase /\ j.dead = dead
        /\ j.solo = job[w].solo /\ j.full = job[w].full /\ j.at = job[w].at
    BY <2>2, SettlingIsAJob
  <2>. HIDE DEF j
  <2>4. (next = "settleRead" /\ \A t \in Txs : state[t] \in Unsettled => t \in dead)
        \/ (next = "stamp" /\ NothingSpentIn(state))
    BY DEF NothingSpentIn
  <2>. HIDE DEF dead, next
  <2>6. ASSUME job[w].solo PROVE Ahead(j) /\ Repaired(j, state', refreshedAt')
    BY <2>1, <2>3, <2>4, <2>6 DEF Ahead, Repaired, Settling
  <2>. QED
    BY <2>1, <2>2, <2>3, <2>6 DEF j
<1>12. ASSUME SettleRead(w) PROVE Kept
  <2>. DEFINE dead == {t \in job[w].dead : Nonce[t] < chainNonce}
              next == IF dead = {} THEN "stamp" ELSE "settleWrite"
              j == SettlingWith(job[w], dead, next)
  <2>1. job[w].step = "settleRead" /\ Set(w, j) /\ state' = state /\ refreshedAt' = refreshedAt
    BY <1>12 DEF SettleRead, At, SettlingWith, rows
  <2>2. dead \in SUBSET Txs /\ next \in JobSteps /\ next # "idle"
    BY DEF JobStates, JobSteps
  <2>3. /\ j \in JobStates /\ j.step = next /\ j.phase = job[w].phase /\ j.dead = dead
        /\ j.solo = job[w].solo /\ j.full = job[w].full /\ j.at = job[w].at
    BY <2>2, SettlingIsAJob
  <2>. HIDE DEF j
  <2>4. ASSUME job[w].solo
        PROVE  \/ next = "settleWrite" /\ \A t \in Txs : state[t] \in Unsettled /\ Nonce[t] < chainNonce => t \in dead
               \/ next = "stamp" /\ NothingSpentIn(state)
    BY <2>1, <2>4 DEF NothingSpentIn, Repaired
  <2>. HIDE DEF dead, next
  <2>6. ASSUME job[w].solo PROVE Ahead(j) /\ Repaired(j, state', refreshedAt')
    BY <2>1, <2>3, <2>4, <2>6 DEF Ahead, Repaired, Settling
  <2>. QED
    BY <2>1, <2>2, <2>3, <2>6 DEF j
<1>13. ASSUME SettleWrite(w) PROVE Kept
  <2>. DEFINE dead == {}
              next == "stamp"
              j == SettlingWith(job[w], dead, next)
  <2>1. job[w].step = "settleWrite" /\ Set(w, j) /\ refreshedAt' = refreshedAt
    BY <1>13 DEF SettleWrite, At, SettlingWith, rows
  <2>2. dead \in SUBSET Txs /\ next \in JobSteps /\ next # "idle"
    BY DEF JobStates, JobSteps
  <2>3. /\ j \in JobStates /\ j.step = next /\ j.phase = job[w].phase /\ j.dead = dead
        /\ j.solo = job[w].solo /\ j.full = job[w].full /\ j.at = job[w].at
    BY <2>2, SettlingIsAJob
  <2>. HIDE DEF j
  <2>4. ASSUME job[w].solo
        PROVE  /\ QueueStoredIn(state') /\ NothingSpentIn(state')
               /\ HistoryStoredIn(state) => HistoryStoredIn(state')
    <3>1. \A t \in Txs : state'[t] = IF t \in job[w].dead /\ state[t] \in Unsettled THEN "superseded" ELSE state[t]
      BY <1>13 DEF SettleWrite
    <3>. QED
      BY <2>1, <2>4, <3>1 DEF Repaired, Settling, QueueStoredIn, NothingSpentIn, HistoryStoredIn, Unsettled
  <2>. HIDE DEF dead, next
  <2>5. next = "stamp"
    BY DEF next
  <2>6. ASSUME job[w].solo PROVE Ahead(j) /\ Repaired(j, state', refreshedAt')
    BY <2>1, <2>3, <2>4, <2>5, <2>6 DEF Ahead, Repaired, Settling
  <2>. QED
    BY <2>1, <2>2, <2>3, <2>6 DEF j
<1>14. ASSUME Stamp(w) PROVE Kept
  <2>1. job[w].step = "stamp" /\ state' = state /\ refreshedAt' = refreshedAt
    BY <1>14 DEF Stamp, At, rows
  <2>2. CASE job[w].phase = "queue"
    <3>. DEFINE j == StartHistory(job[w])
    <3>1. /\ j \in JobStates /\ j.step = "readHistory" /\ j.solo = job[w].solo /\ j.full = job[w].full
      BY StartHistoryIsAJob
    <3>2. Set(w, j)
      BY <1>14, <2>2 DEF Stamp
    <3>. HIDE DEF j
    <3>3. ASSUME job[w].solo PROVE Ahead(j) /\ Repaired(j, state', refreshedAt')
      BY <2>1, <3>1, <3>3 DEF Ahead, Repaired, Settling, JobStates
    <3>. QED
      BY <3>1, <3>2, <3>3 DEF j
  <2>3. CASE job[w].phase # "queue"
    <3>. DEFINE j == Done(job[w])
    <3>1. j \in JobStates /\ j.step = "done" /\ j.solo = job[w].solo
      BY DoneIsAJob, EndedJobs
    <3>2. Set(w, j) /\ job[w].phase = "history"
      BY <1>14, <2>3 DEF Stamp, JobStates
    <3>. HIDE DEF j
    <3>3. ASSUME job[w].solo PROVE Ahead(j) /\ Repaired(j, state', refreshedAt')
      BY <2>1, <3>1, <3>2, <3>3 DEF Ahead, Repaired, Settling
    <3>. QED
      BY <3>1, <3>2, <3>3 DEF j
  <2>. QED
    BY <2>2, <2>3
<1>15. ASSUME ReadHistory(w) PROVE Kept
  <2>1. state' = state /\ refreshedAt' = refreshedAt /\ job[w].step = "readHistory"
    BY <1>15 DEF ReadHistory, rows, At
  <2>2. CASE Set(w, Done([job[w] EXCEPT !.solo = FALSE]))
    <3>. DEFINE k == [job[w] EXCEPT !.solo = FALSE]
    <3>1. k \in JobStates /\ k.solo = FALSE
      BY DisturbedIsAJob
    <3>. HIDE DEF k
    <3>2. Done(k) \in JobStates /\ Done(k).solo = FALSE
      BY <3>1, DoneIsAJob, EndedJobs
    <3>. QED
      BY <2>2, <3>2 DEF k
  <2>3. ASSUME NEW p \in PageStates, NEW solo \in BOOLEAN, solo => job[w].solo /\ p.page = indexed,
               Set(w, HistoryReadBy(job[w], p, solo))
        PROVE  Kept
    <3>. DEFINE j == HistoryReadBy(job[w], p, solo)
    <3>1. /\ j \in JobStates /\ j.solo = solo /\ j.full = job[w].full
          /\ j.step = "upsertHistory" /\ j.page = p.page
      BY HistoryReadIsAJob
    <3>. HIDE DEF j
    <3>2. ASSUME j.solo PROVE Ahead(j) /\ Repaired(j, state', refreshedAt')
      BY <2>1, <2>3, <3>1, <3>2 DEF Ahead, Repaired, Settling, JobStates
    <3>. QED
      BY <2>3, <3>1, <3>2 DEF j
  <2>. QED
    BY <1>15, <2>2, <2>3, ReadHistorySetsJob DEF StoreInvariant
<1>16. ASSUME UpsertHistory(w) PROVE Kept
  <2>1. job[w].step = "upsertHistory" /\ Set(w, MovedOn(job[w], "rivals")) /\ "rivals" \in JobSteps
    BY <1>16 DEF UpsertHistory, Go, At, MovedOn, JobSteps
  <2>. DEFINE j == MovedOn(job[w], "rivals")
  <2>2. /\ j \in JobStates /\ j.step = "rivals" /\ j.phase = "history" /\ j.page = job[w].page
        /\ j.solo = job[w].solo /\ j.full = job[w].full /\ j.at = job[w].at
    BY <2>1, GoIsAJob
  <2>. HIDE DEF j
  <2>3. ASSUME job[w].solo PROVE QueueStoredIn(state') /\ HistoryStoredIn(state') /\ job[w].page = indexed
    BY <1>16, <2>1, <2>3 DEF UpsertHistory, Repaired, QueueStoredIn, HistoryStoredIn
  <2>4. ASSUME job[w].solo PROVE Ahead(j) /\ Repaired(j, state', refreshedAt')
    BY <2>1, <2>2, <2>3, <2>4 DEF Ahead, Repaired, Settling
  <2>. QED
    BY <2>1, <2>2, <2>4 DEF j
<1>17. ASSUME Rivals(w) PROVE Kept
  <2>1. job[w].step = "rivals" /\ Set(w, MovedOn(job[w], "settleFind")) /\ "settleFind" \in JobSteps
    BY <1>17 DEF Rivals, Go, At, MovedOn, JobSteps
  <2>. DEFINE j == MovedOn(job[w], "settleFind")
  <2>2. /\ j \in JobStates /\ j.step = "settleFind" /\ j.phase = "history"
        /\ j.solo = job[w].solo /\ j.full = job[w].full /\ j.at = job[w].at
    BY <2>1, GoIsAJob
  <2>. HIDE DEF j
  <2>3. \A t \in Txs : state'[t] = state[t] \/ (state[t] = "live" /\ state'[t] = "superseded")
    BY <1>17 DEF Rivals, Supersede, LiveRivals
  <2>4. ASSUME job[w].solo PROVE QueueStoredIn(state') /\ HistoryStoredIn(state')
    BY <2>1, <2>3, <2>4 DEF Repaired, QueueStoredIn, HistoryStoredIn
  <2>5. ASSUME job[w].solo PROVE Ahead(j) /\ Repaired(j, state', refreshedAt')
    BY <2>1, <2>2, <2>4, <2>5 DEF Ahead, Repaired, Settling
  <2>. QED
    BY <2>1, <2>2, <2>5 DEF j
<1>. QED
  BY <1>4, <1>5, <1>6, <1>7, <1>8, <1>9, <1>10, <1>11, <1>12, <1>13, <1>14, <1>15, <1>16, <1>17 DEF Running

\* A job that begins disturbs the others, and is undisturbed only when it is
\* alone.
LEMMA BeginKeepsRepairs ==
    ASSUME StoreInvariant, NEW w \in Jobs, NEW full \in BOOLEAN, Begin(w, full)
    PROVE  UndisturbedRepairs'
<1>1. PICK solo \in BOOLEAN :
        /\ solo => full /\ event.step = "idle" /\ (\A v \in Jobs : Ended(v))
        /\ job' = [v \in Jobs |-> IF v # w THEN [job[v] EXCEPT !.solo = FALSE] ELSE Begun(full, solo)]
  BY BeginSetsJobs
<1>2. UNCHANGED <<clock, chainNonce, executed, proposed, deleted, indexed, event>>
  BY JobStepFrame DEF JobStep
<1>3. refreshedAt' = refreshedAt /\ state' = state
  BY DEF Begin, rows
<1>4. queueStamp \in Nat /\ historyStamp \in Nat
  BY DEF StoreInvariant, TypeOK
<1>5. \A v \in Jobs : v # w => job'[v].solo = FALSE /\ job'[v].step = job[v].step
  <2>. SUFFICES ASSUME NEW v \in Jobs, v # w PROVE job'[v].solo = FALSE /\ job'[v].step = job[v].step
    OBVIOUS
  <2>1. job[v] \in JobStates /\ job'[v] = [job[v] EXCEPT !.solo = FALSE]
    BY <1>1 DEF StoreInvariant, TypeOK
  <2>. QED
    BY <2>1, DisturbedIsAJob
<1>. DEFINE j == Begun(full, solo)
<1>6. j.solo = solo /\ j.full = full /\ j.step = "readQueue" /\ j.phase = "queue"
  BY <1>4, BegunIsAJob
<1>7. job'[w] = j
  BY <1>1
<1>. HIDE DEF j
<1>. SUFFICES ASSUME NEW v \in Jobs, job'[v].solo
              PROVE  /\ event'.step = "idle" /\ \A u \in Jobs \ {v} : Ended(u)'
                     /\ job'[v].step # "idle"
                     /\ job'[v].step # "done" => job'[v].full
                     /\ Repairing(v)'
  BY DEF UndisturbedRepairs
<1>8. v = w /\ solo
  BY <1>5, <1>6, <1>7
<1>9. event'.step = "idle" /\ \A u \in Jobs \ {v} : Ended(u)'
  BY <1>1, <1>2, <1>5, <1>8 DEF Ended
<1>10. Ahead(j) /\ Repaired(j, state', refreshedAt')
  BY <1>1, <1>3, <1>4, <1>6, <1>8 DEF Ahead, Repaired, Settling
<1>11. Repairing(v)'
  BY <1>2, <1>7, <1>8, <1>10, RepairedIsRepairingNext
<1>. QED
  BY <1>2, <1>6, <1>7, <1>8, <1>9, <1>10, <1>11 DEF Ahead

\* The invariant of the store holds at the start.
LEMMA InitStoreInvariant == Init => StoreInvariant
<1>. SUFFICES ASSUME Init PROVE StoreInvariant
  OBVIOUS
<1>1. \A w \in Jobs : job[w].solo = FALSE
  BY EndedJobs DEF Init
<1>. QED
  BY <1>1, InitTruth DEF Truth, StoreInvariant, UndisturbedRepairs

\* The invariant of the store is inductive.
LEMMA NextKeepsStoreInvariant == StoreInvariant /\ [Next]_vars => StoreInvariant'
<1>. SUFFICES ASSUME StoreInvariant, [Next]_vars PROVE UndisturbedRepairs'
  BY NextKeepsTruth DEF StoreInvariant, Truth
<1>1. ASSUME Disturb PROVE UndisturbedRepairs'
  <2>1. \A w \in Jobs : job'[w].solo = FALSE
    BY <1>1, DisturbKeepsJobs DEF StoreInvariant
  <2>. QED
    BY <2>1 DEF UndisturbedRepairs
<1>2. ASSUME event.step # "idle", job' = job PROVE UndisturbedRepairs'
  <2>1. \A w \in Jobs : ~job'[w].solo
    BY <1>2 DEF StoreInvariant, UndisturbedRepairs
  <2>. QED
    BY <2>1 DEF UndisturbedRepairs
<1>3. ASSUME UNCHANGED <<chainNonce, proposed, deleted, indexed, state, refreshedAt, job, event>>,
             clock' = clock \/ clock' = clock + 1
      PROVE  UndisturbedRepairs'
  <2>. SUFFICES ASSUME NEW w \in Jobs, job[w].solo
                PROVE  /\ event'.step = "idle" /\ \A v \in Jobs \ {w} : Ended(v)'
                       /\ job[w].step # "idle"
                       /\ job[w].step # "done" => job[w].full
                       /\ Repairing(w)'
    BY <1>3 DEF UndisturbedRepairs
  <2>1. Repairing(w)'
    BY <1>3, RepairedIsRepairing, RepairedIsRepairingNext DEF StoreInvariant, UndisturbedRepairs
  <2>2. event'.step = "idle" /\ \A v \in Jobs \ {w} : Ended(v)'
    BY <1>3 DEF StoreInvariant, UndisturbedRepairs, Ended
  <2>3. job[w].step # "idle" /\ (job[w].step # "done" => job[w].full)
    BY DEF StoreInvariant, UndisturbedRepairs
  <2>. QED
    BY <2>1, <2>2, <2>3
<1>4. CASE Tick
  BY <1>3, <1>4 DEF Tick, chain, service, rows
<1>5. CASE UNCHANGED vars
  BY <1>3, <1>5 DEF vars, chain, service, rows
<1>9. ASSUME NEW w \in Jobs, CacheQueue(w) PROVE UndisturbedRepairs'
  BY <1>3, <1>9 DEF CacheQueue, chain, service, rows
<1>6. ASSUME NEW t \in Txs, Propose(t) \/ Delete(t) \/ Execute(t) \/ Index(t) \/ HandleFind(t)
      PROVE  UndisturbedRepairs'
  BY <1>1, <1>6 DEF Propose, Delete, Execute, Index, HandleFind
<1>7. CASE HandleUpdate \/ HandleRivals \/ HandlerFails
  BY <1>2, <1>7 DEF HandleUpdate, HandleRivals, HandlerFails
<1>8. ASSUME NEW w \in Jobs, JobStep(w) PROVE UndisturbedRepairs'
  BY <1>8, BeginKeepsRepairs, RunningJobRepairs DEF JobStep, Running
<1>. QED
  BY <1>4, <1>5, <1>6, <1>7, <1>8, <1>9 DEF Next

\* The store's inductive invariant: rows, jobs and events are true of the
\* chain, and an undisturbed backfill has repaired as much as its step says.
THEOREM StoreInvariantHolds == Spec => []StoreInvariant
BY InitStoreInvariant, NextKeepsStoreInvariant, PTL DEF Spec

\* A backfill that ran alone, and whose applied pages were complete and still what
\* the service has, leaves every row as the service and the chain have it, whatever
\* earlier jobs and events left behind.
THEOREM BackfillsRepair == Spec => []BackfillRepairs
<1>1. StoreInvariant => BackfillRepairs
  <2>. SUFFICES ASSUME StoreInvariant, NEW w \in Jobs, job[w].step = "done", job[w].solo, NEW t \in Txs
                PROVE  Reconciled(t)
    BY DEF BackfillRepairs, At
  <2>1. Repaired(job[w], state, refreshedAt)
    BY RepairedIsRepairing DEF StoreInvariant, UndisturbedRepairs
  <2>2. QueueStoredIn(state) /\ HistoryStoredIn(state) /\ NothingSpentIn(state)
    BY <2>1 DEF Repaired
  <2>3. /\ state[t] \in RowStates
        /\ state[t] = "superseded" => Nonce[t] < chainNonce
        /\ state[t] = "executed" => t \in executed /\ Nonce[t] < chainNonce
        /\ t \notin proposed => state[t] = "absent"
    BY DEF StoreInvariant, TypeOK, SettledIsTrue, IntentsAreTrue, RowsAreKnown
  <2>4. t \in deleted => t \notin Queue
    BY DEF Queue
  <2>. QED
    BY <2>2, <2>3, <2>4 DEF Reconciled, QueueStoredIn, HistoryStoredIn, NothingSpentIn, RowStates, Unsettled
<1>. QED
  BY <1>1, StoreInvariantHolds, PTL

=============================================================================
