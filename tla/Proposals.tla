----------------------------- MODULE Proposals -----------------------------
(***************************************************************************)
(* One proposal of one plugin: what its contract emits, the handlers that  *)
(* store it (proposalHandler.ts, multisig.ts) as the log crawlers drive    *)
(* them, each at least once and in order, and the service that recomputes  *)
(* the vote counts (proposalMetrics.ts) for each message they send.        *)
(*                                                                         *)
(* Several crawlers handle the events of one plugin at a time: the pooling *)
(* crawler, and the plugin crawlers that the queues and SyncAll start.  A  *)
(* handler reads before it opens its transaction, so its reads, its        *)
(* transaction and its message are steps of their own, and other crawlers  *)
(* run between them.  Two of them within voteCast for two logs of one      *)
(* voter leave two stored votes ("raced"); and one that goes over events   *)
(* another has handled, is interrupted and starts again from the other's   *)
(* checkpoint leaves the store behind the chain ("skipped").               *)
(*                                                                         *)
(* An event is known by its position in the chain; what a vote or an       *)
(* override carries (option, voting power) is that of its position.        *)
(***************************************************************************)
EXTENDS Naturals, Sequences, FiniteSets, FiniteSetsExt

CONSTANTS
    Voters,
    NoOne,
    Crawlers,        \* the log crawlers that handle the plugin's events
    Kinds,           \* which plugins: "token", "multisig", "objection"
    MaxTxs,          \* transactions after the one that creates the proposal
    MaxQueue,        \* messages that wait at the broker
    Faults           \* how many crashes of crawlers and failed operations, as pairs

ASSUME ProposalsAssumption ==
    /\ NoOne \notin Voters /\ Crawlers # {}
    /\ Kinds \subseteq {"token", "multisig", "objection"}
    /\ MaxTxs \in Nat /\ MaxQueue \in Nat
    /\ Faults \subseteq Nat \X Nat

VARIABLES
    kind,            \* interfaceType and isObjection of the plugin
    chain,           \* the events emitted so far
    crawler,         \* where each crawler is, and what its handler has read
    proposal,        \* the stored proposal
    votes,           \* the stored votes
    queue,           \* messages waiting for the metrics service
    worker,          \* its handler's transaction: the votes it has read
    metrics,         \* the counts stored with the proposal
    missed,          \* history: a change of the votes that no message will count
    trouble,         \* history: "lost", the handler of some event failed; "raced"; "skipped"
    crashes, losses

counts == <<queue, worker, metrics, missed>>
faults == <<trouble, crashes, losses>>
vars == <<kind, chain, crawler, proposal, votes, counts, faults>>

Positions == 1 .. Len(chain)
Event(k, who, tx) == [kind |-> k, who |-> who, tx |-> tx]

\* The transaction that creates the proposal may vote, approve or execute first.
FirstTxs(k) ==
    LET create == Event("create", NoOne, 1) IN
    {<<create>>} \cup
    CASE k = "token" -> {<<Event("vote", v, 1), create>> : v \in Voters}
      [] k = "multisig" -> {<<Event("approve", v, 1), Event("execute", NoOne, 1), create>> : v \in Voters}
      [] OTHER -> {}

Idle == [busy |-> FALSE, read |-> {}]

\* next: position of the event to handle next; redrive: earlier events of the
\* creating transaction, to be handled again; step: what the handler does next;
\* found: position of the vote it has read, 0 for none; gone: that vote has been
\* deleted since.
From(p) == [next |-> p, redrive |-> {}, step |-> "idle", found |-> 0, gone |-> FALSE]

Init ==
    /\ kind \in Kinds
    /\ chain \in FirstTxs(kind)
    /\ crawler = [c \in Crawlers |-> From(1)]
    /\ proposal = [exists |-> FALSE, executed |-> 0, canceled |-> 0, edited |-> 0]
    /\ votes = {}
    /\ queue = 0 /\ worker = Idle /\ metrics = {}
    /\ missed = FALSE /\ trouble = {}
    /\ crashes = 0 /\ losses = 0

-----------------------------------------------------------------------------
(* The contract *)

Where(k, who) == {p \in Positions : chain[p].kind = k /\ chain[p].who = who}
LastOf(S) == Max(S \cup {0})
LastTx == chain[Len(chain)].tx

\* The contract emits before the crawlers set out: a handler cannot tell a block
\* that is still to come from one that waits to be crawled.
Emit(events) ==
    /\ LastTx <= MaxTxs /\ \A c \in Crawlers : crawler[c] = From(1)
    /\ Where("execute", NoOne) = {} /\ Where("cancel", NoOne) = {}
    /\ chain' = chain \o events
    /\ UNCHANGED <<kind, crawler, proposal, votes, counts, faults>>

Now == LastTx + 1

\* The voter's vote counts: cast, and not cleared since.
HasVote(v) == LastOf(Where("vote", v)) > LastOf(Where("clear", v))

ChainVotes(v) == kind = "token" /\ Emit(<<Event("vote", v, Now)>>)

\* v takes its balance back from the vote of its delegatee d.
ChainOverrides(v, d) ==
    /\ kind = "token" /\ v # d /\ HasVote(d)
    /\ Emit(<<Event("vote", v, Now), Event("override", d, Now)>>)

ChainObjects(v) ==
    /\ kind = "objection" /\ ~HasVote(v)
    /\ Emit(<<Event("vote", v, Now), Event("objection", v, Now)>>)

ChainClears(v) == kind = "token" /\ HasVote(v) /\ Emit(<<Event("clear", v, Now)>>)

ChainApproves(v) ==
    /\ kind = "multisig" /\ Where("approve", v) = {}
    /\ Emit(<<Event("approve", v, Now)>>)

ChainDecides(k) == Emit(<<Event(k, NoOne, Now)>>)

-----------------------------------------------------------------------------
(* What the handlers read and write *)

Vote(v, p) == [who |-> v, pos |-> p, replaced |-> 0, over |-> 0, source |-> 0, cleared |-> 0]

\* findVoteOnPlugin: the voter's vote of the latest block, cleared or not.
OnPlugin(v) ==
    LET mine == {r \in votes : r.who = v} IN
    {r \in mine : \A s \in mine : chain[s.pos].tx <= chain[r.pos].tx}

\* findExistingLog.
Stored(p) == \E r \in votes : r.pos = p

\* Mutation: an override is not compared with what its vote was last set by.
OverrideAlways(d, p) == IF proposal.exists THEN OnPlugin(d) ELSE {}

\* overrideVoteCast sets the delegatee's vote to what the event carries, unless
\* that vote was cast or overridden by the same or a later log.
OverrideVoteCast(d, p) ==
    IF proposal.exists THEN {r \in OnPlugin(d) : p > IF r.over # 0 THEN r.over ELSE r.pos} ELSE {}

\* objectionCast does not look for the proposal.
ObjectionCast(v) == OnPlugin(v)

\* voteCleared.  Its query for the log compares the whole voteCleared record
\* without the timestamp that is stored with it, and never finds one.
VoteCleared(v) == IF proposal.exists THEN OnPlugin(v) ELSE {}

\* The votes that an event's handler may go on to update; none: it returns early.
ToUpdate(p) ==
    LET e == chain[p] IN
    CASE e.kind = "override" -> OverrideVoteCast(e.who, p)
      [] e.kind = "objection" -> ObjectionCast(e.who)
      [] e.kind = "clear" -> VoteCleared(e.who)

\* Mutation: the vote that is replaced stays.
VoteCastKeepsReplaced(v, p, found, gone) ==
    IF Stored(p) THEN votes ELSE votes \cup {[Vote(v, p) EXCEPT !.replaced = found]}

\* voteCast: the new vote takes the place of the one that was read, in one
\* transaction.  The id of a log is unique: a duplicate key is no error and leaves
\* everything as it is.  A vote is deleted by its _id: one that is gone already
\* deletes nothing, even if its log has been stored again.
VoteCast(v, p, found, gone) ==
    IF Stored(p) THEN votes
    ELSE {r \in votes : gone \/ r.pos # found} \cup {[Vote(v, p) EXCEPT !.replaced = found]}

\* processApproval.
Approved(v, p) == IF Stored(p) THEN votes ELSE votes \cup {Vote(v, p)}

\* What updateDocument, which loads the vote again by its _id, makes of it.
Updated(r, p) ==
    CASE chain[p].kind = "override" -> [r EXCEPT !.over = p]
      [] chain[p].kind = "objection" -> [r EXCEPT !.source = p]
      [] chain[p].kind = "clear" -> [r EXCEPT !.cleared = p]

VoteEvents == {"vote", "approve", "override", "objection", "clear"}
Updates == {"override", "objection", "clear"}

\* The votes after an event's handler has written, given the vote it had read.
Written(p, found, gone) ==
    LET e == chain[p] IN
    CASE e.kind = "vote" -> VoteCast(e.who, p, found, gone)
      [] e.kind = "approve" -> Approved(e.who, p)
      [] OTHER -> {IF ~gone /\ r.pos = found THEN Updated(r, p) ELSE r : r \in votes}

-----------------------------------------------------------------------------
(* The crawlers *)

Current(c) == IF crawler[c].redrive # {} THEN Min(crawler[c].redrive) ELSE crawler[c].next
At(c, step) == Current(c) \in Positions /\ crawler[c].step = step
AtEvent(c, step, kinds) == At(c, step) /\ chain[Current(c)].kind \in kinds

\* The crawler, or the loop at the end of proposalCreated, goes on.
Passed(c, step) ==
    LET k == [crawler[c] EXCEPT !.step = step, !.found = 0, !.gone = FALSE] IN
    IF k.redrive # {} THEN [k EXCEPT !.redrive = @ \ {Current(c)}] ELSE [k EXCEPT !.next = @ + 1]
Pass(c, step) == crawler' = [crawler EXCEPT ![c] = Passed(c, step)]
Go(c, step, found) == crawler' = [crawler EXCEPT ![c].step = step, ![c].found = found]

\* No proposal, no vote to work on, the log known already: an early return.
IgnoreVote(c) ==
    LET p == Current(c) IN
    /\ \/ AtEvent(c, "idle", {"vote", "approve"}) /\ (~proposal.exists \/ Stored(p))
       \/ AtEvent(c, "idle", Updates) /\ ToUpdate(p) = {}
    /\ Pass(c, "idle")
    /\ UNCHANGED <<kind, chain, proposal, votes, counts, faults>>

\* voteCast and processApproval find the proposal, and not the log.
FindLog(c) ==
    /\ AtEvent(c, "idle", {"vote", "approve"}) /\ proposal.exists /\ ~Stored(Current(c))
    /\ Go(c, IF chain[Current(c)].kind = "vote" THEN "find" ELSE "write", 0)
    /\ UNCHANGED <<kind, chain, proposal, votes, counts, faults>>

\* The read of the voter's vote.
FindVote(c) ==
    LET p == Current(c)
        mine == OnPlugin(chain[p].who)
    IN  /\ \/ AtEvent(c, "find", {"vote"}) /\ mine = {} /\ Go(c, "write", 0)
           \/ AtEvent(c, "find", {"vote"}) /\ \E r \in mine : Go(c, "write", r.pos)
           \/ AtEvent(c, "idle", Updates) /\ \E r \in ToUpdate(p) : Go(c, "write", r.pos)
        /\ UNCHANGED <<kind, chain, proposal, votes, counts, faults>>

\* Another crawler is between the read and the transaction of voteCast, for another
\* log of the voter of p.
Races(c, p) ==
    \E d \in Crawlers \ {c} :
        /\ AtEvent(d, "write", {"vote"})
        /\ Current(d) # p /\ chain[Current(d)].who = chain[p].who

Deleted == {r.pos : r \in votes} \ {r.pos : r \in votes'}

\* Mutation: overrideVoteCast does not ask for the metrics.
AsksQuietly(p, gone) ==
    /\ chain[p].kind # "override"
    /\ ~(chain[p].kind = "vote" /\ kind = "objection")
    /\ ~(chain[p].kind = "objection" /\ gone)

\* Of an objection vote only ObjectionCast asks for the metrics, if it updated it.
Asks(p, gone) ==
    /\ ~(chain[p].kind = "vote" /\ kind = "objection")
    /\ ~(chain[p].kind = "objection" /\ gone)

\* The transaction of a vote's handler.
WriteVote(c) ==
    LET p == Current(c)
        read == crawler[c]
    IN  /\ AtEvent(c, "write", VoteEvents)
        /\ votes' = Written(p, read.found, read.gone)
        /\ crawler' = [d \in Crawlers |->
                          IF d = c THEN Passed(c, IF Asks(p, read.gone) THEN "send" ELSE "idle")
                          ELSE [crawler[d] EXCEPT !.gone = @ \/ crawler[d].found \in Deleted]]
        /\ trouble' = IF chain[p].kind = "vote" /\ ~Stored(p) /\ Races(c, p)
                      THEN trouble \cup {"raced"} ELSE trouble
        /\ UNCHANGED <<kind, chain, proposal, counts, crashes, losses>>

\* findOutOfOrderProposalEvents: votes, approvals and executions that the same
\* transaction emitted before.  The loop handles them in their order (Current).
OutOfOrder(p) ==
    {q \in 1 .. p - 1 : /\ chain[q].tx = chain[p].tx
                        /\ chain[q].kind \in {"vote", "approve", "execute"}}

\* proposalCreated, the read: a proposal that is stored already is left alone.
FindProposal(c) ==
    /\ AtEvent(c, "idle", {"create"})
    /\ IF proposal.exists THEN Pass(c, "idle") ELSE Go(c, "write", 0)
    /\ UNCHANGED <<kind, chain, proposal, votes, counts, faults>>

\* Its transaction, which finds the proposal stored if another was quicker and goes
\* on with it, and the start of its loop.
ProposalCreated(c) ==
    /\ AtEvent(c, "write", {"create"})
    /\ proposal' = [proposal EXCEPT !.exists = TRUE]
    /\ crawler' = [crawler EXCEPT ![c] = [Passed(c, "send") EXCEPT !.redrive = OutOfOrder(Current(c))]]
    /\ UNCHANGED <<kind, chain, votes, counts, faults>>

\* proposalExecuted keeps the first execution; its messages are not about votes.
ProposalExecuted(c) ==
    /\ AtEvent(c, "idle", {"execute"})
    /\ proposal' = IF proposal.exists /\ proposal.executed = 0
                   THEN [proposal EXCEPT !.executed = Current(c)] ELSE proposal
    /\ Pass(c, "idle")
    /\ UNCHANGED <<kind, chain, votes, counts, faults>>

\* proposalCanceled, proposalEdited.  Whether the proposal is stored never changes
\* back, so what they read of it cannot become stale.
ProposalUpdated(c) ==
    /\ AtEvent(c, "idle", {"cancel", "edit"})
    /\ proposal' = IF ~proposal.exists THEN proposal
                   ELSE IF chain[Current(c)].kind = "cancel"
                   THEN [proposal EXCEPT !.canceled = Current(c)]
                   ELSE [proposal EXCEPT !.edited = Current(c)]
    /\ Pass(c, "idle")
    /\ UNCHANGED <<kind, chain, votes, counts, faults>>

Bounded(c, l) == \E bound \in Faults : c <= bound[1] /\ l <= bound[2]

Lose == Bounded(crashes, losses + 1) /\ losses' = losses + 1 /\ UNCHANGED crashes
Lost == trouble' = trouble \cup {"lost"}

\* Every handler catches what is thrown, logs it and returns: the crawler goes
\* on.  createDocument and updateDocument return null when they fail, and three
\* handlers send their message all the same.
HandlerFails(c) ==
    /\ \E step \in {"idle", "find", "write"} : At(c, step)
    /\ Lose
    /\ Lost
    /\ LET k == chain[Current(c)].kind IN
       /\ \/ Pass(c, "idle")
          \/ At(c, "write") /\ k \in {"approve", "override", "clear"} /\ Pass(c, "send")
       /\ missed' = (missed \/ k = "objection")
    /\ UNCHANGED <<kind, chain, proposal, votes, queue, worker, metrics>>

\* proposalCreated fails once the proposal is stored: no message, and the
\* events before it are not handled again.
CreateFailsHalfway(c) ==
    /\ AtEvent(c, "write", {"create"}) /\ Lose
    /\ proposal' = [proposal EXCEPT !.exists = TRUE]
    /\ Lost
    /\ Pass(c, "idle")
    /\ UNCHANGED <<kind, chain, votes, counts>>

Unsent(c) == crawler[c].step = "send"
Sent(c) == crawler' = [crawler EXCEPT ![c].step = "idle"]

SendMessage(c) ==
    /\ Unsent(c) /\ queue < MaxQueue
    /\ Sent(c)
    /\ queue' = queue + 1
    /\ UNCHANGED <<kind, chain, proposal, votes, worker, metrics, missed, faults>>

\* sendMessage swallows the broker's errors.
SendFails(c) ==
    /\ Unsent(c) /\ Lose
    /\ Sent(c)
    /\ missed' = TRUE
    /\ UNCHANGED <<kind, chain, proposal, votes, queue, worker, metrics, trouble>>

\* What a crawler may have saved: the start of a block that it has reached.
Checkpoints(c) ==
    LET k == crawler[c] IN
    {p \in 1 .. k.next : /\ p \in 2 .. Len(chain) => chain[p].tx # chain[p - 1].tx
                         /\ p = k.next => k.redrive = {} /\ ~Unsent(c)}

\* A crawler starts again from the checkpoint in its row, which a crawler that
\* shares the row may have saved.
Crash(c) ==
    /\ Bounded(crashes + 1, losses)
    /\ crashes' = crashes + 1
    /\ \E d \in Crawlers : \E p \in Checkpoints(d) :
          /\ crawler' = [crawler EXCEPT ![c] = From(p)]
          /\ trouble' = IF p > Current(c) THEN trouble \cup {"skipped"} ELSE trouble
          /\ missed' = (missed \/ Unsent(c) \/ (kind = "objection" /\ p > Current(c)))
    /\ UNCHANGED <<kind, chain, proposal, votes, queue, worker, metrics, losses>>

-----------------------------------------------------------------------------
(* The metrics service *)

\* findVotes leaves out cleared votes.
Tally == {r \in votes : r.cleared = 0}

\* Its transaction reads a snapshot of the votes.
StartMetrics ==
    /\ queue > 0 /\ ~worker.busy
    /\ queue' = queue - 1
    /\ worker' = [busy |-> TRUE, read |-> Tally]
    /\ missed' = FALSE
    /\ UNCHANGED <<kind, chain, crawler, proposal, votes, metrics, faults>>

\* A write conflict with a handler of the indexer runs it again.
RetryMetrics ==
    /\ worker.busy /\ worker.read # Tally
    /\ worker' = [worker EXCEPT !.read = Tally]
    /\ missed' = FALSE
    /\ UNCHANGED <<kind, chain, crawler, proposal, votes, queue, metrics, faults>>

FinishMetrics ==
    /\ worker.busy
    /\ metrics' = IF proposal.exists THEN worker.read ELSE metrics
    /\ worker' = Idle
    /\ UNCHANGED <<kind, chain, crawler, proposal, votes, queue, missed, faults>>

\* The service logs what its transaction threw; the message is acknowledged.
MetricsFail ==
    /\ worker.busy /\ Lose
    /\ worker' = Idle
    /\ missed' = TRUE
    /\ UNCHANGED <<kind, chain, crawler, proposal, votes, queue, metrics, trouble>>

\* activeJobs: the id is being handled, the message is acknowledged and dropped.
DropDuplicate ==
    /\ queue > 0 /\ worker.busy
    /\ queue' = queue - 1
    /\ missed' = (missed \/ worker.read # Tally)
    /\ UNCHANGED <<kind, chain, crawler, proposal, votes, worker, metrics, faults>>

-----------------------------------------------------------------------------
Next ==
    \/ \E v \in Voters : ChainVotes(v) \/ ChainObjects(v) \/ ChainClears(v) \/ ChainApproves(v)
    \/ \E v, d \in Voters : ChainOverrides(v, d)
    \/ \E k \in {"execute", "cancel", "edit"} : ChainDecides(k)
    \/ \E c \in Crawlers :
          \/ IgnoreVote(c) \/ FindLog(c) \/ FindVote(c) \/ WriteVote(c)
          \/ FindProposal(c) \/ ProposalCreated(c) \/ ProposalExecuted(c) \/ ProposalUpdated(c)
          \/ HandlerFails(c) \/ CreateFailsHalfway(c) \/ SendMessage(c) \/ SendFails(c)
          \/ Crash(c)
    \/ StartMetrics \/ RetryMetrics \/ FinishMetrics \/ MetricsFail \/ DropDuplicate

Spec == Init /\ [][Next]_vars

-----------------------------------------------------------------------------
EventKinds == VoteEvents \cup {"create", "execute", "cancel", "edit"}
Events == [kind : EventKinds, who : Voters \cup {NoOne}, tx : Nat]
VoteRecords == [who : Voters \cup {NoOne}, pos : Nat, replaced : Nat, over : Nat, source : Nat,
                cleared : Nat]

CrawlerStates ==
    [next : Nat, redrive : SUBSET Nat, step : {"idle", "find", "write", "send"}, found : Nat,
     gone : BOOLEAN]

TypeOK ==
    /\ kind \in Kinds
    /\ chain \in Seq(Events) /\ Len(chain) > 0
    /\ crawler \in [Crawlers -> CrawlerStates]
    /\ votes \subseteq VoteRecords
    /\ trouble \subseteq {"lost", "raced", "skipped"}

\* A crawler is at an event of the chain or after the last, and what it has read is
\* a vote of the voter whose event it is about to write.
OnTheChain ==
    \A c \in Crawlers : LET k == crawler[c] IN
        /\ k.next \in 1 .. Len(chain) + 1
        /\ k.step # "write" => k.found = 0 /\ ~k.gone
        /\ k.found # 0 => /\ k.found \in Positions /\ Current(c) \in Positions
                          /\ chain[k.found].kind \in {"vote", "approve"}
                          /\ chain[k.found].who = chain[Current(c)].who

\* The contracts of the plugins differ, and a member approves once.
PluginEvents ==
    \A p \in Positions :
        /\ chain[p].kind = "vote" => kind # "multisig"
        /\ chain[p].kind = "approve" =>
               /\ kind = "multisig"
               /\ \A q \in Positions : chain[q].kind = "approve" /\ chain[q].who = chain[p].who => q = p

\* A stored vote is that of an event of the chain, by the voter of that event.
VotesAreCast ==
    \A r \in votes : r.pos \in Positions /\ chain[r.pos].who = r.who
                     /\ chain[r.pos].kind \in {"vote", "approve"}

Mine(v) == {r \in votes : r.who = v}

\* A voteCast that is about to write has read the vote its voter still has, or its
\* log has been stored meanwhile.
ReadsHold ==
    \A c \in Crawlers : AtEvent(c, "write", {"vote"}) =>
        \/ Stored(Current(c))
        \/ \A r \in Mine(chain[Current(c)].who) : r.pos = crawler[c].found /\ ~crawler[c].gone

\* A voter has at most one stored vote.
OneVotePerVoter == \A r, s \in votes : r.who = s.who => r = s

\* The inductive invariant: whatever the crawlers go over again and whatever fails,
\* each stored vote is that of an event of its voter, and no voter has two votes.
\* The latter holds until two crawlers are between the read and the transaction of
\* voteCast at one time, for two logs of one voter: both then store a vote beside
\* the other.
VotesInvariant ==
    /\ TypeOK /\ OnTheChain /\ PluginEvents /\ VotesAreCast
    /\ "raced" \notin trouble => ReadsHold /\ OneVotePerVoter

\* The vote that the chain's events amount to.
Expected(v) ==
    LET cast == Where("vote", v) \cup Where("approve", v)
        pos == LastOf(cast)
        after(k) == {p \in Where(k, v) : p > pos}
    IN  IF cast = {} THEN {}
        ELSE {[who |-> v, pos |-> pos, replaced |-> LastOf(cast \ {pos}),
               over |-> LastOf(after("override")), source |-> LastOf(after("objection")),
               cleared |-> LastOf(after("clear"))]}

CaughtUp == \A c \in Crawlers : crawler[c].next > Len(chain) /\ crawler[c].redrive = {}

Recast(v) == \E p \in Where("clear", v) : \E q \in Where("vote", v) : p < q
Uncleared(S) == {[r EXCEPT !.cleared = 0] : r \in S}

\* Once every crawler has caught up, the stored votes and the stored proposal are
\* what the chain's events amount to: however often crashes made a crawler handle
\* them again, in whatever state another had left the store, from whatever reads,
\* and for events that precede the proposal's creation too.  Left out are runs in
\* which a handler failed, two votes of one voter raced, or a crawler that was
\* going over events again went on from another's checkpoint; and of a voter who
\* cleared a vote and voted again, whether it is cleared: voteCleared has no test
\* for a stale log, and a crawler behind another clears the vote cast since.
StoreFollowsTheChain ==
    CaughtUp /\ trouble = {} =>
        /\ \A v \in Voters : \/ Mine(v) = Expected(v)
                             \/ Recast(v) /\ Uncleared(Mine(v)) = Uncleared(Expected(v))
        /\ proposal = [exists |-> TRUE, executed |-> LastOf(Where("execute", NoOne)),
                       canceled |-> LastOf(Where("cancel", NoOne)),
                       edited |-> LastOf(Where("edit", NoOne))]

Quiet ==
    /\ CaughtUp /\ \A c \in Crawlers : ~Unsent(c)
    /\ queue = 0 /\ ~worker.busy

\* When nothing is left to do the stored counts are those of the stored votes,
\* unless the last message about them was never sent or was dropped while the
\* service worked on an older snapshot: an early return leaves nothing to count.
MetricsFollowVotes == Quiet /\ ~missed => metrics = Tally

=============================================================================
