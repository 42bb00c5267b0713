---------------------------- MODULE MessageQueue ----------------------------
(***************************************************************************)
(* RabbitMQHelper on one queue: sendMessage by a service's callers and the *)
(* consumer that process() installs, with the three ways of its options to *)
(* answer a handler that throws.                                           *)
(*                                                                         *)
(* One process sends and consumes, so both of the helper's maps appear:    *)
(* activeJobs (ids being handled) and queuedMessages (ids being sent).     *)
(* The helper's mutex makes each look-and-change of them one step.  The    *)
(* broker keeps no order between messages, redelivers what a lost          *)
(* connection left unacknowledged, and the channel wrapper publishes again *)
(* what it could not see confirmed.  Payloads are abstracted to their id.  *)
(***************************************************************************)
EXTENDS Integers, FiniteSets

CONSTANTS
    Ids,             \* ids of the payloads
    Callers,         \* concurrent calls of sendMessage
    Deliveries,      \* bound: handler runs under way at once
    Prefetch,        \* DEFAULT_CONCURRENCY
    Modes,           \* the options consumers are installed with: "retry",
                     \* "requeue" (requeueOnError) or "none"
    MaxAttempts,     \* options.retry.maxAttempts
    NoId,
    MaxSends,        \* bound on calls of sendMessage
    MaxDrops,        \* bound on lost connections
    MaxCrashes,      \* bound on process restarts
    MaxSendFailures  \* bound on failed retry or dead-letter publications

ASSUME MessageQueueAssumption ==
    /\ NoId \notin Ids
    /\ Modes \subseteq {"retry", "requeue", "none"}
    /\ Prefetch \in Nat \ {0} /\ MaxAttempts \in Nat \ {0}
    /\ MaxSends \in Nat /\ MaxDrops \in Nat /\ MaxCrashes \in Nat /\ MaxSendFailures \in Nat
    /\ IsFiniteSet(Deliveries) /\ IsFiniteSet(Callers)

VARIABLES
    mode,            \* which options this consumer has; never changes
    ready,           \* how many copies of each message the queue holds
    waiting,         \* and its wait queues
    dead,            \* ids in the dead-letter queue, or dropped without one
    job,             \* per delivery: the consumer's callback
    activeJobs,
    queuedMessages,
    sending,         \* per caller: the id it is publishing
    owed,            \* ids accepted by the broker and not settled since
    sent, drops, crashes, sendFailures

helper == <<activeJobs, queuedMessages>>
rest == <<mode, sent, drops, crashes, sendFailures>>
vars == <<ready, waiting, dead, job, helper, sending, owed, rest>>

\* A payload with its x-aragon-retry-attempt header.
Messages == Ids \X (0 .. MaxAttempts - 1)

\* live: the channel that delivered the message is still open.
\* completed: the handler returned, what failed is the acknowledgement.
Idle == [pc |-> "idle", id |-> NoId, attempt |-> 0, live |-> FALSE, completed |-> FALSE]

Init ==
    /\ mode \in Modes
    /\ ready = [m \in Messages |-> 0]
    /\ waiting = [m \in Messages |-> 0]
    /\ dead = {}
    /\ job = [d \in Deliveries |-> Idle]
    /\ activeJobs = {}
    /\ queuedMessages = {}
    /\ sending = [c \in Callers |-> NoId]
    /\ owed = {}
    /\ sent = 0 /\ drops = 0 /\ crashes = 0 /\ sendFailures = 0

Msg(d) == <<job[d].id, job[d].attempt>>
Unacked == {d \in Deliveries : job[d].live}

-----------------------------------------------------------------------------
(* sendMessage *)

Send(c, id) ==
    /\ sending[c] = NoId /\ sent < MaxSends
    /\ sent' = sent + 1
    /\ \/ /\ id \in queuedMessages          \* skipped as a duplicate
          /\ UNCHANGED <<sending, queuedMessages>>
       \/ /\ id \notin queuedMessages
          /\ sending' = [sending EXCEPT ![c] = id]
          /\ queuedMessages' = queuedMessages \cup {id}
    /\ UNCHANGED <<ready, waiting, dead, job, activeJobs, owed, mode, drops, crashes, sendFailures>>

SendReturns(c) ==
    /\ sending[c] # NoId
    /\ sending' = [sending EXCEPT ![c] = NoId]
    /\ queuedMessages' = queuedMessages \ {sending[c]}
    /\ UNCHANGED <<waiting, dead, job, activeJobs, rest>>

SendConfirmed(c) ==
    /\ SendReturns(c)
    /\ ready' = [ready EXCEPT ![<<sending[c], 0>>] = @ + 1]
    /\ owed' = owed \cup {sending[c]}

\* Logged, and thrown to a caller that asked for it.
SendFails(c) == SendReturns(c) /\ UNCHANGED <<ready, owed>>

-----------------------------------------------------------------------------
(* process *)

\* A message whose id is being handled is acknowledged and dropped.
DropDuplicate(m) ==
    /\ ready[m] > 0 /\ Cardinality(Unacked) < Prefetch
    /\ m[1] \in activeJobs
    /\ ready' = [ready EXCEPT ![m] = @ - 1]
    /\ UNCHANGED <<waiting, dead, job, helper, sending, owed, rest>>

\* Mutation: deliveries are not checked against activeJobs.
DeliverUnchecked(d, m) ==
    /\ job[d].pc = "idle"
    /\ ready[m] > 0 /\ Cardinality(Unacked) < Prefetch
    /\ activeJobs' = activeJobs \cup {m[1]}
    /\ ready' = [ready EXCEPT ![m] = @ - 1]
    /\ job' = [job EXCEPT ![d] = [pc |-> "handling", id |-> m[1], attempt |-> m[2],
                                  live |-> TRUE, completed |-> FALSE]]
    /\ UNCHANGED <<waiting, dead, queuedMessages, sending, owed, rest>>

Deliver(d, m) ==
    /\ job[d].pc = "idle"
    /\ ready[m] > 0 /\ Cardinality(Unacked) < Prefetch
    /\ m[1] \notin activeJobs
    /\ activeJobs' = activeJobs \cup {m[1]}
    /\ ready' = [ready EXCEPT ![m] = @ - 1]
    /\ job' = [job EXCEPT ![d] = [pc |-> "handling", id |-> m[1], attempt |-> m[2],
                                  live |-> TRUE, completed |-> FALSE]]
    /\ UNCHANGED <<waiting, dead, queuedMessages, sending, owed, rest>>

\* The catch block.  Without options it ends here: a message of an open channel
\* stays unacknowledged.
Caught(d, completed) ==
    job' = [job EXCEPT ![d] =
              IF mode # "none" THEN [@ EXCEPT !.pc = "failed", !.completed = completed]
              ELSE IF @.live THEN [@ EXCEPT !.pc = "leaked"] ELSE Idle]

\* The handler returns; acknowledging on a closed channel throws.
HandlerSucceeds(d) ==
    /\ job[d].pc = "handling"
    /\ activeJobs' = activeJobs \ {job[d].id}
    /\ queuedMessages' = queuedMessages \ {job[d].id}
    /\ owed' = owed \ {job[d].id}
    /\ IF job[d].live THEN job' = [job EXCEPT ![d] = Idle] ELSE Caught(d, TRUE)
    /\ UNCHANGED <<ready, waiting, dead, sending, rest>>

\* Mutation: the id is freed before the retry is published.
HandlerFailsFreesId(d) ==
    /\ job[d].pc = "handling"
    /\ Caught(d, FALSE)
    /\ activeJobs' = activeJobs \ {job[d].id}
    /\ UNCHANGED <<ready, waiting, dead, queuedMessages, sending, owed, rest>>

HandlerFails(d) ==
    /\ job[d].pc = "handling"
    /\ Caught(d, FALSE)
    /\ UNCHANGED <<ready, waiting, dead, helper, sending, owed, rest>>

\* The callback ends: the id is free again and the delivery acknowledged, which
\* on a closed channel throws and is only logged.
Finish(d) ==
    /\ activeJobs' = activeJobs \ {job[d].id}
    /\ job' = [job EXCEPT ![d] = Idle]
    /\ UNCHANGED <<queuedMessages, sending>>

Nack(d) ==
    ready' = IF job[d].live THEN [ready EXCEPT ![Msg(d)] = @ + 1] ELSE ready

\* Mutation: the retry carries the attempt it was delivered with.
RetryScheduledSameAttempt(d) ==
    /\ job[d].pc = "failed" /\ mode = "retry" /\ job[d].attempt + 1 < MaxAttempts
    /\ waiting' = [waiting EXCEPT ![Msg(d)] = @ + 1]
    /\ Finish(d)
    /\ UNCHANGED <<ready, dead, owed, rest>>

RetryScheduled(d) ==
    /\ job[d].pc = "failed" /\ mode = "retry" /\ job[d].attempt + 1 < MaxAttempts
    /\ waiting' = [waiting EXCEPT ![<<job[d].id, job[d].attempt + 1>>] = @ + 1]
    /\ Finish(d)
    /\ UNCHANGED <<ready, dead, owed, rest>>

DeadLettered(d) ==
    /\ job[d].pc = "failed" /\ mode = "retry" /\ job[d].attempt + 1 >= MaxAttempts
    /\ dead' = dead \cup {job[d].id}
    /\ owed' = owed \ {job[d].id}
    /\ Finish(d)
    /\ UNCHANGED <<ready, waiting, rest>>

\* Mutation: a message that could not be published again is acknowledged.
RepublishFailsAcks(d) ==
    /\ job[d].pc = "failed" /\ mode = "retry" /\ sendFailures < MaxSendFailures
    /\ sendFailures' = sendFailures + 1
    /\ Finish(d)
    /\ UNCHANGED <<ready, waiting, dead, owed, mode, sent, drops, crashes>>

\* Mutation: it returns to the queue, its id stays in activeJobs.
RepublishFailsKeepsId(d) ==
    /\ job[d].pc = "failed" /\ mode = "retry" /\ sendFailures < MaxSendFailures
    /\ sendFailures' = sendFailures + 1
    /\ job' = [job EXCEPT ![d] = Idle]
    /\ Nack(d)
    /\ UNCHANGED <<waiting, dead, helper, sending, owed, mode, sent, drops, crashes>>

RepublishFails(d) ==
    /\ job[d].pc = "failed" /\ mode = "retry" /\ sendFailures < MaxSendFailures
    /\ sendFailures' = sendFailures + 1
    /\ Finish(d) /\ Nack(d)
    /\ UNCHANGED <<waiting, dead, owed, mode, sent, drops, crashes>>

\* requeueOnError, after retryDelayMs.
Requeue(d) ==
    /\ job[d].pc = "failed" /\ mode = "requeue"
    /\ Finish(d) /\ Nack(d)
    /\ UNCHANGED <<waiting, dead, owed, rest>>

-----------------------------------------------------------------------------
(* The broker *)

\* The wait queue's TTL expires and dead-letters the message to the queue.
DelayExpires(m) ==
    /\ waiting[m] > 0
    /\ waiting' = [waiting EXCEPT ![m] = @ - 1]
    /\ ready' = [ready EXCEPT ![m] = @ + 1]
    /\ UNCHANGED <<dead, job, helper, sending, owed, rest>>

\* The connection breaks: unacknowledged deliveries return to the queue, and of
\* what was being published some had reached the broker.
Broken(callers, retries) ==
    /\ callers \subseteq {c \in Callers : sending[c] # NoId}
    /\ retries \subseteq {d \in Deliveries : /\ job[d].pc = "failed" /\ mode = "retry"
                                             /\ job[d].attempt + 1 < MaxAttempts}
    /\ ready' = [m \in Messages |->
                   ready[m] + Cardinality({d \in Unacked : Msg(d) = m})
                            + Cardinality({c \in callers : <<sending[c], 0>> = m})]
    /\ waiting' = [m \in Messages |->
                     waiting[m] + Cardinality({d \in retries :
                                      <<job[d].id, job[d].attempt + 1>> = m})]
    /\ owed' = owed \cup {sending[c] : c \in callers}
    /\ UNCHANGED dead

\* The connection manager reconnects and replays the consumer's setup; the
\* callbacks of the old channel run on.
Reconnect(callers, retries) ==
    /\ drops < MaxDrops
    /\ drops' = drops + 1
    /\ Broken(callers, retries)
    /\ job' = [d \in Deliveries |-> IF job[d].pc = "leaked" THEN Idle
                                    ELSE [job[d] EXCEPT !.live = FALSE]]
    /\ UNCHANGED <<helper, sending, mode, sent, crashes, sendFailures>>

Crash(callers, retries) ==
    /\ crashes < MaxCrashes
    /\ crashes' = crashes + 1
    /\ Broken(callers, retries)
    /\ job' = [d \in Deliveries |-> Idle]
    /\ activeJobs' = {}
    /\ queuedMessages' = {}
    /\ sending' = [c \in Callers |-> NoId]
    /\ UNCHANGED <<mode, sent, drops, sendFailures>>

-----------------------------------------------------------------------------
Settle(d) == HandlerSucceeds(d) \/ HandlerFails(d)
Republish(d) == RetryScheduled(d) \/ DeadLettered(d)

Next ==
    \/ \E c \in Callers : (\E id \in Ids : Send(c, id)) \/ SendConfirmed(c) \/ SendFails(c)
    \/ \E m \in Messages : DropDuplicate(m) \/ DelayExpires(m)
    \/ \E d \in Deliveries, m \in Messages : Deliver(d, m)
    \/ \E d \in Deliveries : Settle(d) \/ Republish(d) \/ RepublishFails(d) \/ Requeue(d)
    \/ \E callers \in SUBSET Callers, retries \in SUBSET Deliveries :
          Reconnect(callers, retries) \/ Crash(callers, retries)

Spec == Init /\ [][Next]_vars

\* The broker delivers and expires, a handler returns or throws, a retry is
\* published at some time.  Nothing makes a handler succeed.
Fairness ==
    /\ \A m \in Messages :
          /\ WF_vars(DelayExpires(m))
          /\ SF_vars(DropDuplicate(m) \/ \E d \in Deliveries : Deliver(d, m))
    /\ \A d \in Deliveries : WF_vars(Settle(d)) /\ WF_vars(Republish(d)) /\ WF_vars(Requeue(d))

FairSpec == Spec /\ Fairness

-----------------------------------------------------------------------------
JobStates ==
    [pc : {"idle", "handling", "failed", "leaked"}, id : Ids \cup {NoId},
     attempt : 0 .. MaxAttempts - 1, live : BOOLEAN, completed : BOOLEAN]

TypeOK ==
    /\ mode \in Modes
    /\ ready \in [Messages -> Nat] /\ waiting \in [Messages -> Nat]
    /\ job \in [Deliveries -> JobStates]
    /\ dead \subseteq Ids /\ activeJobs \subseteq Ids
    /\ queuedMessages \subseteq Ids /\ owed \subseteq Ids
    /\ sending \in [Callers -> Ids \cup {NoId}]
    /\ sent \in Nat /\ drops \in Nat /\ crashes \in Nat /\ sendFailures \in Nat

Running(d) == job[d].pc \in {"handling", "failed"}

\* The inductive invariant behind SingleFlight: until the connection breaks, the
\* callbacks under way hold an open channel and the ids of activeJobs, one each.
QueueInvariant ==
    /\ TypeOK
    /\ \A d \in Deliveries : IF job[d].pc = "idle" THEN ~job[d].live ELSE job[d].id \in Ids
    /\ drops = 0 =>
         /\ \A d \in Deliveries :
               job[d].pc # "idle" => /\ job[d].live /\ ~job[d].completed
                                     /\ job[d].id \in activeJobs
         /\ \A d, e \in Deliveries :
               job[d].pc # "idle" /\ job[e].pc # "idle" /\ job[d].id = job[e].id => d = e

\* Some copy of the id can still reach a handler: at the broker, delivered and
\* unacknowledged, or in a callback that has not given up on it.
Kept(id) ==
    \/ \E m \in Messages : m[1] = id /\ ready[m] + waiting[m] > 0
    \/ \E d \in Deliveries : job[d].id = id /\ (Running(d) \/ job[d].live)

\* The faults that the dedupe by activeJobs survives.
FaultsApart == drops = 0 \/ (mode = "retry" /\ sendFailures = 0 /\ crashes = 0)

\* A message the broker accepted is not lost before a handler completed for its
\* id or its attempts are exhausted.  The copies that activeJobs drops, failed
\* handlers, crashes and failed retry publications lose none while the
\* connection holds; a reconnect alone loses none where process() retries by
\* publishing again.
OwedIsKept == FaultsApart => \A id \in owed : Kept(id)

\* activeJobs runs one handler per id at a time, redeliveries after a crash
\* included, as long as the connection holds.
SingleFlight ==
    drops = 0 => \A d, e \in Deliveries :
                    Running(d) /\ Running(e) /\ job[d].id = job[e].id => d = e

\* An id is never left in activeJobs without a callback that will take it out
\* (or, without options, an unacknowledged delivery): later messages of that id
\* would all be dropped.
NoStuckId ==
    mode # "none" \/ drops = 0 =>
        \A id \in activeJobs : \E d \in Deliveries :
            job[d].id = id /\ job[d].pc # "idle" /\ ~job[d].completed

\* With the retry option every accepted message is handled or dead-lettered,
\* however often its handler throws, over crashes or a lost connection.
OwedIsSettled ==
    \A id \in Ids : id \in owed /\ mode = "retry" ~> id \notin owed \/ ~FaultsApart

=============================================================================
