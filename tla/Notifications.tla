--------------------------- MODULE Notifications ---------------------------
(***************************************************************************)
(* Telegram notifications of one organisation, from the outbox record or   *)
(* the ending-soon reminder to the subscribers' chats: the scheduled       *)
(* publishers (notificationOutbox.ts, endingSoonNotifier.ts), the queue as *)
(* rabbitMQ.ts consumes it with the retry option, the dispatcher           *)
(* (dispatcher.ts), its hourly window (daoEventWindow.ts), its markers     *)
(* (telegramNotifiedEvent.ts) and the subscribers, who come and go.        *)
(*                                                                         *)
(* A step is what runs between two awaits.  The users a message is sent to *)
(* are served concurrently (Promise.allSettled), messages too (prefetch);  *)
(* one process consumes, so activeJobs lets one handler run per message.   *)
(* Each kind of fault happens at most once in a behaviour.                 *)
(***************************************************************************)
EXTENDS Naturals, FiniteSets

CONSTANTS
    Msgs,            \* message ids
    Reminders,       \* those published by the ending-soon task
    Users,
    Wants,           \* per user: the messages whose event it subscribed to
    Cap,             \* MAX_DAO_EVENTS_PER_HOUR
    MaxAttempts,     \* DELIVERY_MAX_ATTEMPTS
    Prefetch,        \* messages delivered and not yet acknowledged
    Faults,          \* the kinds of fault that may happen
    MaxEvents,       \* faults, moves of users and turns of the hour in a behaviour
    NoMsg

FaultKinds == {"crash", "drop", "republish", "publish", "answer", "db"}

ASSUME NotificationsAssumption ==
    /\ Reminders \subseteq Msgs /\ NoMsg \notin Msgs
    /\ Wants \in [Users -> SUBSET Msgs]
    /\ Cap \in Nat \ {0} /\ MaxAttempts \in Nat \ {0} /\ Prefetch \in Nat \ {0}
    /\ Faults \subseteq FaultKinds /\ MaxEvents \in Nat

VARIABLES
    outbox,          \* per message: not there, due for publication, published
    publisher,       \* the message the scheduled task is publishing
    queue,           \* per message: copies waiting at the broker, by attempt
    dead,            \* messages in the dead-letter queue
    handler,         \* per message: the dispatcher's handle()
    todo,            \* per message and user: sendToChat
    dispatched,      \* per message: whether, and why, its marker was claimed
    marked,          \* delivery markers
    sub,             \* per user: the subscription
    leaving,         \* per user: the deletions its /forget still has to do
    count, decisions, hourTurned,   \* DaoEventWindow
    happened,        \* the faults so far
    events,          \* how much of MaxEvents is used up
    served,          \* history: who was sent, or permanently refused, what
    repeated,        \* history: who was sent what more than once
    loyal,           \* history: users active since the message was enqueued
    forgot           \* history: users whose markers were deleted

window == <<count, decisions, hourTurned>>
people == <<sub, leaving, forgot>>
budget == <<happened, events>>
history == <<served, repeated>>
vars == <<outbox, publisher, queue, dead, handler, todo, dispatched, marked, people,
          window, budget, history, loyal>>

Attempts == 0 .. MaxAttempts - 1

\* live: the channel that delivered the message is still open.
Idle == [pc |-> "idle", attempt |-> 0, live |-> FALSE]
Busy(m) == handler[m].pc # "idle"

Init ==
    /\ outbox = [m \in Msgs |-> "absent"]
    /\ publisher = [msg |-> NoMsg, sent |-> FALSE]
    /\ queue = [m \in Msgs |-> [a \in Attempts |-> 0]]
    /\ dead = {}
    /\ handler = [m \in Msgs |-> Idle]
    /\ todo = [m \in Msgs |-> [u \in Users |-> "none"]]
    /\ dispatched = [m \in Msgs |-> "no"]
    /\ marked = {}
    /\ sub = [u \in Users |-> "active"]
    /\ leaving = [u \in Users |-> {}]
    /\ count = 0 /\ decisions = [m \in Msgs |-> "none"] /\ hourTurned = FALSE
    /\ happened = {} /\ events = 0
    /\ served = {} /\ repeated = {}
    /\ loyal = [m \in Msgs |-> {}]
    /\ forgot = {}

\* findActiveSubscribersForDao.
Audience(m) == {u \in Users : sub[u] = "active" /\ m \in Wants[u]}

Event == events < MaxEvents /\ events' = events + 1

Fault(kind) ==
    /\ kind \in Faults \ happened /\ Event
    /\ happened' = happened \cup {kind}

-----------------------------------------------------------------------------
(* Where notifications come from, and the scheduled publishers *)

\* enqueue() with the proposal's transaction; a proposal entering the reminder
\* window.
Enqueue(m) ==
    /\ outbox[m] = "absent"
    /\ m \in Reminders => Audience(m) # {}
    /\ outbox' = [outbox EXCEPT ![m] = "pending"]
    /\ loyal' = [loyal EXCEPT ![m] = Audience(m)]
    /\ UNCHANGED <<publisher, queue, dead, handler, todo, dispatched, marked, people,
                   window, budget, history>>

\* A reminder is looked for only while the proposal is open and not executed.
Withdraw(m) ==
    /\ m \in Reminders /\ outbox[m] = "pending" /\ publisher.msg # m
    /\ Event
    /\ outbox' = [outbox EXCEPT ![m] = "withdrawn"]
    /\ UNCHANGED <<publisher, queue, dead, handler, todo, dispatched, marked, people,
                   window, happened, history, loyal>>

TakeRecord(m) ==
    /\ publisher.msg = NoMsg /\ outbox[m] = "pending"
    /\ publisher' = [msg |-> m, sent |-> FALSE]
    /\ UNCHANGED <<outbox, queue, dead, handler, todo, dispatched, marked, people,
                   window, budget, history, loyal>>

AddCopy(m, a) == queue' = [queue EXCEPT ![m][a] = @ + 1]

PublishOrThrow ==
    /\ publisher.msg # NoMsg /\ ~publisher.sent
    /\ AddCopy(publisher.msg, 0)
    /\ publisher' = [publisher EXCEPT !.sent = TRUE]
    /\ UNCHANGED <<outbox, dead, handler, todo, dispatched, marked, people,
                   window, budget, history, loyal>>

\* The send timed out, the broker may have the message all the same; or the
\* record could not be updated.  markFailed leaves it pending; the reminder's
\* task is rejected and looks again at its next run.
PublishFails ==
    /\ publisher.msg # NoMsg
    /\ Fault("publish")
    /\ \/ ~publisher.sent /\ AddCopy(publisher.msg, 0)
       \/ UNCHANGED queue
    /\ publisher' = [msg |-> NoMsg, sent |-> FALSE]
    /\ UNCHANGED <<outbox, dead, handler, todo, dispatched, marked, people,
                   window, history, loyal>>

\* Mutation: the record is marked before its message is sent.
MarkPublishedFirst ==
    /\ publisher.msg # NoMsg
    /\ outbox' = [outbox EXCEPT ![publisher.msg] = "published"]
    /\ publisher' = IF publisher.sent THEN [msg |-> NoMsg, sent |-> FALSE] ELSE publisher
    /\ UNCHANGED <<queue, dead, handler, todo, dispatched, marked, people,
                   window, budget, history, loyal>>

\* markPublished of the record, claim of the reminder's key.
MarkPublished ==
    /\ publisher.msg # NoMsg /\ publisher.sent
    /\ outbox' = [outbox EXCEPT ![publisher.msg] = "published"]
    /\ publisher' = [msg |-> NoMsg, sent |-> FALSE]
    /\ UNCHANGED <<queue, dead, handler, todo, dispatched, marked, people,
                   window, budget, history, loyal>>

-----------------------------------------------------------------------------
(* handle *)

Taken(m, a) ==
    /\ queue[m][a] > 0 /\ Cardinality({n \in Msgs : handler[n].live}) < Prefetch
    /\ queue' = [queue EXCEPT ![m][a] = @ - 1]

\* activeJobs: the id is being handled, the copy is acknowledged and dropped.
DropDuplicate(m, a) ==
    /\ Busy(m) /\ Taken(m, a)
    /\ UNCHANGED <<outbox, publisher, dead, handler, todo, dispatched, marked, people,
                   window, budget, history, loyal>>

At(m, pc) == handler' = [handler EXCEPT ![m].pc = pc]

\* handle() returned; acknowledging on a closed channel throws, and the catch
\* block publishes a retry of what was done, or dead-letters it.
Return(m) ==
    /\ handler' = [handler EXCEPT ![m] = Idle]
    /\ todo' = [todo EXCEPT ![m] = [u \in Users |-> "none"]]
    /\ LET next == handler[m].attempt + 1 IN
       \/ handler[m].live /\ UNCHANGED <<queue, dead>>
       \/ ~handler[m].live /\ next \in Attempts /\ AddCopy(m, next) /\ UNCHANGED dead
       \/ ~handler[m].live /\ next \notin Attempts /\ dead' = dead \cup {m} /\ UNCHANGED queue

\* claim(markerId), a duplicate key being no error; or the write is rejected.
\* Only the handler of m claims it, so the claim is a step with what precedes it.
ClaimDispatched(m, why) ==
    \/ /\ dispatched' = [dispatched EXCEPT ![m] = IF @ = "no" THEN why ELSE @]
       /\ Return(m) /\ UNCHANGED budget
    \/ /\ Fault("db") /\ At(m, "failed")
       /\ UNCHANGED <<queue, dead, todo, dispatched>>

\* The marker of an earlier dispatch, which only this id's handlers write, ends
\* the delivery at once.
Deliver(m, a) ==
    /\ ~Busy(m) /\ Taken(m, a)
    /\ handler' = IF dispatched[m] # "no" THEN handler
                  ELSE [handler EXCEPT ![m] = [pc |-> "audience", attempt |-> a, live |-> TRUE]]
    /\ UNCHANGED <<outbox, publisher, dead, todo, dispatched, marked, people,
                   window, budget, history, loyal>>

FindSubscribers(m) ==
    /\ handler[m].pc = "audience"
    /\ \/ /\ Audience(m) = {} /\ ClaimDispatched(m, "empty")
       \/ /\ Audience(m) # {} /\ At(m, "render")
          /\ todo' = [todo EXCEPT ![m] = [u \in Users |->
                                            IF u \in Audience(m) THEN "chosen" ELSE "none"]]
          /\ UNCHANGED <<queue, dead, dispatched, budget>>
    /\ UNCHANGED <<outbox, publisher, marked, people, window, history, loyal>>

Decisions == IF hourTurned THEN [n \in Msgs |-> "none"] ELSE decisions
Count == IF hourTurned THEN 0 ELSE count

\* Mutation: a retried message takes a slot again.
ClaimSlotEachTime(m) ==
    LET slot == IF Count + 1 < Cap THEN "send" ELSE IF Count + 1 = Cap THEN "notice" ELSE "muted"
    IN  [slot |-> slot, count |-> Count + 1,
         decisions |-> IF slot = "muted" THEN Decisions ELSE [Decisions EXCEPT ![m] = slot]]

\* claimSlot: a new hour forgets counts and decisions; a message decided on in
\* this hour keeps its answer; muted answers are not kept.
ClaimSlot(m) ==
    LET n == Count + 1
        slot == IF n < Cap THEN "send" ELSE IF n = Cap THEN "notice" ELSE "muted"
    IN  IF Decisions[m] # "none"
        THEN [slot |-> Decisions[m], count |-> Count, decisions |-> Decisions]
        ELSE [slot |-> slot, count |-> n,
              decisions |-> IF slot = "muted" THEN Decisions ELSE [Decisions EXCEPT ![m] = slot]]

\* render() gives null when what it describes is gone; otherwise the message
\* needs a slot.
Render(m) ==
    /\ handler[m].pc = "render"
    /\ \/ ClaimDispatched(m, "null") /\ UNCHANGED window
       \/ /\ LET claim == ClaimSlot(m) IN
             /\ count' = claim.count /\ decisions' = claim.decisions /\ hourTurned' = FALSE
             /\ \/ claim.slot = "muted" /\ ClaimDispatched(m, "muted")
                \/ /\ claim.slot # "muted" /\ At(m, "send")
                   /\ UNCHANGED <<queue, dead, todo, dispatched, budget>>
    /\ UNCHANGED <<outbox, publisher, marked, people, history, loyal>>

-----------------------------------------------------------------------------
(* sendToChat *)

Chat(m, u, pc) == todo' = [todo EXCEPT ![m][u] = pc]
Reaches(m, u) ==
    /\ served' = served \cup {<<m, u>>}
    /\ repeated' = IF <<m, u>> \in served THEN repeated \cup {<<m, u>>} ELSE repeated
Leaves(u) == loyal' = [m \in Msgs |-> loyal[m] \ {u}]

\* Mutation: the delivery marker is not looked up.
SkipMarkerCheck(m, u) ==
    /\ handler[m].pc = "send" /\ todo[m][u] = "chosen"
    /\ Chat(m, u, "sending")
    /\ UNCHANGED <<outbox, publisher, queue, dead, handler, dispatched, marked, people,
                   window, budget, history, loyal>>

\* Mutation: the delivery marker is claimed before the message is sent.
ClaimMarkerFirst(m, u) ==
    /\ handler[m].pc = "send" /\ todo[m][u] = "chosen"
    /\ Chat(m, u, IF <<m, u>> \in marked THEN "done" ELSE "sending")
    /\ marked' = marked \cup {<<m, u>>}
    /\ UNCHANGED <<outbox, publisher, queue, dead, handler, dispatched, people,
                   window, budget, history, loyal>>

CheckMarker(m, u) ==
    /\ handler[m].pc = "send" /\ todo[m][u] = "chosen"
    /\ Chat(m, u, IF <<m, u>> \in marked THEN "done" ELSE "sending")
    /\ UNCHANGED <<outbox, publisher, queue, dead, handler, dispatched, marked, people,
                   window, budget, history, loyal>>

SendSucceeds(m, u) ==
    /\ todo[m][u] = "sending"
    /\ Reaches(m, u)
    /\ Chat(m, u, "marking")
    /\ UNCHANGED <<outbox, publisher, queue, dead, handler, dispatched, marked, people,
                   window, budget, loyal>>

\* 429 past the retries of the API client, 5xx, no connection.
SendFailsForNow(m, u) ==
    /\ todo[m][u] = "sending"
    /\ Chat(m, u, "failed")
    /\ UNCHANGED <<outbox, publisher, queue, dead, handler, dispatched, marked, people,
                   window, budget, history, loyal>>

\* Telegram delivered the message, its answer did not arrive.
AnswerLost(m, u) ==
    /\ todo[m][u] = "sending"
    /\ Fault("answer")
    /\ Reaches(m, u)
    /\ Chat(m, u, "failed")
    /\ UNCHANGED <<outbox, publisher, queue, dead, handler, dispatched, marked, people,
                   window, loyal>>

\* Any other 4xx is final for this message.
SendRefused(m, u) ==
    /\ todo[m][u] = "sending"
    /\ served' = served \cup {<<m, u>>}
    /\ Chat(m, u, "marking")
    /\ UNCHANGED <<outbox, publisher, queue, dead, handler, dispatched, marked, people,
                   window, budget, repeated, loyal>>

\* 403 blocks the subscriber; saving a record deleted meanwhile throws.
UserBlockedBot(m, u) ==
    /\ todo[m][u] = "sending"
    /\ \/ /\ sub' = [sub EXCEPT ![u] = IF @ = "none" THEN "none" ELSE "inactive"]
          /\ Chat(m, u, "marking")
       \/ /\ sub[u] = "none" /\ Chat(m, u, "failed") /\ UNCHANGED sub
    /\ Leaves(u) /\ Event
    /\ UNCHANGED <<outbox, publisher, queue, dead, handler, dispatched, marked,
                   leaving, forgot, window, happened, history>>

ClaimDelivered(m, u) ==
    /\ todo[m][u] = "marking"
    /\ marked' = marked \cup {<<m, u>>}
    /\ Chat(m, u, "done")
    /\ UNCHANGED <<outbox, publisher, queue, dead, handler, dispatched, people,
                   window, budget, history, loyal>>

MarkerFails(m, u) ==
    /\ todo[m][u] = "marking"
    /\ Fault("db")
    /\ Chat(m, u, "failed")
    /\ UNCHANGED <<outbox, publisher, queue, dead, handler, dispatched, marked, people,
                   window, history, loyal>>

Settled(m) == \A u \in Users : todo[m][u] \in {"none", "done", "failed"}

\* Mutation: rejected sends are not looked at.
AllSettledIgnoringFailures(m) ==
    /\ handler[m].pc = "send" /\ Settled(m)
    /\ ClaimDispatched(m, "sent")
    /\ UNCHANGED <<outbox, publisher, marked, people, window, history, loyal>>

AllSettled(m) ==
    /\ handler[m].pc = "send" /\ Settled(m)
    /\ IF \E u \in Users : todo[m][u] = "failed"
       THEN At(m, "failed") /\ UNCHANGED <<queue, dead, todo, dispatched, budget>>
       ELSE ClaimDispatched(m, "sent")
    /\ UNCHANGED <<outbox, publisher, marked, people, window, history, loyal>>

-----------------------------------------------------------------------------
(* The consumer's catch block, as in MessageQueue with the retry option *)

\* A query of handle() is rejected.
HandlerThrows(m) ==
    /\ handler[m].pc \in {"audience", "render"}
    /\ Fault("db")
    /\ At(m, "failed")
    /\ UNCHANGED <<outbox, publisher, queue, dead, todo, dispatched, marked, people,
                   window, history, loyal>>

Free(m) ==
    /\ handler' = [handler EXCEPT ![m] = Idle]
    /\ todo' = [todo EXCEPT ![m] = [u \in Users |-> "none"]]
    /\ UNCHANGED <<outbox, publisher, dispatched, marked, people, window, history, loyal>>

Reschedule(m) ==
    /\ handler[m].pc = "failed"
    /\ IF handler[m].attempt + 1 \in Attempts
       THEN AddCopy(m, handler[m].attempt + 1) /\ UNCHANGED dead
       ELSE dead' = dead \cup {m} /\ UNCHANGED queue
    /\ Free(m)
    /\ UNCHANGED budget

\* Publishing the retry fails: back to the queue, if its channel is still open.
RescheduleFails(m) ==
    /\ handler[m].pc = "failed"
    /\ Fault("republish")
    /\ IF handler[m].live THEN AddCopy(m, handler[m].attempt) ELSE UNCHANGED queue
    /\ Free(m)
    /\ UNCHANGED dead

\* What the broker has not been acknowledged returns to the queue.
Unacked ==
    queue' = [m \in Msgs |-> [a \in Attempts |->
                queue[m][a] + IF Busy(m) /\ handler[m].live /\ handler[m].attempt = a THEN 1 ELSE 0]]

\* The connection breaks; handlers run on.
Reconnect ==
    /\ \E m \in Msgs : Busy(m)
    /\ Fault("drop")
    /\ Unacked
    /\ handler' = [m \in Msgs |-> [handler[m] EXCEPT !.live = FALSE]]
    /\ UNCHANGED <<outbox, publisher, dead, todo, dispatched, marked, people,
                   window, history, loyal>>

Crash ==
    /\ Fault("crash")
    /\ Unacked
    /\ handler' = [m \in Msgs |-> Idle]
    /\ todo' = [m \in Msgs |-> [u \in Users |-> "none"]]
    /\ publisher' = [msg |-> NoMsg, sent |-> FALSE]
    /\ leaving' = [u \in Users |-> {}]
    /\ count' = 0 /\ decisions' = [m \in Msgs |-> "none"] /\ hourTurned' = FALSE
    /\ UNCHANGED <<outbox, dead, dispatched, marked, sub, forgot, history, loyal>>

HourTurns ==
    /\ Event
    /\ hourTurned' = TRUE
    /\ UNCHANGED <<outbox, publisher, queue, dead, handler, todo, dispatched, marked, people,
                   count, decisions, happened, history, loyal>>

-----------------------------------------------------------------------------
(* Subscribers *)

\* /start, /subscribe, /resume.
Join(u) ==
    /\ sub[u] # "active" /\ leaving[u] = {} /\ Event
    /\ sub' = [sub EXCEPT ![u] = "active"]
    /\ UNCHANGED <<outbox, publisher, queue, dead, handler, todo, dispatched, marked,
                   leaving, forgot, window, happened, history, loyal>>

\* /pause.
Pause(u) ==
    /\ sub[u] = "active" /\ leaving[u] = {} /\ Event
    /\ sub' = [sub EXCEPT ![u] = "inactive"]
    /\ Leaves(u)
    /\ UNCHANGED <<outbox, publisher, queue, dead, handler, todo, dispatched, marked,
                   leaving, forgot, window, happened, history>>

\* /forget deletes the record and the markers at once; giving up the last
\* organisation deletes the markers first.
Forget(u) ==
    /\ sub[u] # "none" /\ leaving[u] = {} /\ Event
    /\ leaving' = [leaving EXCEPT ![u] = {"markers", "record"}]
    /\ UNCHANGED <<outbox, publisher, queue, dead, handler, todo, dispatched, marked,
                   sub, forgot, window, happened, history, loyal>>

DeleteMarkers(u) ==
    /\ "markers" \in leaving[u]
    /\ leaving' = [leaving EXCEPT ![u] = @ \ {"markers"}]
    /\ marked' = {d \in marked : d[2] # u}
    /\ forgot' = forgot \cup {u}
    /\ UNCHANGED <<outbox, publisher, queue, dead, handler, todo, dispatched,
                   sub, window, budget, history, loyal>>

DeleteRecord(u) ==
    /\ "record" \in leaving[u]
    /\ leaving' = [leaving EXCEPT ![u] = @ \ {"record"}]
    /\ sub' = [sub EXCEPT ![u] = "none"]
    /\ Leaves(u)
    /\ UNCHANGED <<outbox, publisher, queue, dead, handler, todo, dispatched, marked,
                   forgot, window, budget, history>>

-----------------------------------------------------------------------------
Publishing == (\E m \in Msgs : TakeRecord(m)) \/ PublishOrThrow \/ MarkPublished
Sending(m, u) == SendSucceeds(m, u) \/ SendFailsForNow(m, u) \/ SendRefused(m, u)
Chatting(m) == \E u \in Users : CheckMarker(m, u) \/ Sending(m, u) \/ ClaimDelivered(m, u)
Handling(m) ==
    \/ FindSubscribers(m) \/ Render(m) \/ Chatting(m) \/ AllSettled(m) \/ Reschedule(m)
Delivering(m) == \E a \in Attempts : DropDuplicate(m, a) \/ Deliver(m, a)

Next ==
    \/ \E m \in Msgs : Enqueue(m) \/ Withdraw(m)
    \/ Publishing \/ PublishFails
    \/ \E m \in Msgs : Delivering(m) \/ Handling(m) \/ HandlerThrows(m) \/ RescheduleFails(m)
    \/ \E m \in Msgs, u \in Users : AnswerLost(m, u) \/ UserBlockedBot(m, u) \/ MarkerFails(m, u)
    \/ Reconnect \/ Crash \/ HourTurns
    \/ \E u \in Users : Join(u) \/ Pause(u) \/ Forget(u) \/ DeleteMarkers(u) \/ DeleteRecord(u)

Spec == Init /\ [][Next]_vars

-----------------------------------------------------------------------------
PublisherStates == [msg : Msgs \cup {NoMsg}, sent : BOOLEAN]
HandlerStates ==
    [pc : {"idle", "audience", "render", "send", "failed"}, attempt : Attempts, live : BOOLEAN]
ChatStates == {"none", "chosen", "sending", "marking", "done", "failed"}

TypeOK ==
    /\ outbox \in [Msgs -> {"absent", "pending", "withdrawn", "published"}]
    /\ publisher \in PublisherStates
    /\ queue \in [Msgs -> [Attempts -> Nat]]
    /\ dead \subseteq Msgs
    /\ handler \in [Msgs -> HandlerStates]
    /\ todo \in [Msgs -> [Users -> ChatStates]]
    /\ dispatched \in [Msgs -> {"no", "empty", "null", "muted", "sent"}]
    /\ marked \subseteq Msgs \X Users
    /\ sub \in [Users -> {"none", "inactive", "active"}]
    /\ leaving \in [Users -> SUBSET {"markers", "record"}]
    /\ count \in Nat /\ decisions \in [Msgs -> {"none", "send", "notice"}]
    /\ hourTurned \in BOOLEAN
    /\ happened \subseteq Faults /\ events \in 0 .. MaxEvents
    /\ served \subseteq Msgs \X Users /\ repeated \subseteq served
    /\ loyal \in [Msgs -> SUBSET Users] /\ forgot \subseteq Users

OnItsWay(m) == Busy(m) \/ \E a \in Attempts : queue[m][a] > 0

\* The faults that the dedupe by activeJobs survives (MessageQueue).
FaultsApart == "drop" \notin happened \/ happened \cap {"crash", "republish"} = {}

\* A notification published once is not lost: until its dispatch is recorded or
\* it is dead-lettered a copy of it is queued or being handled, however the
\* publisher, the handlers and the copies dropped as duplicates interleave.
NotificationIsKept ==
    FaultsApart =>
        \A m \in Msgs : outbox[m] = "published" =>
            OnItsWay(m) \/ dispatched[m] # "no" \/ m \in dead

\* A user is sent the same message twice only if a send or its marker was lost
\* to a crash, a missing answer or a failed write, or if the user had the
\* markers deleted.  Publishing twice, retries for other users, reconnects and
\* redeliveries repeat nothing.
SentOnce ==
    \A m \in Msgs, u \in Users :
        <<m, u>> \in repeated => happened \cap {"crash", "answer", "db"} # {} \/ u \in forgot

\* A message that is yet to be made has left no trace.
NoTraceOf(m) ==
    /\ ~OnItsWay(m) /\ publisher.msg # m /\ dispatched[m] = "no"
    /\ \A u \in Users : <<m, u>> \notin marked

\* Chats are under way only while the handler awaits them.
ChatsFollowHandler(m) ==
    \A u \in Users :
        /\ handler[m].pc # "send" => todo[m][u] \notin {"sending", "marking"}
        /\ handler[m].pc \in {"idle", "audience"} => todo[m][u] = "none"

\* A delivery marker, or a chat past its send, stands for a message that reached
\* its user, and a handler that is sending has every user who was there all along
\* on its list.
ServesTheLoyal(m) ==
    \A u \in loyal[m] :
        /\ sub[u] = "active" /\ m \in Wants[u]
        /\ <<m, u>> \in marked \/ todo[m][u] \in {"marking", "done"} => <<m, u>> \in served
        /\ handler[m].pc \in {"render", "send"} => todo[m][u] # "none"

\* The inductive invariant behind DispatchedMeansServed: markers and chats are
\* honest about the users who have not left since, chats run under their handler,
\* and nothing is known of a message before it is made.
DeliveryInvariant ==
    /\ TypeOK
    /\ \A m \in Msgs :
          /\ ServesTheLoyal(m) /\ ChatsFollowHandler(m)
          /\ outbox[m] = "absent" => NoTraceOf(m)

\* When a dispatch is recorded, unless over the hourly cap or without content,
\* every user active since the notification was made has been sent it or
\* refused it: partial failures are never recorded as done.
DispatchedMeansServed ==
    \A m \in Msgs : dispatched[m] \in {"empty", "sent"} =>
        \A u \in loyal[m] : <<m, u>> \in served

\* A message is muted only when Cap other messages were let through in the same
\* hour: a retried message takes no second slot and is not muted by its own.
MutedOnlyPastTheCap ==
    [][\A m \in Msgs :
         dispatched[m] = "no" /\ dispatched'[m] = "muted" =>
            Cardinality({n \in Msgs \ {m} : decisions'[n] # "none"}) = Cap]_vars

=============================================================================
