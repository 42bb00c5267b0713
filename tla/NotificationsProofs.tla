------------------------ MODULE NotificationsProofs ------------------------
(***************************************************************************)
(* For every set of messages, reminders and users, cap, number of attempts *)
(* and prefetch, and whatever faults happen: a notification published is   *)
(* kept until its dispatch is recorded or it is dead-lettered, a recorded  *)
(* dispatch has reached every user who was there all along, a user is sent *)
(* a message twice only after a fault that explains it, and a message is   *)
(* muted only past the cap.                                                *)
(***************************************************************************)
EXTENDS Notifications, FiniteSetTheorems, TLAPS

USE NotificationsAssumption

-----------------------------------------------------------------------------
(* The operators that the actions are built from *)

\* The first attempt is an attempt, and a free handler is a handler's state.
LEMMA IdleTyped == 0 \in Attempts /\ Idle \in HandlerStates
<1>1. 0 \in Attempts
  BY DEF Attempts
<1> QED
  BY <1>1, Zenon DEF Idle, HandlerStates

\* A fault is one of the constant's and uses up the budget of events.
LEMMA EventTyped ==
    ASSUME TypeOK, Event PROVE events' \in 0 .. MaxEvents
BY DEF TypeOK, Event

\* A fault is remembered, and those before it stay so.
LEMMA FaultTyped ==
    ASSUME TypeOK, NEW kind, Fault(kind)
    PROVE  /\ happened' \subseteq Faults /\ events' \in 0 .. MaxEvents
           /\ kind \in happened' /\ happened \subseteq happened'
BY EventTyped DEF TypeOK, Fault

\* A copy put into the queue is there; nothing else is touched.
LEMMA CopyAdded ==
    ASSUME queue \in [Msgs -> [Attempts -> Nat]], NEW m \in Msgs, NEW a \in Attempts,
           AddCopy(m, a)
    PROVE  /\ queue' \in [Msgs -> [Attempts -> Nat]]
           /\ queue'[m][a] > 0
           /\ \A n \in Msgs, b \in Attempts : queue[n][b] > 0 => queue'[n][b] > 0
           /\ \A n \in Msgs : n # m => queue'[n] = queue[n]
<1> DEFINE q == [queue[m] EXCEPT ![a] = queue[m][a] + 1]
<1>1. queue[m] \in [Attempts -> Nat]
  OBVIOUS
<1>2. q \in [Attempts -> Nat] /\ q[a] > 0 /\ \A b \in Attempts : queue[m][b] > 0 => q[b] > 0
  BY <1>1
<1>3. queue' = [queue EXCEPT ![m] = q]
  BY DEF AddCopy
<1> HIDE DEF q
<1> QED
  BY <1>2, <1>3

\* A copy delivered has left the queue; the other messages' copies are there.
LEMMA CopyTaken ==
    ASSUME queue \in [Msgs -> [Attempts -> Nat]], NEW m \in Msgs, NEW a \in Attempts,
           Taken(m, a)
    PROVE  /\ queue' \in [Msgs -> [Attempts -> Nat]]
           /\ queue[m][a] > 0
           /\ \A n \in Msgs : n # m => queue'[n] = queue[n]
<1> DEFINE q == [queue[m] EXCEPT ![a] = queue[m][a] - 1]
<1>1. queue[m] \in [Attempts -> Nat] /\ queue[m][a] > 0
  BY DEF Taken
<1>2. q \in [Attempts -> Nat]
  BY <1>1
<1>3. queue' = [queue EXCEPT ![m] = q]
  BY DEF Taken
<1> HIDE DEF q
<1> QED
  BY <1>1, <1>2, <1>3

\* The broker takes back what it has not been acknowledged.
LEMMA UnackedReturn ==
    ASSUME queue \in [Msgs -> [Attempts -> Nat]], handler \in [Msgs -> HandlerStates], Unacked
    PROVE  /\ queue' \in [Msgs -> [Attempts -> Nat]]
           /\ \A m \in Msgs, a \in Attempts : queue[m][a] > 0 => queue'[m][a] > 0
           /\ \A m \in Msgs : Busy(m) /\ handler[m].live => \E a \in Attempts : queue'[m][a] > 0
           /\ \A m \in Msgs : ~Busy(m) => queue'[m] = queue[m]
<1> DEFINE Back(m, a) == IF Busy(m) /\ handler[m].live /\ handler[m].attempt = a THEN 1 ELSE 0
<1>1. \A m \in Msgs, a \in Attempts : Back(m, a) \in {0, 1}
  OBVIOUS
<1>2. \A m \in Msgs : Busy(m) /\ handler[m].live =>
        handler[m].attempt \in Attempts /\ Back(m, handler[m].attempt) = 1
  BY DEF HandlerStates
<1>3. \A m \in Msgs : ~Busy(m) => \A a \in Attempts : Back(m, a) = 0
  OBVIOUS
<1>4. queue' = [m \in Msgs |-> [a \in Attempts |-> queue[m][a] + Back(m, a)]]
  BY DEF Unacked
<1> HIDE DEF Back
<1>5. queue' \in [Msgs -> [Attempts -> Nat]]
  BY <1>1, <1>4
<1>6. \A m \in Msgs, a \in Attempts : queue'[m][a] = queue[m][a] + Back(m, a)
  BY <1>4
<1>7. \A m \in Msgs, a \in Attempts : queue[m][a] \in Nat
  OBVIOUS
<1>8. \A m \in Msgs : ~Busy(m) => queue'[m] = queue[m]
  BY <1>3, <1>5, <1>6, <1>7
<1>9. \A m \in Msgs, a \in Attempts : queue[m][a] > 0 => queue'[m][a] > 0
  <2> SUFFICES ASSUME NEW m \in Msgs, NEW a \in Attempts, queue[m][a] > 0
               PROVE  queue'[m][a] > 0
    OBVIOUS
  <2>1. Back(m, a) \in {0, 1} /\ queue[m][a] \in Nat /\ queue'[m][a] = queue[m][a] + Back(m, a)
    BY <1>1, <1>6, <1>7
  <2> QED BY <2>1
<1>10. \A m \in Msgs : Busy(m) /\ handler[m].live => \E a \in Attempts : queue'[m][a] > 0
  <2> SUFFICES ASSUME NEW m \in Msgs, Busy(m), handler[m].live
               PROVE  \E a \in Attempts : queue'[m][a] > 0
    OBVIOUS
  <2>1. handler[m].attempt \in Attempts /\ Back(m, handler[m].attempt) = 1
    BY <1>2
  <2>2. queue[m][handler[m].attempt] \in Nat /\ queue'[m][handler[m].attempt] = queue[m][handler[m].attempt] + 1
    BY <1>6, <1>7, <2>1
  <2>3. queue'[m][handler[m].attempt] > 0
    BY <2>2
  <2> QED BY <2>1, <2>3
<1> QED
  BY <1>5, <1>8, <1>9, <1>10

\* A handler moves on, with its attempt and its channel.
LEMMA HandlerMoves ==
    ASSUME handler \in [Msgs -> HandlerStates], NEW m \in Msgs,
           NEW pc \in {"idle", "audience", "render", "send", "failed"}, At(m, pc)
    PROVE  /\ handler' \in [Msgs -> HandlerStates]
           /\ handler'[m].pc = pc /\ handler'[m].live = handler[m].live
           /\ \A n \in Msgs : n # m => handler'[n] = handler[n]
<1> DEFINE h == [handler[m] EXCEPT !.pc = pc]
<1>1. handler[m] \in HandlerStates
  OBVIOUS
<1>2. h \in HandlerStates
  BY <1>1, Zenon DEF HandlerStates
<1>3. h.pc = pc /\ h.live = handler[m].live
  BY <1>1, Zenon DEF HandlerStates
<1>4. handler' = [handler EXCEPT ![m] = h]
  BY DEF At
<1> HIDE DEF h
<1> QED
  BY <1>2, <1>3, <1>4

\* A chat moves on.
LEMMA ChatMoves ==
    ASSUME todo \in [Msgs -> [Users -> ChatStates]], NEW m \in Msgs, NEW u \in Users,
           NEW pc \in ChatStates, Chat(m, u, pc)
    PROVE  /\ todo' \in [Msgs -> [Users -> ChatStates]]
           /\ todo'[m][u] = pc
           /\ \A n \in Msgs, v \in Users : n # m \/ v # u => todo'[n][v] = todo[n][v]
BY DEF Chat

\* A handler that ends, and its chats with it.
Ends(m) ==
    /\ handler' = [handler EXCEPT ![m] = Idle]
    /\ todo' = [todo EXCEPT ![m] = [u \in Users |-> "none"]]

\* Such an end leaves the other messages' handlers and chats alone.
LEMMA HandlerEnds ==
    ASSUME handler \in [Msgs -> HandlerStates], todo \in [Msgs -> [Users -> ChatStates]],
           NEW m \in Msgs, Ends(m)
    PROVE  /\ handler' \in [Msgs -> HandlerStates]
           /\ todo' \in [Msgs -> [Users -> ChatStates]]
           /\ handler'[m].pc = "idle"
           /\ \A u \in Users : todo'[m][u] = "none"
           /\ \A n \in Msgs : n # m => handler'[n] = handler[n] /\ todo'[n] = todo[n]
<1>1. Idle.pc = "idle"
  BY DEF Idle
<1>2. [u \in Users |-> "none"] \in [Users -> ChatStates]
  BY DEF ChatStates
<1> QED
  BY <1>1, <1>2, IdleTyped DEF Ends

\* handle() returned: the handler is free, and unless the copy it was for could
\* be acknowledged there is another one, or the message is dead-lettered.
LEMMA HandlerReturns ==
    ASSUME TypeOK, NEW m \in Msgs, Return(m)
    PROVE  /\ Ends(m)
           /\ queue' \in [Msgs -> [Attempts -> Nat]] /\ dead' \subseteq Msgs
           /\ \A n \in Msgs, b \in Attempts : queue[n][b] > 0 => queue'[n][b] > 0
           /\ \A n \in Msgs : n # m => queue'[n] = queue[n]
           /\ dead \subseteq dead'
<1>1. Ends(m)
  BY DEF Return, Ends
<1>2. queue \in [Msgs -> [Attempts -> Nat]] /\ dead \subseteq Msgs
  BY DEF TypeOK
<1>3. \/ UNCHANGED <<queue, dead>>
      \/ \E a \in Attempts : AddCopy(m, a) /\ UNCHANGED dead
      \/ dead' = dead \cup {m} /\ UNCHANGED queue
  BY DEF Return
<1>4. CASE \E a \in Attempts : AddCopy(m, a) /\ UNCHANGED dead
  BY <1>1, <1>2, <1>4, CopyAdded
<1>5. CASE UNCHANGED <<queue, dead>> \/ (dead' = dead \cup {m} /\ UNCHANGED queue)
  BY <1>1, <1>2, <1>5
<1> QED
  BY <1>3, <1>4, <1>5

\* The marker is claimed and the handler returns, or the write is rejected and
\* the handler fails.
LEMMA DispatchClaimed ==
    ASSUME TypeOK, NEW m \in Msgs, NEW why \in {"empty", "null", "muted", "sent"},
           ClaimDispatched(m, why)
    PROVE  \/ /\ Return(m) /\ UNCHANGED budget
              /\ dispatched' \in [Msgs -> {"no", "empty", "null", "muted", "sent"}]
              /\ dispatched'[m] = IF dispatched[m] = "no" THEN why ELSE dispatched[m]
              /\ \A n \in Msgs : n # m => dispatched'[n] = dispatched[n]
           \/ /\ Fault("db") /\ At(m, "failed")
              /\ UNCHANGED <<queue, dead, todo, dispatched>>
BY DEF ClaimDispatched, TypeOK

\* Claiming the marker keeps the types of all it touches, written or rejected.
LEMMA ClaimTyped ==
    ASSUME TypeOK, NEW m \in Msgs, NEW why \in {"empty", "null", "muted", "sent"},
           ClaimDispatched(m, why)
    PROVE  /\ queue' \in [Msgs -> [Attempts -> Nat]] /\ dead' \subseteq Msgs
           /\ handler' \in [Msgs -> HandlerStates]
           /\ todo' \in [Msgs -> [Users -> ChatStates]]
           /\ dispatched' \in [Msgs -> {"no", "empty", "null", "muted", "sent"}]
           /\ happened' \subseteq Faults /\ events' \in 0 .. MaxEvents
<1>1. /\ queue \in [Msgs -> [Attempts -> Nat]] /\ dead \subseteq Msgs
      /\ handler \in [Msgs -> HandlerStates]
      /\ todo \in [Msgs -> [Users -> ChatStates]]
      /\ dispatched \in [Msgs -> {"no", "empty", "null", "muted", "sent"}]
      /\ happened \subseteq Faults /\ events \in 0 .. MaxEvents
  BY DEF TypeOK
<1>2. CASE /\ Return(m) /\ UNCHANGED budget
           /\ dispatched' \in [Msgs -> {"no", "empty", "null", "muted", "sent"}]
  BY <1>1, <1>2, HandlerReturns, HandlerEnds DEF budget
<1>3. CASE /\ Fault("db") /\ At(m, "failed")
           /\ UNCHANGED <<queue, dead, todo, dispatched>>
  BY <1>1, <1>3, FaultTyped, HandlerMoves
<1> QED
  BY <1>2, <1>3, DispatchClaimed

\* What claimSlot leaves behind.
LEMMA SlotTyped ==
    ASSUME TypeOK, NEW m \in Msgs
    PROVE  /\ ClaimSlot(m).count \in Nat
           /\ ClaimSlot(m).decisions \in [Msgs -> {"none", "send", "notice"}]
<1>1. Count \in Nat /\ Decisions \in [Msgs -> {"none", "send", "notice"}]
  BY DEF TypeOK, Count, Decisions
<1> QED
  BY <1>1 DEF ClaimSlot

-----------------------------------------------------------------------------
(* Every action keeps the types *)

\* The outbox, the reminders and the scheduled publishers.
LEMMA PublishersKeepTypes ==
    ASSUME TypeOK, NEW m \in Msgs,
           Enqueue(m) \/ Withdraw(m) \/ TakeRecord(m) \/ PublishOrThrow \/ PublishFails
             \/ MarkPublished
    PROVE  TypeOK'
<1>1. /\ [msg |-> m, sent |-> FALSE] \in PublisherStates
      /\ [msg |-> NoMsg, sent |-> FALSE] \in PublisherStates
      /\ [publisher EXCEPT !.sent = TRUE] \in PublisherStates
      /\ publisher.msg \in Msgs \cup {NoMsg}
  BY Zenon DEF PublisherStates, TypeOK
<1>2. \A n \in Msgs : AddCopy(n, 0) => queue' \in [Msgs -> [Attempts -> Nat]]
  BY IdleTyped, CopyAdded DEF TypeOK
<1>3. CASE Enqueue(m)
  BY <1>3 DEF Enqueue, Audience, TypeOK, people, window, budget, history
<1>4. CASE Withdraw(m)
  BY <1>4, EventTyped DEF Withdraw, TypeOK, people, window, history
<1>5. CASE TakeRecord(m)
  BY <1>1, <1>5 DEF TakeRecord, TypeOK, people, window, budget, history
<1>6. CASE PublishOrThrow
  BY <1>1, <1>2, <1>6 DEF PublishOrThrow, TypeOK, people, window, budget, history
<1>7. CASE PublishFails
  BY <1>1, <1>2, <1>7, FaultTyped DEF PublishFails, TypeOK, people, window, history
<1>8. CASE MarkPublished
  BY <1>1, <1>8 DEF MarkPublished, TypeOK, people, window, budget, history
<1> QED
  BY <1>3, <1>4, <1>5, <1>6, <1>7, <1>8

\* handle() from the delivery of a copy to its end, and the consumer's catch block.
LEMMA HandlersKeepTypes ==
    ASSUME TypeOK, NEW m \in Msgs,
           Delivering(m) \/ FindSubscribers(m) \/ Render(m) \/ AllSettled(m)
             \/ HandlerThrows(m) \/ Reschedule(m) \/ RescheduleFails(m)
    PROVE  TypeOK'
<1>1. /\ queue \in [Msgs -> [Attempts -> Nat]] /\ handler \in [Msgs -> HandlerStates]
      /\ todo \in [Msgs -> [Users -> ChatStates]] /\ handler[m] \in HandlerStates
  BY DEF TypeOK
<1>2. handler[m].attempt \in Attempts
  BY <1>1, Zenon DEF HandlerStates
<1>3. ASSUME NEW a \in Attempts, DropDuplicate(m, a)
      PROVE  TypeOK'
  BY <1>1, <1>3, CopyTaken DEF DropDuplicate, TypeOK, people, window, budget, history
<1>4. ASSUME NEW a \in Attempts, Deliver(m, a)
      PROVE  TypeOK'
  <2>1. [pc |-> "audience", attempt |-> a, live |-> TRUE] \in HandlerStates
    BY Zenon DEF HandlerStates
  <2>2. handler' \in [Msgs -> HandlerStates]
    BY <1>1, <1>4, <2>1 DEF Deliver
  <2>3. queue' \in [Msgs -> [Attempts -> Nat]]
    BY <1>1, <1>4, CopyTaken DEF Deliver
  <2> QED
    BY <1>4, <2>2, <2>3 DEF Deliver, TypeOK, people, window, budget, history
<1>5. CASE FindSubscribers(m)
  <2>1. CASE Audience(m) = {} /\ ClaimDispatched(m, "empty")
    BY <1>5, <2>1, ClaimTyped DEF FindSubscribers, TypeOK, people, window, history
  <2>2. CASE Audience(m) # {}
    <3>1. handler' \in [Msgs -> HandlerStates]
      BY <1>1, <1>5, <2>2, HandlerMoves DEF FindSubscribers
    <3>2. todo' \in [Msgs -> [Users -> ChatStates]]
      BY <1>1, <1>5, <2>2 DEF FindSubscribers, ChatStates
    <3> QED
      BY <1>5, <2>2, <3>1, <3>2
      DEF FindSubscribers, TypeOK, people, window, budget, history
  <2> QED
    BY <1>5, <2>1, <2>2 DEF FindSubscribers
<1>6. CASE Render(m)
  <2>1. CASE ClaimDispatched(m, "null") /\ UNCHANGED window
    BY <1>6, <2>1, ClaimTyped DEF Render, TypeOK, people, window, history
  <2>2. CASE /\ count' = ClaimSlot(m).count /\ decisions' = ClaimSlot(m).decisions
             /\ hourTurned' = FALSE
    <3>1. CASE ClaimDispatched(m, "muted")
      BY <1>6, <2>2, <3>1, ClaimTyped, SlotTyped DEF Render, TypeOK, people, history
    <3>2. CASE At(m, "send") /\ UNCHANGED <<queue, dead, todo, dispatched, budget>>
      BY <1>1, <1>6, <2>2, <3>2, HandlerMoves, SlotTyped
      DEF Render, TypeOK, people, budget, history
    <3> QED
      BY <1>6, <2>1, <2>2, <3>1, <3>2 DEF Render
  <2> QED
    BY <1>6, <2>1, <2>2 DEF Render
<1>7. CASE AllSettled(m)
  <2>1. CASE ClaimDispatched(m, "sent")
    BY <1>7, <2>1, ClaimTyped DEF AllSettled, TypeOK, people, window, history
  <2>2. CASE At(m, "failed") /\ UNCHANGED <<queue, dead, todo, dispatched, budget>>
    BY <1>1, <1>7, <2>2, HandlerMoves
    DEF AllSettled, TypeOK, people, window, budget, history
  <2> QED
    BY <1>7, <2>1, <2>2 DEF AllSettled
<1>8. CASE HandlerThrows(m)
  BY <1>1, <1>8, HandlerMoves, FaultTyped DEF HandlerThrows, TypeOK, people, window, history
<1>9. ASSUME Reschedule(m) \/ RescheduleFails(m)
      PROVE  TypeOK'
  <2>1. Ends(m) /\ Free(m)
    BY <1>9 DEF Reschedule, RescheduleFails, Free, Ends
  <2>2. handler' \in [Msgs -> HandlerStates] /\ todo' \in [Msgs -> [Users -> ChatStates]]
    BY <1>1, <2>1, HandlerEnds
  <2>3. queue' \in [Msgs -> [Attempts -> Nat]] /\ dead' \subseteq Msgs
    BY <1>1, <1>2, <1>9, CopyAdded DEF Reschedule, RescheduleFails, TypeOK
  <2>4. happened' \subseteq Faults /\ events' \in 0 .. MaxEvents
    BY <1>9, FaultTyped DEF Reschedule, RescheduleFails, budget, TypeOK
  <2> QED
    BY <2>1, <2>2, <2>3, <2>4 DEF Free, TypeOK, people, window, history
<1> QED
  BY <1>3, <1>4, <1>5, <1>6, <1>7, <1>8, <1>9 DEF Delivering

\* The steps of one chat, and of one user.
ChatStep(m, u) ==
    \/ CheckMarker(m, u) \/ Sending(m, u) \/ ClaimDelivered(m, u)
    \/ AnswerLost(m, u) \/ UserBlockedBot(m, u) \/ MarkerFails(m, u)

UserStep(u) == Join(u) \/ Pause(u) \/ Forget(u) \/ DeleteMarkers(u) \/ DeleteRecord(u)

\* sendToChat in each of its outcomes.
LEMMA ChatsKeepTypes ==
    ASSUME TypeOK, NEW m \in Msgs, NEW u \in Users, ChatStep(m, u)
    PROVE  TypeOK'
<1>1. /\ todo \in [Msgs -> [Users -> ChatStates]] /\ <<m, u>> \in Msgs \X Users
      /\ {"sending", "marking", "done", "failed"} \subseteq ChatStates
  BY DEF TypeOK, ChatStates
<1>2. \A pc \in ChatStates : Chat(m, u, pc) => todo' \in [Msgs -> [Users -> ChatStates]]
  BY <1>1, ChatMoves
<1>3. ASSUME Reaches(m, u)
      PROVE  served' \subseteq Msgs \X Users /\ repeated' \subseteq served'
  BY <1>1, <1>3 DEF Reaches, TypeOK
<1>4. CASE CheckMarker(m, u)
  BY <1>1, <1>2, <1>4 DEF CheckMarker, TypeOK, people, window, budget, history
<1>5. CASE SendSucceeds(m, u)
  BY <1>1, <1>2, <1>3, <1>5 DEF SendSucceeds, TypeOK, people, window, budget
<1>6. CASE SendFailsForNow(m, u)
  BY <1>1, <1>2, <1>6 DEF SendFailsForNow, TypeOK, people, window, budget, history
<1>7. CASE SendRefused(m, u)
  BY <1>1, <1>2, <1>7 DEF SendRefused, TypeOK, people, window, budget
<1>8. CASE ClaimDelivered(m, u)
  BY <1>1, <1>2, <1>8 DEF ClaimDelivered, TypeOK, people, window, budget, history
<1>9. CASE AnswerLost(m, u)
  BY <1>1, <1>2, <1>3, <1>9, FaultTyped DEF AnswerLost, TypeOK, people, window
<1>10. CASE UserBlockedBot(m, u)
  <2>1. todo' \in [Msgs -> [Users -> ChatStates]] /\ events' \in 0 .. MaxEvents
    BY <1>1, <1>2, <1>10, EventTyped DEF UserBlockedBot
  <2>2. sub' \in [Users -> {"none", "inactive", "active"}]
    BY <1>10 DEF UserBlockedBot, TypeOK
  <2>3. loyal' \in [Msgs -> SUBSET Users]
    BY <1>10 DEF UserBlockedBot, Leaves, TypeOK
  <2> QED
    BY <1>10, <2>1, <2>2, <2>3 DEF UserBlockedBot, TypeOK, window, history
<1>11. CASE MarkerFails(m, u)
  BY <1>1, <1>2, <1>11, FaultTyped DEF MarkerFails, TypeOK, people, window, history
<1> QED
  BY <1>4, <1>5, <1>6, <1>7, <1>8, <1>9, <1>10, <1>11 DEF ChatStep, Sending

\* The subscribers' commands.
LEMMA UsersKeepTypes ==
    ASSUME TypeOK, NEW u \in Users, UserStep(u)
    PROVE  TypeOK'
<1>1. CASE Join(u)
  BY <1>1, EventTyped DEF Join, TypeOK, window, history
<1>2. CASE Pause(u)
  BY <1>2, EventTyped DEF Pause, Leaves, TypeOK, window, history
<1>3. CASE Forget(u)
  BY <1>3, EventTyped DEF Forget, TypeOK, window, history
<1>4. CASE DeleteMarkers(u)
  BY <1>4 DEF DeleteMarkers, TypeOK, window, budget, history
<1>5. CASE DeleteRecord(u)
  BY <1>5 DEF DeleteRecord, Leaves, TypeOK, window, budget, history
<1> QED
  BY <1>1, <1>2, <1>3, <1>4, <1>5 DEF UserStep

\* A lost connection changes the handlers' channels only; a crash frees them.
LEMMA ChannelsClose ==
    ASSUME TypeOK, Reconnect
    PROVE  /\ handler' \in [Msgs -> HandlerStates]
           /\ \A m \in Msgs : handler'[m].pc = handler[m].pc
<1> DEFINE h(m) == [handler[m] EXCEPT !.live = FALSE]
<1>1. \A m \in Msgs : handler[m] \in HandlerStates
  BY DEF TypeOK
<1>2. \A m \in Msgs : h(m) \in HandlerStates /\ h(m).pc = handler[m].pc
  BY <1>1, Zenon DEF HandlerStates
<1>3. handler' = [m \in Msgs |-> h(m)]
  BY DEF Reconnect
<1> HIDE DEF h
<1> QED
  BY <1>2, <1>3

\* A lost connection, a crash, a turn of the hour.
LEMMA BreaksKeepTypes ==
    ASSUME TypeOK, Reconnect \/ Crash \/ HourTurns
    PROVE  TypeOK'
<1>1. queue \in [Msgs -> [Attempts -> Nat]] /\ handler \in [Msgs -> HandlerStates]
  BY DEF TypeOK
<1>2. Unacked => queue' \in [Msgs -> [Attempts -> Nat]]
  BY <1>1, UnackedReturn
<1>3. CASE Reconnect
  BY <1>2, <1>3, ChannelsClose, FaultTyped DEF Reconnect, TypeOK, people, window, history
<1>4. CASE Crash
  <2>1. [msg |-> NoMsg, sent |-> FALSE] \in PublisherStates
    BY Zenon DEF PublisherStates
  <2>2. handler' \in [Msgs -> HandlerStates]
    BY <1>4, IdleTyped DEF Crash
  <2>3. todo' \in [Msgs -> [Users -> ChatStates]]
    BY <1>4 DEF Crash, ChatStates
  <2> QED
    BY <1>2, <1>4, <2>1, <2>2, <2>3, FaultTyped DEF Crash, TypeOK, history
<1>5. CASE HourTurns
  BY <1>5, EventTyped DEF HourTurns, TypeOK, people, history
<1> QED
  BY <1>3, <1>4, <1>5

\* The steps of a message at its publisher, and at its handler.
PublishStep(m) ==
    \/ Enqueue(m) \/ Withdraw(m) \/ TakeRecord(m)
    \/ publisher.msg = m /\ (PublishOrThrow \/ PublishFails \/ MarkPublished)

HandleStep(m) ==
    \/ Delivering(m) \/ FindSubscribers(m) \/ Render(m) \/ AllSettled(m)
    \/ HandlerThrows(m) \/ Reschedule(m) \/ RescheduleFails(m)

\* Whose step a step is.
LEMMA NextCases ==
    ASSUME TypeOK, [Next]_vars
    PROVE  \/ \E m \in Msgs : PublishStep(m)
           \/ \E m \in Msgs : HandleStep(m)
           \/ \E m \in Msgs, u \in Users : ChatStep(m, u)
           \/ Reconnect \/ Crash \/ HourTurns
           \/ \E u \in Users : UserStep(u)
           \/ UNCHANGED vars
<1>1. publisher.msg \in Msgs \cup {NoMsg}
  BY Zenon DEF TypeOK, PublisherStates
<1>2. PublishOrThrow \/ PublishFails \/ MarkPublished => \E m \in Msgs : PublishStep(m)
  BY <1>1 DEF PublishOrThrow, PublishFails, MarkPublished, PublishStep
<1> QED
  BY <1>2 DEF Next, Publishing, Handling, Chatting, PublishStep, HandleStep, ChatStep, UserStep

\* Every step keeps the types.
LEMMA TypesKept == TypeOK /\ [Next]_vars => TypeOK'
<1> SUFFICES ASSUME TypeOK, [Next]_vars PROVE TypeOK'
  OBVIOUS
<1>1. CASE UNCHANGED vars
  BY <1>1 DEF TypeOK, vars, people, window, budget, history
<1> QED
  BY <1>1, NextCases, PublishersKeepTypes, HandlersKeepTypes, ChatsKeepTypes,
     UsersKeepTypes, BreaksKeepTypes
  DEF PublishStep, HandleStep

-----------------------------------------------------------------------------
(* What the steps do *)

\* A step of a message's publisher leaves the handlers, the markers and the other
\* messages alone.
LEMMA PublishFrame ==
    ASSUME TypeOK, NEW m \in Msgs, PublishStep(m)
    PROVE  /\ UNCHANGED <<dead, handler, todo, dispatched, marked, people, window, history>>
           /\ \A n \in Msgs : n # m => /\ queue'[n] = queue[n] /\ outbox'[n] = outbox[n]
                                       /\ loyal'[n] = loyal[n]
           /\ \A a \in Attempts : queue[m][a] > 0 => queue'[m][a] > 0
           /\ happened \subseteq happened'
           /\ publisher.msg = m \/ outbox'[m] # "absent"
           /\ outbox'[m] = "absent" => outbox[m] = "absent"
           /\ publisher'.msg \in {m, NoMsg, publisher.msg}
           /\ Enqueue(m) \/ loyal' = loyal
<1>1. CASE Enqueue(m) \/ Withdraw(m) \/ TakeRecord(m)
  BY <1>1 DEF Enqueue, Withdraw, TakeRecord, TypeOK, people, window, budget, history
<1>2. CASE publisher.msg = m /\ (PublishOrThrow \/ PublishFails \/ MarkPublished)
  <2>1. UNCHANGED <<dead, handler, todo, dispatched, marked, people, window, history, loyal>>
    BY <1>2 DEF PublishOrThrow, PublishFails, MarkPublished
  <2>2. AddCopy(m, 0) \/ UNCHANGED queue
    BY <1>2 DEF PublishOrThrow, PublishFails, MarkPublished
  <2>3. /\ \A n \in Msgs : n # m => queue'[n] = queue[n]
        /\ \A a \in Attempts : queue[m][a] > 0 => queue'[m][a] > 0
    BY <2>2, CopyAdded, IdleTyped DEF TypeOK
  <2>4. /\ \A n \in Msgs : n # m => outbox'[n] = outbox[n]
        /\ outbox'[m] = "absent" => outbox[m] = "absent"
        /\ happened \subseteq happened'
    BY <1>2 DEF PublishOrThrow, PublishFails, MarkPublished, Fault, TypeOK, budget
  <2>5. publisher'.msg \in {m, NoMsg}
    <3>1. [publisher EXCEPT !.sent = TRUE].msg = publisher.msg
      BY Zenon DEF TypeOK, PublisherStates
    <3>2. \/ publisher' = [publisher EXCEPT !.sent = TRUE]
          \/ publisher' = [msg |-> NoMsg, sent |-> FALSE]
      BY <1>2, Zenon DEF PublishOrThrow, PublishFails, MarkPublished
    <3>3. CASE publisher' = [publisher EXCEPT !.sent = TRUE]
      BY <1>2, <3>1, <3>3, Zenon
    <3>4. CASE publisher' = [msg |-> NoMsg, sent |-> FALSE]
      BY <3>4
    <3> QED
      BY <3>2, <3>3, <3>4
  <2> QED
    BY <1>2, <2>1, <2>3, <2>4, <2>5
<1> QED
  BY <1>1, <1>2 DEF PublishStep

\* A handler at work, and where a step takes it.
Drops(m) == UNCHANGED <<handler, todo>> /\ (Busy(m) \/ dispatched'[m] # "no")
Starts(m) ==
    /\ handler[m].pc = "idle" /\ handler'[m].pc = "audience" /\ handler'[m].live
    /\ todo' = todo
Renders(m) ==
    /\ handler[m].pc = "audience" /\ handler'[m].pc = "render"
    /\ \A u \in Users : todo'[m][u] = IF u \in Audience(m) THEN "chosen" ELSE "none"
Sends(m) == handler[m].pc = "render" /\ handler'[m].pc = "send" /\ todo' = todo
AtRest(m) == handler[m].pc # "idle" /\ (handler[m].pc = "send" => Settled(m))
Fails(m) == AtRest(m) /\ handler'[m].pc = "failed" /\ todo' = todo
Finishes(m) == AtRest(m) /\ handler'[m].pc = "idle" /\ \A u \in Users : todo'[m][u] = "none"

\* A message whose handler has ended is accounted for, unless publishing its
\* retry failed on a closed channel.
Accounted(m) ==
    \/ dispatched'[m] # "no" \/ m \in dead' \/ \E a \in Attempts : queue'[m][a] > 0
    \/ ~handler[m].live /\ "republish" \in happened'

HandlerAct(m) ==
    \/ Drops(m) \/ Starts(m)
    \/ (Renders(m) \/ Sends(m) \/ Fails(m)) /\ handler'[m].live = handler[m].live
    \/ Finishes(m) /\ Accounted(m)

\* What a handler's step leaves alone.
HandlerFrame(m) ==
    /\ UNCHANGED <<outbox, publisher, marked, people, history, loyal>>
    /\ \A n \in Msgs : n # m => /\ queue'[n] = queue[n] /\ handler'[n] = handler[n]
                                /\ todo'[n] = todo[n] /\ dispatched'[n] = dispatched[n]
    /\ dead \subseteq dead' /\ happened \subseteq happened'
    /\ dispatched[m] # "no" => dispatched'[m] = dispatched[m]
    /\ OnItsWay(m)

\* The end of a handler in its claim of the marker.
LEMMA ClaimActs ==
    ASSUME TypeOK, NEW m \in Msgs, NEW why \in {"empty", "null", "muted", "sent"},
           ClaimDispatched(m, why), AtRest(m),
           UNCHANGED <<outbox, publisher, marked, people, history, loyal>>
    PROVE  HandlerFrame(m) /\ HandlerAct(m)
<1>1. handler \in [Msgs -> HandlerStates] /\ todo \in [Msgs -> [Users -> ChatStates]]
  BY DEF TypeOK
<1>2. OnItsWay(m)
  BY DEF AtRest, OnItsWay, Busy
<1>3. ASSUME /\ Return(m) /\ UNCHANGED budget
             /\ dispatched'[m] = IF dispatched[m] = "no" THEN why ELSE dispatched[m]
             /\ \A n \in Msgs : n # m => dispatched'[n] = dispatched[n]
      PROVE  HandlerFrame(m) /\ HandlerAct(m)
  <2>1. /\ \A n \in Msgs : n # m => queue'[n] = queue[n]
        /\ dead \subseteq dead' /\ Ends(m)
    BY <1>3, HandlerReturns
  <2>2. /\ handler'[m].pc = "idle" /\ \A u \in Users : todo'[m][u] = "none"
        /\ \A n \in Msgs : n # m => handler'[n] = handler[n] /\ todo'[n] = todo[n]
    BY <1>1, <2>1, HandlerEnds
  <2>3. dispatched'[m] # "no" /\ (dispatched[m] # "no" => dispatched'[m] = dispatched[m])
    BY <1>3
  <2>4. happened' = happened
    BY <1>3 DEF budget
  <2>5. HandlerFrame(m)
    BY <1>2, <1>3, <2>1, <2>2, <2>3, <2>4 DEF HandlerFrame
  <2>6. Finishes(m) /\ Accounted(m)
    BY <2>2, <2>3 DEF Finishes, Accounted
  <2> QED
    BY <2>5, <2>6 DEF HandlerAct
<1>4. ASSUME Fault("db"), At(m, "failed"), UNCHANGED <<queue, dead, todo, dispatched>>
      PROVE  HandlerFrame(m) /\ HandlerAct(m)
  <2>1. /\ handler'[m].pc = "failed" /\ handler'[m].live = handler[m].live
        /\ \A n \in Msgs : n # m => handler'[n] = handler[n]
    BY <1>1, <1>4, HandlerMoves
  <2>2. happened \subseteq happened'
    BY <1>4, FaultTyped
  <2>3. HandlerFrame(m)
    BY <1>2, <1>4, <2>1, <2>2 DEF HandlerFrame
  <2>4. Fails(m)
    BY <1>4, <2>1 DEF Fails
  <2> QED
    BY <2>1, <2>3, <2>4 DEF HandlerAct
<1> QED
  BY <1>3, <1>4, DispatchClaimed

\* Every step of a handler is one of these acts.
LEMMA HandlerActs ==
    ASSUME TypeOK, NEW m \in Msgs, HandleStep(m)
    PROVE  HandlerFrame(m) /\ HandlerAct(m)
<1>1. /\ queue \in [Msgs -> [Attempts -> Nat]] /\ handler \in [Msgs -> HandlerStates]
      /\ todo \in [Msgs -> [Users -> ChatStates]] /\ handler[m] \in HandlerStates
  BY DEF TypeOK
<1>2. handler[m].attempt \in Attempts
  BY <1>1, Zenon DEF HandlerStates
<1>3. ASSUME NEW a \in Attempts, DropDuplicate(m, a) \/ Deliver(m, a)
      PROVE  HandlerFrame(m) /\ HandlerAct(m)
  <2>1. /\ \A n \in Msgs : n # m => queue'[n] = queue[n]
        /\ queue[m][a] > 0
    BY <1>1, <1>3, CopyTaken DEF DropDuplicate, Deliver
  <2>2. /\ UNCHANGED <<outbox, publisher, dead, todo, dispatched, marked, people, budget,
                       history, loyal>>
        /\ \/ handler' = handler /\ (Busy(m) \/ dispatched[m] # "no")
           \/ /\ ~Busy(m)
              /\ handler' = [handler EXCEPT ![m] =
                               [pc |-> "audience", attempt |-> a, live |-> TRUE]]
    BY <1>3 DEF DropDuplicate, Deliver
  <2>3. HandlerFrame(m)
    BY <1>1, <2>1, <2>2 DEF HandlerFrame, OnItsWay, budget
  <2>4. Drops(m) \/ Starts(m)
    BY <1>1, <2>2 DEF Drops, Starts, Busy
  <2> QED
    BY <2>3, <2>4 DEF HandlerAct
<1>4. CASE FindSubscribers(m)
  <2>1. CASE Audience(m) = {}
    BY <1>4, <2>1, ClaimActs DEF FindSubscribers, AtRest
  <2>2. CASE Audience(m) # {}
    <3>1. /\ handler'[m].pc = "render" /\ handler'[m].live = handler[m].live
          /\ \A n \in Msgs : n # m => handler'[n] = handler[n]
      BY <1>1, <1>4, <2>2, HandlerMoves DEF FindSubscribers
    <3>2. /\ \A n \in Msgs : n # m => todo'[n] = todo[n]
          /\ \A u \in Users : todo'[m][u] = IF u \in Audience(m) THEN "chosen" ELSE "none"
      BY <1>1, <1>4, <2>2 DEF FindSubscribers
    <3>3. HandlerFrame(m)
      BY <1>4, <2>2, <3>1, <3>2 DEF FindSubscribers, HandlerFrame, OnItsWay, Busy, budget
    <3>4. Renders(m)
      BY <1>4, <3>1, <3>2 DEF FindSubscribers, Renders
    <3> QED
      BY <3>1, <3>3, <3>4 DEF HandlerAct
  <2> QED
    BY <2>1, <2>2
<1>5. CASE Render(m)
  <2>1. CASE ClaimDispatched(m, "null") \/ ClaimDispatched(m, "muted")
    BY <1>5, <2>1, ClaimActs DEF Render, AtRest
  <2>2. CASE At(m, "send") /\ UNCHANGED <<queue, dead, todo, dispatched, budget>>
    <3>1. /\ handler'[m].pc = "send" /\ handler'[m].live = handler[m].live
          /\ \A n \in Msgs : n # m => handler'[n] = handler[n]
      BY <1>1, <2>2, HandlerMoves
    <3>2. HandlerFrame(m)
      BY <1>5, <2>2, <3>1 DEF Render, HandlerFrame, OnItsWay, Busy, budget
    <3>3. Sends(m)
      BY <1>5, <2>2, <3>1 DEF Render, Sends
    <3> QED
      BY <3>1, <3>2, <3>3 DEF HandlerAct
  <2> QED
    BY <1>5, <2>1, <2>2 DEF Render
<1>6. CASE AllSettled(m)
  <2>1. CASE ClaimDispatched(m, "sent")
    BY <1>6, <2>1, ClaimActs DEF AllSettled, AtRest
  <2>2. CASE At(m, "failed") /\ UNCHANGED <<queue, dead, todo, dispatched, budget>>
    <3>1. /\ handler'[m].pc = "failed" /\ handler'[m].live = handler[m].live
          /\ \A n \in Msgs : n # m => handler'[n] = handler[n]
      BY <1>1, <2>2, HandlerMoves
    <3>2. HandlerFrame(m)
      BY <1>6, <2>2, <3>1 DEF AllSettled, HandlerFrame, OnItsWay, Busy, budget
    <3>3. Fails(m)
      BY <1>6, <2>2, <3>1 DEF AllSettled, Fails, AtRest
    <3> QED
      BY <3>1, <3>2, <3>3 DEF HandlerAct
  <2> QED
    BY <1>6, <2>1, <2>2 DEF AllSettled
<1>7. CASE HandlerThrows(m)
  <2>1. /\ handler'[m].pc = "failed" /\ handler'[m].live = handler[m].live
        /\ \A n \in Msgs : n # m => handler'[n] = handler[n]
    BY <1>1, <1>7, HandlerMoves DEF HandlerThrows
  <2>2. happened \subseteq happened'
    BY <1>7, FaultTyped DEF HandlerThrows
  <2>3. HandlerFrame(m)
    BY <1>7, <2>1, <2>2 DEF HandlerThrows, HandlerFrame, OnItsWay, Busy
  <2>4. Fails(m)
    BY <1>7, <2>1 DEF HandlerThrows, Fails, AtRest
  <2> QED
    BY <2>1, <2>3, <2>4 DEF HandlerAct
<1>8. ASSUME Reschedule(m) \/ RescheduleFails(m)
      PROVE  HandlerFrame(m) /\ HandlerAct(m)
  <2>1. Ends(m) /\ Free(m) /\ handler[m].pc = "failed"
    BY <1>8 DEF Reschedule, RescheduleFails, Free, Ends
  <2>2. /\ handler'[m].pc = "idle" /\ \A u \in Users : todo'[m][u] = "none"
        /\ \A n \in Msgs : n # m => handler'[n] = handler[n] /\ todo'[n] = todo[n]
    BY <1>1, <2>1, HandlerEnds
  <2>3. happened \subseteq happened'
    BY <1>8, FaultTyped DEF Reschedule, RescheduleFails, budget
  <2>4. \/ \E a \in Attempts : AddCopy(m, a) /\ dead' = dead
        \/ m \in dead' /\ dead \subseteq dead' /\ queue' = queue
        \/ ~handler[m].live /\ "republish" \in happened' /\ dead' = dead /\ queue' = queue
    BY <1>2, <1>8, FaultTyped DEF Reschedule, RescheduleFails
  <2>5. /\ \A n \in Msgs : n # m => queue'[n] = queue[n]
        /\ dead \subseteq dead' /\ Accounted(m)
    BY <1>1, <2>4, CopyAdded DEF Accounted
  <2>6. HandlerFrame(m)
    BY <2>1, <2>2, <2>3, <2>5 DEF Free, HandlerFrame, OnItsWay, Busy
  <2>7. Finishes(m)
    BY <2>1, <2>2 DEF Finishes, AtRest
  <2> QED
    BY <2>5, <2>6, <2>7 DEF HandlerAct
<1> QED
  BY <1>3, <1>4, <1>5, <1>6, <1>7, <1>8 DEF HandleStep, Delivering

\* What the steps of a chat leave alone; the chat stays under its handler.
LEMMA ChatFrame ==
    ASSUME TypeOK, NEW m \in Msgs, NEW u \in Users, ChatStep(m, u)
    PROVE  /\ UNCHANGED <<outbox, publisher, queue, dead, handler, dispatched, leaving, forgot,
                          window>>
           /\ happened \subseteq happened' /\ served \subseteq served'
           /\ todo[m][u] \in {"sending", "marking"}
                \/ (handler[m].pc = "send" /\ todo[m][u] = "chosen")
           /\ todo'[m][u] \in {"sending", "marking", "done", "failed"}
           /\ \A n \in Msgs, v \in Users : n # m \/ v # u => todo'[n][v] = todo[n][v]
           /\ marked \subseteq marked' /\ marked' \subseteq marked \cup {<<m, u>>}
           /\ \A n \in Msgs, v \in Users : n # m \/ v # u =>
                (<<n, v>> \in served' <=> <<n, v>> \in served)
           /\ \A n \in Msgs : loyal'[n] \subseteq loyal[n]
           /\ \/ sub' = sub
              \/ /\ \A v \in Users : v # u => sub'[v] = sub[v]
                 /\ \A n \in Msgs : u \notin loyal'[n]
<1>1. /\ todo \in [Msgs -> [Users -> ChatStates]]
      /\ {"sending", "marking", "done", "failed"} \subseteq ChatStates
      /\ loyal \in [Msgs -> SUBSET Users]
  BY DEF TypeOK, ChatStates
<1>2. PICK pc \in {"sending", "marking", "done", "failed"} : Chat(m, u, pc)
  BY DEF ChatStep, Sending, CheckMarker, SendSucceeds, SendFailsForNow, SendRefused,
         ClaimDelivered, AnswerLost, UserBlockedBot, MarkerFails
<1>3. /\ todo'[m][u] \in {"sending", "marking", "done", "failed"}
      /\ \A n \in Msgs, v \in Users : n # m \/ v # u => todo'[n][v] = todo[n][v]
  BY <1>1, <1>2, ChatMoves
<1>4. /\ UNCHANGED <<outbox, publisher, queue, dead, handler, dispatched, leaving, forgot,
                     window>>
      /\ happened \subseteq happened'
      /\ todo[m][u] \in {"sending", "marking"}
           \/ (handler[m].pc = "send" /\ todo[m][u] = "chosen")
  BY DEF ChatStep, Sending, CheckMarker, SendSucceeds, SendFailsForNow, SendRefused,
         ClaimDelivered, AnswerLost, UserBlockedBot, MarkerFails, Fault, people, budget
<1>5. /\ served \subseteq served' /\ served' \subseteq served \cup {<<m, u>>}
      /\ marked \subseteq marked' /\ marked' \subseteq marked \cup {<<m, u>>}
  BY DEF ChatStep, Sending, CheckMarker, SendSucceeds, SendFailsForNow, SendRefused,
         ClaimDelivered, AnswerLost, UserBlockedBot, MarkerFails, Reaches, history
<1>6. /\ \A n \in Msgs : loyal'[n] \subseteq loyal[n]
      /\ \/ sub' = sub
         \/ /\ \A v \in Users : v # u => sub'[v] = sub[v]
            /\ \A n \in Msgs : u \notin loyal'[n]
  <2>1. CASE UserBlockedBot(m, u)
    <3>1. /\ \A n \in Msgs : loyal'[n] = loyal[n] \ {u}
          /\ \A v \in Users : v # u => sub'[v] = sub[v]
      BY <1>1, <2>1 DEF UserBlockedBot, Leaves, TypeOK
    <3> QED
      BY <3>1
  <2>2. CASE ~UserBlockedBot(m, u)
    BY <2>2 DEF ChatStep, Sending, CheckMarker, SendSucceeds, SendFailsForNow, SendRefused,
                ClaimDelivered, AnswerLost, MarkerFails, people
  <2> QED
    BY <2>1, <2>2
<1> QED
  BY <1>3, <1>4, <1>5, <1>6

\* The users' own steps, and the messages they stay subscribed for.
LEMMA UserFrame ==
    ASSUME TypeOK, NEW u \in Users, UserStep(u)
    PROVE  /\ UNCHANGED <<outbox, publisher, queue, dead, handler, todo, dispatched, window,
                          happened, history>>
           /\ marked' \subseteq marked
           /\ forgot \subseteq forgot'
           /\ u \in forgot' \/ marked' = marked
           /\ \A m \in Msgs, v \in Users : v # u => (<<m, v>> \in marked' <=> <<m, v>> \in marked)
           /\ \A m \in Msgs : loyal'[m] \subseteq loyal[m]
           /\ \A v \in Users : v # u => sub'[v] = sub[v]
           /\ sub'[u] \in {sub[u], "active"} \/ \A m \in Msgs : u \notin loyal'[m]
<1>1. CASE Join(u) \/ Forget(u)
  BY <1>1 DEF Join, Forget, TypeOK, window, budget, history
<1>2. CASE Pause(u) \/ DeleteRecord(u)
  <2>1. /\ UNCHANGED <<outbox, publisher, queue, dead, handler, todo, dispatched, marked, forgot,
                       window, happened, history>>
        /\ Leaves(u)
    BY <1>2 DEF Pause, DeleteRecord, budget
  <2>2. \A m \in Msgs : loyal'[m] = loyal[m] \ {u}
    BY <2>1 DEF Leaves
  <2>3. \A v \in Users : v # u => sub'[v] = sub[v]
    BY <1>2 DEF Pause, DeleteRecord, TypeOK
  <2> QED
    BY <2>1, <2>2, <2>3
<1>3. CASE DeleteMarkers(u)
  BY <1>3 DEF DeleteMarkers, TypeOK, window, budget, history
<1> QED
  BY <1>1, <1>2, <1>3 DEF UserStep

-----------------------------------------------------------------------------
(* Markers and chats are honest *)

\* What makes a message unknown.
LEMMA StaysUnknown ==
    ASSUME NEW n \in Msgs, NoTraceOf(n), queue'[n] = queue[n],
           handler'[n].pc \in {handler[n].pc, "idle"}, publisher'.msg # n,
           dispatched'[n] = dispatched[n], \A u \in Users : <<n, u>> \notin marked'
    PROVE  NoTraceOf(n)'
BY DEF NoTraceOf, OnItsWay, Busy

\* The part of DeliveryInvariant about one message.
DeliverySound(n) ==
    /\ ServesTheLoyal(n) /\ ChatsFollowHandler(n)
    /\ outbox[n] = "absent" => NoTraceOf(n)

\* Making a notification finds no trace of it; publishing leaves none but its copy.
LEMMA PublishersKeepSound ==
    ASSUME DeliveryInvariant, NEW m \in Msgs, PublishStep(m), NEW n \in Msgs
    PROVE  DeliverySound(n)'
<1>1. TypeOK /\ DeliverySound(n) /\ DeliverySound(m)
  BY DEF DeliveryInvariant, DeliverySound
<1>2. /\ UNCHANGED <<dead, handler, todo, dispatched, marked, people, window, history>>
      /\ n # m => queue'[n] = queue[n] /\ outbox'[n] = outbox[n] /\ loyal'[n] = loyal[n]
      /\ publisher.msg = m \/ outbox'[m] # "absent"
      /\ outbox'[m] = "absent" => outbox[m] = "absent"
      /\ publisher'.msg \in {m, NoMsg, publisher.msg}
      /\ Enqueue(m) \/ loyal' = loyal
  BY <1>1, PublishFrame
<1>3. ChatsFollowHandler(n)'
  BY <1>1, <1>2 DEF DeliverySound, ChatsFollowHandler
<1>4. ServesTheLoyal(n)'
  <2>1. CASE loyal'[n] = loyal[n]
    BY <1>1, <1>2, <2>1 DEF DeliverySound, ServesTheLoyal, people, history
  <2>2. CASE Enqueue(n)
    <3>1. loyal'[n] = Audience(n)
      BY <1>1, <2>2 DEF Enqueue, TypeOK
    <3>2. NoTraceOf(n)
      BY <1>1, <2>2 DEF Enqueue, DeliverySound
    <3>3. \A u \in Users : /\ <<n, u>> \notin marked' /\ todo'[n][u] = "none"
                           /\ handler'[n].pc = "idle"
      BY <1>1, <1>2, <3>2 DEF NoTraceOf, OnItsWay, Busy, DeliverySound, ChatsFollowHandler
    <3> QED
      BY <1>2, <3>1, <3>3 DEF ServesTheLoyal, Audience, people
  <2> QED
    BY <1>2, <2>1, <2>2
<1>5. ASSUME outbox'[n] = "absent" PROVE NoTraceOf(n)'
  <2>1. outbox[n] = "absent" /\ NoTraceOf(n)
    BY <1>1, <1>2, <1>5 DEF DeliverySound
  <2>2. n # m
    BY <1>2, <1>5, <2>1 DEF NoTraceOf
  <2>3. publisher'.msg # n
    BY <1>2, <2>1, <2>2 DEF NoTraceOf
  <2>4. \A u \in Users : <<n, u>> \notin marked'
    BY <1>2, <2>1 DEF NoTraceOf
  <2> QED
    BY <1>2, <2>1, <2>2, <2>3, <2>4, StaysUnknown
<1> QED
  BY <1>3, <1>4, <1>5 DEF DeliverySound

\* A handler puts everyone who stayed on its list, and ends with no chat under way.
LEMMA HandlersKeepSound ==
    ASSUME DeliveryInvariant, NEW m \in Msgs, HandleStep(m), NEW n \in Msgs
    PROVE  DeliverySound(n)'
<1>1. TypeOK /\ DeliverySound(n) /\ DeliverySound(m) /\ HandlerFrame(m) /\ HandlerAct(m)
  BY HandlerActs DEF DeliveryInvariant, DeliverySound
<1>2. outbox[m] # "absent"
  BY <1>1 DEF HandlerFrame, DeliverySound, NoTraceOf
<1>3. CASE n # m
  <2>1. /\ queue'[n] = queue[n] /\ handler'[n] = handler[n] /\ todo'[n] = todo[n]
        /\ dispatched'[n] = dispatched[n]
        /\ UNCHANGED <<outbox, publisher, marked, people, history, loyal>>
    BY <1>1, <1>3 DEF HandlerFrame
  <2> QED
    BY <1>1, <2>1
    DEF DeliverySound, ServesTheLoyal, ChatsFollowHandler, NoTraceOf, OnItsWay, Busy,
        people, history
<1>4. CASE n = m
  <2>1. outbox'[n] # "absent" /\ UNCHANGED <<marked, people, history, loyal>>
    BY <1>1, <1>2, <1>4 DEF HandlerFrame
  <2>2. ASSUME NEW u \in loyal[n]
        PROVE  u \in Users /\ u \in Audience(n)
    BY <1>1, <2>2 DEF DeliverySound, ServesTheLoyal, Audience, TypeOK
  <2>3. CASE Drops(n)
    BY <1>1, <2>1, <2>3
    DEF Drops, DeliverySound, ServesTheLoyal, ChatsFollowHandler, people, history
  <2>4. CASE Starts(n)
    BY <1>1, <2>1, <2>4
    DEF Starts, DeliverySound, ServesTheLoyal, ChatsFollowHandler, people, history
  <2>5. CASE Renders(n)
    BY <1>1, <2>1, <2>2, <2>5
    DEF Renders, DeliverySound, ServesTheLoyal, ChatsFollowHandler, people, history
  <2>6. CASE Sends(n)
    BY <1>1, <2>1, <2>6
    DEF Sends, DeliverySound, ServesTheLoyal, ChatsFollowHandler, people, history
  <2>7. CASE Fails(n)
    BY <1>1, <2>1, <2>7
    DEF Fails, AtRest, Settled, DeliverySound, ServesTheLoyal, ChatsFollowHandler, people,
        history
  <2>8. CASE Finishes(n)
    BY <1>1, <2>1, <2>2, <2>8
    DEF Finishes, DeliverySound, ServesTheLoyal, ChatsFollowHandler, people, history
  <2> QED
    BY <1>1, <1>4, <2>3, <2>4, <2>5, <2>6, <2>7, <2>8 DEF HandlerAct
<1> QED
  BY <1>3, <1>4

\* A chat past its send has reached its user, or the user has left.
LEMMA ChatsKeepSound ==
    ASSUME DeliveryInvariant, NEW m \in Msgs, NEW u \in Users, ChatStep(m, u), NEW n \in Msgs
    PROVE  DeliverySound(n)'
<1>1. TypeOK /\ DeliverySound(n) /\ DeliverySound(m)
  BY DEF DeliveryInvariant, DeliverySound
<1>2. /\ UNCHANGED <<outbox, publisher, queue, dead, handler, dispatched, leaving, forgot, window>>
      /\ served \subseteq served'
      /\ todo[m][u] \in {"sending", "marking"}
           \/ (handler[m].pc = "send" /\ todo[m][u] = "chosen")
      /\ todo'[m][u] \in {"sending", "marking", "done", "failed"}
      /\ \A v \in Users : n # m \/ v # u => todo'[n][v] = todo[n][v]
      /\ marked' \subseteq marked \cup {<<m, u>>}
      /\ loyal'[n] \subseteq loyal[n]
      /\ \/ sub' = sub
         \/ /\ \A v \in Users : v # u => sub'[v] = sub[v]
            /\ u \notin loyal'[n]
  BY <1>1, ChatFrame
<1>3. handler[m].pc = "send" /\ outbox[m] # "absent"
  BY <1>1, <1>2 DEF DeliverySound, ChatsFollowHandler, NoTraceOf, OnItsWay, Busy
<1>4. ChatsFollowHandler(n)'
  BY <1>1, <1>2, <1>3 DEF DeliverySound, ChatsFollowHandler
<1>5. ASSUME outbox'[n] = "absent" PROVE NoTraceOf(n)'
  <2>1. n # m /\ NoTraceOf(n)
    BY <1>1, <1>2, <1>3, <1>5 DEF DeliverySound
  <2>2. \A v \in Users : <<n, v>> \notin marked'
    BY <1>2, <2>1 DEF NoTraceOf
  <2> QED
    BY <1>2, <2>1, <2>2 DEF NoTraceOf, OnItsWay, Busy
<1>6. ServesTheLoyal(n)'
  <2> SUFFICES ASSUME NEW v \in loyal'[n]
               PROVE  /\ sub'[v] = "active" /\ n \in Wants[v]
                      /\ <<n, v>> \in marked' \/ todo'[n][v] \in {"marking", "done"}
                           => <<n, v>> \in served'
                      /\ handler'[n].pc \in {"render", "send"} => todo'[n][v] # "none"
    BY DEF ServesTheLoyal
  <2>1. v \in loyal[n] /\ v \in Users
    BY <1>1, <1>2 DEF TypeOK
  <2>2. /\ sub[v] = "active" /\ n \in Wants[v]
        /\ <<n, v>> \in marked \/ todo[n][v] \in {"marking", "done"} => <<n, v>> \in served
        /\ handler[n].pc \in {"render", "send"} => todo[n][v] # "none"
    BY <1>1, <2>1 DEF DeliverySound, ServesTheLoyal
  <2>3. sub'[v] = "active"
    BY <1>2, <2>1, <2>2
  <2>4. handler'[n].pc \in {"render", "send"} => todo'[n][v] # "none"
    BY <1>2, <2>1, <2>2
  <2>5. CASE n # m \/ v # u
    BY <1>2, <2>1, <2>2, <2>3, <2>4, <2>5
  <2>6. CASE n = m /\ v = u
    <3>1. /\ todo \in [Msgs -> [Users -> ChatStates]]
          /\ {"sending", "marking", "done", "failed"} \subseteq ChatStates
      BY <1>1 DEF TypeOK, ChatStates
    <3>2. \A pc \in ChatStates : Chat(m, u, pc) => todo'[m][u] = pc
      BY <3>1, ChatMoves
    <3>3. ASSUME <<m, u>> \in marked' \/ todo'[m][u] \in {"marking", "done"},
                 <<m, u>> \notin served
          PROVE  <<m, u>> \in served'
      <4>1. <<m, u>> \notin marked /\ todo[m][u] \notin {"marking", "done"}
        BY <2>2, <2>6, <3>3
      <4>2. CASE CheckMarker(m, u) \/ SendFailsForNow(m, u) \/ ClaimDelivered(m, u)
                   \/ MarkerFails(m, u)
        BY <3>1, <3>2, <3>3, <4>1, <4>2
        DEF CheckMarker, SendFailsForNow, ClaimDelivered, MarkerFails
      <4>3. CASE SendSucceeds(m, u) \/ SendRefused(m, u) \/ AnswerLost(m, u)
        BY <4>3 DEF SendSucceeds, SendRefused, AnswerLost, Reaches
      <4>4. CASE UserBlockedBot(m, u)
        BY <2>1, <2>6, <4>4 DEF UserBlockedBot, Leaves
      <4> QED
        BY <4>2, <4>3, <4>4 DEF ChatStep, Sending
    <3> QED
      BY <1>2, <2>2, <2>3, <2>4, <2>6, <3>3
  <2> QED
    BY <2>5, <2>6
<1> QED
  BY <1>4, <1>5, <1>6 DEF DeliverySound

\* Whoever leaves is no longer owed anything, and joining late owes nothing.
LEMMA UsersKeepSound ==
    ASSUME DeliveryInvariant, NEW u \in Users, UserStep(u), NEW n \in Msgs
    PROVE  DeliverySound(n)'
<1>1. TypeOK /\ DeliverySound(n)
  BY DEF DeliveryInvariant, DeliverySound
<1>2. /\ UNCHANGED <<outbox, publisher, queue, dead, handler, todo, dispatched, history>>
      /\ marked' \subseteq marked
      /\ loyal'[n] \subseteq loyal[n]
      /\ \A v \in Users : v # u => sub'[v] = sub[v]
      /\ sub'[u] \in {sub[u], "active"} \/ u \notin loyal'[n]
  BY <1>1, UserFrame
<1>3. loyal[n] \subseteq Users
  BY <1>1 DEF TypeOK
<1>4. ServesTheLoyal(n)'
  BY <1>1, <1>2, <1>3 DEF DeliverySound, ServesTheLoyal, history
<1>5. ChatsFollowHandler(n)'
  BY <1>1, <1>2 DEF DeliverySound, ChatsFollowHandler
<1>6. outbox'[n] = "absent" => NoTraceOf(n)'
  BY <1>1, <1>2 DEF DeliverySound, NoTraceOf, OnItsWay, Busy
<1> QED
  BY <1>4, <1>5, <1>6 DEF DeliverySound

\* A crash ends all chats, a lost connection none.
LEMMA BreaksKeepSound ==
    ASSUME DeliveryInvariant, Reconnect \/ Crash \/ HourTurns, NEW n \in Msgs
    PROVE  DeliverySound(n)'
<1>1. TypeOK /\ DeliverySound(n)
  BY DEF DeliveryInvariant, DeliverySound
<1>2. UNCHANGED <<outbox, dispatched, marked, sub, forgot, history, loyal>>
  BY DEF Reconnect, Crash, HourTurns, people
<1>3. queue \in [Msgs -> [Attempts -> Nat]] /\ handler \in [Msgs -> HandlerStates]
  BY <1>1 DEF TypeOK
<1>4. ~Busy(n) => queue'[n] = queue[n]
  BY <1>3, UnackedReturn DEF Reconnect, Crash, HourTurns
<1>5. \/ handler'[n].pc = handler[n].pc /\ todo' = todo /\ publisher' = publisher
      \/ /\ handler'[n].pc = "idle" /\ publisher'.msg = NoMsg
         /\ \A u \in Users : todo'[n][u] = "none"
  BY <1>1, ChannelsClose DEF Reconnect, Crash, HourTurns, Idle
<1>6. ServesTheLoyal(n)'
  <2>1. loyal[n] \subseteq Users
    BY <1>1 DEF TypeOK
  <2> QED
    BY <1>1, <1>2, <1>5, <2>1 DEF DeliverySound, ServesTheLoyal, history
<1>7. ChatsFollowHandler(n)'
  BY <1>1, <1>5 DEF DeliverySound, ChatsFollowHandler
<1>8. ASSUME outbox'[n] = "absent" PROVE NoTraceOf(n)'
  <2>1. NoTraceOf(n) /\ ~Busy(n)
    BY <1>1, <1>2, <1>8 DEF DeliverySound, NoTraceOf, OnItsWay
  <2>2. publisher'.msg # n /\ \A u \in Users : <<n, u>> \notin marked'
    BY <1>2, <1>5, <2>1 DEF NoTraceOf
  <2> QED
    BY <1>2, <1>4, <1>5, <2>1, <2>2, StaysUnknown
<1> QED
  BY <1>6, <1>7, <1>8 DEF DeliverySound

\* DeliveryInvariant is inductive.
LEMMA DeliveryKept == DeliveryInvariant /\ [Next]_vars => DeliveryInvariant'
<1> SUFFICES ASSUME DeliveryInvariant, [Next]_vars PROVE DeliveryInvariant'
  OBVIOUS
<1>1. TypeOK /\ TypeOK'
  BY TypesKept DEF DeliveryInvariant
<1>2. ASSUME NEW n \in Msgs PROVE DeliverySound(n)'
  <2>1. CASE UNCHANGED vars
    BY <2>1
    DEF DeliveryInvariant, DeliverySound, ServesTheLoyal, ChatsFollowHandler, NoTraceOf,
        OnItsWay, Busy, vars, people, history
  <2> QED
    BY <1>1, <2>1, NextCases, PublishersKeepSound, HandlersKeepSound, ChatsKeepSound,
       UsersKeepSound, BreaksKeepSound
<1> QED
  BY <1>1, <1>2 DEF DeliveryInvariant, DeliverySound

\* DeliveryInvariant holds at the start.
LEMMA DeliveryStarts == Init => DeliveryInvariant
<1> SUFFICES ASSUME Init PROVE DeliveryInvariant
  OBVIOUS
<1>1. publisher \in PublisherStates /\ publisher.msg = NoMsg
  BY Zenon DEF Init, PublisherStates
<1>2. handler \in [Msgs -> HandlerStates] /\ \A m \in Msgs : handler[m].pc = "idle"
  BY IdleTyped DEF Init, Idle
<1>3. queue \in [Msgs -> [Attempts -> Nat]]
      /\ \A m \in Msgs, a \in Attempts : queue[m][a] = 0
  BY DEF Init
<1>4. todo \in [Msgs -> [Users -> ChatStates]]
  BY DEF Init, ChatStates
<1>5. TypeOK
  <2>1. /\ outbox \in [Msgs -> {"absent", "pending", "withdrawn", "published"}]
        /\ dispatched \in [Msgs -> {"no", "empty", "null", "muted", "sent"}]
        /\ sub \in [Users -> {"none", "inactive", "active"}]
        /\ leaving \in [Users -> SUBSET {"markers", "record"}]
    BY DEF Init
  <2>2. decisions \in [Msgs -> {"none", "send", "notice"}] /\ loyal \in [Msgs -> SUBSET Users]
    BY DEF Init
  <2>3. count \in Nat /\ events \in 0 .. MaxEvents
    BY DEF Init
  <2>4. /\ dead \subseteq Msgs /\ marked \subseteq Msgs \X Users /\ hourTurned \in BOOLEAN
        /\ happened \subseteq Faults /\ served \subseteq Msgs \X Users
        /\ repeated \subseteq served /\ forgot \subseteq Users
    BY DEF Init
  <2> QED
    BY <1>1, <1>2, <1>3, <1>4, <2>1, <2>2, <2>3, <2>4 DEF TypeOK
<1>6. ASSUME NEW m \in Msgs PROVE DeliverySound(m)
  BY <1>1, <1>2, <1>3
  DEF Init, DeliverySound, ServesTheLoyal, ChatsFollowHandler, NoTraceOf, OnItsWay, Busy
<1> QED
  BY <1>5, <1>6 DEF DeliveryInvariant, DeliverySound

\* Whatever fails, the markers and the chats of the dispatcher are honest about
\* the users who have not left, and chats run only while their handler awaits them.
THEOREM DeliveryInvariantHolds == Spec => []DeliveryInvariant
BY DeliveryStarts, DeliveryKept, PTL DEF Spec

-----------------------------------------------------------------------------
(* A recorded dispatch has reached its audience *)

\* A marker that is claimed as "empty" or "sent" is claimed for users who have
\* all been served.
LEMMA ClaimIsEarned ==
    ASSUME DeliveryInvariant, NEW m \in Msgs, HandleStep(m),
           dispatched[m] = "no", dispatched'[m] \in {"empty", "sent"}
    PROVE  \A u \in loyal[m] : <<m, u>> \in served
<1>1. TypeOK /\ DeliverySound(m) /\ loyal[m] \subseteq Users
  BY DEF DeliveryInvariant, DeliverySound, TypeOK
<1>2. \A why \in {"empty", "null", "muted", "sent"} :
        ClaimDispatched(m, why) => dispatched'[m] \in {"no", why}
  BY <1>1, DispatchClaimed
<1>3. \/ FindSubscribers(m) /\ Audience(m) = {}
      \/ AllSettled(m) /\ ~\E u \in Users : todo[m][u] = "failed"
  BY <1>1, <1>2
  DEF HandleStep, Delivering, DropDuplicate, Deliver, FindSubscribers, Render, AllSettled,
      HandlerThrows, Reschedule, RescheduleFails, Free
<1>4. CASE FindSubscribers(m) /\ Audience(m) = {}
  BY <1>1, <1>4 DEF DeliverySound, ServesTheLoyal, Audience
<1>5. CASE AllSettled(m) /\ ~\E u \in Users : todo[m][u] = "failed"
  BY <1>1, <1>5 DEF AllSettled, Settled, DeliverySound, ServesTheLoyal
<1> QED
  BY <1>3, <1>4, <1>5

\* No step breaks the promise of a recorded dispatch: only Enqueue adds to who is
\* owed the message, and then nothing is recorded yet.
LEMMA ServedKept ==
    DeliveryInvariant /\ DispatchedMeansServed /\ [Next]_vars => DispatchedMeansServed'
<1> SUFFICES ASSUME DeliveryInvariant, DispatchedMeansServed, [Next]_vars,
                    NEW n \in Msgs, dispatched'[n] \in {"empty", "sent"}, NEW u \in loyal'[n]
             PROVE  <<n, u>> \in served'
  BY DEF DispatchedMeansServed
<1>1. TypeOK /\ DeliverySound(n) /\ loyal[n] \subseteq Users
  BY DEF DeliveryInvariant, DeliverySound, TypeOK
<1>2. ASSUME NEW m \in Msgs, PublishStep(m) PROVE <<n, u>> \in served'
  <2>1. UNCHANGED <<dispatched, history>> /\ (n # m => loyal'[n] = loyal[n])
        /\ (Enqueue(m) \/ loyal' = loyal)
    BY <1>1, <1>2, PublishFrame
  <2>2. ~(n = m /\ Enqueue(m))
    BY <1>1, <2>1 DEF Enqueue, DeliverySound, NoTraceOf
  <2> QED
    BY <2>1, <2>2 DEF DispatchedMeansServed, history
<1>3. ASSUME NEW m \in Msgs, HandleStep(m) PROVE <<n, u>> \in served'
  <2>1. UNCHANGED <<history, loyal>> /\ (dispatched[n] # "no" => dispatched'[n] = dispatched[n])
        /\ (n # m => dispatched'[n] = dispatched[n])
    BY <1>1, <1>3, HandlerActs DEF HandlerFrame
  <2>2. CASE dispatched[n] = "no"
    BY <1>3, <2>1, <2>2, ClaimIsEarned DEF history
  <2>3. CASE dispatched[n] # "no"
    BY <2>1, <2>3 DEF DispatchedMeansServed, history
  <2> QED
    BY <2>2, <2>3
<1>4. ASSUME NEW m \in Msgs, NEW v \in Users, ChatStep(m, v) PROVE <<n, u>> \in served'
  <2>1. dispatched' = dispatched /\ served \subseteq served' /\ loyal'[n] \subseteq loyal[n]
    BY <1>1, <1>4, ChatFrame
  <2> QED
    BY <2>1 DEF DispatchedMeansServed
<1>5. ASSUME NEW v \in Users, UserStep(v) PROVE <<n, u>> \in served'
  <2>1. UNCHANGED <<dispatched, history>> /\ loyal'[n] \subseteq loyal[n]
    BY <1>1, <1>5, UserFrame
  <2> QED
    BY <2>1 DEF DispatchedMeansServed, history
<1>6. CASE Reconnect \/ Crash \/ HourTurns \/ UNCHANGED vars
  BY <1>6 DEF Reconnect, Crash, HourTurns, DispatchedMeansServed, history, vars
<1> QED
  BY <1>1, <1>2, <1>3, <1>4, <1>5, <1>6, NextCases

\* For every set of users and messages, whoever joins and leaves and whatever
\* fails: a dispatch recorded as sent, or as without audience, has reached every
\* user who was active from the moment the notification was made.
THEOREM DispatchReachesTheLoyal == Spec => []DispatchedMeansServed
<1>1. Init => DispatchedMeansServed
  BY DEF Init, DispatchedMeansServed
<1> QED
  BY <1>1, DeliveryInvariantHolds, ServedKept, PTL DEF Spec

-----------------------------------------------------------------------------
(* Nobody is sent a message twice without a fault that explains it *)

\* The faults that may repeat a message, and the user's own deletion of markers.
MayRepeat(u) == happened \cap {"crash", "answer", "db"} # {} \/ u \in forgot

\* Until then a message that reached its user has its marker, or its chat is about
\* to claim one, and a chat that is sending is the first to do so.
SentSound(m, u) ==
    ~MayRepeat(u) =>
        /\ <<m, u>> \in served => <<m, u>> \in marked \/ todo[m][u] = "marking"
        /\ todo[m][u] = "sending" => <<m, u>> \notin served
        /\ <<m, u>> \notin repeated

SentInvariant == \A m \in Msgs, u \in Users : SentSound(m, u)

\* The chat of a user sends only when no marker is there, and marks what it sent.
LEMMA ChatsSendOnce ==
    ASSUME DeliveryInvariant, SentInvariant, NEW m \in Msgs, NEW u \in Users, ChatStep(m, u),
           ~MayRepeat(u), ~MayRepeat(u)'
    PROVE  SentSound(m, u)'
<1>1. TypeOK /\ SentSound(m, u)
  BY DEF DeliveryInvariant, SentInvariant
<1>2. /\ todo \in [Msgs -> [Users -> ChatStates]]
      /\ {"sending", "marking", "done", "failed"} \subseteq ChatStates
  BY <1>1 DEF TypeOK, ChatStates
<1>3. \A pc \in ChatStates : Chat(m, u, pc) => todo'[m][u] = pc
  BY <1>2, ChatMoves
<1>4. ~Fault("answer") /\ ~Fault("db")
  BY <1>1, FaultTyped DEF MayRepeat
<1>5. /\ <<m, u>> \in served => <<m, u>> \in marked \/ todo[m][u] = "marking"
      /\ todo[m][u] = "sending" => <<m, u>> \notin served
      /\ <<m, u>> \notin repeated
  BY <1>1 DEF SentSound
<1>6. CASE CheckMarker(m, u)
  BY <1>2, <1>3, <1>5, <1>6 DEF CheckMarker, SentSound, history
<1>7. CASE SendSucceeds(m, u)
  BY <1>2, <1>3, <1>5, <1>7 DEF SendSucceeds, Reaches, SentSound
<1>8. CASE SendFailsForNow(m, u)
  BY <1>2, <1>3, <1>5, <1>8 DEF SendFailsForNow, SentSound, history
<1>9. CASE SendRefused(m, u)
  BY <1>2, <1>3, <1>5, <1>9 DEF SendRefused, SentSound
<1>10. CASE ClaimDelivered(m, u)
  BY <1>2, <1>3, <1>5, <1>10 DEF ClaimDelivered, SentSound, history
<1>11. CASE UserBlockedBot(m, u)
  BY <1>2, <1>3, <1>5, <1>11 DEF UserBlockedBot, SentSound, history
<1> QED
  BY <1>4, <1>6, <1>7, <1>8, <1>9, <1>10, <1>11
  DEF ChatStep, Sending, AnswerLost, MarkerFails

\* SentInvariant is inductive together with DeliveryInvariant.
LEMMA SentKept == DeliveryInvariant /\ SentInvariant /\ [Next]_vars => SentInvariant'
<1> SUFFICES ASSUME DeliveryInvariant, SentInvariant, [Next]_vars,
                    NEW n \in Msgs, NEW u \in Users, ~MayRepeat(u)'
             PROVE  SentSound(n, u)'
  BY DEF SentInvariant, SentSound
<1>1. TypeOK /\ DeliverySound(n) /\ SentSound(n, u)
  BY DEF DeliveryInvariant, DeliverySound, SentInvariant
<1>2. ASSUME NEW m \in Msgs, PublishStep(m) PROVE SentSound(n, u)'
  BY <1>1, <1>2, PublishFrame DEF SentSound, MayRepeat, people, history
<1>3. ASSUME NEW m \in Msgs, HandleStep(m) PROVE SentSound(n, u)'
  <2>1. HandlerFrame(m) /\ HandlerAct(m)
    BY <1>1, <1>3, HandlerActs
  <2>2. UNCHANGED <<marked, served, repeated, forgot>> /\ happened \subseteq happened'
    BY <2>1 DEF HandlerFrame, people, history
  <2>3. todo'[n][u] = todo[n][u]
          \/ (todo[n][u] # "marking" /\ todo'[n][u] \in {"none", "chosen"})
    <3>1. CASE n # m
      BY <2>1, <3>1 DEF HandlerFrame
    <3>2. CASE n = m
      BY <1>1, <2>1, <3>2
      DEF HandlerAct, Drops, Starts, Renders, Sends, Fails, Finishes, AtRest, Settled,
          DeliverySound, ChatsFollowHandler
    <3> QED
      BY <3>1, <3>2
  <2> QED
    BY <1>1, <2>2, <2>3 DEF SentSound, MayRepeat
<1>4. ASSUME NEW m \in Msgs, NEW v \in Users, ChatStep(m, v) PROVE SentSound(n, u)'
  <2>1. happened \subseteq happened' /\ forgot' = forgot /\ marked \subseteq marked'
    BY <1>1, <1>4, ChatFrame
  <2>2. ~MayRepeat(u)
    BY <2>1 DEF MayRepeat
  <2>3. CASE n = m /\ u = v
    BY <1>4, <2>2, <2>3, ChatsSendOnce
  <2>4. CASE n # m \/ u # v
    <3>1. todo'[n][u] = todo[n][u] /\ (<<n, u>> \in served' <=> <<n, u>> \in served)
      BY <1>1, <1>4, <2>4, ChatFrame
    <3>2. <<n, u>> \in repeated' => <<n, u>> \in repeated
      BY <1>4, <2>4
      DEF ChatStep, Sending, CheckMarker, SendSucceeds, SendFailsForNow, SendRefused,
          ClaimDelivered, AnswerLost, UserBlockedBot, MarkerFails, Reaches, history
    <3> QED
      BY <1>1, <2>1, <2>2, <3>1, <3>2 DEF SentSound
  <2> QED
    BY <2>3, <2>4
<1>5. ASSUME NEW v \in Users, UserStep(v) PROVE SentSound(n, u)'
  <2>1. /\ UNCHANGED <<todo, happened, history>> /\ forgot \subseteq forgot'
        /\ v \in forgot' \/ marked' = marked
        /\ v # u => (<<n, u>> \in marked' <=> <<n, u>> \in marked)
    BY <1>1, <1>5, UserFrame
  <2> QED
    BY <1>1, <2>1 DEF SentSound, MayRepeat, history
<1>6. CASE Crash
  BY <1>1, <1>6, FaultTyped DEF Crash, MayRepeat
<1>7. CASE Reconnect \/ HourTurns \/ UNCHANGED vars
  <2>1. UNCHANGED <<todo, marked, people, history>> /\ happened \subseteq happened'
    BY <1>1, <1>7, FaultTyped DEF Reconnect, HourTurns, vars, budget
  <2> QED
    BY <1>1, <2>1 DEF SentSound, MayRepeat, people, history
<1> QED
  BY <1>1, <1>2, <1>3, <1>4, <1>5, <1>6, <1>7, NextCases

\* However often a message is published, redelivered and retried, and whichever
\* connections break: a user is sent it twice only after a crash, a lost answer or
\* a failed write, or after having the markers deleted.
THEOREM NobodyIsSentTwice == Spec => []SentOnce
<1>1. Init => SentInvariant
  BY DEF Init, SentInvariant, SentSound
<1>2. SentInvariant => SentOnce
  BY DEF SentInvariant, SentSound, MayRepeat, SentOnce
<1> QED
  BY <1>1, <1>2, DeliveryInvariantHolds, SentKept, PTL DEF Spec

-----------------------------------------------------------------------------
(* A notification is not lost *)

Kept(m) == OnItsWay(m) \/ dispatched[m] # "no" \/ m \in dead

\* Only a lost connection leaves a handler on a closed channel, and what has been
\* sent to the broker is accounted for from then on.
KeptSound(m) ==
    /\ Busy(m) /\ ~handler[m].live => "drop" \in happened
    /\ FaultsApart /\ (outbox[m] = "published" \/ (publisher.msg = m /\ publisher.sent))
         => Kept(m)

KeptInvariant == \A m \in Msgs : KeptSound(m)

\* Faults are never forgotten.
LEMMA ApartBefore ==
    ASSUME happened \subseteq happened', FaultsApart' PROVE FaultsApart
BY DEF FaultsApart

\* A record is marked as published only after its copy is at the broker.
LEMMA PublishersKeepCopies ==
    ASSUME TypeOK, KeptInvariant, NEW m \in Msgs, PublishStep(m), NEW n \in Msgs
    PROVE  KeptSound(n)'
<1>1. KeptSound(n)
  BY DEF KeptInvariant
<1>2. /\ UNCHANGED <<dead, handler, dispatched>> /\ happened \subseteq happened'
      /\ n # m => queue'[n] = queue[n] /\ outbox'[n] = outbox[n]
      /\ \A a \in Attempts : queue[m][a] > 0 => queue'[m][a] > 0
  BY PublishFrame
<1>3. Busy(n)' /\ ~handler'[n].live => "drop" \in happened'
  BY <1>1, <1>2 DEF KeptSound, Busy
<1>4. Kept(n) => Kept(n)'
  BY <1>2 DEF Kept, OnItsWay, Busy
<1>5. ASSUME FaultsApart',
             outbox'[n] = "published" \/ (publisher'.msg = n /\ publisher'.sent)
      PROVE  Kept(n)'
  <2>1. FaultsApart
    BY <1>2, <1>5, ApartBefore
  <2>2. CASE outbox[n] = "published" \/ (publisher.msg = n /\ publisher.sent)
    BY <1>1, <1>4, <2>1, <2>2 DEF KeptSound
  <2>3. CASE outbox[n] # "published" /\ ~(publisher.msg = n /\ publisher.sent)
    <3>1. PublishOrThrow /\ publisher.msg = n
      <4>1. CASE Enqueue(m) \/ Withdraw(m)
        BY <1>2, <1>5, <2>3, <4>1 DEF Enqueue, Withdraw, TypeOK
      <4>2. CASE TakeRecord(m)
        BY <1>5, <2>3, <4>2 DEF TakeRecord
      <4>3. CASE publisher.msg = m /\ PublishFails
        BY <1>5, <2>3, <4>3 DEF PublishFails
      <4>4. CASE publisher.msg = m /\ MarkPublished
        BY <1>2, <1>5, <2>3, <4>4 DEF MarkPublished
      <4>5. CASE publisher.msg = m /\ PublishOrThrow
        <5>1. n = m
          BY <1>5, <2>3, <4>5, Zenon DEF PublishOrThrow, TypeOK, PublisherStates
        <5> QED
          BY <4>5, <5>1
      <4> QED
        BY <4>1, <4>2, <4>3, <4>4, <4>5 DEF PublishStep
    <3>2. AddCopy(n, 0)
      BY <3>1 DEF PublishOrThrow
    <3>3. queue'[n][0] > 0
      BY <3>2, CopyAdded, IdleTyped DEF TypeOK
    <3> QED
      BY <3>3, IdleTyped DEF Kept, OnItsWay
  <2> QED
    BY <2>2, <2>3
<1> QED
  BY <1>3, <1>5 DEF KeptSound

\* A handler that ends leaves a marker, a copy or a dead letter, unless its retry was
\* lost on a channel that a lost connection had closed.
LEMMA HandlersKeepCopies ==
    ASSUME TypeOK, KeptInvariant, NEW m \in Msgs, HandleStep(m), NEW n \in Msgs
    PROVE  KeptSound(n)'
<1>1. KeptSound(n) /\ HandlerFrame(m) /\ HandlerAct(m)
  BY HandlerActs DEF KeptInvariant
<1>2. /\ UNCHANGED <<outbox, publisher>> /\ dead \subseteq dead' /\ happened \subseteq happened'
      /\ n # m => /\ queue'[n] = queue[n] /\ handler'[n] = handler[n]
                  /\ dispatched'[n] = dispatched[n]
  BY <1>1 DEF HandlerFrame
<1>3. CASE n # m
  <2>1. FaultsApart' => FaultsApart
    BY <1>2, ApartBefore
  <2>2. (Kept(n) => Kept(n)') /\ (Busy(n)' <=> Busy(n))
    BY <1>2, <1>3 DEF Kept, OnItsWay, Busy
  <2> QED
    BY <1>1, <1>2, <1>3, <2>1, <2>2 DEF KeptSound
<1>4. CASE n = m
  <2>1. Busy(n)' /\ ~handler'[n].live => "drop" \in happened'
    BY <1>1, <1>2, <1>4
    DEF KeptSound, HandlerAct, Drops, Starts, Renders, Sends, Fails, Finishes, AtRest, Busy
  <2>2. Kept(n)' \/ (Busy(n) /\ ~handler[n].live /\ "republish" \in happened')
    <3>1. CASE Drops(n)
      BY <3>1 DEF Drops, Kept, OnItsWay, Busy
    <3>2. CASE Starts(n) \/ Renders(n) \/ Sends(n) \/ Fails(n)
      BY <3>2 DEF Starts, Renders, Sends, Fails, Kept, OnItsWay, Busy
    <3>3. CASE Finishes(n) /\ Accounted(n)
      BY <3>3 DEF Finishes, AtRest, Accounted, Kept, OnItsWay, Busy
    <3> QED
      BY <1>1, <1>4, <3>1, <3>2, <3>3 DEF HandlerAct
  <2>3. Busy(n) /\ ~handler[n].live /\ "republish" \in happened' => ~FaultsApart'
    BY <1>1, <1>2 DEF KeptSound, FaultsApart
  <2> QED
    BY <2>1, <2>2, <2>3 DEF KeptSound
<1> QED
  BY <1>3, <1>4

\* What the broker was not acknowledged comes back; handlers outlive the connection.
LEMMA BreaksKeepCopies ==
    ASSUME TypeOK, KeptInvariant, Reconnect \/ Crash \/ HourTurns, NEW n \in Msgs
    PROVE  KeptSound(n)'
<1>1. /\ KeptSound(n) /\ queue \in [Msgs -> [Attempts -> Nat]]
      /\ handler \in [Msgs -> HandlerStates]
  BY DEF KeptInvariant, TypeOK
<1>2. UNCHANGED <<outbox, dead, dispatched>> /\ happened \subseteq happened'
  BY FaultTyped DEF Reconnect, Crash, HourTurns
<1>3. FaultsApart' => FaultsApart
  BY <1>2, ApartBefore
<1>4. CASE HourTurns
  BY <1>1, <1>4 DEF HourTurns, KeptSound, FaultsApart, Kept, OnItsWay, Busy
<1>5. CASE Reconnect
  <2>1. "drop" \in happened' /\ publisher' = publisher /\ handler'[n].pc = handler[n].pc
    BY <1>5, FaultTyped, ChannelsClose DEF Reconnect
  <2>2. \A a \in Attempts : queue[n][a] > 0 => queue'[n][a] > 0
    BY <1>1, <1>5, UnackedReturn DEF Reconnect
  <2>3. Kept(n) => Kept(n)'
    BY <1>2, <2>1, <2>2 DEF Kept, OnItsWay, Busy
  <2> QED
    BY <1>1, <1>2, <1>3, <2>1, <2>3 DEF KeptSound
<1>6. CASE Crash
  <2>1. "crash" \in happened' /\ publisher'.msg = NoMsg /\ handler'[n].pc = "idle"
    BY <1>6, FaultTyped DEF Crash, Idle
  <2>2. /\ \A a \in Attempts : queue[n][a] > 0 => queue'[n][a] > 0
        /\ Busy(n) /\ handler[n].live => \E a \in Attempts : queue'[n][a] > 0
    BY <1>1, <1>6, UnackedReturn DEF Crash
  <2>3. FaultsApart' /\ Kept(n) => Kept(n)'
    BY <1>1, <1>2, <2>1, <2>2 DEF KeptSound, FaultsApart, Kept, OnItsWay
  <2>4. ~Busy(n)'
    BY <2>1 DEF Busy
  <2> QED
    BY <1>1, <1>2, <1>3, <2>1, <2>3, <2>4 DEF KeptSound
<1> QED
  BY <1>4, <1>5, <1>6

\* KeptInvariant is inductive.
LEMMA CopiesKept == TypeOK /\ KeptInvariant /\ [Next]_vars => KeptInvariant'
<1> SUFFICES ASSUME TypeOK, KeptInvariant, [Next]_vars, NEW n \in Msgs
             PROVE  KeptSound(n)'
  BY DEF KeptInvariant
<1>1. KeptSound(n)
  BY DEF KeptInvariant
<1>2. ASSUME NEW m \in Msgs, NEW u \in Users, ChatStep(m, u) PROVE KeptSound(n)'
  <2>1. UNCHANGED <<outbox, publisher, queue, dead, handler, dispatched>>
        /\ happened \subseteq happened'
    BY <1>2, ChatFrame
  <2>2. FaultsApart' => FaultsApart
    BY <2>1, ApartBefore
  <2> QED
    BY <1>1, <2>1, <2>2 DEF KeptSound, Kept, OnItsWay, Busy
<1>3. ASSUME NEW u \in Users, UserStep(u) PROVE KeptSound(n)'
  <2>1. UNCHANGED <<outbox, publisher, queue, dead, handler, dispatched, happened>>
    BY <1>3, UserFrame
  <2> QED
    BY <1>1, <2>1 DEF KeptSound, FaultsApart, Kept, OnItsWay, Busy
<1>4. CASE UNCHANGED vars
  BY <1>1, <1>4 DEF KeptSound, FaultsApart, Kept, OnItsWay, Busy, vars, budget
<1> QED
  BY <1>2, <1>3, <1>4, NextCases, PublishersKeepCopies, HandlersKeepCopies, BreaksKeepCopies

\* For every number of messages, attempts and prefetched deliveries: a published
\* notification has a copy queued or in a handler until its dispatch is recorded
\* or it is dead-lettered, unless the connection broke and, besides, the process
\* stopped or a retry could not be published.
THEOREM NotificationsAreKept == Spec => []NotificationIsKept
<1>1. Init => KeptInvariant
  <2>1. ASSUME Init PROVE \A m \in Msgs : ~Busy(m) /\ outbox[m] = "absent" /\ ~publisher.sent
    BY <2>1 DEF Init, Busy, Idle
  <2> QED
    BY <2>1 DEF KeptInvariant, KeptSound
<1>2. KeptInvariant => NotificationIsKept
  BY DEF KeptInvariant, KeptSound, NotificationIsKept, Kept
<1>3. DeliveryInvariant => TypeOK
  BY DEF DeliveryInvariant
<1> QED
  BY <1>1, <1>2, <1>3, DeliveryInvariantHolds, CopiesKept, PTL DEF Spec

-----------------------------------------------------------------------------
(* The hourly window *)

LetThrough == {n \in Msgs : decisions[n] # "none"}

\* Every message that was counted up to the cap is remembered, each once.
WindowInvariant ==
    /\ IsFiniteSet(LetThrough)
    /\ Cardinality(LetThrough) = IF count <= Cap THEN count ELSE Cap

\* What claimSlot finds, in this hour or in a new one.
LEMMA WindowFound ==
    ASSUME TypeOK, WindowInvariant
    PROVE  LET S == {n \in Msgs : Decisions[n] # "none"} IN
           /\ Count \in Nat /\ Decisions \in [Msgs -> {"none", "send", "notice"}]
           /\ IsFiniteSet(S)
           /\ Cardinality(S) = IF Count <= Cap THEN Count ELSE Cap
<1> DEFINE S == {n \in Msgs : Decisions[n] # "none"}
<1>1. CASE hourTurned
  <2>1. Count = 0 /\ Decisions = [n \in Msgs |-> "none"] /\ S = {}
    BY <1>1 DEF Count, Decisions
  <2> QED
    BY <2>1, FS_EmptySet
<1>2. CASE ~hourTurned
  <2>1. Count = count /\ Decisions = decisions /\ S = LetThrough
    BY <1>2 DEF Count, Decisions, LetThrough
  <2> QED
    BY <2>1 DEF TypeOK, WindowInvariant
<1> QED
  BY <1>1, <1>2

\* claimSlot counts a message once, and answers "muted" only to a message that it
\* has not let through, when it has let Cap others through.
LEMMA SlotClaimed ==
    ASSUME TypeOK, WindowInvariant, NEW m \in Msgs
    PROVE  LET c == ClaimSlot(m)
               T == {n \in Msgs : c.decisions[n] # "none"}
           IN  /\ IsFiniteSet(T)
               /\ Cardinality(T) = IF c.count <= Cap THEN c.count ELSE Cap
               /\ c.slot = "muted" => m \notin T /\ Cardinality(T) = Cap
<1> DEFINE S == {n \in Msgs : Decisions[n] # "none"}
           c == ClaimSlot(m)
           T == {n \in Msgs : c.decisions[n] # "none"}
<1>1. /\ Count \in Nat /\ Decisions \in [Msgs -> {"none", "send", "notice"}]
      /\ IsFiniteSet(S)
      /\ Cardinality(S) = IF Count <= Cap THEN Count ELSE Cap
  BY WindowFound
<1>2. CASE Decisions[m] # "none"
  <2>1. c = [slot |-> Decisions[m], count |-> Count, decisions |-> Decisions]
    BY <1>2 DEF ClaimSlot
  <2>2. c.slot # "muted" /\ c.count = Count /\ T = S
    BY <1>1, <2>1
  <2> QED
    BY <1>1, <2>2
<1>3. CASE Decisions[m] = "none" /\ Count + 1 <= Cap
  <2>1. PICK slot \in {"send", "notice"} :
          c = [slot |-> slot, count |-> Count + 1, decisions |-> [Decisions EXCEPT ![m] = slot]]
    BY <1>1, <1>3 DEF ClaimSlot
  <2>2. c.slot # "muted" /\ c.count = Count + 1 /\ T = S \cup {m}
    BY <1>1, <2>1
  <2>3. m \notin S
    BY <1>3
  <2>4. IsFiniteSet(T) /\ Cardinality(T) = Count + 1
    <3> HIDE DEF S, T, c
    <3>1. IsFiniteSet(T) /\ Cardinality(T) = Cardinality(S) + 1
      BY <1>1, <2>2, <2>3, FS_AddElement
    <3> QED
      BY <1>1, <1>3, <3>1
  <2> QED
    BY <1>3, <2>2, <2>4
<1>4. CASE Decisions[m] = "none" /\ ~(Count + 1 <= Cap)
  <2>1. c = [slot |-> "muted", count |-> Count + 1, decisions |-> Decisions]
    BY <1>1, <1>4 DEF ClaimSlot
  <2>2. c.count = Count + 1 /\ T = S /\ m \notin S
    BY <1>4, <2>1
  <2>3. Cardinality(S) = Cap
    BY <1>1, <1>4
  <2> QED
    BY <1>1, <1>4, <2>2, <2>3
<1> QED
  BY <1>2, <1>3, <1>4

\* Only claimSlot and a restart touch the window.
LEMMA WindowSteps ==
    ASSUME TypeOK, [Next]_vars
    PROVE  \/ UNCHANGED <<count, decisions>>
           \/ \E m \in Msgs : count' = ClaimSlot(m).count /\ decisions' = ClaimSlot(m).decisions
           \/ count' = 0 /\ decisions' = [m \in Msgs |-> "none"]
<1>1. ASSUME NEW m \in Msgs, HandleStep(m)
      PROVE  \/ UNCHANGED <<count, decisions>>
             \/ count' = ClaimSlot(m).count /\ decisions' = ClaimSlot(m).decisions
  BY <1>1
  DEF HandleStep, Delivering, DropDuplicate, Deliver, FindSubscribers, Render, AllSettled,
      HandlerThrows, Reschedule, RescheduleFails, Free, window
<1>2. ASSUME NEW m \in Msgs, PublishStep(m) PROVE UNCHANGED <<count, decisions>>
  BY <1>2, PublishFrame DEF window
<1>3. ASSUME NEW m \in Msgs, NEW u \in Users, ChatStep(m, u) PROVE UNCHANGED <<count, decisions>>
  BY <1>3, ChatFrame DEF window
<1>4. ASSUME NEW u \in Users, UserStep(u) PROVE UNCHANGED <<count, decisions>>
  BY <1>4, UserFrame DEF window
<1>5. Reconnect \/ HourTurns \/ UNCHANGED vars => UNCHANGED <<count, decisions>>
  BY DEF Reconnect, HourTurns, vars, window
<1>6. Crash => count' = 0 /\ decisions' = [m \in Msgs |-> "none"]
  BY DEF Crash
<1> QED
  BY <1>1, <1>2, <1>3, <1>4, <1>5, <1>6, NextCases

\* WindowInvariant is inductive.
LEMMA WindowKept == TypeOK /\ WindowInvariant /\ [Next]_vars => WindowInvariant'
<1> SUFFICES ASSUME TypeOK, WindowInvariant, [Next]_vars PROVE WindowInvariant'
  OBVIOUS
<1>1. CASE UNCHANGED <<count, decisions>>
  BY <1>1 DEF WindowInvariant, LetThrough
<1>2. ASSUME NEW m \in Msgs, count' = ClaimSlot(m).count, decisions' = ClaimSlot(m).decisions
      PROVE  WindowInvariant'
  BY <1>2, SlotClaimed DEF WindowInvariant, LetThrough
<1>3. CASE count' = 0 /\ decisions' = [m \in Msgs |-> "none"]
  <2>1. LetThrough' = {}
    BY <1>3 DEF LetThrough
  <2> QED
    BY <1>3, <2>1, FS_EmptySet DEF WindowInvariant
<1> QED
  BY <1>1, <1>2, <1>3, WindowSteps

\* Only a message that claimSlot has muted is recorded as muted.
LEMMA MutedBySlot ==
    ASSUME TypeOK, [Next]_vars, NEW m \in Msgs, dispatched[m] = "no", dispatched'[m] = "muted"
    PROVE  ClaimSlot(m).slot = "muted" /\ decisions' = ClaimSlot(m).decisions
<1>1. dispatched' # dispatched
  OBVIOUS
<1>2. \E n \in Msgs : HandleStep(n)
  <2>1. ASSUME NEW n \in Msgs, PublishStep(n) PROVE FALSE
    BY <1>1, <2>1, PublishFrame
  <2>2. ASSUME NEW n \in Msgs, NEW u \in Users, ChatStep(n, u) PROVE FALSE
    BY <1>1, <2>2, ChatFrame
  <2>3. ASSUME NEW u \in Users, UserStep(u) PROVE FALSE
    BY <1>1, <2>3, UserFrame
  <2>4. ~(Reconnect \/ Crash \/ HourTurns \/ UNCHANGED vars)
    BY <1>1 DEF Reconnect, Crash, HourTurns, vars
  <2> QED
    BY <2>1, <2>2, <2>3, <2>4, NextCases
<1>3. HandleStep(m)
  BY <1>2, HandlerActs DEF HandlerFrame
<1>4. \A why \in {"empty", "null", "muted", "sent"} :
        ClaimDispatched(m, why) => dispatched'[m] \in {"no", why}
  BY DispatchClaimed
<1> QED
  BY <1>1, <1>3, <1>4
  DEF HandleStep, Delivering, DropDuplicate, Deliver, FindSubscribers, Render, AllSettled,
      HandlerThrows, Reschedule, RescheduleFails, Free

\* For every cap and every order of messages, retries and turns of the hour: a
\* message is muted only when Cap others were let through in its hour.
THEOREM MutedPastTheCap == Spec => MutedOnlyPastTheCap
<1>1. Init => WindowInvariant
  <2>1. ASSUME Init PROVE LetThrough = {} /\ count = 0
    BY <2>1 DEF Init, LetThrough
  <2> QED
    BY <2>1, FS_EmptySet DEF WindowInvariant
<1>2. DeliveryInvariant => TypeOK
  BY DEF DeliveryInvariant
<1>3. TypeOK /\ WindowInvariant /\ [Next]_vars =>
        [\A m \in Msgs : dispatched[m] = "no" /\ dispatched'[m] = "muted" =>
            Cardinality({n \in Msgs \ {m} : decisions'[n] # "none"}) = Cap]_vars
  <2> SUFFICES ASSUME TypeOK, WindowInvariant, [Next]_vars, NEW m \in Msgs,
                      dispatched[m] = "no", dispatched'[m] = "muted"
               PROVE  Cardinality({n \in Msgs \ {m} : decisions'[n] # "none"}) = Cap
    OBVIOUS
  <2> DEFINE T == {n \in Msgs : ClaimSlot(m).decisions[n] # "none"}
  <2>1. ClaimSlot(m).slot = "muted" /\ decisions' = ClaimSlot(m).decisions
    BY MutedBySlot
  <2>2. m \notin T /\ Cardinality(T) = Cap
    BY <2>1, SlotClaimed
  <2>3. {n \in Msgs \ {m} : decisions'[n] # "none"} = T
    BY <2>1, <2>2
  <2> QED
    BY <2>2, <2>3
<1> QED
  BY <1>1, <1>2, <1>3, DeliveryInvariantHolds, WindowKept, PTL DEF Spec, MutedOnlyPastTheCap

=============================================================================
