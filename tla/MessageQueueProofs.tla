------------------------ MODULE MessageQueueProofs -------------------------
(***************************************************************************)
(* The consumer's dedupe by activeJobs, for any ids, callers, deliveries   *)
(* under way, prefetch, number of attempts, crashes and failed             *)
(* publications, and each of the options of process: one handler per id at *)
(* a time as long as the connection holds, no id left behind, and no       *)
(* accepted message lost.                                                  *)
(***************************************************************************)
EXTENDS MessageQueue, FiniteSetTheorems, TLAPS

\* A callback that is over holds no delivery, any other has a payload's id.
HasId(j) == IF j.pc = "idle" THEN ~j.live ELSE j.id \in Ids

\* What QueueInvariant says of the callbacks while the connection holds.
Tracked ==
    /\ \A d \in Deliveries :
          job[d].pc # "idle" => /\ job[d].live /\ ~job[d].completed
                                /\ job[d].id \in activeJobs
    /\ \A d, e \in Deliveries :
          job[d].pc # "idle" /\ job[e].pc # "idle" /\ job[d].id = job[e].id => d = e

\* The parts of the invariant.
LEMMA Parts ==
    QueueInvariant <=> TypeOK /\ (\A d \in Deliveries : HasId(job[d])) /\ (drops = 0 => Tracked)
BY DEF QueueInvariant, HasId, Tracked

-----------------------------------------------------------------------------
\* The ends of the consumer's callback are well typed.
LEMMA IdleJob == Idle \in JobStates /\ Idle.pc = "idle" /\ ~Idle.live /\ HasId(Idle)
BY MessageQueueAssumption DEF Idle, JobStates, HasId

\* One more, or one less, copy of a message at the broker.
LEMMA Counted ==
    ASSUME NEW queue \in [Messages -> Nat], NEW m \in Messages
    PROVE  /\ [queue EXCEPT ![m] = @ + 1] \in [Messages -> Nat]
           /\ queue[m] > 0 => [queue EXCEPT ![m] = @ - 1] \in [Messages -> Nat]
<1>1. queue[m] + 1 \in Nat /\ (queue[m] > 0 => queue[m] - 1 \in Nat)
  OBVIOUS
<1> HIDE DEF Messages
<1> QED
  BY <1>1

\* How many callbacks or callers a lost connection sends back is a number.
LEMMA Returned ==
    /\ \A S \in SUBSET Deliveries : Cardinality(S) \in Nat
    /\ \A S \in SUBSET Callers : Cardinality(S) \in Nat
BY MessageQueueAssumption, FS_Subset, FS_CardinalityType

\* A callback of process() that ends, or goes on without changing its id, its
\* channel and its outcome, while others stay as they are.
LEMMA CallbackStep ==
    ASSUME TypeOK, \A d \in Deliveries : HasId(job[d]), drops = 0 => Tracked,
           NEW d \in Deliveries, job[d].pc # "idle",
           NEW j \in JobStates, HasId(j), job' = [job EXCEPT ![d] = j],
           drops = 0 => /\ j.pc # "idle" => /\ j.id = job[d].id /\ j.live /\ ~j.completed
                                            /\ activeJobs' = activeJobs
                        /\ activeJobs \ {job[d].id} \subseteq activeJobs',
           drops' = drops
    PROVE  /\ job' \in [Deliveries -> JobStates]
           /\ \A e \in Deliveries : HasId(job'[e])
           /\ drops' = 0 => Tracked'
<1>1. job' \in [Deliveries -> JobStates]
  BY DEF TypeOK
<1>2. \A e \in Deliveries : job'[e] = IF e = d THEN j ELSE job[e]
  BY DEF TypeOK
<1>3. \A e \in Deliveries : HasId(job'[e])
  BY <1>2
<1>4. ASSUME drops = 0 PROVE Tracked'
  <2>1. ASSUME NEW e \in Deliveries, job'[e].pc # "idle"
        PROVE  /\ job[e].pc # "idle" /\ job'[e].id = job[e].id
               /\ job'[e].live /\ ~job'[e].completed /\ job'[e].id \in activeJobs'
    <3>1. CASE e = d
      BY <1>2, <1>4, <2>1, <3>1 DEF Tracked
    <3>2. CASE e # d
      <4>1. job'[e] = job[e] /\ job[e].pc # "idle"
        BY <1>2, <2>1, <3>2
      <4>2. job[e].id # job[d].id /\ job[e].id \in activeJobs
        BY <1>4, <3>2, <4>1 DEF Tracked
      <4> QED
        BY <1>4, <4>1, <4>2 DEF Tracked
    <3> QED
      BY <3>1, <3>2
  <2>2. ASSUME NEW e \in Deliveries, NEW f \in Deliveries, job'[e].pc # "idle",
               job'[f].pc # "idle", job'[e].id = job'[f].id
        PROVE  e = f
    BY <1>4, <2>1, <2>2 DEF Tracked
  <2> QED
    BY <2>1, <2>2 DEF Tracked
<1> QED
  BY <1>1, <1>3, <1>4

-----------------------------------------------------------------------------
(* One lemma per action *)

\* sendMessage touches neither the callbacks nor activeJobs.
LEMMA SendStep ==
    ASSUME QueueInvariant, NEW c \in Callers,
           (\E id \in Ids : Send(c, id)) \/ SendConfirmed(c) \/ SendFails(c)
    PROVE  QueueInvariant'
<1>1. TypeOK'
  <2>1. CASE \E id \in Ids : Send(c, id)
    BY <2>1 DEF QueueInvariant, TypeOK, Send
  <2>2. CASE SendConfirmed(c) \/ SendFails(c)
    <3>1. sending[c] \in Ids
      BY <2>2 DEF QueueInvariant, TypeOK, SendConfirmed, SendFails, SendReturns
    <3>2. <<sending[c], 0>> \in Messages
      BY <3>1, MessageQueueAssumption DEF Messages
    <3>3. ready' \in [Messages -> Nat]
      BY <2>2, <3>2, Counted DEF QueueInvariant, TypeOK, SendConfirmed, SendFails
    <3> QED
      BY <2>2, <3>1, <3>3 DEF QueueInvariant, TypeOK, SendConfirmed, SendFails, SendReturns, rest
  <2> QED
    BY <2>1, <2>2
<1>2. job' = job /\ activeJobs' = activeJobs /\ drops' = drops
  BY DEF Send, SendConfirmed, SendFails, SendReturns, rest
<1> QED
  BY <1>1, <1>2 DEF QueueInvariant

\* A copy that is dropped as a duplicate, or whose delay is over.
LEMMA BrokerStep ==
    ASSUME QueueInvariant, NEW m \in Messages, DropDuplicate(m) \/ DelayExpires(m)
    PROVE  QueueInvariant'
<1>1. ready' \in [Messages -> Nat] /\ waiting' \in [Messages -> Nat]
  BY Counted DEF QueueInvariant, TypeOK, DropDuplicate, DelayExpires
<1>2. UNCHANGED <<dead, job, helper, sending, owed, rest>>
  BY DEF DropDuplicate, DelayExpires
<1> QED
  BY <1>1, <1>2 DEF QueueInvariant, TypeOK, helper, rest

\* A delivery enters its id, which no callback under way has.
LEMMA DeliverStep ==
    ASSUME QueueInvariant, NEW d \in Deliveries, NEW m \in Messages, Deliver(d, m)
    PROVE  QueueInvariant'
<1> DEFINE j == [pc |-> "handling", id |-> m[1], attempt |-> m[2],
                 live |-> TRUE, completed |-> FALSE]
<1>1. m[1] \in Ids /\ m[2] \in 0 .. MaxAttempts - 1
  BY DEF Messages
<1>2. j \in JobStates /\ HasId(j)
  BY <1>1 DEF JobStates, HasId
<1>3. /\ job' = [job EXCEPT ![d] = j] /\ activeJobs' = activeJobs \cup {m[1]}
      /\ m[1] \notin activeJobs /\ UNCHANGED <<waiting, dead, queuedMessages, sending, owed, rest>>
  BY DEF Deliver
<1>4. ready' \in [Messages -> Nat]
  BY Counted DEF QueueInvariant, TypeOK, Deliver
<1>5. TypeOK'
  BY <1>1, <1>2, <1>3, <1>4 DEF QueueInvariant, TypeOK, rest
<1>6. \A e \in Deliveries : job'[e] = IF e = d THEN j ELSE job[e]
  BY <1>3 DEF QueueInvariant, TypeOK
<1>7. \A e \in Deliveries : HasId(job'[e])
  BY <1>2, <1>6, Parts
<1>8. drops' = 0 => Tracked'
  BY <1>3, <1>6, Parts DEF Tracked, rest
<1> QED
  BY <1>5, <1>7, <1>8 DEF QueueInvariant, HasId, Tracked

\* The catch block of the callback.
LEMMA CaughtStep ==
    ASSUME QueueInvariant, NEW d \in Deliveries, job[d].pc = "handling",
           NEW completed \in BOOLEAN, Caught(d, completed),
           drops = 0 => ~completed /\ activeJobs' = activeJobs,
           drops' = drops
    PROVE  /\ job' \in [Deliveries -> JobStates]
           /\ \A e \in Deliveries : HasId(job'[e])
           /\ drops' = 0 => Tracked'
<1> DEFINE failed == [job[d] EXCEPT !.pc = "failed", !.completed = completed]
           leaked == [job[d] EXCEPT !.pc = "leaked"]
           j == IF mode # "none" THEN failed ELSE IF job[d].live THEN leaked ELSE Idle
<1>1. job[d] \in JobStates /\ job[d].id \in Ids
  BY DEF QueueInvariant, TypeOK
<1>2. /\ failed \in JobStates /\ failed.pc = "failed" /\ failed.id = job[d].id
      /\ failed.live = job[d].live /\ failed.completed = completed
      /\ leaked \in JobStates /\ leaked.pc = "leaked" /\ leaked.id = job[d].id
      /\ leaked.live = job[d].live /\ leaked.completed = job[d].completed
  BY <1>1 DEF JobStates
<1>3. job' = [job EXCEPT ![d] = j]
  BY DEF Caught
<1> HIDE DEF failed, leaked
<1>4. j \in JobStates /\ HasId(j)
  BY <1>1, <1>2, IdleJob DEF HasId
<1>5. drops = 0 => job[d].live /\ ~job[d].completed
  BY Parts DEF Tracked
<1>6. drops = 0 => /\ j.pc # "idle" => /\ j.id = job[d].id /\ j.live /\ ~j.completed
                                         /\ activeJobs' = activeJobs
                   /\ activeJobs \ {job[d].id} \subseteq activeJobs'
  BY <1>2, <1>5, IdleJob
<1> HIDE DEF j
<1> QED
  BY <1>3, <1>4, <1>6, Parts, CallbackStep

\* The handler returns: the id is free again, and the acknowledgement can only
\* fail after a lost connection.
LEMMA SucceedsStep ==
    ASSUME QueueInvariant, NEW d \in Deliveries, HandlerSucceeds(d)
    PROVE  QueueInvariant'
<1>1. /\ job[d].pc = "handling" /\ activeJobs' = activeJobs \ {job[d].id}
      /\ UNCHANGED <<ready, waiting, dead, sending, rest>>
      /\ queuedMessages' \subseteq queuedMessages /\ owed' \subseteq owed
  BY DEF HandlerSucceeds
<1>2. /\ job' \in [Deliveries -> JobStates]
      /\ \A e \in Deliveries : HasId(job'[e])
      /\ drops' = 0 => Tracked'
  <2>1. CASE job[d].live
    BY <1>1, <2>1, IdleJob, Parts, CallbackStep DEF HandlerSucceeds, rest
  <2>2. CASE ~job[d].live
    <3>1. drops # 0
      BY <1>1, <2>2, Parts DEF Tracked
    <3> QED
      BY <1>1, <2>2, <3>1, CaughtStep DEF HandlerSucceeds, rest
  <2> QED
    BY <2>1, <2>2
<1>3. TypeOK'
  BY <1>1, <1>2 DEF QueueInvariant, TypeOK, rest
<1> QED
  BY <1>2, <1>3 DEF QueueInvariant, HasId, Tracked

\* The handler throws: the id stays in activeJobs until the catch block is done.
LEMMA FailsStep ==
    ASSUME QueueInvariant, NEW d \in Deliveries, HandlerFails(d)
    PROVE  QueueInvariant'
<1>1. /\ job[d].pc = "handling" /\ Caught(d, FALSE)
      /\ UNCHANGED <<ready, waiting, dead, helper, sending, owed, rest>>
  BY DEF HandlerFails
<1>2. /\ job' \in [Deliveries -> JobStates]
      /\ \A e \in Deliveries : HasId(job'[e])
      /\ drops' = 0 => Tracked'
  BY <1>1, CaughtStep DEF helper, rest
<1>3. TypeOK'
  BY <1>1, <1>2 DEF QueueInvariant, TypeOK, helper, rest
<1> QED
  BY <1>2, <1>3 DEF QueueInvariant, HasId, Tracked

\* The catch block ends with a retry, a dead letter or a nack.
LEMMA FinishStep ==
    ASSUME QueueInvariant, NEW d \in Deliveries,
           RetryScheduled(d) \/ DeadLettered(d) \/ RepublishFails(d) \/ Requeue(d)
    PROVE  QueueInvariant'
<1>1. /\ job[d].pc = "failed" /\ Finish(d) /\ drops' = drops
  BY DEF RetryScheduled, DeadLettered, RepublishFails, Requeue, rest
<1>2. job[d] \in JobStates /\ job[d].id \in Ids
  BY <1>1 DEF QueueInvariant, TypeOK
<1>3. Msg(d) \in Messages
  BY <1>2 DEF Msg, Messages, JobStates
<1>4. job[d].attempt + 1 < MaxAttempts => <<job[d].id, job[d].attempt + 1>> \in Messages
  BY <1>2, MessageQueueAssumption DEF Messages, JobStates
<1>5. ready' \in [Messages -> Nat]
  BY <1>3, Counted DEF QueueInvariant, TypeOK, RetryScheduled, DeadLettered, RepublishFails,
                       Requeue, Nack
<1>6. waiting' \in [Messages -> Nat]
  BY <1>4, Counted DEF QueueInvariant, TypeOK, RetryScheduled, DeadLettered, RepublishFails,
                       Requeue
<1>7. /\ job' \in [Deliveries -> JobStates]
      /\ \A e \in Deliveries : HasId(job'[e])
      /\ drops' = 0 => Tracked'
  BY <1>1, IdleJob, Parts, CallbackStep DEF Finish
<1>8. /\ dead' \subseteq Ids /\ owed' \subseteq Ids /\ mode' = mode /\ sendFailures' \in Nat
      /\ sent' = sent /\ crashes' = crashes
  BY <1>2 DEF QueueInvariant, TypeOK, RetryScheduled, DeadLettered, RepublishFails, Requeue, rest
<1>9. TypeOK'
  BY <1>1, <1>5, <1>6, <1>7, <1>8 DEF QueueInvariant, TypeOK, Finish
<1> QED
  BY <1>7, <1>9 DEF QueueInvariant, HasId, Tracked

\* What a lost connection leaves at the broker is well typed.
LEMMA BrokenTypes ==
    ASSUME QueueInvariant, NEW callers \in SUBSET Callers, NEW retries \in SUBSET Deliveries,
           Broken(callers, retries)
    PROVE  /\ ready' \in [Messages -> Nat] /\ waiting' \in [Messages -> Nat]
           /\ owed' \subseteq Ids /\ dead' \subseteq Ids
<1> DEFINE Back(m) == Cardinality({d \in Unacked : Msg(d) = m})
           Arrived(m) == Cardinality({c \in callers : <<sending[c], 0>> = m})
           Retried(m) == Cardinality({d \in retries :
                                         <<job[d].id, job[d].attempt + 1>> = m})
<1>1. /\ ready' = [m \in Messages |-> ready[m] + Back(m) + Arrived(m)]
      /\ waiting' = [m \in Messages |-> waiting[m] + Retried(m)]
      /\ owed' = owed \cup {sending[c] : c \in callers}
      /\ callers \subseteq {c \in Callers : sending[c] # NoId}
      /\ dead' = dead
  BY DEF Broken
<1>2. ASSUME NEW m \in Messages
      PROVE  Back(m) \in Nat /\ Arrived(m) \in Nat /\ Retried(m) \in Nat
  <2>1. {d \in Unacked : Msg(d) = m} \in SUBSET Deliveries
    BY DEF Unacked
  <2>2. {c \in callers : <<sending[c], 0>> = m} \in SUBSET Callers
    OBVIOUS
  <2>3. {d \in retries : <<job[d].id, job[d].attempt + 1>> = m} \in SUBSET Deliveries
    OBVIOUS
  <2> QED
    BY <2>1, <2>2, <2>3, Returned
<1>3. /\ ready \in [Messages -> Nat] /\ waiting \in [Messages -> Nat]
      /\ owed \subseteq Ids /\ dead \subseteq Ids /\ sending \in [Callers -> Ids \cup {NoId}]
  BY DEF QueueInvariant, TypeOK
<1> HIDE DEF Back, Arrived, Retried
<1>4. ready' \in [Messages -> Nat] /\ waiting' \in [Messages -> Nat]
  BY <1>1, <1>2, <1>3
<1> QED
  BY <1>1, <1>3, <1>4

\* After a reconnect the callbacks of the old channel run on; the process that
\* crashed has none.
LEMMA BrokenStep ==
    ASSUME QueueInvariant, NEW callers \in SUBSET Callers, NEW retries \in SUBSET Deliveries,
           Reconnect(callers, retries) \/ Crash(callers, retries)
    PROVE  QueueInvariant'
<1>1. /\ ready' \in [Messages -> Nat] /\ waiting' \in [Messages -> Nat]
      /\ owed' \subseteq Ids /\ dead' \subseteq Ids
  BY BrokenTypes DEF Reconnect, Crash
<1>2. CASE Reconnect(callers, retries)
  <2>1. drops' # 0 /\ drops' \in Nat
    BY <1>2 DEF Reconnect, QueueInvariant, TypeOK
  <2>2. ASSUME NEW d \in Deliveries
        PROVE  [job[d] EXCEPT !.live = FALSE] \in JobStates /\ HasId([job[d] EXCEPT !.live = FALSE])
    <3>. DEFINE j == [job[d] EXCEPT !.live = FALSE]
    <3>1. job[d] \in JobStates /\ HasId(job[d])
      BY DEF QueueInvariant, TypeOK, HasId
    <3>2. j \in JobStates /\ j.pc = job[d].pc /\ j.id = job[d].id /\ ~j.live
      BY <3>1 DEF JobStates
    <3>. HIDE DEF j
    <3>3. j \in JobStates /\ HasId(j)
      BY <3>1, <3>2 DEF HasId
    <3>. QED
      BY <3>3 DEF j
  <2>3. job' = [d \in Deliveries |-> IF job[d].pc = "leaked" THEN Idle
                                      ELSE [job[d] EXCEPT !.live = FALSE]]
    BY <1>2 DEF Reconnect
  <2>4. job' \in [Deliveries -> JobStates] /\ \A d \in Deliveries : HasId(job'[d])
    BY <2>2, <2>3, IdleJob
  <2>5. TypeOK'
    BY <1>1, <1>2, <2>1, <2>4 DEF Reconnect, QueueInvariant, TypeOK, helper
  <2> QED
    BY <2>1, <2>4, <2>5 DEF QueueInvariant, HasId
<1>3. CASE Crash(callers, retries)
  <2>1. job' = [d \in Deliveries |-> Idle]
    BY <1>3 DEF Crash
  <2>2. job' \in [Deliveries -> JobStates] /\ \A d \in Deliveries : job'[d].pc = "idle" /\ ~job'[d].live
    BY <2>1, IdleJob
  <2>3. TypeOK'
    BY <1>1, <1>3, <2>2 DEF Crash, QueueInvariant, TypeOK
  <2> QED
    BY <2>2, <2>3 DEF QueueInvariant
<1> QED
  BY <1>2, <1>3

\* The empty queue of a new process.
LEMMA InitSound == Init => QueueInvariant
<1> SUFFICES ASSUME Init PROVE QueueInvariant
  OBVIOUS
<1>1. \A d \in Deliveries : job[d].pc = "idle" /\ ~job[d].live
  BY IdleJob DEF Init
<1>2. TypeOK
  BY IdleJob DEF Init, TypeOK
<1> QED
  BY <1>1, <1>2 DEF QueueInvariant

\* Every step of the callers, the consumer and the broker keeps the invariant.
LEMMA NextSound == QueueInvariant /\ [Next]_vars => QueueInvariant'
<1> SUFFICES ASSUME QueueInvariant, [Next]_vars PROVE QueueInvariant'
  OBVIOUS
<1>1. CASE UNCHANGED vars
  <2>1. UNCHANGED <<ready, waiting, dead, job, activeJobs, queuedMessages, sending, owed, mode, sent, drops, crashes,
                    sendFailures>>
    BY <1>1 DEF vars, helper, rest
  <2> QED
    BY <2>1 DEF QueueInvariant, TypeOK
<1>2. CASE Next
  BY <1>2, SendStep, BrokerStep, DeliverStep, SucceedsStep, FailsStep, FinishStep, BrokenStep
     DEF Next, Settle, Republish
<1> QED
  BY <1>1, <1>2

-----------------------------------------------------------------------------
\* The invariant of the consumer's bookkeeping holds in every reachable state.
THEOREM QueueInvariantHolds == Spec => []QueueInvariant
<1> QED
  BY InitSound, NextSound, PTL DEF Spec

\* activeJobs runs one handler per id at a time while the connection holds:
\* duplicates, failures, retries and redeliveries after a crash included.
THEOREM OneHandlerPerId == Spec => []SingleFlight
<1>1. QueueInvariant => SingleFlight
  BY DEF QueueInvariant, SingleFlight, Running
<1> QED
  BY <1>1, QueueInvariantHolds, PTL

-----------------------------------------------------------------------------
(* NoStuckId *)

\* Only a consumer without options leaves a delivery unacknowledged.
OnlyLeaks == \A d \in Deliveries : job[d].pc = "leaked" => mode = "none"

IdInvariant == QueueInvariant /\ OnlyLeaks /\ NoStuckId

\* The consumers and faults NoStuckId speaks of.
Answerable == mode # "none" \/ drops = 0

\* A callback that goes on keeps its id; one that ends has taken it out.
LEMMA CallbackKeepsIds ==
    ASSUME IdInvariant, NEW d \in Deliveries, NEW j, job' = [job EXCEPT ![d] = j],
           activeJobs' \subseteq activeJobs, mode' = mode, drops' = drops,
           j.pc = "leaked" => mode = "none",
           Answerable => \/ job[d].id \notin activeJobs'
                         \/ j.id = job[d].id /\ j.pc # "idle" /\ ~j.completed
    PROVE  OnlyLeaks' /\ NoStuckId'
<1>1. \A e \in Deliveries : job'[e] = IF e = d THEN j ELSE job[e]
  BY DEF IdInvariant, QueueInvariant, TypeOK
<1>2. OnlyLeaks'
  BY <1>1 DEF IdInvariant, OnlyLeaks
<1>3. ASSUME Answerable, NEW id \in activeJobs'
      PROVE  \E e \in Deliveries : job'[e].id = id /\ job'[e].pc # "idle" /\ ~job'[e].completed
  <2>1. PICK e \in Deliveries : job[e].id = id /\ job[e].pc # "idle" /\ ~job[e].completed
    BY <1>3 DEF IdInvariant, NoStuckId, Answerable
  <2> QED
    BY <1>1, <1>3, <2>1
<1> QED
  BY <1>2, <1>3 DEF NoStuckId, Answerable

\* A delivery enters the id it will take out.
LEMMA DeliverKeepsIds ==
    ASSUME IdInvariant, NEW d \in Deliveries, NEW m \in Messages, Deliver(d, m)
    PROVE  OnlyLeaks' /\ NoStuckId'
<1> DEFINE j == [pc |-> "handling", id |-> m[1], attempt |-> m[2],
                 live |-> TRUE, completed |-> FALSE]
<1>1. /\ job[d].pc = "idle" /\ job' = [job EXCEPT ![d] = j]
      /\ activeJobs' = activeJobs \cup {m[1]} /\ mode' = mode /\ drops' = drops
  BY DEF Deliver, rest
<1>2. \A e \in Deliveries : job'[e] = IF e = d THEN j ELSE job[e]
  BY <1>1 DEF IdInvariant, QueueInvariant, TypeOK
<1>3. OnlyLeaks'
  BY <1>1, <1>2 DEF IdInvariant, OnlyLeaks
<1>4. ASSUME Answerable, NEW id \in activeJobs'
      PROVE  \E e \in Deliveries : job'[e].id = id /\ job'[e].pc # "idle" /\ ~job'[e].completed
  <2>1. CASE id = m[1]
    BY <1>2, <2>1
  <2>2. CASE id \in activeJobs
    <3>1. PICK e \in Deliveries : job[e].id = id /\ job[e].pc # "idle" /\ ~job[e].completed
      BY <1>4, <2>2 DEF IdInvariant, NoStuckId, Answerable
    <3> QED
      BY <1>1, <1>2, <3>1
  <2> QED
    BY <1>1, <1>4, <2>1, <2>2
<1> QED
  BY <1>1, <1>3, <1>4 DEF NoStuckId, Answerable

\* The handler throws: its callback goes on to free the id, except where the
\* connection of a consumer without options was lost.
LEMMA FailureKeepsIds ==
    ASSUME IdInvariant, NEW d \in Deliveries, HandlerFails(d)
    PROVE  OnlyLeaks' /\ NoStuckId'
<1> DEFINE failed == [job[d] EXCEPT !.pc = "failed", !.completed = FALSE]
           leaked == [job[d] EXCEPT !.pc = "leaked"]
           j == IF mode # "none" THEN failed ELSE IF job[d].live THEN leaked ELSE Idle
<1>1. /\ job' = [job EXCEPT ![d] = j] /\ job[d].pc = "handling"
      /\ activeJobs' = activeJobs /\ mode' = mode /\ drops' = drops
  BY DEF HandlerFails, Caught, helper, rest
<1>2. job[d] \in JobStates
  BY DEF IdInvariant, QueueInvariant, TypeOK
<1>3. /\ failed.pc = "failed" /\ failed.id = job[d].id /\ ~failed.completed
      /\ leaked.pc = "leaked" /\ leaked.id = job[d].id /\ leaked.completed = job[d].completed
  BY <1>2 DEF JobStates
<1>4. drops = 0 => job[d].live /\ ~job[d].completed
  BY <1>1 DEF IdInvariant, QueueInvariant
<1> HIDE DEF failed, leaked
<1>5. j.pc = "leaked" => mode = "none"
  BY <1>3, IdleJob
<1>6. Answerable => j.id = job[d].id /\ j.pc # "idle" /\ ~j.completed
  BY <1>3, <1>4 DEF Answerable
<1> HIDE DEF j
<1> QED
  BY <1>1, <1>5, <1>6, CallbackKeepsIds

\* The handler returns, or the catch block ends: the id has been taken out.
LEMMA EndKeepsIds ==
    ASSUME IdInvariant, NEW d \in Deliveries,
           \/ HandlerSucceeds(d)
           \/ RetryScheduled(d) \/ DeadLettered(d) \/ RepublishFails(d) \/ Requeue(d)
    PROVE  OnlyLeaks' /\ NoStuckId'
<1>1. activeJobs' = activeJobs \ {job[d].id} /\ mode' = mode /\ drops' = drops
  BY DEF HandlerSucceeds, RetryScheduled, DeadLettered, RepublishFails, Requeue, Finish, rest
<1>2. PICK j : job' = [job EXCEPT ![d] = j] /\ (j.pc = "leaked" => mode = "none")
  <2>1. CASE HandlerSucceeds(d) /\ ~job[d].live /\ mode # "none"
    <3>1. job' = [job EXCEPT ![d] = [job[d] EXCEPT !.pc = "failed", !.completed = TRUE]]
      BY <2>1 DEF HandlerSucceeds, Caught
    <3>2. [job[d] EXCEPT !.pc = "failed", !.completed = TRUE].pc = "failed"
      BY DEF IdInvariant, QueueInvariant, TypeOK, JobStates
    <3> QED
      BY <3>1, <3>2
  <2>2. CASE ~(HandlerSucceeds(d) /\ ~job[d].live /\ mode # "none")
    <3>1. job' = [job EXCEPT ![d] = Idle]
      BY <2>2 DEF HandlerSucceeds, Caught, RetryScheduled, DeadLettered, RepublishFails, Requeue,
                  Finish
    <3> QED
      BY <3>1, IdleJob
  <2> QED
    BY <2>1, <2>2
<1> QED
  BY <1>1, <1>2, CallbackKeepsIds

\* A lost connection ends no callback of a consumer with options, and a process
\* that starts again has an empty activeJobs.
LEMMA BrokenKeepsIds ==
    ASSUME IdInvariant, NEW callers \in SUBSET Callers, NEW retries \in SUBSET Deliveries,
           Reconnect(callers, retries) \/ Crash(callers, retries)
    PROVE  OnlyLeaks' /\ NoStuckId'
<1>1. CASE Reconnect(callers, retries)
  <2>1. /\ drops' # 0 /\ mode' = mode /\ activeJobs' = activeJobs
        /\ job' = [d \in Deliveries |-> IF job[d].pc = "leaked" THEN Idle
                                         ELSE [job[d] EXCEPT !.live = FALSE]]
    BY <1>1 DEF Reconnect, helper, IdInvariant, QueueInvariant, TypeOK
  <2>2. \A d \in Deliveries :
           job[d].pc # "leaked" => /\ job'[d].pc = job[d].pc /\ job'[d].id = job[d].id
                                   /\ job'[d].completed = job[d].completed
    BY <2>1 DEF IdInvariant, QueueInvariant, TypeOK, JobStates
  <2>3. \A d \in Deliveries : job'[d].pc # "leaked"
    BY <2>1, <2>2, IdleJob
  <2>4. ASSUME mode # "none", NEW id \in activeJobs
        PROVE  \E e \in Deliveries : job'[e].id = id /\ job'[e].pc # "idle" /\ ~job'[e].completed
    <3>1. PICK e \in Deliveries : job[e].id = id /\ job[e].pc # "idle" /\ ~job[e].completed
      BY <2>4 DEF IdInvariant, NoStuckId
    <3>2. job[e].pc # "leaked"
      BY <2>4 DEF IdInvariant, OnlyLeaks
    <3> QED
      BY <2>2, <3>1, <3>2
  <2> QED
    BY <2>1, <2>3, <2>4 DEF OnlyLeaks, NoStuckId
<1>2. CASE Crash(callers, retries)
  <2>1. activeJobs' = {} /\ \A d \in Deliveries : job'[d].pc = "idle"
    BY <1>2, IdleJob DEF Crash
  <2> QED
    BY <2>1 DEF OnlyLeaks, NoStuckId
<1> QED
  BY <1>1, <1>2

\* The other steps touch neither the callbacks nor activeJobs.
LEMMA IdleKeepsIds ==
    ASSUME IdInvariant, UNCHANGED <<job, activeJobs, mode, drops>>
    PROVE  OnlyLeaks' /\ NoStuckId'
BY DEF IdInvariant, OnlyLeaks, NoStuckId

\* Ids stay with callbacks in every behaviour.
LEMMA IdInvariantHolds == Spec => []IdInvariant
<1>1. Init => IdInvariant
  <2>1. Init => \A d \in Deliveries : job[d].pc = "idle"
    BY IdleJob DEF Init
  <2> QED
    BY <2>1, InitSound DEF IdInvariant, Init, OnlyLeaks, NoStuckId
<1>2. IdInvariant /\ [Next]_vars => IdInvariant'
  <2> SUFFICES ASSUME IdInvariant, [Next]_vars PROVE OnlyLeaks' /\ NoStuckId'
    BY NextSound DEF IdInvariant
  <2>1. CASE UNCHANGED vars
    BY <2>1, IdleKeepsIds DEF vars, helper, rest
  <2>2. ASSUME NEW c \in Callers,
               (\E id \in Ids : Send(c, id)) \/ SendConfirmed(c) \/ SendFails(c)
        PROVE  OnlyLeaks' /\ NoStuckId'
    BY <2>2, IdleKeepsIds DEF Send, SendConfirmed, SendFails, SendReturns, rest
  <2>3. ASSUME NEW m \in Messages, DropDuplicate(m) \/ DelayExpires(m)
        PROVE  OnlyLeaks' /\ NoStuckId'
    BY <2>3, IdleKeepsIds DEF DropDuplicate, DelayExpires, helper, rest
  <2> QED
    BY <2>1, <2>2, <2>3, DeliverKeepsIds, FailureKeepsIds, EndKeepsIds, BrokenKeepsIds
       DEF Next, Settle, Republish
<1> QED
  BY <1>1, <1>2, PTL DEF Spec

\* No id is left in activeJobs by a callback that is over, so that no later
\* message of that id is dropped for ever: with either of the options of process
\* under every fault, and without options until a connection is lost.
THEOREM NoIdIsStuck == Spec => []NoStuckId
<1>1. IdInvariant => NoStuckId
  BY DEF IdInvariant
<1> QED
  BY <1>1, IdInvariantHolds, PTL

-----------------------------------------------------------------------------
(* OwedIsKept *)

\* Where a copy of an id is: at the broker, or with a callback.
AtBroker(id) == \E m \in Messages : m[1] = id /\ ready[m] + waiting[m] > 0
AtBrokerNext(id) == \E m \in Messages : m[1] = id /\ ready'[m] + waiting'[m] > 0
With(j, id) == j.id = id /\ (j.pc \in {"handling", "failed"} \/ j.live)

OwedInvariant == IdInvariant /\ OwedIsKept

\* A message is kept at the broker or with a callback.
LEMMA KeptSomewhere ==
    ASSUME NEW id
    PROVE  Kept(id) <=> AtBroker(id) \/ \E d \in Deliveries : With(job[d], id)
BY DEF Kept, AtBroker, With, Running

\* The same of the state after a step.
LEMMA KeptSomewhereNext ==
    ASSUME NEW id
    PROVE  Kept(id)' <=> AtBrokerNext(id) \/ \E d \in Deliveries : With(job'[d], id)
BY DEF Kept, AtBrokerNext, With, Running

\* The copies at the broker grow in number.
More == \A m \in Messages : ready[m] <= ready'[m] /\ waiting[m] <= waiting'[m]

\* A step that only adds copies takes none from the broker.
LEMMA MoreStay ==
    ASSUME TypeOK, TypeOK', More, NEW id, AtBroker(id)
    PROVE  AtBrokerNext(id)
<1>1. PICK m \in Messages : m[1] = id /\ ready[m] + waiting[m] > 0
  BY DEF AtBroker, AtBrokerNext
<1>2. ready[m] \in Nat /\ waiting[m] \in Nat /\ ready'[m] \in Nat /\ waiting'[m] \in Nat
  BY DEF TypeOK
<1>3. ready'[m] + waiting'[m] > 0
  BY <1>1, <1>2 DEF More
<1>. QED
  BY <1>1, <1>3 DEF AtBroker, AtBrokerNext

\* One more copy of a message is a copy of its id.
LEMMA OneMore ==
    ASSUME TypeOK, TypeOK', NEW m \in Messages,
           \/ ready' = [ready EXCEPT ![m] = @ + 1] /\ waiting' = waiting
           \/ waiting' = [waiting EXCEPT ![m] = @ + 1] /\ ready' = ready
    PROVE  More /\ AtBrokerNext(m[1])
<1>1. /\ ready \in [Messages -> Nat] /\ waiting \in [Messages -> Nat]
      /\ ready' \in [Messages -> Nat] /\ waiting' \in [Messages -> Nat]
  BY DEF TypeOK
<1>. HIDE DEF Messages
<1>2. ready'[m] + waiting'[m] > 0
  BY <1>1
<1>3. More
  BY <1>1 DEF More
<1>. QED
  BY <1>2, <1>3 DEF AtBroker, AtBrokerNext

\* The faults that lie behind stay apart.
LEMMA FaultsStayApart ==
    ASSUME TypeOK, TypeOK', mode' = mode, drops <= drops', sendFailures <= sendFailures', crashes <= crashes',
           FaultsApart'
    PROVE  FaultsApart
BY DEF TypeOK, FaultsApart

\* An id in activeJobs is with a callback.
LEMMA ActiveIsKept ==
    ASSUME OwedInvariant, FaultsApart, NEW id \in activeJobs
    PROVE  \E d \in Deliveries : With(job[d], id)
<1>1. PICK d \in Deliveries : job[d].id = id /\ job[d].pc # "idle" /\ ~job[d].completed
  BY DEF OwedInvariant, IdInvariant, NoStuckId, FaultsApart
<1>2. job[d].pc \in {"handling", "failed"} \/ job[d].live
  <2>1. CASE drops = 0
    BY <1>1, <2>1 DEF OwedInvariant, IdInvariant, QueueInvariant
  <2>2. CASE mode = "retry"
    BY <1>1, <2>2 DEF OwedInvariant, IdInvariant, QueueInvariant, TypeOK, JobStates, OnlyLeaks
  <2>. QED
    BY <2>1, <2>2 DEF FaultsApart
<1>. QED
  BY <1>1, <1>2 DEF With

\* A callback that goes on keeps its id; what a callback that ends was keeping
\* is not owed any more or is back at the broker.
LEMMA CallbackKeepsOwed ==
    ASSUME OwedInvariant, TypeOK', NEW d \in Deliveries, NEW j, job' = [job EXCEPT ![d] = j], More, FaultsApart,
           owed' \subseteq owed,
           \A id \in owed' : With(job[d], id) => With(j, id) \/ AtBrokerNext(id)
    PROVE  \A id \in owed' : Kept(id)'
<1>. SUFFICES ASSUME NEW id \in owed' PROVE Kept(id)'
  OBVIOUS
<1>1. \A e \in Deliveries : job'[e] = IF e = d THEN j ELSE job[e]
  BY DEF OwedInvariant, IdInvariant, QueueInvariant, TypeOK
<1>2. Kept(id)
  BY DEF OwedInvariant, OwedIsKept
<1>3. CASE AtBroker(id)
  BY <1>3, MoreStay, KeptSomewhereNext DEF OwedInvariant, IdInvariant, QueueInvariant
<1>4. ASSUME NEW e \in Deliveries, With(job[e], id) PROVE Kept(id)'
  BY <1>1, <1>4, KeptSomewhereNext
<1>. QED
  BY <1>2, <1>3, <1>4, KeptSomewhere

\* sendMessage, confirmed or not, loses nothing that was accepted before.
LEMMA SendKeepsOwed ==
    ASSUME OwedInvariant, TypeOK', FaultsApart, NEW c \in Callers,
           (\E id \in Ids : Send(c, id)) \/ SendConfirmed(c) \/ SendFails(c)
    PROVE  \A id \in owed' : Kept(id)'
<1>. USE DEF OwedInvariant, IdInvariant, QueueInvariant
<1>1. CASE (\E id \in Ids : Send(c, id)) \/ SendFails(c)
  <2>1. UNCHANGED <<ready, waiting, job, owed>>
    BY <1>1 DEF Send, SendFails, SendReturns
  <2>. QED
    BY <2>1 DEF OwedIsKept, Kept, Running
<1>2. CASE SendConfirmed(c)
  <2>1. /\ sending[c] \in Ids /\ job' = job /\ waiting' = waiting /\ owed' = owed \cup {sending[c]}
        /\ ready' = [ready EXCEPT ![<<sending[c], 0>>] = @ + 1]
    BY <1>2 DEF SendConfirmed, SendReturns, TypeOK
  <2>2. <<sending[c], 0>> \in Messages
    BY <2>1, MessageQueueAssumption DEF Messages
  <2>3. More /\ AtBrokerNext(sending[c])
    BY <2>1, <2>2, OneMore
  <2>4. ASSUME NEW id \in owed PROVE Kept(id)'
    <3>1. Kept(id)
      BY DEF OwedIsKept
    <3>. QED
      BY <2>1, <2>3, <3>1, KeptSomewhere, KeptSomewhereNext, MoreStay
  <2>. QED
    BY <2>1, <2>3, <2>4, KeptSomewhereNext
<1>. QED
  BY <1>1, <1>2

\* A copy is dropped as a duplicate only while a callback has its id.
LEMMA BrokerKeepsOwed ==
    ASSUME OwedInvariant, TypeOK', FaultsApart, NEW m \in Messages, DropDuplicate(m) \/ DelayExpires(m)
    PROVE  \A id \in owed' : Kept(id)'
<1>. USE DEF OwedInvariant, IdInvariant, QueueInvariant
<1>. SUFFICES ASSUME NEW id \in owed' PROVE Kept(id)'
  OBVIOUS
<1>1. job' = job /\ owed' = owed
  BY DEF DropDuplicate, DelayExpires
<1>2. /\ ready \in [Messages -> Nat] /\ waiting \in [Messages -> Nat]
      /\ ready' \in [Messages -> Nat] /\ waiting' \in [Messages -> Nat]
  BY DEF TypeOK
<1>3. Kept(id)
  BY <1>1 DEF OwedIsKept
<1>4. ASSUME NEW d \in Deliveries, With(job[d], id) PROVE Kept(id)'
  BY <1>1, <1>4, KeptSomewhereNext
<1>5. ASSUME NEW n \in Messages, n[1] = id, ready[n] + waiting[n] > 0 PROVE Kept(id)'
  <2>1. CASE DropDuplicate(m)
    <3>1. CASE n = m
      BY <1>4, <1>5, <2>1, <3>1, ActiveIsKept DEF DropDuplicate
    <3>2. CASE n # m
      <4>1. ready'[n] = ready[n] /\ waiting'[n] = waiting[n]
        BY <1>2, <2>1, <3>2 DEF DropDuplicate
      <4>. QED
        BY <1>5, <4>1, KeptSomewhereNext DEF AtBroker, AtBrokerNext
    <3>. QED
      BY <3>1, <3>2
  <2>2. CASE DelayExpires(m)
    <3>1. ready'[n] + waiting'[n] = ready[n] + waiting[n]
      <4>. HIDE DEF Messages
      <4>. QED
        BY <1>2, <2>2 DEF DelayExpires
    <3>. QED
      BY <1>5, <3>1, KeptSomewhereNext DEF AtBroker, AtBrokerNext
  <2>. QED
    BY <2>1, <2>2
<1>. QED
  BY <1>3, <1>4, <1>5, KeptSomewhere DEF AtBroker, AtBrokerNext

\* A delivered copy is with its callback.
LEMMA DeliverKeepsOwed ==
    ASSUME OwedInvariant, TypeOK', FaultsApart, NEW d \in Deliveries, NEW m \in Messages, Deliver(d, m)
    PROVE  \A id \in owed' : Kept(id)'
<1>. USE DEF OwedInvariant, IdInvariant, QueueInvariant
<1>. SUFFICES ASSUME NEW id \in owed' PROVE Kept(id)'
  OBVIOUS
<1>. DEFINE j == [pc |-> "handling", id |-> m[1], attempt |-> m[2], live |-> TRUE, completed |-> FALSE]
<1>1. /\ owed' = owed /\ waiting' = waiting /\ ready' = [ready EXCEPT ![m] = @ - 1]
      /\ job' = [job EXCEPT ![d] = j] /\ job[d].pc = "idle"
  BY DEF Deliver
<1>2. /\ ready \in [Messages -> Nat] /\ waiting \in [Messages -> Nat]
      /\ \A e \in Deliveries : job'[e] = IF e = d THEN j ELSE job[e]
  BY <1>1 DEF TypeOK
<1>3. With(j, m[1]) /\ \A x : ~With(job[d], x)
  BY <1>1 DEF With
<1>. HIDE DEF j
<1>4. Kept(id)
  BY <1>1 DEF OwedIsKept
<1>5. ASSUME NEW e \in Deliveries, With(job[e], id) PROVE Kept(id)'
  BY <1>2, <1>3, <1>5, KeptSomewhereNext
<1>6. ASSUME NEW n \in Messages, n[1] = id, ready[n] + waiting[n] > 0 PROVE Kept(id)'
  <2>1. CASE n = m
    BY <1>2, <1>3, <1>6, <2>1, KeptSomewhereNext
  <2>2. CASE n # m
    <3>1. ready'[n] = ready[n] /\ waiting'[n] = waiting[n]
      BY <1>1, <1>2, <2>2
    <3>. QED
      BY <1>6, <3>1, KeptSomewhereNext DEF AtBroker, AtBrokerNext
  <2>. QED
    BY <2>1, <2>2
<1>. QED
  BY <1>4, <1>5, <1>6, KeptSomewhere DEF AtBroker, AtBrokerNext

\* A handler returns or throws: only what it completed is not owed any more.
LEMMA SettleKeepsOwed ==
    ASSUME OwedInvariant, TypeOK', FaultsApart, NEW d \in Deliveries, Settle(d)
    PROVE  \A id \in owed' : Kept(id)'
<1>. USE DEF OwedInvariant, IdInvariant, QueueInvariant
<1>1. ready' = ready /\ waiting' = waiting /\ job[d].pc = "handling" /\ owed' \subseteq owed
  BY DEF Settle, HandlerSucceeds, HandlerFails
<1>2. More
  BY <1>1 DEF More, TypeOK
<1>3. job[d] \in JobStates
  BY DEF TypeOK
<1>4. CASE HandlerSucceeds(d)
  <2>1. job[d].id \notin owed'
    BY <1>4 DEF HandlerSucceeds
  <2>2. \E j : job' = [job EXCEPT ![d] = j]
    BY <1>4, Zenon DEF HandlerSucceeds, Caught
  <2>. QED
    BY <1>1, <1>2, <2>1, <2>2, CallbackKeepsOwed DEF With
<1>5. CASE HandlerFails(d)
  <2>. DEFINE failed == [job[d] EXCEPT !.pc = "failed", !.completed = FALSE]
              leaked == [job[d] EXCEPT !.pc = "leaked"]
              j == IF mode # "none" THEN failed ELSE IF job[d].live THEN leaked ELSE Idle
  <2>1. job' = [job EXCEPT ![d] = j]
    BY <1>5 DEF HandlerFails, Caught
  <2>2. /\ failed.pc = "failed" /\ failed.id = job[d].id
        /\ leaked.id = job[d].id /\ leaked.live = job[d].live
    BY <1>3 DEF JobStates
  <2>. HIDE DEF failed, leaked
  <2>3. mode = "none" => job[d].live
    BY <1>1 DEF FaultsApart
  <2>4. \A id : With(job[d], id) => With(j, id)
    BY <2>2, <2>3 DEF With
  <2>. HIDE DEF j
  <2>. QED
    BY <1>1, <1>2, <2>1, <2>4, CallbackKeepsOwed
<1>. QED
  BY <1>4, <1>5 DEF Settle

\* The catch block publishes the message again, returns it to the queue or
\* dead-letters it before its callback ends.
LEMMA FinishKeepsOwed ==
    ASSUME OwedInvariant, TypeOK', FaultsApart, FaultsApart', NEW d \in Deliveries,
           RetryScheduled(d) \/ DeadLettered(d) \/ RepublishFails(d) \/ Requeue(d)
    PROVE  \A id \in owed' : Kept(id)'
<1>. USE DEF OwedInvariant, IdInvariant, QueueInvariant
<1>1. /\ job[d].pc = "failed" /\ job' = [job EXCEPT ![d] = Idle] /\ owed' \subseteq owed /\ drops' = drops
      /\ mode' = mode
  BY DEF RetryScheduled, DeadLettered, RepublishFails, Requeue, Finish, rest
<1>2. job[d] \in JobStates /\ job[d].id \in Ids
  BY <1>1 DEF TypeOK
<1>3. Msg(d) \in Messages /\ Msg(d)[1] = job[d].id
  BY <1>2 DEF Msg, Messages, JobStates
<1>4. CASE DeadLettered(d)
  <2>1. More /\ job[d].id \notin owed'
    BY <1>4 DEF DeadLettered, More, TypeOK
  <2>. QED
    BY <1>1, <2>1, CallbackKeepsOwed DEF With
<1>5. ASSUME More /\ AtBrokerNext(job[d].id) PROVE \A id \in owed' : Kept(id)'
  BY <1>1, <1>5, CallbackKeepsOwed DEF With
<1>6. CASE RetryScheduled(d)
  <2>1. <<job[d].id, job[d].attempt + 1>> \in Messages
    BY <1>2, <1>6, MessageQueueAssumption DEF RetryScheduled, Messages, JobStates
  <2>2. waiting' = [waiting EXCEPT ![<<job[d].id, job[d].attempt + 1>>] = @ + 1] /\ ready' = ready
    BY <1>6 DEF RetryScheduled
  <2>. QED
    BY <1>5, <2>1, <2>2, OneMore
<1>7. CASE RepublishFails(d) \/ Requeue(d)
  <2>1. job[d].live
    <3>1. CASE drops = 0
      BY <1>1, <3>1
    <3>2. CASE drops # 0
      <4>1. mode = "retry" /\ sendFailures' = 0
        BY <1>1, <3>2 DEF FaultsApart
      <4>. QED
        BY <1>7, <4>1 DEF RepublishFails, Requeue, TypeOK
    <3>. QED
      BY <3>1, <3>2
  <2>2. ready' = [ready EXCEPT ![Msg(d)] = @ + 1] /\ waiting' = waiting
    BY <1>7, <2>1 DEF RepublishFails, Requeue, Nack
  <2>. QED
    BY <1>3, <1>5, <2>2, OneMore
<1>. QED
  BY <1>4, <1>6, <1>7

\* What a callback of the lost channel had not acknowledged, or a caller had
\* published, is at the broker.
LEMMA BrokenReturns ==
    ASSUME QueueInvariant, TypeOK', NEW callers \in SUBSET Callers, NEW retries \in SUBSET Deliveries,
           Broken(callers, retries)
    PROVE  /\ More
           /\ \A d \in Deliveries : job[d].live => AtBrokerNext(job[d].id)
           /\ \A c \in callers : AtBrokerNext(sending[c])
<1>. USE DEF QueueInvariant
<1>. DEFINE Back(m) == Cardinality({d \in Unacked : Msg(d) = m})
            Arrived(m) == Cardinality({c \in callers : <<sending[c], 0>> = m})
            Retried(m) == Cardinality({d \in retries : <<job[d].id, job[d].attempt + 1>> = m})
<1>1. /\ ready' = [m \in Messages |-> ready[m] + Back(m) + Arrived(m)]
      /\ waiting' = [m \in Messages |-> waiting[m] + Retried(m)]
      /\ callers \subseteq {c \in Callers : sending[c] # NoId}
  BY DEF Broken
<1>2. ASSUME NEW m \in Messages
      PROVE  /\ Back(m) \in Nat /\ Arrived(m) \in Nat /\ Retried(m) \in Nat
             /\ IsFiniteSet({d \in Unacked : Msg(d) = m}) /\ IsFiniteSet({c \in callers : <<sending[c], 0>> = m})
  <2>1. {d \in Unacked : Msg(d) = m} \in SUBSET Deliveries
    BY DEF Unacked
  <2>2. {c \in callers : <<sending[c], 0>> = m} \in SUBSET Callers
    OBVIOUS
  <2>3. {d \in retries : <<job[d].id, job[d].attempt + 1>> = m} \in SUBSET Deliveries
    OBVIOUS
  <2>. QED
    BY <2>1, <2>2, <2>3, Returned, MessageQueueAssumption, FS_Subset
<1>. HIDE DEF Back, Arrived, Retried
<1>3. ready \in [Messages -> Nat] /\ waiting \in [Messages -> Nat] /\ sending \in [Callers -> Ids \cup {NoId}]
  BY DEF TypeOK
<1>4. ASSUME NEW d \in Deliveries, job[d].live
      PROVE  Msg(d) \in Messages /\ Msg(d)[1] = job[d].id /\ Back(Msg(d)) > 0
  <2>1. job[d].pc # "idle" /\ job[d] \in JobStates
    BY <1>4 DEF TypeOK
  <2>2. Msg(d) \in Messages /\ Msg(d)[1] = job[d].id
    BY <2>1 DEF Msg, Messages, JobStates
  <2>3. d \in {e \in Unacked : Msg(e) = Msg(d)}
    BY <1>4 DEF Unacked
  <2>4. Back(Msg(d)) # 0
    BY <1>2, <2>2, <2>3, FS_EmptySet DEF Back
  <2>5. Back(Msg(d)) \in Nat
    BY <1>2, <2>2, Zenon
  <2>6. \A n \in Nat : n # 0 => n > 0
    OBVIOUS
  <2>. QED
    BY <2>2, <2>4, <2>5, <2>6, Zenon
<1>5. ASSUME NEW c \in callers
      PROVE  <<sending[c], 0>> \in Messages /\ Arrived(<<sending[c], 0>>) > 0
  <2>1. sending[c] \in Ids
    BY <1>1, <1>3
  <2>2. <<sending[c], 0>> \in Messages
    BY <2>1, MessageQueueAssumption DEF Messages
  <2>3. c \in {e \in callers : <<sending[e], 0>> = <<sending[c], 0>>}
    OBVIOUS
  <2>4. Arrived(<<sending[c], 0>>) # 0
    BY <1>2, <2>2, <2>3, FS_EmptySet DEF Arrived
  <2>5. Arrived(<<sending[c], 0>>) \in Nat
    BY <1>2, <2>2, Zenon
  <2>6. \A n \in Nat : n # 0 => n > 0
    OBVIOUS
  <2>. QED
    BY <2>2, <2>4, <2>5, <2>6, Zenon
<1>6. More
  <2>. SUFFICES ASSUME NEW m \in Messages PROVE ready[m] <= ready'[m] /\ waiting[m] <= waiting'[m]
    BY DEF More
  <2>1. ready[m] \in Nat /\ waiting[m] \in Nat /\ Back(m) \in Nat /\ Arrived(m) \in Nat /\ Retried(m) \in Nat
    BY <1>2, <1>3
  <2>2. ready'[m] = ready[m] + Back(m) + Arrived(m) /\ waiting'[m] = waiting[m] + Retried(m)
    BY <1>1
  <2>. QED
    BY <2>1, <2>2
<1>7. ASSUME NEW m \in Messages, Back(m) > 0 \/ Arrived(m) > 0 PROVE AtBrokerNext(m[1])
  <2>1. ready[m] \in Nat /\ waiting[m] \in Nat /\ Back(m) \in Nat /\ Arrived(m) \in Nat /\ Retried(m) \in Nat
    BY <1>2, <1>3
  <2>2. ready'[m] = ready[m] + Back(m) + Arrived(m) /\ waiting'[m] = waiting[m] + Retried(m)
    BY <1>1
  <2>3. ready'[m] + waiting'[m] > 0
    BY <1>7, <2>1, <2>2
  <2>. QED
    BY <2>3 DEF AtBroker, AtBrokerNext
<1>8. ASSUME NEW d \in Deliveries, job[d].live PROVE AtBrokerNext(job[d].id)
  BY <1>4, <1>7, <1>8
<1>9. ASSUME NEW c \in callers PROVE AtBrokerNext(sending[c])
  <2>1. <<sending[c], 0>>[1] = sending[c]
    OBVIOUS
  <2>. QED
    BY <1>5, <1>7, <2>1
<1>. QED
  BY <1>6, <1>8, <1>9

\* A lost connection gives back what was unacknowledged, and a callback of the
\* old channel goes on.
LEMMA BrokenKeepsOwed ==
    ASSUME OwedInvariant, TypeOK', FaultsApart, FaultsApart',
           NEW callers \in SUBSET Callers, NEW retries \in SUBSET Deliveries,
           Reconnect(callers, retries) \/ Crash(callers, retries)
    PROVE  \A id \in owed' : Kept(id)'
<1>. USE DEF OwedInvariant, IdInvariant
<1>1. /\ More
      /\ \A d \in Deliveries : job[d].live => AtBrokerNext(job[d].id)
      /\ \A c \in callers : AtBrokerNext(sending[c])
      /\ owed' = owed \cup {sending[c] : c \in callers}
  BY BrokenReturns DEF Reconnect, Crash, Broken
<1>. SUFFICES ASSUME NEW id \in owed PROVE Kept(id)'
  BY <1>1, KeptSomewhereNext
<1>2. Kept(id)
  BY DEF OwedIsKept
<1>3. CASE AtBroker(id)
  BY <1>1, <1>3, MoreStay, KeptSomewhereNext DEF QueueInvariant
<1>4. ASSUME NEW d \in Deliveries, With(job[d], id) PROVE Kept(id)'
  <2>1. CASE job[d].live
    BY <1>1, <1>4, <2>1, KeptSomewhereNext DEF With
  <2>2. CASE ~job[d].live
    <3>1. drops # 0 /\ job[d].pc \in {"handling", "failed"} /\ job[d].id = id
      BY <1>4, <2>2 DEF QueueInvariant, With
    <3>2. CASE Reconnect(callers, retries)
      <4>1. job'[d] = [job[d] EXCEPT !.live = FALSE] /\ job[d] \in JobStates
        BY <3>1, <3>2 DEF Reconnect, QueueInvariant, TypeOK
      <4>2. With(job'[d], id)
        BY <3>1, <4>1 DEF With, JobStates
      <4>. QED
        BY <4>2, KeptSomewhereNext
    <3>3. CASE Crash(callers, retries)
      BY <3>1, <3>3 DEF Crash, FaultsApart, QueueInvariant, TypeOK
    <3>. QED
      BY <3>2, <3>3
  <2>. QED
    BY <2>1, <2>2
<1>. QED
  BY <1>2, <1>3, <1>4, KeptSomewhere

\* No accepted message is lost before a handler completed for its id or its
\* attempts are exhausted: duplicates, failed handlers, crashes and failed
\* publications lose none while the connection holds, and a lost connection
\* alone loses none where process() retries.
THEOREM NoMessageIsLost == Spec => []OwedIsKept
<1>1. Init => OwedIsKept
  BY DEF Init, OwedIsKept
<1>2. OwedInvariant /\ IdInvariant' /\ [Next]_vars => OwedInvariant'
  <2>. SUFFICES ASSUME OwedInvariant, IdInvariant', [Next]_vars, FaultsApart' PROVE \A id \in owed' : Kept(id)'
    BY DEF OwedInvariant, OwedIsKept
  <2>1. TypeOK /\ TypeOK'
    BY DEF OwedInvariant, IdInvariant, QueueInvariant
  <2>2. mode' = mode /\ drops <= drops' /\ sendFailures <= sendFailures' /\ crashes <= crashes'
    <3>1. drops \in Nat /\ sendFailures \in Nat /\ crashes \in Nat
      BY <2>1 DEF TypeOK
    <3>. DEFINE Quiet == UNCHANGED <<mode, drops, sendFailures, crashes>>
    <3>2. ASSUME NEW c \in Callers, (\E id \in Ids : Send(c, id)) \/ SendConfirmed(c) \/ SendFails(c) PROVE Quiet
      BY <3>2 DEF Send, SendConfirmed, SendFails, SendReturns, rest
    <3>3. ASSUME NEW m \in Messages, DropDuplicate(m) \/ DelayExpires(m) PROVE Quiet
      BY <3>3 DEF DropDuplicate, DelayExpires, rest
    <3>4. ASSUME NEW d \in Deliveries, NEW m \in Messages, Deliver(d, m) PROVE Quiet
      BY <3>4 DEF Deliver, rest
    <3>5. ASSUME NEW d \in Deliveries, Settle(d) \/ Republish(d) \/ Requeue(d) PROVE Quiet
      BY <3>5 DEF Settle, HandlerSucceeds, HandlerFails, Republish, RetryScheduled, DeadLettered, Requeue, rest
    <3>6. CASE UNCHANGED vars
      BY <3>1, <3>6 DEF vars, rest
    <3>7. ASSUME NEW d \in Deliveries, RepublishFails(d)
          PROVE  mode' = mode /\ drops' = drops /\ sendFailures' = sendFailures + 1 /\ crashes' = crashes
      BY <3>7 DEF RepublishFails
    <3>8. ASSUME NEW callers \in SUBSET Callers, NEW retries \in SUBSET Deliveries,
                 Reconnect(callers, retries) \/ Crash(callers, retries)
          PROVE  /\ mode' = mode /\ drops' \in {drops, drops + 1} /\ sendFailures' = sendFailures
                 /\ crashes' \in {crashes, crashes + 1}
      BY <3>8 DEF Reconnect, Crash
    <3>. QED
      BY <3>1, <3>2, <3>3, <3>4, <3>5, <3>6, <3>7, <3>8 DEF Next
  <2>3. FaultsApart
    BY <2>1, <2>2, FaultsStayApart
  <2>4. CASE UNCHANGED vars
    <3>1. UNCHANGED <<ready, waiting, job, owed>>
      BY <2>4 DEF vars
    <3>. QED
      BY <2>3, <3>1 DEF OwedInvariant, OwedIsKept, Kept, Running
  <2>5. CASE Next
    BY <2>1, <2>3, <2>5, SendKeepsOwed, BrokerKeepsOwed, DeliverKeepsOwed, SettleKeepsOwed, FinishKeepsOwed,
       BrokenKeepsOwed DEF Next, Republish
  <2>. QED
    BY <2>4, <2>5
<1>3. OwedInvariant => OwedIsKept
  BY DEF OwedInvariant
<1>. QED
  BY <1>1, <1>2, <1>3, IdInvariantHolds, PTL DEF Spec, OwedInvariant

=============================================================================
