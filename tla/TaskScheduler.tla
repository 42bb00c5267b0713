--------------------------- MODULE TaskScheduler ---------------------------
(***************************************************************************)
(* TaskScheduler: service processes that run one periodic task under the   *)
(* lock of its TaskService document.                                       *)
(*                                                                         *)
(* A run is one call of taskRunner; a process has several when its         *)
(* interval fires again before a run is over.  Every await of acquireLock  *)
(* is a step, and every database call may fail.  Times are relative: left  *)
(* is lockedUntil - now and due is nextStartAt - now, and both stop where  *)
(* the code no longer tells them from smaller values.                      *)
(***************************************************************************)
EXTENDS Integers, FiniteSets

CONSTANTS
    Procs,      \* processes that schedule the task
    Runs,       \* bound: calls of taskRunner under way at once
    Proc,       \* the process of each run
    Host, Pid,  \* the machine and the process id of each process
    NoPid,
    Lease,      \* 5 minutes
    Interval,   \* options.interval
    MaxAge,     \* bound on how long acquireLock takes
    Faults      \* which of FaultKinds may happen

\* overrun: a task outlasts the lease; crash: a process dies; shutdown: SIGTERM,
\* SIGINT or beforeExit; rejection: uncaughtException or unhandledRejection;
\* resend: the answer to an applied release is lost and the release is sent again.
FaultKinds == {"overrun", "crash", "shutdown", "rejection", "resend"}

\* maxRetries of releaseLock.
MaxReleases == 3

ASSUME TaskSchedulerAssumption ==
    /\ Proc \in [Runs -> Procs]
    /\ NoPid \notin {Pid[p] : p \in Procs}
    /\ MaxAge \in Nat /\ Interval \in Nat \ {0}
    /\ Lease \in Nat /\ MaxAge < Lease
    /\ Faults \subseteq FaultKinds

VARIABLES
    lockedBy, left, due,  \* the TaskService document
    run,                  \* per call of taskRunner: its local state
    up,                   \* processes that exist
    stopping,             \* those that have released their locks to exit
    trouble               \* the faults that have happened

row == <<lockedBy, left, due>>
vars == <<row, run, up, stopping, trouble>>

\* sent counts the applied releases of the run whose answer was lost.
NoRun == [pc |-> "idle", age |-> 0, seen |-> NoPid, sent |-> 0]
Expired == -(MaxAge + 1)

Init ==
    /\ lockedBy = NoPid /\ left = Expired /\ due = Interval
    /\ run = [r \in Runs |-> NoRun]
    /\ up = Procs /\ stopping = {} /\ trouble = {}

At(r, pc) == run[r].pc = pc /\ Proc[r] \in up
Goto(r, pc) == run' = [run EXCEPT ![r].pc = pc]
Leave(r) == run' = [run EXCEPT ![r] = NoRun]
Unlock == lockedBy' = NoPid /\ left' = Expired

\* Runs between a successful acquireLock and their first applied release.
Holding(r) == run[r].pc \in {"starting", "running", "releasing"} /\ run[r].sent = 0

\* process.kill(pid, 0): only the processes of this machine are seen.
IsProcessAlive(p, pid) == \E q \in up : Host[q] = Host[p] /\ Pid[q] = pid

-----------------------------------------------------------------------------
(* taskRunner *)

\* shouldRunTask.  The task also runs when the document cannot be read and at
\* the start of a task with runNow.
ShouldRun(r, anyway) ==
    /\ At(r, "idle") /\ Proc[r] \notin stopping
    /\ due < 0 \/ anyway
    /\ Goto(r, "reading")
    /\ UNCHANGED <<row, up, stopping, trouble>>

\* acquireLock reads the document; now was taken when it was called.
ReadLock(r) ==
    /\ At(r, "reading")
    /\ run' = [run EXCEPT ![r].pc = "deciding",
                          ![r].seen = IF left + run[r].age > 0 THEN lockedBy ELSE NoPid]
    /\ UNCHANGED <<row, up, stopping, trouble>>

\* Mutation: an unexpired lock is taken for stale without asking for its process.
DecideUnasked(r) ==
    /\ At(r, "deciding")
    /\ Goto(r, IF run[r].seen = NoPid THEN "acquiring" ELSE "clearing")
    /\ UNCHANGED <<row, up, stopping, trouble>>

Decide(r) ==
    /\ At(r, "deciding")
    /\ IF run[r].seen = NoPid THEN Goto(r, "acquiring")
       ELSE IF IsProcessAlive(Proc[r], run[r].seen) THEN Leave(r)
       ELSE Goto(r, "clearing")
    /\ UNCHANGED <<row, up, stopping, trouble>>

\* The stale lock is unset, whoever holds it by now.
ClearStale(r) ==
    /\ At(r, "clearing")
    /\ Unlock
    /\ Goto(r, "acquiring")
    /\ UNCHANGED <<due, up, stopping, trouble>>

\* It is unset, but the answer is lost: acquireLock catches the error.
ClearUnanswered(r) ==
    /\ At(r, "clearing")
    /\ Unlock
    /\ Leave(r)
    /\ UNCHANGED <<due, up, stopping, trouble>>

\* Mutation: locks do not expire.
FreeIgnoresExpiry(r) == lockedBy = NoPid

Free(r) == lockedBy = NoPid \/ left + run[r].age < 0

\* Mutation: the update does not ask for a free lock.
TakeLockAnyway(r) ==
    /\ lockedBy' = Pid[Proc[r]]
    /\ left' = Lease - run[r].age

TakeLock(r) ==
    /\ Free(r)
    /\ lockedBy' = Pid[Proc[r]]
    /\ left' = Lease - run[r].age

Acquire(r) ==
    /\ At(r, "acquiring")
    /\ TakeLock(r)
    /\ run' = [run EXCEPT ![r] = [NoRun EXCEPT !.pc = "starting"]]
    /\ UNCHANGED <<due, up, stopping, trouble>>

\* The answer to the update is lost; its retry asks for a free lock again.
AcquireUnseen(r) ==
    /\ At(r, "acquiring")
    /\ TakeLock(r)
    /\ UNCHANGED <<due, run, up, stopping, trouble>>

\* The lock is held by another run, or a database call failed for good.
AcquireFails(r) ==
    /\ At(r, "reading") \/ At(r, "clearing") \/ At(r, "acquiring")
    /\ Leave(r)
    /\ UNCHANGED <<row, up, stopping, trouble>>

\* updateNextStartAt; safeUpdate swallows a failure.
StartRun(r) ==
    /\ At(r, "starting")
    /\ due' \in {due, Interval}
    /\ Goto(r, "running")
    /\ UNCHANGED <<lockedBy, left, up, stopping, trouble>>

\* The tasks are over, or one of them threw: finally is reached either way.
EndRun(r) ==
    /\ At(r, "running")
    /\ Goto(r, "releasing")
    /\ UNCHANGED <<row, up, stopping, trouble>>

\* releaseLock unsets the lock whoever holds it.  Sent again after a release that
\* was applied, it clears a lock that another run has taken meanwhile.
Release(r) ==
    /\ At(r, "releasing")
    /\ Unlock
    /\ trouble' = IF run[r].sent > 0 /\ lockedBy # NoPid
                  THEN trouble \cup {"resend"} ELSE trouble
    /\ UNCHANGED <<due, up, stopping>>

ReleaseLock(r) == Release(r) /\ Leave(r)

\* The release is applied and its answer lost: retryOperation sends it again.
ReleaseUnanswered(r) ==
    /\ "resend" \in Faults /\ run[r].sent + 1 < MaxReleases
    /\ Release(r)
    /\ run' = [run EXCEPT ![r].sent = @ + 1]

\* The last attempt, or one that is not retried, was not applied.
ReleaseFails(r) ==
    /\ At(r, "releasing")
    /\ Leave(r)
    /\ UNCHANGED <<row, up, stopping, trouble>>

-----------------------------------------------------------------------------
(* Processes *)

\* releaseAllLocks: only locks with this process id.
ReleaseAllLocks(p) ==
    IF lockedBy = Pid[p] THEN Unlock ELSE UNCHANGED <<lockedBy, left>>

\* uncaughtException and unhandledRejection: the process goes on.
Rejection(p) ==
    /\ p \in up /\ "rejection" \in Faults
    /\ trouble' = trouble \cup {"rejection"}
    /\ ReleaseAllLocks(p)
    /\ UNCHANGED <<due, run, up, stopping>>

\* gracefulShutdown: the locks are released, then the process exits.
Shutdown(p) ==
    /\ p \in up \ stopping /\ "shutdown" \in Faults
    /\ trouble' = trouble \cup {"shutdown"}
    /\ stopping' = stopping \cup {p}
    /\ ReleaseAllLocks(p)
    /\ UNCHANGED <<due, run, up>>

Gone(p) ==
    /\ up' = up \ {p}
    /\ stopping' = stopping \ {p}
    /\ run' = [r \in Runs |-> IF Proc[r] = p THEN NoRun ELSE run[r]]
    /\ UNCHANGED row

Exit(p) == p \in stopping /\ Gone(p) /\ UNCHANGED trouble

Crash(p) ==
    /\ p \in up /\ "crash" \in Faults
    /\ trouble' = trouble \cup {"crash"}
    /\ Gone(p)

\* startTask of a new process: initializeTaskService sets nextStartAt.
StartTask(p) ==
    /\ p \notin up
    /\ up' = up \cup {p}
    /\ due' = Interval
    /\ UNCHANGED <<lockedBy, left, run, stopping, trouble>>

Earlier(t, least) == IF t > least THEN t - 1 ELSE least
Acquiring(r) == run[r].pc \in {"reading", "deciding", "clearing", "acquiring"}
Overdue == \E r \in Runs : Holding(r) /\ left <= 0

Tick ==
    /\ \A r \in Runs : Acquiring(r) => run[r].age < MaxAge
    /\ Overdue => "overrun" \in Faults
    /\ left' = Earlier(left, Expired)
    /\ due' = Earlier(due, -1)
    /\ run' = [r \in Runs |-> IF Acquiring(r) THEN [run[r] EXCEPT !.age = @ + 1] ELSE run[r]]
    /\ trouble' = IF Overdue THEN trouble \cup {"overrun"} ELSE trouble
    /\ UNCHANGED <<lockedBy, up, stopping>>

-----------------------------------------------------------------------------
LockStep(r) == ReadLock(r) \/ Decide(r) \/ ClearStale(r) \/ Acquire(r) \/ AcquireFails(r)
RunStep(r) == StartRun(r) \/ EndRun(r) \/ ReleaseLock(r)

Next ==
    \/ Tick
    \/ \E r \in Runs : \/ \E anyway \in BOOLEAN : ShouldRun(r, anyway)
                       \/ LockStep(r) \/ ClearUnanswered(r) \/ AcquireUnseen(r)
                       \/ RunStep(r) \/ ReleaseUnanswered(r) \/ ReleaseFails(r)
    \/ \E p \in Procs : Rejection(p) \/ Shutdown(p) \/ Exit(p) \/ Crash(p) \/ StartTask(p)

Spec == Init /\ [][Next]_vars

\* Time passes, a due task is looked at, calls return, tasks end and processes
\* are started again.  The database answers in the end.
Fairness ==
    /\ WF_vars(Tick)
    /\ \A r \in Runs : /\ WF_vars(ShouldRun(r, FALSE)) /\ WF_vars(LockStep(r))
                       /\ WF_vars(RunStep(r))
                       /\ SF_vars(ReadLock(r)) /\ SF_vars(ClearStale(r)) /\ SF_vars(Acquire(r))
    /\ \A p \in Procs : WF_vars(Exit(p)) /\ WF_vars(StartTask(p))

\* and they are not stopped for ever.
FaultsStop == <>[][\A p \in Procs : ~Crash(p) /\ ~Shutdown(p) /\ ~Rejection(p)]_vars

FairSpec == Spec /\ Fairness /\ FaultsStop

-----------------------------------------------------------------------------
RunStates ==
    [pc : {"idle", "reading", "deciding", "clearing", "acquiring",
           "starting", "running", "releasing"},
     age : 0 .. MaxAge, seen : {Pid[p] : p \in Procs} \cup {NoPid},
     sent : 0 .. MaxReleases - 1]

TypeOK ==
    /\ lockedBy \in {Pid[p] : p \in Procs} \cup {NoPid}
    /\ left \in Expired .. Lease /\ due \in -1 .. Interval
    /\ run \in [Runs -> RunStates]
    /\ up \subseteq Procs /\ stopping \subseteq up
    /\ trouble \subseteq FaultKinds

OneHost == \A p, q \in Procs : Host[p] = Host[q]

AtMostOneRun == \A r, s \in Runs : Holding(r) /\ Holding(s) => r = s

LockSound ==
    /\ up = Procs /\ stopping = {}
    /\ \A r \in Runs :
          /\ run[r].pc # "clearing"
          /\ Holding(r) => lockedBy = Pid[Proc[r]] /\ left >= 0
    /\ AtMostOneRun

\* The inductive invariant behind ExclusiveWithoutFaults: while nothing has gone
\* wrong, every process exists, no run is about to clear a lock and a run that
\* holds the lock has its process id in the document, unexpired.
SchedulerInvariant == TypeOK /\ (OneHost /\ trouble = {} => LockSound)

\* The lock keeps the task to one run at a time on one machine whose processes
\* live and whose tasks end within the lease, unless the repeated release of a
\* finished run clears the lock of the next one.
ExclusiveWithoutFaults == OneHost /\ trouble = {} => AtMostOneRun

\* The task is run again and again: a lock whose release failed, whose owner
\* died or whose answer was lost is taken over in the end.
TaskKeepsRunning == []<>(\E r \in Runs : run[r].pc = "running")

=============================================================================
