------------------------ MODULE TaskSchedulerProofs ------------------------
(***************************************************************************)
(* The lock of the task scheduler keeps a task to one run at a time as     *)
(* long as no fault happens, for any number of processes and of runs under *)
(* way, any lease and any interval.                                        *)
(***************************************************************************)
EXTENDS TaskScheduler, TLAPS

-----------------------------------------------------------------------------
\* Going on to another await of taskRunner, or leaving it, keeps the run's type.
LEMMA RunTypes ==
    ASSUME TypeOK, NEW r \in Runs
    PROVE  /\ [run EXCEPT ![r] = NoRun] \in [Runs -> RunStates]
           /\ [run EXCEPT ![r] = [NoRun EXCEPT !.pc = "starting"]] \in [Runs -> RunStates]
           /\ \A pc \in {"reading", "clearing", "acquiring", "running", "releasing"} :
                 [run EXCEPT ![r].pc = pc] \in [Runs -> RunStates]
BY TaskSchedulerAssumption DEF TypeOK, RunStates, NoRun, MaxReleases

\* acquireLock writes a known process id and a lease that has not run out, also
\* when its time was read before its first await.
LEMMA LockTypes ==
    ASSUME TypeOK, NEW r \in Runs, TakeLock(r)
    PROVE  /\ lockedBy' \in {Pid[p] : p \in Procs} \cup {NoPid}
           /\ lockedBy' = Pid[Proc[r]] /\ lockedBy' # NoPid
           /\ left' \in Expired .. Lease /\ left' >= 0
<1>1. Proc[r] \in Procs /\ run[r].age \in 0 .. MaxAge
  BY TaskSchedulerAssumption DEF TypeOK, RunStates
<1>2. lockedBy' = Pid[Proc[r]] /\ left' = Lease - run[r].age
  BY DEF TakeLock
<1>3. left' \in Expired .. Lease /\ left' >= 0
  BY <1>1, <1>2, TaskSchedulerAssumption DEF Expired
<1> QED
  BY <1>1, <1>2, <1>3, TaskSchedulerAssumption

\* An unset lock.
LEMMA UnlockTypes ==
    ASSUME Unlock
    PROVE  /\ lockedBy' \in {Pid[p] : p \in Procs} \cup {NoPid}
           /\ left' \in Expired .. Lease
BY TaskSchedulerAssumption DEF Unlock, Expired

\* Every step of the scheduler keeps its types.
LEMMA TypeStep == TypeOK /\ [Next]_vars => TypeOK'
<1> SUFFICES ASSUME TypeOK, [Next]_vars PROVE TypeOK'
  OBVIOUS
<1>1. CASE UNCHANGED vars
  BY <1>1 DEF vars, row, TypeOK, RunStates
<1>2. CASE Tick
  <2>1. left' \in Expired .. Lease /\ due' \in -1 .. Interval
    BY <1>2, TaskSchedulerAssumption DEF Tick, Earlier, TypeOK, Expired
  <2>2. run' \in [Runs -> RunStates]
    BY <1>2, TaskSchedulerAssumption DEF Tick, TypeOK, RunStates, Acquiring
  <2>3. trouble' \subseteq FaultKinds
    BY <1>2 DEF Tick, TypeOK, FaultKinds
  <2> QED
    BY <1>2, <2>1, <2>2, <2>3 DEF Tick, TypeOK
<1>3. ASSUME NEW r \in Runs, NEW anyway \in BOOLEAN, ShouldRun(r, anyway)
      PROVE  TypeOK'
  BY <1>3, RunTypes DEF ShouldRun, Goto, row, TypeOK
<1>4. ASSUME NEW r \in Runs, ReadLock(r)
      PROVE  TypeOK'
  BY <1>4 DEF ReadLock, row, TypeOK, RunStates
<1>5. ASSUME NEW r \in Runs, Decide(r)
      PROVE  TypeOK'
  BY <1>5, RunTypes DEF Decide, Goto, Leave, row, TypeOK
<1>6. ASSUME NEW r \in Runs, ClearStale(r) \/ ClearUnanswered(r)
      PROVE  TypeOK'
  BY <1>6, RunTypes, UnlockTypes DEF ClearStale, ClearUnanswered, Goto, Leave, TypeOK
<1>7. ASSUME NEW r \in Runs, Acquire(r) \/ AcquireUnseen(r)
      PROVE  TypeOK'
  <2>1. run' \in [Runs -> RunStates]
    BY <1>7, RunTypes DEF Acquire, AcquireUnseen, TypeOK
  <2>2. /\ lockedBy' \in {Pid[p] : p \in Procs} \cup {NoPid}
        /\ left' \in Expired .. Lease
    BY <1>7, LockTypes DEF Acquire, AcquireUnseen
  <2> QED
    BY <1>7, <2>1, <2>2 DEF Acquire, AcquireUnseen, TypeOK
<1>8. ASSUME NEW r \in Runs, AcquireFails(r) \/ ReleaseFails(r)
      PROVE  TypeOK'
  BY <1>8, RunTypes DEF AcquireFails, ReleaseFails, Leave, row, TypeOK
<1>9. ASSUME NEW r \in Runs, StartRun(r)
      PROVE  TypeOK'
  <2>1. run' \in [Runs -> RunStates]
    BY <1>9, RunTypes DEF StartRun, Goto
  <2>2. due' \in -1 .. Interval
    BY <1>9, TaskSchedulerAssumption DEF StartRun, TypeOK
  <2> QED
    BY <1>9, <2>1, <2>2 DEF StartRun, TypeOK
<1>10. ASSUME NEW r \in Runs, EndRun(r)
       PROVE  TypeOK'
  BY <1>10, RunTypes DEF EndRun, Goto, row, TypeOK
<1>11. ASSUME NEW r \in Runs, ReleaseLock(r) \/ ReleaseUnanswered(r)
       PROVE  TypeOK'
  <2>1. CASE ReleaseLock(r)
    BY <2>1, RunTypes, UnlockTypes DEF ReleaseLock, Release, Leave, TypeOK, FaultKinds
  <2>2. CASE ReleaseUnanswered(r)
    <3>1. run[r] \in RunStates /\ run[r].sent + 1 \in 0 .. MaxReleases - 1
      BY <2>2 DEF ReleaseUnanswered, TypeOK, RunStates, MaxReleases
    <3>2. [run[r] EXCEPT !.sent = @ + 1] \in RunStates
      BY <3>1 DEF RunStates
    <3>3. run' \in [Runs -> RunStates]
      BY <2>2, <3>2 DEF ReleaseUnanswered, TypeOK
    <3> QED
      BY <2>2, <3>3, UnlockTypes DEF ReleaseUnanswered, Release, TypeOK, FaultKinds
  <2> QED
    BY <1>11, <2>1, <2>2
<1>12. ASSUME NEW p \in Procs, Rejection(p) \/ Shutdown(p)
       PROVE  TypeOK'
  <2>1. /\ lockedBy' \in {Pid[q] : q \in Procs} \cup {NoPid}
        /\ left' \in Expired .. Lease
    BY <1>12, UnlockTypes DEF Rejection, Shutdown, ReleaseAllLocks, TypeOK
  <2> QED
    BY <1>12, <2>1 DEF Rejection, Shutdown, TypeOK, FaultKinds
<1>13. ASSUME NEW p \in Procs, Exit(p) \/ Crash(p)
       PROVE  TypeOK'
  <2>1. run' \in [Runs -> RunStates]
    BY <1>13, TaskSchedulerAssumption
       DEF Exit, Crash, Gone, TypeOK, NoRun, RunStates, MaxReleases
  <2> QED
    BY <1>13, <2>1 DEF Exit, Crash, Gone, row, TypeOK, FaultKinds
<1>14. ASSUME NEW p \in Procs, StartTask(p)
       PROVE  TypeOK'
  BY <1>14, TaskSchedulerAssumption DEF StartTask, TypeOK
<1> QED
  BY <1>1, <1>2, <1>3, <1>4, <1>5, <1>6, <1>7, <1>8, <1>9, <1>10, <1>11, <1>12, <1>13,
     <1>14 DEF Next, LockStep, RunStep

-----------------------------------------------------------------------------
\* A step that moves no run into the section the lock guards, clears no lock and
\* leaves the document and the processes alone keeps the lock sound.
LEMMA QuietStep ==
    ASSUME LockSound, TypeOK, NEW r \in Runs, NEW s \in RunStates,
           run' = [run EXCEPT ![r] = s],
           s.pc # "clearing",
           s.pc \in {"starting", "running", "releasing"} /\ s.sent = 0 => Holding(r),
           UNCHANGED <<lockedBy, left, up, stopping>>
    PROVE  LockSound'
<1>1. \A q \in Runs : run'[q] = IF q = r THEN s ELSE run[q]
  BY DEF TypeOK
<1>2. \A q \in Runs : Holding(q)' => Holding(q)
  BY <1>1 DEF Holding
<1> QED
  BY <1>1, <1>2 DEF LockSound, AtMostOneRun

\* A free lock has no holder: acquireLock succeeds only when no run is going on.
LEMMA FreeLockIsUnheld ==
    ASSUME LockSound, TypeOK, NEW r \in Runs, Free(r), NEW q \in Runs
    PROVE  ~Holding(q)
<1>1. Proc[q] \in Procs /\ Pid[Proc[q]] # NoPid
  BY TaskSchedulerAssumption
<1>2. run[r].age \in Nat /\ left \in Int
  BY TaskSchedulerAssumption DEF TypeOK, RunStates, Expired
<1> QED
  BY <1>1, <1>2 DEF LockSound, Free

\* acquireLock takes the lock, with or without the caller's knowledge.
LEMMA AcquireStep ==
    ASSUME LockSound, TypeOK, NEW r \in Runs, Acquire(r) \/ AcquireUnseen(r)
    PROVE  LockSound'
<1>1. TakeLock(r) /\ Free(r)
  BY DEF Acquire, AcquireUnseen, TakeLock
<1>2. lockedBy' = Pid[Proc[r]] /\ left' >= 0
  BY <1>1, LockTypes
<1>3. \A q \in Runs : ~Holding(q)
  BY <1>1, FreeLockIsUnheld
<1>4. \A q \in Runs \ {r} : run'[q] = run[q]
  BY DEF Acquire, AcquireUnseen, TypeOK
<1>5. run'[r].pc \in {"starting", "acquiring"}
  BY DEF Acquire, AcquireUnseen, At, NoRun, TypeOK
<1>6. \A q \in Runs : Holding(q)' => q = r
  BY <1>3, <1>4 DEF Holding
<1>7. \A q \in Runs : run'[q].pc # "clearing"
  BY <1>4, <1>5 DEF LockSound
<1>8. up' = up /\ stopping' = stopping
  BY DEF Acquire, AcquireUnseen
<1> QED
  BY <1>2, <1>6, <1>7, <1>8 DEF LockSound, AtMostOneRun

\* The lock is unset by a run that holds it, or when nobody does.
LEMMA ReleaseStep ==
    ASSUME LockSound, TypeOK, NEW r \in Runs, trouble' = {},
           ReleaseLock(r) \/ ReleaseUnanswered(r)
    PROVE  LockSound'
<1>1. Release(r)
  BY DEF ReleaseLock, ReleaseUnanswered
<1>2. Holding(r) \/ lockedBy = NoPid
  BY <1>1 DEF Release, At, Holding, TypeOK, RunStates, MaxReleases
<1>3. \A q \in Runs \ {r} : ~Holding(q)
  BY <1>2, TaskSchedulerAssumption DEF LockSound, AtMostOneRun
<1>4. /\ \A q \in Runs \ {r} : run'[q] = run[q]
      /\ run'[r].pc # "clearing" /\ ~Holding(r)'
  BY <1>1 DEF ReleaseLock, ReleaseUnanswered, Release, At, Leave, NoRun, Holding, TypeOK,
              RunStates, MaxReleases
<1>5. \A q \in Runs : ~Holding(q)' /\ run'[q].pc # "clearing"
  BY <1>3, <1>4 DEF LockSound, Holding
<1>6. up' = up /\ stopping' = stopping
  BY <1>1 DEF Release
<1> QED
  BY <1>5, <1>6 DEF LockSound, AtMostOneRun

\* Time passes: a run within its lease still has it, since the lease is not over.
LEMMA TickStep ==
    ASSUME LockSound, TypeOK, Tick, trouble' = {}
    PROVE  LockSound'
<1>1. ~Overdue /\ left \in Int
  BY DEF Tick, TypeOK
<1>2. \A q \in Runs : run'[q].pc = run[q].pc /\ run'[q].sent = run[q].sent
  BY DEF Tick, TypeOK, RunStates
<1>3. \A q \in Runs : Holding(q)' <=> Holding(q)
  BY <1>2 DEF Holding
<1>4. \A q \in Runs : Holding(q) => left > 0
  BY <1>1 DEF Overdue
<1>5. \A q \in Runs : Holding(q) => left' >= 0
  BY <1>1, <1>4, TaskSchedulerAssumption DEF Tick, Earlier, Expired
<1> QED
  BY <1>2, <1>3, <1>5 DEF LockSound, AtMostOneRun, Tick

\* On one machine whose processes all live no lock is taken for stale.
LEMMA DecideStep ==
    ASSUME LockSound, TypeOK, OneHost, NEW r \in Runs, Decide(r)
    PROVE  LockSound'
<1>1. run[r].seen \in {Pid[p] : p \in Procs} \cup {NoPid} /\ Proc[r] \in Procs
  BY TaskSchedulerAssumption DEF TypeOK, RunStates
<1>2. run[r].seen # NoPid => IsProcessAlive(Proc[r], run[r].seen)
  BY <1>1 DEF LockSound, OneHost, IsProcessAlive
<1>3. CASE run[r].seen = NoPid
  <2>1. [run[r] EXCEPT !.pc = "acquiring"] \in RunStates
    BY DEF TypeOK, RunStates
  <2>2. run' = [run EXCEPT ![r] = [run[r] EXCEPT !.pc = "acquiring"]]
    BY <1>3 DEF Decide, Goto
  <2> QED
    BY <2>1, <2>2, QuietStep DEF Decide, row, RunStates
<1>4. CASE run[r].seen # NoPid
  <2>1. NoRun \in RunStates /\ NoRun.pc = "idle"
    BY TaskSchedulerAssumption DEF NoRun, RunStates, MaxReleases
  <2> QED
    BY <1>2, <1>4, <2>1, QuietStep DEF Decide, Leave, row
<1> QED
  BY <1>3, <1>4

-----------------------------------------------------------------------------
\* The other steps of a run: none of them enters the guarded section.
LEMMA OtherRunStep ==
    ASSUME LockSound, TypeOK, NEW r \in Runs,
           \/ \E anyway \in BOOLEAN : ShouldRun(r, anyway)
           \/ ReadLock(r) \/ AcquireFails(r) \/ StartRun(r) \/ EndRun(r) \/ ReleaseFails(r)
    PROVE  LockSound'
<1> DEFINE To(pc) == [run[r] EXCEPT !.pc = pc]
<1>1. UNCHANGED <<lockedBy, left, up, stopping>>
  BY DEF ShouldRun, ReadLock, AcquireFails, StartRun, EndRun, ReleaseFails, row
<1>2. NoRun \in RunStates /\ NoRun.pc = "idle"
  BY TaskSchedulerAssumption DEF NoRun, RunStates, MaxReleases
<1>3. CASE \E anyway \in BOOLEAN : ShouldRun(r, anyway)
  <2>1. run' = [run EXCEPT ![r] = To("reading")]
    BY <1>3 DEF ShouldRun, Goto
  <2>2. To("reading") \in RunStates /\ To("reading").pc = "reading"
    BY DEF TypeOK, RunStates
  <2> QED
    BY <1>1, <2>1, <2>2, QuietStep
<1>4. CASE ReadLock(r)
  <2> DEFINE next == [run[r] EXCEPT !.pc = "deciding",
                        !.seen = IF left + run[r].age > 0 THEN lockedBy ELSE NoPid]
  <2>1. run' = [run EXCEPT ![r] = next]
    BY <1>4 DEF ReadLock
  <2>2. next \in RunStates /\ next.pc = "deciding"
    BY DEF TypeOK, RunStates
  <2> HIDE DEF next
  <2> QED
    BY <1>1, <2>1, <2>2, QuietStep
<1>5. CASE AcquireFails(r) \/ ReleaseFails(r)
  BY <1>1, <1>2, <1>5, QuietStep DEF AcquireFails, ReleaseFails, Leave
<1>6. CASE StartRun(r)
  <2>1. /\ run' = [run EXCEPT ![r] = To("running")]
        /\ To("running").sent = 0 => Holding(r)
    BY <1>6 DEF StartRun, Goto, At, Holding, TypeOK, RunStates
  <2>2. To("running") \in RunStates /\ To("running").pc = "running"
    BY DEF TypeOK, RunStates
  <2> QED
    BY <1>1, <2>1, <2>2, QuietStep
<1>7. CASE EndRun(r)
  <2>1. /\ run' = [run EXCEPT ![r] = To("releasing")]
        /\ To("releasing").sent = 0 => Holding(r)
    BY <1>7 DEF EndRun, Goto, At, Holding, TypeOK, RunStates
  <2>2. To("releasing") \in RunStates /\ To("releasing").pc = "releasing"
    BY DEF TypeOK, RunStates
  <2> QED
    BY <1>1, <2>1, <2>2, QuietStep
<1> QED
  BY <1>3, <1>4, <1>5, <1>6, <1>7

\* Before the first run of the task nobody holds its lock.
LEMMA InitSound == Init => SchedulerInvariant
<1> SUFFICES ASSUME Init PROVE SchedulerInvariant
  OBVIOUS
<1>1. \A r \in Runs : run[r] = NoRun
  BY DEF Init
<1>2. NoRun \in RunStates /\ NoRun.pc = "idle"
  BY TaskSchedulerAssumption DEF NoRun, RunStates, MaxReleases
<1>3. TypeOK
  BY <1>2, TaskSchedulerAssumption DEF Init, TypeOK, Expired, FaultKinds
<1>4. LockSound
  BY <1>1, <1>2 DEF Init, LockSound, AtMostOneRun, Holding
<1> QED
  BY <1>3, <1>4 DEF SchedulerInvariant

\* Faults are remembered.
LEMMA TroubleGrows == [Next]_vars /\ trouble' = {} => trouble = {}
BY DEF Next, vars, row, Tick, ShouldRun, LockStep, ReadLock, Decide, ClearStale, ClearUnanswered,
       Acquire, AcquireFails, AcquireUnseen, RunStep, StartRun, EndRun, ReleaseLock, Release,
       ReleaseUnanswered, ReleaseFails, Rejection, Shutdown, Exit, Crash, StartTask

\* While nothing has gone wrong no process stops or starts.
LEMMA ProcessesStay ==
    ASSUME LockSound, NEW p \in Procs, trouble' = {},
           Rejection(p) \/ Shutdown(p) \/ Exit(p) \/ Crash(p) \/ StartTask(p)
    PROVE  FALSE
BY DEF LockSound, Rejection, Shutdown, Exit, Crash, StartTask

\* Every step of the scheduler keeps the invariant.
LEMMA NextSound == SchedulerInvariant /\ [Next]_vars => SchedulerInvariant'
<1> SUFFICES ASSUME SchedulerInvariant, [Next]_vars PROVE SchedulerInvariant'
  OBVIOUS
<1>1. TypeOK /\ TypeOK'
  BY TypeStep DEF SchedulerInvariant
<1>2. SUFFICES ASSUME OneHost, trouble' = {} PROVE LockSound'
  BY <1>1 DEF SchedulerInvariant, OneHost
<1>3. LockSound
  BY <1>2, TroubleGrows DEF SchedulerInvariant
<1>4. CASE UNCHANGED vars
  BY <1>3, <1>4 DEF vars, row, LockSound, AtMostOneRun, Holding
<1>5. CASE Tick
  BY <1>1, <1>2, <1>3, <1>5, TickStep
<1>6. ASSUME NEW r \in Runs,
             \/ \E anyway \in BOOLEAN : ShouldRun(r, anyway)
             \/ LockStep(r) \/ ClearUnanswered(r) \/ AcquireUnseen(r)
             \/ RunStep(r) \/ ReleaseUnanswered(r) \/ ReleaseFails(r)
      PROVE  LockSound'
  <2>1. ~ClearStale(r) /\ ~ClearUnanswered(r)
    BY <1>3 DEF ClearStale, ClearUnanswered, At, LockSound
  <2> QED
    BY <1>1, <1>2, <1>3, <1>6, <2>1, OtherRunStep, DecideStep, AcquireStep, ReleaseStep
       DEF LockStep, RunStep
<1>7. ASSUME NEW p \in Procs,
             Rejection(p) \/ Shutdown(p) \/ Exit(p) \/ Crash(p) \/ StartTask(p)
      PROVE  LockSound'
  BY <1>2, <1>3, <1>7, ProcessesStay
<1> QED
  BY <1>4, <1>5, <1>6, <1>7 DEF Next

-----------------------------------------------------------------------------
\* The invariant of the scheduler's lock holds in every reachable state.
THEOREM SchedulerInvariantHolds == Spec => []SchedulerInvariant
<1> QED
  BY InitSound, NextSound, PTL DEF Spec

\* acquireLock and releaseLock keep the task to one run at a time on a machine
\* whose processes live and whose tasks end within the lease, however long
\* acquireLock takes within the lease, as long as no repeated release of a finished
\* run clears the lock of another.
THEOREM LockIsExclusive == Spec => []ExclusiveWithoutFaults
<1>1. SchedulerInvariant => ExclusiveWithoutFaults
  BY DEF SchedulerInvariant, LockSound, ExclusiveWithoutFaults
<1> QED
  BY <1>1, SchedulerInvariantHolds, PTL

=============================================================================
