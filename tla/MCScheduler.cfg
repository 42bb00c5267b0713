CONSTANTS
    p1 = p1  p2 = p2  r1 = r1  r2 = r2  r3 = r3
    Procs = {p1, p2}
    Runs = {r1, r2, r3}
    Proc <- MCProc
    Host <- MCOneHost
    Pid <- MCPid
    NoPid = 0
    Lease = 2
    Interval = 1
    MaxAge = 1
    Faults = {"overrun", "crash", "shutdown", "rejection", "resend"}
SPECIFICATION Spec
SYMMETRY MCSymmetry
INVARIANTS SchedulerInvariant ExclusiveWithoutFaults
