CONSTANTS
    Msgs = {m1, m2}
    Reminders = {m2}
    u1 = u1  u2 = u2  m1 = m1  m2 = m2
    Users = {u1, u2}
    Wants <- MCWants
    Cap = 1
    MaxAttempts = 2
    Faults = {"crash", "drop", "republish", "publish", "answer", "db"}
    Prefetch = 1
    MaxEvents = 2
    NoMsg = NoMsg
SPECIFICATION Spec
INVARIANTS DeliveryInvariant NotificationIsKept SentOnce DispatchedMeansServed
PROPERTIES MutedOnlyPastTheCap
CHECK_DEADLOCK FALSE
