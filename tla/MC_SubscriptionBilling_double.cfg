SPECIFICATION Spec
CONSTANTS
    Checkouts = {c1}
    Payments = {p1, p2}
    Methods = {m1, m2}
    Events = {e1}
    EventTypes = {"succeeded", "failed", "processing", "created"}
    Attempts = 2
    None = None
INVARIANT GrantedOnce
CHECK_DEADLOCK FALSE
