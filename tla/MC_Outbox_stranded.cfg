SPECIFICATION Spec
CONSTANTS
    brevo = brevo
    resend = resend
    Rows = {r1}
    Security = {}
    Forgettable = {}
    Workers = {w1, w2}
    Chain <- OneProvider
    Idempotent = {resend}
    MaxAttempts = 3
    MaxStalls = 1
    MaxFaults = 2
    MaxRefusals = 0
PROPERTY Settles
CHECK_DEADLOCK FALSE
