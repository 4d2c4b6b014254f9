SPECIFICATION Spec
CONSTANTS
    brevo = brevo
    resend = resend
    Rows = {r1}
    Security = {}
    Forgettable = {r1}
    Workers = {w1, w2}
    Chain <- Production
    Idempotent = {resend}
    MaxAttempts = 2
    MaxStalls = 1
    MaxFaults = 1
    MaxRefusals = 2
INVARIANTS TypeOK OneHolder ExtraEmailsNeedTrouble
PROPERTIES Settles SettledStaysSettled
CHECK_DEADLOCK FALSE
