CONSTANTS
    Orders = {o1, o2}
    MaxPayments = 2
    Workers = {w1, w2}
    Methods = {bank}
    Collecting = {FALSE}
    Price = 10
    Commissions = {2}
    None = None
SPECIFICATION Spec
INVARIANT SaleRecordedOnce
SYMMETRY Symmetry
CHECK_DEADLOCK FALSE
