CONSTANTS
    Orders = {o1, o2}
    MaxPayments = 2
    Workers = {w1, w2}
    Methods = {bank, wallet}
    Collecting = {TRUE, FALSE}
    Price = 10
    Commissions = {2}
    None = None
SPECIFICATION Spec
INVARIANTS TypeOK OneOpenAcademyPayment RefundBackedBySale SucceededMeansSettled AccessIsPaidFor
PROPERTY SettledNeverExpires
SYMMETRY Symmetry
CHECK_DEADLOCK FALSE
