SPECIFICATION Spec
CONSTANTS
    u1 = u1
    u2 = u2
    r1 = r1
    r2 = r2
    Users = {u1, u2}
    NoUser = NoUser
    Requests = {r1, r2}
    MaxCustomers = 2
    MaxSubscriptions = 2
    MaxEvents = 3
    MaxFaults = 1
INVARIANTS
    AnsweredOnce
    ActiveHasPaid
    StatusIsStripes
SYMMETRY Symmetry
CHECK_DEADLOCK FALSE
