SPECIFICATION Spec
CONSTANTS
    Grants = {g1, g2}
    Leases = {l1, l2}
    Operations = {o1, o2}
    Workspaces = {"w1", "w2"}
    Subjects = {"s"}
    NoGrant = NoGrant
    NoLease = NoLease
    NoOperation = NoOperation
    NoCall = NoCall
    Off = Off
    Sections <- MCSections
    Requests <- MCRequests
    LeaseRequests <- MCLeaseRequests
    Instants = {0, 1, 2}
SYMMETRY Symmetry
INVARIANTS
    LeasesInductive
    SpentOnce
CHECK_DEADLOCK FALSE
