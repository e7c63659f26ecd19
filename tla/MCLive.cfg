SPECIFICATION Spec
CONSTANTS
    Refs = {r1}
    Users = {u1, u2}
    Drafts <- SomeDrafts
    MaxFaults = 2
    Nobody = Nobody
    NoForm = NoForm
    Clients = {k1, k2, k3}
    Routes = {"dependency", "body", "health"}
    Threads = 1
    db_pool_size = 1
    db_max_overflow = 1
    max_in_flight_requests = 3
INVARIANTS
    ReceivedOnce
PROPERTIES
    ImplementsHandover
    PendingLeaves
    EveryRequestEnds
