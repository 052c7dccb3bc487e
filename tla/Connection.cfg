CONSTANTS
    p1 = p1
    p2 = p2
    p3 = p3
    l1 = l1
    l2 = l2
    l3 = l3
    a = a
    b = b
    None = None
    Producers = {p1, p2, p3}
    QueueCapacity = 1
    Calls = 1
    QueueScenarios <- Queues
    Leases = {l1, l2, l3}
    SlotCount = 2
    JobLimit = 2
    AskOf <- Responder
    BigFrames = 2
    LeaseScenarios <- LeasePlans
SPECIFICATION Spec
CHECK_DEADLOCK FALSE
INVARIANTS NoSleepingWriter ReclaimedAfterClose SlotsExclusive BudgetConserved CompletionAfterRelease NothingHeldAfterClose WireShape
PROPERTIES CallsReturn AcceptedDone ImplementsDelivery
