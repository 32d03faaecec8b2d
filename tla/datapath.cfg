SPECIFICATION Spec
CONSTANTS
    MaxAddress = 3
    MaxPort = 3
    Byte = 4
    VipLists <- SomeVipLists
    NatLists <- SomeNatLists
    FlowLists <- SomeFlowLists
    Budgets <- OnePart
    Packets <- SomePackets
    Replies <- SomeReplies
INVARIANTS TrafficQueued   FlowsServed
CHECK_DEADLOCK FALSE
