SPECIFICATION TapaFairSpec
CONSTANTS
    Streams = {s1}
    Addresses = {a1, a2}
    MaxGoroutines = 3
    Budgets <- SomeBudgets
INVARIANTS TapConsistent
PROPERTIES StreamsSettle ConduitSettles
CHECK_DEADLOCK FALSE
