SPECIFICATION TapaSpec
CONSTANTS
    Streams = {s1}
    Addresses = {a1, a2}
    MaxGoroutines = 3
    Budgets <- SomeBudgets
INVARIANT NeverBlocked
CHECK_DEADLOCK FALSE
