\* Compute for every combination of three presets.
CONSTANTS
    N = 3
    Budgets <- SmallBudgets
    Ceilings = {1, 4, 8}
    Floors = {1, 2}
    CustomWBs = {50, 300}
SPECIFICATION FairSpec
INVARIANTS TypeOK FitsInBudget WithinLimits EqualShares NoNeedlessDowngrade
    RefusesOnlyWhenSaturated NothingLeftToGive
PROPERTY Terminates
CHECK_DEADLOCK FALSE
