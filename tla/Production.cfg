SPECIFICATION Spec
CONSTANTS
    w1 = w1
    w2 = w2
    t1 = t1
    t2 = t2
    WorkOrders = {w1, w2}
    Calls = {t1}
    Planned = 2
    IssueForms = {1}
    CompletionForms = {2}
    UnitCosts <- MCUnitCosts
    MaxExecutions = 2
SYMMETRY MCSymmetry
INVARIANTS
    ProductionValueConserved
    FulfilmentMatchesConsumption
    OutputMatchesExecutions
PROPERTIES
    ReopenedOnlyByVoid
CHECK_DEADLOCK FALSE
