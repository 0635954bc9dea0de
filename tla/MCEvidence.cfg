SPECIFICATION ESpec
CONSTANTS
    CasesOf <- TwoArms
    OwnCaches = {FALSE, TRUE}
    MaxAttempts = 2
    MaxDisturbances = 2
INVARIANTS
    PassedMeansProven CaseReportsHold LeftClean OneExecution
PROPERTIES
    SweepEnds
CHECK_DEADLOCK FALSE
