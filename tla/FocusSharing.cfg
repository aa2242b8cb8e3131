SPECIFICATION Spec
CONSTANTS
    DefaultHolder <- MCDefaultHolder
    LastHolder <- twoHolders
    MaxSleeves = 1
    PortCapacity = 3
    MaxEvents = 2
INVARIANTS LastClaimWins SleevesServe
PROPERTIES HolderLeavesSleeves FlagChecked HandoverCompletes
