SPECIFICATION MCSpec
CONSTANTS
    N = 3
    Permits = 2
    Channel = 1
    Budget = 1
    MaxFaults = 1
INVARIANTS
    ExecutedAtMostOnce
    AnswersAreTrue
    AnsweredOnce
PROPERTIES
    EveryLineIsAnswered
CHECK_DEADLOCK FALSE
