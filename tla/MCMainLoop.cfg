SPECIFICATION FairSpec
CONSTANTS
    MaxWait = 2
    MaxStatuses = 3
    MaxRequests = 2
    MaxConnects = 2
    MaxFails = 1
CHECK_DEADLOCK FALSE
PROPERTIES StatusesHandled RequestAnswered ListensAgain QuitEnds
