SPECIFICATION Spec
CONSTANTS
    MainPorts = {"rs"}
    Devices <- TwoDevices
    MaxShows = 1
    MaxSessions = 2
    MaxCommands = 1
    MaxAnswers = 1
    MaxTasks = 2
    MaxLoRaPosts = 1
CHECK_DEADLOCK FALSE
INVARIANTS
    TypeOK
    OwnPort
    LogTrue
    OneSender
PROPERTY
    ThreadsEnd
