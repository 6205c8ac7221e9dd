SPECIFICATION Spec
CONSTANTS
    MainPorts = {"rs"}
    Devices <- OneDevice
    MaxShows = 3
    MaxSessions = 1
    MaxCommands = 2
    MaxAnswers = 0
    MaxTasks = 0
    MaxLoRaPosts = 0
CHECK_DEADLOCK FALSE
INVARIANTS
    LogTrue
    NoneMissed
