\* Pairs of commands of every class, good and bad, and one fault, restart or local
\* command; pipes of two messages.
SPECIFICATION Spec
CONSTANTS
    Scripts <- MCScripts
    MS_MIN = 1
    MS_MAX = 5
    INTERVAL_MIN = 1
    INTERVAL_MAX = 5
    DefaultConfig <- MCDefaultConfig
    PIPE_DEPTH = 2
    MaxCommands = 2
    MaxEvents = 1
INVARIANTS
    AnsweredOnce
    OkMeansDone
    RouteCacheIsMission
PROPERTIES
    ConfigStores
    AnswerArrives
    StreamsFollowConfig
