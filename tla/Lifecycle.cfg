SPECIFICATION LifecycleSpec
CONSTANTS
    Unset = Unset
    Text = Text
    HalfRange = 64
    Envs <- MCEnvs
    Paths <- MCPaths
    Requests = {r1, r2}
INVARIANTS LifecycleTypeOK CleanExitAnswersAll UnavailableIsFinal
PROPERTIES AcceptedIsAnswered SignalEnds
