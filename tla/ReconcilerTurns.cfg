SPECIFICATION FairSpec
CONSTANTS
    Callers = {c1}
    Workers = {w1}
    Kinds = {"Retryable", "Terminal", "Credential"}
    MaxRegistrations = 2
    MaxStimuli = 1
    MaxFailures = 1
INVARIANTS CompletedWasCovered
PROPERTY RequestsComplete
\* The application may stay silent for good.
CHECK_DEADLOCK FALSE
