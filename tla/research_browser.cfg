SPECIFICATION Spec
CONSTANTS
    j1 = j1
    c1 = c1
    c2 = c2
    w1 = w1
    w2 = w2
    h1 = h1
    None = None
    Jobs <- OneJob
    Calls <- OneCall
    Reconcilers <- OneReconciler
    Hooks <- OneHook
    ProviderEnds <- Ends
    MaxRetrievalFailures = 2
    FailureCap = 2
    AttachAttempts = 1
    MaxFaults = 1
PROPERTIES
    AcceptedWorkSurvivesBrowser
CHECK_DEADLOCK FALSE
