SPECIFICATION Spec
CONSTANTS
    Connections = {c1, c2, c3}
CHECK_DEADLOCK FALSE
INVARIANT TypeOK
INVARIANT OkMeansDrained
INVARIANT ListenErrorReported
PROPERTY SignalEndsProcess
