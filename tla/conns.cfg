\* A server, or a client that is stopped and started again; one listener.
SPECIFICATION Spec
CONSTANTS
    l1 = l1
    Listeners <- OneListener
    Plans <- ServerOrClientAgain
    MaxConns = 2
INVARIANTS TypeOK LiveIsListed StopLeavesNothing ListenersKnow
\* The bounds end every behaviour.
CHECK_DEADLOCK FALSE
