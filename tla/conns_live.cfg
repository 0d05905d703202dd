\* A server or a client, started once; nobody listens.
SPECIFICATION FairSpec
CONSTANTS
    l1 = l1
    Listeners <- NoListener
    Plans <- ServerOrClient
    MaxConns = 2
PROPERTIES ThreadsEndTogether Reconnects StopTerminates
\* The bounds end every behaviour.
CHECK_DEADLOCK FALSE
