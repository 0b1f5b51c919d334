---------------------------- MODULE MCHttpService -----------------------------
EXTENDS HttpService

CONSTANTS c1, c2, c3, f1, api

MCConn    == {c1, c2, c3}
MCTwoConn == {c1, c2}
MCFd      == {f1}
MCHandler == {api}

=============================================================================
