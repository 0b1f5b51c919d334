----------------------------- MODULE MCTcpServer ------------------------------
EXTENDS TcpServerRefinement

CONSTANTS c1, c2, c3, f1, f2, h1

MCConn    == {c1, c2, c3}
MCFd      == {f1, f2}
MCHandler == {h1}

=============================================================================
