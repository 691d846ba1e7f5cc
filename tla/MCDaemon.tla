------------------------------ MODULE MCDaemon ------------------------------
EXTENDS Daemon

CONSTANTS d1, d2, c1

OneDaemon == {d1}
TwoDaemons == {d1, d2}
OneConn == {c1}
=============================================================================
