----------------------------- MODULE MCProcess -----------------------------
EXTENDS Process

CONSTANTS e1, e2, e3, d1

ThreeEvents == {e1, e2, e3}
OneDaemon == {d1}
=============================================================================
