--------------------------- MODULE MCLspTransport ---------------------------
EXTENDS LspTransport, TLC

CONSTANTS c1, c2, n1, k1, k2

TwoCalls == {c1, c2}
OneCall == {c1}
OneNotifier == {n1}
NoNotifier == {}
OneCloser == {k1}
TwoClosers == {k1, k2}
NoCloser == {}

Symmetric == Permutations({c1, c2})
=============================================================================
