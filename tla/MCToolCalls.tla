---------------------------- MODULE MCToolCalls ----------------------------
EXTENDS ToolCalls

CONSTANTS o1, l1, f1

OneOutline == {o1}
OneLookup == {l1}
OneFile == {f1}
=============================================================================
