--------------------------- MODULE MCToolResults ---------------------------
EXTENDS ToolResults

ProjectNames == {"src"}
ProjectBeginnings == {
    <<>>, <<".", Slash>>, <<Slash, "mnt", Slash>>, <<"C:", Backslash>>,
    <<Backslash, Backslash>>,
    <<Backslash, Backslash, "wsl", Slash, "src", Backslash>>}
ProjectCwd == <<Slash, "mnt", Slash, "c">>
ProjectTarget == <<Slash, "mnt", Slash, "c", Slash, "src">>
TwoLines == {0, 1}
AllCaps == {-1, 0, 1, 3}
=============================================================================
