---------------------------- MODULE MCLineInput ----------------------------
EXTENDS LineInput

QuitLine == <<"q", "t">>
=============================================================================
