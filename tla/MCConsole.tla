----------------------------- MODULE MCConsole -----------------------------
\* Three consoles of two lines of one character; two processes write to the
\* second one.
EXTENDS Console, TLC

CONSTANTS p1, p2

MCTexts == p1 :> {<<"a", "nl">>} @@ p2 :> {<<"nl", "nl">>, <<"ff", "tab">>}
MCOpens == {<<p1, 1>>, <<p2, 1>>}
MCTyped == {"e"}
=============================================================================
