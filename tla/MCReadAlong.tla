---------------------------- MODULE MCReadAlong ----------------------------
(* Small instances of reading along. *)
EXTENDS ReadAlongClaims

MCLetter == {"a", "b", "c", ".", "-", "para"}
MCLong == {<<"b">>}

a == <<"a">>
b == <<"b">>
c == <<"c">>
Page(header, body) == [meta |-> FALSE, header |-> header, body |-> body]
Cover == [meta |-> TRUE, header |-> None, body |-> <<a, b>>]

MCDocs == {
    \* phrases that come back, within a page and on the next
    <<Page(None, <<a, b, a, b>>), Page(None, <<a, b, c>>)>>,
    \* a term broken at the end of the page
    <<Page(None, <<a, b, Hyphen>>), Page(None, <<c, a, b>>)>>,
    \* headers, repeated and not, and a cover
    <<Page(b, <<a, c>>), Page(b, <<a, b>>)>>,
    <<Cover, Page(c, <<a, b, c>>)>>,
    \* sentences
    <<Page(None, <<a, b, Stop, c, a>>), Page(None, <<b, Stop, c>>)>>,
    \* nothing to read
    <<Cover>>}

\* a text cut at the full stop before its last words
MCBoundaryDocs == {<<Page(None, <<b, Stop, c, a>>), Page(None, <<a, b, Stop, c, a>>)>>}

MCTimings == {<<0, 50>>, <<400, 300>>, <<400, 2000>>, <<1700, 1750>>}
MCClock == {0, 320, 1150, 1151, 1449, 1450, 1700, 2501}
=============================================================================
