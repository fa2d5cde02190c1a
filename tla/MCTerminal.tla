----------------------------- MODULE MCTerminal -----------------------------
(***************************************************************************)
(* Terminal for TLC: letters, a wide comma and a mark of two bytes, and    *)
(* three-byte codepoints that are not text.  7 and 25 are scaled to 1, 2.  *)
(***************************************************************************)
EXTENDS Terminal, TLC

Printable == {"a", "7", "8", "M"}
MCLetter == [b \in Printable |-> "a"]
MCLead == ("w" :> 2) @@ ("s" :> 3)
MCDecode ==
    (<<"w", "x">> :> "comma") @@ (<<"w", "y">> :> "mark")
    @@ (<<"s", "x", "x">> :> "SCP") @@ (<<"s", "x", "y">> :> "inadmissible")
    @@ (<<"s", "y", "x">> :> "malformed") @@ (<<"s", "y", "y">> :> "a")

MCBase == [k \in Clusters |-> k]
MCWidth == [k \in Clusters |-> CASE k = "comma" -> 2 [] k = "mark" -> 0 [] OTHER -> 1]
MCGlued == {<<"a", "a">>, <<"a", "comma">>, <<"comma", "comma">>}
MCSgr == [v \in 0 .. 2 |-> [x \in Styles |-> IF v = 0 THEN 0 ELSE x]]

Csi(arguments, finals) ==
    {<<"ESC", "[">> \o a \o <<f>> : a \in arguments, f \in finals}

Text == {<<"a">>, <<"w", "x">>, <<"w", "y">>, <<"s", "x", "x">>, <<"s", "x", "y">>,
         <<"s", "y", "x">>, <<"bad", "a">>, <<"w", "ESC", "a">>,
         <<"w", "y", "a">>, <<"w", "x", "a">>, <<"HT", "a">>}
Controls == {<<b>> : b \in {"BEL", "BS", "HT", "LF", "CR"}}
Escapes == {<<"ESC", b>> : b \in {"8", "D", "E", "M", "c", "\\", "q"}}
           \cup {<<"CR", "ESC", "7">>}
Sequences ==
    Csi({<<>>}, {"A", "B", "C", "D", "E", "F", "G", "H", "J", "K", "L", "M", "P",
                 "@", "S", "T", "m", "h"})
    \cup Csi({<<"2">>}, {"D", "L", "M", "J", "K"})
    \cup Csi({<<"1">>}, {"J", "K"})
    \cup Csi({<<"2", ";", "2">>, <<";", "1">>, <<"1", ";", "1", ";">>}, {"f"})
    \cup Csi({<<"?", "1">>, <<"?", "1", ";", "0">>}, {"h", "l"})
    \cup Csi({<<" ">>, <<"LF", "!">>, <<"<", "NUL">>}, {"A"})
OscStrings == {<<"ESC", "]", "a", "a", "ESC", "\\">>}
Split == {<<"ESC", "[", "2">>, <<"A">>}

MCChunks == Text \cup Controls \cup Escapes \cup Sequences \cup OscStrings
            \cup Split
MCUnfinished == {<<"ESC">>, <<"ESC", "[", "2", ";", "2", ";", "2">>,
                 <<"ESC", "[", "2", " ">>, <<"ESC", "[", "?", "1", ";", "0">>,
                 <<"ESC", "]", "a">>, <<"ESC", "]", "a", "a", "ESC">>}
MCProbes == {<<"ESC", "[", "A">>, <<"ESC", "[", "?", "1", "h">>,
             <<"ESC", "[", "2", ";", "2", "H">>, <<"a">>}

=============================================================================
