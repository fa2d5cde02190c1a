----------------------------- MODULE MCConsole ------------------------------
(***************************************************************************)
(* Console for TLC: a letter with and without a mark, a wide comma, before *)
(* which no line is broken but after which one may be, and a mark alone.   *)
(***************************************************************************)
EXTENDS Console

MCBase == [k \in Clusters |-> IF k = "a+mark" THEN "a" ELSE k]
MCWidth == [k \in Clusters |-> CASE k = "comma" -> 2 [] k = "mark" -> 0 [] OTHER -> 1]
Letters == {"a", "a+mark"}
MCGlued == (Letters \X Letters) \cup ({"a", "a+mark", "comma"} \X {"comma"})

=============================================================================
