----------------------------- MODULE MCIndexing -----------------------------
(* GoldSpans and Indexing for TLC: every text of up to MaxChars characters *)
(* without a tab, and every shorter one with a tab in it.                  *)
EXTENDS GoldSpans

CONSTANT MaxChars

Tabless(n) == [1 .. n -> Chars \ {"tab"}]
Tabbed(n) == {[t EXCEPT ![k] = "tab"] : t \in Tabless(n), k \in 1 .. n}

ShortTexts ==
  UNION {Tabless(n) : n \in 0 .. MaxChars} \cup UNION {Tabbed(n) : n \in 1 .. MaxChars - 1}

(* Two sentences short and long, then a third: the shape whose chunks      *)
(* overlap by the whole long one.                                          *)
LongSecond == {<<"stop", "space", "ink", "stop", "space", "stop", "space", "ink">>}
=============================================================================
