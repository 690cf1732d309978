----------------------------- MODULE MCTerminal -----------------------------
EXTENDS Terminal

S(line) == line \o <<"\n">>
Symbols == {"e", "|", ";", "&", "(", ")", ">", "<"}
Short == UNION {[1..n -> Symbols] : n \in 0..3}
MCScripts ==
  {S(l) : l \in Short} \cup {
  S(<<"e", " ", "x">>), S(<<"e", "|", "c">>), S(<<"c", "|", "c">>) \o <<"x", "\r", "^D">>,
  S(<<"e", ";", "e">>), S(<<"(", "e", "&", ")">>), S(<<"c", "&">>) \o <<"x", "\n">>,
  S(<<"c", "<", "f">>), S(<<"c", " ", "f">>), S(<<"e", " ", "x", ">", "f">>), S(<<"c", ">", ">", "f">>) \o <<"x", "^D", "^D">>,
  S(<<"c", "d", " ", "f">>), S(<<"x", "^H", "e">>), S(<<"e", "^U", "^H", "^P">>), <<"^D">>,
  <<"e", " ", "x", " ", "x", " ", "x", " ", "x", "\n">>,
  S(<<"e", " ", "x", "|", "e">>), S(<<"e", " ", "x", "|", "c">>), S(<<"e", "|", "e", "|", "e">>), S(<<"q">>),
  S(<<"(", "e", ";", "e", ")", "&">>) \o <<"^D">>, S(<<"(", "c", "|", "c", ")", "&">>) \o <<"^D">>, S(<<"e", "|", "(", "e", "|", "e", ")">>),
  S(<<"e", " ", "x", "|", "c", "|", "c">>)}
MCChars == {"\n", "^D", " ", "d", "f", "q", "x", "c"} \cup Symbols
=============================================================================
