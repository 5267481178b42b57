------------------------------- MODULE MCJsonText -------------------------------
(* Small documents, and every short text of an alphabet. *)
EXTENDS JsonText

MCKeys == {<<"a">>, <<>>}
MCStrings == {<<Backslash, Quote, Control>>}
MCPrimitives == {<<"1", "0">>}

\* {}, {"a":?}, {"a":1}, {"a":10} and {"a":10,"a":?}.
A(value) == <<Quote, "a", Quote, ":">> \o value
MCPatterns ==
  {<<"{">> \o pairs \o <<"}">> :
     pairs \in {<<>>, A(<<"?">>), A(<<"1">>), A(<<"1", "0">>),
               A(<<"1", "0">>) \o <<",">> \o A(<<"?">>)}}

Alphabet == {"{", "}", "[", "]", ":", ",", Quote, Backslash, "u", "0", Space, Control}
MCChars == Alphabet \union {"a", "1", "?"}
MCOtherTexts == UNION {[1 .. n -> Alphabet] : n \in 0 .. 4}
===============================================================================
