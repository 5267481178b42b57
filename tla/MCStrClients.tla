------------------------------ MODULE MCStrClients ------------------------------
(* StrClients on short texts.  The prefixes of a URL keep two bytes each.   *)
EXTENDS StrClients, SequencesExt

\* Byte codes.
SP == 32
MINUS == 45
DOT == 46
SLASH == 47
COLON == 58
Digit(d) == 48 + d

MCTexts == SeqOf({SP, MINUS, Digit(1), Digit(9)}, 4)
MCNeedles == SeqOf({SP, MINUS, Digit(1)}, 2)
MCIndices == -4 .. 5 \cup {End}
MCBlanks == {SP}

MCKey == <<75, SP>>            \* "K "
MCEol == <<13, 10>>            \* "\r\n"
MCMessages ==
  {FlattenSeq(pieces) : pieces \in SeqOf({MCKey, MCEol, <<120>>, <<75>>, <<13>>}, 5)}

MCHttpPrefix == <<104, SLASH>>
MCHttpsPrefix == <<115, SLASH>>
MCHostBytes == {97, MINUS, DOT} \cup Digits
MCUrls ==
  {scheme \o host \o tail :
     scheme \in {MCHttpPrefix, MCHttpsPrefix, <<102, SLASH>>, <<104>>},
     host \in {<<>>, <<97>>, <<97, DOT, MINUS>>, <<Digit(1)>>, <<MINUS, 97>>},
     tail \in {<<>>, <<SLASH>>, <<COLON>>, <<COLON, SLASH>>, <<COLON, Digit(0), Digit(8)>>,
               <<COLON, Digit(8), SLASH>>, <<COLON, Digit(8), COLON, Digit(9)>>,
               <<COLON>> \o [i \in 1 .. 5 |-> Digit(7)]}}   \* more than 16 bits
================================================================================
