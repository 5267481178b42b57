---------------------------------- MODULE Jsmn ----------------------------------
(***************************************************************************)
(* The JSON reader (jsmn.c, as it is built here: neither JSMN_STRICT nor   *)
(* JSMN_PARENT_LINKS): one pass over the text that fills an array of       *)
(* tokens.  A token says where an object, array, string or primitive       *)
(* begins and ends, and how many others it directly holds; its end is not  *)
(* set while it is open.                                                   *)
(*                                                                         *)
(* Each turn of the loop of jsmn_parse is a step, an action per case.      *)
(* Positions and tokens count from 1; toknext is the length of tokens, and *)
(* so is count, for each token that is made is counted.                    *)
(***************************************************************************)
EXTENDS Integers, Sequences

CONSTANTS NumTokens,    \* length of the array of tokens
          Unprintable   \* characters below 32 or from 127, other than spaces

ASSUME NumTokensAssumption == NumTokens \in Nat

VARIABLES json,      \* the text
          pos,       \* parser->pos
          tokens,    \* the tokens made so far
          toksuper,  \* the token that the next one goes under, 0 if none
          result     \* what jsmn_parse returned

jsmnVars == <<json, pos, tokens, toksuper, result>>

NOMEM == -1
INVAL == -2
PART == -3
None == -4   \* not returned yet

Unset == 0
JsonToken(type, start, end) == [type |-> type, start |-> start, end |-> end, size |-> 0]

Space == " "   \* for tab, carriage return and newline too
DoubleQuote == "\""
Escape == "\\"
HexDigits == {"0", "a"}             \* one of each kind
Escapable == {DoubleQuote, Escape, "n"}  \* "n" for / b f r n t
Containers == {"object", "array"}

JsmnInit(text) ==   \* jsmn_init, and the call of jsmn_parse
  /\ json = text
  /\ pos = 1
  /\ tokens = <<>>
  /\ toksuper = 0
  /\ result = None

At(chars) == result = None /\ pos <= Len(json) /\ json[pos] \in chars

Goes(to) == pos' = to /\ UNCHANGED <<json, result>>
Fails(error) == result' = error /\ UNCHANGED <<json, pos, tokens, toksuper>>

Full == Len(tokens) = NumTokens   \* jsmn_alloc_token finds no room

\* The token that toksuper points at holds one more.
Counted(toks) == IF toksuper = 0 THEN toks ELSE [toks EXCEPT ![toksuper].size = @ + 1]

Open == {k \in DOMAIN tokens : tokens[k].end = Unset}
Innermost(S) == IF S = {} THEN 0 ELSE CHOOSE k \in S : \A j \in S : j <= k

-------------------------------------------------------------------------------
ParseOpen ==
  /\ At({"{", "["})
  /\ IF Full THEN Fails(NOMEM)
     ELSE /\ tokens' = Append(Counted(tokens),
                              JsonToken(IF json[pos] = "{" THEN "object" ELSE "array", pos, Unset))
          /\ toksuper' = Len(tokens')
          /\ Goes(pos + 1)

\* Fault: the bracket closes the outermost token that is open.
ParseCloseOutermost ==
  /\ At({"}", "]"})
  /\ IF Open = {} THEN Fails(INVAL)
     ELSE LET closed == CHOOSE k \in Open : \A j \in Open : k <= j
          IN  /\ tokens' = [tokens EXCEPT ![closed].end = pos + 1]
              /\ toksuper' = Innermost(Open \ {closed})
              /\ Goes(pos + 1)

ParseClose ==
  /\ At({"}", "]"})
  /\ LET closed == Innermost(Open)
     IN  IF closed = 0 \/ tokens[closed].type # (IF json[pos] = "}" THEN "object" ELSE "array")
         THEN Fails(INVAL)
         ELSE /\ tokens' = [tokens EXCEPT ![closed].end = pos + 1]
              /\ toksuper' = Innermost(Open \ {closed})
              /\ Goes(pos + 1)

\* How many of the four digits after \u are there, the text being cut off or not.
Digits(p) ==
  CHOOSE n \in 0 .. 4 :
    /\ p + n <= Len(json) + 1
    /\ \A k \in p .. p + n - 1 : json[k] \in HexDigits
    /\ n = 4 \/ p + n = Len(json) + 1 \/ json[p + n] \notin HexDigits

\* jsmn_parse_string: where the string that begins at start ends, or an error.
ClosingQuote(start) ==
  LET scan[p \in start + 1 .. Len(json) + 1] ==
        IF p > Len(json) THEN PART
        ELSE IF json[p] = DoubleQuote THEN p
        ELSE IF json[p] # Escape \/ p = Len(json) THEN scan[p + 1]
        ELSE IF json[p + 1] \in Escapable THEN scan[p + 2]
        ELSE IF json[p + 1] # "u" THEN INVAL
        ELSE LET next == p + 2 + Digits(p + 2)
             IN  IF next = p + 6 \/ next > Len(json) THEN scan[next] ELSE INVAL
  IN  scan[start + 1]

ParseString ==
  /\ At({DoubleQuote})
  /\ LET end == ClosingQuote(pos)
     IN  IF end < 0 THEN Fails(end)
         ELSE IF Full THEN Fails(NOMEM)
         ELSE /\ tokens' = Counted(Append(tokens, JsonToken("string", pos + 1, end)))
              /\ Goes(end + 1)
              /\ UNCHANGED toksuper

\* jsmn_parse_primitive: up to a delimiter or the end of the text.
PrimitiveEnd ==
  CHOOSE e \in pos .. Len(json) + 1 :
    /\ e = Len(json) + 1 \/ json[e] \in {":", ",", "]", "}", Space}
    /\ \A k \in pos .. e - 1 : json[k] \notin {":", ",", "]", "}", Space}

ParsePrimitive ==   \* every character that is in no other case begins one
  /\ result = None /\ pos <= Len(json)
  /\ ~At({"{", "[", "}", "]", DoubleQuote, ":", ",", Space})
  /\ IF \E k \in pos .. PrimitiveEnd - 1 : json[k] \in Unprintable THEN Fails(INVAL)
     ELSE IF Full THEN Fails(NOMEM)
     ELSE /\ tokens' = Counted(Append(tokens, JsonToken("primitive", pos, PrimitiveEnd)))
          /\ Goes(PrimitiveEnd)
          /\ UNCHANGED toksuper

ParseSpace ==
  /\ At({Space})
  /\ Goes(pos + 1)
  /\ UNCHANGED <<tokens, toksuper>>

ParseColon ==   \* what follows goes under the token before
  /\ At({":"})
  /\ toksuper' = Len(tokens)
  /\ Goes(pos + 1)
  /\ UNCHANGED tokens

ParseComma ==   \* back from a key to the object it is in
  /\ At({","})
  /\ toksuper' = IF /\ toksuper # 0
                    /\ tokens[toksuper].type \notin Containers
                    /\ Open # {}
                 THEN Innermost(Open) ELSE toksuper
  /\ Goes(pos + 1)
  /\ UNCHANGED tokens

\* Fault: what is still open is not looked at.
ParseEndAnyway ==
  /\ result = None /\ pos > Len(json)
  /\ result' = Len(tokens)
  /\ UNCHANGED <<json, pos, tokens, toksuper>>

ParseEnd ==
  /\ result = None /\ pos > Len(json)
  /\ result' = IF Open # {} THEN PART ELSE Len(tokens)
  /\ UNCHANGED <<json, pos, tokens, toksuper>>

-------------------------------------------------------------------------------
(* jsmn_pattern_matches, of two texts that were parsed.                    *)

Parsed(text, toks) == [text |-> text, tokens |-> toks]
BytesOf(p, k) == SubSeq(p.text, p.tokens[k].start, p.tokens[k].end - 1)

\* Fault: of a token, as much is compared as the pattern has.
TokenBegins(doc, patt, k) ==
  \/ patt.tokens[k].type \in Containers
  \/ patt.tokens[k].type = "primitive" /\ BytesOf(patt, k) = <<"?">>
  \/ /\ doc.tokens[k].type = patt.tokens[k].type
     /\ LET n == Len(BytesOf(patt, k))
        IN  Len(BytesOf(doc, k)) >= n /\ SubSeq(BytesOf(doc, k), 1, n) = BytesOf(patt, k)

\* A container of the pattern stands for any token.
TokenMatches(doc, patt, k) ==
  \/ patt.tokens[k].type \in Containers
  \/ patt.tokens[k].type = "primitive" /\ BytesOf(patt, k) = <<"?">>
  \/ doc.tokens[k].type = patt.tokens[k].type /\ BytesOf(doc, k) = BytesOf(patt, k)

(* The answers that are possible: with extra tokens, the loop goes on and  *)
(* compares them with what lies behind the tokens of the pattern.          *)
PatternMatches(doc, patt, allowExtras) ==
  LET count == Len(doc.tokens)
      pattCount == Len(patt.tokens)
  IN  IF \/ count < pattCount
         \/ ~allowExtras /\ count # pattCount
         \/ \E k \in 1 .. pattCount : ~TokenMatches(doc, patt, k)
      THEN {FALSE}
      ELSE IF count = pattCount THEN {TRUE} ELSE BOOLEAN

Parse ==
  \/ ParseOpen \/ ParseClose \/ ParseString \/ ParsePrimitive
  \/ ParseSpace \/ ParseColon \/ ParseComma \/ ParseEnd
===============================================================================
