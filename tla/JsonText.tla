-------------------------------- MODULE JsonText --------------------------------
(***************************************************************************)
(* A document on its way: a client writes it with jems, item by item; the  *)
(* text goes through a buffer that may be too short and over a link that   *)
(* may lose a byte; the other side reads it with jsmn.  Instead of such a  *)
(* text, one may come that jems has not written.                           *)
(*                                                                         *)
(* The client keeps to what jems leaves to it: one document, a key for     *)
(* each item of an object and for no other, brackets that match.           *)
(***************************************************************************)
EXTENDS Jems, Jsmn

CONSTANTS Chars,          \* the characters of all texts
          Keys, Strings,  \* what keys and strings are made of: sequences of bytes
          Primitives,     \* the texts of numbers, truth values and null
          OtherTexts,     \* texts that others send
          Patterns,       \* texts of patterns
          MaxItems        \* bound: keys and values of a document

Structural == {"{", "}", "[", "]", ":", ",", Quote, Space}   \* mean something in JSON

\* What snprintf makes of a number is a run of ordinary characters, and so are
\* true, false and null; the client gives jems_literal no other text either.
ASSUME TextAssumption ==
  /\ Structural \union {Backslash, "u", HexDigit} \subseteq Chars
  /\ Keys \union Strings \union Primitives \union OtherTexts \union Patterns \subseteq Seq(Chars)
  /\ \A p \in Primitives :
       /\ p # <<>>
       /\ \A k \in DOMAIN p : p[k] \notin Structural \union Unprintable

VARIABLES jems,     \* the writer
          meant,    \* history: the items written, as jsmn should find them
          opened,   \* the items that the client has opened and not closed
          tooDeep,  \* history: more levels than there is room for
          document, \* the document read that a pattern is to be compared with
          source    \* where the text that is read comes from; "" while writing

writerVars == <<jems, meant, opened, tooDeep>>
textVars == <<jsmnVars, writerVars, document, source>>

NoDocument == Parsed(<<>>, <<>>)

Item(type, bytes) == [type |-> type, bytes |-> bytes, size |-> 0]
Values ==
  {Item("object", <<>>), Item("array", <<>>)}
    \union {Item("string", s) : s \in Strings} \union {Item("primitive", p) : p \in Primitives}

TextInit ==
  /\ jems = JemsReset
  /\ meant = <<>> /\ opened = <<>> /\ tooDeep = FALSE
  /\ document = NoDocument
  /\ source = ""
  /\ JsmnInit(<<>>)

-------------------------------------------------------------------------------
(* The client writes. *)

Parent == IF opened = <<>> THEN 0 ELSE opened[Len(opened)]
InObject == opened # <<>> /\ meant[Parent].type = "object"

Counting(items, k) == IF k = 0 THEN items ELSE [items EXCEPT ![k].size = @ + 1]

JemsItem(w, item) ==
  CASE item.type = "object" -> ObjectOpen(w)
    [] item.type = "array" -> ArrayOpen(w)
    [] item.type = "string" -> JemsString(w, item.bytes)
    [] item.type = "primitive" -> Primitive(w, item.bytes)

Means(items, last) ==   \* these items are in the document now, the last under the parent
  /\ source = "" /\ Len(items) <= MaxItems
  /\ meant' = items
  /\ opened' = IF last.type \in Containers THEN Append(opened, Len(items)) ELSE opened
  /\ tooDeep' = (tooDeep \/ Len(opened') >= MaxLevels)
  /\ UNCHANGED <<jsmnVars, document, source>>

Write ==
  /\ meant = <<>> \/ (opened # <<>> /\ ~InObject)
  /\ \E item \in Values :
       /\ Means(Append(Counting(meant, Parent), item), item)
       /\ jems' = JemsItem(jems, item)

WriteKey ==   \* jems_key_object_open and so on
  /\ InObject
  /\ \E key \in Keys, item \in Values :
       /\ Means(Counting(meant, Parent) \o <<[Item("string", key) EXCEPT !.size = 1], item>>, item)
       /\ jems' = JemsItem(JemsString(jems, key), item)

Close ==
  /\ source = "" /\ opened # <<>>
  /\ jems' = IF InObject THEN ObjectClose(jems) ELSE ArrayClose(jems)
  /\ opened' = SubSeq(opened, 1, Len(opened) - 1)
  /\ UNCHANGED <<meant, tooDeep, jsmnVars, document, source>>

-------------------------------------------------------------------------------
(* The text is sent, and read.  A buffer takes a text up to its length:    *)
(* jems_writer of tstat_model.c drops the rest.                            *)

Prefixes(text) == {SubSeq(text, 1, n) : n \in 0 .. Len(text) - 1}
WithoutOne(text) ==
  {SubSeq(text, 1, n - 1) \o SubSeq(text, n + 1, Len(text)) : n \in DOMAIN text}

Arrives(from, texts) ==
  /\ source' = from
  /\ json' \in texts
  /\ pos' = 1 /\ tokens' = <<>> /\ toksuper' = 0 /\ result' = None
  /\ UNCHANGED writerVars

Deliver ==
  /\ source = "" /\ meant # <<>> /\ opened = <<>>
  /\ \/ Arrives("whole", {jems.text})
     \/ Arrives("cut", Prefixes(jems.text))
     \/ Arrives("damaged", WithoutOne(jems.text))
  /\ UNCHANGED document

OthersSend ==
  /\ source = "" /\ meant = <<>>
  /\ Arrives("other", OtherTexts)
  /\ UNCHANGED document

Read == source # "" /\ Parse /\ UNCHANGED <<writerVars, document, source>>

ParsePattern ==   \* jsmn_parse_pattern
  /\ source = "whole" /\ result > 0
  /\ document' = Parsed(json, tokens)
  /\ Arrives("pattern", Patterns)

Again ==   \* the next document: jems_init and jsmn_init
  /\ result # None
  /\ jems' = JemsReset
  /\ meant' = <<>> /\ opened' = <<>> /\ tooDeep' = FALSE
  /\ document' = NoDocument
  /\ source' = ""
  /\ json' = <<>> /\ pos' = 1 /\ tokens' = <<>> /\ toksuper' = 0 /\ result' = None

TextNext ==
  Write \/ WriteKey \/ Close \/ Deliver \/ OthersSend \/ Read \/ ParsePattern \/ Again

TextSpec == TextInit /\ [][TextNext]_textVars

-------------------------------------------------------------------------------
Found ==   \* the tokens as items
  [k \in DOMAIN tokens |->
     [type |-> tokens[k].type, size |-> tokens[k].size,
      bytes |-> IF tokens[k].type \in Containers THEN <<>>
                ELSE SubSeq(json, tokens[k].start, tokens[k].end - 1)]]

Expected ==
  [k \in DOMAIN meant |->
     [meant[k] EXCEPT !.bytes = IF meant[k].type = "string" THEN QuotedBytes(@) ELSE @]]

Uncounted(items) == [k \in DOMAIN items |-> [items[k] EXCEPT !.size = 0]]

(* What jems has written, jsmn reads back: every item, in its place, with  *)
(* the bytes and the size it has, whatever is nested and quoted; or it     *)
(* says that there are too few tokens.  An object or array for which       *)
(* push_level had no room is read back too, with every item in it, only    *)
(* the sizes may then be wrong.                                            *)
DocumentRead ==
  source = "whole" /\ result # None =>
    IF Len(meant) <= NumTokens
    THEN /\ result = Len(meant)
         /\ Uncounted(Found) = Uncounted(Expected)
         /\ tooDeep \/ Found = Expected
    ELSE result = NOMEM

(* An object or array that is cut off, by a buffer that is too short or by *)
(* an early end, is never read as one: no cut leaves a text that is        *)
(* complete and says something else.                                       *)
CutRefused ==
  source = "cut" /\ meant[1].type \in Containers /\ result # None => result < 1

(* Whatever the text: there are no more tokens than there is room for;     *)
(* they lie within the text, in the order in which they begin, each two of *)
(* them apart or one inside the other; what is open is not inside anything *)
(* that is closed.                                                         *)
TokensNest ==
  /\ Len(tokens) <= NumTokens
  /\ \A k \in DOMAIN tokens \ Open : tokens[k].start <= tokens[k].end /\ tokens[k].end <= pos
  /\ \A j, k \in DOMAIN tokens : j < k =>
       /\ tokens[j].start < tokens[k].start
       /\ \/ j \in Open
          \/ tokens[j].end <= tokens[k].start
          \/ tokens[j].type \in Containers /\ k \notin Open /\ tokens[k].end < tokens[j].end

Pairs(items) == [n \in 1 .. (Len(items) - 1) \div 2 |-> <<items[2 * n], items[2 * n + 1]>>]

IsFlat(items) ==   \* an object, and nothing in it that holds others
  /\ items # <<>> /\ items[1].type = "object"
  /\ \A k \in 2 .. Len(items) : items[k].type \notin Containers

IsPattern(items) ==   \* {"key":value,...}
  /\ IsFlat(items) /\ Len(items) % 2 = 1
  /\ \A n \in DOMAIN Pairs(items) : items[2 * n].type = "string" /\ items[2 * n + 1].size = 0

\* A pattern and a document of which the pairs can be compared.
ComparesPairs == source = "pattern" /\ result > 0 /\ IsFlat(meant) /\ IsPattern(Found)

Answers(extras) == PatternMatches(document, Parsed(json, tokens), extras)

Suits(pair, value) ==
  /\ pair[1].bytes = value[1].bytes
  /\ pair[2] = Item("primitive", <<"?">>) \/ pair[2] = value[2]

Suit ==   \* the document begins with what the pattern asks for
  /\ Len(Pairs(Found)) <= Len(Pairs(Expected))
  /\ \A n \in DOMAIN Pairs(Found) : Suits(Pairs(Found)[n], Pairs(Expected)[n])

(* A pattern of the form {"key":value,...} matches, of the documents that  *)
(* are such an object, just those with these keys in this order and with   *)
(* these values, a value ? standing for any, and with nothing else.  With  *)
(* allow_extras, too, nothing matches that does not begin with these keys  *)
(* and values.  Values that hold others, which a ? and a key in the wrong  *)
(* place may match, are left out.                                          *)
PatternFinds ==
  ComparesPairs =>
    /\ Answers(FALSE) = {Suit /\ Len(Pairs(Found)) = Len(Pairs(Expected))}
    /\ ~Suit => Answers(TRUE) = {FALSE}

(* jsmn.h says of jsmn_pattern_matches: "If allow_extras is true, then     *)
(* it's a match if count >= patt_count".  So a document that begins with   *)
(* the keys and values of the pattern, and has more, matches for certain.  *)
ExtrasAllowed == ComparesPairs /\ Suit => Answers(TRUE) = {TRUE}
===============================================================================
