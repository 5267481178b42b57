---------------------------------- MODULE Jems ----------------------------------
(***************************************************************************)
(* The JSON writer (jems.c).  Each call writes an item, or a bracket, and  *)
(* in front of it the separator that is due; for that jems keeps, for each *)
(* level that is open, how many items it has and whether it is an object.  *)
(*                                                                         *)
(* A call is an operator that takes the writer and gives what it becomes.  *)
(* Of bytes it matters which ones have a meaning in JSON: any other that   *)
(* can be printed is an ordinary character, and Control stands for those   *)
(* that cannot.  A number, a truth value or null is a primitive: a run of  *)
(* ordinary characters.                                                    *)
(***************************************************************************)
EXTENDS Integers, Sequences

CONSTANT MaxLevels   \* jems->max_level, the length of the array of levels

ASSUME MaxLevelsAssumption == MaxLevels \in Nat \ {0}

Quote == "\""
Backslash == "\\"
Control == "control"
HexDigit == "0"

Level(isObject) == [count |-> 0, isObject |-> isObject]

\* jems_init and jems_reset; text is all that the writer function was given.
JemsReset == [levels |-> <<Level(FALSE)>>, text |-> <<>>]

Emit(w, chars) == [w EXCEPT !.text = @ \o chars]

CurrLevel(w) == Len(w.levels)
LevelRef(w) == w.levels[CurrLevel(w)]

Separator(level) ==
  IF level.count = 0 THEN <<>>
  ELSE IF level.isObject /\ level.count % 2 = 1 THEN <<":">> ELSE <<",">>

Commify(w) ==
  [Emit(w, Separator(LevelRef(w))) EXCEPT !.levels[CurrLevel(w)].count = @ + 1]

PushLevel(w, isObject) ==   \* nothing, if no level is left
  IF CurrLevel(w) < MaxLevels THEN [w EXCEPT !.levels = Append(@, Level(isObject))] ELSE w

\* Fault: the level of what is closed stays.
PopLevelKept(w) == w

PopLevel(w) ==
  IF CurrLevel(w) > 1 THEN [w EXCEPT !.levels = SubSeq(@, 1, Len(@) - 1)] ELSE w

ObjectOpen(w) == PushLevel(Emit(Commify(w), <<"{">>), TRUE)
ObjectClose(w) == PopLevel(Emit(w, <<"}">>))
ArrayOpen(w) == PushLevel(Emit(Commify(w), <<"[">>), FALSE)
ArrayClose(w) == PopLevel(Emit(w, <<"]">>))

\* jems_number, jems_integer, jems_bool, jems_true, jems_false, jems_null
Primitive(w, chars) == Emit(Commify(w), chars)

\* Fault: a quote in a string is not escaped.
QuotedByteBare(b) ==
  CASE b = Backslash -> <<Backslash, b>>
    [] b = Control -> <<Backslash, "u", HexDigit, HexDigit, HexDigit, HexDigit>>
    [] OTHER -> <<b>>

QuotedByte(b) ==
  CASE b \in {Quote, Backslash} -> <<Backslash, b>>
    [] b = Control -> <<Backslash, "u", HexDigit, HexDigit, HexDigit, HexDigit>>
    [] OTHER -> <<b>>

QuotedBytes(bytes) ==
  LET quoted[k \in 0 .. Len(bytes)] ==
        IF k = 0 THEN <<>> ELSE quoted[k - 1] \o QuotedByte(bytes[k])
  IN  quoted[Len(bytes)]

\* jems_string and jems_bytes
JemsString(w, bytes) == Emit(Commify(w), <<Quote>> \o QuotedBytes(bytes) \o <<Quote>>)
===============================================================================
