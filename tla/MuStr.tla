--------------------------------- MODULE MuStr ---------------------------------
(***************************************************************************)
(* The string slices of mu_str.c: a mu_str_t points into bytes that        *)
(* belong to somebody else, and no operation copies or changes them.       *)
(* Here bytes is the memory pointed into together with the offset of the   *)
(* pointer in it; a byte is its code.                                      *)
(***************************************************************************)
EXTENDS Integers, Sequences, FiniteSetsExt, SequencesExt

\* Longer than any string: MU_STR_END and MU_STR_NOT_FOUND are one number.
End == 1000
NotFound == End

Digits == 48..57

StrInit(memory, offset, len) == [bytes |-> memory, at |-> offset, len |-> len]

\* The terminating zero belongs to the memory, not to the string.
StrInitCstr(chars) == StrInit(Append(chars, 0), 0, Len(chars))

Copy(src) == StrInit(src.bytes, src.at, src.len)

ByteAt(s, i) == s.bytes[s.at + i + 1]

Contents(s) == SubSeq(s.bytes, s.at + 1, s.at + s.len)

\* The sign is that of the first difference, else of the lengths' difference.
Compare(s1, s2) ==
  LET common == Min({s1.len, s2.len})
      differ == {i \in 0 .. common - 1 : ByteAt(s1, i) # ByteAt(s2, i)}
  IN  IF differ = {} THEN s1.len - s2.len
      ELSE ByteAt(s1, Min(differ)) - ByteAt(s2, Min(differ))

\* An index of slice: a negative one counts from the end and is not limited.
Limited(i, len) == IF i < 0 THEN len + i ELSE Min({i, len})

\* Fault: an end behind the string is taken as it is.
SliceEndUnlimited(src, start, end) ==
  LET from == Limited(start, src.len)
      to == Max({from, IF end < 0 THEN src.len + end ELSE end})
  IN  StrInit(src.bytes, src.at + from, to - from)

Slice(src, start, end) ==
  LET from == Limited(start, src.len)
      to == Max({from, Limited(end, src.len)})
  IN  StrInit(src.bytes, src.at + from, to - from)

-------------------------------------------------------------------------------
(* Searching.                                                              *)

HasPrefix(s1, s2) ==
  /\ s2.len <= s1.len
  /\ \A i \in 0 .. s2.len - 1 : ByteAt(s1, i) = ByteAt(s2, i)

HasSuffix(s1, s2) ==
  /\ s2.len <= s1.len
  /\ \A i \in 1 .. s2.len : ByteAt(s1, s1.len - i) = ByteAt(s2, s2.len - i)

Occurs(needle, haystack, i) ==
  \A j \in 0 .. needle.len - 1 : ByteAt(haystack, i + j) = ByteAt(needle, j)

SkipTo(i, needle, skip) == IF skip THEN i + needle.len ELSE i

(* The values mu_str_find may return.  haystack_len - needle_len is        *)
(* unsigned: for a needle longer than the haystack it is huge and the      *)
(* search goes on in the memory behind, where it finds what happens to be  *)
(* there: End + 1 stands for an index beyond the memory modelled.          *)
Find(haystack, needle, skip) ==
  LET beyond == needle.len > haystack.len
      last == IF beyond THEN Len(haystack.bytes) - haystack.at - needle.len
              ELSE haystack.len - needle.len
      hits == {i \in 0 .. last : Occurs(needle, haystack, i)}
  IN  IF needle.len = 0 THEN {0}
      ELSE IF hits # {} THEN {SkipTo(Min(hits), needle, skip)}
      ELSE IF beyond THEN {NotFound, End + 1}
      ELSE {NotFound}

\* Fault: the scan starts a byte too early in the string.
RFindSkipsLast(haystack, needle, skip) ==
  LET hits == {i \in 0 .. haystack.len - needle.len - 1 : Occurs(needle, haystack, i)}
  IN  IF needle.len = 0 THEN haystack.len
      ELSE IF hits = {} THEN NotFound
      ELSE SkipTo(Max(hits), needle, skip)

\* From the end; here the difference becomes a negative int and ends the loop.
RFind(haystack, needle, skip) ==
  LET hits == {i \in 0 .. haystack.len - needle.len : Occurs(needle, haystack, i)}
  IN  IF needle.len = 0 THEN haystack.len
      ELSE IF hits = {} THEN NotFound
      ELSE SkipTo(Max(hits), needle, skip)

\* A predicate is the set of the bytes it holds for.
Matching(s, predicate, breakIf) ==
  {i \in 0 .. s.len - 1 : (ByteAt(s, i) \in predicate) = breakIf}

Match(s, predicate, breakIf) ==
  LET hits == Matching(s, predicate, breakIf)
  IN  IF hits = {} THEN NotFound ELSE Min(hits)

RMatch(s, predicate, breakIf) ==
  LET hits == Matching(s, predicate, breakIf)
  IN  IF hits = {} THEN NotFound ELSE Max(hits)

-------------------------------------------------------------------------------
(* Trimming.  A string of nothing but bytes to trim is left as it is, and  *)
(* rtrim cuts at the last byte to keep, which goes with the rest.          *)

\* Fault: trims up to the last byte to keep.
LTrimToLast(s, predicate) ==
  LET i == RMatch(s, predicate, FALSE)
  IN  IF i = NotFound THEN s ELSE Slice(s, i, End)

LTrim(s, predicate) ==
  LET i == Match(s, predicate, FALSE)
  IN  IF i = NotFound THEN s ELSE Slice(s, i, End)

RTrim(s, predicate) ==
  LET i == RMatch(s, predicate, FALSE)
  IN  IF i = NotFound THEN s ELSE Slice(s, 0, i)

Trim(s, predicate) == RTrim(LTrim(s, predicate), predicate)

-------------------------------------------------------------------------------
(* Conversions.                                                            *)

\* The buffer's capacity is its length; the answer, and the buffer after it.
ToCstr(s, buf) ==
  IF s.len >= Len(buf) THEN [ok |-> FALSE, buf |-> buf]
  ELSE [ok |-> TRUE,
        buf |-> [i \in 1 .. Len(buf) |->
                   IF i <= s.len THEN ByteAt(s, i - 1)
                   ELSE IF i = s.len + 1 THEN 0 ELSE buf[i]]]

LeadingDigits(s) ==
  LET i == Match(s, Digits, FALSE)
  IN  IF i = NotFound THEN Contents(s) ELSE Contents(Slice(s, 0, i))

\* The parsers of a type of so many bits: they stop at the first other byte.
ParseUint(s, bits) ==
  FoldLeft(LAMBDA v, d : (v * 10 + (d - 48)) % 2^bits, 0, LeadingDigits(s))

Signed(v, bits) ==
  LET word == v % 2^bits IN IF word < 2^(bits - 1) THEN word ELSE word - 2^bits

ParseInt(s, bits) ==
  IF s.len >= 1 /\ ByteAt(s, 0) = 45   \* '-'
  THEN Signed(-ParseUint(Slice(s, 1, End), bits), bits)
  ELSE Signed(ParseUint(s, bits), bits)
================================================================================
