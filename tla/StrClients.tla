------------------------------- MODULE StrClients -------------------------------
(***************************************************************************)
(* Three clients of mu_str, those its source keeps beside it: one that     *)
(* cuts a string down in place with any of the operations, one that reads  *)
(* a field and the body of a message (test_mu_str_example), and one that   *)
(* parses URLs into the same parameters again and again                    *)
(* (parse_http_params).                                                    *)
(***************************************************************************)
EXTENDS HttpUrl

CONSTANTS Texts, Indices, Blanks,            \* what is cut, where, and trimmed
          Needles,                           \* what is searched for
          Messages, Key, Eol,                \* "Date: " and "\r\n"
          Urls                               \* what is parsed

\* C strings hold no zero, and none is as long as the largest size_t.
ASSUME StringsAssumption ==
  /\ Texts \cup Messages \cup Needles \cup {Key, Eol} \subseteq Seq(1 .. 255)
  /\ \A text \in Texts \cup Messages : Len(text) < End
  /\ Indices \subseteq Int

VARIABLES client,        \* "cuts", "message" or "url"
          step,          \* where it is
          str, value, body,      \* the strings it keeps
          url, params, accepted  \* the URL parsed last, and what came of it

strings == <<str, value, body>>
request == <<url, params, accepted>>
strVars == <<client, step, strings, request>>

Empty == StrInitCstr(<<>>)

StrClientsInit ==
  /\ \/ client = "cuts" /\ \E text \in Texts : str = StrInitCstr(text)
     \/ client = "message" /\ \E text \in Messages : str = StrInitCstr(text)
     \/ client = "url" /\ str = Empty
  /\ step = "start"
  /\ value = Empty /\ body = Empty
  /\ url = <<>> /\ accepted = FALSE
  /\ params = [host |-> <<>>, port |-> 0, tls |-> FALSE]

-------------------------------------------------------------------------------
(* The first client keeps a copy and cuts its string down.  It never       *)
(* starts a slice further from the end than the string is long: that start *)
(* would be a pointer before the bytes.                                    *)

KeepCopy ==
  /\ step = "start" /\ step' = "cutting"
  /\ value' = Copy(str)
  /\ UNCHANGED str

Cut ==
  /\ step = "cutting"
  /\ \E start, end \in Indices :
       /\ start >= -str.len
       /\ str' = Slice(str, start, end)
  /\ UNCHANGED <<step, value>>

TrimIt ==
  /\ step = "cutting"
  /\ str' \in {LTrim(str, Blanks), RTrim(str, Blanks), Trim(str, Blanks)}
  /\ UNCHANGED <<step, value>>

CutStep ==
  /\ client = "cuts"
  /\ KeepCopy \/ Cut \/ TrimIt
  /\ UNCHANGED <<client, body, request>>

-------------------------------------------------------------------------------
(* The second client asserts that what it looks for is found; the          *)
(* assertion only prints, and MU_STR_NOT_FOUND goes on as an index.        *)

FindKey ==
  /\ step = "start" /\ step' = "line"
  /\ \E i \in Find(str, StrInitCstr(Key), TRUE) : value' = Slice(str, i, End)
  /\ UNCHANGED body

\* Fault: the line end is kept.
FindEolKeepsIt ==
  /\ step = "line" /\ step' = "value"
  /\ \E i \in Find(value, StrInitCstr(Eol), TRUE) : value' = Slice(value, 0, i)
  /\ UNCHANGED body

FindEol ==
  /\ step = "line" /\ step' = "value"
  /\ \E i \in Find(value, StrInitCstr(Eol), FALSE) : value' = Slice(value, 0, i)
  /\ UNCHANGED body

FindBody ==
  /\ step = "value" /\ step' = "done"
  /\ \E i \in Find(str, StrInitCstr(Eol \o Eol), TRUE) : body' = Slice(str, i, End)
  /\ UNCHANGED value

MessageStep ==
  /\ client = "message"
  /\ FindKey \/ FindEol \/ FindBody
  /\ UNCHANGED <<client, str, request>>

-------------------------------------------------------------------------------
(* The third client parses one URL after the other into one http_params_t. *)

ParseUrl ==
  /\ client = "url"
  /\ \E text \in Urls :
       LET answer == ParseHttpParams(params, text)
       IN  url' = text /\ params' = answer.params /\ accepted' = answer.ok
  /\ UNCHANGED <<client, step, strings>>

StrClientsNext == CutStep \/ MessageStep \/ ParseUrl

StrClientsSpec == StrClientsInit /\ [][StrClientsNext]_strVars

-------------------------------------------------------------------------------
(* Every string a client holds lies within the memory it was made from,    *)
(* wherever it was cut and trimmed, as long as no cut starts further from  *)
(* the end than the string is long: mu_str_slice clips every other index,  *)
(* and no access is checked later.                                         *)
SlicesInside ==
  \A s \in {str, value, body} :
    s.at >= 0 /\ s.len >= 0 /\ s.at + s.len < Len(s.bytes)

(* Searching from the front, from the back, by prefix, by suffix and by    *)
(* comparison tell one story of the string, and a skipped match is where   *)
(* the match ends (mu_str.h).  A needle longer than the haystack is left   *)
(* out for find: it is looked for behind the string.                       *)
SearchesAgree ==
  \A text \in Needles :
    LET needle == StrInitCstr(text)
        Part(i) == Slice(str, i, i + needle.len)
        i == CHOOSE found \in Find(str, needle, FALSE) : TRUE
        j == RFind(str, needle, FALSE)
    IN  needle.len <= str.len =>
          /\ i = NotFound <=> j = NotFound
          /\ i # NotFound =>
               /\ i <= j
               /\ Compare(Part(i), needle) = 0 /\ Compare(Part(j), needle) = 0
               /\ HasSuffix(Slice(str, 0, RFind(str, needle, TRUE)), needle)
               /\ Find(str, needle, TRUE) = {i + needle.len}
          /\ \A k \in 0 .. str.len :
               HasPrefix(Slice(str, k, End), needle) => i <= k /\ k <= j

(* ltrim takes the blanks a string starts with and nothing else.  Numbers  *)
(* have the value of their digits in the width of their type, and what     *)
(* to_cstr copies is the string again.                                     *)
ConversionsAgree ==
  LET text == Contents(str)
      kept == {i \in 1 .. Len(text) : text[i] \notin Blanks}
      digits == Span(str, Digits)
      Worth(k) == (text[k] - 48) * 10^(digits - k)
      copied == ToCstr(str, <<1, 1, 1>>)
  IN  /\ kept # {} => Contents(LTrim(str, Blanks)) = SubSeq(text, Min(kept), Len(text))
      /\ ParseUint(str, 4) = MapThenSumSet(Worth, 1 .. digits) % 16
      /\ text # <<>> /\ text[1] = 45 =>
           (ParseInt(str, 4) + ParseUint(Slice(str, 1, End), 4)) % 16 = 0
      /\ copied.ok = (Len(text) < 3)
      /\ copied.ok => SubSeq(copied.buf, 1, Len(text) + 1) = Append(text, 0)

(* mu_str.h says of mu_str_rtrim: "Remove bytes from the end of str for    *)
(* which predicate returns true", and of mu_str_trim the same of both      *)
(* ends.  So whatever is trimmed away is blank.                            *)
OnlyBlanksTrimmed ==
  [][LET text == Contents(str)
     IN  TrimIt => \E i \in 1 .. Len(text) + 1, j \in 0 .. Len(text) :
           /\ Contents(str') = SubSeq(text, i, j)
           /\ \A k \in DOMAIN text \ (i .. j) : text[k] \in Blanks]_strVars

(* Of a message, the value is what stands between the first key and the    *)
(* end of that line, or of the message; the body is what follows the first *)
(* empty line.  What is not there is empty, although the searches that     *)
(* miss it return an index.                                                *)
MessageRead ==
  client = "message" /\ step = "done" =>
    LET text == Contents(str)
        At(part, i) == SubSeq(text, i + 1, i + Len(part)) = part
        After(part) == LET is == {i \in 0 .. Len(text) - Len(part) : At(part, i)}
                       IN  IF is = {} THEN Len(text) ELSE Min(is) + Len(part)
        from == After(Key)
        ends == {i \in from .. Len(text) - Len(Eol) : At(Eol, i)} \cup {Len(text)}
    IN  /\ Contents(value) = SubSeq(text, from + 1, Min(ends))
        /\ Contents(body) = SubSeq(text, After(Eol \o Eol) + 1, Len(text))

(* A URL is accepted just when it has a scheme, a host and, after a colon, *)
(* digits; then the scheme and the port told are the URL's, the port in    *)
(* its 16 bits, and so is the host, except after a URL with a port: that   *)
(* host is the one of an earlier call.                                     *)
UrlParsed ==
  LET IsHost(host) == /\ host # <<>> /\ host[1] # 45
                      /\ \A i \in DOMAIN host : host[i] \in HostBytes
      IsPort(digits) == digits # <<>> /\ \A i \in DOMAIN digits : digits[i] \in Digits
      EndsIn(tail, bytes) == tail = <<>> \/ tail[1] \notin bytes
      Scheme(i) == SubSeq(url, 1, i)
      Host(i, j) == SubSeq(url, i + 1, j)
      Rest(j) == SubSeq(url, j + 1, Len(url))
      Plain(i, j) == /\ Scheme(i) \in {HttpPrefix, HttpsPrefix}
                     /\ IsHost(Host(i, j)) /\ EndsIn(Rest(j), HostBytes \cup {58})
      Ported(i, j, k) == /\ Scheme(i) \in {HttpPrefix, HttpsPrefix}
                         /\ IsHost(Host(i, j)) /\ j < Len(url) /\ url[j + 1] = 58
                         /\ IsPort(SubSeq(url, j + 2, k)) /\ EndsIn(Rest(k), Digits)
      Worth(j, k) == MapThenSumSet(LAMBDA n : (url[n] - 48) * 10^(k - n), j + 2 .. k)
      tls(i) == Scheme(i) = HttpsPrefix
      size == Len(url)
  IN  /\ accepted = \E i \in 1 .. size : \E j \in i .. size : \E k \in j .. size :
                      Plain(i, j) \/ Ported(i, j, k)
      /\ \A i \in 1 .. size : \A j \in i .. size : \A k \in j .. size :
           /\ Plain(i, j) => params = [host |-> Host(i, j), tls |-> tls(i),
                                       port |-> IF tls(i) THEN 443 ELSE 80]
           /\ Ported(i, j, k) => /\ params.tls = tls(i)
                                 /\ params.port = Worth(j, k) % 2^PortBits
================================================================================
