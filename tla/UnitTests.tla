------------------------------- MODULE UnitTests -------------------------------
(***************************************************************************)
(* The tests that stand at the end of mu_str.c, mu_log.c, jsmn.c,          *)
(* tstat_model.c and tstat_logic.c, asked of the operators that model      *)
(* these files; TLC evaluates them all before it starts a run.  A test     *)
(* that the program passes and its model fails would be an error of the    *)
(* model.                                                                  *)
(***************************************************************************)
EXTENDS Integers, Sequences

LOCAL INSTANCE FiniteSetsExt   \* Min
LOCAL INSTANCE Functions       \* Range

Upper == " !\"#$%&'()*+,-./0123456789:;<=>?@ABCDEFGHIJKLMNOPQRSTUVWXYZ[\\]^_"   \* codes 32 to 95
Lower == "abcdefghijklmnopqrstuvwxyz{|}~"   \* codes 97 to 126

CodeOf(c) ==
  LET Place(row) == {k \in 1 .. Len(row) : SubSeq(row, k, k) = c}
  IN  CASE c = "\t" -> 9 [] c = "\n" -> 10 [] c = "\f" -> 12 [] c = "\r" -> 13
        [] OTHER -> IF Place(Upper) # {} THEN 31 + Min(Place(Upper)) ELSE 96 + Min(Place(Lower))

Chars(text) == [k \in 1 .. Len(text) |-> CodeOf(SubSeq(text, k, k))]
Bytes(text) == Range(Chars(text))

-------------------------------------------------------------------------------
Url == INSTANCE HttpUrl WITH   \* and, through it, MuStr
  HttpPrefix <- Chars("http://"), HttpsPrefix <- Chars("https://"), PortBits <- 16,
  HostBytes <- Bytes("abcdefghijklmnopqrstuvwxyz0123456789.-")

Str(text) == Url!StrInitCstr(Chars(text))

(* cstr_eq of the tests: strncmp of as many bytes as the string has, so    *)
(* that a string is equal to any that it is the beginning of.              *)
CstrEq(s, text) ==
  LET other == Append(Chars(text), 0)
  IN  \A i \in 0 .. Min({s.len, Len(other)}) - 1 : Url!ByteAt(s, i) = other[i + 1]

CompareTest ==
  /\ Url!Compare(Str("abcd"), Str("abcd")) = 0 /\ Url!Compare(Str(""), Str("")) = 0
  /\ \A t \in {"abcc", "abc", ""} : Url!Compare(Str("abcd"), Str(t)) > 0
  /\ \A t \in {"abce", "abcde"} : Url!Compare(Str("abcd"), Str(t)) < 0
  /\ Url!Compare(Str(""), Str("abcd")) < 0

SliceTest ==
  \A slice \in {<<0, Url!End, "ABCDEFGHIJ">>, <<0, 10, "ABCDEFGHIJ">>, <<1, Url!End, "BCDEFGHIJ">>,
                <<-9, Url!End, "BCDEFGHIJ">>, <<0, 9, "ABCDEFGHI">>, <<0, -1, "ABCDEFGHI">>,
                <<3, 7, "DEFG">>, <<-7, -3, "DEFG">>, <<5, 5, "">>, <<6, 5, "">>,
                <<20, 10, "">>, <<0, -20, "">>} :
    CstrEq(Url!Slice(Str("ABCDEFGHIJ"), slice[1], slice[2]), slice[3])

PrefixTest ==
  \A t \in {"", "ab", "cd", "abcd", "abcde"} :
    /\ Url!HasPrefix(Str("abcd"), Str(t)) <=> t \in {"", "ab", "abcd"}
    /\ Url!HasSuffix(Str("abcd"), Str(t)) <=> t \in {"", "cd", "abcd"}

FindTest ==   \* the needle, where find and rfind find it, where they skip to
  /\ \A c \in {<<"", 0, 0, 10, 10>>, <<"ab", 0, 2, 5, 7>>, <<"cd", 3, 5, 8, 10>>,
               <<"cdX", Url!NotFound, Url!NotFound, Url!NotFound, Url!NotFound>>} :
       /\ Url!Find(Str("abXcdabYcd"), Str(c[1]), FALSE) = {c[2]}
       /\ Url!Find(Str("abXcdabYcd"), Str(c[1]), TRUE) = {c[3]}
       /\ Url!RFind(Str("abXcdabYcd"), Str(c[1]), FALSE) = c[4]
       /\ Url!RFind(Str("abXcdabYcd"), Str(c[1]), TRUE) = c[5]
  /\ Url!Find(Str("A\r\n"), Str("\r\n"), FALSE) = {1}

Numeric == Bytes("0123456789")
Whitespace == Bytes(" \t\r\n\f") \union {11}   \* and \v

MatchTest ==   \* the first and the last byte that is one and that is none
  LET Found(s, bytes) ==
        <<Url!Match(s, bytes, TRUE), Url!Match(s, bytes, FALSE),
          Url!RMatch(s, bytes, TRUE), Url!RMatch(s, bytes, FALSE)>>
      all == Url!StrInitCstr(Chars("0123456789abcDEF \r\n\t") \o <<11>> \o Chars("\f"))
      none == Url!NotFound
  IN  /\ Found(Str("0123"), Numeric) = <<0, none, 3, none>>
      /\ Found(all, Numeric) = <<0, 10, 9, 21>>
      /\ Found(all, Bytes("0123456789abcdefABCDEF")) = <<0, 16, 15, 21>>
      /\ Found(all, Whitespace) = <<16, 0, 21, 15>>
      /\ Found(all, Bytes("x")) = <<none, 0, none, 21>>
      /\ \A bytes \in {{}, 0 .. 255} : Found(Str(""), bytes) = <<none, none, none, none>>

TrimTest ==
  /\ CstrEq(Url!LTrim(Str("  abcde  "), Whitespace), "abcde  ")
  /\ CstrEq(Url!RTrim(Str("  abcde  "), Whitespace), "  abcde")
  /\ CstrEq(Url!Trim(Str("  abcde  "), Whitespace), "abcde")

ToCstrTest ==
  LET buf == <<0, 0, 0, 0, 0>>
  IN  /\ Url!ToCstr(Str("abcd"), buf) = [ok |-> TRUE, buf |-> Append(Chars("abcd"), 0)]
      /\ ~Url!ToCstr(Str("abcde"), buf).ok

StrTests ==
  /\ CompareTest /\ SliceTest /\ PrefixTest /\ FindTest
  /\ MatchTest /\ TrimTest /\ ToCstrTest

\* test_mu_str_example: the date and the body of an answer.
MessageTest ==
  LET html == Str("HTTP/1.1 200 OK\r\nDate: Wed, 26 Oct 2022 17:17:34 GMT\r\n"
                  \o "Content-Type: application/json\r\nContent-Length: 27\r\n"
                  \o "Connection: keep-alive\r\nX-Javatime: 1666804654506\r\n\r\n"
                  \o "{\"code\":200,\"message\":\"ok\"}")
  IN  \E i \in Url!Find(html, Str("Date: "), TRUE), k \in Url!Find(html, Str("\r\n\r\n"), TRUE) :
        LET rest == Url!Slice(html, i, Url!End)
        IN  /\ \E j \in Url!Find(rest, Str("\r\n"), FALSE) :
                 CstrEq(Url!Slice(rest, 0, j), "Wed, 26 Oct 2022 17:17:34 GMT")
            /\ CstrEq(Url!Slice(html, k, Url!End), "{\"code\":200,\"message\":\"ok\"}")

\* test_parse_url; where a port is given, the host is the one of the call before.
UrlTest ==
  LET Params(host, port, tls) == [host |-> Chars(host), port |-> port, tls |-> tls]
      before == Params("example.com", 1, FALSE)
      Parsed(url) == Url!ParseHttpParams(before, Chars(url))
  IN  /\ \A c \in {<<"http://example.com", Params("example.com", 80, FALSE)>>,
                   <<"https://example.com", Params("example.com", 443, TRUE)>>,
                   <<"http://example.com:8080", Params("example.com", 8080, FALSE)>>,
                   <<"https://example.com:8080", Params("example.com", 8080, TRUE)>>,
                   <<"https://example.com/extra", Params("example.com", 443, TRUE)>>,
                   <<"https://example.com:123/extra", Params("example.com", 123, TRUE)>>,
                   <<"https://example.com/", Params("example.com", 443, TRUE)>>,
                   <<"https://192.168.12.34/", Params("192.168.12.34", 443, TRUE)>>} :
           Parsed(c[1]) = [ok |-> TRUE, params |-> c[2]]
      /\ \A url \in {"", "http", "http:", "http:/", "http://", "http://:", "http://:123",
                     "http://example.com:", "http://example.com:abc", "ftp://example.com:123"} :
           ~Parsed(url).ok

-------------------------------------------------------------------------------
PrintedAt ==   \* test_mu_log: what is printed at each reporting level
  LET fatal == {"FATAL"}
      error == fatal \union {"ERROR"}
      warn == error \union {"WARN"}
      info == warn \union {"INFO"}
      debug == info \union {"DEBUG"}
  IN  <<debug \union {"TRACE"}, debug, info, warn, error, fatal>>

Logger == INSTANCE MuLog WITH level <- 0, logging <- TRUE, lines <- <<>>

LogTest ==
  \A reporting \in 0 .. 5, l \in 0 .. 5, on \in BOOLEAN :
    LET printed == on /\ Logger!LevelName(l) \in PrintedAt[reporting + 1]
    IN  /\ Logger!Given(reporting, on, l, "line") = IF printed THEN <<"line">> ELSE <<>>
        /\ Logger!Reports(reporting, l) <=> Logger!LevelName(l) \in PrintedAt[reporting + 1]

-------------------------------------------------------------------------------
Thermostat == INSTANCE TstatModel WITH
  Temperatures <- {0, 1980, 2000, 2020}, MaxTokens <- 13, Messages <- {}, Spellings <- {},
  model <- 0, remote <- 0, round <- 0, touched <- FALSE

Model(relay_y, relay_w, system_mode) ==
  [ambient |-> 2000, cool_setpoint |-> 1980, heat_setpoint |-> 2020,
   relay_y |-> relay_y, relay_w |-> relay_w, system_mode |-> system_mode]

\* The JSON form, spelt right.
Text(m) == Thermostat!WrittenModel(m, Thermostat!String({m.system_mode}))

LogicTest ==   \* main of tstat_logic.c, with the output it quotes
  LET off == Thermostat!Load(Thermostat!Zeroed, Text(Model(TRUE, TRUE, Thermostat!OFF)))
      none == Thermostat!Decided(off.model)
      cool == Thermostat!Decided([none EXCEPT !.system_mode = Thermostat!COOL])
      heat == Thermostat!Decided([cool EXCEPT !.system_mode = Thermostat!HEAT])
  IN  /\ off = [ok |-> TRUE, model |-> Model(TRUE, TRUE, Thermostat!OFF)]
      /\ none = Model(FALSE, FALSE, Thermostat!OFF)
      /\ cool = Model(TRUE, FALSE, Thermostat!COOL)
      /\ heat = Model(FALSE, TRUE, Thermostat!HEAT)
      /\ Thermostat!Dump(heat) = Thermostat!WrittenModel(heat, Thermostat!String({}))

ModelTest ==   \* main of tstat_model.c
  LET loaded == Thermostat!Load(Thermostat!Zeroed, Text(Model(TRUE, FALSE, Thermostat!COOL)))
      edit == <<Thermostat!Object, Thermostat!Key("relay_y"), Thermostat!Bool(FALSE),
                Thermostat!Key("system_mode"), Thermostat!String({Thermostat!OFF})>>
  IN  /\ Thermostat!Dump(loaded.model) = Text(Model(TRUE, FALSE, Thermostat!COOL))
      /\ Thermostat!Load(loaded.model, edit).model = Model(FALSE, FALSE, Thermostat!OFF)

-------------------------------------------------------------------------------
Json == INSTANCE Jsmn WITH
  NumTokens <- 100, Unprintable <- {}, json <- <<>>, pos <- 1, tokens <- <<>>,
  toksuper <- 0, result <- 0

\* An object, parsed; each of its strings and primitives is as one character.
Parsed(items) ==
  Json!Parsed([k \in DOMAIN items |-> items[k][2]],
    <<Json!JsonToken("object", 1, Len(items) + 1)>>
      \o [k \in DOMAIN items |-> Json!JsonToken(items[k][1], k, k + 1)])

S(chars) == <<"string", chars>>
P(chars) == <<"primitive", chars>>

COMMAND == Parsed(<<S("id"), P("?"), S("target"), P("?"), S("command"), P("?")>>)
GET_REGISTER == Parsed(<<S("action"), S("get"), S("register"), P("?")>>)
SET_REGISTER == Parsed(<<S("action"), S("set"), S("register"), P("?"), S("value"), P("?")>>)
INSTALL == Parsed(<<S("action"), S("install"), S("url"), P("?"), S("checksum"), P("?")>>)
REBOOT == Parsed(<<S("action"), S("reboot")>>)

\* test_matchers, but for the match with extra items: see ExtrasAllowed in JsonText.
MatchersTest ==
  LET command == <<S("id"), P("4134951269897337134"), S("target"), S("F8:F0:05:9B:C5:4B"),
                   S("command"), S("Arbitrary String")>>
      Set(value) == <<S("action"), S("set"), S("register"), S("1"), S("value"), value>>
      Matches(items, patt, extras) == Json!PatternMatches(Parsed(items), patt, extras)
  IN  /\ Matches(command, COMMAND, FALSE) = {TRUE}
      /\ Matches(Append(command, P("123")), COMMAND, FALSE) = {FALSE}
      /\ Matches([command EXCEPT ![3] = S("tArGeT")], COMMAND, TRUE) = {FALSE}
      /\ Matches(<<S("action"), S("get"), S("register"), S("1")>>, GET_REGISTER, FALSE) = {TRUE}
      /\ \A value \in {P("123"), P("true")} : Matches(Set(value), SET_REGISTER, FALSE) = {TRUE}
      /\ Matches(<<S("action"), S("install"), S("url"), S("https://someurl"), S("checksum"),
                   S("6a02d9b1")>>, INSTALL, FALSE) = {TRUE}
      /\ Matches(<<S("action"), S("reboot")>>, REBOOT, FALSE) = {TRUE}

-------------------------------------------------------------------------------
ASSUME TestsPass ==
  StrTests /\ MessageTest /\ UrlTest /\ LogTest /\ LogicTest /\ ModelTest /\ MatchersTest
================================================================================
