-------------------------------- MODULE HttpUrl --------------------------------
(***************************************************************************)
(* parse_http_params, the user of mu_str that its source gives as an       *)
(* example.  The parameters are filled in on the way, so that a URL that   *)
(* is refused may change them too; the branch that finds a port does not   *)
(* set the host.                                                           *)
(***************************************************************************)
EXTENDS MuStr

CONSTANTS HttpPrefix, HttpsPrefix,  \* "http://" and "https://"
          HostBytes,                \* the bytes is_hostname holds for
          PortBits                  \* 16

\* Fault: the search for the end starts from the back.
SpanFromBack(s, predicate) ==
  LET i == RMatch(s, predicate, FALSE) IN IF i = NotFound THEN s.len ELSE i

\* The length of what s starts with and the predicate holds for.
Span(s, predicate) ==
  LET i == Match(s, predicate, FALSE) IN IF i = NotFound THEN s.len ELSE i

Refused(params) == [params |-> params, ok |-> FALSE]
Accepted(params) == [params |-> params, ok |-> TRUE]

ParseAfter(prefix, params, url) ==
  LET tls == prefix = HttpsPrefix
      rest == Slice(StrInitCstr(url), Len(prefix), End)
      hostLen == Span(rest, HostBytes)
      port == Slice(rest, hostLen + 1, End)
      portLen == Span(port, Digits)
      begun == [params EXCEPT !.tls = tls, !.port = IF tls THEN 443 ELSE 80]
  IN  IF HasPrefix(rest, StrInitCstr(<<45>>)) \/ hostLen = 0   \* '-'
      THEN Refused(begun)
      ELSE IF ByteAt(rest, hostLen) # 58   \* ':'
      THEN Accepted([begun EXCEPT !.host = Contents(Slice(rest, 0, hostLen))])
      ELSE IF portLen = 0
      THEN Refused(begun)
      ELSE Accepted([begun EXCEPT !.port = ParseUint(Slice(port, 0, portLen), PortBits)])

ParseHttpParams(params, url) ==
  LET Starts(prefix) == HasPrefix(StrInitCstr(url), StrInitCstr(prefix))
  IN  IF Starts(HttpPrefix) THEN ParseAfter(HttpPrefix, params, url)
      ELSE IF Starts(HttpsPrefix) THEN ParseAfter(HttpsPrefix, params, url)
      ELSE Refused(params)
================================================================================
