------------------------------ MODULE HttpText ------------------------------
(***************************************************************************)
(* The texts of the HTTP client: the head of a request as                  *)
(* handleNetworkEvent writes it, the header callbacks of a response, which *)
(* the parser calls with whatever pieces the packets cut the headers into, *)
(* and the URL encoding.  A header is one name with one value.             *)
(***************************************************************************)
EXTENDS Integers, SequencesExt

CONSTANTS Requests,  \* [type, headers, cookies, body]
          Message,   \* the header lines of a response: <<name, value>> of characters
          Chars,     \* characters of the strings that are encoded
          MaxLen     \* bound: length of those strings

TextAssumption == MaxLen \in Nat

VARIABLES req,       \* the request to write
          raw,       \* the string to encode
          line, at,  \* the parser: line of the message, characters of it consumed
          field, value, headers  \* _currentHeader, _currentHeaderValue, _responseHeaders

vars == <<req, raw, line, at, field, value, headers>>

Init == /\ req \in Requests /\ raw = <<>> /\ line = 1 /\ at = 0
        /\ field = <<>> /\ value = <<>> /\ headers = <<>>

-----------------------------------------------------------------------------
(* The head of a request, as pieces and line ends.                         *)

CRLF == "crlf"
Line(x) == <<x, CRLF>>
Unless(has, x) == IF has THEN <<>> ELSE Line(x)
UsePostData(r) == r.type \in {"POST", "PUT"}
Verb(r) == IF r.type \in {"GET", "POST", "PUT", "DELETE"} THEN r.type ELSE "GET"

CustomHeaders(r) == FlattenSeq([i \in DOMAIN r.headers |-> Line(r.headers[i])])
Has(r, h) == \E i \in DOMAIN r.headers : r.headers[i] = h

CookieHeader(r) == IF r.cookies THEN <<"Cookie">> ELSE <<>>

\* Mutant: a request without data has no empty line.
NoEnd(r) == IF UsePostData(r) THEN Unless(Has(r, "Content-Type"), "Content-Type") \o Line("Content-Length") \o <<CRLF>>
            ELSE <<>>

EndOfHead(r) == IF UsePostData(r) THEN Unless(Has(r, "Content-Type"), "Content-Type") \o Line("Content-Length") \o <<CRLF>>
                ELSE <<CRLF>>

RequestHead(r) ==
            Line(Verb(r)) \o Line("Host") \o CustomHeaders(r) \o CookieHeader(r)
            \o Unless(Has(r, "User-Agent"), "User-Agent") \o Unless(Has(r, "Accept"), "Accept")
            \o EndOfHead(r)

\* What a server reads: every piece but the last ends its line, and the empty
\* line is at the end.
WellFormed(h) == /\ Len(h) % 2 = 1 /\ Last(h) = CRLF
                 /\ \A i \in DOMAIN h : (h[i] = CRLF) <=> (i % 2 = 0 \/ i = Len(h))

-----------------------------------------------------------------------------
(* The callbacks of the parser for a response's headers.                   *)

Lower(c) == CASE c = "A" -> "a" [] c = "B" -> "b" [] OTHER -> c
Name(l) == Message[l][1]
Value(l) == Message[l][2]

OnHeaderField(n) == /\ line <= Len(Message) /\ at + n <= Len(Name(line))
                    /\ field' = field \o SubSeq(Name(line), at + 1, at + n) /\ at' = at + n
                    /\ UNCHANGED <<req, raw, line, value, headers>>

\* Mutant: only the first piece of a value is kept.
FirstPiece(v, s) == IF v = <<>> THEN s ELSE v

Appended(v, s) == v \o s

\* on_header_field_complete when the name is over, and on_header_value.
OnHeaderValue(n) ==
  LET from == at - Len(Name(line))
  IN /\ line <= Len(Message) /\ from >= 0 /\ from + n <= Len(Value(line))
     /\ field' = IF from = 0 THEN [i \in DOMAIN field |-> Lower(field[i])] ELSE field
     /\ value' = Appended(value, SubSeq(Value(line), from + 1, from + n)) /\ at' = at + n
     /\ UNCHANGED <<req, raw, line, headers>>

\* on_header_value_complete moves both strings into the map.
OnHeaderValueComplete ==
  /\ line <= Len(Message) /\ at = Len(Name(line)) + Len(Value(line))
  /\ headers' = Append(headers, <<[i \in DOMAIN field |-> Lower(field[i])], value>>)
  /\ field' = <<>> /\ value' = <<>> /\ line' = line + 1 /\ at' = 0
  /\ UNCHANGED <<req, raw>>

-----------------------------------------------------------------------------
(* urlEncode and urlDecode.  Of the characters, "2", "0", "5" and "B" are  *)
(* unreserved, and the hexadecimal codes of the others consist of them.    *)

Hex(c) == CASE c = " " -> <<"2", "0">> [] c = "%" -> <<"2", "5">> [] c = "+" -> <<"2", "B">>
            [] c = "nul" -> <<"0", "0">>
Unreserved == {"2", "0", "5", "B"}
UnHex(p) == CASE p = <<"2", "0">> -> " " [] p = <<"2", "5">> -> "%" [] p = <<"2", "B">> -> "+"
              [] p = <<"0", "0">> -> "nul" [] OTHER -> "other"

UrlEncode(s) == FlattenSeq([i \in DOMAIN s |-> IF s[i] \in Unreserved THEN <<s[i]>> ELSE <<"%">> \o Hex(s[i])])

\* Mutant: a decoded character is decoded again as part of the text.
SkipOne == 1

SkipHex == 2

RECURSIVE UrlDecode(_)
UrlDecode(s) ==
  IF s = <<>> THEN <<>>
  ELSE CASE s[1] = "nul" -> <<>>
         [] s[1] = "%" -> <<UnHex(SubSeq(s, 2, 3))>> \o UrlDecode(SubSeq(s, 2 + SkipHex, Len(s)))
         [] s[1] = "+" -> <<" ">> \o UrlDecode(Tail(s))
         [] OTHER -> <<s[1]>> \o UrlDecode(Tail(s))

Grow == /\ Len(raw) < MaxLen /\ \E c \in Chars : raw' = Append(raw, c)
        /\ UNCHANGED <<req, line, at, field, value, headers>>

Next == \/ \E n \in 1 .. 3 : OnHeaderField(n) \/ OnHeaderValue(n)
        \/ OnHeaderValueComplete \/ Grow
Spec == Init /\ [][Next]_vars

-----------------------------------------------------------------------------
\* The head of a request without cookies is well formed, whichever headers the
\* user gave: every header on a line of its own, then one empty line.
HeadWellFormed == ~req.cookies => WellFormed(RequestHead(req))

\* The same with cookies.
CookieHeadWellFormed == WellFormed(RequestHead(req))

\* However the packets cut the headers, the response has them all, in order,
\* with lower-case names.
HeadersWhole ==
  headers = [i \in 1 .. (line - 1) |-> <<[j \in DOMAIN Name(i) |-> Lower(Name(i)[j])], Value(i)>>]

\* Decoding an encoded string gives the string.
DecodesBack == UrlDecode(UrlEncode(raw)) = raw
=============================================================================
