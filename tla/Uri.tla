-------------------------------- MODULE Uri --------------------------------
(***************************************************************************)
(* Uri::parse and Uri::toString of the HTTP client.  A string is a         *)
(* sequence of characters from a small alphabet in which "w" stands for a  *)
(* letter and a scheme's name is one character; the regular expressions    *)
(* are modelled by where they split the string.                            *)
(***************************************************************************)
EXTENDS Integers, SequencesExt

CONSTANTS Alphabet, Starts, MaxLen

UriAssumption == MaxLen \in Nat /\ Starts \subseteq Seq(STRING)

VARIABLES text,   \* the string that is parsed
          uri     \* what it is parsed to
vars == <<text, uri>>

-----------------------------------------------------------------------------
Numerals == <<"0", "1", "2", "3", "4", "5", "6", "7", "8", "9">>
Digits == [c \in ToSet(Numerals) |-> (CHOOSE i \in 1 .. 10 : Numerals[i] = c) - 1]
SchemeChars == DOMAIN Digits \cup {"w", "http", "https", "abc"}

\* Where the first of some characters is: behind the end when there is none.
First(s, cs) == LET at == {i \in DOMAIN s : s[i] \in cs}
                IN IF at = {} THEN Len(s) + 1 ELSE CHOOSE i \in at : \A j \in at : i <= j
Before(s, i) == SubSeq(s, 1, i - 1)
From(s, i) == SubSeq(s, i, Len(s))

RECURSIVE Atoi(_)
Atoi(s) == IF s = <<>> THEN 0 ELSE (10 * Atoi(Front(s)) + Digits[Last(s)]) % 65536
RECURSIVE Decimal(_)
Decimal(n) == (IF n < 10 THEN <<>> ELSE Decimal(n \div 10))
              \o <<Numerals[1 + (n % 10)]>>

-----------------------------------------------------------------------------
Invalid == [valid |-> FALSE]

\* The scheme, what is before the query, the query and the fragment.
SplitUri(s) ==
  LET colon == First(s, {":"})
      q == First(s, {"?", "#"})
      f == First(s, {"#"})
      ok == /\ colon > 1 /\ colon < q /\ colon <= Len(s) /\ s[1] \notin DOMAIN Digits
            /\ \A i \in 1 .. (colon - 1) : s[i] \in SchemeChars
  IN IF ~ok THEN Invalid
     ELSE [valid |-> TRUE, scheme |-> Before(s, colon), rest |-> SubSeq(s, colon + 1, q - 1),
           query |-> SubSeq(s, q + 1, f - 1), fragment |-> From(s, f + 1)]

\* username and password, host, port.
SplitAuthority(a) ==
  LET at == First(a, {"@"})
      info == IF at > Len(a) THEN <<>> ELSE Before(a, at)
      colon == First(info, {":"})
      hp == IF at > Len(a) THEN a ELSE From(a, at + 1)
      end == IF hp # <<>> /\ hp[1] = "[" THEN First(hp, {"]"}) + 1 ELSE First(hp, {":"})
      port == From(hp, end)
      ok == /\ end <= Len(hp) + 1
            /\ (hp # <<>> /\ hp[1] # "[") => First(hp, {"["}) >= end
            /\ port = <<>> \/ (port[1] = ":" /\ \A i \in 2 .. Len(port) : port[i] \in DOMAIN Digits)
  IN IF ~ok THEN Invalid
     ELSE [valid |-> TRUE, user |-> Before(info, colon), pass |-> From(info, colon + 1),
           host |-> Before(hp, end), port |-> IF port = <<>> THEN 0 ELSE Atoi(Tail(port))]

Authority(a) ==
  (IF a.user # <<>> \/ a.pass # <<>>
   THEN a.user \o (IF a.pass # <<>> THEN <<":">> \o a.pass ELSE <<>>) \o <<"@">> ELSE <<>>)
  \o a.host \o (IF a.port # 0 THEN <<":">> \o Decimal(a.port) ELSE <<>>)

PathEtc(path, u) == path \o (IF u.query # <<>> THEN <<"?">> \o u.query ELSE <<>>)
                         \o (IF u.fragment # <<>> THEN <<"#">> \o u.fragment ELSE <<>>)

HostName(h) == IF h # <<>> /\ h[1] = "[" THEN SubSeq(h, 2, Len(h) - 1) ELSE h

WellKnown(scheme) == CASE scheme = <<"http">> -> 80 [] scheme = <<"https">> -> 443 [] OTHER -> 0

\* Mutants: a custom port is forgotten; the path is left empty.
NoPort(hasScheme, scheme, port) == FALSE
AsGiven(path) == path

CustomPort(hasScheme, scheme, port) == /\ ~hasScheme \/ WellKnown(scheme) # 0
                                       /\ port # WellKnown(scheme)
PathOf(path) == IF path = <<>> THEN <<"/">> ELSE path

DoParse(s, hasScheme) ==
  LET u == SplitUri(s)
      r == u.rest
      slash == Len(r) >= 2 /\ r[1] = "/" /\ r[2] = "/"
      end == 2 + First(From(r, 3), {"/"})
      a == SplitAuthority(IF slash THEN SubSeq(r, 3, end - 1) ELSE <<>>)
      path == PathOf(IF slash THEN From(r, end) ELSE r)
      scheme == IF hasScheme THEN u.scheme ELSE <<>>
      port == IF a.port = 0 THEN WellKnown(scheme) ELSE a.port
  IN IF ~u.valid THEN Invalid
     ELSE IF ~a.valid THEN Invalid
     ELSE [a EXCEPT !.port = port] @@ [u EXCEPT !.scheme = scheme]
          @@ [secure |-> scheme = <<"https">>, hostName |-> HostName(a.host), hasAuthority |-> slash,
              custom |-> CustomPort(hasScheme, scheme, port), authority |-> Authority(a),
              path |-> path, pathEtc |-> PathEtc(path, u)]

HasScheme(s) == \E i \in 1 .. (Len(s) - 2) : SubSeq(s, i, i + 2) = <<":", "/", "/">>

Parse(s) == IF s = <<>> THEN Invalid
            ELSE DoParse(IF HasScheme(s) THEN s ELSE <<"abc", ":", "/", "/">> \o s, HasScheme(s))

UriText(u) ==
  (IF u.hasAuthority
   THEN u.scheme \o <<":", "/", "/">>
        \o (IF u.pass # <<>> THEN u.user \o <<":">> \o u.pass \o <<"@">>
            ELSE IF u.user # <<>> THEN u.user \o <<"@">> ELSE <<>>)
        \o u.host \o (IF u.custom THEN <<":">> \o Decimal(u.port) ELSE <<>>)
   ELSE u.scheme \o <<":">>)
  \o PathEtc(u.path, u)

\* Every string is parsed.
Init == text \in Starts /\ uri = Parse(text)
Next == /\ Len(text) < MaxLen /\ \E c \in Alphabet : text' = Append(text, c)
        /\ uri' = Parse(text')
Spec == Init /\ [][Next]_vars

-----------------------------------------------------------------------------
Same(u, v) == v.valid /\ \A f \in {"scheme", "user", "pass", "host", "port", "path", "query", "fragment"} : u[f] = v[f]

\* The text of a URI parses to the same URI, for every URI.
TextParsesBack == uri.valid => Same(uri, Parse(UriText(uri)))

\* The same for the URIs that HttpClient opens, http and https with a host
\* that has no "@": redirects and cookies compare what they parse.
HttpParsesBack == uri.valid /\ WellKnown(uri.scheme) # 0 /\ First(uri.host, {"@"}) > Len(uri.host)
                  => Same(uri, Parse(UriText(uri)))

\* The target of the request line of a URI with a host begins with "/" and is
\* all that follows the authority in its text.
TargetIsSuffix == uri.valid /\ uri.hasAuthority => /\ IsPrefix(<<"/">>, uri.pathEtc)
                                                   /\ IsSuffix(uri.pathEtc, UriText(uri))

\* A well-known port is not part of the authority.
AuthorityOmitsPort ==
  uri.valid /\ WellKnown(uri.scheme) # 0 /\ uri.port = WellKnown(uri.scheme)
  => First(uri.authority, {":"}) > Len(uri.authority) \/ uri.pass # <<>> \/ uri.hostName # uri.host
=============================================================================
