---------------------------- MODULE HttpCookies ----------------------------
(***************************************************************************)
(* The cookie jar of the HTTP client: Set-Cookie headers update it, every  *)
(* request reads it and drops what has expired, and the client's           *)
(* destructor writes it to the file that enableCookies of the next client  *)
(* reads.  Hosts and paths are sequences of labels and segments, so that   *)
(* a domain matches as a suffix and a path as a prefix; the root path is   *)
(* <<>>.                                                                   *)
(***************************************************************************)
EXTENDS Integers, SequencesExt

CONSTANTS Headers,     \* Set-Cookie: [name, value, domain, path, expires, secure]
          Uris,        \* [host, path] of the requests
          FileName,    \* the path given to enableCookies
          MaxTime,     \* bound: the clock
          MaxSets,     \* bound: Set-Cookie headers received
          MaxEnables,  \* bound: calls of enableCookies on one client
          MaxRestarts  \* bound: clients after the first

CookieAssumption == {MaxTime, MaxSets, MaxEnables, MaxRestarts} \subseteq Nat

VARIABLES jar,       \* _cookies
          named,     \* _cookieFileName, as the sequence of the names appended to it
          enabled,   \* calls of enableCookies on this client
          files,     \* file name -> lines
          clock,
          latest,    \* history: (name, domain) -> the last cookie set
          sets, restarts

vars == <<jar, named, enabled, files, clock, latest, sets, restarts>>

Never == MaxTime + 1
Comment == [comment |-> "#"]

Init == /\ jar = <<>> /\ named = <<>> /\ enabled = 0 /\ files = <<>>
        /\ clock = 1 /\ latest = <<>> /\ sets = 0 /\ restarts = 0

\* What is not given is taken from the request; no date means no expiry.
Info(h, uri) == [h EXCEPT !.domain = IF @ = <<>> THEN uri.host ELSE @,
                          !.expires = IF @ <= 0 THEN Never ELSE @]

\* Mutant: the domain does not tell cookies apart.
SameName(a, b) == a.name = b.name

IsSame(a, b) == a.name = b.name /\ a.domain = b.domain

UpdateValue(old, new) == [old EXCEPT !.value = new.value, !.expires = new.expires, !.path = new.path]

UpdateOrAdd(cs, c) ==
  LET same == {i \in DOMAIN cs : IsSame(c, cs[i])}
  IN IF same = {} THEN Append(cs, c)
     ELSE LET i == CHOOSE i \in same : \A j \in same : i <= j
          IN [cs EXCEPT ![i] = UpdateValue(@, c)]

Matches(c, uri) == IsSuffix(c.domain, uri.host) /\ IsPrefix(c.path, uri.path)

\* Mutant: a cookie that expires now is still sent.
Outdated(c) == clock > c.expires

Expired(c) == clock >= c.expires

\* checkAndGetFormatedMatchCookies: what stays, and what is sent.
Stays(uri) == SelectSeq(jar, LAMBDA c : ~(Matches(c, uri) /\ Expired(c)))
Formatted(uri) == SelectSeq(jar, LAMBDA c : Matches(c, uri) /\ ~Expired(c))

-----------------------------------------------------------------------------
Put(f, k, v) == [x \in (DOMAIN f) \cup {k} |-> IF x = k THEN v ELSE f[x]]

UpdateOrAddCookie(h, uri) ==
  LET c == Info(h, uri)
  IN /\ enabled > 0 /\ sets < MaxSets /\ sets' = sets + 1
     /\ jar' = UpdateOrAdd(jar, c)
     /\ latest' = Put(latest, <<c.name, c.domain>>, c)
     /\ UNCHANGED <<named, enabled, files, clock, restarts>>

Check(uri) == /\ enabled > 0 /\ jar' = Stays(uri)
              /\ UNCHANGED <<named, enabled, files, clock, latest, sets, restarts>>

\* writeFile: the comments, and one line per cookie.
Lines(cs) == <<Comment>> \o cs

\* read_text_file: seekg is given a direction where it takes a position, so
\* the text is the first two bytes: the beginning of the first line.
ReadText(f) == IF f \in DOMAIN files THEN <<[cut |-> files[f][1]]>> ELSE <<>>

\* readFile: the lines with all seven fields.
Whole(lines) == SelectSeq(lines, LAMBDA l : "name" \in DOMAIN l)

EnableCookies == /\ enabled < MaxEnables /\ enabled' = enabled + 1
                 /\ named' = Append(named, FileName)
                 /\ jar' = jar \o Whole(ReadText(named'))
                 /\ UNCHANGED <<files, clock, latest, sets, restarts>>

\* The client is deleted, and another one created.
Restart == /\ enabled > 0 /\ restarts < MaxRestarts /\ restarts' = restarts + 1
           /\ files' = Put(files, named, Lines(jar))
           /\ jar' = <<>> /\ named' = <<>> /\ enabled' = 0
           /\ UNCHANGED <<clock, latest, sets>>

Tick == /\ clock < MaxTime /\ clock' = clock + 1
        /\ UNCHANGED <<jar, named, enabled, files, latest, sets, restarts>>

Next == \/ \E h \in Headers, uri \in Uris : UpdateOrAddCookie(h, uri)
        \/ \E uri \in Uris : Check(uri)
        \/ EnableCookies \/ Restart \/ Tick

Spec == Init /\ [][Next]_vars

-----------------------------------------------------------------------------
Valid(uri) == {k \in DOMAIN latest : Matches(latest[k], uri) /\ clock < latest[k].expires}

\* What a request sends for a cookie is the value last set for its name and
\* domain: no cookie twice, none replaced since, and none that has expired.
SendsLatest ==
  \A uri \in Uris :
    /\ \A c \in ToSet(Formatted(uri)) : /\ <<c.name, c.domain>> \in Valid(uri)
                                        /\ c.value = latest[<<c.name, c.domain>>].value
    /\ Len(Formatted(uri)) <= Cardinality(Valid(uri))

\* Within the life of one client no valid cookie is forgotten.
ForgetsNone == restarts = 0 => \A uri \in Uris : Len(Formatted(uri)) >= Cardinality(Valid(uri))

\* A client that enables cookies on the file that another one wrote has its
\* cookies.
SurvivesRestart == [][enabled = 0 /\ enabled' = 1 /\ restarts > 0
                      => ToSet(jar') = {c \in ToSet(jar') \cup
                                        {latest[k] : k \in DOMAIN latest} : clock < c.expires}]_vars

\* The cookie file is the one that was named.
FileIsNamed == enabled > 0 => named = <<FileName>>
=============================================================================
