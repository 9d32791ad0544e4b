------------------------------ MODULE Endpoint -------------------------------
(***************************************************************************)
(* yasio/xxsocket.hpp, ip::endpoint: a union of sockaddr_in and            *)
(* sockaddr_in6 and a length.  The fields of the two overlap: w1 is        *)
(* sin_addr and sin6_flowinfo, a6 is sin6_addr (and the padding of         *)
(* sockaddr_in).  A constructor leaves what it does not set indeterminate. *)
(***************************************************************************)
EXTENDS Integers, Sequences, FiniteSets

CONSTANTS Addr4,    \* IPv4 addresses, as the numbers of s_addr
          Addr6,    \* IPv6 addresses, numbers of their own
          Local,    \* the addresses of either kind that are loopback or link-local
          Ports,    \* port numbers as a text or a caller may give them
          Zones,    \* sin6_scope_id; 0 for none
          Junk,     \* what indeterminate bytes may read as
          PortMod,  \* 2^16
          SetsAf    \* whether callers use af(int) too

EndpointAssumption == PortMod \in Nat \ {0} /\ 0 \in Zones /\ SetsAf \in BOOLEAN

AF_UNSPEC == 0
AF_INET == 2
AF_INET6 == 10
Objects == {1, 2}

VARIABLES e,     \* the two endpoints, as memory
          want   \* what their users last asked them to be
vars == <<e, want>>

Raw == [fam : {AF_UNSPEC, AF_INET, AF_INET6}, port : 0..(PortMod - 1), w1 : Addr4 \cup Junk,
        a6 : Addr6 \cup Junk, scope : Zones \cup Junk, len : {0, 16, 28}]

Unspec == [fam |-> AF_UNSPEC, ip |-> 0, port |-> 0]
Wants(f, ip, port) == [fam |-> f, ip |-> ip, port |-> port]

as_unspec(m) == [m EXCEPT !.fam = AF_UNSPEC, !.len = 0]

\* endpoint(): the rest of the object is whatever was there.
Fresh(m) == m \in [fam : {AF_UNSPEC}, port : {0}, w1 : Junk, a6 : Junk, scope : Junk, len : {0}]
Init == /\ e \in [Objects -> {m \in Raw : Fresh(m)}]
        /\ want = [o \in Objects |-> Unspec]

as_in4(m, ip, port) ==
  IF ip \in Addr4 THEN [m EXCEPT !.fam = AF_INET, !.port = port, !.w1 = ip, !.len = 16]
  ELSE as_unspec(m)

as_in6(m, ip, port, scope) ==
  IF ip \in Addr6
  THEN [m EXCEPT !.fam = AF_INET6, !.port = port, !.a6 = ip, !.scope = scope, !.len = 28]
  ELSE as_unspec(m)

\* as_in(family, bytes, port) sets neither the scope nor the flow.
as_in(m, fam, ip, port) ==
  IF fam = AF_INET THEN [m EXCEPT !.fam = fam, !.port = port, !.w1 = ip, !.len = 16]
  ELSE IF fam = AF_INET6 THEN [m EXCEPT !.fam = fam, !.port = port, !.a6 = ip, !.len = 28]
  ELSE as_unspec([m EXCEPT !.port = port])

\* The form that leaves the family alone.
AddrKeepsFamily(m, ip) == [m EXCEPT !.w1 = ip, !.len = 16]

addr_v4(m, ip) == [m EXCEPT !.fam = AF_INET, !.w1 = ip, !.len = 16]
as_in_v4(m, ip, port) == [addr_v4(m, ip) EXCEPT !.port = port]

\* The form that forgets the length.
IpKeepsLen(m, ip) ==
  IF ip \in Addr6 THEN [m EXCEPT !.fam = AF_INET6, !.a6 = ip]
  ELSE [m EXCEPT !.fam = AF_INET, !.w1 = ip]

\* ip(const char*)
set_ip(m, ip) ==
  IF ip \in Addr6 THEN [m EXCEPT !.fam = AF_INET6, !.a6 = ip, !.len = 28]
  ELSE [m EXCEPT !.fam = AF_INET, !.w1 = ip, !.len = 16]

(***************************************************************************)
(* Texts: an address, perhaps in brackets, perhaps with %zone, perhaps     *)
(* with :port.                                                             *)
(***************************************************************************)
Texts == [brackets : BOOLEAN, ip : Addr4 \cup Addr6, zone : Zones, colon : BOOLEAN, port : Ports]

\* static_cast<u_short>(atoi(...))
to_port(p) == p % PortMod

\* parse_in6_zone: in "[ip%zone]:port" if_nametoindex is given all that follows
\* the %, which is no interface; alone, "ip%zone" has its zone.
parse_in6_zone(zone, bracketed) == IF bracketed THEN 0 ELSE zone

\* as_is(const char*).  An IPv6 address without brackets is cut at its first
\* colon and is no IPv4 address.
as_is_text(m, t) ==
  IF t.brackets
  THEN IF t.colon THEN as_in6(m, t.ip, to_port(t.port), parse_in6_zone(t.zone, TRUE)) ELSE as_unspec(m)
  ELSE IF t.ip \in Addr4 /\ t.colon THEN as_in4(m, t.ip, to_port(t.port)) ELSE as_unspec(m)

\* as_in(const char*, port)
as_in_text(m, ip, zone, port) ==
  IF ip \in Addr6 THEN as_in6(m, ip, port, parse_in6_zone(zone, FALSE)) ELSE as_in4(m, ip, port)

ip_of(m) == IF m.fam = AF_INET THEN m.w1 ELSE IF m.fam = AF_INET6 THEN m.a6 ELSE 0
is_global(m) == m.fam # AF_UNSPEC /\ ip_of(m) \notin Local

\* The form that shows the port of an IPv4 endpoint only.
FormatNoPort6(m, no_local, no_port, no_port_0) ==
  IF (no_local /\ ~is_global(m)) \/ m.fam = AF_UNSPEC THEN <<>>
  ELSE <<[brackets |-> m.fam = AF_INET6, ip |-> ip_of(m), zone |-> 0,
          colon |-> m.fam = AF_INET /\ ~no_port /\ (~no_port_0 \/ m.port # 0), port |-> m.port]>>

\* format_to: nothing, or a text; the scope is not shown.
format_to(m, no_local, no_port, no_port_0) ==
  IF (no_local /\ ~is_global(m)) \/ m.fam = AF_UNSPEC THEN <<>>
  ELSE <<[brackets |-> m.fam = AF_INET6, ip |-> ip_of(m), zone |-> 0,
          colon |-> ~no_port /\ (~no_port_0 \/ m.port # 0), port |-> m.port]>>

(***************************************************************************)
(* operator<: IPv4 by the sum of address and port, anything else by        *)
(* memcmp.                                                                 *)
(***************************************************************************)
Bytes(m) == <<m.fam, m.port, m.w1, m.a6, m.scope, m.len>>
MemLess(a, b) == \E i \in 1..6 : a[i] < b[i] /\ \A j \in 1..(i - 1) : a[j] = b[j]
\* The form that compares with <=.
LooseLess(x, y) ==
  IF x.fam = AF_INET THEN x.w1 + x.port <= y.w1 + y.port ELSE MemLess(Bytes(x), Bytes(y))
less(x, y) ==
  IF x.fam = AF_INET THEN x.w1 + x.port < y.w1 + y.port ELSE MemLess(Bytes(x), Bytes(y))
equal(x, y) == ~less(x, y) /\ ~less(y, x)

(***************************************************************************)
(* The operations.                                                         *)
(***************************************************************************)
Sets(o, m, w) == e' = [e EXCEPT ![o] = m] /\ want' = [want EXCEPT ![o] = w]
Short == {p \in Ports : p < PortMod}

FromText(o) ==
  \E t \in Texts :
    LET m == as_is_text(e[o], t)
    IN  Sets(o, m, IF m.fam = AF_UNSPEC THEN Unspec ELSE Wants(m.fam, t.ip, t.port % PortMod))

FromIp(o) ==
  \E ip \in Addr4 \cup Addr6, z \in Zones, p \in Short :
    Sets(o, as_in_text(e[o], ip, z, p),
         Wants(IF ip \in Addr4 THEN AF_INET ELSE AF_INET6, ip, p))

FromFamily(o) ==
  \E p \in Short :
    \/ \E ip \in Addr4 : Sets(o, as_in(e[o], AF_INET, ip, p), Wants(AF_INET, ip, p))
    \/ \E ip \in Addr6 : Sets(o, as_in(e[o], AF_INET6, ip, p), Wants(AF_INET6, ip, p))
    \/ Sets(o, as_in(e[o], AF_UNSPEC, 0, p), Unspec)

FromV4(o) == \E ip \in Addr4, p \in Short : Sets(o, as_in_v4(e[o], ip, p), Wants(AF_INET, ip, p))

\* as_is(const sockaddr*): memcpy of a whole sockaddr, padding and flow included.
FromSockaddr(o) ==
  \E p \in Short :
    \/ \E ip \in Addr4, j \in Junk :
         Sets(o, [as_in4(e[o], ip, p) EXCEPT !.a6 = j], Wants(AF_INET, ip, p))
    \/ \E ip \in Addr6, z \in Zones, f \in Junk :
         Sets(o, [as_in6(e[o], ip, p, z) EXCEPT !.w1 = f], Wants(AF_INET6, ip, p))
    \/ Sets(o, as_unspec(e[o]), Unspec)

Copies(o) == \E x \in Objects \ {o} : Sets(o, e[x], want[x])

SetsIp(o) ==
  \E ip \in Addr4 \cup Addr6 :
    /\ want[o].fam # AF_UNSPEC
    /\ Sets(o, set_ip(e[o], ip),
            [want[o] EXCEPT !.fam = IF ip \in Addr4 THEN AF_INET ELSE AF_INET6, !.ip = ip])

SetsPort(o) ==
  \E p \in Short : want[o].fam # AF_UNSPEC
                   /\ Sets(o, [e[o] EXCEPT !.port = p], [want[o] EXCEPT !.port = p])

SetsScope(o) ==
  \E z \in Zones : e[o].fam = AF_INET6 /\ Sets(o, [e[o] EXCEPT !.scope = z], want[o])

\* af(int): nothing but the family.
SetsFamily(o) ==
  \E f \in {AF_INET, AF_INET6} :
    /\ SetsAf /\ want[o].fam = AF_UNSPEC
    /\ e' = [e EXCEPT ![o].fam = f]
    /\ UNCHANGED want

Next == \E o \in Objects :
  \/ FromText(o) \/ FromIp(o) \/ FromFamily(o) \/ FromV4(o) \/ FromSockaddr(o) \/ Copies(o)
  \/ SetsIp(o) \/ SetsPort(o) \/ SetsScope(o) \/ SetsFamily(o)
Spec == Init /\ [][Next]_vars

(***************************************************************************)
(* Properties.                                                             *)
(***************************************************************************)
\* Whatever sequence of setters made it, an endpoint reads back the family,
\* address and port its user last gave it, whatever the union held before.
ReadsBack ==
  \A o \in Objects :
    /\ e[o].fam = want[o].fam
    /\ want[o].fam # AF_UNSPEC => ip_of(e[o]) = want[o].ip /\ e[o].port = want[o].port

\* len() is the size of the sockaddr of the family: it is what bind, connect
\* and sendto are given.
LenFits ==
  \A o \in Objects :
    e[o].len = CASE e[o].fam = AF_INET -> 16 [] e[o].fam = AF_INET6 -> 28 [] OTHER -> 0

\* A formatted endpoint with a port in it is parsed to the same endpoint.
TextRoundTrip ==
  \A o \in Objects, no_local \in BOOLEAN :
    LET s == format_to(e[o], no_local, FALSE, FALSE)
    IN  s # <<>> => LET m == as_is_text(e[o], s[1])
                    IN  m.fam = e[o].fam /\ ip_of(m) = ip_of(e[o]) /\ m.port = e[o].port

In4 == {x \in {e[o] : o \in Objects} : x.fam = AF_INET}

\* Among IPv4 endpoints operator< is irreflexive and asymmetric, and equal
\* ones are equal: what std::map needs of the keys of transport_map_.
Orders4 ==
  \A x, y \in In4 :
    /\ ~(less(x, y) /\ less(y, x))
    /\ (x.w1 = y.w1 /\ x.port = y.port) => equal(x, y)

Same(x, y) == x.fam = y.fam /\ ip_of(x) = ip_of(y) /\ x.port = y.port

\* Endpoints that compare equal are the same address and port.
EqualIsSame == (e[1].fam = AF_INET /\ equal(e[1], e[2])) => Same(e[1], e[2])

\* Endpoints made of the same address, port and scope compare equal.
SameIsEqual == (Same(e[1], e[2]) /\ e[1].scope = e[2].scope /\ e[1].fam # AF_UNSPEC) => equal(e[1], e[2])

\* Of two endpoints at most one is less than the other.
OneIsLess == ~(less(e[1], e[2]) /\ less(e[2], e[1]))
=============================================================================
