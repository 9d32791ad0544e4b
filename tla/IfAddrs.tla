------------------------------- MODULE IfAddrs -------------------------------
(***************************************************************************)
(* yasio/impl/ifaddrs.hpp: getifaddrs over netlink, for an Android that    *)
(* has none, and xxsocket::traverse_local_address and getipsv, which use   *)
(* it.  Heap blocks are numbered; 0 is the null pointer.                   *)
(***************************************************************************)
EXTENDS Integers, Sequences, FiniteSets

CONSTANTS Machines,  \* [links, addrs]: what the kernel reports, in its order
          MayOom,    \* whether an allocation may fail
          Blocks     \* the size of the heap

IfAddrsAssumption == Blocks \in Nat /\ MayOom \in BOOLEAN

Nowhere == [k |-> "free"]
NoIfa == [ifa |-> 0, name |-> 0, flags |-> 0, addr |-> 0, mask |-> 0, broad |-> 0]

VARIABLES machine,
          mem,      \* the heap
          dfree,    \* a block was freed twice
          session,  \* the netlink socket is open
          pc, dump, \* where getifaddrs is; the dump it reads, RTM_GETLINK first
          queue,    \* the messages of the dump still to be read
          msg, at,  \* the message in hand and its next attribute
          ifa, sa,  \* the entry being made; get_link_info's sa
          list,     \* ifaddrs_head
          ret,      \* what getifaddrs returned; 1 before
          ipsv      \* what getipsv has found so far
vars == <<machine, mem, dfree, session, pc, dump, queue, msg, at, ifa, sa, list, ret, ipsv>>

NoMsg == [t |-> "none", attrs |-> <<>>]
Init == /\ machine \in Machines
        /\ mem = [b \in 1..Blocks |-> Nowhere]
        /\ dfree = FALSE /\ session = FALSE
        /\ pc = "open" /\ dump = "links" /\ queue = <<>>
        /\ msg = NoMsg /\ at = 1
        /\ ifa = NoIfa /\ sa = 0 /\ list = <<>> /\ ret = 1 /\ ipsv = {}

(***************************************************************************)
(* The heap.                                                               *)
(***************************************************************************)
Live == {b \in 1..Blocks : mem[b] # Nowhere}
New(k) == CHOOSE b \in 1..Blocks : b \notin Live /\ Cardinality(1..(b - 1) \ Live) = k
Freed(ps) == [b \in 1..Blocks |-> IF b \in ps THEN Nowhere ELSE mem[b]]
FreedTwice(ps) == \E p \in ps \ {0} : mem[p] = Nowhere
Pointers(x) == {x.ifa, x.name, x.addr, x.mask, x.broad} \ {0}

\* The form that forgets the mask.
FreesNoMask(x) == Pointers([x EXCEPT !.mask = 0])
free_single_ifaddrs(x) == Pointers(x)

(***************************************************************************)
(* The session.                                                            *)
(***************************************************************************)
\* The return of getifaddrs: on an error the list is freed; the socket is
\* closed either way.
AllPointers(xs) == UNION {free_single_ifaddrs(xs[i]) : i \in 1..Len(xs)}
Returns(r, gone, entry) ==
  LET ps == gone \cup entry \cup (IF r = 0 THEN {} ELSE AllPointers(list))
  IN  /\ mem' = Freed(ps)
      /\ dfree' = (dfree \/ FreedTwice(ps) \/ gone \cap entry # {})
      /\ list' = IF r = 0 THEN list ELSE <<>>
      /\ session' = FALSE
      /\ ret' = r
      /\ pc' = "returned"

\* socket and bind; either may fail.
open_netlink_session ==
  /\ pc = "open"
  /\ \/ pc' = "send" /\ session' = TRUE /\ UNCHANGED <<mem, dfree, list, ret>>
     \/ Returns(-1, {}, {})
  /\ UNCHANGED <<machine, dump, queue, msg, at, ifa, sa, ipsv>>

send_netlink_dump_request ==
  /\ pc = "send"
  /\ \/ /\ queue' = Append(IF dump = "links" THEN machine.links ELSE machine.addrs, [t |-> "done"])
        /\ pc' = "recv"
        /\ UNCHANGED <<mem, dfree, session, list, ret>>
     \/ queue' = queue /\ Returns(-1, {}, {})
  /\ UNCHANGED <<machine, dump, msg, at, ifa, sa, ipsv>>

\* A link without a hardware address has no ifa_addr and is not found.
find_interface_by_index(i) ==
  {n \in 1..Len(list) : /\ list[n].addr # 0
                        /\ mem[list[n].addr].k = "ll"
                        /\ mem[list[n].addr].v = i}

\* The flags of an address are those of its link.
get_interface_flags_by_index(i) ==
  LET link == find_interface_by_index(i)
  IN  IF link = {} THEN 0 ELSE list[CHOOSE n \in link : TRUE].flags
FlagsOf(m) == IF m.t = "link" THEN m.flags ELSE get_interface_flags_by_index(m.index)

(***************************************************************************)
(* parse_netlink_reply: one message after another.  recvmsg may fail       *)
(* before any of them.  Each entry begins with a calloc.                   *)
(***************************************************************************)
parse_netlink_reply ==
  /\ pc = "recv"
  /\ \/ Returns(-1, {}, {}) /\ UNCHANGED <<dump, queue, msg, at, ifa, sa>>
     \/ /\ Head(queue).t = "done"
        /\ IF dump = "links"
           THEN pc' = "send" /\ dump' = "addrs" /\ UNCHANGED <<mem, dfree, session, list, ret>>
           ELSE Returns(0, {}, {}) /\ dump' = dump
        /\ UNCHANGED <<queue, msg, at, ifa, sa>>
     \/ /\ Head(queue).t # "done"
        /\ queue' = Tail(queue) /\ msg' = Head(queue) /\ at' = 1 /\ sa' = 0
        /\ UNCHANGED dump
        /\ \/ /\ pc' = "attr"
              /\ mem' = [mem EXCEPT ![New(0)] = [k |-> "ifa"]]
              /\ ifa' = [NoIfa EXCEPT !.ifa = New(0), !.flags = FlagsOf(msg')]
              /\ UNCHANGED <<dfree, session, list, ret>>
           \/ MayOom /\ ifa' = NoIfa /\ Returns(-1, {}, {})
  /\ UNCHANGED <<machine, ipsv>>

More == pc = "attr" /\ at <= Len(msg.attrs)
Attr == msg.attrs[at]
Fill(v, field) == /\ mem' = [mem EXCEPT ![New(0)] = v]
                  /\ ifa' = [ifa EXCEPT ![field] = New(0)]
Reads == at' = at + 1 /\ UNCHANGED <<machine, session, pc, dump, queue, msg, list, ret, ipsv>>

\* goto error in get_link_info and get_link_address.
Fails(gone) == /\ Returns(-1, gone, free_single_ifaddrs(ifa))
               /\ UNCHANGED <<machine, dump, queue, msg, at, ifa, sa, ipsv>>

\* IFLA_IFNAME; if strdup fails sa is freed, and again with the entry if it
\* was put there.
LinkName ==
  /\ More /\ msg.t = "link" /\ Attr.k = "name"
  /\ \/ Fill([k |-> "name", v |-> msg.index], "name") /\ Reads /\ UNCHANGED <<sa, dfree>>
     \/ /\ MayOom /\ Fails({sa} \ {0})

\* The form that leaves sa as it was when it fails.
FillKeepsSa(field) ==
  \/ /\ Fill([k |-> "ll", v |-> msg.index], field)
     /\ sa' = New(0)
     /\ Reads /\ UNCHANGED dfree
  \/ MayOom /\ Fails({sa} \ {0})

\* IFLA_ADDRESS, IFLA_BROADCAST: fill_ll_address; if it fails sa is null.
fill_ll_address(field) ==
  \/ /\ Fill([k |-> "ll", v |-> msg.index], field)
     /\ sa' = New(0)
     /\ Reads /\ UNCHANGED dfree
  \/ MayOom /\ Fails({})

LinkAddress ==
  /\ More /\ msg.t = "link" /\ Attr.k \in {"address", "broadcast"}
  /\ fill_ll_address(IF Attr.k = "address" THEN "addr" ELSE "broad")

\* append_ifaddr
append_ifaddr(x) == Append(list, x)

get_link_info ==
  /\ pc = "attr" /\ msg.t = "link" /\ at > Len(msg.attrs)
  /\ list' = append_ifaddr(ifa)
  /\ pc' = "recv" /\ ifa' = NoIfa /\ sa' = 0 /\ msg' = NoMsg /\ at' = 1
  /\ UNCHANGED <<machine, mem, dfree, session, dump, queue, ret, ipsv>>

(***************************************************************************)
(* get_link_address                                                        *)
(***************************************************************************)
AddrLabel ==
  /\ More /\ msg.t = "addr" /\ Attr.k = "label"
  /\ \/ Fill([k |-> "name", v |-> msg.index], "name") /\ Reads /\ UNCHANGED <<sa, dfree>>
     \/ MayOom /\ Fails({})

\* fill_sa_address: the scope of a link-local IPv6 address is its link.
Sa(v) == [k |-> "sa", fam |-> msg.fam, v |-> v,
          scope |-> IF msg.fam = 6 /\ ~v.global THEN msg.index ELSE 0]

\* Where the address in hand goes once what is there has been moved.
Place(x, freed) ==
  \/ /\ mem' = [Freed(freed) EXCEPT ![New(0)] = Sa(Attr.v)]
     /\ dfree' = (dfree \/ FreedTwice(freed))
     /\ ifa' = IF Attr.k = "broadcast" THEN [x EXCEPT !.broad = New(0)] ELSE [x EXCEPT !.addr = New(0)]
     /\ Reads /\ UNCHANGED sa
  \/ /\ MayOom
     /\ Returns(-1, freed, free_single_ifaddrs(x))
     /\ UNCHANGED <<machine, dump, queue, msg, at, ifa, sa, ipsv>>

\* The form that forgets to move the first address away.
PlaceOver ==
  /\ More /\ msg.t = "addr" /\ Attr.k \in {"local", "address"}
  /\ Place(ifa, {})

\* The form that puts the second of the two away.
SecondAway ==
  /\ More /\ msg.t = "addr" /\ Attr.k \in {"local", "address"}
  /\ IF ifa.addr = 0 THEN Place(ifa, {})
     ELSE Fill(Sa(Attr.v), "broad") /\ Reads /\ UNCHANGED <<sa, dfree>>

\* IFA_LOCAL and IFA_ADDRESS do the same: the first of the two that comes is
\* taken for the other end's.
AddrLocal ==
  /\ More /\ msg.t = "addr" /\ Attr.k \in {"local", "address"}
  /\ Place(IF ifa.addr # 0 THEN [ifa EXCEPT !.broad = ifa.addr, !.addr = 0] ELSE ifa, {})

AddrBroadcast ==
  /\ More /\ msg.t = "addr" /\ Attr.k = "broadcast"
  /\ Place([ifa EXCEPT !.broad = 0], {ifa.broad} \ {0})

MaskLen == IF msg.fam = 4 THEN 4 ELSE 16
\* calculate_address_netmask, byte by byte (from 0).
Netmask(p) ==
  LET full == p \div 8
      rest == IF p % 8 = 0 THEN 0 ELSE 256 - 2^(8 - (p % 8))
  IN  [i \in 0..(MaskLen - 1) |-> IF i < full THEN 255
                                 ELSE IF i = full + 1 /\ full + 2 < MaskLen THEN rest ELSE 0]

get_interface_name_by_index(i) ==
  LET link == find_interface_by_index(i)
  IN  IF link = {} THEN 0 ELSE list[CHOOSE n \in link : TRUE].name

\* The end: a name, a mask, and the list.  strdup's failure is no error.
get_link_address ==
  LET nameless == ifa.name = 0 /\ get_interface_name_by_index(msg.index) # 0
      masked == ifa.addr # 0
      Mask == [k |-> "mask", fam |-> msg.fam, p |-> msg.prefix, v |-> Netmask(msg.prefix)]
  IN  /\ pc = "attr" /\ msg.t = "addr" /\ at > Len(msg.attrs)
      /\ \/ \E strdup \in {TRUE} \cup (IF MayOom THEN {FALSE} ELSE {}) :
              LET named == nameless /\ strdup
                  n == New(0)
                  m == IF named THEN New(1) ELSE n
                  x == [ifa EXCEPT !.name = IF named THEN n ELSE @, !.mask = IF masked THEN m ELSE 0]
              IN  /\ mem' = [b \in 1..Blocks |->
                               IF named /\ b = n THEN [k |-> "name", v |-> msg.index]
                               ELSE IF masked /\ b = m THEN Mask ELSE mem[b]]
                  /\ list' = append_ifaddr(x)
                  /\ pc' = "recv" /\ ifa' = NoIfa /\ msg' = NoMsg /\ at' = 1
                  /\ UNCHANGED <<dfree, session, ret, dump, queue>>
         \/ /\ MayOom /\ masked
            /\ Returns(-1, {}, free_single_ifaddrs(ifa))
            /\ UNCHANGED <<dump, queue, msg, at, ifa>>
      /\ UNCHANGED <<machine, sa, ipsv>>

(***************************************************************************)
(* xxsocket::traverse_local_address, getipsv and freeifaddrs               *)
(***************************************************************************)
\* The form that counts every address.
CountsLocal(x) == x.addr # 0 /\ mem[x.addr].k = "sa"
\* ifa_addr, an address of the Internet, and global
Counts(x) == x.addr # 0 /\ mem[x.addr].k = "sa" /\ mem[x.addr].v.global
getipsv ==
  /\ pc = "returned" /\ ret = 0
  /\ ipsv' = {mem[list[i].addr].fam : i \in {n \in 1..Len(list) : Counts(list[n])}}
  /\ pc' = "walked"
  /\ UNCHANGED <<machine, mem, dfree, session, dump, queue, msg, at, ifa, sa, list, ret>>

freeifaddrs ==
  /\ pc = "walked"
  /\ mem' = Freed(AllPointers(list))
  /\ dfree' = (dfree \/ FreedTwice(AllPointers(list)))
  /\ list' = <<>> /\ pc' = "end"
  /\ UNCHANGED <<machine, session, dump, queue, msg, at, ifa, sa, ret, ipsv>>

Next == \/ open_netlink_session \/ send_netlink_dump_request \/ parse_netlink_reply
        \/ LinkName \/ LinkAddress \/ get_link_info
        \/ AddrLabel \/ AddrLocal \/ AddrBroadcast \/ get_link_address
        \/ getipsv \/ freeifaddrs
Spec == Init /\ [][Next]_vars

(***************************************************************************)
(* Properties.                                                             *)
(***************************************************************************)
\* Whichever allocation, request or answer fails, no block is freed twice.
NoDoubleFree == ~dfree

\* After an error, and after freeifaddrs, no block is left and the socket is
\* closed.
NothingLeft == (pc = "end" \/ (pc = "returned" /\ ret = -1)) => Live = {} /\ ~session

Entries == Len(machine.links) + Len(machine.addrs)
Listed == pc = "returned" /\ ret = 0

\* Blocks that the returned list points at are live, and no two entries share
\* one: nothing is moved into two places.
Unshared ==
  Listed => /\ Len(list) = Entries
            /\ \A i \in 1..Len(list) : Pointers(list[i]) \subseteq Live
            /\ \A i, j \in 1..Len(list) : i # j => Pointers(list[i]) \cap Pointers(list[j]) = {}
            /\ Cardinality(Live) = Cardinality(AllPointers(list))

\* getipsv finds exactly the families in which the machine has a global
\* address.
IpsvTrue ==
  pc = "walked" => ipsv = {machine.addrs[i].fam : i \in {n \in 1..Len(machine.addrs) :
                     machine.addrs[n].local.global}}

AddressEntry(i) == list[Len(machine.links) + i]

\* ifa_addr is the address of this end.
AddrIsLocal ==
  Listed => \A i \in 1..Len(machine.addrs) :
              mem[AddressEntry(i).addr].v = machine.addrs[i].local

\* An address without a label has the name of its interface.
HasName ==
  Listed => \A i \in 1..Len(machine.addrs) :
              /\ AddressEntry(i).name # 0
              /\ mem[AddressEntry(i).name].v = machine.addrs[i].index

\* The mask is the prefix: as many ones as it says, and zeros.
MaskIsPrefix ==
  Listed => \A i \in 1..Len(machine.addrs) :
              LET m == mem[AddressEntry(i).mask]
              IN  \A b \in DOMAIN m.v :
                    m.v[b] = IF 8 * (b + 1) <= m.p THEN 255
                             ELSE IF 8 * b >= m.p THEN 0 ELSE 256 - 2^(8 * (b + 1) - m.p)
=============================================================================
