---------------------------- MODULE MCLibrary ----------------------------
(*****************************************************************************)
(* What goes over the wire, frames and packets cut up and put together,      *)
(* bytes to send, serialised values and the text of HTTP; and the library    *)
(* under the network code: containers, strings and views, addresses and      *)
(* sockets, the interfaces of the machine, locks, pools and pointers.        *)
(*****************************************************************************)
EXTENDS Integers, Sequences, FiniteSets

CONSTANTS Parts,  \* the parts that a run starts
          none, l1, l2, l3, m1, m2, t1, t2, t3, p1, p2, p3, o1, o2  \* model values

VARIABLES part,   \* the part a behaviour is about
          \* its variables; those it does not have are none
          v1, v2, v3, v4, v5, v6, v7, v8, v9, v10, v11, v12, v13, v14

all == <<part, v1, v2, v3, v4, v5, v6, v7, v8, v9, v10, v11, v12, v13, v14>>

HttpChars == {"2", "0", "5", "B", " ", "%", "+", "nul"}
HttpRequests == {[type |-> t, headers |-> h, cookies |-> c] :
                   t \in {"GET", "POST", "PUT", "DELETE", "Unknown"},
                   h \in {<<>>, <<"User-Agent">>, <<"X", "Accept", "User-Agent">>, <<"Content-Type", "X">>},
                   c \in BOOLEAN}
PlainGet == {[type |-> "GET", headers |-> <<>>, cookies |-> FALSE]}
HttpMessage == << << <<"A", "b", "A">>, <<"A", "x", "b">> >>, << <<"B">>, <<>> >>,
                  << <<"a", "B", "A">>, <<"1", "2">> >> >>

\* Cookies of a host and of its parent domain, for all paths or one, that expire now,
\* soon or never.
SetCookies == {[name |-> n, value |-> v, domain |-> d, path |-> p, expires |-> e, secure |-> FALSE] :
                 n \in {"a", "b"}, v \in {0, 1}, d \in {<<>>, <<"org">>}, p \in {<<>>, <<"x">>}, e \in {0, 2}}
CookieUris == {[host |-> <<"www", "org">>, path |-> <<"x">>], [host |-> <<"org">>, path |-> <<>>]}
UriStarts == {<<"http", ":", "/", "/">>, <<"https", ":", "/", "/">>, <<"w", ":", "/", "/">>}

\* What getaddrinfo answers.
A4(n) == [fam |-> 4, a |-> n]
A6(n) == [fam |-> 6, a |-> n]
DualHost == {<<A6(2), A4(1)>>}
SomeHosts == DualHost \cup {<<A4(1), A4(3)>>}

\* What Linux reports of its interfaces, in its order.
Adr(n, g) == [id |-> n, global |-> g]
Bare(k) == [k |-> k]
With(k, v) == [k |-> k, v |-> v]
Ether(i) == [t |-> "link", index |-> i, flags |-> 1,
             attrs |-> <<Bare("name"), Bare("address"), Bare("broadcast")>>]
Tun(i) == [t |-> "link", index |-> i, flags |-> 1, attrs |-> <<Bare("name")>>]
Assigned(i, f, p, l, as) ==
  [t |-> "addr", index |-> i, flags |-> 0, fam |-> f, prefix |-> p, local |-> l, attrs |-> as]
In4(i, l, p) == Assigned(i, 4, p, l, <<With("address", l), With("local", l),
                                       With("broadcast", Adr(9, TRUE)), Bare("label")>>)
Peer4(i, l, r) == Assigned(i, 4, 32, l, <<With("address", r), With("local", l), Bare("label")>>)
In6(i, l) == Assigned(i, 6, 64, l, <<With("address", l)>>)
Addresses == {In4(2, Adr(2, TRUE), 24), In6(2, Adr(3, FALSE)), In6(2, Adr(6, TRUE)),
              Peer4(3, Adr(4, TRUE), Adr(5, TRUE))}
PhoneMachines == {[links |-> <<Ether(1), Ether(2), Tun(3)>>, addrs |-> as] :
                    as \in {<<>>} \cup {<<x, y>> : x, y \in Addresses}}

Frames == INSTANCE FrameReader WITH Base <- 2, HeaderLen <- 2, Limit <- 3, MaxFrames <- 2,
  posted <- v1, flight <- v2, ended <- v3, buffer <- v4, frames <- v5, pc <- v6
Packets == INSTANCE PacketReader WITH Base <- 4, LengthOffset <- 1, LengthSize <- 2,
  LengthAdjustment <- 1, MaxFrameLength <- 6, Strip <- 2, BufferSize <- 5, FrameSizes <- {3, 4, 6,
  7}, Kcp <- FALSE, MaxFrames <- 4, wire <- v1, buffer <- v2, offset <- v3, expected <- v4,
  packet <- v5, wait <- v6, status <- v7, sent <- v8, delivered <- v9
Datagrams == INSTANCE PacketReader WITH Base <- 4, LengthOffset <- 1, LengthSize <- 2,
  LengthAdjustment <- 1, MaxFrameLength <- 6, Strip <- 2, BufferSize <- 5, FrameSizes <- {3, 4, 6,
  7}, Kcp <- TRUE, MaxFrames <- 4, wire <- v1, buffer <- v2, offset <- v3, expected <- v4,
  packet <- v5, wait <- v6, status <- v7, sent <- v8, delivered <- v9
Tcp == INSTANCE SendQueue WITH Sizes <- {0, 1, 3}, Room <- 3, Udp <- FALSE, Mss <- 2, Changes <- 0,
  MaxOps <- 4, queue <- v1, kernel <- v2, wire <- v3, done <- v4, nops <- v5, pollout <- v6,
  wait <- v7, woken <- v8, pc <- v9, connected <- v10, changes <- v11, undefined <- v12
Dgram == INSTANCE SendQueue WITH Sizes <- {0, 1, 3}, Room <- 3, Udp <- TRUE, Mss <- 2, Changes <- 1,
  MaxOps <- 4, queue <- v1, kernel <- v2, wire <- v3, done <- v4, nops <- v5, pollout <- v6,
  wait <- v7, woken <- v8, pc <- v9, connected <- v10, changes <- v11, undefined <- v12
Growing == INSTANCE Streams WITH ByteBits <- 3, IntBytes <- 3, LongBytes <- 5, Network <- TRUE,
  Extent <- 0, MaxItems <- 2, buf <- v1, open <- v2, log <- v3, thrown <- v4
Fixed == INSTANCE Streams WITH ByteBits <- 3, IntBytes <- 3, LongBytes <- 5, Network <- FALSE,
  Extent <- 6, MaxItems <- 3, buf <- v1, open <- v2, log <- v3, thrown <- v4
Text == INSTANCE HttpText WITH Requests <- HttpRequests, Message <- HttpMessage, Chars <- HttpChars,
  MaxLen <- 1, req <- v1, raw <- v2, line <- v3, at <- v4, field <- v5, value <- v6, headers <- v7
Codec == INSTANCE HttpText WITH Requests <- PlainGet, Message <- <<>>, Chars <- HttpChars,
  MaxLen <- 5, req <- v1, raw <- v2, line <- v3, at <- v4, field <- v5, value <- v6, headers <- v7
Cookies == INSTANCE HttpCookies WITH Headers <- SetCookies, Uris <- CookieUris,
  FileName <- "cookies", MaxTime <- 2, MaxSets <- 3, MaxEnables <- 1, MaxRestarts <- 1, jar <- v1,
  named <- v2, enabled <- v3, files <- v4, clock <- v5, latest <- v6, sets <- v7, restarts <- v8
Uris == INSTANCE Uri WITH Alphabet <- {"w", ":", "/", "?", "#", "@", "8", "0", "[", "]"},
  Starts <- UriStarts, MaxLen <- 9, text <- v1, uri <- v2
Vector == INSTANCE PodVector WITH Vecs <- {1}, Values <- {1, 2}, MaxLen <- 3, MaxRes <- 4,
  OwnElements <- FALSE, MinOverwrite <- 1, AssignMoves <- FALSE, v <- v1, holds <- v2, loose <- v3,
  leaked <- v4
Vectors == INSTANCE PodVector WITH Vecs <- {1, 2}, Values <- {1}, MaxLen <- 2, MaxRes <- 2,
  OwnElements <- FALSE, MinOverwrite <- 1, AssignMoves <- FALSE, v <- v1, holds <- v2, loose <- v3,
  leaked <- v4
Strings == INSTANCE YString WITH Chars <- {1, 2}, MaxLen <- 3, Overlaps <- FALSE, s <- v1,
  holds <- v2, cut <- v3
Garbling == INSTANCE YString WITH Chars <- {1, 2}, MaxLen <- 3, Overlaps <- TRUE, s <- v1,
  holds <- v2, cut <- v3
Search == INSTANCE StringView WITH Chars <- {0, 1, 2}, TextLen <- 4, W <- 16, text <- v1, v <- v2,
  w <- v3
Comparison == INSTANCE StringView WITH Chars <- {0, 1, 2, 3}, TextLen <- 3, W <- 8, text <- v1,
  v <- v2, w <- v3
Printing == INSTANCE InetText WITH Byte <- 256, Words <- 8, WordValues <- {0, 258, 65535},
  Letters <- {}, MaxText <- 0, text <- v1, addr <- v2, mode <- v3
Quads == INSTANCE InetText WITH Byte <- 256, Words <- 8, WordValues <- {0}, Letters <- {0, 2, 5,
  101}, MaxText <- 8, text <- v1, addr <- v2, mode <- v3
Hextets == INSTANCE InetText WITH Byte <- 4, Words <- 3, WordValues <- {0}, Letters <- {0, 3, 100,
  101}, MaxText <- 8, text <- v1, addr <- v2, mode <- v3
Endpoints == INSTANCE Endpoint WITH Addr4 <- {1, 2}, Addr6 <- {11}, Local <- {1, 11}, Ports <- {1,
  5}, Zones <- {0, 1}, Junk <- {0, 3}, PortMod <- 4, SetsAf <- FALSE, e <- v1, want <- v2
Keys == INSTANCE Endpoint WITH Addr4 <- {1, 2}, Addr6 <- {11}, Local <- {1, 11}, Ports <- {1, 2},
  Zones <- {0}, Junk <- {0, 3}, PortMod <- 4, SetsAf <- TRUE, e <- v1, want <- v2
Connecting == INSTANCE XxSocket WITH Wrappers <- {1}, Fds <- {3, 4}, Hosts <- SomeHosts,
  Nets <- {{4}, {6}}, Concurrent <- FALSE, MayTimeout <- TRUE, tab <- v1, fd <- v2, th <- v3,
  loose <- v4, host <- v5, net <- v6, foreign <- v7
Sockets == INSTANCE XxSocket WITH Wrappers <- {1, 2}, Fds <- {3, 4}, Hosts <- DualHost, Nets <- {{4,
  6}}, Concurrent <- TRUE, MayTimeout <- FALSE, tab <- v1, fd <- v2, th <- v3, loose <- v4,
  host <- v5, net <- v6, foreign <- v7
Transfers == INSTANCE SocketIo WITH MaxLen <- 4, MaxTimeout <- 5, op <- v1, len <- v2,
  bytes_transferred <- v3, budget <- v4, wtimeout <- v5, sel <- v6, pc <- v7, errno <- v8,
  moved <- v9, slept <- v10, why <- v11
Interfaces == INSTANCE IfAddrs WITH Machines <- PhoneMachines, MayOom <- TRUE, Blocks <- 26,
  machine <- v1, mem <- v2, dfree <- v3, session <- v4, pc <- v5, dump <- v6, queue <- v7,
  msg <- v8, at <- v9, ifa <- v10, sa <- v11, list <- v12, ret <- v13, ipsv <- v14
Gates == INSTANCE SharedMutex WITH Threads <- {"a", "b", "c", "d"}, n_readers_ <- 4, pc <- v1,
  asleep <- v2, write_entered_ <- v3, readers <- v4
Shares == INSTANCE SharedLock WITH Locks <- {l1, l2, l3}, Mutexes <- {m1, m2}, none <- none,
  MaxShares <- 2, lk <- v1, shares <- v2, raw <- v3
Only == INSTANCE Singleton WITH Threads <- {t1, t2, t3}, MaxObjects <- 3, none <- 0,
  Destroys <- FALSE, __single__ <- v1, __mutex__ <- v2, pc <- v3, mine <- v4, made <- v5,
  ready <- v6, gone <- v7, deletes <- v8
Doomed == INSTANCE Singleton WITH Threads <- {t1, t2, t3}, MaxObjects <- 2, none <- 0,
  Destroys <- TRUE, __single__ <- v1, __mutex__ <- v2, pc <- v3, mine <- v4, made <- v5,
  ready <- v6, gone <- v7, deletes <- v8
Queue == INSTANCE ConcurrentQueue WITH Producers <- {p1, p2}, Dual <- TRUE, none <- none,
  MaxEvents <- 4, MaxDepth <- 2, Counts <- {0, 1, 2}, queue_ <- v1, deal_ <- v2, mtx_ <- v3,
  made <- v4, handled <- v5, cleared <- v6, calls <- v7, peek_ <- v8
Peeked == INSTANCE ConcurrentQueue WITH Producers <- {p1, p2}, Dual <- FALSE, none <- none,
  MaxEvents <- 4, MaxDepth <- 1, Counts <- {}, queue_ <- v1, deal_ <- v2, mtx_ <- v3, made <- v4,
  handled <- v5, cleared <- v6, calls <- v7, peek_ <- v8
Cells == INSTANCE ObjectPool WITH element_count_ <- 3, MaxChunks <- 2, chunk_ <- v1, next <- v2,
  first_ <- v3, held <- v4, leaked <- v5, taken <- v6
Refs == INSTANCE RefPtr WITH Ptrs <- {p1, p2, p3}, Objects <- {o1, o2}, none <- none, Same <- FALSE,
  Last <- FALSE, MaxRaw <- 1, ptr_ <- v1, refs <- v2, state <- v3, inner <- v4, raw <- v5,
  touched <- v6

ASSUME Frames!FrameAssumption /\ Packets!FramingAssumption /\ Datagrams!FramingAssumption /\
       Tcp!SendAssumption /\ Dgram!SendAssumption /\ Growing!StreamAssumption /\
       Fixed!StreamAssumption /\ Text!TextAssumption /\ Codec!TextAssumption /\
       Cookies!CookieAssumption /\ Uris!UriAssumption /\ Search!SizeAssumption /\
       Comparison!SizeAssumption /\ Printing!InetAssumption /\ Quads!InetAssumption /\
       Hextets!InetAssumption /\ Endpoints!EndpointAssumption /\ Keys!EndpointAssumption /\
       Connecting!XxSocketAssumption /\ Sockets!XxSocketAssumption /\ Transfers!SocketIoAssumption
       /\ Interfaces!IfAddrsAssumption /\ Gates!SharedMutexAssumption /\ Shares!SharedLockAssumption
       /\ Only!SingletonAssumption /\ Doomed!SingletonAssumption /\ Cells!PoolAssumption

\* The variables that a part of k variables does not have, and what stays as it is.
Keep14 == UNCHANGED part
None12 == v13 = none /\ v14 = none
Keep12 == UNCHANGED <<part, v13, v14>>
None11 == v12 = none /\ None12
Keep11 == UNCHANGED <<part, v12, v13, v14>>
None9 == v10 = none /\ v11 = none /\ None11
Keep9 == UNCHANGED <<part, v10, v11, v12, v13, v14>>
None8 == v9 = none /\ None9
Keep8 == UNCHANGED <<part, v9, v10, v11, v12, v13, v14>>
None7 == v8 = none /\ None8
Keep7 == UNCHANGED <<part, v8, v9, v10, v11, v12, v13, v14>>
None6 == v7 = none /\ None7
Keep6 == UNCHANGED <<part, v7, v8, v9, v10, v11, v12, v13, v14>>
None4 == v5 = none /\ v6 = none /\ None6
Keep4 == UNCHANGED <<part, v5, v6, v7, v8, v9, v10, v11, v12, v13, v14>>
None3 == v4 = none /\ None4
Keep3 == UNCHANGED <<part, v4, v5, v6, v7, v8, v9, v10, v11, v12, v13, v14>>
None2 == v3 = none /\ None3
Keep2 == UNCHANGED <<part, v3, v4, v5, v6, v7, v8, v9, v10, v11, v12, v13, v14>>

Init == /\ part \in Parts
        /\ \/ part = "frames" /\ Frames!Init /\ None6
           \/ part = "packets" /\ Packets!Init /\ None9
           \/ part = "datagrams" /\ Datagrams!Init /\ None9
           \/ part = "tcp" /\ Tcp!Init /\ None12
           \/ part = "udp" /\ Dgram!Init /\ None12
           \/ part = "growing" /\ Growing!Init /\ None4
           \/ part = "fixed" /\ Fixed!Init /\ None4
           \/ part = "text" /\ Text!Init /\ None7
           \/ part = "codec" /\ Codec!Init /\ None7
           \/ part = "cookies" /\ Cookies!Init /\ None8
           \/ part = "uri" /\ Uris!Init /\ None2
           \/ part = "vector" /\ Vector!Init /\ None4
           \/ part = "vectors" /\ Vectors!Init /\ None4
           \/ part = "string" /\ Strings!Init /\ None3
           \/ part = "garbling" /\ Garbling!Init /\ None3
           \/ part = "search" /\ Search!Init /\ None3
           \/ part = "order" /\ Comparison!Init /\ None3
           \/ part = "print" /\ Printing!Init /\ None3
           \/ part = "quads" /\ Quads!Init /\ None3
           \/ part = "groups" /\ Hextets!Init /\ None3
           \/ part = "endpoints" /\ Endpoints!Init /\ None2
           \/ part = "keys" /\ Keys!Init /\ None2
           \/ part = "connect" /\ Connecting!Init /\ None7
           \/ part = "sockets" /\ Sockets!Init /\ None7
           \/ part = "transfer" /\ Transfers!Init /\ None11
           \/ part = "interfaces" /\ Interfaces!Init
           \/ part = "mutex" /\ Gates!Init /\ None4
           \/ part = "lock" /\ Shares!Init /\ None3
           \/ part = "instance" /\ Only!Init /\ None8
           \/ part = "destroy" /\ Doomed!Init /\ None8
           \/ part = "queue" /\ Queue!Init /\ None8
           \/ part = "peek" /\ Peeked!Init /\ None8
           \/ part = "pool" /\ Cells!Init /\ None6
           \/ part = "refs" /\ Refs!Init /\ None6

Next == \/ part = "frames" /\ Frames!Next /\ Keep6
        \/ part = "packets" /\ Packets!Next /\ Keep9
        \/ part = "datagrams" /\ Datagrams!Next /\ Keep9
        \/ part = "tcp" /\ Tcp!Next /\ Keep12
        \/ part = "udp" /\ Dgram!Next /\ Keep12
        \/ part = "growing" /\ Growing!Next /\ Keep4
        \/ part = "fixed" /\ Fixed!Next /\ Keep4
        \/ part = "text" /\ Text!Next /\ Keep7
        \/ part = "codec" /\ Codec!Next /\ Keep7
        \/ part = "cookies" /\ Cookies!Next /\ Keep8
        \/ part = "uri" /\ Uris!Next /\ Keep2
        \/ part = "vector" /\ Vector!Next /\ Keep4
        \/ part = "vectors" /\ Vectors!Next /\ Keep4
        \/ part = "string" /\ Strings!Next /\ Keep3
        \/ part = "garbling" /\ Garbling!Next /\ Keep3
        \/ part = "search" /\ Search!Next /\ Keep3
        \/ part = "order" /\ Comparison!Next /\ Keep3
        \/ part = "print" /\ Printing!Next /\ Keep3
        \/ part = "quads" /\ Quads!Next /\ Keep3
        \/ part = "groups" /\ Hextets!Next /\ Keep3
        \/ part = "endpoints" /\ Endpoints!Next /\ Keep2
        \/ part = "keys" /\ Keys!Next /\ Keep2
        \/ part = "connect" /\ Connecting!Next /\ Keep7
        \/ part = "sockets" /\ Sockets!Next /\ Keep7
        \/ part = "transfer" /\ Transfers!Next /\ Keep11
        \/ part = "interfaces" /\ Interfaces!Next /\ Keep14
        \/ part = "mutex" /\ Gates!Next /\ Keep4
        \/ part = "lock" /\ Shares!Next /\ Keep3
        \/ part = "instance" /\ Only!Next /\ Keep8
        \/ part = "destroy" /\ Doomed!Next /\ Keep8
        \/ part = "queue" /\ Queue!Next /\ Keep8
        \/ part = "peek" /\ Peeked!Next /\ Keep8
        \/ part = "pool" /\ Cells!Next /\ Keep6
        \/ part = "refs" /\ Refs!Next /\ Keep6

Spec == Init /\ [][Next]_all

-----------------------------------------------------------------------------
\* Whatever the chunks, rmc-server's on_recv_frame and yasio's unpack get exactly the
\* frames of the peer, in order, each once; neither waits for the socket with a whole frame
\* in its buffer; and only a frame that the framing refuses ends the session or the
\* transport.
FramesDelivered ==
  /\ part = "frames" => Frames!FramesExact /\ Frames!NoFrameHeldBack /\ Frames!ErrorOnlyForBadLength
  /\ part = "packets" => Packets!DeliversFrames /\ Packets!NoFrameForgotten /\ Packets!InvalidIsRefused
  /\ part = "datagrams" => Datagrams!DeliversFrames /\ Datagrams!NoFrameForgotten

\* do_write: the bytes of different operations are never mixed or reordered, however often
\* the kernel took only a part; a completion handler is called once, in the order of the
\* writes, and reports success only when the kernel has taken every byte; and the worker
\* never blocks with something to send unless the kernel has no room and POLLOUT is
\* registered.
WritesInOrder ==
  /\ part = "tcp" => Tcp!BytesInOrder /\ Tcp!CompletesInOrder /\ Tcp!NoLostWakeup
  /\ part = "udp" => Dgram!BytesInOrder /\ Dgram!CompletesInOrder /\ Dgram!NoLostWakeup

\* What the writers of obstream append, with any nesting of length fields, ibstream reads
\* back value for value, to the end of the data; data cut off anywhere reads as a prefix of
\* it and then throws; and no sequence of writes leaves a fixed buffer with more bytes than
\* it has room for.
StreamsReadBack ==
  /\ part = "growing" => Growing!RoundTrip /\ Growing!CutThrows
  /\ part = "fixed" => Fixed!RoundTrip /\ Fixed!NeverOverruns

\* The head of a request without cookies is well formed whichever headers the user gave;
\* the headers of a response are complete however packets cut them; urlDecode undoes
\* urlEncode; a request sends for a cookie the value last set for its name and domain, none
\* expired, and within the life of a client none is forgotten; and the URIs HttpClient
\* opens parse back from their text, with all that follows the authority as the target of
\* the request.
HttpExact ==
  /\ part = "text" => Text!HeadWellFormed /\ Text!HeadersWhole
  /\ part = "codec" => Codec!DecodesBack
  /\ part = "cookies" => Cookies!SendsLatest /\ Cookies!ForgetsNone
  /\ part = "uri" => Uris!HttpParsesBack /\ Uris!TargetIsSuffix

\* After any sequence of operations a pod_vector and a basic_string hold what std::vector
\* and std::string would, except for what resize leaves to the caller; no vector touches
\* memory outside its block, and every block has one owner. A string_view stays inside its
\* text, its searches return the first and last occurrences for every pos up to npos, and
\* its comparisons are one total order.
ContainersMatch ==
  /\ part = "vector" => Vector!Matches /\ Vector!Sound
  /\ part = "vectors" => Vectors!Matches /\ Vectors!Sound /\ Vectors!NothingLeaked
  /\ part = "string" => Strings!Matches
  /\ part = "garbling" => Garbling!Terminated
  /\ part = "search" => Search!Inside /\ Search!FindsString /\ Search!FindsSet
  /\ part = "order" => Comparison!Ordered /\ Comparison!Affixes /\ Comparison!CaseBlind

\* What inet_ntop6 prints inet_pton6 reads back, with `::' for the first of the longest
\* runs of zeros; the parsers accept exactly the dotted quads and the groups of hexadecimal
\* digits and return the bytes they mean. Whatever setters made it, an endpoint reads back
\* the family, address and port last given, its len() is that of its sockaddr, and its text
\* parses back; operator< orders IPv4 endpoints as the keys of transport_map_.
AddressesExact ==
  /\ part = "print" => Printing!RoundTrip /\ Printing!HidesLongest
  /\ part = "quads" => Quads!ParsesQuads
  /\ part = "groups" => Hextets!ParsesGroups
  /\ part = "endpoints" => Endpoints!ReadsBack /\ Endpoints!LenFits /\ Endpoints!TextRoundTrip
  /\ part = "keys" => Keys!Orders4

\* getifaddrs: whichever allocation, request or answer fails, no block is freed twice, none
\* is left after an error or freeifaddrs, and no two entries share one; ifa_addr is the
\* address of this end, also on a point-to-point link, and getipsv finds exactly the
\* families with a global address.
InterfacesOwned == part = "interfaces" => Interfaces!NoDoubleFree /\ Interfaces!NothingLeft /\ Interfaces!Unshared /\ Interfaces!IpsvTrue /\ Interfaces!AddrIsLocal

\* shared_mutex: a writer excludes everyone else, and no thread sleeps at a gate that is
\* open for it; every share has one holder, a shared_lock or a caller who took it by hand.
\* singleton: no two threads go on with objects of their own, what the short way without
\* the mutex finds is complete and alive, and each object is deleted once.
LocksSound ==
  /\ part = "mutex" => Gates!LocksSound
  /\ part = "lock" => Shares!LocksSound
  /\ part = "instance" => Only!LocksSound
  /\ part = "destroy" => Doomed!LocksSound

\* Every open descriptor has an owner and nobody closes the socket of another, however two
\* threads interleave with the kernel's reuse of numbers; xpconnect gives up only when it
\* has tried every address it could, and a connecting call returns 0 exactly with a
\* connected socket. send_n and recv_n return what was moved, wait no longer than the
\* timeout, and stop short only for a reason.
SocketsSound ==
  /\ [](part = "connect" => Connecting!NoLeak /\ Connecting!TriesAll)
  /\ [](part = "sockets" => Sockets!NoLeak /\ Sockets!Owns /\ Sockets!NoForeignClose)
  /\ [](part = "transfer" => Transfers!ReportsMoved /\ Transfers!WaitBounded /\ Transfers!ShortHasReason)
  /\ [][part = "connect" => Connecting!ReportsConnect]_all

\* concurrent_queue: events are handled in the order they were added, each once, although
\* two queues hold them and handlers dispatch in turn, and a peeked item stays at the
\* front. object_pool: every cell is free, in the hands of a caller or lost to a
\* constructor that threw, and the heap is asked only when none is free. ref_ptr: the count
\* of a live object is the number of its holders, and no pointer is left with a deleted
\* one.
EachHasOwner ==
  /\ [](part = "queue" => Queue!InOrder)
  /\ [](part = "peek" => Peeked!InOrder /\ Peeked!PeekedThere)
  /\ [](part = "pool" => Cells!Partition)
  /\ [](part = "refs" => Refs!Counted /\ Refs!NoneDangles)
  /\ [][part = "pool" => Cells!GrowsFull]_all
=============================================================================
