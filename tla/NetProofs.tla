------------------------------ MODULE NetProofs ------------------------------
(***************************************************************************)
(* The network stack, for any number of hosts, servers, commands and       *)
(* packets and every length of a response, a segment and the body buffer:  *)
(* an address is only used when it was asked for, what is acknowledged was *)
(* taken, what is shown is a piece of one response in order, and fetch     *)
(* outlasts every retransmission.                                          *)
(***************************************************************************)
EXTENDS Net, SequenceTheorems, WellFoundedInduction, TLAPS

-----------------------------------------------------------------------------
(* The record of globals.                                                  *)

Globals == {"gateway_known", "dhcp_configured", "dhcp_requested", "offered_ip",
            "local_ip", "dns_ip", "dns_requested", "dns_host", "dns_answer_ip",
            "tcp_state", "remote_ip", "seq", "ack", "wait_ticks", "retries",
            "http_ok", "http_bytes", "headers_done", "http_body", "split", "http_host",
            "ping_replied", "sent", "conns"}

IsNet(s) == s = [f \in Globals |-> s[f]]

\* The first e units of a response are taken for its header: they end in a
\* blank line, its first one unless a payload ended inside that one.
Ends(e, split) == e \in 2 .. Units /\ {e - 1, e} \subseteq Crlf /\ (e = 2 \/ split)

\* What is in http_body: what comes right behind the first e units of the c-th
\* response.
Piece(b, c, e) ==
    /\ b \in Seq({c} \X (1 .. Units))
    /\ Len(b) <= BodyMax /\ Len(b) + e <= Units
    /\ \A k \in 1 .. Len(b) : b[k] = <<c, k + e>>

\* Of the first h units behind those e the buffer holds as many as fit.
Holds(b, c, e, h) == Piece(b, c, e) /\ Len(b) = IF h <= BodyMax THEN h ELSE BodyMax

\* What is shown is a piece of the c-th response behind a blank line.
Shown(s, c) == \E e \in 2 .. Units : Ends(e, s.split) /\ Piece(s.http_body, c, e)

\* The header was found: the body holds what followed it, as much as fits.
Reading(s, c) ==
    \E e \in 2 .. Units :
        Ends(e, s.split) /\ s.http_bytes >= e /\ Holds(s.http_body, c, e, s.http_bytes - e)

\* The c-th connection is being read: http_bytes units were taken and
\* acknowledged, and either the end of the header was among them or the first
\* payload ended inside it.
Download(s, c) ==
    /\ s.http_bytes \in 0 .. Units
    /\ s.ack = Isn(c) + 1 + s.http_bytes
    /\ s.headers_done => Reading(s, c)
    /\ ~s.headers_done => s.http_body = << >> /\ (s.http_bytes = 0 \/ s.split)

\* The invariant of the TCP and HTTP globals.
Socket(s) ==
    /\ IsNet(s)
    /\ s.tcp_state \in {0, 1, 3, 4, 5, 6, 7}
    /\ s.conns \in Seq(Hosts)
    /\ s.remote_ip \in Hosts \cup {None}
    /\ s.tcp_state = 0 => s.remote_ip = None
    /\ s.seq \in 0 .. 2
    /\ s.wait_ticks \in 0 .. RetryTicks - 1 /\ s.retries \in 0 .. MaxRetries
    /\ \A m \in s.sent : m.t = "dns" => m.host \in Hosts
    /\ s.tcp_state \in {0, 1} =>
          s.seq = 0 /\ s.http_bytes = 0 /\ ~s.headers_done /\ s.http_body = << >> /\ ~s.split
    /\ s.tcp_state \in {3, 4} => \E c \in 1 .. Len(s.conns) : Download(s, c)
    /\ \E c \in 0 .. Len(s.conns) : s.ack \in Isn(c) .. Isn(c) + Units + 2
    /\ s.split \in BOOLEAN
    /\ s.http_body = << >> \/ \E c \in 1 .. Len(s.conns) : Shown(s, c)

\* Every request for an address asked for the one that was offered.
Lease(s) ==
    /\ \A m \in s.sent : m.t = "request" => s.dhcp_requested /\ m.ip = s.offered_ip
    /\ s.dhcp_configured => s.dhcp_requested /\ s.local_ip = s.offered_ip

-----------------------------------------------------------------------------
(* Sequence numbers.                                                       *)

\* The sizes that matter to a response.
LEMMA Lengths ==
    /\ Units \in Nat /\ Units > 2 /\ MaxSeg \in Nat /\ MaxSeg > 0 /\ MaxSeg <= Units
    /\ BodyMax \in Nat /\ BodyMax > 0 /\ MaxCmds \in Nat
BY NetSizes

\* Dividing by the stride recovers the connection.
LEMMA DivStride ==
    ASSUME NEW S \in Nat, NEW c \in Nat, NEW r \in Nat, r < S
    PROVE  (c * S + r) \div S = c
BY SMT

\* Products of naturals.
LEMMA MulNat ==
    ASSUME NEW S \in Nat, NEW c \in Nat
    PROVE  c * S \in Nat
BY SMT

\* Initial sequence numbers are naturals.
LEMMA IsnNat == ASSUME NEW c \in Nat PROVE Isn(c) \in Nat
<1>1. Stride \in Nat
  BY Lengths DEF Stride
<1> QED BY <1>1, MulNat DEF Isn

\* The number of a byte tells its connection.
LEMMA ConnOfIsn ==
    ASSUME NEW c \in Nat, NEW r \in 0 .. Units + 2
    PROVE  ConnOf(Isn(c) + r) = c
<1>1. Stride \in Nat /\ r \in Nat /\ r < Stride
  BY Lengths DEF Stride
<1> HIDE DEF Stride
<1>2. (c * Stride + r) \div Stride = c
  BY <1>1, DivStride
<1> QED BY <1>2 DEF ConnOf, Isn

\* Two bytes with one number are one byte of one connection.
LEMMA OneByte ==
    ASSUME NEW c \in Nat, NEW d \in Nat, NEW r \in 0 .. Units + 2, NEW q \in 0 .. Units + 2,
           Isn(c) + r = Isn(d) + q
    PROVE  c = d /\ r = q
<1>1. c = d
  BY ConnOfIsn
<1>2. r \in Int /\ q \in Int
  BY Lengths
<1> QED BY <1>1, <1>2, IsnNat

-----------------------------------------------------------------------------
(* What may arrive.                                                        *)

\* A segment of the c-th connection that starts lo bytes after its ISN.
Segment(s, m, c, lo) ==
    /\ c \in 1 .. Len(s.conns) /\ m.src = s.conns[c]
    /\ m.seq = Isn(c) + lo /\ m.n \in Nat
    /\ \/ m.kind \in {"synack", "rst"} /\ lo = 0 /\ m.n = 0 /\ m.fin = FALSE
       \/ m.kind = "data" /\ lo \in 1 .. Units + 1 /\ lo + m.n <= Units + 1

Expected(s, m) ==
    \/ m.t = "offer"
    \/ m.t = "ack" /\ \E r \in s.sent : r.t = "request" /\ m.yiaddr = r.ip
    \/ m.t \in {"arp", "echo"}
    \/ m.t = "dns" /\ (m.ip = None \/ \E r \in s.sent : r.t = "dns" /\ m.ip = r.host)
    \/ m.t = "tcp" /\ \E c, lo \in Nat : Segment(s, m, c, lo)

\* Every packet of the network is one of those.
LEMMA RepliesExpected ==
    ASSUME NEW s, s.conns \in Seq(Hosts), NEW m \in Replies(s)
    PROVE  Expected(s, m)
<1> DEFINE of(t) == {x \in s.sent : x.t = t}
           seg(c, kind, lo, n, fin) ==
              [t |-> "tcp", src |-> s.conns[c], kind |-> kind,
               seq |-> Isn(c) + lo, ack |-> 1, n |-> n, fin |-> fin]
           asked == {c \in DOMAIN s.conns : \E x \in of("get") : x.ack = Isn(c) + 1}
<1>0. DOMAIN s.conns = 1 .. Len(s.conns) /\ asked \subseteq 1 .. Len(s.conns) /\ Len(s.conns) \in Nat
  OBVIOUS
<1>1. CASE m \in {[t |-> "offer", yiaddr |-> d] : d \in DhcpServers}
  BY <1>1 DEF Expected
<1>2. CASE m \in {[t |-> "ack", yiaddr |-> x.ip, dns |-> b] : x \in of("request"), b \in BOOLEAN}
  BY <1>2 DEF Expected
<1>3. CASE m \in {[t |-> x.t] : x \in of("arp") \cup of("echo")}
  BY <1>3 DEF Expected
<1>4. CASE m \in {[t |-> "dns", ip |-> ip] : ip \in UNION {{x.host, None} : x \in of("dns")}}
  BY <1>4 DEF Expected
<1>5. CASE m \in {seg(c, k, 0, 0, FALSE) : c \in DOMAIN s.conns, k \in {"synack", "rst"}}
  <2>1. PICK c \in 1 .. Len(s.conns), k \in {"synack", "rst"} : m = seg(c, k, 0, 0, FALSE)
    BY <1>0, <1>5
  <2>2. c \in Nat /\ Isn(c) + 0 = Isn(c)
    BY <1>0, IsnNat
  <2>3. Segment(s, m, c, 0)
    BY <1>0, <2>1, <2>2 DEF Segment
  <2> QED BY <2>1, <2>2, <2>3 DEF Expected
<1>6. CASE m \in {seg(x[1], "data", x[2], x[3], FALSE) :
                x \in {y \in asked \X (1 .. Units) \X (1 .. MaxSeg) : y[2] + y[3] <= Units + 1}}
  <2>1. PICK x \in asked \X (1 .. Units) \X (1 .. MaxSeg) :
            x[2] + x[3] <= Units + 1 /\ m = seg(x[1], "data", x[2], x[3], FALSE)
    BY <1>6
  <2>2. x[1] \in 1 .. Len(s.conns) /\ x[1] \in Nat /\ x[2] \in 1 .. Units + 1 /\ x[2] \in Nat /\ x[3] \in Nat
    <3>1. x[1] \in asked /\ x[2] \in 1 .. Units /\ x[3] \in 1 .. MaxSeg
      BY <2>1
    <3> HIDE DEF asked
    <3>2. x[1] \in 1 .. Len(s.conns)
      BY <1>0, <3>1
    <3> QED BY <1>0, <3>1, <3>2, Lengths
  <2>3. Segment(s, m, x[1], x[2])
    BY <2>1, <2>2 DEF Segment
  <2> QED BY <2>1, <2>2, <2>3 DEF Expected
<1>7. CASE m \in {seg(c, "data", Units + 1 - n, n, TRUE) : c \in asked, n \in 0 .. MaxSeg}
  <2>1. PICK c \in asked, n \in 0 .. MaxSeg : m = seg(c, "data", Units + 1 - n, n, TRUE)
    BY <1>7
  <2>2. /\ c \in 1 .. Len(s.conns) /\ c \in Nat /\ n \in Nat
        /\ Units + 1 - n \in 1 .. Units + 1 /\ Units + 1 - n \in Nat /\ Units + 1 - n + n <= Units + 1
    BY <1>0, Lengths
  <2>3. Segment(s, m, c, Units + 1 - n)
    BY <2>1, <2>2 DEF Segment
  <2> QED BY <2>1, <2>2, <2>3 DEF Expected
<1> QED BY <1>1, <1>2, <1>3, <1>4, <1>5, <1>6, <1>7 DEF Replies

-----------------------------------------------------------------------------
(* Handlers that leave the connection alone.                               *)

TcpGlobals == {"tcp_state", "remote_ip", "seq", "ack", "wait_ticks", "retries",
               "http_bytes", "headers_done", "http_body", "split", "conns"}

\* The invariant of a connection reads the TCP globals and the queries sent.
LEMMA SocketFrame ==
    ASSUME NEW s, NEW r, Socket(s), IsNet(r), \A f \in TcpGlobals : r[f] = s[f],
           \A m \in r.sent : m.t = "dns" => m.host \in Hosts
    PROVE  Socket(r)
<1>1. /\ r.tcp_state = s.tcp_state /\ r.remote_ip = s.remote_ip /\ r.seq = s.seq /\ r.ack = s.ack
      /\ r.wait_ticks = s.wait_ticks /\ r.retries = s.retries /\ r.http_bytes = s.http_bytes
      /\ r.headers_done = s.headers_done /\ r.http_body = s.http_body /\ r.split = s.split /\ r.conns = s.conns
  BY DEF TcpGlobals
<1> QED BY <1>1 DEF Socket, Download, Reading, Shown

\* A request of another kind than a query is sent.
LEMMA SocketSend ==
    ASSUME NEW s, Socket(s), NEW m, m.t # "dns" \/ m.host \in Hosts
    PROVE  Socket(Rtl8139Send(s, m))
<1>1. IsNet(s) /\ \A x \in s.sent : x.t = "dns" => x.host \in Hosts
  BY DEF Socket
<1>2. /\ IsNet(Rtl8139Send(s, m))
      /\ \A f \in TcpGlobals : Rtl8139Send(s, m)[f] = s[f]
      /\ Rtl8139Send(s, m).sent = s.sent \cup {m}
  BY <1>1 DEF Rtl8139Send, IsNet, Globals, TcpGlobals
<1> HIDE DEF Rtl8139Send
<1> QED BY <1>1, <1>2, SocketFrame

\* dns_query only sends names it could encode.
LEMMA SocketDnsQuery ==
    ASSUME NEW s, Socket(s), NEW host
    PROVE  Socket(DnsQuery(s, host))
<1>1. CASE ~s.dhcp_configured \/ ~s.gateway_known \/ ~s.dns_ip \/ ~DnsWriteName(host)
  BY <1>1 DEF DnsQuery
<1>2. CASE ~(~s.dhcp_configured \/ ~s.gateway_known \/ ~s.dns_ip \/ ~DnsWriteName(host))
  <2> DEFINE r == [s EXCEPT !.dns_requested = TRUE, !.dns_host = host]
             m == [t |-> "dns", host |-> host]
  <2>1. IsNet(s) /\ \A x \in s.sent : x.t = "dns" => x.host \in Hosts
    BY DEF Socket
  <2>2. IsNet(r) /\ (\A f \in TcpGlobals : r[f] = s[f]) /\ r.sent = s.sent
    BY <2>1 DEF IsNet, Globals, TcpGlobals
  <2>3. m.host \in Hosts
    BY <1>2 DEF DnsWriteName
  <2>4. DnsQuery(s, host) = Rtl8139Send(r, m)
    BY <1>2 DEF DnsQuery
  <2> HIDE DEF r, m
  <2>5. Socket(r)
    BY <2>1, <2>2, SocketFrame
  <2> QED BY <2>3, <2>4, <2>5, SocketSend
<1> QED BY <1>1, <1>2

\* An ARP reply, an echo reply and DHCP concern other globals.
LEMMA SocketArp == ASSUME NEW s, Socket(s) PROVE Socket(HandleArp(s))
<1> DEFINE r == [s EXCEPT !.gateway_known = TRUE]
           q == SendIcmpEcho(r)
<1>1. IsNet(s) /\ \A x \in s.sent : x.t = "dns" => x.host \in Hosts
  BY DEF Socket
<1>2. IsNet(r) /\ (\A f \in TcpGlobals : r[f] = s[f]) /\ r.sent = s.sent
  BY <1>1 DEF IsNet, Globals, TcpGlobals
<1>3. HandleArp(s) = IF q.dns_requested THEN q ELSE DnsQuery(q, BootHost)
  BY DEF HandleArp
<1> HIDE DEF r
<1>4. Socket(r)
  BY <1>1, <1>2, SocketFrame
<1>5. Socket(q)
  BY <1>4, SocketSend DEF SendIcmpEcho
<1> HIDE DEF q
<1> QED BY <1>3, <1>5, SocketDnsQuery

\* So does an echo reply.
LEMMA SocketEcho == ASSUME NEW s, Socket(s) PROVE Socket([s EXCEPT !.ping_replied = TRUE])
<1> DEFINE r == [s EXCEPT !.ping_replied = TRUE]
<1>1. IsNet(s) /\ \A x \in s.sent : x.t = "dns" => x.host \in Hosts
  BY DEF Socket
<1>2. IsNet(r) /\ (\A f \in TcpGlobals : r[f] = s[f]) /\ r.sent = s.sent
  BY <1>1 DEF IsNet, Globals, TcpGlobals
<1> HIDE DEF r
<1>3. Socket(r)
  BY <1>1, <1>2, SocketFrame
<1> QED BY <1>3 DEF r

\* And handle_dhcp.
LEMMA SocketDhcp == ASSUME NEW s, Socket(s), NEW m PROVE Socket(HandleDhcp(s, m))
<1>1. IsNet(s) /\ \A x \in s.sent : x.t = "dns" => x.host \in Hosts
  BY DEF Socket
<1> DEFINE o == [s EXCEPT !.offered_ip = m.yiaddr, !.dhcp_requested = TRUE]
           a == [s EXCEPT !.local_ip = m.yiaddr, !.dns_ip = m.dns, !.dhcp_configured = TRUE]
<1>2. IsNet(o) /\ (\A f \in TcpGlobals : o[f] = s[f]) /\ o.sent = s.sent
  BY <1>1 DEF IsNet, Globals, TcpGlobals
<1>3. IsNet(a) /\ (\A f \in TcpGlobals : a[f] = s[f]) /\ a.sent = s.sent
  BY <1>1 DEF IsNet, Globals, TcpGlobals
<1>4. \/ HandleDhcp(s, m) = SendDhcp(o, m.yiaddr)
      \/ HandleDhcp(s, m) = SendArpRequest(a)
      \/ HandleDhcp(s, m) = s
  BY DEF HandleDhcp
<1> HIDE DEF o, a
<1>5. Socket(o) /\ Socket(a)
  BY <1>1, <1>2, <1>3, SocketFrame
<1>6. Socket(SendDhcp(o, m.yiaddr)) /\ Socket(SendArpRequest(a))
  BY <1>5, SocketSend DEF SendDhcp, SendArpRequest
<1> QED BY <1>4, <1>6

-----------------------------------------------------------------------------
(* The body.                                                               *)

\* How much of a payload of d units is stored behind the L of h that fitted.
LEMMA Fits ==
    ASSUME NEW B \in Nat, NEW U \in Nat, NEW L \in Nat, NEW h \in Nat, NEW d \in Nat,
           NEW e \in Nat, L = IF h <= B THEN h ELSE B, h + d + e <= U
    PROVE  LET n == IF d > B - L THEN B - L ELSE d IN
           /\ n \in Nat /\ n <= d
           /\ n <= 0 => n = 0 /\ L = IF h + d <= B THEN h + d ELSE B
           /\ n > 0 => /\ L = h /\ L + n <= B /\ L + n + e <= U
                       /\ L + n = IF h + d <= B THEN h + d ELSE B
OBVIOUS

\* A sequence with the first n elements of another behind it.
LEMMA JoinPrefix ==
    ASSUME NEW S, NEW b \in Seq(S), NEW data \in Seq(S), NEW n \in Nat, n <= Len(data)
    PROVE  LET d == b \o SubSeq(data, 1, n) IN
           /\ d \in Seq(S) /\ Len(d) = Len(b) + n
           /\ \A k \in 1 .. Len(b) : d[k] = b[k]
           /\ \A k \in 1 .. n : d[Len(b) + k] = data[k]
<1> DEFINE sub == SubSeq(data, 1, n)
<1>1. sub \in Seq(S) /\ Len(sub) = n /\ \A k \in 1 .. n : sub[k] = data[k]
  OBVIOUS
<1> HIDE DEF sub
<1>2. /\ b \o sub \in Seq(S) /\ Len(b \o sub) = Len(b) + n
      /\ \A k \in 1 .. Len(b) : (b \o sub)[k] = b[k]
      /\ \A k \in 1 .. n : (b \o sub)[Len(b) + k] = sub[k]
  <2>1. Len(b) \in Nat
    OBVIOUS
  <2>3. \A k \in 1 .. Len(b) : k \in 1 .. Len(b) + n /\ k <= Len(b)
    BY <2>1
  <2>4. b \o sub \in Seq(S) /\ Len(b \o sub) = Len(b) + n
    BY <1>1, ConcatProperties
  <2>5. \A k \in 1 .. Len(b) + n : (b \o sub)[k] = IF k <= Len(b) THEN b[k] ELSE sub[k - Len(b)]
    BY <1>1, ConcatProperties
  <2>6. ASSUME NEW k \in 1 .. n PROVE (b \o sub)[Len(b) + k] = sub[k]
    <3>1. Len(b) + k \in 1 .. Len(b) + n /\ ~(Len(b) + k <= Len(b)) /\ (Len(b) + k) - Len(b) = k
      BY <2>1
    <3> QED BY <2>5, <3>1
  <2> QED BY <2>3, <2>4, <2>5, <2>6
<1> QED BY <1>1, <1>2 DEF sub

\* A payload that comes behind the first h units of a body.
Follows(data, c, e, h) ==
    /\ data \in Seq({c} \X (1 .. Units))
    /\ h + Len(data) + e <= Units
    /\ \A k \in 1 .. Len(data) : data[k] = <<c, h + e + k>>

\* The next bytes of a response behind a piece of its body are a longer piece.
LEMMA JoinPiece ==
    ASSUME NEW c \in Nat, NEW e \in Nat, NEW b, Piece(b, c, e), NEW h, Len(b) = h,
           NEW data, Follows(data, c, e, h), NEW n \in Nat, n <= Len(data), h + n <= BodyMax
    PROVE  LET d == b \o SubSeq(data, 1, n) IN
           Piece(d, c, e) /\ Len(d) = h + n
<1> DEFINE S == {c} \X (1 .. Units)
           d == b \o SubSeq(data, 1, n)
<1>1. b \in Seq(S) /\ data \in Seq(S) /\ \A k \in 1 .. Len(b) : b[k] = <<c, k + e>>
  BY DEF Piece, Follows
<1>7. /\ \A k \in 1 .. Len(data) : data[k] = <<c, Len(b) + e + k>>
      /\ Len(b) + Len(data) + e <= Units
  BY DEF Follows
<1> HIDE DEF S
<1>2. /\ d \in Seq(S) /\ Len(d) = Len(b) + n
      /\ \A k \in 1 .. Len(b) : d[k] = b[k]
      /\ \A k \in 1 .. n : d[Len(b) + k] = data[k]
  <2>1. n \in Nat /\ n <= Len(data)
    OBVIOUS
  <2>2. b \in Seq(S) /\ data \in Seq(S)
    BY <1>1
  <2> QED BY ONLY <2>1, <2>2, JoinPrefix
<1>3. Len(b) \in Nat /\ Len(data) \in Nat
  BY <1>1
<1> HIDE DEF d
<1>4. ASSUME NEW k \in 1 .. Len(d) PROVE d[k] = <<c, k + e>>
  <2>1. CASE k <= Len(b)
    <3>1. k \in 1 .. Len(b)
      BY <1>3, <2>1
    <3> QED BY <1>1, <1>2, <3>1
  <2>2. CASE k > Len(b)
    <3>1. /\ k - Len(b) \in 1 .. n /\ k - Len(b) \in 1 .. Len(data)
          /\ Len(b) + (k - Len(b)) = k /\ Len(b) + e + (k - Len(b)) = k + e
      BY <1>2, <1>3, <2>2
    <3>2. d[k] = data[k - Len(b)]
      BY <1>2, <3>1
    <3>3. data[k - Len(b)] = <<c, Len(b) + e + (k - Len(b))>>
      BY <1>7, <3>1
    <3> QED BY <3>1, <3>2, <3>3
  <2> QED BY <1>2, <1>3, <2>1, <2>2
<1>6. Len(d) <= BodyMax /\ Len(d) + e <= Units
  BY <1>2, <1>3, <1>7, Lengths
<1>5. Piece(d, c, e) /\ Len(d) = h + n
  BY <1>2, <1>4, <1>6 DEF Piece, S
<1> QED BY <1>5 DEF d

\* http_store_body appends what fits and changes nothing else.
LEMMA StoreBody ==
    ASSUME NEW s, IsNet(s), NEW c \in Nat, NEW e \in Nat, NEW h \in Nat,
           Holds(s.http_body, c, e, h),
           NEW data, Follows(data, c, e, h)
    PROVE  LET r == HttpStoreBody(s, data) IN
           /\ IsNet(r)
           /\ \A f \in Globals \ {"http_body"} : r[f] = s[f]
           /\ Holds(r.http_body, c, e, h + Len(data))
<1> DEFINE b == s.http_body
           L == Len(b)
           D == Len(data)
           n == IF D > BodyMax - L THEN BodyMax - L ELSE D
           r == HttpStoreBody(s, data)
           total == IF h + D <= BodyMax THEN h + D ELSE BodyMax
<1>1. L \in Nat /\ D \in Nat
  <2>1. b \in Seq({c} \X (1 .. Units)) /\ data \in Seq({c} \X (1 .. Units))
    BY DEF Piece, Holds, Follows
  <2> QED BY <2>1, LenProperties
<1>2. r = IF n <= 0 THEN s ELSE [s EXCEPT !.http_body = b \o SubSeq(data, 1, n)]
  BY DEF HttpStoreBody
<1>3. L = (IF h <= BodyMax THEN h ELSE BodyMax) /\ h + D + e <= Units
  BY DEF Holds, Follows
<1> HIDE DEF L, D
<1>4. /\ n \in Nat /\ n <= D
      /\ n <= 0 => n = 0 /\ L = total
      /\ n > 0 => L = h /\ L + n <= BodyMax /\ L + n + e <= Units /\ L + n = total
  BY <1>1, <1>3, Lengths, Fits
<1> HIDE DEF n, total
<1>5. CASE n <= 0
  BY <1>2, <1>4, <1>5 DEF L, total, D, Holds
<1>6. CASE n > 0
  <2> DEFINE d == b \o SubSeq(data, 1, n)
  <2>1. L = h /\ L + n <= BodyMax /\ L + n + e <= Units /\ L + n = total /\ n \in Nat /\ n <= D
    BY <1>4, <1>6
  <2>3. Piece(b, c, e) /\ Len(b) = h /\ n <= Len(data) /\ h + n <= BodyMax /\ n \in Nat
    BY <2>1 DEF L, D, Holds
  <2>6. Piece(d, c, e) /\ Len(d) = h + n
    <3> HIDE DEF b
    <3> QED BY <2>3, JoinPiece
  <2>7. Len(d) = total
    BY <2>1, <2>6
  <2>4. r = [s EXCEPT !.http_body = d]
    BY <1>2, <1>6, <2>1
  <2> HIDE DEF d, r
  <2>5. IsNet(r) /\ (\A f \in Globals \ {"http_body"} : r[f] = s[f]) /\ r.http_body = d
    BY <2>4 DEF IsNet, Globals
  <2>8. Holds(r.http_body, c, e, h + D)
    BY <2>5, <2>6, <2>7 DEF Holds, total
  <2> QED BY <2>5, <2>8 DEF r, D
<1> QED BY <1>4, <1>5, <1>6

\* seq numbers the first byte of the c-th response behind its first hb.
NextByte(seq, c, hb) == seq = Isn(c) + 1 + hb

\* The n units of the c-th response behind its first hb.
Run(data, c, hb, n) ==
    /\ data \in Seq({c} \X (1 .. Units)) /\ Len(data) = n
    /\ \A k \in 1 .. n : data[k] = <<c, hb + k>>

\* The units of an in-order payload of the c-th response.
LEMMA PayloadUnits ==
    ASSUME NEW c \in Nat, NEW hb \in Nat, NEW n \in Nat, hb + n <= Units,
           NEW seq, NextByte(seq, c, hb)
    PROVE  Run(Payload(seq, n), c, hb, n)
<1> DEFINE data == Payload(seq, n)
<1>0. seq = Isn(c) + 1 + hb
  BY DEF NextByte
<1>1. Isn(c) \in Nat
  BY IsnNat
<1>2. ConnOf(seq) = c
  <2>1. 1 + hb \in 0 .. Units + 2 /\ Isn(c) + (1 + hb) = seq
    BY <1>0, <1>1, Lengths
  <2>2. ConnOf(Isn(c) + (1 + hb)) = c
    BY <2>1, ConnOfIsn
  <2> QED BY <2>1, <2>2
<1>3. data = [k \in 1 .. n |-> <<ConnOf(seq), seq + k - 1 - Isn(ConnOf(seq))>>]
  BY DEF Payload
<1>4. \A k \in 1 .. n : seq + k - 1 - Isn(c) = hb + k /\ hb + k \in 1 .. Units
  BY <1>0, <1>1, Lengths
<1>5. data = [k \in 1 .. n |-> <<c, hb + k>>]
  BY <1>2, <1>3, <1>4
<1> HIDE DEF data
<1>6. data \in [1 .. n -> {c} \X (1 .. Units)]
  BY <1>4, <1>5
<1>7. data \in Seq({c} \X (1 .. Units)) /\ Len(data) = n
  BY <1>6
<1> QED BY <1>5, <1>7 DEF data, Run

\* Every set of natural numbers that is not empty has a least element, and Min
\* is it.
LEMMA LeastNat ==
    ASSUME NEW S \in SUBSET Nat, S # {}
    PROVE  Min(S) \in S /\ \A y \in S : Min(S) <= y
<1> DEFINE R == OpToRel(<, Nat)
<1>1. IsWellFoundedOn(R, Nat)
  BY NatLessThanWellFounded
<1>2. \A x, y \in Nat : <<x, y>> \in R <=> x < y
  BY DEF OpToRel
<1> HIDE DEF R
<1>3. PICK x \in S : \A y \in S : ~ (<<y, x>> \in R)
  BY <1>1, WFMin
<1>4. \A y \in S : ~ (y < x)
  BY <1>2, <1>3
<1>5. \E z \in S : \A y \in S : z <= y
  BY <1>4
<1> QED BY <1>5 DEF Min

\* http_process_payload: the body begins behind the first blank line that lies
\* in one payload, and grows by every payload after that; the header's own
\* blank line is missed only when a payload ends inside it.
LEMMA ProcessPayload ==
    ASSUME NEW s, IsNet(s), NEW c \in Nat, Download(s, c), s.split \in BOOLEAN,
           NEW n \in Nat, n > 0, s.http_bytes + n <= Units
    PROVE  LET r == HttpProcessPayload(s, Payload(s.ack, n)) IN
           /\ IsNet(r) /\ r.split \in BOOLEAN
           /\ \A f \in Globals \ {"http_body", "headers_done", "split"} : r[f] = s[f]
           /\ r.headers_done =>
                \E e \in 2 .. Units : /\ Ends(e, r.split) /\ s.http_bytes + n >= e
                                      /\ Holds(r.http_body, c, e, s.http_bytes + n - e)
           /\ ~r.headers_done => r.http_body = << >> /\ r.split
<1> DEFINE hb == s.http_bytes
           data == Payload(s.ack, n)
           r == HttpProcessPayload(s, data)
           T == {c} \X (1 .. Units)
           lines == BlankLines(data)
<1>1. /\ hb \in 0 .. Units /\ hb \in Nat /\ s.ack = Isn(c) + 1 + hb
      /\ s.headers_done => Reading(s, c)
      /\ ~s.headers_done => s.http_body = << >> /\ (hb = 0 \/ s.split)
  BY Lengths DEF Download
<1>2. data \in Seq(T) /\ Len(data) = n /\ \A k \in 1 .. n : data[k] = <<c, hb + k>>
  <2> HIDE DEF hb
  <2>1. hb + n <= Units
    BY DEF hb
  <2>2. NextByte(s.ack, c, hb)
    BY <1>1 DEF NextByte
  <2>3. hb \in Nat
    BY <1>1
  <2> HIDE DEF data
  <2>4. Run(data, c, hb, n)
    BY <2>1, <2>2, <2>3, PayloadUnits DEF data
  <2> QED BY <2>4 DEF Run
<1> DEFINE s0 == [s EXCEPT !.split = @ \/ data[Len(data)][2] = 1]
           s1 == [s EXCEPT !.headers_done = TRUE]
           rest == SubSeq(data, Min(lines) + 2, Len(data))
<1>3. r = IF s.headers_done THEN HttpStoreBody(s, data)
          ELSE IF lines = {} THEN s0 ELSE HttpStoreBody(s1, rest)
  BY DEF HttpProcessPayload
<1>4. hb + n <= Units
  OBVIOUS
<1>5. \A k \in 1 .. n - 1 : k \in lines <=> {hb + k, hb + k + 1} \subseteq Crlf
  <2> SUFFICES ASSUME NEW k \in 1 .. n - 1 PROVE k \in lines <=> {hb + k, hb + k + 1} \subseteq Crlf
    OBVIOUS
  <2>1. k \in 1 .. n /\ k + 1 \in 1 .. n /\ hb + (k + 1) = hb + k + 1
    BY <1>1
  <2> HIDE DEF hb, data
  <2>2. data[k][2] = hb + k /\ data[k + 1][2] = hb + k + 1
    BY <1>2, <2>1
  <2> QED BY <1>2, <2>2 DEF BlankLines
<1>6. lines \in SUBSET (1 .. n - 1)
  <2> HIDE DEF data
  <2> QED BY <1>2 DEF BlankLines
<1> HIDE DEF data, r, lines, hb
<1>7. CASE s.headers_done
  <2>1. PICK e \in 2 .. Units : Ends(e, s.split) /\ hb >= e /\ Holds(s.http_body, c, e, hb - e)
    BY <1>1, <1>7 DEF Reading, hb
  <2> DEFINE h == hb - e
  <2>2. /\ e \in Nat /\ h \in Nat /\ h + Len(data) + e <= Units /\ h + e = hb
        /\ h + Len(data) = hb + n - e /\ hb + n >= e
    BY <1>1, <1>2, <1>4, <2>1, Lengths
  <2>3. Holds(s.http_body, c, e, h)
    BY <2>1
  <2>4. Follows(data, c, e, h)
    BY <1>2, <2>2 DEF Follows
  <2> HIDE DEF h
  <2>5. LET q == HttpStoreBody(s, data) IN
        /\ IsNet(q) /\ \A f \in Globals \ {"http_body"} : q[f] = s[f]
        /\ Holds(q.http_body, c, e, h + Len(data))
    BY <2>2, <2>3, <2>4, StoreBody
  <2>6. r = HttpStoreBody(s, data)
    BY <1>3, <1>7
  <2>7. /\ IsNet(r) /\ \A f \in Globals \ {"http_body"} : r[f] = s[f]
        /\ Holds(r.http_body, c, e, hb + n - e)
    BY <2>2, <2>5, <2>6
  <2>8. r.headers_done = s.headers_done /\ r.split = s.split
    BY <2>7 DEF Globals
  <2> QED BY <1>7, <2>1, <2>2, <2>7, <2>8 DEF r, data, hb
<1>8. CASE ~s.headers_done /\ lines = {}
  <2>1. r = s0
    BY <1>3, <1>8
  <2> DEFINE x == data[Len(data)][2] = 1
  <2>2. /\ IsNet(r) /\ r.split = (s.split \/ x) /\ r.headers_done = s.headers_done
        /\ r.http_body = s.http_body /\ \A f \in Globals \ {"split"} : r[f] = s[f]
    <3> HIDE DEF x
    <3>1. r = [s EXCEPT !.split = s.split \/ x]
      BY <2>1 DEF x
    <3> QED BY <3>1 DEF IsNet, Globals
  <2>3. hb = 0 => x
    <3> SUFFICES ASSUME hb = 0 PROVE x
      OBVIOUS
    <3>1. n = 1
      <4> SUFFICES ASSUME n > 1 PROVE FALSE
        OBVIOUS
      <4>1. 1 \in 1 .. n - 1 /\ {hb + 1, hb + 1 + 1} \subseteq Crlf
        BY NetSizes
      <4> QED BY <1>5, <1>8, <4>1
    <3> QED BY <1>2, <3>1
  <2> HIDE DEF x
  <2>4. r.split \in BOOLEAN /\ r.split
    BY <1>1, <1>8, <2>2, <2>3
  <2> QED BY <1>1, <1>8, <2>2, <2>4 DEF r, data
<1>9. CASE ~s.headers_done /\ lines # {}
  <2> DEFINE l == Min(lines)
             e == hb + l + 1
  <2>0. lines \in SUBSET Nat /\ lines # {}
    BY <1>6, <1>9
  <2>1. l \in lines /\ l \in 1 .. n - 1 /\ \A y \in lines : l <= y
    <3>1. Min(lines) \in lines /\ \A y \in lines : Min(lines) <= y
      BY <2>0, LeastNat
    <3> QED BY <1>6, <3>1
  <2>2. {hb + l, hb + l + 1} \subseteq Crlf
    BY <1>5, <2>1
  <2> HIDE DEF l
  <2>3. /\ e \in 2 .. Units /\ e \in Nat /\ e - 1 = hb + l /\ hb + n >= e /\ n - (l + 1) = hb + n - e
        /\ l + 2 \in 2 .. n + 1 /\ n - (l + 1) \in Nat
    BY <1>1, <1>4, <2>1, Lengths
  <2>4. hb = 0 => e = 2
    <3> SUFFICES ASSUME hb = 0 PROVE l = 1
      OBVIOUS
    <3>1. 1 \in 1 .. n - 1 /\ {hb + 1, hb + 1 + 1} \subseteq Crlf
      BY <2>1, NetSizes
    <3>2. 1 \in lines
      BY <1>5, <3>1
    <3> QED BY <2>1, <3>2
  <2>5. Ends(e, s.split)
    BY <1>1, <1>9, <2>2, <2>3, <2>4 DEF Ends
  <2>6. IsNet(s1) /\ s1.headers_done = TRUE /\ \A f \in Globals \ {"headers_done"} : s1[f] = s[f]
    BY DEF IsNet, Globals
  <2>7. /\ rest \in Seq(T) /\ Len(rest) = n - (l + 1)
        /\ \A j \in 1 .. n - (l + 1) : rest[j] = data[j + (l + 1)]
    <3> HIDE DEF T
    <3>1. rest = SubSeq(data, l + 2, n)
      BY <1>2 DEF l
    <3> HIDE DEF rest, data
    <3> DEFINE a == l + 2
    <3>2. /\ l \in Nat /\ a \in 1 .. n + 1 /\ n - a + 1 = n - (l + 1) /\ a \in Nat
          /\ \A j \in 1 .. n - (l + 1) : a + j - 1 = j + (l + 1) /\ j + (l + 1) \in 1 .. n
      BY <1>2, <2>1, <2>3, Lengths
    <3> HIDE DEF a
    <3>3. /\ SubSeq(data, a, n) \in Seq(T) /\ Len(SubSeq(data, a, n)) = n - a + 1
          /\ \A j \in 1 .. n - a + 1 : SubSeq(data, a, n)[j] = data[a + j - 1]
      BY <1>2, <3>2
    <3>4. rest = SubSeq(data, a, n)
      BY <3>1 DEF a
    <3> QED BY <3>2, <3>3, <3>4
  <2>8. \A j \in 1 .. Len(rest) : rest[j] = <<c, 0 + e + j>>
    <3> SUFFICES ASSUME NEW j \in 1 .. Len(rest) PROVE rest[j] = <<c, 0 + e + j>>
      OBVIOUS
    <3>1. j \in 1 .. n - (l + 1) /\ j + (l + 1) \in 1 .. n /\ hb + (j + (l + 1)) = 0 + e + j
      BY <1>1, <2>1, <2>3, <2>7
    <3> HIDE DEF rest, e
    <3> QED BY <1>2, <2>7, <3>1
  <2> HIDE DEF s1, rest, e
  <2>9. /\ s1.http_body = << >> /\ Len(s1.http_body) = 0 /\ s1.split = s.split
        /\ << >> \in Seq(T)
    BY <1>1, <1>9, <2>6 DEF Globals
  <2>10. 0 + Len(rest) + e <= Units /\ 0 + Len(rest) = hb + n - e
    BY <1>1, <1>4, <2>3, <2>7, Lengths
  <2>11. Piece(s1.http_body, c, e)
    BY <2>3, <2>9, Lengths DEF Piece
  <2>12. Holds(s1.http_body, c, e, 0) /\ Follows(rest, c, e, 0)
    BY <2>7, <2>8, <2>9, <2>10, <2>11, Lengths DEF Holds, Follows
  <2>13. LET q == HttpStoreBody(s1, rest) IN
        /\ IsNet(q) /\ \A f \in Globals \ {"http_body"} : q[f] = s1[f]
        /\ Holds(q.http_body, c, e, 0 + Len(rest))
    BY <2>3, <2>6, <2>12, StoreBody
  <2>14. r = HttpStoreBody(s1, rest)
    BY <1>3, <1>9
  <2>15. /\ IsNet(r) /\ \A f \in Globals \ {"http_body"} : r[f] = s1[f]
         /\ Holds(r.http_body, c, e, hb + n - e)
    BY <2>10, <2>13, <2>14
  <2>16. /\ r.headers_done /\ r.split = s.split
         /\ \A f \in Globals \ {"http_body", "headers_done"} : r[f] = s[f]
    BY <2>6, <2>9, <2>15 DEF Globals
  <2> QED BY <2>3, <2>5, <2>15, <2>16 DEF r, data, hb
<1> QED BY <1>7, <1>8, <1>9

-----------------------------------------------------------------------------
(* Handlers that change the connection.                                    *)

\* tcp_http_start opens a connection from state 0 only, so nothing of an
\* earlier one is left in the globals it does not reset.
LEMMA SocketStart ==
    ASSUME NEW s, Socket(s), NEW ip \in Hosts
    PROVE  Socket(TcpHttpStart(s, ip))
<1>1. CASE ~s.gateway_known \/ s.tcp_state # 0
  BY <1>1 DEF TcpHttpStart
<1>2. CASE ~(~s.gateway_known \/ s.tcp_state # 0)
  <2> DEFINE r == TcpHttpStart(s, ip)
  <2>1. IsNet(s) /\ s.conns \in Seq(Hosts) /\ s.tcp_state = 0 /\ ~s.headers_done /\ s.http_body = << >>
        /\ ~s.split /\ s.split \in BOOLEAN
    BY <1>2 DEF Socket
  <2>2. \A m \in s.sent : m.t = "dns" => m.host \in Hosts
    BY DEF Socket
  <2>3. /\ IsNet(r) /\ r.remote_ip = ip /\ r.seq = 0 /\ r.ack = 0 /\ r.wait_ticks = 0
        /\ r.retries = 0 /\ r.http_bytes = 0 /\ r.tcp_state = 1 /\ r.conns = Append(s.conns, ip)
        /\ r.sent = s.sent /\ r.headers_done = s.headers_done /\ r.http_body = s.http_body /\ r.split = s.split
    BY <1>2, <2>1 DEF TcpHttpStart, IsNet, Globals
  <2> HIDE DEF r
  <2>4. r.conns \in Seq(Hosts) /\ Len(r.conns) \in Nat
    BY <2>1, <2>3
  <2>5. 0 \in 0 .. Len(r.conns) /\ r.ack \in Isn(0) .. Isn(0) + Units + 2
    <3>1. Isn(0) = 0
      BY Lengths DEF Isn, Stride
    <3> QED BY <2>3, <2>4, <3>1, Lengths
  <2>6. 0 \in 0 .. RetryTicks - 1 /\ 0 \in 0 .. MaxRetries
    BY NetSizes
  <2>7. Socket(r)
    BY <2>1, <2>2, <2>3, <2>4, <2>5, <2>6 DEF Socket
  <2> QED BY <2>7 DEF r
<1> QED BY <1>1, <1>2

\* handle_dns connects to the address of an answer.
LEMMA SocketDns ==
    ASSUME NEW s, Socket(s), NEW m, m.t = "dns", Expected(s, m)
    PROVE  Socket(HandleDns(s, m))
<1>1. CASE m.ip = None
  BY <1>1 DEF HandleDns
<1>2. CASE m.ip # None
  <2> DEFINE r == [s EXCEPT !.dns_answer_ip = m.ip, !.http_host = s.dns_host]
  <2>1. IsNet(s) /\ \A x \in s.sent : x.t = "dns" => x.host \in Hosts
    BY DEF Socket
  <2>2. m.ip \in Hosts
    BY <1>2, <2>1 DEF Expected
  <2>3. IsNet(r) /\ (\A f \in TcpGlobals : r[f] = s[f]) /\ r.sent = s.sent
    BY <2>1 DEF IsNet, Globals, TcpGlobals
  <2>4. HandleDns(s, m) = TcpHttpStart(r, m.ip)
    BY <1>2 DEF HandleDns
  <2> HIDE DEF r
  <2>5. Socket(r)
    BY <2>1, <2>3, SocketFrame
  <2> QED BY <2>2, <2>4, <2>5, SocketStart
<1> QED BY <1>1, <1>2

\* tcp_poll_retransmit moves the timers, and gives up in state 7.
LEMMA SocketRetransmit ==
    ASSUME NEW s, Socket(s)
    PROVE  Socket(TcpPollRetransmit(s))
<1> DEFINE r == TcpPollRetransmit(s)
<1>1. /\ IsNet(s) /\ s.wait_ticks \in 0 .. RetryTicks - 1 /\ s.retries \in 0 .. MaxRetries
      /\ s.tcp_state \in {0, 1, 3, 4, 5, 6, 7}
  BY DEF Socket
<1>2. /\ RetryTicks \in Nat /\ RetryTicks > 0 /\ MaxRetries \in Nat
  BY NetSizes
<1>3. /\ IsNet(r) /\ r.wait_ticks \in 0 .. RetryTicks - 1 /\ r.retries \in 0 .. MaxRetries
      /\ r.tcp_state = s.tcp_state \/ r.tcp_state = 7
      /\ \A f \in Globals \ {"wait_ticks", "retries", "tcp_state"} : r[f] = s[f]
  <2>1. CASE r = s
    BY <1>1, <2>1
  <2>2. CASE s.wait_ticks + 1 < RetryTicks /\ r = [s EXCEPT !.wait_ticks = s.wait_ticks + 1]
    <3> HIDE DEF r
    <3>1. /\ IsNet(r) /\ r.wait_ticks = s.wait_ticks + 1
          /\ \A f \in Globals \ {"wait_ticks"} : r[f] = s[f]
      BY <1>1, <2>2 DEF IsNet, Globals
    <3>2. s.wait_ticks + 1 \in 0 .. RetryTicks - 1
      BY <1>1, <1>2, <2>2
    <3> QED BY <1>1, <3>1, <3>2 DEF Globals
  <2>3. CASE r = [s EXCEPT !.wait_ticks = 0, !.tcp_state = 7]
    <3> HIDE DEF r
    <3>1. /\ IsNet(r) /\ r.wait_ticks = 0 /\ r.tcp_state = 7
          /\ \A f \in Globals \ {"wait_ticks", "tcp_state"} : r[f] = s[f]
      BY <1>1, <2>3 DEF IsNet, Globals
    <3> QED BY <1>1, <1>2, <3>1 DEF Globals
  <2>4. CASE ~(s.retries >= MaxRetries) /\ r = [s EXCEPT !.wait_ticks = 0, !.retries = s.retries + 1]
    <3> HIDE DEF r
    <3>1. /\ IsNet(r) /\ r.wait_ticks = 0 /\ r.retries = s.retries + 1
          /\ \A f \in Globals \ {"wait_ticks", "retries"} : r[f] = s[f]
      BY <1>1, <2>4 DEF IsNet, Globals
    <3>2. s.retries + 1 \in 0 .. MaxRetries
      BY <1>1, <1>2, <2>4
    <3> QED BY <1>1, <1>2, <3>1, <3>2 DEF Globals
  <2> QED BY <2>1, <2>2, <2>3, <2>4 DEF TcpPollRetransmit
<1> HIDE DEF r
<1>4. /\ r.remote_ip = s.remote_ip /\ r.seq = s.seq /\ r.ack = s.ack /\ r.http_bytes = s.http_bytes
      /\ r.headers_done = s.headers_done /\ r.http_body = s.http_body /\ r.split = s.split /\ r.conns = s.conns
      /\ r.sent = s.sent
  BY <1>3 DEF Globals
<1>5. Socket(r)
  BY <1>3, <1>4 DEF Socket, Download, Reading, Shown
<1> QED BY <1>5 DEF r

\* net_http_reset forgets the connection.
LEMMA SocketReset ==
    ASSUME NEW s, Socket(s), NEW h
    PROVE  Socket([NetHttpReset(s) EXCEPT !.http_host = h])
<1> DEFINE r == [NetHttpReset(s) EXCEPT !.http_host = h]
<1>1. IsNet(s) /\ s.conns \in Seq(Hosts) /\ \A m \in s.sent : m.t = "dns" => m.host \in Hosts
  BY DEF Socket
<1>2. /\ IsNet(r) /\ r.remote_ip = None /\ r.seq = 0 /\ r.ack = 0 /\ r.wait_ticks = 0
      /\ r.retries = 0 /\ r.http_bytes = 0 /\ r.tcp_state = 0 /\ r.conns = s.conns
      /\ r.sent = s.sent /\ r.headers_done = FALSE /\ r.http_body = << >> /\ r.split = FALSE
  BY <1>1 DEF NetHttpReset, IsNet, Globals
<1> HIDE DEF r
<1>3. 0 \in 0 .. Len(r.conns) /\ r.ack \in Isn(0) .. Isn(0) + Units + 2
  <2>1. Isn(0) = 0 /\ Len(r.conns) \in Nat
    BY <1>1, <1>2, Lengths DEF Isn, Stride
  <2> QED BY <1>2, <2>1, Lengths
<1>4. 0 \in 0 .. RetryTicks - 1 /\ 0 \in 0 .. MaxRetries
  BY NetSizes
<1>6. r.split \in BOOLEAN
  BY <1>2, Zenon
<1>5. Socket(r)
  BY <1>1, <1>2, <1>3, <1>4, <1>6 DEF Socket
<1> QED BY <1>5 DEF r

\* A connection that is open is reset or closed; what was read is kept.
LEMMA SocketClose ==
    ASSUME NEW s, Socket(s), s.tcp_state # 0, NEW r, IsNet(r), r.tcp_state \in {5, 6},
           \A f \in Globals \ {"tcp_state", "ack"} : r[f] = s[f],
           \E c \in 0 .. Len(s.conns) : r.ack \in Isn(c) .. Isn(c) + Units + 2
    PROVE  Socket(r)
<1>1. /\ r.remote_ip = s.remote_ip /\ r.seq = s.seq /\ r.wait_ticks = s.wait_ticks
      /\ r.retries = s.retries /\ r.http_bytes = s.http_bytes /\ r.sent = s.sent
      /\ r.headers_done = s.headers_done /\ r.http_body = s.http_body /\ r.split = s.split /\ r.conns = s.conns
  BY DEF Globals
<1> QED BY <1>1 DEF Socket, Shown

\* Numbers within a connection.
LEMMA Offsets ==
    ASSUME NEW I \in Nat, NEW lo \in Nat, NEW n \in Nat, lo + n <= Units + 1
    PROVE  /\ (I + lo) + n = I + (lo + n)
           /\ (I + lo) + n + 1 \in I .. I + Units + 2
           /\ I + lo \in I .. I + Units + 2
           /\ \A hb \in Nat : lo = 1 + hb => (I + lo) + n = I + 1 + (hb + n)
BY Lengths

\* A payload is taken: only the next one in order of the connection being read.
LEMMA Accept ==
    ASSUME NEW s, Socket(s), s.tcp_state \in {3, 4}, NEW m, NEW c \in Nat, NEW lo \in Nat,
           Segment(s, m, c, lo), m.n > 0, m.seq = s.ack
    PROVE  LET r == TcpAccept(s, m) IN
           /\ IsNet(r) /\ r.tcp_state = 4 /\ r.split \in BOOLEAN
           /\ \A f \in Globals \ {"tcp_state", "ack", "http_bytes", "http_ok", "http_body", "headers_done", "split"} :
                 r[f] = s[f]
           /\ Download(r, c)
<1> DEFINE q == HttpProcessPayload(s, Payload(s.ack, m.n))
           r == TcpAccept(s, m)
<1>1. PICK d \in 1 .. Len(s.conns) : Download(s, d)
  BY DEF Socket
<1>2. IsNet(s) /\ s.conns \in Seq(Hosts) /\ Len(s.conns) \in Nat /\ d \in Nat /\ s.split \in BOOLEAN
  BY DEF Socket
<1>3. s.http_bytes \in 0 .. Units /\ s.http_bytes \in Nat /\ s.ack = Isn(d) + 1 + s.http_bytes
  BY <1>1, Lengths DEF Download
<1>4. /\ m.n \in Nat /\ m.seq = Isn(c) + lo /\ lo \in 1 .. Units + 1 /\ lo + m.n <= Units + 1
  BY DEF Segment
<1>5. c = d /\ lo = 1 + s.http_bytes
  <2> DEFINE x == 1 + s.http_bytes
  <2>1. x \in 0 .. Units + 2 /\ lo \in 0 .. Units + 2
    BY <1>3, <1>4, Lengths
  <2>2. Isn(d) \in Nat
    BY <1>2, IsnNat
  <2>3. Isn(c) + lo = Isn(d) + x
    BY <1>3, <1>4, <2>2
  <2> HIDE DEF x
  <2>4. c = d /\ lo = x
    BY <1>2, <2>1, <2>3, OneByte
  <2> QED BY <2>4 DEF x
<1>6. s.http_bytes + m.n <= Units
  BY <1>3, <1>4, <1>5, Lengths
<1>7. /\ IsNet(q) /\ q.split \in BOOLEAN
      /\ \A f \in Globals \ {"http_body", "headers_done", "split"} : q[f] = s[f]
      /\ q.headers_done =>
           \E e \in 2 .. Units : /\ Ends(e, q.split) /\ s.http_bytes + m.n >= e
                                 /\ Holds(q.http_body, c, e, s.http_bytes + m.n - e)
      /\ ~q.headers_done => q.http_body = << >> /\ q.split
  <2>1. Download(s, c)
    BY <1>1, <1>5
  <2>2. m.n \in Nat
    BY <1>4
  <2> QED BY <1>2, <1>6, <2>1, <2>2, ProcessPayload
<1>8. r = [q EXCEPT !.http_bytes = q.http_bytes + m.n, !.ack = m.seq + m.n,
                    !.http_ok = TRUE, !.tcp_state = 4]
  BY DEF TcpAccept
<1> HIDE DEF q, r
<1>9. /\ IsNet(r) /\ r.tcp_state = 4 /\ r.ack = m.seq + m.n
      /\ r.http_bytes = q.http_bytes + m.n /\ q.http_bytes = s.http_bytes
      /\ r.http_body = q.http_body /\ r.headers_done = q.headers_done /\ r.split = q.split
      /\ \A f \in Globals \ {"tcp_state", "ack", "http_bytes", "http_ok", "http_body", "headers_done", "split"} :
            r[f] = s[f]
  BY <1>7, <1>8 DEF IsNet, Globals
<1>10. r.ack = Isn(c) + 1 + r.http_bytes /\ r.http_bytes \in 0 .. Units
  <2>1. Isn(c) \in Nat
    BY IsnNat
  <2>2. r.ack = (Isn(c) + lo) + m.n /\ r.http_bytes = s.http_bytes + m.n
    BY <1>4, <1>9
  <2>3. (Isn(c) + lo) + m.n = Isn(c) + 1 + (s.http_bytes + m.n)
    BY <1>3, <1>4, <1>5, <2>1, Offsets
  <2>4. s.http_bytes + m.n \in 0 .. Units
    BY <1>3, <1>4, <1>6, Lengths
  <2> QED BY <2>2, <2>3, <2>4
<1>11. r.http_bytes = s.http_bytes + m.n
  BY <1>9
<1>12. Download(r, c)
  <2>2. ASSUME r.headers_done PROVE Reading(r, c)
    <3>1. q.headers_done
      BY <1>9, <2>2
    <3>2. PICK e \in 2 .. Units : /\ Ends(e, q.split) /\ s.http_bytes + m.n >= e
                                  /\ Holds(q.http_body, c, e, s.http_bytes + m.n - e)
      BY <1>7, <3>1
    <3>3. Ends(e, r.split) /\ r.http_bytes >= e /\ Holds(r.http_body, c, e, r.http_bytes - e)
      <4>1. r.split = q.split /\ r.http_bytes = s.http_bytes + m.n /\ r.http_body = q.http_body
        BY <1>9, <1>11
      <4>2. Ends(e, r.split)
        BY <3>2, <4>1, Zenon
      <4>3. r.http_bytes >= e /\ Holds(r.http_body, c, e, r.http_bytes - e)
        <5>1. s.http_bytes \in Nat /\ m.n \in Nat /\ e \in Nat
          BY <1>3, <1>4, Lengths
        <5>2. s.http_bytes + (m.n - e) = r.http_bytes - e /\ r.http_bytes >= e
          BY <3>2, <4>1, <5>1
        <5> QED BY <3>2, <4>1, <5>2
      <4> HIDE DEF r
      <4> QED BY <4>2, <4>3
    <3> QED BY <3>3 DEF Reading
  <2>3. ~r.headers_done => r.http_body = << >> /\ r.split
    BY <1>7, <1>9
  <2> QED BY <1>10, <2>2, <2>3 DEF Download
<1> QED BY <1>7, <1>9, <1>12 DEF r

\* A state reached by taking a payload of the c-th connection.
LEMMA SocketAccept ==
    ASSUME NEW s, Socket(s), NEW c \in 1 .. Len(s.conns), NEW r, IsNet(r), s.tcp_state \in {3, 4},
           r.tcp_state = 4, Download(r, c), r.split \in BOOLEAN,
           \A f \in Globals \ {"tcp_state", "ack", "http_bytes", "http_ok", "http_body", "headers_done", "split"} :
                 r[f] = s[f]
    PROVE  Socket(r)
<1>1. /\ r.remote_ip = s.remote_ip /\ r.seq = s.seq /\ r.wait_ticks = s.wait_ticks
      /\ r.retries = s.retries /\ r.sent = s.sent /\ r.conns = s.conns
  BY DEF Globals
<1>2. /\ r.http_bytes \in 0 .. Units /\ r.ack = Isn(c) + 1 + r.http_bytes
      /\ r.http_body = << >> \/ Shown(r, c)
  BY DEF Download, Reading, Shown, Holds
<1>3. s.conns \in Seq(Hosts) /\ Len(s.conns) \in Nat /\ c \in Nat /\ c \in 0 .. Len(s.conns)
  BY DEF Socket
<1>4. r.ack \in Isn(c) .. Isn(c) + Units + 2
  <2>1. Isn(c) \in Nat
    BY <1>3, IsnNat
  <2> DEFINE x == r.http_bytes
             I == Isn(c)
  <2>2. x \in 0 .. Units /\ r.ack = I + 1 + x /\ I \in Nat
    BY <1>2, <2>1
  <2> HIDE DEF x, I
  <2>3. r.ack \in I .. I + Units + 2
    BY <2>2, Lengths
  <2> QED BY <2>3 DEF I
<1> QED BY <1>1, <1>2, <1>3, <1>4 DEF Socket

\* The answer to the SYN: the GET goes out and reading begins at the first byte.
LEMMA SocketSynAck ==
    ASSUME NEW s, Socket(s), s.tcp_state = 1, NEW m, NEW c \in Nat, NEW lo \in Nat,
           Segment(s, m, c, lo), m.kind = "synack"
    PROVE  Socket(TcpHttpSendGet([s EXCEPT !.seq = @ + 1, !.ack = m.seq + 1]))
<1> DEFINE r == TcpHttpSendGet([s EXCEPT !.seq = @ + 1, !.ack = m.seq + 1])
<1>1. /\ IsNet(s) /\ s.seq = 0 /\ s.http_bytes = 0 /\ ~s.headers_done /\ s.http_body = << >>
      /\ s.split \in BOOLEAN /\ s.conns \in Seq(Hosts) /\ s.remote_ip \in Hosts \cup {None}
      /\ \A x \in s.sent : x.t = "dns" => x.host \in Hosts
  BY DEF Socket
<1>2. m.seq = Isn(c) + 0 /\ c \in 1 .. Len(s.conns) /\ Isn(c) \in Nat /\ Len(s.conns) \in Nat
  <2>1. Isn(c) \in Nat /\ Len(s.conns) \in Nat
    BY <1>1, IsnNat
  <2> QED BY <2>1 DEF Segment
<1>3. /\ IsNet(r) /\ r.seq = s.seq + 1 + 1 /\ r.ack = m.seq + 1 /\ r.wait_ticks = 0 /\ r.retries = 0
      /\ r.tcp_state = 3 /\ r.sent = s.sent \cup {[t |-> "get", ack |-> m.seq + 1]}
      /\ r.http_bytes = s.http_bytes /\ r.headers_done = s.headers_done
      /\ r.split = s.split /\ r.http_body = s.http_body /\ r.conns = s.conns /\ r.remote_ip = s.remote_ip
  BY <1>1 DEF TcpHttpSendGet, SendTcpSegment, Rtl8139Send, IsNet, Globals
<1> HIDE DEF r
<1>4. r.seq \in 0 .. 2 /\ r.ack = Isn(c) + 1 + r.http_bytes /\ r.http_bytes \in 0 .. Units
  BY <1>1, <1>2, <1>3, Lengths
<1>6. Download(r, c)
  BY <1>1, <1>3, <1>4 DEF Download
<1>7. c \in 0 .. Len(r.conns) /\ r.ack \in Isn(c) .. Isn(c) + Units + 2
  BY <1>2, <1>3, <1>4, Lengths
<1>8. \A x \in r.sent : x.t = "dns" => x.host \in Hosts
  BY <1>1, <1>3
<1>9. 0 \in 0 .. RetryTicks - 1 /\ 0 \in 0 .. MaxRetries
  BY NetSizes
<1>10. c \in 1 .. Len(r.conns) /\ r.conns \in Seq(Hosts) /\ r.remote_ip \in Hosts \cup {None}
  BY <1>1, <1>2, <1>3
<1>11. Socket(r)
  BY <1>1, <1>3, <1>4, <1>6, <1>7, <1>8, <1>9, <1>10 DEF Socket
<1> QED BY <1>11 DEF r

\* handle_tcp, whatever segment of whatever connection arrives.
LEMMA SocketTcp ==
    ASSUME NEW s, Socket(s), NEW m, NEW c \in Nat, NEW lo \in Nat, Segment(s, m, c, lo)
    PROVE  Socket(HandleTcp(s, m))
<1> DEFINE takes == s.tcp_state \in {3, 4} /\ m.n > 0
           s1 == IF takes THEN TcpAccept(s, m) ELSE s
           f1 == [s1 EXCEPT !.ack = m.seq + m.n + 1, !.tcp_state = 6]
<1>1. IsNet(s) /\ s.conns \in Seq(Hosts) /\ Len(s.conns) \in Nat
  BY DEF Socket
<1>2. c \in 1 .. Len(s.conns) /\ m.src = s.conns[c] /\ m.src \in Hosts /\ m.n \in Nat
  BY <1>1 DEF Segment
<1>3. CASE m.src # s.remote_ip
  BY <1>3 DEF HandleTcp
<1>4. CASE m.src = s.remote_ip /\ m.kind = "rst"
  <2> DEFINE r == [s EXCEPT !.tcp_state = 5]
  <2>1. HandleTcp(s, m) = r
    BY <1>4 DEF HandleTcp
  <2>2. s.tcp_state # 0
    BY <1>2, <1>4, NetSizes DEF Socket
  <2>3. IsNet(r) /\ r.tcp_state = 5 /\ r.ack = s.ack /\ \A f \in Globals \ {"tcp_state", "ack"} : r[f] = s[f]
    BY <1>1 DEF IsNet, Globals
  <2> HIDE DEF r
  <2>4. \E d \in 0 .. Len(s.conns) : r.ack \in Isn(d) .. Isn(d) + Units + 2
    BY <2>3 DEF Socket
  <2> QED BY <2>1, <2>2, <2>3, <2>4, SocketClose
<1>5. CASE /\ m.src = s.remote_ip /\ m.kind # "rst"
           /\ s.tcp_state = 1 /\ m.kind = "synack" /\ m.ack = s.seq + 1
  <2>1. HandleTcp(s, m) = TcpHttpSendGet([s EXCEPT !.seq = @ + 1, !.ack = m.seq + 1])
    BY <1>5 DEF HandleTcp
  <2> QED BY <1>5, <2>1, SocketSynAck
<1>6. CASE /\ m.src = s.remote_ip /\ m.kind # "rst"
           /\ ~(s.tcp_state = 1 /\ m.kind = "synack" /\ m.ack = s.seq + 1)
  <2>1. HandleTcp(s, m) = IF m.fin /\ ~(takes /\ m.seq # s.ack) THEN f1 ELSE s1
    BY <1>6 DEF HandleTcp
  <2>2. s.tcp_state # 0
    BY <1>2, <1>6, NetSizes DEF Socket
  <2>3. Socket(s1) /\ s1.tcp_state # 0 /\ s1.conns = s.conns
    <3>1. CASE takes /\ m.seq = s.ack
      <4> DEFINE r == TcpAccept(s, m)
      <4>1. /\ IsNet(r) /\ r.tcp_state = 4 /\ Download(r, c) /\ r.split \in BOOLEAN
            /\ \A f \in Globals \ {"tcp_state", "ack", "http_bytes", "http_ok", "http_body", "headers_done", "split"} :
                 r[f] = s[f]
        BY <3>1, Accept
      <4>2. s1 = r
        BY <3>1
      <4> HIDE DEF r, s1
      <4>3. Socket(r)
        BY <1>2, <3>1, <4>1, SocketAccept
      <4>4. r.conns = s.conns
        BY <4>1 DEF Globals
      <4> QED BY <4>1, <4>2, <4>3, <4>4
    <3>2. CASE ~(takes /\ m.seq = s.ack)
      <4>1. s1 = s
        BY <3>2 DEF TcpAccept
      <4> QED BY <2>2, <4>1
    <3> QED BY <3>1, <3>2
  <2>4. CASE ~(m.fin /\ ~(takes /\ m.seq # s.ack))
    BY <2>1, <2>3, <2>4
  <2>5. CASE m.fin /\ ~(takes /\ m.seq # s.ack)
    <3> HIDE DEF s1
    <3>1. IsNet(s1)
      BY <2>3 DEF Socket
    <3>2. /\ IsNet(f1) /\ f1.tcp_state = 6 /\ f1.ack = m.seq + m.n + 1
          /\ \A f \in Globals \ {"tcp_state", "ack"} : f1[f] = s1[f]
      BY <3>1 DEF IsNet, Globals
    <3>3. m.seq = Isn(c) + lo /\ lo + m.n <= Units + 1
      BY <2>5, Lengths DEF Segment
    <3> HIDE DEF f1
    <3>4. f1.ack \in Isn(c) .. Isn(c) + Units + 2
      <4>1. Isn(c) \in Nat
        BY IsnNat
      <4>2. (Isn(c) + lo) + m.n + 1 \in Isn(c) .. Isn(c) + Units + 2
        BY <1>2, <3>3, <4>1, Offsets
      <4> QED BY <3>2, <3>3, <4>2
    <3>5. c \in 0 .. Len(s1.conns)
      BY <1>1, <1>2, <2>3
    <3>6. Socket(f1)
      BY <2>3, <3>2, <3>4, <3>5, SocketClose
    <3> QED BY <2>1, <2>5, <3>6
  <2> QED BY <2>4, <2>5
<1> QED BY <1>3, <1>4, <1>5, <1>6

\* net_handle_packet and net_poll keep the invariant of the connection.
LEMMA SocketPacket ==
    ASSUME NEW s, Socket(s), NEW m \in Replies(s)
    PROVE  Socket(NetHandlePacket(s, m))
<1>1. Expected(s, m)
  BY RepliesExpected DEF Socket
<1>2. CASE m.t = "arp"
  BY <1>2, SocketArp DEF NetHandlePacket
<1>3. CASE m.t \in {"offer", "ack"}
  BY <1>3, SocketDhcp DEF NetHandlePacket, HandleIpv4
<1>4. CASE m.t = "dns"
  BY <1>1, <1>4, SocketDns DEF NetHandlePacket, HandleIpv4
<1>5. CASE m.t = "echo"
  BY <1>5, SocketEcho DEF NetHandlePacket, HandleIpv4
<1>6. CASE m.t = "tcp"
  <2>1. PICK c \in Nat, lo \in Nat : Segment(s, m, c, lo)
    BY <1>1, <1>6 DEF Expected
  <2>2. NetHandlePacket(s, m) = HandleTcp(s, m)
    BY <1>6 DEF NetHandlePacket, HandleIpv4
  <2> QED BY <2>1, <2>2, SocketTcp
<1> QED BY <1>1, <1>2, <1>3, <1>4, <1>5, <1>6 DEF Expected

-----------------------------------------------------------------------------
(* What one call of net_poll may do to the lease and to the connection.    *)

\* The globals of DHCP are left alone and no address is asked for.
Kept(s, r) ==
    /\ r.dhcp_requested = s.dhcp_requested /\ r.dhcp_configured = s.dhcp_configured
    /\ r.offered_ip = s.offered_ip /\ r.local_ip = s.local_ip
    /\ \A m \in r.sent : m.t = "request" => m \in s.sent

\* The connection and its timers.
SameTcp(s, r) ==
    /\ r.tcp_state = s.tcp_state /\ r.wait_ticks = s.wait_ticks
    /\ r.retries = s.retries /\ r.conns = s.conns

\* A connection is opened from state 0 only, and the request follows the SYN
\* with fresh timers; state 0 is never returned to.
Moves(s, r) ==
    \/ SameTcp(s, r)
    \/ s.tcp_state # 0 /\ r.tcp_state \in {4, 5, 6, 7} /\ r.conns = s.conns
    \/ /\ s.tcp_state = 0 /\ r.tcp_state = 1 /\ r.wait_ticks = 0 /\ r.retries = 0
       /\ Len(r.conns) = Len(s.conns) + 1
    \/ /\ s.tcp_state = 1 /\ r.tcp_state = 3 /\ r.wait_ticks = 0 /\ r.retries = 0
       /\ r.conns = s.conns

\* The lease survives a handler that keeps it.
LEMMA LeaseKept ==
    ASSUME NEW s, NEW r, Lease(s), Kept(s, r)
    PROVE  Lease(r)
BY DEF Lease, Kept

\* dns_query sends a query and nothing else.
LEMMA DnsQueryKeeps ==
    ASSUME NEW s, IsNet(s), NEW host
    PROVE  LET r == DnsQuery(s, host) IN
           Kept(s, r) /\ SameTcp(s, r)
BY DEF DnsQuery, Rtl8139Send, IsNet, Globals, Kept, SameTcp

\* handle_arp sends an echo request and perhaps a query.
LEMMA ArpKeeps ==
    ASSUME NEW s, IsNet(s)
    PROVE  Kept(s, HandleArp(s)) /\ SameTcp(s, HandleArp(s))
<1> DEFINE q == SendIcmpEcho([s EXCEPT !.gateway_known = TRUE])
<1>1. IsNet(q) /\ Kept(s, q) /\ SameTcp(s, q)
  <2>1. /\ IsNet(q) /\ q.sent = s.sent \cup {[t |-> "echo"]} /\ SameTcp(s, q)
        /\ q.dhcp_requested = s.dhcp_requested /\ q.dhcp_configured = s.dhcp_configured
        /\ q.offered_ip = s.offered_ip /\ q.local_ip = s.local_ip
    BY DEF SendIcmpEcho, Rtl8139Send, IsNet, Globals, SameTcp
  <2> HIDE DEF q
  <2> QED BY <2>1 DEF Kept
<1>2. HandleArp(s) = IF q.dns_requested THEN q ELSE DnsQuery(q, BootHost)
  BY DEF HandleArp
<1> HIDE DEF q
<1>3. Kept(q, DnsQuery(q, BootHost)) /\ SameTcp(q, DnsQuery(q, BootHost))
  BY <1>1, DnsQueryKeeps
<1> QED BY <1>1, <1>2, <1>3 DEF Kept, SameTcp

\* tcp_http_start opens a connection or does nothing.
LEMMA StartMoves ==
    ASSUME NEW s, IsNet(s), s.conns \in Seq(Hosts), NEW ip \in Hosts
    PROVE  Kept(s, TcpHttpStart(s, ip)) /\ Moves(s, TcpHttpStart(s, ip))
<1>1. CASE ~s.gateway_known \/ s.tcp_state # 0
  <2>1. TcpHttpStart(s, ip) = s
    BY <1>1 DEF TcpHttpStart
  <2>2. Kept(s, s) /\ Moves(s, s)
    BY DEF Kept, Moves, SameTcp
  <2> QED BY <2>1, <2>2
<1>2. CASE ~(~s.gateway_known \/ s.tcp_state # 0)
  <2> DEFINE r == TcpHttpStart(s, ip)
  <2>1. /\ r.wait_ticks = 0 /\ r.retries = 0 /\ r.tcp_state = 1 /\ r.conns = Append(s.conns, ip)
        /\ r.sent = s.sent /\ r.dhcp_requested = s.dhcp_requested
        /\ r.dhcp_configured = s.dhcp_configured
        /\ r.offered_ip = s.offered_ip /\ r.local_ip = s.local_ip
    BY <1>2 DEF TcpHttpStart, IsNet, Globals
  <2> HIDE DEF r
  <2>2. Len(r.conns) = Len(s.conns) + 1
    BY <2>1
  <2>3. Kept(s, r) /\ Moves(s, r)
    BY <1>2, <2>1, <2>2 DEF Kept, Moves
  <2> QED BY <2>3 DEF r
<1> QED BY <1>1, <1>2

\* handle_dns does what tcp_http_start does.
LEMMA DnsMoves ==
    ASSUME NEW s, Socket(s), NEW m, m.t = "dns", Expected(s, m)
    PROVE  Kept(s, HandleDns(s, m)) /\ Moves(s, HandleDns(s, m))
<1>1. CASE m.ip = None
  BY <1>1 DEF HandleDns, Kept, Moves, SameTcp
<1>2. CASE m.ip # None
  <2> DEFINE r == [s EXCEPT !.dns_answer_ip = m.ip, !.http_host = s.dns_host]
  <2>1. IsNet(s) /\ s.conns \in Seq(Hosts) /\ \A x \in s.sent : x.t = "dns" => x.host \in Hosts
    BY DEF Socket
  <2>2. m.ip \in Hosts
    BY <1>2, <2>1 DEF Expected
  <2>3. IsNet(r) /\ Kept(s, r) /\ SameTcp(s, r)
    BY <2>1 DEF IsNet, Globals, Kept, SameTcp
  <2>4. HandleDns(s, m) = TcpHttpStart(r, m.ip)
    BY <1>2 DEF HandleDns
  <2> HIDE DEF r
  <2>5. r.conns \in Seq(Hosts)
    BY <2>1, <2>3 DEF SameTcp
  <2> DEFINE q == TcpHttpStart(r, m.ip)
  <2>6. Kept(r, q) /\ Moves(r, q)
    BY <2>2, <2>3, <2>5, StartMoves
  <2> HIDE DEF q
  <2>7. Kept(s, q) /\ Moves(s, q)
    BY <2>3, <2>6 DEF Kept, Moves, SameTcp
  <2> QED BY <2>4, <2>7 DEF q
<1> QED BY <1>1, <1>2

\* handle_tcp answers a SYN-ACK, reads, closes or ignores.
LEMMA TcpMoves ==
    ASSUME NEW s, Socket(s), NEW m, NEW c \in Nat, NEW lo \in Nat, Segment(s, m, c, lo)
    PROVE  Kept(s, HandleTcp(s, m)) /\ Moves(s, HandleTcp(s, m))
<1> DEFINE takes == s.tcp_state \in {3, 4} /\ m.n > 0
           s1 == IF takes THEN TcpAccept(s, m) ELSE s
           f1 == [s1 EXCEPT !.ack = m.seq + m.n + 1, !.tcp_state = 6]
<1>1. IsNet(s) /\ s.conns \in Seq(Hosts)
  BY DEF Socket
<1>2. c \in 1 .. Len(s.conns) /\ m.src = s.conns[c] /\ m.src \in Hosts /\ m.n \in Nat
  BY <1>1 DEF Segment
<1>3. CASE m.src # s.remote_ip
  BY <1>3 DEF HandleTcp, Kept, Moves, SameTcp
<1>4. CASE m.src = s.remote_ip
  <2>1. s.tcp_state # 0
    BY <1>2, <1>4, NetSizes DEF Socket
  <2>2. CASE m.kind = "rst"
    BY <1>1, <1>4, <2>1, <2>2 DEF HandleTcp, Kept, Moves, IsNet, Globals
  <2>3. CASE m.kind # "rst" /\ s.tcp_state = 1 /\ m.kind = "synack" /\ m.ack = s.seq + 1
    <3> DEFINE r == TcpHttpSendGet([s EXCEPT !.seq = @ + 1, !.ack = m.seq + 1])
    <3>1. HandleTcp(s, m) = r
      BY <1>4, <2>3 DEF HandleTcp
    <3>2. Kept(s, r) /\ r.tcp_state = 3 /\ r.wait_ticks = 0 /\ r.retries = 0 /\ r.conns = s.conns
      BY <1>1 DEF Kept, TcpHttpSendGet, SendTcpSegment, Rtl8139Send, IsNet, Globals
    <3> HIDE DEF r
    <3> QED BY <2>3, <3>1, <3>2 DEF Moves
  <2>4. CASE m.kind # "rst" /\ ~(s.tcp_state = 1 /\ m.kind = "synack" /\ m.ack = s.seq + 1)
    <3>1. HandleTcp(s, m) = IF m.fin /\ ~(takes /\ m.seq # s.ack) THEN f1 ELSE s1
      BY <1>4, <2>4 DEF HandleTcp
    <3>2. IsNet(s1) /\ Kept(s, s1) /\ (SameTcp(s, s1) \/ (s1.tcp_state = 4 /\ s1.conns = s.conns))
      <4>1. CASE takes /\ m.seq = s.ack
        <5> DEFINE r == TcpAccept(s, m)
        <5>1. /\ IsNet(r) /\ r.tcp_state = 4
              /\ \A f \in Globals \ {"tcp_state", "ack", "http_bytes", "http_ok", "http_body", "headers_done", "split"} :
                   r[f] = s[f]
          BY <4>1, Accept
        <5>2. s1 = r
          BY <4>1
        <5> HIDE DEF r, s1
        <5>3. Kept(s, r) /\ r.conns = s.conns
          BY <5>1 DEF Globals, Kept
        <5> QED BY <5>1, <5>2, <5>3
      <4>2. CASE ~(takes /\ m.seq = s.ack)
        <5>1. s1 = s
          BY <4>2 DEF TcpAccept
        <5> QED BY <1>1, <5>1 DEF Kept, SameTcp
      <4> QED BY <4>1, <4>2
    <3> HIDE DEF s1
    <3>3. Kept(s, s1) /\ Moves(s, s1)
      BY <2>1, <3>2 DEF Moves
    <3>4. f1.tcp_state = 6 /\ Kept(s1, f1) /\ f1.conns = s1.conns
      BY <3>2 DEF IsNet, Globals, Kept
    <3> HIDE DEF f1
    <3>5. Kept(s, f1) /\ Moves(s, f1)
      BY <2>1, <3>2, <3>4 DEF Kept, Moves, SameTcp
    <3> QED BY <3>1, <3>3, <3>5
  <2> QED BY <2>2, <2>3, <2>4
<1> QED BY <1>3, <1>4

\* handle_dhcp asks for the first offer only, and an ACK can only be the answer
\* to that request.
LEMMA DhcpStep ==
    ASSUME NEW s, Socket(s), Lease(s), NEW m, m.t \in {"offer", "ack"}, Expected(s, m)
    PROVE  Lease(HandleDhcp(s, m)) /\ SameTcp(s, HandleDhcp(s, m))
<1>1. IsNet(s)
  BY DEF Socket
<1> DEFINE o == SendDhcp([s EXCEPT !.offered_ip = m.yiaddr, !.dhcp_requested = TRUE], m.yiaddr)
           a == SendArpRequest([s EXCEPT !.local_ip = m.yiaddr, !.dns_ip = m.dns,
                                         !.dhcp_configured = TRUE])
<1>2. /\ o.offered_ip = m.yiaddr /\ o.dhcp_requested = TRUE
      /\ o.sent = s.sent \cup {[t |-> "request", ip |-> m.yiaddr]}
      /\ o.dhcp_configured = s.dhcp_configured /\ SameTcp(s, o)
  BY <1>1 DEF SendDhcp, Rtl8139Send, IsNet, Globals, SameTcp
<1>3. /\ a.local_ip = m.yiaddr /\ a.dhcp_configured = TRUE /\ a.sent = s.sent \cup {[t |-> "arp"]}
      /\ a.dhcp_requested = s.dhcp_requested /\ a.offered_ip = s.offered_ip /\ SameTcp(s, a)
  BY <1>1 DEF SendArpRequest, Rtl8139Send, IsNet, Globals, SameTcp
<1> HIDE DEF o, a
<1>4. CASE m.t = "offer" /\ ~s.dhcp_requested
  <2>1. HandleDhcp(s, m) = o
    BY <1>4 DEF HandleDhcp, o
  <2>2. Lease(o)
    BY <1>2, <1>4 DEF Lease
  <2> QED BY <1>2, <2>1, <2>2
<1>5. CASE m.t = "ack" /\ ~s.dhcp_configured
  <2>1. HandleDhcp(s, m) = a
    BY <1>5 DEF HandleDhcp, a
  <2>2. s.dhcp_requested /\ m.yiaddr = s.offered_ip
    BY <1>5 DEF Lease, Expected
  <2>3. Lease(a)
    BY <1>3, <2>2 DEF Lease
  <2> QED BY <1>3, <2>1, <2>3
<1>6. CASE ~(m.t = "offer" /\ ~s.dhcp_requested) /\ ~(m.t = "ack" /\ ~s.dhcp_configured)
  BY <1>6 DEF HandleDhcp, SameTcp
<1> QED BY <1>4, <1>5, <1>6

\* net_handle_packet keeps the lease and moves the connection on.
LEMMA PacketStep ==
    ASSUME NEW s, Socket(s), Lease(s), NEW m \in Replies(s)
    PROVE  LET r == NetHandlePacket(s, m) IN Lease(r) /\ Moves(s, r)
<1>1. Expected(s, m) /\ IsNet(s)
  BY RepliesExpected DEF Socket
<1>2. CASE m.t = "arp"
  BY <1>1, <1>2, ArpKeeps, LeaseKept DEF NetHandlePacket, Moves
<1>3. CASE m.t \in {"offer", "ack"}
  BY <1>1, <1>3, DhcpStep DEF NetHandlePacket, HandleIpv4, Moves
<1>4. CASE m.t = "dns"
  BY <1>1, <1>4, DnsMoves, LeaseKept DEF NetHandlePacket, HandleIpv4
<1>5. CASE m.t = "echo"
  <2> DEFINE r == [s EXCEPT !.ping_replied = TRUE]
  <2>1. Kept(s, r) /\ SameTcp(s, r)
    BY <1>1 DEF Kept, SameTcp, IsNet, Globals
  <2>2. NetHandlePacket(s, m) = r
    BY <1>5 DEF NetHandlePacket, HandleIpv4
  <2> HIDE DEF r
  <2> QED BY <2>1, <2>2, LeaseKept DEF Moves
<1>6. CASE m.t = "tcp"
  <2>1. PICK c \in Nat, lo \in Nat : Segment(s, m, c, lo)
    BY <1>1, <1>6 DEF Expected
  <2>2. NetHandlePacket(s, m) = HandleTcp(s, m)
    BY <1>6 DEF NetHandlePacket, HandleIpv4
  <2> QED BY <2>1, <2>2, TcpMoves, LeaseKept
<1> QED BY <1>1, <1>2, <1>3, <1>4, <1>5, <1>6 DEF Expected

-----------------------------------------------------------------------------
(* Timers.                                                                 *)

\* Polls spent on the current SYN or GET, and how many there can be.
Spent(s) == s.retries * RetryTicks + s.wait_ticks

Limit == (MaxRetries + 1) * RetryTicks

\* Products with RetryTicks.
LEMMA Products ==
    ASSUME NEW R \in Nat, NEW M \in Nat, NEW x \in Nat, NEW w \in Nat, x <= M, w < R
    PROVE  /\ x * R \in Nat /\ (M + 1) * R \in Nat
           /\ x * R + w < (M + 1) * R
           /\ (x + 1) * R = x * R + R
           /\ 0 * R = 0
<1>1. x * R \in Nat /\ (M + 1) * R \in Nat /\ M * R \in Nat /\ (M - x) * R \in Nat
  BY SMT
<1>2. (M + 1) * R = M * R + R /\ (x + 1) * R = x * R + R /\ M * R = x * R + (M - x) * R
  BY SMT
<1> QED BY <1>1, <1>2

\* The timers as naturals.
LEMMA Timers ==
    ASSUME NEW s, Socket(s)
    PROVE  /\ RetryTicks \in Nat /\ RetryTicks > 0 /\ MaxRetries \in Nat
           /\ s.retries \in Nat /\ s.retries <= MaxRetries
           /\ s.wait_ticks \in Nat /\ s.wait_ticks < RetryTicks
<1>1. s.wait_ticks \in 0 .. RetryTicks - 1 /\ s.retries \in 0 .. MaxRetries
  BY DEF Socket
<1>2. RetryTicks \in Nat /\ RetryTicks > 0 /\ MaxRetries \in Nat
  BY NetSizes
<1> QED BY <1>1, <1>2

\* The retry limit bounds the polls spent.
LEMMA SpentBound ==
    ASSUME NEW s, Socket(s)
    PROVE  Spent(s) \in Nat /\ Limit \in Nat /\ Spent(s) < Limit
<1>1. /\ RetryTicks \in Nat /\ RetryTicks > 0 /\ MaxRetries \in Nat
      /\ s.retries \in Nat /\ s.retries <= MaxRetries /\ s.wait_ticks \in Nat /\ s.wait_ticks < RetryTicks
  BY Timers
<1>2. /\ s.retries * RetryTicks \in Nat /\ (MaxRetries + 1) * RetryTicks \in Nat
      /\ s.retries * RetryTicks + s.wait_ticks < (MaxRetries + 1) * RetryTicks
  BY <1>1, Products
<1> QED BY <1>1, <1>2 DEF Spent, Limit

\* Every poll with a SYN or a GET unanswered is counted.
LEMMA RetransmitStep ==
    ASSUME NEW s, Socket(s)
    PROVE  LET r == TcpPollRetransmit(s) IN
           /\ Kept(s, r) /\ r.conns = s.conns
           /\ s.tcp_state \notin {1, 3} => r.tcp_state = s.tcp_state
           /\ s.tcp_state \in {1, 3} =>
                 r.tcp_state = 7 \/ (r.tcp_state = s.tcp_state /\ Spent(r) = Spent(s) + 1)
<1> DEFINE r == TcpPollRetransmit(s)
<1>1. /\ RetryTicks \in Nat /\ RetryTicks > 0 /\ MaxRetries \in Nat
      /\ s.retries \in Nat /\ s.retries <= MaxRetries /\ s.wait_ticks \in Nat /\ s.wait_ticks < RetryTicks
      /\ IsNet(s)
  <2>1. IsNet(s)
    BY DEF Socket
  <2> QED BY <2>1, Timers
<1>2. s.retries * RetryTicks \in Nat /\ (s.retries + 1) * RetryTicks = s.retries * RetryTicks + RetryTicks
  BY <1>1, Products
<1>3. CASE s.tcp_state \notin {1, 3}
  <2>1. r = s
    BY <1>3 DEF TcpPollRetransmit
  <2>2. Kept(s, s)
    BY DEF Kept
  <2> QED BY <1>3, <2>1, <2>2
<1>4. CASE s.tcp_state \in {1, 3} /\ s.wait_ticks + 1 < RetryTicks
  <2>1. r = [s EXCEPT !.wait_ticks = s.wait_ticks + 1]
    BY <1>4 DEF TcpPollRetransmit
  <2> HIDE DEF r
  <2>2. /\ r.wait_ticks = s.wait_ticks + 1 /\ r.retries = s.retries /\ r.conns = s.conns
        /\ Kept(s, r) /\ r.tcp_state = s.tcp_state
    BY <1>1, <2>1 DEF Kept, IsNet, Globals
  <2>3. Spent(r) = Spent(s) + 1
    BY <1>1, <1>2, <2>2 DEF Spent
  <2> QED BY <1>4, <2>2, <2>3 DEF r
<1>5. CASE s.tcp_state \in {1, 3} /\ ~(s.wait_ticks + 1 < RetryTicks) /\ s.retries >= MaxRetries
  <2>1. r = [s EXCEPT !.wait_ticks = 0, !.tcp_state = 7]
    BY <1>5 DEF TcpPollRetransmit
  <2> HIDE DEF r
  <2>2. r.conns = s.conns /\ Kept(s, r) /\ r.tcp_state = 7
    BY <1>1, <2>1 DEF Kept, IsNet, Globals
  <2>3. s.tcp_state \in {1, 3}
    BY <1>5
  <2> QED BY <2>2, <2>3 DEF r
<1>6. CASE s.tcp_state \in {1, 3} /\ ~(s.wait_ticks + 1 < RetryTicks) /\ ~(s.retries >= MaxRetries)
  <2>1. r = [s EXCEPT !.wait_ticks = 0, !.retries = s.retries + 1]
    BY <1>6 DEF TcpPollRetransmit
  <2> HIDE DEF r
  <2>2. /\ r.wait_ticks = 0 /\ r.retries = s.retries + 1 /\ r.conns = s.conns
        /\ Kept(s, r) /\ r.tcp_state = s.tcp_state
    BY <1>1, <2>1 DEF Kept, IsNet, Globals
  <2>3. s.wait_ticks + 1 = RetryTicks
    BY <1>1, <1>6
  <2>4. Spent(r) = (s.retries + 1) * RetryTicks + 0
    BY <2>2 DEF Spent
  <2>5. Spent(r) = Spent(s) + 1
    BY <1>1, <1>2, <2>3, <2>4 DEF Spent
  <2> QED BY <1>6, <2>2, <2>5 DEF r
<1> QED BY <1>3, <1>4, <1>5, <1>6

\* What one call of net_poll does to the connection.
Polled(s, r) ==
    /\ r.tcp_state = 0 => s.tcp_state = 0
    /\ \/ r.conns = s.conns
       \/ s.tcp_state = 0 /\ r.tcp_state # 0 /\ Len(r.conns) = Len(s.conns) + 1
    /\ r.tcp_state = 1 => \/ s.tcp_state = 0 /\ Spent(r) = 1
                          \/ s.tcp_state = 1 /\ Spent(r) = Spent(s) + 1
    /\ r.tcp_state = 3 => \/ s.tcp_state = 1 /\ Spent(r) = 1
                          \/ s.tcp_state = 3 /\ Spent(r) = Spent(s) + 1

\* A handled packet followed by tcp_poll_retransmit is one step of net_poll.
LEMMA MovedPolled ==
    ASSUME NEW s, NEW q, Socket(q), Moves(s, q)
    PROVE  Polled(s, TcpPollRetransmit(q))
<1> DEFINE r == TcpPollRetransmit(q)
<1>1. /\ r.conns = q.conns
      /\ q.tcp_state \notin {1, 3} => r.tcp_state = q.tcp_state
      /\ q.tcp_state \in {1, 3} =>
            r.tcp_state = 7 \/ (r.tcp_state = q.tcp_state /\ Spent(r) = Spent(q) + 1)
  BY RetransmitStep
<1>2. q.wait_ticks = 0 /\ q.retries = 0 => Spent(q) = 0
  <2>1. RetryTicks \in Nat /\ RetryTicks > 0 /\ 0 \in Nat /\ 0 <= 0
    BY NetSizes
  <2>2. 0 * RetryTicks = 0
    BY <2>1, Products
  <2> QED BY <2>2 DEF Spent
<1> HIDE DEF r
<1>3. CASE SameTcp(s, q)
  <2>1. Spent(s) = Spent(q) /\ s.tcp_state = q.tcp_state /\ q.conns = s.conns
    BY <1>3 DEF SameTcp, Spent
  <2>2. q.tcp_state \in {0, 1, 3, 4, 5, 6, 7}
    BY DEF Socket
  <2>3. Polled(s, r)
    <3>1. CASE q.tcp_state \in {1, 3}
      <4>1. r.tcp_state = 7 \/ (r.tcp_state = s.tcp_state /\ Spent(r) = Spent(s) + 1)
        BY <1>1, <2>1, <3>1
      <4>2. r.conns = s.conns /\ (s.tcp_state = 1 \/ s.tcp_state = 3)
        BY <1>1, <2>1, <3>1
      <4> QED BY <4>1, <4>2 DEF Polled
    <3>2. CASE q.tcp_state \in {0, 4, 5, 6, 7}
      <4>1. r.tcp_state = q.tcp_state
        BY <1>1, <3>2
      <4> QED BY <1>1, <2>1, <3>2, <4>1 DEF Polled
    <3> QED BY <2>2, <3>1, <3>2
  <2> QED BY <2>3 DEF r
<1>4. CASE s.tcp_state # 0 /\ q.tcp_state \in {4, 5, 6, 7} /\ q.conns = s.conns
  <2>1. r.tcp_state \in {4, 5, 6, 7} /\ r.conns = s.conns
    BY <1>1, <1>4
  <2>2. Polled(s, r)
    BY <2>1 DEF Polled
  <2> QED BY <2>2 DEF r
<1>5. CASE /\ s.tcp_state = 0 /\ q.tcp_state = 1 /\ q.wait_ticks = 0 /\ q.retries = 0
           /\ Len(q.conns) = Len(s.conns) + 1
  <2>1. r.tcp_state = 7 \/ (r.tcp_state = 1 /\ Spent(r) = 1)
    BY <1>1, <1>2, <1>5
  <2>2. Polled(s, r)
    BY <1>1, <1>5, <2>1 DEF Polled
  <2> QED BY <2>2 DEF r
<1>6. CASE /\ s.tcp_state = 1 /\ q.tcp_state = 3 /\ q.wait_ticks = 0 /\ q.retries = 0
           /\ q.conns = s.conns
  <2>1. r.tcp_state = 7 \/ (r.tcp_state = 3 /\ Spent(r) = 1)
    BY <1>1, <1>2, <1>6
  <2>2. Polled(s, r)
    <3>1. r.conns = s.conns
      BY <1>1, <1>6
    <3> QED BY <1>6, <2>1, <3>1 DEF Polled
  <2> QED BY <2>2 DEF r
<1> QED BY <1>3, <1>4, <1>5, <1>6 DEF Moves

-----------------------------------------------------------------------------
(* The invariant.                                                          *)

\* Connections are numbered by the commands: only fetch makes room for one.
Numbered == Len(net.conns) <= cmds + (IF net.tcp_state = 0 THEN 0 ELSE 1)

\* The loop of fetch does not run ahead of the timers.
InTime ==
    cmd = "fetch" =>
        /\ net.tcp_state = 0 => i <= FailPolls + 1
        /\ net.tcp_state = 1 => i <= FailPolls + 1 + Spent(net)
        /\ net.tcp_state = 3 => i <= FailPolls + 1 + Limit + Spent(net)

NetInv ==
    /\ Socket(net) /\ Lease(net)
    /\ cmds \in 0 .. MaxCmds /\ Numbered
    /\ rx \in 0 .. RxMax /\ (rok => rx > 0)
    /\ cmd \in {"boot", "idle", "ping", "dns", "fetch"} /\ i \in Nat
    /\ InTime

\* One call of net_poll, with a packet or without.
LEMMA PollStep ==
    ASSUME NetInv, NetPoll
    PROVE  /\ Socket(net') /\ Lease(net') /\ Polled(net, net')
           /\ rx' \in 0 .. RxMax /\ (rok' => rx' > 0)
<1>1. Socket(net) /\ Lease(net) /\ rx \in 0 .. RxMax /\ (rok => rx > 0) /\ RxMax \in Nat
  BY NetSizes DEF NetInv
<1>2. ASSUME NEW q, Socket(q), Lease(q), Moves(net, q), net' = TcpPollRetransmit(q)
      PROVE  Socket(net') /\ Lease(net') /\ Polled(net, net')
  <2>1. Socket(net') /\ Polled(net, net')
    BY <1>2, SocketRetransmit, MovedPolled
  <2>2. Kept(q, TcpPollRetransmit(q))
    BY <1>2, RetransmitStep
  <2>3. Lease(TcpPollRetransmit(q))
    BY <1>2, <2>2, LeaseKept
  <2> QED BY <1>2, <2>1, <2>3
<1>3. CASE rok
  <2>1. PICK m \in Replies(net) : net' = TcpPollRetransmit(NetHandlePacket(net, m))
    BY <1>3 DEF NetPoll
  <2> DEFINE q == NetHandlePacket(net, m)
  <2>2. Socket(q)
    BY <1>1, SocketPacket
  <2>3. Lease(q) /\ Moves(net, q)
    BY <1>1, PacketStep
  <2>4. rok' = FALSE /\ rx' = rx - 1
    BY <1>3 DEF NetPoll
  <2> HIDE DEF q
  <2>5. net' = TcpPollRetransmit(q)
    BY <2>1 DEF q
  <2> QED BY <1>1, <1>2, <1>3, <2>2, <2>3, <2>4, <2>5
<1>4. CASE ~rok
  <2>1. net' = TcpPollRetransmit(net) /\ rok' = FALSE /\ rx' = rx
    BY <1>4 DEF NetPoll
  <2>2. Moves(net, net)
    BY DEF Moves, SameTcp
  <2> QED BY <1>1, <1>2, <2>1, <2>2
<1> QED BY <1>3, <1>4

\* net_poll keeps connections numbered.
LEMMA PollNumbered ==
    ASSUME NetInv, Socket(net'), Polled(net, net'), cmds' = cmds
    PROVE  Numbered'
<1>1. /\ net.conns \in Seq(Hosts) /\ Len(net.conns) \in Nat /\ cmds \in Nat
      /\ Len(net.conns) <= cmds + (IF net.tcp_state = 0 THEN 0 ELSE 1)
  BY Lengths DEF NetInv, Socket, Numbered
<1>2. CASE net'.conns = net.conns
  <2>1. net'.tcp_state = 0 => net.tcp_state = 0
    BY DEF Polled
  <2> QED BY <1>1, <1>2, <2>1 DEF Numbered
<1>3. CASE net.tcp_state = 0 /\ net'.tcp_state # 0 /\ Len(net'.conns) = Len(net.conns) + 1
  BY <1>1, <1>3 DEF Numbered
<1> QED BY <1>2, <1>3 DEF Polled

\* A poll by task_net, which does not advance the counter of fetch, keeps it
\* behind the timers; a poll of fetch itself advances both.
LEMMA PollInTime ==
    ASSUME NetInv, Socket(net'), Polled(net, net'), cmd = "fetch"
    PROVE  /\ net'.tcp_state = 1 => i + 1 <= FailPolls + 1 + Spent(net')
           /\ net'.tcp_state = 3 => i + 1 <= FailPolls + 1 + Limit + Spent(net')
           /\ net'.tcp_state = 0 => i <= FailPolls + 1
<1>1. /\ Spent(net) \in Nat /\ Spent(net') \in Nat /\ Limit \in Nat /\ Spent(net) < Limit
  BY SpentBound DEF NetInv
<1>2. FailPolls \in Nat /\ i \in Nat
  BY NetSizes DEF NetInv
<1>3. /\ net.tcp_state = 0 => i <= FailPolls + 1
      /\ net.tcp_state = 1 => i <= FailPolls + 1 + Spent(net)
      /\ net.tcp_state = 3 => i <= FailPolls + 1 + Limit + Spent(net)
  BY DEF NetInv, InTime
<1>4. CASE net'.tcp_state = 1
  <2>1. \/ net.tcp_state = 0 /\ Spent(net') = 1
        \/ net.tcp_state = 1 /\ Spent(net') = Spent(net) + 1
    BY <1>4 DEF Polled
  <2> QED BY <1>1, <1>2, <1>3, <1>4, <2>1
<1>5. CASE net'.tcp_state = 3
  <2>1. \/ net.tcp_state = 1 /\ Spent(net') = 1
        \/ net.tcp_state = 3 /\ Spent(net') = Spent(net) + 1
    BY <1>5 DEF Polled
  <2> QED BY <1>1, <1>2, <1>3, <1>5, <2>1
<1>6. CASE net'.tcp_state = 0
  BY <1>3, <1>6 DEF Polled
<1> QED BY <1>4, <1>5, <1>6

\* Iterations of fetch: it goes on in state 0 only below FailPolls.
LEMMA FetchInTime ==
    ASSUME NetInv, FetchPoll, Socket(net'), Polled(net, net')
    PROVE  InTime'
<1> SUFFICES ASSUME cmd' = "fetch" PROVE InTime'
  BY DEF InTime
<1>1. cmd = "fetch" /\ ~FetchDone(net') /\ i' = i + 1
  BY DEF FetchPoll, Iterate
<1>2. FailPolls \in Nat /\ i \in Nat
  BY NetSizes DEF NetInv
<1>3. net'.tcp_state = 0 => i <= FailPolls
  BY <1>1, <1>2 DEF FetchDone, NetTcpBusy
<1>4. net'.tcp_state = 0 => i + 1 <= FailPolls + 1
  BY <1>2, <1>3
<1> QED BY <1>1, <1>4, PollInTime DEF InTime

\* net_init establishes the invariant.
LEMMA NetInit == Init => NetInv
<1> SUFFICES ASSUME Init PROVE NetInv
  OBVIOUS
<1>1. IsNet(NetReset)
  BY DEF IsNet, Globals, NetReset
<1>2. 0 \in 0 .. RetryTicks - 1 /\ 0 \in 0 .. MaxRetries
  BY NetSizes
<1>3. 0 \in 0 .. Len(<< >>) /\ 0 \in Isn(0) .. Isn(0) + Units + 2
  BY Lengths DEF Isn, Stride
<1>4. /\ net.tcp_state = 0 /\ net.conns = << >> /\ net.remote_ip = None /\ net.seq = 0 /\ net.ack = 0
      /\ net.wait_ticks = 0 /\ net.retries = 0 /\ net.http_bytes = 0 /\ net.headers_done = FALSE
      /\ net.http_body = << >> /\ net.split = FALSE /\ net.sent = {} /\ net.dhcp_configured = FALSE
  BY DEF Init, NetReset
<1>5. IsNet(net)
  BY <1>1 DEF Init
<1>10. net.split \in BOOLEAN
  BY <1>4, Zenon
<1>6. Socket(net)
  BY <1>2, <1>3, <1>4, <1>5, <1>10 DEF Socket
<1>7. Lease(net)
  BY <1>4 DEF Lease
<1>8. /\ cmds \in 0 .. MaxCmds /\ rx \in 0 .. RxMax /\ (rok => rx > 0)
      /\ cmd \in {"boot", "idle", "ping", "dns", "fetch"} /\ i \in Nat /\ InTime
  BY NetSizes DEF Init, InTime
<1>9. Numbered
  BY <1>4 DEF Numbered, Init
<1> QED BY <1>6, <1>7, <1>8, <1>9 DEF NetInv

\* A command leaves the connection alone, or, as fetch does, forgets it.
LEMMA CommandStep ==
    ASSUME NetInv, NEW c \in {"ping", "dns", "fetch"}, NEW s, Command(c, s), Socket(s), Lease(s),
           s.conns = net.conns, s.tcp_state = 0 \/ (c # "fetch" /\ s.tcp_state = net.tcp_state)
    PROVE  NetInv'
<1>1. /\ net' = s /\ cmds' = cmds + 1 /\ cmds < MaxCmds /\ cmd' = c /\ i' = 0 /\ rx' = rx /\ rok' = rok
  BY DEF Command
<1>2. cmds \in Nat /\ MaxCmds \in Nat /\ FailPolls \in Nat /\ net.conns \in Seq(Hosts) /\ Len(net.conns) \in Nat
  BY NetSizes DEF NetInv, Socket
<1>3. cmds' \in 0 .. MaxCmds
  BY <1>1, <1>2
<1>4. Numbered'
  BY <1>1, <1>2 DEF Numbered, NetInv
<1>5. InTime'
  BY <1>1, <1>2 DEF InTime
<1>6. Socket(net') /\ Lease(net')
  BY <1>1
<1>7. /\ rx' \in 0 .. RxMax /\ (rok' => rx' > 0)
      /\ cmd' \in {"boot", "idle", "ping", "dns", "fetch"} /\ i' \in Nat
  BY <1>1 DEF NetInv
<1> QED BY <1>3, <1>4, <1>5, <1>6, <1>7 DEF NetInv

\* Every step keeps the invariant.
LEMMA NetStep == NetInv /\ [Next]_vars => NetInv'
<1> SUFFICES ASSUME NetInv, [Next]_vars PROVE NetInv'
  OBVIOUS
<1>1. Socket(net) /\ Lease(net) /\ IsNet(net)
  BY DEF NetInv, Socket
<1>2. RxMax \in Nat /\ i \in Nat /\ cmds \in 0 .. MaxCmds /\ cmd \in {"boot", "idle", "ping", "dns", "fetch"}
  BY NetSizes DEF NetInv
<1>3. CASE UNCHANGED vars
  BY <1>3 DEF vars, NetInv, Numbered, InTime
<1>4. CASE Receive
  <2>1. rx' \in 0 .. RxMax /\ rx' > 0
    BY <1>2, <1>4 DEF Receive, NetInv
  <2> QED BY <1>4, <2>1 DEF Receive, NetInv, Numbered, InTime
<1>5. ASSUME NetPoll, cmds' = cmds, cmd' \in {"boot", "idle", "ping", "dns", "fetch"}, i' \in Nat,
             Socket(net') /\ Polled(net, net') => InTime'
      PROVE  NetInv'
  <2>1. /\ Socket(net') /\ Lease(net') /\ Polled(net, net')
        /\ rx' \in 0 .. RxMax /\ (rok' => rx' > 0)
    BY <1>5, PollStep
  <2>2. Numbered'
    BY <1>5, <2>1, PollNumbered
  <2> QED BY <1>2, <1>5, <2>1, <2>2 DEF NetInv
<1>6. CASE BootPoll
  <2>1. NetPoll /\ cmds' = cmds /\ cmd' \in {"idle", "boot"} /\ i' \in Nat
    BY <1>2, <1>6 DEF BootPoll
  <2> QED BY <1>5, <2>1 DEF InTime
<1>7. CASE TaskNet
  <2>1. NetPoll /\ cmds' = cmds /\ cmd' = cmd /\ i' = i
    BY <1>7 DEF TaskNet
  <2>2. ASSUME Socket(net'), Polled(net, net') PROVE InTime'
    <3> SUFFICES ASSUME cmd = "fetch" PROVE InTime'
      BY <2>1 DEF InTime
    <3>1. /\ net'.tcp_state = 1 => i + 1 <= FailPolls + 1 + Spent(net')
          /\ net'.tcp_state = 3 => i + 1 <= FailPolls + 1 + Limit + Spent(net')
          /\ net'.tcp_state = 0 => i <= FailPolls + 1
      BY <2>2, PollInTime
    <3>2. FailPolls \in Nat /\ Spent(net') \in Nat /\ Limit \in Nat
      BY <2>2, SpentBound, NetSizes
    <3>3. /\ net'.tcp_state = 1 => i <= FailPolls + 1 + Spent(net')
          /\ net'.tcp_state = 3 => i <= FailPolls + 1 + Limit + Spent(net')
      BY <1>2, <3>1, <3>2
    <3> QED BY <2>1, <3>1, <3>3 DEF InTime
  <2> QED BY <1>2, <1>5, <2>1, <2>2
<1>8. CASE PingPoll
  <2>1. NetPoll /\ cmds' = cmds /\ cmd' \in {"idle", "ping"} /\ i' \in Nat
    BY <1>2, <1>8 DEF PingPoll, Iterate
  <2> QED BY <1>5, <2>1 DEF InTime
<1>9. CASE DnsPoll
  <2>1. NetPoll /\ cmds' = cmds /\ cmd' \in {"idle", "dns"} /\ i' \in Nat
    BY <1>2, <1>9 DEF DnsPoll, Iterate
  <2> QED BY <1>5, <2>1 DEF InTime
<1>10. CASE FetchPoll
  <2>1. NetPoll /\ cmds' = cmds /\ cmd' \in {"idle", "fetch"} /\ i' \in Nat
    BY <1>2, <1>10 DEF FetchPoll, Iterate
  <2>2. Socket(net') /\ Polled(net, net') => InTime'
    BY <1>10, FetchInTime
  <2> QED BY <1>5, <2>1, <2>2
<1>11. CASE CmdPing
  <2> DEFINE s == IF net.gateway_known THEN SendIcmpEcho([net EXCEPT !.ping_replied = FALSE]) ELSE net
  <2>1. Command("ping", s)
    BY <1>11 DEF CmdPing
  <2>2. Socket(s) /\ Kept(net, s) /\ SameTcp(net, s)
    <3>1. CASE ~net.gateway_known
      <4>1. s = net
        BY <3>1
      <4> QED BY <1>1, <4>1 DEF Kept, SameTcp
    <3>2. CASE net.gateway_known
      <4> DEFINE q == [net EXCEPT !.ping_replied = FALSE]
      <4>1. /\ IsNet(q) /\ (\A f \in TcpGlobals : q[f] = net[f]) /\ q.sent = net.sent
            /\ Kept(net, q) /\ SameTcp(net, q)
        BY <1>1 DEF IsNet, Globals, TcpGlobals, Kept, SameTcp
      <4> HIDE DEF q
      <4>2. Socket(q)
        BY <1>1, <4>1, SocketFrame DEF Socket
      <4>3. s = Rtl8139Send(q, [t |-> "echo"])
        BY <3>2 DEF q, SendIcmpEcho
      <4>4. /\ Rtl8139Send(q, [t |-> "echo"]).sent = q.sent \cup {[t |-> "echo"]}
            /\ \A f \in Globals \ {"sent"} : Rtl8139Send(q, [t |-> "echo"])[f] = q[f]
        BY <4>1 DEF Rtl8139Send, IsNet, Globals
      <4> HIDE DEF s
      <4>5. Socket(s)
        BY <4>2, <4>3, SocketSend
      <4>6. s.sent = q.sent \cup {[t |-> "echo"]} /\ \A f \in Globals \ {"sent"} : s[f] = q[f]
        BY <4>3, <4>4
      <4>7. Kept(net, s) /\ SameTcp(net, s)
        BY <4>1, <4>6 DEF Kept, SameTcp, Globals
      <4> QED BY <4>5, <4>7
    <3> QED BY <3>1, <3>2
  <2> HIDE DEF s
  <2>3. Lease(s)
    BY <1>1, <2>2, LeaseKept
  <2>4. s.conns = net.conns /\ s.tcp_state = net.tcp_state
    BY <2>2 DEF SameTcp
  <2> QED BY <2>1, <2>2, <2>3, <2>4, CommandStep
<1>12. CASE CmdDns
  <2>1. PICK h \in Hosts \cup BadHosts : Command("dns", DnsQuery(net, h))
    BY <1>12 DEF CmdDns
  <2> DEFINE s == DnsQuery(net, h)
  <2>2. Socket(s) /\ Kept(net, s) /\ SameTcp(net, s)
    BY <1>1, SocketDnsQuery, DnsQueryKeeps
  <2> HIDE DEF s
  <2>3. Lease(s) /\ s.conns = net.conns /\ s.tcp_state = net.tcp_state
    BY <1>1, <2>2, LeaseKept DEF SameTcp
  <2> QED BY <2>1, <2>2, <2>3, CommandStep DEF s
<1>13. CASE CmdFetch
  <2>1. PICK h \in Hosts \cup BadHosts :
            Command("fetch", DnsQuery([NetHttpReset(net) EXCEPT !.http_host = h], h))
    BY <1>13 DEF CmdFetch
  <2> DEFINE q == [NetHttpReset(net) EXCEPT !.http_host = h]
             s == DnsQuery(q, h)
  <2>2. Socket(q)
    BY <1>1, SocketReset
  <2>3. IsNet(q) /\ Kept(net, q) /\ q.conns = net.conns /\ q.tcp_state = 0
    BY <1>1 DEF NetHttpReset, IsNet, Globals, Kept
  <2> HIDE DEF q
  <2>4. Socket(s) /\ Kept(q, s) /\ SameTcp(q, s)
    BY <2>2, <2>3, SocketDnsQuery, DnsQueryKeeps
  <2> HIDE DEF s
  <2>5. Lease(s)
    BY <1>1, <2>3, <2>4, LeaseKept
  <2>6. s.conns = net.conns /\ s.tcp_state = 0
    BY <2>3, <2>4 DEF SameTcp
  <2>7. Command("fetch", s)
    BY <2>1 DEF s, q
  <2> QED BY <2>4, <2>5, <2>6, <2>7, CommandStep
<1> QED BY <1>3, <1>4, <1>6, <1>7, <1>8, <1>9, <1>10, <1>11, <1>12, <1>13 DEF Next, Shell

-----------------------------------------------------------------------------
(* The theorems.                                                           *)

\* Once configured the machine uses the address it asked for: handle_dhcp asks
\* once, so the only ACK a server can send is for the offer that was taken.
THEOREM LeaseKeptOurs == Spec => []LeaseIsOurs
<1>1. NetInv => LeaseIsOurs
  BY DEF NetInv, Lease, LeaseIsOurs
<1> QED BY <1>1, NetInit, NetStep, PTL DEF Spec

\* Whatever arrives, in whatever order and however often, what has been
\* acknowledged of a download is what was taken from it (handle_tcp).
THEOREM AcknowledgesReceived == Spec => []AckedWasReceived
<1>1. NetInv => AckedWasReceived
  <2> SUFFICES ASSUME NetInv, net.tcp_state \in {3, 4}
               PROVE  net.ack = Isn(ConnOf(net.ack)) + 1 + net.http_bytes
    BY DEF AckedWasReceived
  <2>1. Socket(net)
    BY DEF NetInv
  <2>2. PICK c \in 1 .. Len(net.conns) : Download(net, c)
    BY <2>1 DEF Socket
  <2>3. c \in Nat /\ net.http_bytes \in 0 .. Units /\ net.ack = Isn(c) + 1 + net.http_bytes
    BY <2>2 DEF Download
  <2> DEFINE x == 1 + net.http_bytes
  <2>4. x \in 0 .. Units + 2 /\ net.ack = Isn(c) + x
    <3>1. Isn(c) \in Nat
      BY <2>3, IsnNat
    <3> QED BY <2>3, <3>1, Lengths
  <2> HIDE DEF x
  <2>5. ConnOf(Isn(c) + x) = c
    BY <2>3, <2>4, ConnOfIsn
  <2> QED BY <2>3, <2>4, <2>5
<1> QED BY <1>1, NetInit, NetStep, PTL DEF Spec

\* What fetch shows is a contiguous piece of one response that begins right
\* behind a blank line, the header's own unless a payload ended inside that one,
\* for every length of response, segment and buffer and wherever else the
\* response has blank lines (handle_tcp, http_process_payload, http_store_body).
THEOREM ShowsOneBody == Spec => []BodyInOrder
<1>1. NetInv => BodyInOrder
  <2> SUFFICES ASSUME NetInv, net.http_body # << >> PROVE BodyInOrder
    BY DEF BodyInOrder
  <2> DEFINE b == net.http_body
  <2>1. PICK c \in 1 .. Len(net.conns) : Shown(net, c)
    BY DEF NetInv, Socket
  <2>2. PICK e \in 2 .. Units : Ends(e, net.split) /\ Piece(b, c, e)
    BY <2>1 DEF Shown
  <2>3. e \in Nat /\ b \in Seq({c} \X (1 .. Units)) /\ b # << >>
    BY <2>2, Lengths DEF Piece
  <2>4. Len(b) \in Nat /\ 1 \in 1 .. Len(b)
    <3> HIDE DEF b
    <3> QED BY <2>3
  <2>5. \A j \in 1 .. Len(b) : b[j] = <<c, j + e>>
    BY <2>2 DEF Piece
  <2>6. b[1] = <<c, 1 + e>>
    BY <2>4, <2>5
  <2>7. b[1][1] = c /\ b[1][2] = e + 1
    BY <2>3, <2>6
  <2> HIDE DEF b
  <2>8. \A k \in 1 .. Len(b) : b[k] = <<b[1][1], b[1][2] + k - 1>>
    <3> SUFFICES ASSUME NEW k \in 1 .. Len(b) PROVE b[k] = <<b[1][1], b[1][2] + k - 1>>
      OBVIOUS
    <3>1. k + e = (e + 1) + k - 1
      BY <2>3, <2>4
    <3> QED BY <2>5, <2>7, <3>1
  <2>9. {b[1][2] - 2, b[1][2] - 1} \subseteq Crlf /\ (b[1][2] = 3 \/ net.split)
    <3>1. (e + 1) - 2 = e - 1 /\ (e + 1) - 1 = e /\ (e = 2 => e + 1 = 3)
      BY <2>3
    <3> QED BY <2>2, <2>7, <3>1 DEF Ends
  <2> QED BY <2>8, <2>9 DEF BodyInOrder, b
<1> QED BY <1>1, NetInit, NetStep, PTL DEF Spec

\* Connections are numbered up to MaxCmds + 1.
LEMMA ConnBound ==
    ASSUME NetInv
    PROVE  Len(net.conns) \in Nat /\ Len(net.conns) <= MaxCmds + 1
<1>1. net.conns \in Seq(Hosts)
  BY DEF NetInv, Socket
<1>2. Len(net.conns) \in Nat
  BY <1>1, LenProperties
<1>3. cmds \in 0 .. MaxCmds /\ MaxCmds \in Nat
  BY Lengths DEF NetInv
<1>4. Len(net.conns) <= cmds + (IF net.tcp_state = 0 THEN 0 ELSE 1)
  BY DEF NetInv, Numbered
<1> QED BY <1>2, <1>3, <1>4

\* A number within a connection below C ends before C * S.
LEMMA BelowNext ==
    ASSUME NEW S \in Nat, NEW c \in Nat, NEW C \in Nat, c < C, NEW r \in Nat, r < S
    PROVE  c * S + r \in 0 .. C * S
<1>1. c * S \in Nat /\ C * S \in Nat /\ (C - (c + 1)) * S \in Nat
  BY SMT
<1>2. C * S = c * S + S + (C - (c + 1)) * S
  BY SMT
<1> QED BY <1>1, <1>2

\* Every global keeps to its range, no more connections are opened than
\* commands allow, and rtl8139_poll is never told of a packet that is not
\* there.
THEOREM NetTypes == Spec => []TypeOK
<1>1. NetInv => TypeOK
  <2> SUFFICES ASSUME NetInv PROVE TypeOK
    OBVIOUS
  <2>1. Socket(net)
    BY DEF NetInv
  <2>2. Len(net.conns) \in Nat /\ Len(net.conns) <= MaxCmds + 1
    BY ConnBound
  <2>3. net.ack \in 0 .. (MaxCmds + 2) * Stride
    <3>1. PICK c \in 0 .. Len(net.conns) : net.ack \in Isn(c) .. Isn(c) + Units + 2
      BY <2>1 DEF Socket
    <3>2. c \in Nat /\ MaxCmds + 2 \in Nat /\ c < MaxCmds + 2 /\ Stride \in Nat
      BY <2>2, Lengths DEF Stride
    <3>3. Isn(c) \in Nat
      BY <3>2, IsnNat
    <3> DEFINE r == net.ack - Isn(c)
    <3>4. r \in Nat /\ r < Stride /\ net.ack = Isn(c) + r
      BY <3>1, <3>3, Lengths DEF Stride
    <3> HIDE DEF r
    <3>5. c * Stride + r \in 0 .. (MaxCmds + 2) * Stride
      BY <3>2, <3>4, BelowNext
    <3> QED BY <3>4, <3>5 DEF Isn
  <2>4. Len(net.http_body) <= BodyMax /\ Range(net.http_body) \subseteq Unit
    <3>1. CASE net.http_body = << >>
      <4>1. Len(<< >>) = 0 /\ Range(<< >>) = {}
        BY DEF Range
      <4> QED BY <3>1, <4>1, Lengths
    <3>2. CASE \E c \in 1 .. Len(net.conns) : Shown(net, c)
      <4>1. PICK c \in 1 .. Len(net.conns) : \E e \in 2 .. Units : Piece(net.http_body, c, e)
        BY <3>2 DEF Shown
      <4> DEFINE b == net.http_body
                 S == {c} \X (1 .. Units)
      <4>2. b \in Seq(S) /\ Len(b) <= BodyMax
        BY <4>1 DEF Piece
      <4>3. c \in 1 .. MaxCmds + 1
        BY <2>2, Lengths
      <4>4. S \subseteq Unit
        BY <4>3 DEF Unit
      <4> HIDE DEF b, S
      <4>5. Range(b) \subseteq S
        BY <4>2 DEF Range
      <4> QED BY <4>2, <4>4, <4>5 DEF b
    <3> QED BY <2>1, <3>1, <3>2 DEF Socket
  <2>5. Range(net.conns) \subseteq Hosts
    <3>1. net.conns \in Seq(Hosts)
      BY <2>1 DEF Socket
    <3> QED BY <3>1 DEF Range
  <2>6. /\ net.tcp_state \in {0, 1, 3, 4, 5, 6, 7} /\ net.seq \in 0 .. 2
        /\ net.wait_ticks \in 0 .. RetryTicks - 1 /\ net.retries \in 0 .. MaxRetries
        /\ net.remote_ip \in Hosts \cup {None} /\ net.split \in BOOLEAN
    BY <2>1 DEF Socket
  <2> QED BY <2>2, <2>3, <2>4, <2>5, <2>6 DEF TypeOK, NetInv
<1> QED BY <1>1, NetInit, NetStep, PTL DEF Spec

\* The arithmetic of cmd_fetch: with L polls for a SYN and as many for a GET the
\* loop counter cannot reach its limit.
LEMMA LimitNotReached ==
    ASSUME NEW L \in Nat, NEW F \in Nat, NEW P \in Nat, NEW x \in Nat, NEW n \in Nat,
           F + 2 * L + 1 < P, x < L, n <= F + 1 + L + x
    PROVE  n # P
OBVIOUS

\* fetch only reports a timeout of a server that began to answer and stalled:
\* its loop outlasts every retransmission of the SYN and of the GET, for every
\* retry count and tick length (cmd_fetch, tcp_poll_retransmit).
THEOREM TimesOutLast == Spec => TimeoutMeansStalled
<1>1. ASSUME NetInv, [Next]_vars
      PROVE  [result' = "timeout" /\ cmd = "fetch" /\ cmd' = "idle" => net'.tcp_state = 4]_vars
  <2> SUFFICES ASSUME Next, result' = "timeout", cmd = "fetch", cmd' = "idle"
               PROVE  net'.tcp_state = 4
    BY <1>1
  <2>1. FetchPoll
    BY DEF Next, Receive, Shell, BootPoll, PingPoll, DnsPoll, Iterate, TaskNet, CmdPing, CmdDns,
           CmdFetch, Command
  <2>2. NetPoll /\ ~FetchDone(net') /\ i + 1 = FetchPolls
    BY <2>1 DEF FetchPoll, Iterate
  <2>3. Socket(net') /\ Polled(net, net')
    BY <1>1, <2>2, PollStep
  <2>4. /\ net'.tcp_state = 1 => i + 1 <= FailPolls + 1 + Spent(net')
        /\ net'.tcp_state = 3 => i + 1 <= FailPolls + 1 + Limit + Spent(net')
    BY <1>1, <2>3, PollInTime
  <2>5. Spent(net') \in Nat /\ Limit \in Nat /\ Spent(net') < Limit
    BY <2>3, SpentBound
  <2>6. FailPolls \in Nat /\ FetchPolls \in Nat /\ i \in Nat
    BY <1>1, NetSizes DEF NetInv
  <2>7. FailPolls + 2 * Limit + 1 < FetchPolls
    <3>1. 2 * (MaxRetries + 1) * RetryTicks = 2 * ((MaxRetries + 1) * RetryTicks)
      BY NetSizes
    <3> QED BY <3>1, NetSizes DEF Limit
  <2>8. net'.tcp_state # 3
    BY <2>2, <2>4, <2>5, <2>6, <2>7, LimitNotReached
  <2>9. net'.tcp_state # 1
    <3>1. FailPolls + 1 + Spent(net') <= FailPolls + 1 + Limit + Spent(net')
      BY <2>5, <2>6
    <3>2. net'.tcp_state = 1 => i + 1 <= FailPolls + 1 + Limit + Spent(net')
      BY <2>4, <2>5, <2>6, <3>1
    <3> QED BY <2>2, <2>5, <2>6, <2>7, <3>2, LimitNotReached
  <2>10. i > FailPolls
    BY <2>2, <2>5, <2>6, <2>7
  <2>11. NetTcpBusy(net')
    BY <2>2, <2>10 DEF FetchDone
  <2>12. net'.tcp_state \in {0, 1, 3, 4, 5, 6, 7}
    BY <2>3 DEF Socket
  <2> QED BY <2>8, <2>9, <2>11, <2>12 DEF NetTcpBusy
<1> QED BY <1>1, NetInit, NetStep, PTL DEF Spec, TimeoutMeansStalled
=============================================================================
