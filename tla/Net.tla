-------------------------------- MODULE Net --------------------------------
(***************************************************************************)
(* The network stack, net/net.c, over the card of drivers/rtl8139.c: DHCP, *)
(* ARP, one DNS query and one HTTP download at a time, all driven by       *)
(* net_poll, which main.c calls during boot, task_net for ever afterwards  *)
(* and the shell inside ping, dns and fetch.  The handlers are functions   *)
(* from the state of the stack (the record net, one field per global) to   *)
(* the state they leave; an action is one call of net_poll.                *)
(*                                                                         *)
(* The network is the environment.  It answers requests that were sent,    *)
(* any number of times, in any order and as late as it likes, so losing,   *)
(* duplicating, delaying and reordering packets need no actions.  A server *)
(* numbers the bytes of its n-th connection from n * Stride: units 1 and 2 *)
(* of a response are the blank line that ends the header, one half each,   *)
(* the others are body, which may hold blank lines of its own.  Address    *)
(* and name of a host are one model value.                                 *)
(*                                                                         *)
(* A command is one step up to its polling loop.  task_net can run in the  *)
(* middle of net_http_fetch; a packet of an earlier connection, or an      *)
(* answer to an earlier query, that it handles between two assignments of  *)
(* net_http_reset is not covered.                                          *)
(***************************************************************************)
EXTENDS Integers, Sequences, FiniteSets, SequencesExt

CONSTANTS
    Hosts,          \* names that dns_write_name can encode
    BadHosts,       \* names it refuses
    BootHost,       \* "example.com", asked for by handle_arp
    DhcpServers,    \* each offers one address, called by the server's name
    None,           \* address 0, the empty name
    Units,          \* length of a response
    Crlf,           \* its units that are half a blank line
    MaxSeg,         \* bound: units in one segment
    BodyMax,        \* HTTP_BODY_BUF_SIZE - 1
    RetryTicks,     \* TCP_RETRY_TICKS
    MaxRetries,     \* TCP_MAX_RETRIES
    BootPolls, PingPolls, DnsPolls, FetchPolls,  \* iterations of the polling loops
    FailPolls,      \* cmd_fetch gives up on an idle connection after these
    RxMax,          \* bound: packets in the card's ring
    MaxCmds         \* bound: shell commands

ASSUME NetSizes ==
    /\ BootHost \in Hosts /\ None \notin Hosts \cup BadHosts \cup DhcpServers
    /\ Hosts \cap BadHosts = {}
    /\ Units \in Nat /\ Units > 2 /\ {1, 2} \subseteq Crlf /\ Crlf \subseteq 1 .. Units
    /\ MaxSeg \in 1 .. Units
    /\ BodyMax \in Nat \ {0} /\ RxMax \in Nat \ {0} /\ MaxCmds \in Nat
    /\ RetryTicks \in Nat \ {0} /\ MaxRetries \in Nat
    /\ {BootPolls, PingPolls, DnsPolls, FetchPolls, FailPolls} \subseteq Nat
    /\ FailPolls + 2 * (MaxRetries + 1) * RetryTicks + 1 < FetchPolls

VARIABLES
    net,         \* the globals of net.c
    rx, rok,     \* the card: number of packets in the ring, ISR.ROK
    cmd, i,      \* who polls in the foreground, and its loop counter
    result,      \* what the last fetch printed
    cmds         \* commands typed so far

vars == <<net, rx, rok, cmd, i, result, cmds>>

Stride == Units + 3
Isn(c) == c * Stride
ConnOf(seq) == seq \div Stride

\* Globals as net_init leaves them.  sent: requests handed to rtl8139_send;
\* conns: the hosts a SYN was sent to, one entry per connection; split: a
\* history, a payload ended in the middle of the header's blank line.
NetReset ==
    [gateway_known |-> FALSE, dhcp_configured |-> FALSE, dhcp_requested |-> FALSE,
     offered_ip |-> None, local_ip |-> None, dns_ip |-> FALSE,
     dns_requested |-> FALSE, dns_host |-> None, dns_answer_ip |-> None,
     tcp_state |-> 0, remote_ip |-> None, seq |-> 0, ack |-> 0,
     wait_ticks |-> 0, retries |-> 0,
     http_ok |-> FALSE, http_bytes |-> 0, headers_done |-> FALSE,
     http_body |-> << >>, split |-> FALSE, http_host |-> None, ping_replied |-> FALSE,
     sent |-> {}, conns |-> << >>]

\* The four transmit buffers are never waited for, so a packet always leaves.
Rtl8139Send(s, m) == [s EXCEPT !.sent = @ \cup {m}]

\* A segment is known by the number it acknowledges; SYNs are kept in conns and
\* bare ACKs, which nothing depends on, not at all.
SendTcpSegment(s, ack) == Rtl8139Send(s, [t |-> "get", ack |-> ack])

SendDhcp(s, ip) == Rtl8139Send(s, [t |-> "request", ip |-> ip])

SendArpRequest(s) == Rtl8139Send(s, [t |-> "arp"])

SendIcmpEcho(s) == Rtl8139Send(s, [t |-> "echo"])

\* net_init: rtl8139_init finds the card and the DISCOVER goes out, the one
\* request the network may always have seen.
Init ==
    /\ net = NetReset
    /\ rx = 0 /\ rok = FALSE
    /\ cmd = "boot" /\ i = 0 /\ result = "none" /\ cmds = 0

-----------------------------------------------------------------------------
(* Packets.                                                                *)

Replies(s) ==
    LET of(t) == {m \in s.sent : m.t = t}
        seg(c, kind, lo, n, fin) ==
            [t |-> "tcp", src |-> s.conns[c], kind |-> kind,
             seq |-> Isn(c) + lo, ack |-> 1, n |-> n, fin |-> fin]
        asked == {c \in DOMAIN s.conns : \E m \in of("get") : m.ack = Isn(c) + 1}
    IN  {[t |-> "offer", yiaddr |-> d] : d \in DhcpServers}
        \cup {[t |-> "ack", yiaddr |-> m.ip, dns |-> b] : m \in of("request"), b \in BOOLEAN}
        \cup {[t |-> m.t] : m \in of("arp") \cup of("echo")}
        \cup {[t |-> "dns", ip |-> ip] : ip \in UNION {{m.host, None} : m \in of("dns")}}
        \cup {seg(c, k, 0, 0, FALSE) : c \in DOMAIN s.conns, k \in {"synack", "rst"}}
        \cup {seg(x[1], "data", x[2], x[3], FALSE) :
                x \in {y \in asked \X (1 .. Units) \X (1 .. MaxSeg) : y[2] + y[3] <= Units + 1}}
        \cup {seg(c, "data", Units + 1 - n, n, TRUE) : c \in asked, n \in 0 .. MaxSeg}

-----------------------------------------------------------------------------
(* TCP and HTTP.                                                           *)

\* The units of a payload, each with the connection it belongs to.
Payload(seq, n) == [k \in 1 .. n |-> <<ConnOf(seq), seq + k - 1 - Isn(ConnOf(seq))>>]

HttpStoreBody(s, data) ==
    LET space == BodyMax - Len(s.http_body)
        n == IF Len(data) > space THEN space ELSE Len(data) IN
    IF n <= 0 THEN s ELSE [s EXCEPT !.http_body = @ \o SubSeq(data, 1, n)]

\* Where in a payload the blank lines begin.
BlankLines(data) == {k \in 1 .. Len(data) - 1 : {data[k][2], data[k + 1][2]} \subseteq Crlf}

\* The first blank line that lies in one payload ends the header, whether or
\* not it is the header's own.
HttpProcessPayload(s, data) ==
    IF s.headers_done THEN HttpStoreBody(s, data)
    ELSE IF BlankLines(data) = {} THEN [s EXCEPT !.split = @ \/ data[Len(data)][2] = 1]
    ELSE HttpStoreBody([s EXCEPT !.headers_done = TRUE],
                       SubSeq(data, Min(BlankLines(data)) + 2, Len(data)))

TcpHttpStart(s, ip) ==
    IF ~s.gateway_known \/ s.tcp_state # 0 THEN s
    ELSE [s EXCEPT !.remote_ip = ip, !.seq = 0, !.ack = 0, !.wait_ticks = 0,
                   !.retries = 0, !.http_bytes = 0, !.tcp_state = 1,
                   !.conns = Append(@, ip)]

\* The request is one unit long; the server knows its connection by the ack.
TcpHttpSendGet(s) ==
    SendTcpSegment([s EXCEPT !.wait_ticks = 0, !.retries = 0, !.seq = @ + 1,
                             !.tcp_state = 3], s.ack)

\* Mutant: the sequence number of a payload is not compared.
TcpAcceptAny(s, m) ==
    [HttpProcessPayload(s, Payload(m.seq, m.n))
        EXCEPT !.http_bytes = @ + m.n, !.ack = m.seq + m.n,
               !.http_ok = TRUE, !.tcp_state = 4]

\* Mutant: a payload is counted before its sequence number is compared.
TcpAcceptCountsAll(s, m) ==
    IF m.seq # s.ack THEN [s EXCEPT !.http_bytes = @ + m.n]
    ELSE TcpAcceptAny(s, m)

\* A payload in states 3 and 4: only the next one in order is taken.
TcpAccept(s, m) ==
    IF m.seq # s.ack THEN s
    ELSE [HttpProcessPayload(s, Payload(m.seq, m.n))
            EXCEPT !.http_bytes = @ + m.n, !.ack = m.seq + m.n,
                   !.http_ok = TRUE, !.tcp_state = 4]

HandleTcp(s, m) ==
    IF m.src # s.remote_ip THEN s
    ELSE IF m.kind = "rst" THEN [s EXCEPT !.tcp_state = 5]
    ELSE IF s.tcp_state = 1 /\ m.kind = "synack" /\ m.ack = s.seq + 1
         THEN TcpHttpSendGet([s EXCEPT !.seq = @ + 1, !.ack = m.seq + 1])
    ELSE LET takes == s.tcp_state \in {3, 4} /\ m.n > 0
             s1 == IF takes THEN TcpAccept(s, m) ELSE s IN
         IF m.fin /\ ~(takes /\ m.seq # s.ack)
         THEN [s1 EXCEPT !.ack = m.seq + m.n + 1, !.tcp_state = 6]
         ELSE s1

\* Mutant: the retry limit is never reached.
RetransmitForEver(s) ==
    IF s.tcp_state \notin {1, 3} THEN s
    ELSE IF s.wait_ticks + 1 < RetryTicks THEN [s EXCEPT !.wait_ticks = @ + 1]
    ELSE [s EXCEPT !.wait_ticks = 0]

\* What is sent again (the SYN, or the GET with the sequence numbers of the
\* first one) is in sent already.
TcpPollRetransmit(s) ==
    IF s.tcp_state \notin {1, 3} THEN s
    ELSE IF s.wait_ticks + 1 < RetryTicks THEN [s EXCEPT !.wait_ticks = @ + 1]
    ELSE IF s.retries >= MaxRetries
         THEN [s EXCEPT !.wait_ticks = 0, !.tcp_state = 7]
    ELSE [s EXCEPT !.wait_ticks = 0, !.retries = @ + 1]

-----------------------------------------------------------------------------
(* DNS, ARP, DHCP, ICMP.                                                   *)

\* Labels of 1 to 63 characters that fit the packet.
DnsWriteName(host) == host \in Hosts

DnsQuery(s, host) ==
    IF ~s.dhcp_configured \/ ~s.gateway_known \/ ~s.dns_ip \/ ~DnsWriteName(host) THEN s
    ELSE Rtl8139Send([s EXCEPT !.dns_requested = TRUE, !.dns_host = host],
                     [t |-> "dns", host |-> host])

\* The first A record, if there is one; the identifier is always the same, so
\* an answer to an earlier query is taken for an answer to the current one.
HandleDns(s, m) ==
    IF m.ip = None THEN s
    ELSE TcpHttpStart([s EXCEPT !.dns_answer_ip = m.ip, !.http_host = s.dns_host], m.ip)

\* A reply from the gateway, the only host that is asked.
HandleArp(s) ==
    LET s1 == SendIcmpEcho([s EXCEPT !.gateway_known = TRUE]) IN
    IF s1.dns_requested THEN s1 ELSE DnsQuery(s1, BootHost)

\* Mutant: a second offer is requested too.
HandleDhcpEveryOffer(s, m) ==
    IF m.t = "offer"
    THEN SendDhcp([s EXCEPT !.offered_ip = m.yiaddr, !.dhcp_requested = TRUE], m.yiaddr)
    ELSE IF ~s.dhcp_configured
    THEN SendArpRequest([s EXCEPT !.local_ip = m.yiaddr, !.dns_ip = m.dns,
                                  !.dhcp_configured = TRUE])
    ELSE s

HandleDhcp(s, m) ==
    IF m.t = "offer" /\ ~s.dhcp_requested
    THEN SendDhcp([s EXCEPT !.offered_ip = m.yiaddr, !.dhcp_requested = TRUE], m.yiaddr)
    ELSE IF m.t = "ack" /\ ~s.dhcp_configured
    THEN SendArpRequest([s EXCEPT !.local_ip = m.yiaddr, !.dns_ip = m.dns,
                                  !.dhcp_configured = TRUE])
    ELSE s

\* By protocol and ports.
HandleIpv4(s, m) ==
    CASE m.t \in {"offer", "ack"} -> HandleDhcp(s, m)
      [] m.t = "dns" -> HandleDns(s, m)
      [] m.t = "tcp" -> HandleTcp(s, m)
      [] m.t = "echo" -> [s EXCEPT !.ping_replied = TRUE]

NetHandlePacket(s, m) == IF m.t = "arp" THEN HandleArp(s) ELSE HandleIpv4(s, m)

NetHttpReset(s) ==
    [s EXCEPT !.tcp_state = 0, !.http_ok = FALSE, !.http_bytes = 0,
              !.headers_done = FALSE, !.http_body = << >>, !.split = FALSE, !.dns_answer_ip = None,
              !.retries = 0, !.wait_ticks = 0, !.remote_ip = None, !.seq = 0, !.ack = 0]

NetTcpBusy(s) == s.tcp_state \in 1 .. 4

-----------------------------------------------------------------------------
(* The card and the polling loops.                                         *)

\* A packet arrives: it is put into the ring and ROK is raised.
Receive ==
    /\ rx < RxMax
    /\ rx' = rx + 1 /\ rok' = TRUE
    /\ UNCHANGED <<net, cmd, i, result, cmds>>

\* Mutant: ROK is not acknowledged.
NetPollKeepsRok ==
    /\ rok' = rok
    /\ rx' = IF rok THEN rx - 1 ELSE rx
    /\ IF rok THEN \E m \in Replies(net) : net' = TcpPollRetransmit(NetHandlePacket(net, m))
              ELSE net' = TcpPollRetransmit(net)

\* rtl8139_poll acknowledges ROK and handles one packet, however many there
\* are; then tcp_poll_retransmit.  Which packet it is, is chosen only now:
\* Replies(net) never shrinks, so it holds whatever may wait in the ring.
NetPoll ==
    /\ rok' = FALSE
    /\ \/ /\ rok
          /\ rx' = rx - 1
          /\ \E m \in Replies(net) : net' = TcpPollRetransmit(NetHandlePacket(net, m))
       \/ /\ ~rok
          /\ rx' = rx
          /\ net' = TcpPollRetransmit(net)

\* One iteration of the loop of kernel_main.
BootPoll ==
    /\ cmd = "boot"
    /\ NetPoll
    /\ i' = IF i + 1 = BootPolls THEN 0 ELSE i + 1
    /\ cmd' = IF i + 1 = BootPolls THEN "idle" ELSE "boot"
    /\ UNCHANGED <<result, cmds>>

TaskNet ==
    /\ cmd # "boot"
    /\ NetPoll
    /\ UNCHANGED <<cmd, i, result, cmds>>

Command(c, s) ==
    /\ cmd = "idle" /\ cmds < MaxCmds
    /\ net.dhcp_configured
    /\ cmds' = cmds + 1
    /\ cmd' = c /\ i' = 0
    /\ net' = s
    /\ UNCHANGED <<rx, rok, result>>

CmdPing ==
    Command("ping", IF net.gateway_known
                    THEN SendIcmpEcho([net EXCEPT !.ping_replied = FALSE])
                    ELSE net)

CmdDns == \E h \in Hosts \cup BadHosts : Command("dns", DnsQuery(net, h))

\* net_http_fetch; without a gateway cmd_fetch returns at once.
CmdFetch ==
    /\ net.gateway_known
    /\ \E h \in Hosts \cup BadHosts :
         Command("fetch", DnsQuery([NetHttpReset(net) EXCEPT !.http_host = h], h))

\* Mutant: the loop has no counter.
IterateNoLimit(c, done, limit) ==
    /\ cmd = c
    /\ NetPoll
    /\ cmd' = IF done THEN "idle" ELSE c
    /\ i' = IF done THEN 0 ELSE IF i < limit THEN i + 1 ELSE i
    /\ UNCHANGED cmds

\* An iteration of a command's loop, which ends when done holds after the poll
\* or when the counter runs out.
Iterate(c, done, limit) ==
    /\ cmd = c
    /\ NetPoll
    /\ cmd' = IF done \/ i + 1 = limit THEN "idle" ELSE c
    /\ i' = IF cmd' = "idle" THEN 0 ELSE i + 1
    /\ UNCHANGED cmds

PingPoll == Iterate("ping", net'.ping_replied, PingPolls) /\ UNCHANGED result

DnsPoll == Iterate("dns", net'.dns_answer_ip # None, DnsPolls) /\ UNCHANGED result

FetchDone(s) == ~NetTcpBusy(s) /\ (s.http_ok \/ i > FailPolls)

FetchPoll ==
    /\ Iterate("fetch", FetchDone(net'), FetchPolls)
    /\ result' = IF cmd' = "fetch" THEN result
                 ELSE IF ~FetchDone(net') THEN "timeout"
                 ELSE IF net'.http_ok THEN "ok" ELSE "failed"

Shell == BootPoll \/ PingPoll \/ DnsPoll \/ FetchPoll

Next == Receive \/ Shell \/ TaskNet \/ CmdPing \/ CmdDns \/ CmdFetch

\* The scheduler gives every task its turn, and main.c's loop needs none.
Fairness == WF_vars(Shell) /\ WF_vars(TaskNet)

Spec == Init /\ [][Next]_vars /\ Fairness

-----------------------------------------------------------------------------
(* Properties.                                                             *)

Unit == (1 .. MaxCmds + 1) \X (1 .. Units)

\* Type invariant: every global of net.c has a value of its kind, and ROK is
\* only up when the ring holds a packet, which rtl8139_poll relies on.
TypeOK ==
    /\ net.tcp_state \in {0, 1, 3, 4, 5, 6, 7}
    /\ net.seq \in 0 .. 2 /\ net.ack \in 0 .. (MaxCmds + 2) * Stride
    /\ net.wait_ticks \in 0 .. RetryTicks - 1 /\ net.retries \in 0 .. MaxRetries
    /\ Len(net.http_body) <= BodyMax /\ Range(net.http_body) \subseteq Unit
    /\ net.remote_ip \in Hosts \cup {None} /\ net.split \in BOOLEAN
    /\ Len(net.conns) <= MaxCmds + 1 /\ Range(net.conns) \subseteq Hosts
    /\ rx \in 0 .. RxMax /\ (rok => rx > 0)
    /\ cmd \in {"boot", "idle", "ping", "dns", "fetch"} /\ i \in Nat

\* What fetch shows is one piece of one response, with nothing missing, repeated
\* or out of order, and nothing of another connection to the same server
\* (handle_tcp, http_process_payload).  It begins right behind a blank line, and
\* that is the header's own except when a payload ended inside that one: then
\* the code waits for another blank line, and may find it in the body.
BodyInOrder ==
    LET b == net.http_body
        first == b[1][2] IN
    b # << >> =>
        /\ \A k \in 1 .. Len(b) : b[k] = <<b[1][1], first + k - 1>>
        /\ {first - 2, first - 1} \subseteq Crlf
        /\ first = 3 \/ net.split

\* While the download runs, what has been acknowledged to the server is what
\* was taken from it: g_tcp_ack stands exactly g_http_bytes past its first byte.
AckedWasReceived ==
    net.tcp_state \in {3, 4} =>
        net.ack = Isn(ConnOf(net.ack)) + 1 + net.http_bytes

\* Once configured the machine uses the address it asked for, although
\* handle_dhcp compares an ACK with nothing.
LeaseIsOurs == net.dhcp_configured => net.local_ip = net.offered_ip

\* The counters of cmd_fetch outlast every retransmission of
\* tcp_poll_retransmit: it can only time out on a server that began to answer
\* and stalled, never while a SYN or a GET is still being repeated.
TimeoutMeansStalled ==
    [][result' = "timeout" /\ cmd = "fetch" /\ cmd' = "idle" => net'.tcp_state = 4]_vars

\* A handshake or an unanswered GET does not last for ever, whatever the
\* network does: tcp_poll_retransmit gives up.
HandshakeEnds == []<>(net.tcp_state \notin {1, 3})

\* The shell gets its prompt back from ping, dns and fetch.
CommandEnds == [](cmd # "idle" => <>(cmd = "idle"))
=============================================================================
