------------------------------- MODULE Network ------------------------------
(***************************************************************************)
(* The network: packet buffers (src/net/pbuf.c), the threads neti and neto *)
(* of netif.c, Ethernet, ARP with its cache and its thread, IP and ICMP    *)
(* echo, and the rings of the card (src/kernel/e1000.c) with its interrupt *)
(* handler.  There is one card and one interface, as in the code.          *)
(*                                                                         *)
(* A packet is what it is and whom it is from or to.  The threads take one *)
(* packet in a step, the ARP thread one entry, and interrupts come between *)
(* steps, oftener than the kernel lets them.  The operators work on a      *)
(* record, see net.                                                        *)
(***************************************************************************)
EXTENDS Integers, FiniteSetsExt, SequencesExt

CONSTANTS
  Bufs,      \* bound: packet buffers, numbers from 1
  Near,      \* hosts of the net, numbers from 1, Gateway among them
  Gateway,
  Far,       \* hosts elsewhere
  RxNr,      \* RX_DESC_NR
  TxNr,      \* TX_DESC_NR
  Life,      \* ARP_ENTRY_TIMEOUT, in ticks
  Delay,     \* ARP_DELAY, in ticks
  Retry,     \* ARP_RETRY
  Traffic,   \* bound: the sets of kinds of packet one behaviour may have,
             \* "ping" for the ones that sys_test sends; "far" if there are
             \* some from and to hosts elsewhere
  Lossy      \* what is allowed of "coalesce": one interrupt for two packets
             \* sent, "overrun": a descriptor is used again before the
             \* interrupt, "query": a new entry with junk in its query time,
             \* "cause": an interrupt has one that the handler does not know

ASSUME NetAssumption ==
  /\ Bufs \subseteq Nat \ {0} /\ IsFiniteSet(Bufs) /\ RxNr \in Nat \ {0} /\ 1 .. RxNr \subseteq Bufs
  /\ IsFiniteSet(Near) /\ Gateway \in Near /\ TxNr \in Nat \ {0}
  /\ Life \in Nat /\ Delay \in Nat

VARIABLE
  net   \* [count, msg: of each pbuf; rx, the ring of receive buffers from
        \*  rx_cur on, filled, how many the card has filled; rxq, txq; tx, the
        \*  transmit ring [buf, done], cur, tdh; icr; waiter, tx_waiter is set;
        \*  neti, neto: "run", "wait", "block"; out, the packet neto sends;
        \*  arp, of each host of the net; traffic; halt]

Then(result, Rest(_)) == Rest(result)
Stop(s, why) == IF s.halt = "" THEN [s EXCEPT !.halt = why] ELSE s
Packet(kind, host) == [kind |-> kind, host |-> host]
Empty   == Packet("none", 0)
NoEntry == [there |-> FALSE, life |-> 0, age |-> Delay, retry |-> 0, used |-> FALSE, queue |-> << >>]
Free(s) == {b \in Bufs : s.count[b] = 0}
-----------------------------------------------------------------------------
\* pbuf_get: [s, b].  The code makes two more of a page when there is none;
\* here whoever may need one waits until enough are free (Room).  PbufsGet is
\* n calls of it.
Room(n) == Cardinality(Free(net)) >= n
PbufGet(s) == LET b == CHOOSE any \in Free(s) : TRUE IN [s |-> [s EXCEPT !.count[b] = 1], b |-> b]
PbufsGet(s, n) ==
  LET q == CHOOSE q \in [1 .. n -> Free(s)] : IsInjective(q)
  IN [s |-> [s EXCEPT !.count = [b \in Bufs |-> IF b \in Range(q) THEN 1 ELSE @[b]]], q |-> q]

\* pbuf_put.
PbufPut(s, b) ==
  IF s.count[b] = 0 THEN Stop(s, "pbuf_put")
  ELSE [s EXCEPT !.count[b] = @ - 1, !.msg[b] = IF s.count[b] = 1 THEN Empty ELSE @]

\* netif_input and netif_output, of each packet of q in turn.
NetifInput(s, q) ==
  [s EXCEPT !.rxq = @ \o q, !.neti = IF @ = "wait" /\ q # << >> THEN "run" ELSE @]
NetifOutput(s, q) ==
  [s EXCEPT !.txq = @ \o q, !.neto = IF @ = "wait" /\ q # << >> THEN "run" ELSE @]
EthOutput(s, b, msg) == NetifOutput([s EXCEPT !.msg[b] = msg], <<b>>)

\* arp_lookup: the host asked for, and the entry, a new one if need be, whose
\* query time is what kmalloc finds there.
Query(h) == IF h \in Near THEN h ELSE Gateway
ArpLookup(s, h) ==
  IF s.arp[h].there THEN s
  ELSE [s EXCEPT !.arp[h] = [NoEntry EXCEPT !.there = TRUE, !.used = TRUE,
                                            !.age = IF "query" \in Lossy THEN 0 - 1 ELSE Delay]]

BugQueryForgets(s, h) ==
  IF s.arp[h].age < Delay THEN s
  ELSE Then(PbufGet([s EXCEPT !.arp[h].age = 0]), LAMBDA g :
         EthOutput(g.s, g.b, Packet("request", h)))

\* arp_query.
ArpQuery(s, h) ==
  IF s.arp[h].age < Delay THEN s
  ELSE Then(PbufGet([s EXCEPT !.arp[h].age = 0, !.arp[h].retry = @ + 1]), LAMBDA g :
         EthOutput(g.s, g.b, Packet("request", h)))

\* arp_refresh: what waited for the address of h goes out, the oldest first.
ArpRefresh(s, h) ==
  IF h \notin Near THEN s
  ELSE Then(ArpLookup(s, h), LAMBDA u :
    NetifOutput([u EXCEPT !.arp[h] = [@ EXCEPT !.life = Life, !.retry = 0, !.used = FALSE, !.queue = << >>]],
                u.arp[h].queue))

BugArpReply(s, b) == EthOutput(s, b, Packet("reply", s.msg[b].host))

\* arp_reply: the request is turned round in its buffer, which neti still has.
ArpReply(s, b) == EthOutput([s EXCEPT !.count[b] = @ + 1], b, Packet("reply", s.msg[b].host))

\* arp_eth_output, of ip_output.
ArpEthOutput(s, b, host) ==
  LET h == Query(host)
  IN Then(ArpLookup(s, h), LAMBDA u :
       IF u.arp[h].life > 0 THEN NetifOutput([u EXCEPT !.arp[h].used = TRUE], <<b>>)
       ELSE ArpQuery([u EXCEPT !.arp[h].queue = @ \o <<b>>], h))

\* ip_output: the header, and the way out.
IpOutput(s, b, host) == ArpEthOutput(s, b, host)

\* icmp_input: an echo is answered in its own buffer, by icmp_echo_reply.
IcmpInput(s, b) ==
  IpOutput([s EXCEPT !.count[b] = @ + 1, !.msg[b].kind = "answer"], b, s.msg[b].host)

\* ip_input, arp_input and eth_input.  "other" is whatever they look at and
\* leave alone: another protocol, version or address.
IpInput(s, b) == IF s.msg[b].kind = "echo" THEN IcmpInput(s, b) ELSE s
ArpInput(s, b) ==
  IF s.msg[b].kind = "request" THEN ArpReply(s, b) ELSE ArpRefresh(s, s.msg[b].host)
EthInput(s, b) ==
  IF s.msg[b].kind \in {"request", "reply"} THEN ArpInput(s, b) ELSE IpInput(s, b)

\* arp_entry_put: what waited is given up.  A packet that is there twice is
\* free when its second turn comes.
ArpEntryPut(s, h) ==
  LET q == s.arp[h].queue
  IN IF ~ IsInjective(q) \/ \E b \in Range(q) : s.count[b] # 1 THEN Stop(s, "arp_entry_put")
     ELSE [s EXCEPT !.count = [b \in Bufs |-> IF b \in Range(q) THEN 0 ELSE @[b]],
                    !.msg   = [b \in Bufs |-> IF b \in Range(q) THEN Empty ELSE @[b]],
                    !.arp[h] = NoEntry]

\* arp_thread, one entry.
ArpRefreshEntry(s, h) ==
  LET e == s.arp[h]
  IN IF ~ e.there \/ e.life > 0 THEN s
     ELSE IF e.retry > Retry \/ ~ e.used THEN ArpEntryPut(s, h)
     ELSE ArpQuery(s, h)

\* send_packet with a descriptor that is free.  The tail register of the card
\* gets the new tx_cur, which is net.cur ever after.
SendPacket(s, b) ==
  IF s.count[b] # 1 THEN Stop(s, "send_packet")
  ELSE [s EXCEPT !.tx[s.cur] = [buf |-> b, done |-> FALSE], !.cur = (@ + 1) % TxNr, !.out = 0]

\* recv_packet: every buffer the card has filled, each replaced by another.
RecvPacket(s, n) ==
  Then(PbufsGet(NetifInput(s, SubSeq(s.rx, 1, n)), n), LAMBDA g :
    [g.s EXCEPT !.rx = SubSeq(@, n + 1, Len(@)) \o g.q, !.filled = 0])

\* e1000_handler.
Transmitted(s) ==
  LET last == (s.tdh + TxNr - 1) % TxNr
      b    == s.tx[last].buf
  IN IF "tx" \notin s.icr THEN s
     ELSE IF b = 0 THEN Stop(s, "e1000_handler")
     ELSE [PbufPut([s EXCEPT !.tx[last].buf = 0], b)
             EXCEPT !.waiter = FALSE, !.neto = IF s.waiter THEN "run" ELSE @]
Handler(s) == Then(Transmitted(s), LAMBDA u :
  [(IF "rx" \in u.icr THEN RecvPacket(u, u.filled) ELSE u) EXCEPT !.icr = {}])
-----------------------------------------------------------------------------
Do(s) == net.halt = "" /\ net' = s

\* The threads.
Neti == net.neti = "run" /\ Room(1) /\ Do(
  IF net.rxq = << >> THEN [net EXCEPT !.neti = "wait"]
  ELSE LET b == Head(net.rxq) IN PbufPut(EthInput([net EXCEPT !.rxq = Tail(@)], b), b))
Neto == net.neto = "run" /\ Then(Append(net.txq, 0)[1], LAMBDA first :
  LET b == IF net.out # 0 THEN net.out ELSE first
      s == [net EXCEPT !.txq = IF net.out = 0 /\ @ # << >> THEN Tail(@) ELSE @, !.out = b]
  IN IF b = 0 THEN Do([net EXCEPT !.neto = "wait"])
     ELSE IF net.tx[net.cur].done
       THEN ("overrun" \in Lossy \/ net.tx[net.cur].buf = 0) /\ Do(SendPacket(s, b))
       ELSE Do(IF net.waiter THEN Stop(s, "tx_waiter")
               ELSE [s EXCEPT !.waiter = TRUE, !.neto = "block"]))
ArpThread(h) == Room(1) /\ Do(ArpRefreshEntry(net, h))

\* sys_test sends an echo: icmp_echo.
IcmpEcho(s, h) ==
  Then(PbufGet(s), LAMBDA g : IpOutput([g.s EXCEPT !.msg[g.b] = Packet("ping", h)], g.b, h))
Ping(h) == "ping" \in net.traffic /\ Room(3) /\ Do(IcmpEcho(net, h))

\* After its work the handler hangs if there is a cause it has not named, of
\* which two are enabled.
Interrupt ==
  /\ net.icr # {} /\ Cardinality(Free(Transmitted(net))) >= net.filled
  /\ \E known \in IF "cause" \in Lossy THEN BOOLEAN ELSE {TRUE} :
       Do(IF known THEN Handler(net) ELSE Stop(Handler(net), "e1000_handler hangs"))

\* The card and the wire.  To the card a ring is empty whose tail is its head,
\* also one that neto has filled.
Transmit ==
  /\ net.tdh # net.cur /\ ~ net.tx[net.tdh].done
  /\ "tx" \in net.icr => "coalesce" \in Lossy
  /\ Do([net EXCEPT !.tx[net.tdh].done = TRUE, !.tdh = (@ + 1) % TxNr, !.icr = @ \cup {"tx"}])
Receive(msg) ==
  /\ net.filled < RxNr - 1
  /\ Room(3 + net.filled)
  /\ Do([net EXCEPT !.msg[net.rx[net.filled + 1]] = msg, !.filled = @ + 1, !.icr = @ \cup {"rx"}])

\* A tick of the clock.
Tick == (\E h \in Near : net.arp[h].there) /\ Do([net EXCEPT !.arp = [h \in Near |->
  IF ~ net.arp[h].there THEN NoEntry
  ELSE [net.arp[h] EXCEPT !.life = IF @ > 0 THEN @ - 1 ELSE 0,
                          !.age = IF @ \in 0 .. Delay - 1 THEN @ + 1 ELSE @]]])

\* e1000_init.
NetInit(halt) ==
  \E traffic \in Traffic :
  net = [traffic |-> traffic, count |-> [b \in Bufs |-> IF b <= RxNr THEN 1 ELSE 0], msg |-> [b \in Bufs |-> Empty],
         rx |-> [i \in 1 .. RxNr |-> i], filled |-> 0, rxq |-> << >>, txq |-> << >>,
         tx |-> [i \in 0 .. TxNr - 1 |-> [buf |-> 0, done |-> TRUE]], cur |-> 0, tdh |-> 0,
         icr |-> {}, waiter |-> FALSE, neti |-> "run", neto |-> "run", out |-> 0,
         arp |-> [h \in Near |-> NoEntry], halt |-> halt]

Hosts == IF "far" \in net.traffic THEN Near \cup Far ELSE Near
NetNext ==
  \/ Neti \/ Neto \/ Interrupt \/ Transmit \/ Tick
  \/ \E h \in Near : ArpThread(h)
  \/ \E h \in Hosts : Ping(h)
  \/ \E kind \in net.traffic \ {"ping", "far"}, h \in Hosts : Receive(Packet(kind, h))

\* Interrupts are taken, the threads run, the card sends, the clock ticks.  That
\* the threads run is a condition and not what task_search promises: see
\* StarvedFromBehind of Scheduler.
NetFair ==
  /\ WF_net(Neti) /\ WF_net(Neto) /\ \A h \in Near : WF_net(ArpThread(h))
  /\ WF_net(Interrupt) /\ WF_net(Transmit) /\ WF_net(Tick)
-----------------------------------------------------------------------------
\* Every packet buffer that is not free is in as many places as its count
\* says: a ring, a queue, or with neto.  None is used after it was freed,
\* lost, or freed twice, though replies are made in the buffer of a request;
\* the assertions of pbuf_put, arp_entry_put, send_packet and e1000_handler hold.
Times(q, b) == Cardinality({i \in DOMAIN q : q[i] = b})
Sending(tx, b) == Cardinality({i \in DOMAIN tx : tx[i].buf = b})
Waits(arp, b) ==
  Cardinality(UNION {{h} \X {i \in DOMAIN arp[h].queue : arp[h].queue[i] = b} : h \in Near})
PbufsOwned ==
  net.halt # "off" => net.halt = "" /\ \A b \in Bufs :
    net.count[b] = Times(net.rx, b) + Times(net.rxq, b) + Times(net.txq, b)
                 + Sending(net.tx, b) + Waits(net.arp, b) + IF net.out = b THEN 1 ELSE 0

\* A packet that is to be sent does not stay: the card takes it, or its host
\* does not answer and it is given up, whoever sleeps meanwhile.  This needs the
\* scheduler to run the threads, a new ARP entry to find no time in the future
\* in its query field ("query"), and is over once neto has filled the whole
\* ring, from which the card takes no more.
ToSend(b) == Times(net.txq, b) > 0 \/ net.out = b \/ \E h \in Near : Times(net.arp[h].queue, b) > 0
RingFull == \A i \in DOMAIN net.tx : ~ net.tx[i].done
PacketsLeave == \A b \in Bufs : ToSend(b) ~> (~ ToSend(b) \/ RingFull)
=============================================================================
