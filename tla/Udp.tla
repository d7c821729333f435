---------------------------------- MODULE Udp ----------------------------------
(***************************************************************************)
(* UdpTransport: one socket, the I/O thread that turns source addresses     *)
(* into peers and evicts the silent ones, threads in send(), and the thread *)
(* in start() and stop().  In single-peer mode there is one peer and        *)
(* datagrams from other addresses are dropped.                              *)
(*                                                                          *)
(* What happens under one hold of peers_mutex is one step: nothing blocks   *)
(* there.  Time is kept as ages: for each peer since its last datagram, and *)
(* since the last eviction, each counted up to where it makes a difference. *)
(***************************************************************************)
EXTENDS Integers, FiniteSets, FiniteSetsExt, Functions

CONSTANTS Addrs,         \* source addresses
          Remote,        \* the configured remote address
          SinglePeer,    \* values single_peer may have
          max_peers,     \* 0 for no limit
          peer_timeout,  \* 0 for no eviction
          EvictPeriod,   \* time between evictions, a second in the code
          Senders,       \* threads that call send()
          MaxIds,        \* bound: peers the transceiver makes
          MaxSends       \* bound: calls of send() per thread

ASSUME UdpAssumption ==
    /\ SinglePeer \subseteq BOOLEAN /\ Remote \in Addrs
    /\ max_peers \in Nat /\ peer_timeout \in Nat /\ EvictPeriod \in Nat
    /\ MaxIds \in Nat \ {0} /\ MaxSends \in Nat

Ids == 1..MaxIds
None == "none"
Nobody == "nobody"

VARIABLES
    single_peer,    \* which never changes
    running, app,
    tracked,        \* peers stop() has still to report
    io,             \* where io_loop() is
    cur,            \* the address of the peer that is being resolved
    evicted,        \* peers evict_stale_peers() has still to report
    since,          \* time since the last eviction
    sock,           \* the socket is open
    send_mutex,     \* its owner
    snd,            \* the threads in send()
    addr_to_peer, peer_to_addr,
    age,            \* time since peer_last_activity, for the peers that have one
    packet,         \* the datagram waiting in the socket
    made,           \* peers made by on_peer_connected()
    live,           \* connections minus disconnections reported for each peer
    handed,         \* on_data_received() calls: pairs of peer and source
    sent            \* sendto() calls: pairs of peer and destination

maps == <<addr_to_peer, peer_to_addr, age>>
appVars == <<running, app, tracked>>
ioVars == <<io, cur, evicted, since>>
sendVars == <<send_mutex, snd, sent>>
vars == <<single_peer, appVars, ioVars, sock, sendVars, maps, packet, made, live, handed>>

NotSending(calls) == [pc |-> "idle", peer |-> 0, dest |-> None, calls |-> calls]

Init ==
    /\ single_peer \in SinglePeer
    /\ running = FALSE /\ app = "idle" /\ tracked = {}
    /\ io = "off" /\ cur = None /\ evicted = {} /\ since = 0
    /\ sock = FALSE /\ send_mutex = Nobody
    /\ snd = [k \in Senders |-> NotSending(0)]
    /\ addr_to_peer = <<>> /\ peer_to_addr = <<>> /\ age = <<>>
    /\ packet = None /\ made = <<>>
    /\ live = [p \in Ids |-> 0]
    /\ handed = {} /\ sent = {}

Report(ps, n) == live' = [p \in Ids |-> IF p \in ps THEN live[p] + n ELSE live[p]]
Put(f, x, y) == [z \in DOMAIN f \cup {x} |-> IF z = x THEN y ELSE f[z]]
Drop(f, xs) == Restrict(f, DOMAIN f \ xs)

-----------------------------------------------------------------------------
(* start() and stop() *)

start ==
    /\ app = "idle" /\ ~running
    /\ running' = TRUE /\ sock' = TRUE
    /\ io' = IF single_peer THEN "begin" ELSE "top"
    /\ since' = 0
    /\ UNCHANGED <<app, tracked, cur, evicted, sendVars, maps, packet, made, live, handed>>

stop ==
    /\ app = "idle" /\ running
    /\ running' = FALSE /\ app' = "join"
    /\ UNCHANGED <<tracked, ioVars, sock, sendVars, maps, packet, made, live, handed>>

(* The I/O thread is joined, then the socket is closed under send_mutex. *)
close_sock ==
    /\ app = "join" /\ io = "off" /\ send_mutex = Nobody
    /\ sock' = FALSE /\ packet' = None /\ app' = "clear"
    /\ UNCHANGED <<running, tracked, ioVars, sendVars, maps, made, live, handed>>

clear_peers ==
    /\ app = "clear" /\ app' = "callbacks"
    /\ tracked' = Range(addr_to_peer)
    /\ addr_to_peer' = <<>> /\ peer_to_addr' = <<>> /\ age' = <<>>
    /\ UNCHANGED <<running, ioVars, sock, sendVars, packet, made, live, handed>>

report_tracked(p) ==
    /\ app = "callbacks" /\ p \in tracked
    /\ tracked' = tracked \ {p} /\ Report({p}, -1)
    /\ UNCHANGED <<running, app, ioVars, sock, sendVars, maps, packet, made, handed>>

stop_returns ==
    /\ app = "callbacks" /\ tracked = {} /\ app' = "idle"
    /\ Report(IF single_peer THEN DOMAIN made ELSE {}, -1)
    /\ UNCHANGED <<running, tracked, ioVars, sock, sendVars, maps, packet, made, handed>>

-----------------------------------------------------------------------------
(* send() *)

HasAddress(p) == single_peer \/ p \in DOMAIN peer_to_addr

(* Not started, a datagram that is too large, or an unknown peer. *)
send_fails(k) ==
    /\ snd[k].pc = "idle" /\ snd[k].calls < MaxSends /\ send_mutex = Nobody
    /\ snd' = [snd EXCEPT ![k].calls = @ + 1]
    /\ UNCHANGED <<appVars, ioVars, sock, send_mutex, sent, maps, packet, made, live, handed>>

(* The address is copied under peers_mutex, and used after it is released. *)
send(k, p) ==
    /\ snd[k].pc = "idle" /\ snd[k].calls < MaxSends /\ send_mutex = Nobody
    /\ sock /\ HasAddress(p)
    /\ send_mutex' = k
    /\ snd' = [snd EXCEPT ![k] = [pc |-> "sending", peer |-> p, calls |-> @.calls + 1,
                                  dest |-> IF single_peer THEN Remote ELSE peer_to_addr[p]]]
    /\ UNCHANGED <<appVars, ioVars, sock, sent, maps, packet, made, live, handed>>

(* Mutant of sendto: the address is not copied, and may be gone by now. *)
sendto_dangling(k) ==
    /\ snd[k].pc = "sending"
    /\ \E a \in Addrs :
        /\ single_peer => a = Remote
        /\ snd[k].peer \in DOMAIN peer_to_addr => a = peer_to_addr[snd[k].peer]
        /\ sent' = sent \cup {<<snd[k].peer, a>>}
    /\ snd' = [snd EXCEPT ![k] = NotSending(@.calls)]
    /\ send_mutex' = Nobody
    /\ UNCHANGED <<appVars, ioVars, sock, maps, packet, made, live, handed>>

sendto(k) ==
    /\ snd[k].pc = "sending"
    /\ sent' = sent \cup {<<snd[k].peer, snd[k].dest>>}
    /\ snd' = [snd EXCEPT ![k] = NotSending(@.calls)]
    /\ send_mutex' = Nobody
    /\ UNCHANGED <<appVars, ioVars, sock, maps, packet, made, live, handed>>

-----------------------------------------------------------------------------
(* io_loop() *)

(* In single-peer mode the peer is asked for once, and reported connected    *)
(* each time the loop begins.                                                *)
begin_single ==
    /\ io = "begin" /\ io' = "top"
    /\ made' = Put(made, 1, Remote) /\ Report({1}, 1)
    /\ UNCHANGED <<appVars, cur, evicted, since, sock, sendVars, maps, packet, handed>>

(* Mutant of loop: it goes on after stop(). *)
loop_forever ==
    /\ io = "top" /\ io' = "poll"
    /\ UNCHANGED <<appVars, cur, evicted, since, sock, sendVars, maps, packet, made, live, handed>>

loop ==
    /\ io = "top" /\ io' = IF running THEN "poll" ELSE "off"
    /\ UNCHANGED <<appVars, cur, evicted, since, sock, sendVars, maps, packet, made, live, handed>>

(* stop() has written to the wake pipe. *)
woken ==
    /\ io = "poll" /\ ~running /\ io' = "top"
    /\ UNCHANGED <<appVars, cur, evicted, since, sock, sendVars, maps, packet, made, live, handed>>

poll_fails ==
    /\ io = "poll" /\ io' = "off"
    /\ UNCHANGED <<appVars, cur, evicted, since, sock, sendVars, maps, packet, made, live, handed>>

Stale == {p \in DOMAIN age : peer_timeout > 0 /\ age[p] > peer_timeout /\ p \in DOMAIN peer_to_addr}

(* Mutant of poll_timeout: the time of the eviction is never due. *)
poll_timeout_only ==
    /\ io = "poll" /\ packet = None /\ io' = "top"
    /\ UNCHANGED <<appVars, cur, evicted, since, sock, sendVars, maps, packet, made, live, handed>>

Evict(ps) ==
    /\ addr_to_peer' = Drop(addr_to_peer, {peer_to_addr[p] : p \in ps})
    /\ peer_to_addr' = Drop(peer_to_addr, ps)
    /\ age' = Drop(age, ps)

(* poll() times out; an eviction is due after EvictPeriod. *)
poll_timeout ==
    /\ io = "poll" /\ packet = None
    /\ IF ~single_peer /\ since >= EvictPeriod
       THEN evicted' = Stale /\ Evict(Stale) /\ since' = 0 /\ io' = "evicting"
       ELSE io' = "top" /\ UNCHANGED <<evicted, since, maps>>
    /\ UNCHANGED <<appVars, cur, sock, sendVars, packet, made, live, handed>>

(* Mutant of report_evicted: the eviction is not reported. *)
report_evicted_silently ==
    /\ io = "evicting" /\ evicted' = {} /\ io' = "top"
    /\ UNCHANGED <<appVars, cur, since, sock, sendVars, maps, packet, made, live, handed>>

report_evicted ==
    /\ io = "evicting" /\ Report(evicted, -1) /\ evicted' = {} /\ io' = "top"
    /\ UNCHANGED <<appVars, cur, since, sock, sendVars, maps, packet, made, handed>>

Full == max_peers > 0 /\ Cardinality(DOMAIN addr_to_peer) >= max_peers

receive_single ==
    /\ io = "poll" /\ packet # None /\ single_peer
    /\ packet' = None /\ io' = "top"
    /\ handed' = IF packet = Remote THEN handed \cup {<<1, packet>>} ELSE handed
    /\ UNCHANGED <<appVars, cur, evicted, since, sock, sendVars, maps, made, live>>

(* resolve_peer() finds the peer. *)
receive_known ==
    /\ io = "poll" /\ packet \in DOMAIN addr_to_peer
    /\ LET p == addr_to_peer[packet] IN
        age' = Put(age, p, 0) /\ handed' = handed \cup {<<p, packet>>}
    /\ packet' = None /\ io' = "top"
    /\ UNCHANGED <<appVars, cur, evicted, since, sock, sendVars, addr_to_peer, peer_to_addr, made, live>>

(* It does not: the datagram is dropped, or the transceiver is asked. *)
receive_unknown ==
    /\ io = "poll" /\ packet \in Addrs \ DOMAIN addr_to_peer /\ ~single_peer
    /\ packet' = None
    /\ IF Full THEN io' = "top" /\ UNCHANGED cur ELSE io' = "resolve" /\ cur' = packet
    /\ UNCHANGED <<appVars, evicted, since, sock, sendVars, maps, made, live, handed>>

on_peer_connected ==
    /\ io = "resolve"
    /\ \/ /\ Cardinality(DOMAIN made) < MaxIds
          /\ LET id == Cardinality(DOMAIN made) + 1 IN made' = Put(made, id, cur) /\ Report({id}, 1)
          /\ io' = "insert" /\ UNCHANGED cur
       \/ io' = "top" /\ cur' = None /\ UNCHANGED <<made, live>>
    /\ UNCHANGED <<appVars, evicted, since, sock, sendVars, maps, packet, handed>>

NewPeer == Cardinality(DOMAIN made)

(* The limit is checked again; a peer above it is reported gone. *)
insert_peer ==
    /\ io = "insert"
    /\ IF Full
       THEN Report({NewPeer}, -1) /\ io' = "top" /\ cur' = None /\ UNCHANGED maps
       ELSE /\ addr_to_peer' = Put(addr_to_peer, cur, NewPeer)
            /\ peer_to_addr' = Put(peer_to_addr, NewPeer, cur)
            /\ age' = Put(age, NewPeer, 0)
            /\ io' = "notify" /\ UNCHANGED <<cur, live>>
    /\ UNCHANGED <<appVars, evicted, since, sock, sendVars, packet, made, handed>>

(* Connected is reported once more, then the datagram is handed on. *)
notify_connected ==
    /\ io = "notify" /\ io' = "top" /\ cur' = None
    /\ handed' = handed \cup {<<NewPeer, cur>>}
    /\ UNCHANGED <<appVars, evicted, since, sock, sendVars, maps, packet, made, live>>

-----------------------------------------------------------------------------
(* The network, and time *)

datagram(a) ==
    /\ sock /\ packet = None /\ packet' = a
    /\ UNCHANGED <<appVars, ioVars, sock, sendVars, maps, made, live, handed>>

tick ==
    /\ age' = [p \in DOMAIN age |-> Min({age[p] + 1, peer_timeout + 1})]
    /\ since' = Min({since + 1, EvictPeriod})
    /\ UNCHANGED <<appVars, io, cur, evicted, sock, sendVars, addr_to_peer, peer_to_addr, packet,
                   made, live, handed>>

-----------------------------------------------------------------------------

StopStep == close_sock \/ clear_peers \/ stop_returns \/ \E p \in Ids : report_tracked(p)
IoStep ==
    \/ begin_single \/ loop \/ woken \/ poll_timeout \/ report_evicted \/ receive_single
    \/ receive_known \/ receive_unknown \/ on_peer_connected \/ insert_peer \/ notify_connected

Step ==
    \/ start \/ stop \/ StopStep \/ IoStep \/ poll_fails \/ tick
    \/ \E k \in Senders, p \in Ids : send(k, p)
    \/ \E k \in Senders : send_fails(k) \/ sendto(k)
    \/ \E a \in Addrs : datagram(a)

Next == Step /\ UNCHANGED single_peer

Spec == Init /\ [][Next]_vars

(* Threads that can run are scheduled, and time passes. *)
FairSpec ==
    /\ Spec
    /\ WF_vars(StopStep /\ UNCHANGED single_peer) /\ WF_vars(IoStep /\ UNCHANGED single_peer)
    /\ WF_vars(tick /\ UNCHANGED single_peer)
    /\ \A k \in Senders : WF_vars(sendto(k) /\ UNCHANGED single_peer)

-----------------------------------------------------------------------------
(* Properties *)

TypeOK ==
    /\ app \in {"idle", "join", "clear", "callbacks"}
    /\ io \in {"off", "begin", "top", "poll", "evicting", "resolve", "insert", "notify"}
    /\ DOMAIN addr_to_peer \subseteq Addrs /\ Range(addr_to_peer) \subseteq Ids
    /\ send_mutex \in Senders \cup {Nobody}
    /\ \A p \in DOMAIN age : age[p] \in 0..(peer_timeout + 1)
    /\ packet \in Addrs \cup {None} /\ DOMAIN made \subseteq Ids

(* The three maps always describe the same peers, at most max_peers of them;  *)
(* connections and disconnections of a peer are reported in turn, and once    *)
(* stop() has returned no peer is left connected, however it went             *)
(* (resolve_peer, evict_stale_peers, stop).                                   *)
PeersAccounted ==
    /\ DOMAIN peer_to_addr = DOMAIN age /\ Range(addr_to_peer) = DOMAIN age
    /\ \A p \in DOMAIN age : peer_to_addr[p] = made[p] /\ addr_to_peer[made[p]] = p
    /\ max_peers > 0 => Cardinality(DOMAIN addr_to_peer) <= max_peers
    /\ \A p \in Ids : live[p] \in {0, 1}
    /\ (app = "idle" /\ ~running) => \A p \in Ids : live[p] = 0

(* Datagrams are handed on for the peer their source stands for and sent to  *)
(* the address of their peer through an open socket, although peers are      *)
(* evicted, addresses come back under new ids and stop() is called meanwhile *)
(* (io_loop, send).                                                          *)
TrafficFollowsPeers ==
    /\ \A k \in Senders : snd[k].pc = "sending" => sock
    /\ \A h \in handed : made[h[1]] = h[2]
    /\ \A s \in sent : (single_peer /\ s[2] = Remote) \/ (~single_peer /\ made[s[1]] = s[2])

(* A peer that stays silent for longer than peer_timeout is evicted, unless  *)
(* the I/O thread has ended (io_loop, evict_stale_peers).                    *)
StalePeersEvicted ==
    \A p \in Ids : (p \in Stale) ~> (p \notin Stale \/ io = "off")

(* It is, if poll() times out again and again.  Evictions happen only then,  *)
(* and nothing makes it so: the datagrams of other peers, one every 100 ms,  *)
(* keep poll() from timing out and a silent peer from being evicted          *)
(* (io_loop).                                                                *)
EvictedWhenQuiet == []<><<poll_timeout>>_vars => StalePeersEvicted

(* stop() returns, although peers and datagrams keep coming and threads are  *)
(* in send() (UdpTransport::stop).                                           *)
StopReturns == app # "idle" ~> app = "idle"
================================================================================
