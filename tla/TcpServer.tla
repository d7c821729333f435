------------------------------- MODULE TcpServer -------------------------------
(***************************************************************************)
(* TcpServerTransport: the thread that calls start() and stop(), the I/O    *)
(* thread, and threads in send(), over the two kinds of mutex they share:   *)
(* clients_mutex for the table of clients, and one send_mutex per client,   *)
(* which send(), remove_client() and stop() acquire while they hold         *)
(* clients_mutex.                                                           *)
(*                                                                          *)
(* The system calls block the way the kernel makes them block: ::send()     *)
(* waits while the remote side does not read.  Descriptors are reused, the  *)
(* lowest first.  The n-th accepted connection becomes peer n, since the    *)
(* transceiver gives every connection a new id.                             *)
(***************************************************************************)
EXTENDS Integers, Sequences, FiniteSets, FiniteSetsExt

CONSTANTS Senders,      \* threads that call send()
          max_clients,  \* TcpServerConfig::max_clients
          FrameLen,     \* units (the bytes one ::send() takes) in a frame
          Window,       \* units the kernel holds for a remote that does not read
          RemoteMoves,  \* what remotes do besides reading: "send", "shut", "close"
          MaxFds,       \* descriptors of the process
          MaxConns,     \* bound: connections in a behaviour
          MaxSends      \* bound: calls of send() per thread

ASSUME SizeAssumption ==
    /\ max_clients \in Nat /\ FrameLen \in Nat \ {0} /\ Window \in Nat \ {0}
    /\ MaxFds \in Nat /\ MaxConns \in Nat /\ MaxSends \in Nat

Conns == 1..MaxConns
Fds == 1..MaxFds
Nobody == "nobody"
Threads == Senders \cup {"io", "app"}

VARIABLES
    running,        \* impl_->running
    app,            \* where the thread in start() and stop() is
    to_close,       \* clients stop() has closed and has still to report
    io,             \* where io_loop() is
    snapshot,       \* client_snapshot: pairs of peer and descriptor
    ready,          \* the pairs of the snapshot that poll() reported
    cur,            \* the peer and descriptor the I/O thread works on
    clients,        \* the table: peer to descriptor
    clients_mutex,  \* its owner
    send_mutex,     \* the owner of each client's send_mutex
    snd,            \* the threads in send()
    fds,            \* the connection behind each descriptor, 0 when free
    kernel,         \* each connection: remote, unread input, unread output, shutdown
    stream,         \* frames of the units each remote was sent
    accepted,       \* connections accepted
    told,           \* callbacks made for each peer
    handed          \* on_data_received() calls: pairs of peer and origin

ioVars == <<io, snapshot, ready, cur>>
table == <<clients, clients_mutex, send_mutex>>
wire == <<kernel, stream>>
vars == <<running, app, to_close, ioVars, table, snd, fds, wire, accepted, told, handed>>

NoClient == <<0, 0>>
Idle(k) == snd[k].pc = "idle"
NotSending(calls) == [pc |-> "idle", peer |-> 0, fd |-> 0, left |-> 0, calls |-> calls]
NewConnection == [remote |-> "open", input |-> FALSE, unread |-> 0, shut |-> FALSE]

Init ==
    /\ running = FALSE /\ app = "idle" /\ to_close = {}
    /\ io = "off" /\ snapshot = {} /\ ready = {} /\ cur = NoClient
    /\ clients = <<>> /\ clients_mutex = Nobody
    /\ send_mutex = [p \in Conns |-> Nobody]
    /\ snd = [k \in Senders |-> NotSending(0)]
    /\ fds = [f \in Fds |-> 0]
    /\ kernel = [c \in Conns |-> NewConnection]
    /\ stream = [c \in Conns |-> <<>>]
    /\ accepted = 0
    /\ told = [p \in Conns |-> <<>>]
    /\ handed = {}

Tell(p, what) == told' = [told EXCEPT ![p] = Append(@, what)]
CloseFd(f) == fds' = [fds EXCEPT ![f] = 0]
FreeFds == {f \in Fds : fds[f] = 0}

-----------------------------------------------------------------------------
(* start() and stop() *)

start ==
    /\ app = "idle" /\ ~running
    /\ running' = TRUE /\ io' = "top"
    /\ UNCHANGED <<app, to_close, snapshot, ready, cur, table, snd, fds, wire, accepted, told, handed>>

stop ==
    /\ app = "idle" /\ running
    /\ running' = FALSE /\ app' = "join"
    /\ UNCHANGED <<to_close, ioVars, table, snd, fds, wire, accepted, told, handed>>

join_io ==
    /\ app = "join" /\ io = "off"
    /\ app' = "shutdown"
    /\ UNCHANGED <<running, to_close, ioVars, table, snd, fds, wire, accepted, told, handed>>

(* Phase 1, under clients_mutex only. *)
shutdown_clients ==
    /\ app = "shutdown" /\ clients_mutex = Nobody
    /\ kernel' = [c \in Conns |-> IF \E p \in DOMAIN clients : fds[clients[p]] = c
                                  THEN [kernel[c] EXCEPT !.shut = TRUE] ELSE kernel[c]]
    /\ app' = "close"
    /\ UNCHANGED <<running, to_close, ioVars, table, snd, fds, stream, accepted, told, handed>>

(* Phase 2: clients_mutex is held while the send_mutex of one client after   *)
(* the other is acquired.                                                    *)
lock_clients ==
    /\ app = "close" /\ clients_mutex = Nobody
    /\ clients_mutex' = "app" /\ app' = "closing"
    /\ UNCHANGED <<running, to_close, ioVars, clients, send_mutex, snd, fds, wire, accepted, told, handed>>

close_client(p) ==
    /\ app = "closing" /\ p \in DOMAIN clients \ to_close /\ send_mutex[p] = Nobody
    /\ to_close' = to_close \cup {p}
    /\ CloseFd(clients[p])
    /\ UNCHANGED <<running, app, ioVars, table, snd, wire, accepted, told, handed>>

(* Mutant of clear_clients: the disconnections are not reported. *)
clear_clients_silently ==
    /\ app = "closing" /\ to_close = DOMAIN clients
    /\ clients' = <<>> /\ clients_mutex' = Nobody
    /\ app' = "callbacks" /\ to_close' = {}
    /\ UNCHANGED <<running, ioVars, send_mutex, snd, fds, wire, accepted, told, handed>>

clear_clients ==
    /\ app = "closing" /\ to_close = DOMAIN clients
    /\ clients' = <<>> /\ clients_mutex' = Nobody
    /\ app' = "callbacks"
    /\ UNCHANGED <<running, to_close, ioVars, send_mutex, snd, fds, wire, accepted, told, handed>>

report_closed(p) ==
    /\ app = "callbacks" /\ p \in to_close
    /\ to_close' = to_close \ {p}
    /\ Tell(p, "disconnected")
    /\ UNCHANGED <<running, app, ioVars, table, snd, fds, wire, accepted, handed>>

stop_returns ==
    /\ app = "callbacks" /\ to_close = {}
    /\ app' = "idle"
    /\ UNCHANGED <<running, to_close, ioVars, table, snd, fds, wire, accepted, told, handed>>

-----------------------------------------------------------------------------
(* send() *)

send_unknown(k, p) ==
    /\ Idle(k) /\ snd[k].calls < MaxSends /\ clients_mutex = Nobody
    /\ p \notin DOMAIN clients
    /\ snd' = [snd EXCEPT ![k].calls = @ + 1]
    /\ UNCHANGED <<running, app, to_close, ioVars, table, fds, wire, accepted, told, handed>>

send(k, p) ==
    /\ Idle(k) /\ snd[k].calls < MaxSends /\ clients_mutex = Nobody
    /\ p \in DOMAIN clients
    /\ clients_mutex' = k
    /\ snd' = [snd EXCEPT ![k].calls = @ + 1, ![k].pc = "lock", ![k].peer = p]
    /\ UNCHANGED <<running, app, to_close, ioVars, clients, send_mutex, fds, wire, accepted, told, handed>>

(* Mutant of lock_client: the frame is written without the send_mutex. *)
lock_client_unlocked(k) ==
    /\ snd[k].pc = "lock"
    /\ clients_mutex' = Nobody
    /\ snd' = [snd EXCEPT ![k].pc = "sending", ![k].fd = clients[snd[k].peer], ![k].left = FrameLen]
    /\ UNCHANGED <<running, app, to_close, ioVars, clients, send_mutex, fds, wire, accepted, told, handed>>

(* The send_mutex is acquired before clients_mutex is released. *)
lock_client(k) ==
    /\ snd[k].pc = "lock" /\ send_mutex[snd[k].peer] = Nobody
    /\ send_mutex' = [send_mutex EXCEPT ![snd[k].peer] = k]
    /\ clients_mutex' = Nobody
    /\ snd' = [snd EXCEPT ![k].pc = "sending", ![k].fd = clients[snd[k].peer], ![k].left = FrameLen]
    /\ UNCHANGED <<running, app, to_close, ioVars, clients, fds, wire, accepted, told, handed>>

Target(k) == fds[snd[k].fd]
SendFails(c) == c # 0 => kernel[c].shut \/ kernel[c].remote = "closed"

(* The lock_guard is released when send() returns. *)
Unlock(k) == send_mutex' = [send_mutex EXCEPT ![snd[k].peer] = IF @ = k THEN Nobody ELSE @]

(* ::send() takes some of the frame; it waits while the window is full. *)
send_some(k) ==
    /\ snd[k].pc = "sending" /\ ~SendFails(Target(k)) /\ kernel[Target(k)].unread < Window
    /\ kernel' = [kernel EXCEPT ![Target(k)].unread = @ + 1]
    /\ stream' = [stream EXCEPT ![Target(k)] = Append(@, <<k, snd[k].calls>>)]
    /\ IF snd[k].left = 1
       THEN snd' = [snd EXCEPT ![k] = NotSending(@.calls)] /\ Unlock(k)
       ELSE snd' = [snd EXCEPT ![k].left = @ - 1] /\ UNCHANGED send_mutex
    /\ UNCHANGED <<running, app, to_close, ioVars, clients, clients_mutex, fds, accepted, told, handed>>

send_fails(k) ==
    /\ snd[k].pc = "sending" /\ SendFails(Target(k))
    /\ snd' = [snd EXCEPT ![k] = NotSending(@.calls)] /\ Unlock(k)
    /\ UNCHANGED <<running, app, to_close, ioVars, clients, clients_mutex, fds, wire, accepted, told, handed>>

-----------------------------------------------------------------------------
(* io_loop() *)

appVars == <<running, app, to_close>>

(* The I/O thread goes on to the clients that poll() reported. *)
ToData == io' = "data" /\ cur' = NoClient

io_exits ==
    /\ io \in {"top", "poll"} /\ ~running
    /\ io' = "off" /\ snapshot' = {}
    /\ UNCHANGED <<appVars, ready, cur, table, snd, fds, wire, accepted, told, handed>>

poll_fails ==
    /\ io = "poll" /\ io' = "off" /\ snapshot' = {}
    /\ UNCHANGED <<appVars, ready, cur, table, snd, fds, wire, accepted, told, handed>>

(* Mutant of take_snapshot: the loop does not look at running. *)
take_snapshot_always ==
    /\ io = "top" /\ clients_mutex = Nobody
    /\ snapshot' = {<<p, clients[p]>> : p \in DOMAIN clients}
    /\ io' = "poll"
    /\ UNCHANGED <<appVars, ready, cur, table, snd, fds, wire, accepted, told, handed>>

take_snapshot ==
    /\ io = "top" /\ running /\ clients_mutex = Nobody
    /\ snapshot' = {<<p, clients[p]>> : p \in DOMAIN clients}
    /\ io' = "poll"
    /\ UNCHANGED <<appVars, ready, cur, table, snd, fds, wire, accepted, told, handed>>

Readable(c) == c # 0 /\ (kernel[c].input \/ kernel[c].remote # "open" \/ kernel[c].shut)

(* poll() returns, with nothing when its 100 ms are over. *)
poll_returns ==
    /\ io = "poll"
    /\ \/ accepted < MaxConns /\ io' = "accept"
       \/ io' = "data"
    /\ ready' = {pr \in snapshot : Readable(fds[pr[2]])}
    /\ UNCHANGED <<appVars, snapshot, cur, table, snd, fds, wire, accepted, told, handed>>

(* handle_accept(): accept() or the socket option fails. *)
accept_fails ==
    /\ io = "accept" /\ io' = "data"
    /\ UNCHANGED <<appVars, snapshot, ready, cur, table, snd, fds, wire, accepted, told, handed>>

accept ==
    /\ io = "accept" /\ FreeFds # {}
    /\ accepted' = accepted + 1
    /\ cur' = <<accepted + 1, Min(FreeFds)>>
    /\ fds' = [fds EXCEPT ![Min(FreeFds)] = accepted + 1]
    /\ io' = "check"
    /\ UNCHANGED <<appVars, snapshot, ready, table, snd, wire, told, handed>>

TooMany == Cardinality(DOMAIN clients) >= max_clients

check_max ==
    /\ io = "check" /\ clients_mutex = Nobody
    /\ IF TooMany THEN CloseFd(cur[2]) /\ ToData ELSE io' = "callback" /\ UNCHANGED <<cur, fds>>
    /\ UNCHANGED <<appVars, snapshot, ready, table, snd, wire, accepted, told, handed>>

(* The transceiver makes a peer, or has no session for it. *)
on_peer_connected ==
    /\ io = "callback"
    /\ \/ Tell(cur[1], "connected") /\ io' = "insert" /\ UNCHANGED <<cur, fds>>
       \/ CloseFd(cur[2]) /\ ToData /\ UNCHANGED told
    /\ UNCHANGED <<appVars, snapshot, ready, table, snd, wire, accepted, handed>>

insert_client ==
    /\ io = "insert" /\ clients_mutex = Nobody
    /\ clients' = [p \in DOMAIN clients \cup {cur[1]} |-> IF p = cur[1] THEN cur[2] ELSE clients[p]]
    /\ ToData
    /\ UNCHANGED <<appVars, snapshot, ready, clients_mutex, send_mutex, snd, fds, wire, accepted, told, handed>>

(* handle_client_data(): what recv() returns is handed on, an end or an      *)
(* error removes the client.                                                 *)
handle_client_data(pr) ==
    /\ io = "data" /\ pr \in ready
    /\ ready' = ready \ {pr}
    /\ LET c == fds[pr[2]] IN
        IF c # 0 /\ kernel[c].input
        THEN /\ handed' = handed \cup {<<pr[1], c>>}
             /\ kernel' = [kernel EXCEPT ![c].input = FALSE]
             /\ UNCHANGED <<io, cur>>
        ELSE io' = "remove" /\ cur' = pr /\ UNCHANGED <<handed, kernel>>
    /\ UNCHANGED <<appVars, snapshot, table, snd, fds, stream, accepted, told>>

loop_again ==
    /\ io = "data" /\ ready = {} /\ io' = "top"
    /\ UNCHANGED <<appVars, snapshot, ready, cur, table, snd, fds, wire, accepted, told, handed>>

(* remove_client(): out of the table first, then the send_mutex, still under *)
(* clients_mutex.                                                            *)
remove_client ==
    /\ io = "remove" /\ clients_mutex = Nobody
    /\ IF cur[1] \in DOMAIN clients
       THEN /\ clients' = [p \in DOMAIN clients \ {cur[1]} |-> clients[p]]
            /\ clients_mutex' = "io" /\ io' = "removing" /\ UNCHANGED cur
       ELSE ToData /\ UNCHANGED <<clients, clients_mutex>>
    /\ UNCHANGED <<appVars, snapshot, ready, send_mutex, snd, fds, wire, accepted, told, handed>>

(* Mutant of close_removed: the socket is closed under a running send(). *)
close_removed_at_once ==
    /\ io = "removing"
    /\ CloseFd(cur[2])
    /\ clients_mutex' = Nobody /\ io' = "report"
    /\ UNCHANGED <<appVars, snapshot, ready, cur, clients, send_mutex, snd, wire, accepted, told, handed>>

close_removed ==
    /\ io = "removing" /\ send_mutex[cur[1]] = Nobody
    /\ CloseFd(cur[2])
    /\ clients_mutex' = Nobody /\ io' = "report"
    /\ UNCHANGED <<appVars, snapshot, ready, cur, clients, send_mutex, snd, wire, accepted, told, handed>>

report_removed ==
    /\ io = "report"
    /\ Tell(cur[1], "disconnected") /\ ToData
    /\ UNCHANGED <<appVars, snapshot, ready, table, snd, fds, wire, accepted, handed>>

-----------------------------------------------------------------------------
(* The remote sides *)

local == <<appVars, ioVars, table, snd, fds, stream, accepted, told, handed>>

remote_reads(c) ==
    /\ kernel[c].unread > 0 /\ kernel[c].remote # "closed"
    /\ kernel' = [kernel EXCEPT ![c].unread = @ - 1]
    /\ UNCHANGED local

remote_sends(c) ==
    /\ "send" \in RemoteMoves /\ c <= accepted /\ kernel[c].remote = "open" /\ ~kernel[c].input
    /\ kernel' = [kernel EXCEPT ![c].input = TRUE]
    /\ UNCHANGED local

(* The remote sends no more, but may still read. *)
remote_shuts(c) ==
    /\ "shut" \in RemoteMoves /\ c <= accepted /\ kernel[c].remote = "open"
    /\ kernel' = [kernel EXCEPT ![c].remote = "half"]
    /\ UNCHANGED local

remote_closes(c) ==
    /\ "close" \in RemoteMoves /\ c <= accepted /\ kernel[c].remote # "closed"
    /\ kernel' = [kernel EXCEPT ![c].remote = "closed"]
    /\ UNCHANGED local

-----------------------------------------------------------------------------

StopStep ==
    \/ join_io \/ shutdown_clients \/ lock_clients \/ clear_clients \/ stop_returns
    \/ \E p \in Conns : close_client(p) \/ report_closed(p)
SendStep(k) == lock_client(k) \/ send_some(k) \/ send_fails(k)
IoStep ==
    \/ io_exits \/ poll_fails \/ take_snapshot \/ poll_returns
    \/ accept_fails \/ accept \/ check_max \/ on_peer_connected \/ insert_client
    \/ \E pr \in ready : handle_client_data(pr)
    \/ loop_again \/ remove_client \/ close_removed \/ report_removed

Next ==
    \/ start \/ stop \/ StopStep \/ IoStep
    \/ \E k \in Senders, p \in Conns : send_unknown(k, p) \/ send(k, p)
    \/ \E k \in Senders : SendStep(k)
    \/ \E c \in Conns : remote_reads(c) \/ remote_sends(c) \/ remote_shuts(c) \/ remote_closes(c)

Spec == Init /\ [][Next]_vars

(* Every thread that can run is scheduled; remotes owe nothing. *)
FairSpec == Spec /\ WF_vars(StopStep) /\ WF_vars(IoStep) /\ \A k \in Senders : WF_vars(SendStep(k))

(* In addition every remote reads what it was sent. *)
ReadersSpec == FairSpec /\ \A c \in Conns : WF_vars(remote_reads(c))

-----------------------------------------------------------------------------
(* Properties *)

TypeOK ==
    /\ running \in BOOLEAN
    /\ app \in {"idle", "join", "shutdown", "close", "closing", "callbacks"}
    /\ io \in {"off", "top", "poll", "accept", "check", "callback", "insert", "data",
               "remove", "removing", "report"}
    /\ DOMAIN clients \subseteq Conns /\ \A p \in DOMAIN clients : clients[p] \in Fds
    /\ clients_mutex \in Threads \cup {Nobody}
    /\ \A p \in Conns : send_mutex[p] \in Threads \cup {Nobody}
    /\ accepted \in 0..MaxConns
    /\ \A c \in Conns : kernel[c].unread \in 0..Window

(* Data goes where it belongs.  A thread in ::send() writes to the           *)
(* connection of its peer: the descriptor is neither closed nor reused under *)
(* it by remove_client() or stop().  What is received is handed on for the   *)
(* peer it came from, though poll() works on a snapshot of the table.        *)
TrafficFollowsPeers ==
    /\ \A k \in Senders : snd[k].pc = "sending" => Target(k) = snd[k].peer
    /\ \A h \in handed : h[1] = h[2]

(* What a remote is sent is whole frames one after the other, and after the  *)
(* last of them at most the beginning of one (send, lock_client).            *)
FramesIntact ==
    \A c \in Conns : \A i \in 1..(Len(stream[c]) - 1) :
        stream[c][i] # stream[c][i + 1] =>
            /\ Cardinality({j \in 1..i : stream[c][j] = stream[c][i]}) = FrameLen
            /\ \A j \in (i + 1)..Len(stream[c]) : stream[c][j] # stream[c][i]

(* Each peer is announced once, its disconnection is reported at most once   *)
(* and only after that, and when stop() has returned every announced peer    *)
(* has been reported, whoever closed it (remove_client, stop).               *)
LifeCycleReported ==
    /\ \A p \in Conns : told[p] \in {<<>>, <<"connected">>, <<"connected", "disconnected">>}
    /\ (app = "idle" /\ ~running) => \A p \in Conns : told[p] # <<"connected">>

(* stop() returns. *)
StopReturns == app # "idle" ~> app = "idle"

(* What the comment on the first phase of stop() says: threads blocked in    *)
(* ::send() while they hold a send_mutex are unblocked by stop().            *)
StopUnblocksSends == \A k \in Senders : (app # "idle" /\ snd[k].pc = "sending") ~> Idle(k)
================================================================================
