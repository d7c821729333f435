------------------------------- MODULE TcpClient -------------------------------
(***************************************************************************)
(* TcpClientTransport: the thread in start() and stop(), the I/O thread     *)
(* that connects, receives, and reconnects after a delay that grows, and    *)
(* threads in send().  send_mutex guards writing and closing, but not the   *)
(* publication of a new socket.                                             *)
(*                                                                          *)
(* Connections are numbered in the order in which they are made; sock is    *)
(* the number of the current one and 0 stands for invalid_socket.           *)
(***************************************************************************)
EXTENDS Integers, Sequences, FiniteSets, FiniteSetsExt

CONSTANTS Senders,        \* threads that call send()
          Enabled,        \* values reconnect.enabled may have
          max_attempts,   \* reconnect.max_attempts, 0 for no limit
          initial_delay, max_delay,
          backoff_num, backoff_den,   \* reconnect.backoff_multiplier, a fraction
          FrameLen,       \* units (the bytes one ::send() takes) in a frame
          Window,         \* units the kernel holds for a remote that does not read
          MaxTries,       \* bound: failures in a row are counted up to here
          MaxConns,       \* bound: connections in a behaviour
          MaxSends        \* bound: calls of send() per thread

ASSUME ConfigAssumption ==
    /\ Enabled \subseteq BOOLEAN /\ max_attempts \in Nat
    /\ initial_delay \in Nat /\ backoff_num \in Nat /\ backoff_den \in Nat \ {0} /\ max_delay \in Nat
    /\ FrameLen \in Nat \ {0} /\ Window \in Nat \ {0}
    /\ MaxTries \in Nat /\ max_attempts < MaxTries /\ MaxConns \in Nat /\ MaxSends \in Nat

Conns == 1..MaxConns
Nobody == "nobody"
States == {"Disconnected", "Connecting", "Connected", "Reconnecting", "Failed"}

VARIABLES
    enabled,      \* reconnect.enabled, which never changes
    running,      \* impl_->running
    app,          \* where the thread in start() and stop() is
    loaded,       \* the socket stop() has read
    io,           \* where io_loop() is
    attempts, delay,
    sock,         \* impl_->sock
    send_mutex,   \* its owner
    snd,          \* the threads in send()
    kernel,       \* each connection: remote, unread input, unread output, shutdown, closed
    stream,       \* frames of the units each remote was sent
    made,         \* connections made
    state,        \* the state reported last to the transceiver
    failures      \* failed attempts since start() or the last connection

ioVars == <<io, attempts, delay>>
appVars == <<running, app, loaded>>
vars == <<enabled, appVars, ioVars, sock, send_mutex, snd, kernel, stream, made, state, failures>>

NewConnection ==
    [remote |-> "open", input |-> FALSE, unread |-> 0, shut |-> FALSE, closed |-> FALSE]

Init ==
    /\ enabled \in Enabled
    /\ running = FALSE /\ app = "idle" /\ loaded = 0
    /\ io = "off" /\ attempts = 0 /\ delay = initial_delay
    /\ sock = 0 /\ send_mutex = Nobody
    /\ snd = [k \in Senders |-> [pc |-> "idle", left |-> 0, calls |-> 0]]
    /\ kernel = [c \in Conns |-> NewConnection]
    /\ stream = [c \in Conns |-> <<>>]
    /\ made = 0 /\ state = "Disconnected" /\ failures = 0

-----------------------------------------------------------------------------
(* start() and stop() *)

start ==
    /\ app = "idle" /\ ~running
    /\ running' = TRUE
    /\ io' = "top" /\ attempts' = 0 /\ delay' = initial_delay
    /\ failures' = 0
    /\ UNCHANGED <<app, loaded, sock, send_mutex, snd, kernel, stream, made, state>>

stop ==
    /\ app = "idle" /\ running
    /\ running' = FALSE /\ app' = "load"
    /\ UNCHANGED <<loaded, ioVars, sock, send_mutex, snd, kernel, stream, made, state, failures>>

load_sock ==
    /\ app = "load" /\ loaded' = sock /\ app' = "shutdown"
    /\ UNCHANGED <<running, ioVars, sock, send_mutex, snd, kernel, stream, made, state, failures>>

(* The socket may have been closed since it was loaded. *)
shutdown_sock ==
    /\ app = "shutdown" /\ app' = "join"
    /\ kernel' = IF loaded # 0 /\ ~kernel[loaded].closed
                 THEN [kernel EXCEPT ![loaded].shut = TRUE] ELSE kernel
    /\ UNCHANGED <<running, loaded, ioVars, sock, send_mutex, snd, stream, made, state, failures>>

join_io ==
    /\ app = "join" /\ io = "off" /\ app' = "close"
    /\ UNCHANGED <<running, loaded, ioVars, sock, send_mutex, snd, kernel, stream, made, state, failures>>

CloseSock ==
    /\ sock' = 0
    /\ kernel' = IF sock = 0 THEN kernel ELSE [kernel EXCEPT ![sock].closed = TRUE]

stop_returns ==
    /\ app = "close" /\ send_mutex = Nobody /\ app' = "idle" /\ loaded' = 0
    /\ CloseSock
    /\ UNCHANGED <<running, ioVars, send_mutex, snd, stream, made, state, failures>>

-----------------------------------------------------------------------------
(* send() *)

send_not_connected(k) ==
    /\ snd[k].pc = "idle" /\ snd[k].calls < MaxSends /\ send_mutex = Nobody /\ sock = 0
    /\ snd' = [snd EXCEPT ![k].calls = @ + 1]
    /\ UNCHANGED <<appVars, ioVars, sock, send_mutex, kernel, stream, made, state, failures>>

send(k) ==
    /\ snd[k].pc = "idle" /\ snd[k].calls < MaxSends /\ send_mutex = Nobody /\ sock # 0
    /\ send_mutex' = k
    /\ snd' = [snd EXCEPT ![k] = [pc |-> "sending", left |-> FrameLen, calls |-> @.calls + 1]]
    /\ UNCHANGED <<appVars, ioVars, sock, kernel, stream, made, state, failures>>

SendFails == sock # 0 => kernel[sock].shut \/ kernel[sock].remote = "closed"

(* ::send() takes some of the frame; it waits while the window is full. *)
send_some(k) ==
    /\ snd[k].pc = "sending" /\ ~SendFails /\ kernel[sock].unread < Window
    /\ kernel' = [kernel EXCEPT ![sock].unread = @ + 1]
    /\ stream' = [stream EXCEPT ![sock] = Append(@, <<k, snd[k].calls>>)]
    /\ IF snd[k].left = 1
       THEN snd' = [snd EXCEPT ![k].pc = "idle", ![k].left = 0] /\ send_mutex' = Nobody
       ELSE snd' = [snd EXCEPT ![k].left = @ - 1] /\ UNCHANGED send_mutex
    /\ UNCHANGED <<appVars, ioVars, sock, made, state, failures>>

send_fails(k) ==
    /\ snd[k].pc = "sending" /\ SendFails
    /\ snd' = [snd EXCEPT ![k].pc = "idle", ![k].left = 0] /\ send_mutex' = Nobody
    /\ UNCHANGED <<appVars, ioVars, sock, kernel, stream, made, state, failures>>

-----------------------------------------------------------------------------
(* io_loop() *)

outside == <<appVars, send_mutex, snd, stream>>

begin_attempt ==
    /\ io = "top" /\ running
    /\ state' = "Connecting" /\ io' = "connect"
    /\ UNCHANGED <<outside, attempts, delay, sock, kernel, made, failures>>

io_exits ==
    /\ io = "top" /\ ~running /\ io' = "off"
    /\ UNCHANGED <<outside, attempts, delay, sock, kernel, made, state, failures>>

(* try_connect() succeeds and publishes the socket, also while stop() runs. *)
connect_succeeds ==
    /\ io = "connect" /\ made < MaxConns
    /\ made' = made + 1 /\ sock' = made + 1 /\ failures' = 0
    /\ io' = "connected"
    /\ UNCHANGED <<outside, attempts, delay, kernel, state>>

(* It fails: refused, timed out, or aborted by stop(). *)
connect_fails ==
    /\ io = "connect"
    /\ io' = "failed" /\ failures' = Min({failures + 1, MaxTries})
    /\ UNCHANGED <<outside, attempts, delay, sock, kernel, made, state>>

(* Mutant of LastAttempt: one attempt too many. *)
LastAttemptLater == max_attempts > 0 /\ attempts + 1 > max_attempts

LastAttempt == max_attempts > 0 /\ attempts + 1 >= max_attempts

give_up ==
    /\ io = "failed" /\ (~enabled \/ LastAttempt)
    /\ attempts' = IF enabled THEN attempts + 1 ELSE attempts
    /\ state' = "Failed" /\ io' = "off"
    /\ UNCHANGED <<outside, delay, sock, kernel, made, failures>>

retry_later ==
    /\ io = "failed" /\ enabled /\ ~LastAttempt
    /\ attempts' = Min({attempts + 1, MaxTries})
    /\ state' = "Reconnecting" /\ io' = "backoff"
    /\ UNCHANGED <<outside, delay, sock, kernel, made, failures>>

(* The product of doubles is truncated to whole milliseconds. *)
NextDelay == Min({(delay * backoff_num) \div backoff_den, max_delay})

(* Mutant of backoff_ends: only stop() ends the wait. *)
backoff_ends_when_stopped ==
    /\ io = "backoff" /\ ~running /\ io' = "top" /\ delay' = NextDelay
    /\ UNCHANGED <<outside, attempts, sock, kernel, made, state, failures>>

(* The wait ends when its time is over or running is false. *)
backoff_ends ==
    /\ io = "backoff" /\ io' = "top" /\ delay' = NextDelay
    /\ UNCHANGED <<outside, attempts, sock, kernel, made, state, failures>>

connected ==
    /\ io = "connected"
    /\ attempts' = 0 /\ delay' = initial_delay
    /\ state' = "Connected" /\ io' = "recv"
    /\ UNCHANGED <<outside, sock, kernel, made, failures>>

Ended == kernel[sock].remote = "closed" \/ kernel[sock].shut

(* recv_loop(): data is handed on, also what came before the end. *)
receive ==
    /\ io = "recv" /\ running /\ kernel[sock].input
    /\ kernel' = [kernel EXCEPT ![sock].input = FALSE]
    /\ UNCHANGED <<outside, ioVars, sock, made, state, failures>>

(* Mutant of recv_loop_ends: the loop does not look at running. *)
recv_loop_ends_with_stream ==
    /\ io = "recv" /\ Ended /\ io' = "disconnect"
    /\ UNCHANGED <<outside, attempts, delay, sock, kernel, made, state, failures>>

(* The loop ends: stop(), or the end of the stream. *)
recv_loop_ends ==
    /\ io = "recv" /\ (~running \/ Ended) /\ io' = "disconnect"
    /\ UNCHANGED <<outside, attempts, delay, sock, kernel, made, state, failures>>

(* The loop ends with an error of poll() or recv(). *)
recv_fails ==
    /\ io = "recv" /\ io' = "disconnect"
    /\ UNCHANGED <<outside, attempts, delay, sock, kernel, made, state, failures>>

(* Mutant of handle_disconnect: the descriptor is dropped, not closed. *)
handle_disconnect_leaks ==
    /\ io = "disconnect" /\ send_mutex = Nobody /\ io' = "report"
    /\ sock' = 0
    /\ UNCHANGED <<outside, attempts, delay, kernel, made, state, failures>>

(* Mutant of handle_disconnect: a socket that is in use is left alone. *)
handle_disconnect_try_lock ==
    /\ io = "disconnect" /\ io' = "report"
    /\ IF send_mutex = Nobody THEN CloseSock ELSE UNCHANGED <<sock, kernel>>
    /\ UNCHANGED <<outside, attempts, delay, made, state, failures>>

handle_disconnect ==
    /\ io = "disconnect" /\ send_mutex = Nobody /\ io' = "report"
    /\ CloseSock
    /\ UNCHANGED <<outside, attempts, delay, made, state, failures>>

report_disconnected ==
    /\ io = "report" /\ io' = "after" /\ state' = "Disconnected"
    /\ UNCHANGED <<outside, attempts, delay, sock, kernel, made, failures>>

reconnect_or_return ==
    /\ io = "after"
    /\ IF enabled /\ running THEN state' = "Reconnecting" /\ io' = "top"
                             ELSE UNCHANGED state /\ io' = "off"
    /\ UNCHANGED <<outside, attempts, delay, sock, kernel, made, failures>>

-----------------------------------------------------------------------------
(* The remote side *)

local == <<appVars, ioVars, sock, send_mutex, snd, stream, made, state, failures>>

remote_reads(c) ==
    /\ kernel[c].unread > 0 /\ kernel[c].remote = "open"
    /\ kernel' = [kernel EXCEPT ![c].unread = @ - 1]
    /\ UNCHANGED local

remote_sends(c) ==
    /\ c <= made /\ kernel[c].remote = "open" /\ ~kernel[c].input
    /\ kernel' = [kernel EXCEPT ![c].input = TRUE]
    /\ UNCHANGED local

remote_closes(c) ==
    /\ c <= made /\ kernel[c].remote = "open"
    /\ kernel' = [kernel EXCEPT ![c].remote = "closed"]
    /\ UNCHANGED local

-----------------------------------------------------------------------------

StopStep == load_sock \/ shutdown_sock \/ join_io \/ stop_returns
SendStep(k) == send_some(k) \/ send_fails(k)
IoStep ==
    \/ begin_attempt \/ io_exits \/ connect_succeeds \/ connect_fails \/ give_up \/ retry_later
    \/ backoff_ends \/ receive \/ recv_loop_ends \/ handle_disconnect
    \/ report_disconnected \/ reconnect_or_return
RemoteStep == \E c \in Conns : remote_reads(c) \/ remote_sends(c) \/ remote_closes(c)

Step ==
    \/ start \/ stop \/ StopStep \/ IoStep \/ connected \/ recv_fails \/ RemoteStep
    \/ \E k \in Senders : send_not_connected(k) \/ send(k) \/ SendStep(k)

Next == Step /\ UNCHANGED enabled

Spec == Init /\ [][Next]_vars

(* Every thread that can run is scheduled; the remote owes nothing. *)
FairSpec ==
    /\ Spec
    /\ WF_vars(StopStep /\ UNCHANGED enabled)
    /\ WF_vars((IoStep \/ connected) /\ UNCHANGED enabled)
    /\ \A k \in Senders : WF_vars(SendStep(k) /\ UNCHANGED enabled)

(* In addition the remote reads what it was sent. *)
ReadersSpec == FairSpec /\ \A c \in Conns : WF_vars(remote_reads(c) /\ UNCHANGED enabled)

-----------------------------------------------------------------------------
(* Properties *)

TypeOK ==
    /\ running \in BOOLEAN /\ app \in {"idle", "load", "shutdown", "join", "close"}
    /\ loaded \in 0..MaxConns /\ sock \in 0..MaxConns /\ made \in 0..MaxConns
    /\ io \in {"off", "top", "connect", "connected", "failed", "backoff", "recv",
               "disconnect", "report", "after"}
    /\ attempts \in Nat /\ delay \in Nat
    /\ send_mutex \in Senders \cup {Nobody} /\ state \in States
    /\ \A k \in Senders : snd[k].left \in 0..FrameLen

(* A frame goes to one connection, in one piece, although send() reads the   *)
(* socket anew for every ::send(): the I/O thread neither closes nor         *)
(* replaces it meanwhile (send, handle_disconnect, try_connect, stop).       *)
FramesIntact ==
    /\ \A k \in Senders : snd[k].pc = "sending" => sock # 0 /\ ~kernel[sock].closed
    /\ \A c, d \in Conns : \A i \in 1..Len(stream[c]), j \in 1..Len(stream[d]) :
        stream[c][i] = stream[d][j] =>
            c = d /\ \A n \in i..j : stream[c][n] = stream[c][i]

(* After stop() nothing is left open, whichever thread had to close it, and  *)
(* the peer does not look connected.                                         *)
NothingLeftOpen ==
    (app = "idle" /\ ~running) =>
        sock = 0 /\ state # "Connected" /\ \A c \in 1..made : kernel[c].closed

(* The wait before attempt n + 1 of an outage, against the documented        *)
(* initial * multiplier^(n - 1): never longer than that or the maximum, and  *)
(* below both by no more than n - 1 truncations, which the later products    *)
(* magnify, can take away.  Both sides are multiplied by den^(n - 1).        *)
WaitAsDocumented(wait, n) ==
    LET exact == initial_delay * backoff_num ^ (n - 1)
        scaled == wait * backoff_den ^ (n - 1)
    IN  /\ wait <= max_delay /\ scaled <= exact
        /\ \/ wait = max_delay
           \/ n = 1 /\ scaled = exact
           \/ n > 1 /\ exact - scaled < (n - 1) * backoff_den * backoff_num ^ (n - 2)

(* The policy is followed in the first outage and in every later one: the    *)
(* waits are the documented ones up to truncation, where the multiplier is   *)
(* at least 1, and the client gives up when max_attempts attempts in a row   *)
(* have failed, neither earlier nor later; without a limit only the waits    *)
(* are bound (io_loop).                                                      *)
PolicyFollowed ==
    [][/\ (io' = "backoff" /\ initial_delay <= max_delay /\ backoff_num >= backoff_den) =>
            WaitAsDocumented(delay', failures')
       /\ (state' = "Failed" /\ state # "Failed" /\ enabled) => failures = max_attempts
       /\ max_attempts > 0 => failures' <= max_attempts]_vars

(* stop() returns. *)
StopReturns == app # "idle" ~> app = "idle"

(* An attempt to connect is resolved: the peer is connected, or has failed,  *)
(* or the client was stopped.                                                *)
AttemptsResolve == state \in {"Connecting", "Reconnecting"} ~> (state \in {"Connected", "Failed"} \/ io = "off")
================================================================================
