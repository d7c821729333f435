--------------------------------- MODULE Serial ---------------------------------
(* SerialTransport: one thread starts and stops it, its own thread reads, and *)
(* any thread may send.  The reader waits for input or for a byte in the      *)
(* shutdown pipe; a send holds write_mutex from its first byte to its last.   *)
(* The port is the operating system's: a buffer of output that the line       *)
(* drains, and that a blocking write waits for.                               *)
EXTENDS Integers, Sequences

CONSTANTS Writers,       \* threads that send
          FrameLen,      \* bytes of a frame
          OutputBuffer,  \* bytes of output the port buffers
          MaxWrites,     \* bound: calls of send() by each writer
          MaxOpens       \* bound: calls of start()

NoOwner == "none"

VARIABLES
    port_running,   \* impl_->running
    fd,             \* number of the open port, 0 for -1
    nonblocking,    \* O_NONBLOCK of that port
    pipe,           \* "closed", "quiet" or "signalled"
    write_mutex,    \* its owner
    control,        \* where the thread in start() and stop() is
    reader,         \* pc of read_loop(), and the port it polls or reads
    writer,         \* each thread in send(): pc, bytes left, port it writes to
    pending,        \* bytes of output in the buffer of the port
    attached,       \* is the device there?
    reported,       \* state reported last
    opens, writes,  \* calls of start(), and of send() by each writer
    failed,         \* history: ports that a start() that failed closed
    line,           \* history: writer, call and position of each byte put out
    answered        \* history: result of each call of send() that returned

serialVars == <<port_running, fd, nonblocking, pipe, write_mutex, control, reader, writer, pending,
                attached, reported, opens, writes, failed, line, answered>>
portVars == <<fd, nonblocking, pipe, reported, opens, port_running, failed>>
writeVars == <<write_mutex, writer, pending, writes, line, answered>>

AtRest == [pc |-> "idle", left |-> 0, on |-> 0]

SerialInit ==
    /\ port_running = FALSE /\ fd = 0 /\ nonblocking = FALSE /\ pipe = "closed"
    /\ write_mutex = NoOwner
    /\ control = "idle"
    /\ reader = [pc |-> "none", on |-> 0]
    /\ writer = [k \in Writers |-> AtRest]
    /\ pending = 0 /\ attached = TRUE /\ reported = "Disconnected"
    /\ opens = 0 /\ writes = [k \in Writers |-> 0]
    /\ failed = {} /\ line = <<>> /\ answered = <<>>

-----------------------------------------------------------------------------
(* start() *)

start_open_fails ==
    /\ control = "idle" /\ ~port_running /\ opens < MaxOpens
    /\ opens' = opens + 1
    /\ UNCHANGED <<port_running, fd, nonblocking, pipe, reported, control, reader, writeVars,
                   attached, failed>>

(* open() gives the port a number in fd, without write_mutex and before the   *)
(* port is configured or running is set: a send() may already write to it.    *)
start_opens ==
    /\ control = "idle" /\ ~port_running /\ attached /\ opens < MaxOpens
    /\ opens' = opens + 1
    /\ fd' = opens' /\ nonblocking' = FALSE
    /\ control' = "configure"
    /\ UNCHANGED <<port_running, pipe, reported, reader, writeVars, attached, failed>>

(* The port is configured, the pipe is made, and the reader is started. *)
start_port ==
    /\ control = "configure"
    /\ pipe' = "quiet"
    /\ port_running' = TRUE
    /\ reported' = "Connected"
    /\ reader' = [pc |-> "loop", on |-> 0]
    /\ control' = "idle"
    /\ UNCHANGED <<fd, nonblocking, opens, writeVars, attached, failed>>

(* configure_port() or pipe() fails: the port is closed, again without        *)
(* write_mutex.  A write() that waits keeps the file, and its output; else    *)
(* closing it discards the output.                                            *)
start_port_fails ==
    /\ control = "configure"
    /\ fd' = 0
    /\ failed' = failed \union {fd}
    /\ pending' = IF \E k \in Writers : writer[k].pc = "blocked" THEN pending ELSE 0
    /\ control' = "idle"
    /\ UNCHANGED <<port_running, nonblocking, pipe, reported, opens, reader, write_mutex, writer,
                   writes, line, answered, attached>>

-----------------------------------------------------------------------------
(* stop() *)

stop_signals ==
    /\ control = "idle" /\ port_running
    /\ port_running' = FALSE
    /\ pipe' = "signalled"
    /\ control' = "unblock"
    /\ UNCHANGED <<fd, nonblocking, reported, opens, reader, writeVars, attached, failed>>

stop_unblocks ==
    /\ control = "unblock"
    /\ nonblocking' = TRUE
    /\ control' = "join"
    /\ UNCHANGED <<port_running, fd, pipe, reported, opens, reader, writeVars, attached, failed>>

(* Mutant: the reader is not waited for before the port is closed. *)
stop_joins_not ==
    /\ control = "join"
    /\ control' = "close"
    /\ UNCHANGED <<portVars, reader, writeVars, attached>>

stop_joins ==
    /\ control = "join" /\ reader.pc = "done"
    /\ reader' = [pc |-> "none", on |-> 0]
    /\ control' = "close"
    /\ UNCHANGED <<portVars, writeVars, attached>>

(* With write_mutex the port is closed, which discards its output; then the   *)
(* pipe, and the state is reported.                                           *)
stop_closes ==
    /\ control = "close" /\ write_mutex = NoOwner
    /\ fd' = 0 /\ pending' = 0
    /\ control' = "report"
    /\ UNCHANGED <<port_running, nonblocking, pipe, reported, opens, reader, write_mutex, writer,
                   writes, line, answered, attached, failed>>

stop_reports ==
    /\ control = "report"
    /\ pipe' = "closed"
    /\ reported' = "Disconnected"
    /\ control' = "idle"
    /\ UNCHANGED <<port_running, fd, nonblocking, opens, reader, writeVars, attached, failed>>

-----------------------------------------------------------------------------
(* read_loop() *)

readerOnly == <<portVars, control, writeVars, attached>>

reader_polls ==
    /\ reader.pc = "loop"
    /\ reader' = IF port_running THEN [pc |-> "poll", on |-> fd] ELSE [pc |-> "done", on |-> 0]
    /\ UNCHANGED readerOnly

(* Time runs out, or a signal interrupts the wait. *)
poll_times_out ==
    /\ reader.pc = "poll"
    /\ reader' = [pc |-> "loop", on |-> 0]
    /\ UNCHANGED readerOnly

(* A port that fails ends the loop, before the pipe is looked at; nothing is  *)
(* reported.                                                                  *)
poll_ends ==
    /\ reader.pc = "poll" /\ (~attached \/ pipe = "signalled")
    /\ reader' = [pc |-> "done", on |-> 0]
    /\ UNCHANGED readerOnly

poll_readable ==
    /\ reader.pc = "poll" /\ attached /\ pipe # "signalled"
    /\ reader' = [reader EXCEPT !.pc = "read"]
    /\ UNCHANGED readerOnly

(* Bytes, which on_data_received() takes, or none: EAGAIN, EINTR or 0. *)
reader_reads ==
    /\ reader.pc = "read"
    /\ reader' = [pc |-> "loop", on |-> 0]
    /\ UNCHANGED readerOnly

reader_fails ==
    /\ reader.pc = "read" /\ ~attached
    /\ reader' = [pc |-> "done", on |-> 0]
    /\ UNCHANGED readerOnly

-----------------------------------------------------------------------------
(* send() *)

writerOnly == <<portVars, control, reader, attached>>

(* Mutant: write_mutex is not taken. *)
send_begins_unlocked(k) ==
    /\ writer[k].pc = "idle" /\ writes[k] < MaxWrites
    /\ writes' = [writes EXCEPT ![k] = @ + 1]
    /\ writer' = [writer EXCEPT ![k] = [pc |-> "write", left |-> FrameLen, on |-> fd]]
    /\ UNCHANGED <<writerOnly, write_mutex, pending, line, answered>>

send_begins(k) ==
    /\ writer[k].pc = "idle" /\ writes[k] < MaxWrites
    /\ write_mutex = NoOwner
    /\ write_mutex' = k
    /\ writes' = [writes EXCEPT ![k] = @ + 1]
    /\ writer' = [writer EXCEPT ![k] = [pc |-> "write", left |-> FrameLen, on |-> fd]]
    /\ UNCHANGED <<writerOnly, pending, line, answered>>

Answer(k, result) == answered' = Append(answered, <<k, writes[k], result>>)

(* Mutant: every error of write() is taken for EINTR. *)
send_retries(k) ==
    /\ writer[k].pc \in {"write", "blocked"}
    /\ fd = 0 \/ ~attached \/ (nonblocking /\ pending = OutputBuffer)
    /\ UNCHANGED serialVars

(* No port, a port that is gone, a full buffer in non-blocking mode, or a     *)
(* device that is not ready and takes 0 bytes, whenever it likes.             *)
send_fails(k) ==
    /\ \/ writer[k].pc = "write" /\ writer[k].left > 0
       \/ writer[k].pc = "blocked" /\ ~attached
    /\ write_mutex' = NoOwner
    /\ writer' = [writer EXCEPT ![k] = AtRest]
    /\ Answer(k, "error")
    /\ UNCHANGED <<writerOnly, pending, writes, line>>

(* write() accepts some of what is left; a write that waited is woken by room *)
(* in the buffer, not by O_NONBLOCK, and goes on even if its port was closed. *)
send_writes(k) ==
    /\ attached
    /\ \/ writer[k].pc = "write" /\ writer[k].left > 0 /\ fd # 0
       \/ writer[k].pc = "blocked"
    /\ \E n \in 1..writer[k].left :
          /\ pending + n <= OutputBuffer
          /\ pending' = pending + n
          /\ line' = line \o [i \in 1..n |-> <<k, writes[k], FrameLen - writer[k].left + i>>]
          /\ writer' = [writer EXCEPT ![k].pc = "write", ![k].left = @ - n]
    /\ UNCHANGED <<writerOnly, write_mutex, writes, answered>>

send_blocks(k) ==
    /\ writer[k].pc = "write" /\ writer[k].left > 0 /\ fd # 0 /\ attached
    /\ ~nonblocking /\ pending = OutputBuffer
    /\ writer' = [writer EXCEPT ![k].pc = "blocked", ![k].on = fd]
    /\ UNCHANGED <<writerOnly, write_mutex, pending, writes, line, answered>>

send_returns(k) ==
    /\ writer[k].pc = "write" /\ writer[k].left = 0
    /\ write_mutex' = NoOwner
    /\ writer' = [writer EXCEPT ![k] = AtRest]
    /\ Answer(k, "ok")
    /\ UNCHANGED <<writerOnly, pending, writes, line>>

-----------------------------------------------------------------------------
(* The port *)

line_drains ==
    /\ pending > 0 /\ attached
    /\ pending' = pending - 1
    /\ UNCHANGED <<writerOnly, write_mutex, writer, writes, line, answered>>

device_lost ==
    /\ attached
    /\ attached' = FALSE
    /\ UNCHANGED <<portVars, control, reader, writeVars>>

-----------------------------------------------------------------------------

StopStep == stop_signals \/ stop_unblocks \/ stop_joins \/ stop_closes \/ stop_reports
ReaderStep ==
    \/ reader_polls \/ poll_times_out \/ poll_ends \/ poll_readable \/ reader_reads \/ reader_fails
WriterStep(k) == send_fails(k) \/ send_writes(k) \/ send_blocks(k) \/ send_returns(k)

SerialNext ==
    \/ start_opens \/ start_open_fails \/ start_port \/ start_port_fails \/ StopStep \/ ReaderStep
    \/ \E k \in Writers : send_begins(k) \/ WriterStep(k)
    \/ line_drains \/ device_lost

SerialSpec == SerialInit /\ [][SerialNext]_serialVars

-----------------------------------------------------------------------------
(* Properties *)

(* No thread waits for, reads or writes a port that stop() has closed, or     *)
(* another one that a later start() has opened: stop() joins the reader, and  *)
(* closes with write_mutex held.  The only port closed under a write() is one *)
(* that start() opened and then failed to set up, which it closes without the *)
(* mutex; no reader exists then.                                              *)
PortInUseIsOpen ==
    /\ reader.pc \in {"poll", "read"} => reader.on = fd /\ fd # 0
    /\ \A k \in Writers : writer[k].pc = "blocked" =>
          \/ writer[k].on = fd /\ fd # 0
          \/ writer[k].on \in failed

(* Frames of several senders never mix on the line.  What follows a byte is   *)
(* the next byte of its frame, or the first of another one; a frame cut short *)
(* is one whose send() failed, and one that send() took is there to its end.  *)
LineIntact ==
    /\ \A n \in 1..Len(line) :
          line[n][3] > 1 => n > 1 /\ line[n - 1] = <<line[n][1], line[n][2], line[n][3] - 1>>
    /\ \A n \in 1..(Len(line) - 1) :
          line[n + 1][3] = 1 /\ line[n][3] < FrameLen =>
              \E i \in 1..Len(answered) : answered[i] = <<line[n][1], line[n][2], "error">>
    /\ \A i \in 1..Len(answered) :
          answered[i][3] = "ok" =>
              \E n \in 1..Len(line) : line[n] = <<answered[i][1], answered[i][2], FrameLen>>

(* start() and stop() return, as long as the line drains what was written:    *)
(* neither the reader nor a send() that stop() waits for keeps it.            *)
SerialStopReturns == control # "idle" ~> control = "idle"
=============================================================================
