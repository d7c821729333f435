-------------------------------- MODULE Handlers --------------------------------
(* From a worker thread to the code that handles a message.  dispatch() of    *)
(* HandlerRegistry looks the handlers up under its lock and calls them after  *)
(* it; the raw catch-all of the C ABI calls the C callbacks with msg_cb_mutex *)
(* held; and where a binding has registered a session of its own, one of      *)
(* these callbacks is its frame dispatcher, which decodes the frame and calls *)
(* the typed handlers that Python or Java keeps.                              *)
EXTENDS Integers, Sequences, FiniteSets, SequencesExt

CONSTANTS Workers, Apps,    \* worker threads, and threads that (un)register
          Types,            \* ids of message types, without 0
          HandlerPeers,     \* peers with handlers of their own
          MaxRegistrations, \* bound: callbacks and handlers registered
          MaxDispatches     \* bound: messages or frames dispatched

AnyType == 0
NoThread == "none"

VARIABLES
    mode,             \* how the program uses the transceiver; never changes
    registered,       \* keys of the four handler maps of HandlerRegistry
    raw_catch_all,    \* whether it is set
    msg_callbacks, msg_cb_mutex, next_cb_id,
    session_handlers, \* the typed handlers the binding keeps, by type
    registering,      \* the callback each application thread is registering
    worker,           \* where each worker is in dispatch()
    dispatches,       \* messages or frames dispatched so far
    usable,           \* history: callbacks whose registration has returned
    removed           \* history: callbacks and handlers removed by type

hvars == <<mode, registered, raw_catch_all, msg_callbacks, msg_cb_mutex, next_cb_id,
           session_handlers, registering, worker, dispatches, usable, removed>>
tables == <<registered, raw_catch_all, msg_callbacks, next_cb_id, session_handlers, usable, removed>>

(* pc: "raw" before the lock of the raw catch-all, "list" between callbacks,  *)
(* "callback" and "frame" in one, "typed" in a handler the frame dispatcher    *)
(* calls, "handler" before the typed handler of C++.                          *)
Idle == [pc |-> "idle", type |-> AnyType, frame |-> <<>>, level |-> "none", raw |-> FALSE,
         at |-> 0, message |-> 0, step |-> 0, id |-> 0, called |-> <<>>, due |-> {}, barred |-> {},
         result |-> "none"]

FrameDispatcher == [id |-> 1, type |-> AnyType, decodes |-> TRUE]

(* "native": a C++ program, with handlers in HandlerRegistry only; "direct":  *)
(* the C ABI, with callbacks only; "passthrough": the C ABI after             *)
(* register_session() of a binding.                                           *)
HInit ==
    /\ mode \in {"native", "direct", "passthrough"}
    /\ registered = {}
    /\ raw_catch_all = (mode = "passthrough")
    /\ msg_callbacks = IF mode = "passthrough" THEN <<FrameDispatcher>> ELSE <<>>
    /\ msg_cb_mutex = NoThread
    /\ next_cb_id = IF mode = "passthrough" THEN 2 ELSE 1
    /\ session_handlers = [t \in Types |-> <<>>]
    /\ registering = [a \in Apps |-> 0]
    /\ worker = [w \in Workers |-> Idle]
    /\ dispatches = 0
    /\ usable = IF mode = "passthrough" THEN {FrameDispatcher.id} ELSE {}
    /\ removed = {}

-----------------------------------------------------------------------------
(* HandlerRegistry *)

PeerKey(p, t) == <<"peer", p, t>>
GlobalKey(t) == <<"all", t>>
PeerAnyKey(p) == <<"peer_any", p>>
AnyKey == <<"any">>
Keys == {PeerKey(p, t) : p \in HandlerPeers, t \in Types} \cup {GlobalKey(t) : t \in Types}
        \cup {PeerAnyKey(p) : p \in HandlerPeers} \cup {AnyKey}

registryOnly == <<mode, raw_catch_all, msg_callbacks, msg_cb_mutex, next_cb_id,
                  session_handlers, registering, worker, dispatches, usable, removed>>

(* register_handler(), register_handler_all() and set_catch_all() with one    *)
(* key, install_handler() with several at once.                               *)
install_handler(keys) ==
    /\ mode = "native"
    /\ registered' = registered \cup keys
    /\ UNCHANGED registryOnly
unregister_handler(key) ==
    /\ key \in registered
    /\ registered' = registered \ {key}
    /\ UNCHANGED registryOnly
forget_peer(p) ==
    /\ registered' = registered \ ({PeerKey(p, t) : t \in Types} \cup {PeerAnyKey(p)})
    /\ registered' # registered
    /\ UNCHANGED registryOnly

Level(p, t) ==
    IF PeerKey(p, t) \in registered THEN "peer"
    ELSE IF GlobalKey(t) \in registered THEN "all"
    ELSE IF PeerAnyKey(p) \in registered THEN "peer_any"
    ELSE IF AnyKey \in registered THEN "any" ELSE "none"

-----------------------------------------------------------------------------
(* Registration of C callbacks, and of the handlers of a binding *)

CanRegister == next_cb_id <= MaxRegistrations

conduit_on_message(a, t) ==
    /\ mode # "native" /\ registering[a] = 0 /\ msg_cb_mutex = NoThread /\ CanRegister
    /\ msg_cb_mutex' = a
    /\ msg_callbacks' = Append(msg_callbacks, [id |-> next_cb_id, type |-> t, decodes |-> FALSE])
    /\ registering' = [registering EXCEPT ![a] = next_cb_id]
    /\ next_cb_id' = next_cb_id + 1
    /\ UNCHANGED <<mode, registered, raw_catch_all, session_handlers, worker, dispatches,
                   usable, removed>>

(* Mutant: the lock is released, and the call returns, before the raw         *)
(* catch-all is set.                                                          *)
ensure_raw_catch_all_late(a) ==
    /\ registering[a] > 0
    /\ \/ msg_cb_mutex = a /\ msg_cb_mutex' = NoThread /\ usable' = usable \cup {registering[a]}
          /\ UNCHANGED <<raw_catch_all, registering>>
       \/ msg_cb_mutex # a /\ raw_catch_all' = TRUE /\ registering' = [registering EXCEPT ![a] = 0]
          /\ UNCHANGED <<msg_cb_mutex, usable>>
    /\ UNCHANGED <<mode, registered, msg_callbacks, next_cb_id, session_handlers, worker,
                   dispatches, removed>>

ensure_raw_catch_all(a) ==
    /\ registering[a] > 0
    /\ raw_catch_all' = TRUE
    /\ msg_cb_mutex' = NoThread
    /\ usable' = usable \cup {registering[a]}
    /\ registering' = [registering EXCEPT ![a] = 0]
    /\ UNCHANGED <<mode, registered, msg_callbacks, next_cb_id, session_handlers, worker,
                   dispatches, removed>>

(* on() of a binding with a session of its own. *)
on(t) ==
    /\ mode = "passthrough" /\ CanRegister
    /\ session_handlers' = [session_handlers EXCEPT ![t] = Append(@, next_cb_id)]
    /\ next_cb_id' = next_cb_id + 1
    /\ UNCHANGED <<mode, registered, raw_catch_all, msg_callbacks, msg_cb_mutex, registering,
                   worker, dispatches, usable, removed>>

(* conduit_remove_handler(), which is all that remove_handler() of a binding  *)
(* does.  Who called it takes every handler of the type to be removed.        *)
HandlersOf(t) ==
    {msg_callbacks[i].id : i \in {j \in DOMAIN msg_callbacks : msg_callbacks[j].type = t}}
    \cup IF t \in Types THEN Range(session_handlers[t]) ELSE {}
remove_handler(t) ==
    /\ msg_cb_mutex = NoThread
    /\ HandlersOf(t) # {}
    /\ msg_callbacks' = SelectSeq(msg_callbacks, LAMBDA e : e.type # t)
    /\ removed' = removed \cup HandlersOf(t)
    /\ worker' = [w \in Workers |-> [worker[w] EXCEPT !.due = @ \ HandlersOf(t)]]
    /\ UNCHANGED <<mode, registered, raw_catch_all, msg_cb_mutex, next_cb_id,
                   session_handlers, registering, dispatches, usable>>

-----------------------------------------------------------------------------
(* dispatch() *)

workerOnly == <<mode, tables, registering, dispatches>>
Matches(e, t) == e.type = AnyType \/ e.type = t
Due(t) == {msg_callbacks[i].id : i \in {j \in DOMAIN msg_callbacks :
               Matches(msg_callbacks[j], t) /\ msg_callbacks[j].id \in usable}}

dispatch(w, p, type, frame) ==
    /\ worker[w].pc = "idle" /\ dispatches < MaxDispatches
    /\ dispatches' = dispatches + 1
    /\ worker' = [worker EXCEPT ![w] =
            [Idle EXCEPT !.pc = IF raw_catch_all THEN "raw" ELSE "handler",
                         !.type = type, !.frame = frame, !.level = Level(p, type),
                         !.raw = raw_catch_all, !.due = Due(type), !.barred = removed]]
    /\ UNCHANGED <<mode, tables, registering, msg_cb_mutex>>

(* Mutant: the callbacks are called without the lock. *)
raw_begins_unlocked(w) ==
    /\ worker[w].pc = "raw" /\ msg_cb_mutex = NoThread
    /\ worker' = [worker EXCEPT ![w].pc = "list", ![w].at = 1]
    /\ UNCHANGED <<workerOnly, msg_cb_mutex>>

raw_begins(w) ==
    /\ worker[w].pc = "raw" /\ msg_cb_mutex = NoThread
    /\ msg_cb_mutex' = w
    /\ worker' = [worker EXCEPT ![w].pc = "list", ![w].at = 1]
    /\ UNCHANGED workerOnly

(* The loop over msg_callbacks: the entry at hand is called, or passed over. *)
raw_callback(w) ==
    LET at == worker[w].at
        e == msg_callbacks[at]
    IN  /\ worker[w].pc = "list" /\ at <= Len(msg_callbacks)
        /\ worker' = [worker EXCEPT ![w] =
                IF Matches(e, @.type)
                THEN [@ EXCEPT !.pc = IF e.decodes THEN "frame" ELSE "callback",
                               !.message = 1, !.step = 1,
                               !.id = e.id, !.called = Append(@, e.id)]
                ELSE [@ EXCEPT !.at = at + 1]]
        /\ UNCHANGED <<workerOnly, msg_cb_mutex>>

callback_returns(w) ==
    /\ worker[w].pc \in {"callback", "typed"}
    /\ worker' = [worker EXCEPT ![w] =
            IF @.pc = "callback" THEN [@ EXCEPT !.pc = "list", !.at = @ + 1, !.message = 0, !.step = 0, !.id = 0]
            ELSE [@ EXCEPT !.pc = "frame", !.step = @ + 1, !.id = FrameDispatcher.id]]
    /\ UNCHANGED <<workerOnly, msg_cb_mutex>>

raw_ends(w) ==
    /\ worker[w].pc = "list" /\ worker[w].at > Len(msg_callbacks)
    /\ msg_cb_mutex' = IF msg_cb_mutex = w THEN NoThread ELSE msg_cb_mutex
    /\ worker' = [worker EXCEPT ![w].pc = "handler"]
    /\ UNCHANGED workerOnly

(* The frame dispatcher: for each message of the frame, each handler that is  *)
(* in the list of its type when the loop gets there.                          *)
HandlersAt(w) == session_handlers[worker[w].frame[worker[w].message]]

frame_calls(w) ==
    /\ worker[w].pc = "frame" /\ worker[w].step <= Len(HandlersAt(w))
    /\ worker' = [worker EXCEPT ![w].pc = "typed", ![w].id = HandlersAt(w)[worker[w].step]]
    /\ UNCHANGED <<workerOnly, msg_cb_mutex>>

frame_advances(w) ==
    /\ worker[w].pc = "frame" /\ worker[w].step > Len(HandlersAt(w))
    /\ worker[w].message < Len(worker[w].frame)
    /\ worker' = [worker EXCEPT ![w].message = @ + 1, ![w].step = 1]
    /\ UNCHANGED <<workerOnly, msg_cb_mutex>>

(* The frame cannot be decoded, is done, or a handler has raised: what is     *)
(* left of the frame is dropped.                                              *)
frame_ends(w) ==
    /\ \/ worker[w].pc = "frame" /\ worker[w].message = 1 /\ worker[w].step = 1
       \/ /\ worker[w].pc = "frame" /\ worker[w].step > Len(HandlersAt(w))
          /\ worker[w].message = Len(worker[w].frame)
       \/ worker[w].pc = "typed"
    /\ worker' = [worker EXCEPT ![w] =
            [@ EXCEPT !.pc = "list", !.at = @ + 1, !.message = 0, !.step = 0, !.id = 0]]
    /\ UNCHANGED <<workerOnly, msg_cb_mutex>>

(* The typed handler or a catch-all is called, and may throw. *)
dispatch_ends(w) ==
    /\ worker[w].pc = "handler"
    /\ \E result \in (IF worker[w].level # "none" THEN {"Handled", "Error"}
                      ELSE IF worker[w].raw THEN {"Handled"} ELSE {"NotFound"}) :
           worker' = [worker EXCEPT ![w] = [Idle EXCEPT !.result = result]]
    /\ UNCHANGED <<workerOnly, msg_cb_mutex>>

-----------------------------------------------------------------------------

Frames == {<<t>> : t \in Types} \cup {<<t, u>> : t \in Types, u \in Types}

Receives(w) ==
    \E p \in HandlerPeers :
        \/ mode # "passthrough" /\ \E t \in Types : dispatch(w, p, t, <<>>)
        \/ mode = "passthrough" /\ \E f \in Frames : dispatch(w, p, AnyType, f)

HNext ==
    \/ \E k \in Keys : install_handler({k})
    \/ \E k \in {GlobalKey(t) : t \in Types} \cup {PeerKey(p, t) : p \in HandlerPeers, t \in Types} :
          unregister_handler(k)
    \/ install_handler({GlobalKey(t) : t \in Types} \cup {AnyKey})
    \/ \E p \in HandlerPeers :
          \/ install_handler({PeerKey(p, t) : t \in Types} \cup {PeerAnyKey(p)})
          \/ forget_peer(p)
    \/ \E t \in Types \cup {AnyType} :
          remove_handler(t) \/ \E a \in Apps : conduit_on_message(a, t)
    \/ \E a \in Apps : ensure_raw_catch_all(a)
    \/ \E t \in Types : on(t)
    \/ \E w \in Workers :
          \/ Receives(w) \/ raw_begins(w) \/ raw_callback(w) \/ callback_returns(w) \/ raw_ends(w)
          \/ frame_calls(w) \/ frame_advances(w) \/ frame_ends(w) \/ dispatch_ends(w)

HSpec == HInit /\ [][HNext]_hvars

-----------------------------------------------------------------------------
(* Properties *)

(* Once conduit_remove_handler() has returned, no C callback it removed is    *)
(* running, nor will it run again: the caller may free what belongs to it     *)
(* (ensure_raw_catch_all calls the callbacks with msg_cb_mutex held).         *)
RemovedStaysSilent ==
    \A w \in Workers :
        worker[w].pc = "callback" =>
            \E i \in DOMAIN msg_callbacks : msg_callbacks[i].id = worker[w].id

(* Every C callback whose registration had returned when a message was looked *)
(* up, and that was not removed meanwhile, is called for it, and none twice,  *)
(* whatever is registered and removed while the list is walked.               *)
DeliveredOnce ==
    \A w \in Workers :
        LET calls == worker[w].called
        IN  /\ IsInjective(calls)
            /\ worker[w].pc = "handler" => worker[w].due \subseteq Range(calls)

(* What the bindings say of remove_handler(): it removes the handler of the   *)
(* type, so that no message dispatched after that reaches it.                 *)
RemoveStopsDelivery == \A w \in Workers : worker[w].id \notin worker[w].barred
=============================================================================
