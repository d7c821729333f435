-------------------------------- MODULE MCPeers --------------------------------
(* What a transceiver keeps for its peers: the registry of peers, the session *)
(* a peer's messages are encoded with, and the handlers its messages reach.   *)
(* The three share no state here and are explored one at a time, as part says.*)
EXTENDS MCPeerRegistry, Handlers

CONSTANTS k1, k2, w1, w2, a1, p1,
          Senders, Enabled, max_attempts, initial_delay, backoff_num, backoff_den, max_delay,
          FrameLen, Window, MaxTries, MaxConns, MaxSends, MaxSkips

TwoSenders == {k1, k2}
On == {TRUE}
TwoWorkers == {w1, w2}
OneApp == {a1}
OnePeer == {p1}

(* Transports of one kind, threads that send and worker threads are           *)
(* interchangeable.                                                           *)
PeersSymmetry == MultiSymmetry \cup Permutations(TwoSenders) \cup Permutations(TwoWorkers)

VARIABLES
    part,
    enabled, client_running, app, loaded, io, attempts, delay, sock, send_mutex, snd, kernel,
    stream, made, state, failures, counter, epoch, ctx_mutex, hand, frames, skipped

Session == INSTANCE PeerSession WITH running <- client_running

sessionVars == <<enabled, client_running, app, loaded, io, attempts, delay, sock, send_mutex, snd,
                 kernel, stream, made, state, failures, counter, epoch, ctx_mutex, hand, frames,
                 skipped>>
peersVars == <<part, vars, hvars, sessionVars>>

PeersInit ==
    /\ part \in {"registry", "session", "handlers"}
    /\ Init /\ Session!SInit /\ HInit
    /\ part # "handlers" => mode = "native"

RegistryStep == part = "registry" /\ Next /\ UNCHANGED <<part, hvars, sessionVars>>
SessionStep == part = "session" /\ Session!SNext /\ UNCHANGED <<part, vars, hvars>>
HandlersStep == part = "handlers" /\ HNext /\ UNCHANGED <<part, vars, sessionVars>>

(* The bounds are reached in the registry, or in the handlers with no thread  *)
(* in a call.                                                                 *)
Rests ==
    /\ \/ part = "registry"
       \/ /\ part = "handlers" /\ msg_cb_mutex = NoThread
          /\ \A w \in Workers : worker[w].pc = "idle"
          /\ \A a \in Apps : registering[a] = 0
    /\ UNCHANGED peersVars

PeersSpec == PeersInit /\ [][RegistryStep \/ SessionStep \/ HandlersStep \/ Rests]_peersVars


(* No frame goes out on a connection that was encoded with the session of an  *)
(* earlier one, as the comment in handle_state_changed() has it.              *)
NoStaleSession == Session!NoStaleSession
=============================================================================
