----------------------------- MODULE PeerRegistry -----------------------------
(***************************************************************************)
(* The peers of a Transceiver: the contexts in peers_, the two maps that    *)
(* lead to them (peer_map_ by id, name_to_peer_ by name), the multi-peer    *)
(* entries, the allocation of ids, and the per-peer handlers that follow a  *)
(* peer's life.  Peers are added before start(); multi-peer transports add  *)
(* and remove dynamic peers from their I/O threads while it runs.           *)
(*                                                                          *)
(* What happens under one hold of peers_mutex_ is one step.  A name is a    *)
(* sequence: <<"a">> for "a", and <<"a", 1>> for "a/1".                     *)
(***************************************************************************)
EXTENDS Integers, Sequences, FiniteSets, FiniteSetsExt

CONSTANTS Singles,     \* single-peer transports
          Multis,      \* multi-peer transports
          Names,       \* names the application gives to add_peer
          IdSpace,     \* number of values of a PeerId, 2^32 in the code
          Attempts,    \* tries of next_peer_id(), 256 in the code
          Reported,    \* bound: states a single-peer transport reports
          Installed,   \* bound: ids the application installs handlers for
          MaxIds,      \* bound: ids allocated
          MaxPeers,    \* bound: contexts at a time
          MaxEntries,  \* bound: multi-peer entries
          MaxChildren  \* bound: dynamic peers made by one entry

ASSUME IdAssumption == IdSpace \in Nat \ {0, 1} /\ Attempts \in Nat \ {0}
ASSUME BoundAssumption ==
    MaxIds \in Nat /\ MaxPeers \in Nat /\ MaxEntries \in Nat /\ MaxChildren \in Nat
ASSUME TriesAssumption == Attempts <= IdSpace    \* the tries are different ids
ASSUME InstalledAssumption == Installed \subseteq 0..(IdSpace - 1)
ASSUME NamesAssumption == Names \subseteq Seq(STRING \cup Nat)
ASSUME TransportsAssumption == Singles \cap Multis = {}
ASSUME StatesAssumption ==
    Reported \subseteq {"Disconnected", "Connecting", "Connected", "Reconnecting", "Failed"}

Transports == Singles \cup Multis
PeerIds == 0..(IdSpace - 1)
Invalid == 0       \* PeerId{}
States == {"Disconnected", "Connected"} \cup Reported

VARIABLES
    running,     \* running_
    up,          \* transports that run
    next_id,     \* next_peer_id_
    peers,       \* peers_, each context with its address ptr
    peer_map,    \* peer_map_: id to address
    names,       \* name_to_peer_
    entries,     \* multi_peer_entries_
    handlers,    \* ids with handlers in per_peer_handlers_ or per_peer_catch_all_
    call,        \* the callback each transport is in
    conns,       \* the peers each multi-peer transport serves
    allocated,   \* history: ids allocated so far
    exhausted,   \* history: next_peer_id() has run out of tries
    strays       \* history: ids with handlers installed while they had no context

allocation == <<next_id, allocated, exhausted>>
registry == <<allocation, peers, peer_map, names, entries>>
installed == <<handlers, strays>>
vars == <<running, up, registry, installed, call, conns>>

NoCall == [pc |-> "none", peer |-> Invalid]

Init ==
    /\ running = FALSE /\ up = {}
    /\ next_id = 1 /\ allocated = 0 /\ exhausted = FALSE
    /\ peers = <<>> /\ peer_map = <<>> /\ names = <<>> /\ entries = <<>>
    /\ handlers = {} /\ strays = {}
    /\ call = [t \in Transports |-> NoCall]
    /\ conns = [t \in Multis |-> {}]

-----------------------------------------------------------------------------
(* Lookups *)

find_peer(id) == id \in DOMAIN peer_map
Indices == 1..Len(peers)
IndexOf(ptr) == CHOOSE i \in Indices : peers[i].ptr = ptr
FirstWithId(id) == {i \in Indices : peers[i].id = id /\ \A j \in 1..(i - 1) : peers[j].id # id}
FirstOn(t) == {i \in Indices : peers[i].transport = t /\ \A j \in 1..(i - 1) : peers[j].transport # t}
HasEntry(t) == \E i \in 1..Len(entries) : entries[i].transport = t
EntryOf(t) == {i \in 1..Len(entries) :
                 entries[i].transport = t /\ \A j \in 1..(i - 1) : entries[j].transport # t}

Put(f, x, y) == [z \in DOMAIN f \cup {x} |-> IF z = x THEN y ELSE f[z]]
Erase(f, x) == [z \in DOMAIN f \ {x} |-> f[z]]
Without(s, i) == SubSeq(s, 1, i - 1) \o SubSeq(s, i + 1, Len(s))

IdAt(k) == (next_id + k) % IdSpace
FirstTry(usable) == IF usable = {} THEN Attempts ELSE Min(usable)

(* Mutant of IdOffset: an id still in use is handed out again. *)
IdOffsetUnchecked == FirstTry({k \in 0..(Attempts - 1) : IdAt(k) # Invalid})

(* Mutant of IdOffset: one try too few. *)
IdOffsetGivesUp ==
    FirstTry({k \in 0..(Attempts - 2) : IdAt(k) # Invalid /\ IdAt(k) \notin DOMAIN peer_map})

(* next_peer_id(): the counter skips 0 and the ids in peer_map_, at most     *)
(* Attempts times, and then takes whatever comes.                            *)
IdOffset ==
    FirstTry({k \in 0..(Attempts - 1) : IdAt(k) # Invalid /\ IdAt(k) \notin DOMAIN peer_map})
NewId == IdAt(IdOffset)

next_peer_id ==
    /\ allocated < MaxIds /\ allocated' = allocated + 1
    /\ next_id' = (next_id + IdOffset + 1) % IdSpace
    /\ exhausted' = (exhausted \/ IdOffset = Attempts)

NewPtr == Min((1..(Len(peers) + 1)) \ {peers[i].ptr : i \in Indices})

(* A context is appended and both maps lead to it.  Handlers installed for   *)
(* the id beforehand are the new peer's from now on.                         *)
Insert(name, t, state) ==
    /\ peers' = Append(peers, [ptr |-> NewPtr, id |-> NewId, name |-> name,
                               transport |-> t, state |-> state])
    /\ peer_map' = Put(peer_map, NewId, NewPtr)
    /\ names' = Put(names, name, NewId)
    /\ strays' = strays \ {NewId} /\ UNCHANGED handlers

-----------------------------------------------------------------------------
(* The application: add_peer(), start(), stop(). *)

appOnly == <<up, call, conns>>

add_peer(name, t) ==
    /\ ~running /\ up = {} /\ t \in Singles /\ Len(peers) < MaxPeers
    /\ next_peer_id
    /\ \/ name \notin DOMAIN names /\ Insert(name, t, "Disconnected")
       \/ name \in DOMAIN names /\ UNCHANGED <<peers, peer_map, names, installed>>
    /\ UNCHANGED <<running, entries, appOnly>>

add_peer_factory(name, t) ==
    /\ ~running /\ up = {} /\ t \in Multis /\ Len(entries) < MaxEntries
    /\ next_peer_id
    /\ \/ /\ name \notin DOMAIN names
          /\ entries' = Append(entries, [base |-> NewId, name |-> name, transport |-> t,
                                         next_child |-> 1])
          /\ names' = Put(names, name, NewId)
       \/ name \in DOMAIN names /\ UNCHANGED <<entries, names>>
    /\ UNCHANGED <<running, peers, peer_map, installed, appOnly>>

(* Handlers are installed for any id and at any time, by the application or  *)
(* in the callback that announces a peer: nobody looks whether the id has a  *)
(* context.                                                                  *)
set_handler(id) ==
    /\ handlers' = handlers \cup {id}
    /\ strays' = IF \E i \in Indices : peers[i].id = id THEN strays ELSE strays \cup {id}
    /\ UNCHANGED <<running, up, registry, call, conns>>

TransportsInUse ==
    {peers[i].transport : i \in Indices} \cup {entries[i].transport : i \in 1..Len(entries)}

start ==
    /\ ~running /\ up = {}
    /\ running' = TRUE
    /\ UNCHANGED <<registry, installed, appOnly>>

(* The transports are started one after the other; stop() before the last    *)
(* one is the failure path of start().                                       *)
start_transport(t) ==
    /\ running /\ t \in TransportsInUse \ up
    /\ up' = up \cup {t}
    /\ UNCHANGED <<running, registry, installed, call, conns>>

stop ==
    /\ running /\ running' = FALSE
    /\ UNCHANGED <<registry, installed, appOnly>>

(* transport->stop() returns once every peer it served is disconnected. *)
transport_stopped(t) ==
    /\ ~running /\ t \in up
    /\ call[t] = NoCall /\ (t \in Multis => conns[t] = {})
    /\ up' = up \ {t}
    /\ UNCHANGED <<running, registry, installed, call, conns>>

-----------------------------------------------------------------------------
(* Callbacks of the transports. *)

ioOnly == <<running, up>>

SetState(ptr, s) == [peers EXCEPT ![IndexOf(ptr)].state = s]

(* The contexts after the one found by the id has got state s. *)
WithState(id, s) == IF find_peer(id) THEN SetState(peer_map[id], s) ELSE peers
Disconnected(id) == WithState(id, "Disconnected")

(* handle_state_changed() up to the state callbacks. *)
StateChanged(id, s) == peers' = WithState(id, s)

(* A single-peer transport reports for the peer handle_peer_connected() gave *)
(* it, the first one added with this transport.                              *)
handle_state_changed(t) ==
    /\ t \in up /\ t \in Singles /\ call[t] = NoCall
    /\ \E i \in FirstOn(t), s \in Reported : StateChanged(peers[i].id, s)
    /\ UNCHANGED <<ioOnly, allocation, peer_map, names, entries, installed, call, conns>>

(* A connection on a multi-peer transport: id, context and maps are set up   *)
(* under one lock.                                                           *)
handle_peer_connected(t) ==
    /\ t \in up /\ call[t] = NoCall /\ Len(peers) < MaxPeers
    /\ \E i \in EntryOf(t) :
        /\ entries[i].next_child <= MaxChildren
        /\ Insert(Append(entries[i].name, entries[i].next_child), t, "Connected")
        /\ entries' = [entries EXCEPT ![i].next_child = @ + 1]
    /\ next_peer_id
    /\ call' = [call EXCEPT ![t] = [pc |-> "connected", peer |-> NewId]]
    /\ UNCHANGED <<ioOnly, conns>>

(* The session factory returns null: the id is used up, and the transport    *)
(* closes the connection.                                                    *)
session_factory_fails(t) ==
    /\ t \in up /\ call[t] = NoCall /\ HasEntry(t)
    /\ next_peer_id
    /\ UNCHANGED <<ioOnly, peers, peer_map, names, entries, installed, call, conns>>

(* The state is stored again after the session was reset.  The transport     *)
(* then serves the peer, unless its id is the invalid one.                   *)
peer_connected_returns(t) ==
    /\ call[t].pc = "connected"
    /\ StateChanged(call[t].peer, "Connected")
    /\ conns' = [conns EXCEPT ![t] = @ \cup ({call[t].peer} \ {Invalid})]
    /\ call' = [call EXCEPT ![t] = NoCall]
    /\ UNCHANGED <<ioOnly, allocation, peer_map, names, entries, installed>>

Lost(t, id) ==
    /\ call' = [call EXCEPT ![t] = [pc |-> "lost", peer |-> id]]
    /\ StateChanged(id, "Disconnected")

(* A connection ends (or stop() ends it): the transport forgets the peer and *)
(* reports the state first.                                                  *)
connection_lost(t) ==
    /\ t \in up /\ call[t] = NoCall
    /\ \/ t \in Multis /\ \E id \in conns[t] :
            conns' = [conns EXCEPT ![t] = @ \ {id}] /\ Lost(t, id)
       \/ t \in Singles /\ \E i \in FirstOn(t) : Lost(t, peers[i].id) /\ UNCHANGED conns
    /\ UNCHANGED <<ioOnly, allocation, peer_map, names, entries, installed>>

(* Mutant of RemoveContext: the name stays. *)
RemoveContextKeepsName(i, id) ==
    /\ peers' = Without(Disconnected(id), i)
    /\ peer_map' = Erase(peer_map, id)
    /\ UNCHANGED names

(* The state is set, some name that leads to the id is erased, then the map  *)
(* entry, then context i.                                                    *)
RemoveContext(i, id) ==
    /\ peers' = Without(Disconnected(id), i)
    /\ peer_map' = Erase(peer_map, id)
    /\ LET leading == {n \in DOMAIN names : names[n] = id} IN
        IF leading = {} THEN UNCHANGED names ELSE \E n \in leading : names' = Erase(names, n)

(* Mutant of handle_peer_disconnected: the first context of the transport is *)
(* removed, whichever peer it is.                                            *)
handle_peer_disconnected_first(t) ==
    /\ call[t].pc = "lost"
    /\ \E i \in FirstOn(t) : RemoveContext(i, peers[i].id)
    /\ call' = [call EXCEPT ![t].pc = "removed"]
    /\ UNCHANGED <<ioOnly, allocation, entries, installed, conns>>

(* The first context with the id, if its transport has a multi-peer entry. *)
Dynamic(id) == {i \in FirstWithId(id) : HasEntry(peers[i].transport)}

(* handle_peer_disconnected(): a dynamic peer is removed; a peer that the    *)
(* application added only changes its state.                                 *)
handle_peer_disconnected(t) ==
    /\ call[t].pc = "lost"
    /\ \/ /\ \E i \in Dynamic(call[t].peer) : RemoveContext(i, call[t].peer)
          /\ call' = [call EXCEPT ![t].pc = "removed"]
       \/ /\ Dynamic(call[t].peer) = {}
          /\ StateChanged(call[t].peer, "Disconnected") /\ UNCHANGED <<peer_map, names>>
          /\ call' = [call EXCEPT ![t] = NoCall]
    /\ UNCHANGED <<ioOnly, allocation, entries, installed, conns>>

(* Mutant of remove_peer: the handlers of the peer are forgotten about. *)
remove_peer_forgotten(t) ==
    /\ call[t].pc = "removed"
    /\ call' = [call EXCEPT ![t] = NoCall]
    /\ UNCHANGED <<ioOnly, registry, conns, installed>>

(* handlers_.remove_peer(), after peers_mutex_ is released. *)
remove_peer(t) ==
    /\ call[t].pc = "removed"
    /\ handlers' = handlers \ {call[t].peer} /\ strays' = strays \ {call[t].peer}
    /\ call' = [call EXCEPT ![t] = NoCall]
    /\ UNCHANGED <<ioOnly, registry, conns>>

Next ==
    \/ \E name \in Names, t \in Transports : add_peer(name, t) \/ add_peer_factory(name, t)
    \/ start \/ stop
    \/ \E id \in Installed : set_handler(id)
    \/ \E t \in Transports :
        \/ start_transport(t) \/ transport_stopped(t) \/ handle_state_changed(t)
        \/ connection_lost(t) \/ handle_peer_disconnected(t) \/ remove_peer(t)
    \/ \E t \in Multis :
        handle_peer_connected(t) \/ session_factory_fails(t) \/ peer_connected_returns(t)

Spec == Init /\ [][Next]_vars

-----------------------------------------------------------------------------
(* Properties *)

Ids == {peers[i].id : i \in Indices}

TypeOK ==
    /\ running \in BOOLEAN /\ exhausted \in BOOLEAN /\ up \subseteq Transports
    /\ next_id \in PeerIds /\ allocated \in 0..MaxIds
    /\ \A i \in Indices : peers[i].id \in PeerIds /\ peers[i].transport \in Transports
                            /\ peers[i].state \in States
    /\ DOMAIN peer_map \subseteq PeerIds
    /\ handlers \subseteq PeerIds /\ strays \subseteq PeerIds
    /\ \A t \in Transports : call[t].peer \in PeerIds
    /\ \A t \in Multis : conns[t] \subseteq PeerIds

(* peers_ and peer_map_ describe the same peers: ids are unique and valid,   *)
(* and every context is reachable by its id, also when the id counter wraps  *)
(* around, until next_peer_id() has once run out of tries.  From then on ids *)
(* may be shared, or invalid, and contexts unreachable; but also then no map *)
(* entry dangles (next_peer_id, add_peer, handle_peer_connected,             *)
(* handle_peer_disconnected).                                                *)
MapsAgree ==
    /\ \A id \in DOMAIN peer_map :
        \E i \in Indices : peers[i].id = id /\ peers[i].ptr = peer_map[id]
    /\ ~exhausted =>
        /\ DOMAIN peer_map = Ids
        /\ \A i \in Indices : peer_map[peers[i].id] = peers[i].ptr
        /\ Invalid \notin Ids

(* next_peer_id() runs out of tries only when there are as many peers as it  *)
(* makes tries, less the one it may spend on the invalid id: never with      *)
(* fewer than 255 peers, the size of the id space notwithstanding.           *)
FallbackNeedsCrowd == [][exhausted' # exhausted => Len(peers) >= Attempts - 1]_vars

(* Names lead to their owners: each peer and each entry is found under its   *)
(* own name, and a name left behind by a disconnected peer is gone.  This is *)
(* said until the counter wraps around: then a dynamic peer may get the     *)
(* base id of an entry, which is not in peer_map_, and its disconnection may *)
(* then erase the name of the entry (next_peer_id, handle_peer_disconnected).*)
(* It needs names the application gives that do not look like a child's: the *)
(* name of a dynamic peer is stored without a check, and takes "a/1" away    *)
(* from a peer that was added under it.                                      *)
NamesResolve ==
    allocated < IdSpace =>
        /\ \A i \in Indices : peers[i].name \in DOMAIN names /\ names[peers[i].name] = peers[i].id
        /\ \A i \in 1..Len(entries) : names[entries[i].name] = entries[i].base
        /\ \A n \in DOMAIN names :
            \/ \E i \in Indices : peers[i].name = n
            \/ \E i \in 1..Len(entries) : entries[i].name = n

(* A peer some transport serves has a context on that transport, marked as   *)
(* connected, so that data received for it is decoded and not dropped        *)
(* (handle_data_received returns silently for an unknown peer), as long as   *)
(* next_peer_id() has not run out of tries.                                  *)
ServedPeersKnown ==
    ~exhausted => \A t \in Multis : \A id \in conns[t] :
        /\ find_peer(id)
        /\ LET peer == peers[IndexOf(peer_map[id])]
           IN  peer.transport = t /\ peer.state = "Connected"

(* Nothing of a dynamic peer outlives it: handlers belong to a peer in the   *)
(* registry or to the one whose removal is in progress, except those that    *)
(* were installed for an id without a context, such as a peer that is gone   *)
(* already.  Once every transport is stopped only the peers the application  *)
(* added are left, for a restart to begin with, as long as next_peer_id()    *)
(* has not run out of tries.                                                 *)
NothingOutlivesPeers ==
    /\ handlers \subseteq Ids \cup strays
                     \cup {call[t].peer : t \in {u \in Transports : call[u].pc = "removed"}}
    /\ ~exhausted /\ up = {} => \A i \in Indices : peers[i].transport \in Singles
=============================================================================
