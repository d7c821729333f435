-------------------------- MODULE PeerRegistryProofs --------------------------
(***************************************************************************)
(* Proofs about PeerRegistry for any transports, any size of the id space   *)
(* and any number of peers.  What is said of ids holds until next_peer_id() *)
(* has run out of tries once, which takes as many peers as it makes tries;  *)
(* the rest holds without a limit.                                          *)
(***************************************************************************)
EXTENDS PeerRegistry, FiniteSetTheorems, SequenceTheorems, WellFoundedInduction, TLAPS

-----------------------------------------------------------------------------
(* The inductive invariant. *)

NameSet == Seq(STRING \cup Nat)
Peer == [ptr : Nat, id : PeerIds, name : NameSet, transport : Transports, state : States]
Entry == [base : PeerIds, name : NameSet, transport : Multis, next_child : Nat]
Call == [pc : {"none", "connected", "lost", "removed"}, peer : PeerIds]

Types ==
    /\ running \in BOOLEAN /\ up \subseteq Transports
    /\ next_id \in PeerIds /\ allocated \in 0..MaxIds /\ exhausted \in BOOLEAN
    /\ peers \in Seq(Peer) /\ Len(peers) <= MaxPeers
    /\ entries \in Seq(Entry)
    /\ handlers \subseteq PeerIds /\ strays \subseteq PeerIds
    /\ call \in [Transports -> Call]
    /\ conns \in [Multis -> SUBSET PeerIds]

(* No entry of peer_map_ dangles. *)
Reachable ==
    \A id \in DOMAIN peer_map : \E i \in Indices : peers[i].id = id /\ peers[i].ptr = peer_map[id]

Removing == {call[t].peer : t \in {u \in Transports : call[u].pc = "removed"}}
HandlersOwned == handlers \subseteq Ids \cup strays \cup Removing

(* What holds also after next_peer_id() has run out of tries. *)
Base == Types /\ Reachable /\ HandlersOwned

Exact ==
    /\ DOMAIN peer_map = Ids /\ Invalid \notin Ids
    /\ \A i \in Indices : peer_map[peers[i].id] = peers[i].ptr

Distinct ==
    \A i, j \in Indices : peers[i].id = peers[j].id \/ peers[i].ptr = peers[j].ptr => i = j

(* The peer of the callback a transport is in, while it has a context. *)
Announced(t) == IF call[t].pc \in {"connected", "lost"} THEN {call[t].peer} ELSE {}

(* The contexts of a multi-peer transport are the peers it serves and the    *)
(* one it is announcing or giving up; a transport that is down has none.     *)
Owners ==
    \A i \in Indices, t \in Multis : peers[i].transport = t => peers[i].id \in conns[t] \cup Announced(t)
Serving ==
    \A t \in Multis : \A id \in conns[t] : \E i \in Indices :
        peers[i].id = id /\ peers[i].transport = t /\ peers[i].state = "Connected"
Announcing ==
    /\ \A t \in Transports : \A id \in Announced(t) : \E i \in Indices :
         peers[i].id = id /\ peers[i].transport = t
    /\ \A t \in Multis : \A id \in Announced(t) : id \notin conns[t]
Down ==
    /\ \A t \in Transports : t \notin up => call[t] = NoCall
    /\ \A t \in Multis : t \notin up => conns[t] = {}
HaveEntries == \A i \in Indices, t \in Multis : peers[i].transport = t => HasEntry(t)

Served == Owners /\ Serving /\ Announcing /\ Down /\ HaveEntries

(* What holds until then. *)
Core == Exact /\ Distinct /\ Served

IInv == Base /\ (~exhausted => Core)

-----------------------------------------------------------------------------
(* Ids and addresses that are free. *)

(* A set of natural numbers has a least element. *)
LEMMA MinOfNats ==
    ASSUME NEW S \in SUBSET Nat, S # {}
    PROVE  Min(S) \in S
<1>1. \E x \in S : \A y \in S : ~ (<<y, x>> \in OpToRel(<, Nat))
  BY NatLessThanWellFounded, WFMin, Zenon
<1>2. \A x, y \in Nat : <<y, x>> \in OpToRel(<, Nat) <=> y < x
  BY DEF OpToRel
<1>3. \E x \in S : \A y \in S : x <= y
  <2>1. PICK x \in S : \A y \in S : ~ (<<y, x>> \in OpToRel(<, Nat))
    BY <1>1, Zenon
  <2>2. \A y \in S : ~ (y < x)
    BY <1>2, <2>1, Zenon
  <2>3. \A y \in S : x <= y
    BY <2>2
  <2> QED
    BY <2>3
<1> QED
  BY <1>3, Zenon DEF Min

(* Remainders of a sum below twice the divisor, and when they are equal. *)
LEMMA Remainder ==
    ASSUME NEW n \in Nat \ {0}, NEW a \in 0..(n - 1), NEW k \in 0..n
    PROVE  (a + k) % n = IF a + k < n THEN a + k ELSE a + k - n
<1>1. CASE a + k < n
  BY <1>1
<1>2. CASE a + k >= n
  <2>1. a + k \in n..(2 * n - 1)
    BY <1>2
  <2>2. \A b \in n..(2 * n - 1) : b % n = b - n
    OBVIOUS
  <2> QED
    BY <1>2, <2>1, <2>2
<1> QED
  BY <1>1, <1>2

(* Numbers less than m apart have different remainders modulo m. *)
LEMMA RemaindersDiffer ==
    ASSUME NEW n \in Nat \ {0}, NEW a \in 0..(n - 1),
           NEW k \in 0..(n - 1), NEW l \in 0..(n - 1), (a + k) % n = (a + l) % n
    PROVE  k = l
<1>0. n \in Nat \ {0} /\ a \in 0..(n - 1) /\ k \in 0..n /\ l \in 0..n
  OBVIOUS
<1>1. (a + k) % n = IF a + k < n THEN a + k ELSE a + k - n
  BY ONLY <1>0, Remainder, Zenon
<1>2. (a + l) % n = IF a + l < n THEN a + l ELSE a + l - n
  BY ONLY <1>0, Remainder, Zenon
<1> QED
  BY <1>1, <1>2

(* The cardinality of the intervals used below. *)
LEMMA FromOne ==
    \A n \in Nat : /\ IsFiniteSet(1..n) /\ Cardinality(1..n) = n
                   /\ IsFiniteSet(1..(n + 1)) /\ Cardinality(1..(n + 1)) = n + 1
                   /\ IsFiniteSet(0..n) /\ Cardinality(0..n) = n + 1
<1> TAKE n \in Nat
<1>1. IsFiniteSet(1..n) /\ Cardinality(1..n) = n
  BY FS_Interval
<1>2. IsFiniteSet(1..(n + 1)) /\ Cardinality(1..(n + 1)) = n + 1
  BY FS_Interval
<1>3. IsFiniteSet(0..n) /\ Cardinality(0..n) = n + 1
  BY FS_Interval
<1> QED
  BY <1>1, <1>2, <1>3

(* With fewer peers than tries less one, some try is neither 0 nor in use. *)
LEMMA SomeIdFree ==
    ASSUME Types, Reachable, Len(peers) < Attempts - 1
    PROVE  \E k \in 0..(Attempts - 1) : IdAt(k) # Invalid /\ IdAt(k) \notin DOMAIN peer_map
<1> DEFINE S == 0..(Attempts - 1)
           T == 0..Len(peers)
<1> SUFFICES ASSUME \A k \in S : IdAt(k) = 0 \/ IdAt(k) \in DOMAIN peer_map PROVE FALSE
  BY DEF Invalid
<1>a. \A k \in S : IdAt(k) = 0 \/ \E i \in Indices : peers[i].id = IdAt(k)
  BY Zenon DEF Reachable
<1> DEFINE f == [k \in S |-> IF IdAt(k) = 0 THEN 0 ELSE CHOOSE i \in Indices : peers[i].id = IdAt(k)]
<1>0. Len(peers) \in Nat /\ Attempts \in Nat /\ IdSpace \in Nat \ {0}
      /\ next_id \in 0..(IdSpace - 1) /\ Attempts <= IdSpace
  BY LenProperties, IdAssumption, TriesAssumption DEF Types, PeerIds
<1>1. \A k \in S : IdAt(k) # 0 => f[k] \in Indices /\ peers[f[k]].id = IdAt(k)
  BY <1>a
<1>2. f \in [S -> T]
  <2>1. Indices \subseteq T /\ 0 \in T
    BY <1>0 DEF Indices
  <2> QED
    BY <1>1, <2>1, Zenon
<1>3. IsFiniteSet(S) /\ Cardinality(S) = Attempts
  <2>1. Attempts - 1 \in Nat /\ (Attempts - 1) + 1 = Attempts
    BY <1>0
  <2> QED
    BY <2>1, FromOne
<1>4. IsFiniteSet(T) /\ Cardinality(T) = Len(peers) + 1
  BY <1>0, FromOne
<1>5. Cardinality(T) < Cardinality(S)
  BY <1>0, <1>3, <1>4
<1> HIDE DEF f, T
<1>6. PICK k, l \in S : k # l /\ f[k] = f[l]
  BY <1>2, <1>3, <1>4, <1>5, FS_PigeonHole, Zenon
<1>7. IdAt(k) = IdAt(l)
  <2>1. \A m \in S : IdAt(m) = 0 => f[m] = 0
    BY DEF f
  <2>2. \A m \in S : IdAt(m) # 0 => f[m] # 0
    BY <1>1, <1>0 DEF Indices
  <2> QED
    BY <1>1, <1>6, <2>1, <2>2, Zenon
<1> QED
  <2>1. k \in 0..(IdSpace - 1) /\ l \in 0..(IdSpace - 1)
    BY <1>0
  <2> QED
    BY <1>0, <1>6, <1>7, <2>1, RemaindersDiffer, Zenon DEF IdAt

Usable == {k \in 0..(Attempts - 1) : IdAt(k) # Invalid /\ IdAt(k) \notin DOMAIN peer_map}

(* The try that next_peer_id() ends with. *)
LEMMA OffsetFacts ==
    /\ IdOffset \in 0..Attempts
    /\ IdOffset # Attempts => IdOffset \in Usable
    /\ Usable # {} => IdOffset # Attempts
<1>1. Usable \in SUBSET (0..(Attempts - 1)) /\ Usable \in SUBSET Nat
  BY IdAssumption DEF Usable
<1>2. IdOffset = IF Usable = {} THEN Attempts ELSE Min(Usable)
  BY Zenon DEF IdOffset, Usable, FirstTry
<1>3. Usable # {} => IdOffset \in Usable
  BY <1>1, <1>2, MinOfNats, Zenon
<1>4. \A k \in 0..(Attempts - 1) : k # Attempts /\ k \in 0..Attempts
  BY IdAssumption
<1>5. Attempts \in 0..Attempts
  BY IdAssumption
<1> QED
  BY <1>1, <1>2, <1>3, <1>4, <1>5, Zenon

(* The counter stays in its range, and the id is free unless the tries have  *)
(* run out.                                                                  *)
LEMMA NewIdFacts ==
    ASSUME Types
    PROVE  /\ NewId \in PeerIds
           /\ next_peer_id => /\ next_id' \in PeerIds /\ allocated' \in 0..MaxIds
                              /\ exhausted' \in BOOLEAN
           /\ next_peer_id /\ ~exhausted' =>
                /\ ~exhausted /\ NewId # Invalid /\ NewId \notin DOMAIN peer_map
<1>1. \A x \in Nat : x % IdSpace \in PeerIds
  BY IdAssumption DEF PeerIds
<1>2. next_id + IdOffset \in Nat /\ next_id + IdOffset + 1 \in Nat
  <2>1. next_id \in Nat
    BY IdAssumption DEF Types, PeerIds
  <2>2. IdOffset \in Nat
    BY OffsetFacts, IdAssumption
  <2> QED
    BY <2>1, <2>2
<1>3. NewId \in PeerIds
  BY <1>1, <1>2, Zenon DEF NewId, IdAt
<1>4. ASSUME next_peer_id
      PROVE  next_id' \in PeerIds /\ allocated' \in 0..MaxIds /\ exhausted' \in BOOLEAN
  <2>1. next_id' \in PeerIds
    BY <1>1, <1>2, <1>4, Zenon DEF next_peer_id
  <2>2. allocated' \in 0..MaxIds
    BY <1>4, BoundAssumption DEF next_peer_id, Types
  <2>3. exhausted' \in BOOLEAN
    BY <1>4, Zenon DEF next_peer_id
  <2> QED
    BY <2>1, <2>2, <2>3, Zenon
<1>5. ASSUME next_peer_id, ~exhausted'
      PROVE  ~exhausted /\ NewId # Invalid /\ NewId \notin DOMAIN peer_map
  <2>1. ~exhausted /\ IdOffset # Attempts
    BY <1>5, Zenon DEF next_peer_id
  <2>2. IdOffset \in Usable
    BY <2>1, OffsetFacts, Zenon
  <2> QED
    BY <2>1, <2>2, Zenon DEF Usable, NewId
<1> QED
  BY <1>3, <1>4, <1>5, Zenon

(* The address of a new context is not that of a live one. *)
LEMMA NewPtrFree ==
    ASSUME Types
    PROVE  NewPtr \in Nat /\ \A i \in Indices : peers[i].ptr # NewPtr
<1> DEFINE S == 1..(Len(peers) + 1)
           T == Indices
           used == {peers[i].ptr : i \in Indices}
<1>0. Len(peers) \in Nat
  BY LenProperties DEF Types
<1>1. S \ used # {}
  <2> SUFFICES ASSUME \A p \in S : p \in used PROVE FALSE
    OBVIOUS
  <2> DEFINE f == [p \in S |-> CHOOSE i \in Indices : peers[i].ptr = p]
  <2>1. \A p \in S : f[p] \in Indices /\ peers[f[p]].ptr = p
    OBVIOUS
  <2>2. f \in [S -> T]
    BY <2>1
  <2>3. /\ IsFiniteSet(S) /\ Cardinality(S) = Len(peers) + 1
        /\ IsFiniteSet(T) /\ Cardinality(T) = Len(peers)
    BY <1>0, FromOne, Zenon DEF Indices
  <2>4. Cardinality(T) < Cardinality(S)
    BY <1>0, <2>3
  <2> HIDE DEF f, S, T
  <2>5. PICK p, q \in S : p # q /\ f[p] = f[q]
    BY <2>2, <2>3, <2>4, FS_PigeonHole
  <2> QED
    BY <2>1, <2>5
<1>2. S \ used \in SUBSET Nat
  BY <1>0
<1>3. NewPtr \in S \ used
  BY <1>1, <1>2, MinOfNats DEF NewPtr
<1> QED
  BY <1>2, <1>3

-----------------------------------------------------------------------------
(* What a step does to the contexts: one of these, or nothing.  Of each there *)
(* is a lemma for Base and one for Core.                                      *)

(* Adding a context leaves no entry dangling. *)
LEMMA InsertBase ==
    ASSUME Types, Reachable, Len(peers) < MaxPeers,
           NEW name \in NameSet, NEW t \in Transports, NEW s \in States, Insert(name, t, s)
    PROVE  /\ peers' \in Seq(Peer) /\ Len(peers') = Len(peers) + 1 /\ Len(peers') <= MaxPeers
           /\ Len(peers) + 1 \notin Indices /\ Indices' = Indices \cup {Len(peers) + 1}
           /\ \A i \in Indices : peers'[i] = peers[i]
           /\ peers'[Len(peers) + 1] = [ptr |-> NewPtr, id |-> NewId, name |-> name,
                                        transport |-> t, state |-> s]
           /\ Reachable' /\ Ids' = Ids \cup {NewId}
<1> DEFINE new == [ptr |-> NewPtr, id |-> NewId, name |-> name, transport |-> t, state |-> s]
           last == Len(peers) + 1
<1>0. peers \in Seq(Peer) /\ Len(peers) \in Nat
  BY LenProperties DEF Types
<1>1. new \in Peer /\ new.id = NewId /\ new.ptr = NewPtr
  BY NewIdFacts, NewPtrFree DEF Peer
<1>2. peers' = Append(peers, new) /\ peer_map' = Put(peer_map, NewId, NewPtr)
  BY DEF Insert
<1> HIDE DEF new
<1>3. /\ peers' \in Seq(Peer) /\ Len(peers') = last
      /\ \A i \in 1..Len(peers) : peers'[i] = peers[i]
      /\ peers'[last] = new
  BY <1>0, <1>1, <1>2, AppendProperties
<1>4. Indices' = Indices \cup {last} /\ last \notin Indices
  BY <1>0, <1>3 DEF Indices
<1>5. \A i \in Indices : peers'[i] = peers[i]
  BY <1>3 DEF Indices
<1>6. Ids' = Ids \cup {NewId}
  <2>1. Ids' = {peers'[i].id : i \in Indices'}
    BY DEF Ids
  <2> QED
    BY <1>1, <1>3, <1>4, <1>5, <2>1 DEF Ids
<1>7. Reachable'
  <2>1. /\ DOMAIN peer_map' = DOMAIN peer_map \cup {NewId} /\ peer_map'[NewId] = NewPtr
        /\ \A x \in DOMAIN peer_map : x # NewId => peer_map'[x] = peer_map[x]
    BY <1>2 DEF Put
  <2>2. ASSUME NEW id \in DOMAIN peer_map'
        PROVE  \E i \in Indices' : peers'[i].id = id /\ peers'[i].ptr = peer_map'[id]
    <3>1. CASE id = NewId
      BY <1>1, <1>3, <1>4, <2>1, <3>1, Zenon
    <3>2. CASE id # NewId
      <4>1. PICK i \in Indices : peers[i].id = id /\ peers[i].ptr = peer_map[id]
        BY <2>1, <2>2, <3>2, Zenon DEF Reachable
      <4>2. i \in Indices' /\ peers'[i] = peers[i] /\ peer_map'[id] = peer_map[id]
        BY <1>4, <1>5, <2>1, <2>2, <3>2, Zenon
      <4> QED
        BY <4>1, <4>2, Zenon
    <3> QED
      BY <3>1, <3>2, Zenon
  <2> QED
    BY <2>2, Zenon DEF Reachable
<1>8. last <= MaxPeers
  BY <1>0, BoundAssumption
<1> QED
  BY <1>3, <1>4, <1>5, <1>6, <1>7, <1>8, Zenon DEF new

(* A context with a free id keeps the registry exact. *)
LEMMA InsertCore ==
    ASSUME Types, Reachable, Exact, Distinct, Len(peers) < MaxPeers,
           NEW name \in NameSet, NEW t \in Transports, NEW s \in States, Insert(name, t, s),
           NewId # Invalid, NewId \notin DOMAIN peer_map
    PROVE  Exact' /\ Distinct'
<1> DEFINE last == Len(peers) + 1
<1>1. /\ Indices' = Indices \cup {last} /\ Ids' = Ids \cup {NewId}
      /\ \A i \in Indices : peers'[i] = peers[i]
  BY InsertBase, Zenon
<1>2. peers'[last].id = NewId /\ peers'[last].ptr = NewPtr
  <2>1. peers'[last] = [ptr |-> NewPtr, id |-> NewId, name |-> name, transport |-> t, state |-> s]
    BY InsertBase, Zenon
  <2> HIDE DEF last
  <2> QED
    BY <2>1
<1>3. NewId \notin Ids /\ DOMAIN peer_map = Ids
  BY Zenon DEF Exact
<1>4. \A i \in Indices : peers[i].id # NewId /\ peers[i].ptr # NewPtr
  <2>1. \A i \in Indices : peers[i].id \in Ids
    BY Zenon DEF Ids
  <2> QED
    BY <1>3, <2>1, NewPtrFree, Zenon
<1> HIDE DEF last
<1>5. Exact'
  <2>1. /\ DOMAIN peer_map' = DOMAIN peer_map \cup {NewId} /\ peer_map'[NewId] = NewPtr
        /\ \A x \in DOMAIN peer_map : x # NewId => peer_map'[x] = peer_map[x]
    BY DEF Put, Insert
  <2>2. DOMAIN peer_map' = Ids' /\ Invalid \notin Ids'
    BY <1>1, <1>3, <2>1, Zenon DEF Exact
  <2>3. \A i \in Indices : peer_map'[peers[i].id] = peers[i].ptr
    <3>1. \A i \in Indices : peers[i].id \in DOMAIN peer_map
      BY <1>3, Zenon DEF Ids
    <3> QED
      BY <1>4, <2>1, <3>1, Zenon DEF Exact
  <2>4. \A i \in Indices' : peer_map'[peers'[i].id] = peers'[i].ptr
    BY <1>1, <1>2, <2>1, <2>3, Zenon
  <2> QED
    BY <2>2, <2>4, Zenon DEF Exact
<1>6. Distinct'
  <2>1. \A i \in Indices : peers'[i].id # peers'[last].id /\ peers'[i].ptr # peers'[last].ptr
    BY <1>1, <1>2, <1>4, Zenon
  <2>2. \A i, j \in Indices : peers'[i].id = peers'[j].id \/ peers'[i].ptr = peers'[j].ptr => i = j
    BY <1>1, Zenon DEF Distinct
  <2>3. \A i, j \in Indices' : peers'[i].id = peers'[j].id \/ peers'[i].ptr = peers'[j].ptr => i = j
    BY <1>1, <2>1, <2>2
  <2> QED
    BY <2>3, Zenon DEF Distinct
<1> QED
  BY <1>5, <1>6, Zenon

(* Setting the state of a context changes only states. *)
LEMMA WithStateBase ==
    ASSUME Types, Reachable, NEW id \in PeerIds, NEW s \in States
    PROVE  /\ WithState(id, s) \in Seq(Peer) /\ Len(WithState(id, s)) = Len(peers)
           /\ \A i \in Indices : /\ WithState(id, s)[i].id = peers[i].id
                                 /\ WithState(id, s)[i].ptr = peers[i].ptr
                                 /\ WithState(id, s)[i].transport = peers[i].transport
<1>0. peers \in Seq(Peer) /\ Len(peers) \in Nat /\ \A i \in Indices : peers[i] \in Peer
  BY LenProperties, ElementOfSeq DEF Types, Indices
<1>1. CASE ~find_peer(id)
  BY <1>0, <1>1, Zenon DEF WithState
<1>2. CASE find_peer(id)
  <2> DEFINE k == IndexOf(peer_map[id])
             new == [peers[k] EXCEPT !.state = s]
             q == [peers EXCEPT ![k] = new]
  <2>1. k \in Indices
    BY <1>2, Zenon DEF IndexOf, find_peer, Reachable
  <2>2. new \in Peer /\ new.id = peers[k].id /\ new.ptr = peers[k].ptr
        /\ new.transport = peers[k].transport
    BY <1>0, <2>1 DEF Peer
  <2>3. WithState(id, s) = q
    BY <1>2 DEF WithState, SetState
  <2> HIDE DEF new, k
  <2>4. q \in Seq(Peer) /\ Len(q) = Len(peers) /\ q[k] = new
        /\ \A i \in Indices : i # k => q[i] = peers[i]
    BY <1>0, <2>1, <2>2, ExceptSeq DEF Indices
  <2> HIDE DEF q
  <2>5. \A i \in Indices : q[i].id = peers[i].id /\ q[i].ptr = peers[i].ptr
                            /\ q[i].transport = peers[i].transport
    BY <2>2, <2>4, Zenon
  <2> QED
    BY <2>3, <2>4, <2>5, Zenon
<1> QED
  BY <1>1, <1>2, Zenon

(* In an exact registry it is the state of the context with that id. *)
LEMMA WithStateCore ==
    ASSUME Types, Reachable, Exact, Distinct, NEW id \in PeerIds, NEW s \in States
    PROVE  \A i \in Indices :
             /\ peers[i].id = id => WithState(id, s)[i].state = s
             /\ peers[i].id # id => WithState(id, s)[i] = peers[i]
<1>0. peers \in Seq(Peer) /\ Len(peers) \in Nat /\ \A i \in Indices : peers[i] \in Peer
  BY LenProperties, ElementOfSeq DEF Types, Indices
<1>1. \A i \in Indices : peers[i].id \in DOMAIN peer_map /\ peer_map[peers[i].id] = peers[i].ptr
  BY Zenon DEF Exact, Ids
<1>2. CASE ~find_peer(id)
  BY <1>1, <1>2, Zenon DEF WithState, find_peer
<1>3. CASE find_peer(id)
  <2> DEFINE k == IndexOf(peer_map[id])
             new == [peers[k] EXCEPT !.state = s]
             q == [peers EXCEPT ![k] = new]
  <2>1. PICK l \in Indices : peers[l].id = id
    BY <1>3, Zenon DEF find_peer, Reachable
  <2>2. \E i \in Indices : peers[i].ptr = peer_map[id]
    BY <1>3, Zenon DEF find_peer, Reachable
  <2>3. k \in Indices /\ peers[k].ptr = peer_map[id]
    BY <2>2, Zenon DEF IndexOf
  <2>4. peers[l].ptr = peer_map[id]
    BY <1>1, <2>1, Zenon
  <2>5. k = l
    BY <2>1, <2>3, <2>4, Zenon DEF Distinct
  <2>6. WithState(id, s) = q
    BY <1>3 DEF WithState, SetState
  <2>7. new \in Peer /\ new.state = s
    BY <1>0, <2>3 DEF Peer
  <2> HIDE DEF new, k
  <2>8. q[k] = new /\ \A i \in Indices : i # k => q[i] = peers[i]
    BY <1>0, <2>3, <2>7, ExceptSeq DEF Indices
  <2> HIDE DEF q
  <2>9. \A i \in Indices : peers[i].id = id => i = k
    BY <2>1, <2>5, Zenon DEF Distinct
  <2>10. \A i \in Indices : peers[i].id # id => i # k
    BY <2>1, <2>5, Zenon
  <2> QED
    BY <2>6, <2>7, <2>8, <2>9, <2>10, Zenon
<1> QED
  BY <1>2, <1>3, Zenon

(* A change of state keeps the ids and the entries. *)
LEMMA StateBase ==
    ASSUME Types, Reachable, NEW id \in PeerIds, NEW s \in States,
           StateChanged(id, s), UNCHANGED peer_map
    PROVE  /\ peers' \in Seq(Peer) /\ Len(peers') = Len(peers) /\ Len(peers') <= MaxPeers
           /\ Indices' = Indices
           /\ \A i \in Indices : /\ peers'[i].id = peers[i].id
                                 /\ peers'[i].ptr = peers[i].ptr
                                 /\ peers'[i].transport = peers[i].transport
           /\ Reachable' /\ Ids' = Ids
<1>1. /\ peers' \in Seq(Peer) /\ Len(peers') = Len(peers)
      /\ \A i \in Indices : /\ peers'[i].id = peers[i].id /\ peers'[i].ptr = peers[i].ptr
                            /\ peers'[i].transport = peers[i].transport
  BY WithStateBase, Zenon DEF StateChanged
<1>2. Indices' = Indices
  BY <1>1, Zenon DEF Indices
<1>3. Ids' = Ids
  <2>1. Ids' = {peers'[i].id : i \in Indices'}
    BY DEF Ids
  <2> QED
    BY <1>1, <1>2, <2>1 DEF Ids
<1>4. Reachable'
  <2>1. \A x \in DOMAIN peer_map : \E i \in Indices' : peers'[i].id = x /\ peers'[i].ptr = peer_map[x]
    BY <1>1, <1>2, Zenon DEF Reachable
  <2> QED
    BY <2>1, Zenon DEF Reachable
<1>5. Len(peers') <= MaxPeers
  BY <1>1, Zenon DEF Types
<1> QED
  BY <1>1, <1>2, <1>3, <1>4, <1>5, Zenon

(* It keeps the registry exact. *)
LEMMA StateCore ==
    ASSUME Types, Reachable, Exact, Distinct, NEW id \in PeerIds, NEW s \in States,
           StateChanged(id, s), UNCHANGED peer_map
    PROVE  /\ Exact' /\ Distinct'
           /\ \A i \in Indices : /\ peers[i].id = id => peers'[i].state = s
                                 /\ peers[i].id # id => peers'[i] = peers[i]
<1>1. /\ Indices' = Indices /\ Ids' = Ids
      /\ \A i \in Indices : peers'[i].id = peers[i].id /\ peers'[i].ptr = peers[i].ptr
  BY StateBase, Zenon
<1>2. Exact'
  <2>1. \A i \in Indices' : peer_map'[peers'[i].id] = peers'[i].ptr
    BY <1>1, Zenon DEF Exact
  <2> QED
    BY <1>1, <2>1, Zenon DEF Exact
<1>3. Distinct'
  <2>1. ASSUME NEW i \in Indices', NEW j \in Indices',
               peers'[i].id = peers'[j].id \/ peers'[i].ptr = peers'[j].ptr
        PROVE  i = j
    <3>1. i \in Indices /\ j \in Indices
      BY <1>1, Zenon
    <3>2. peers[i].id = peers[j].id \/ peers[i].ptr = peers[j].ptr
      BY <1>1, <2>1, <3>1, Zenon
    <3> QED
      BY <3>1, <3>2, Zenon DEF Distinct
  <2> QED
    BY <2>1, Zenon DEF Distinct
<1> QED
  BY <1>2, <1>3, WithStateCore, Zenon DEF StateChanged

(* Without(q, i) is q without its element i. *)
LEMMA WithoutEffect ==
    ASSUME NEW S, NEW q \in Seq(S), NEW i \in 1..Len(q)
    PROVE  /\ Without(q, i) \in Seq(S) /\ Len(Without(q, i)) = Len(q) - 1
           /\ \A k \in 1..(Len(q) - 1) :
                Without(q, i)[k] = IF k < i THEN q[k] ELSE q[k + 1]
<1> DEFINE n == Len(q)
           a == SubSeq(q, 1, i - 1)
           b == SubSeq(q, i + 1, n)
<1>0. n \in Nat /\ i \in 1..n
  BY LenProperties
<1>1. a \in Seq(S) /\ Len(a) = i - 1 /\ \A k \in 1..(i - 1) : a[k] = q[k]
  BY <1>0, SubSeqProperties
<1>2. b \in Seq(S) /\ Len(b) = n - i /\ \A k \in 1..(n - i) : b[k] = q[i + k]
  <2>1. \A k \in (i + 1)..n : q[k] \in S
    BY <1>0, ElementOfSeq
  <2>2. /\ b \in Seq(S)
        /\ Len(b) = IF i + 1 <= n THEN n - (i + 1) + 1 ELSE 0
        /\ \A k \in 1..(n - (i + 1) + 1) : b[k] = q[(i + 1) + k - 1]
    <3>1. i + 1 \in Int /\ n \in Int
      BY <1>0
    <3> QED
      BY <2>1, <3>1, SubSeqProperties
  <2>3. /\ n - (i + 1) + 1 = n - i
        /\ (IF i + 1 <= n THEN n - (i + 1) + 1 ELSE 0) = n - i
        /\ \A k \in 1..(n - i) : (i + 1) + k - 1 = i + k
    BY <1>0
  <2> HIDE DEF b
  <2> QED
    BY <2>2, <2>3
<1>3. Without(q, i) = a \o b
  BY DEF Without
<1> HIDE DEF a, b
<1>4. /\ a \o b \in Seq(S) /\ Len(a \o b) = Len(a) + Len(b)
      /\ \A k \in 1..(Len(a) + Len(b)) : (a \o b)[k] = IF k <= Len(a) THEN a[k] ELSE b[k - Len(a)]
  BY <1>1, <1>2, ConcatProperties
<1>5. Len(a) + Len(b) = n - 1
  BY <1>0, <1>1, <1>2
<1>6. ASSUME NEW k \in 1..(n - 1)
      PROVE  (a \o b)[k] = IF k < i THEN q[k] ELSE q[k + 1]
  <2>1. (a \o b)[k] = IF k <= i - 1 THEN a[k] ELSE b[k - (i - 1)]
    BY <1>1, <1>4, <1>5, Zenon
  <2>2. CASE k < i
    <3>1. k <= i - 1 /\ k \in 1..(i - 1)
      BY <1>0, <2>2
    <3> QED
      BY <1>1, <2>1, <2>2, <3>1, Zenon
  <2>3. CASE ~(k < i)
    <3>1. ~(k <= i - 1) /\ k - (i - 1) \in 1..(n - i) /\ i + (k - (i - 1)) = k + 1
      BY <1>0, <2>3
    <3> QED
      BY <1>2, <2>1, <2>3, <3>1, Zenon
  <2> QED
    BY <2>2, <2>3, Zenon
<1> QED
  BY <1>3, <1>4, <1>5, <1>6, Zenon

(* Which contexts are left when context i is removed, and where. *)
LEMMA RemoveLeaves ==
    ASSUME Types, Reachable, NEW id \in PeerIds, NEW i \in Indices, RemoveContext(i, id)
    PROVE  /\ peers' \in Seq(Peer) /\ Len(peers') <= MaxPeers
           /\ \E src \in [Indices' -> Indices \ {i}] :
                /\ \A k \in Indices' : peers'[k] = Disconnected(id)[src[k]]
                /\ \A k, l \in Indices' : src[k] = src[l] => k = l
                /\ \A j \in Indices : j # i => \E k \in Indices' : src[k] = j
<1> DEFINE n == Len(peers)
           src == [k \in Indices' |-> IF k < i THEN k ELSE k + 1]
<1>0. n \in Nat /\ Indices = 1..n /\ i \in 1..n
  BY LenProperties DEF Types, Indices
<1>1. Disconnected(id) \in Seq(Peer) /\ Len(Disconnected(id)) = n
  BY WithStateBase, Zenon DEF Disconnected, States
<1>2. peers' = Without(Disconnected(id), i)
  BY Zenon DEF RemoveContext
<1>3. /\ peers' \in Seq(Peer) /\ Len(peers') = n - 1
      /\ \A k \in 1..(n - 1) :
           peers'[k] = IF k < i THEN Disconnected(id)[k] ELSE Disconnected(id)[k + 1]
  BY <1>0, <1>1, <1>2, WithoutEffect, Zenon
<1>4. Indices' = 1..(n - 1)
  BY <1>3, Zenon DEF Indices
<1>5. Len(peers') <= MaxPeers
  BY <1>0, <1>3, BoundAssumption DEF Types
<1>6. \A k \in 1..(n - 1) : src[k] = IF k < i THEN k ELSE k + 1
  BY <1>4
<1>7. src \in [Indices' -> Indices \ {i}]
  <2>1. \A k \in 1..(n - 1) : (IF k < i THEN k ELSE k + 1) \in (1..n) \ {i}
    BY <1>0
  <2> QED
    BY <1>0, <1>4, <2>1, Zenon
<1> HIDE DEF src
<1>8. \A k \in Indices' : peers'[k] = Disconnected(id)[src[k]]
  BY <1>3, <1>4, <1>6, Zenon
<1>9. \A k, l \in Indices' : src[k] = src[l] => k = l
  BY <1>0, <1>4, <1>6
<1>10. ASSUME NEW j \in Indices, j # i
       PROVE  \E k \in Indices' : src[k] = j
  <2>1. CASE j < i
    <3>1. j \in 1..(n - 1)
      BY <1>0, <2>1
    <3> QED
      BY <1>4, <1>6, <2>1, <3>1, Zenon
  <2>2. CASE ~(j < i)
    <3>1. j - 1 \in 1..(n - 1) /\ ~(j - 1 < i) /\ (j - 1) + 1 = j
      BY <1>0, <1>10, <2>2
    <3> QED
      BY <1>4, <1>6, <3>1, Zenon
  <2> QED
    BY <2>1, <2>2, Zenon
<1> QED
  BY <1>3, <1>5, <1>7, <1>8, <1>9, <1>10, Zenon

(* Removing the first context with an id leaves no entry dangling, also when *)
(* other contexts share the id.                                              *)
LEMMA RemoveBase ==
    ASSUME Types, Reachable, NEW id \in PeerIds, NEW i \in Indices, peers[i].id = id,
           RemoveContext(i, id)
    PROVE  Reachable' /\ Ids \ {id} \subseteq Ids'
<1>1. PICK src \in [Indices' -> Indices \ {i}] :
        /\ \A k \in Indices' : peers'[k] = Disconnected(id)[src[k]]
        /\ \A k, l \in Indices' : src[k] = src[l] => k = l
        /\ \A j \in Indices : j # i => \E k \in Indices' : src[k] = j
  BY RemoveLeaves, Zenon
<1>2. \A j \in Indices : Disconnected(id)[j].id = peers[j].id /\ Disconnected(id)[j].ptr = peers[j].ptr
  BY WithStateBase, Zenon DEF Disconnected, States
<1>3. ASSUME NEW j \in Indices, peers[j].id # id
      PROVE  \E k \in Indices' : peers'[k].id = peers[j].id /\ peers'[k].ptr = peers[j].ptr
  <2>1. j # i
    BY <1>3, Zenon
  <2>2. PICK k \in Indices' : src[k] = j
    BY <1>1, <2>1, Zenon
  <2>3. peers'[k] = Disconnected(id)[j]
    BY <1>1, <2>2, Zenon
  <2> QED
    BY <1>2, <2>3, Zenon
<1>4. Reachable'
  <2>1. DOMAIN peer_map' = DOMAIN peer_map \ {id} /\ \A x \in DOMAIN peer_map' : peer_map'[x] = peer_map[x]
    BY DEF RemoveContext, Erase
  <2>2. ASSUME NEW x \in DOMAIN peer_map'
        PROVE  \E k \in Indices' : peers'[k].id = x /\ peers'[k].ptr = peer_map'[x]
    <3>1. PICK j \in Indices : peers[j].id = x /\ peers[j].ptr = peer_map[x]
      BY <2>1, <2>2, Zenon DEF Reachable
    <3>2. peers[j].id # id
      BY <2>1, <2>2, <3>1, Zenon
    <3> QED
      BY <1>3, <2>1, <2>2, <3>1, <3>2, Zenon
  <2> QED
    BY <2>2, Zenon DEF Reachable
<1>5. Ids \ {id} \subseteq Ids'
  <2>1. Ids' = {peers'[k].id : k \in Indices'}
    BY DEF Ids
  <2> QED
    BY <1>3, <2>1, Zenon DEF Ids
<1> QED
  BY <1>4, <1>5, Zenon

(* In an exact registry the other contexts stay as they are. *)
LEMMA RemoveCore ==
    ASSUME Types, Reachable, Exact, Distinct, NEW id \in PeerIds, NEW i \in Indices,
           peers[i].id = id, RemoveContext(i, id)
    PROVE  /\ \A k \in Indices' : \E j \in Indices : j # i /\ peers'[k] = peers[j]
           /\ \A j \in Indices : j # i => \E k \in Indices' : peers'[k] = peers[j]
           /\ Exact' /\ Distinct'
<1>1. PICK src \in [Indices' -> Indices \ {i}] :
        /\ \A k \in Indices' : peers'[k] = Disconnected(id)[src[k]]
        /\ \A k, l \in Indices' : src[k] = src[l] => k = l
        /\ \A j \in Indices : j # i => \E k \in Indices' : src[k] = j
  BY RemoveLeaves, Zenon
<1>2. \A j \in Indices : j # i => peers[j].id # id
  BY Zenon DEF Distinct
<1>3. \A j \in Indices : j # i => Disconnected(id)[j] = peers[j]
  <2>1. \A j \in Indices : peers[j].id # id => WithState(id, "Disconnected")[j] = peers[j]
    <3>1. "Disconnected" \in States
      BY Zenon DEF States
    <3> QED
      BY <3>1, WithStateCore, Zenon
  <2> QED
    BY <1>2, <2>1, Zenon DEF Disconnected
<1>4. \A k \in Indices' : src[k] \in Indices /\ src[k] # i /\ peers'[k] = peers[src[k]]
  <2>1. \A k \in Indices' : src[k] \in Indices \ {i}
    BY <1>1, Zenon
  <2> QED
    BY <1>1, <1>3, <2>1, Zenon
<1>5. ASSUME NEW j \in Indices, j # i
      PROVE  \E k \in Indices' : peers'[k] = peers[j]
  <2>1. PICK k \in Indices' : src[k] = j
    BY <1>1, <1>5, Zenon
  <2> QED
    BY <1>4, <2>1, Zenon
<1>6. Distinct'
  <2>1. ASSUME NEW k \in Indices', NEW l \in Indices',
               peers'[k].id = peers'[l].id \/ peers'[k].ptr = peers'[l].ptr
        PROVE  k = l
    <3>1. peers[src[k]].id = peers[src[l]].id \/ peers[src[k]].ptr = peers[src[l]].ptr
      BY <1>4, <2>1, Zenon
    <3>2. src[k] = src[l]
      BY <1>4, <3>1, Zenon DEF Distinct
    <3> QED
      BY <1>1, <3>2, Zenon
  <2> QED
    BY <2>1, Zenon DEF Distinct
<1>7. Exact'
  <2>1. DOMAIN peer_map' = DOMAIN peer_map \ {id} /\ \A x \in DOMAIN peer_map' : peer_map'[x] = peer_map[x]
    BY DEF RemoveContext, Erase
  <2>2. Ids' = {peers'[k].id : k \in Indices'}
    BY DEF Ids
  <2>3. Ids' = Ids \ {id}
    <3>1. \A k \in Indices' : peers'[k].id \in Ids \ {id}
      BY <1>2, <1>4, Zenon DEF Ids
    <3>2. Ids \ {id} \subseteq Ids'
      BY RemoveBase, Zenon
    <3> QED
      BY <2>2, <3>1, <3>2, Zenon
  <2>4. DOMAIN peer_map' = Ids' /\ Invalid \notin Ids'
    BY <2>1, <2>3, Zenon DEF Exact
  <2>5. \A k \in Indices' : peer_map'[peers'[k].id] = peers'[k].ptr
    <3>1. \A k \in Indices' : peers'[k].id \in DOMAIN peer_map'
      BY <2>2, <2>4, Zenon
    <3>2. \A k \in Indices' : peer_map[peers'[k].id] = peers'[k].ptr
      BY <1>4, Zenon DEF Exact
    <3> QED
      BY <2>1, <3>1, <3>2, Zenon
  <2> QED
    BY <2>4, <2>5, Zenon DEF Exact
<1> QED
  BY <1>4, <1>5, <1>6, <1>7, Zenon

(* A step that leaves the registry alone keeps what is said of it. *)
LEMMA RegistryKept ==
    ASSUME UNCHANGED <<peers, peer_map>>
    PROVE  /\ Indices' = Indices /\ Ids' = Ids
           /\ Reachable => Reachable'
           /\ Exact => Exact'
           /\ Distinct => Distinct'
<1>1. Indices' = Indices
  BY Zenon DEF Indices
<1>2. Ids' = Ids
  BY <1>1, Zenon DEF Ids
<1>3. Reachable => Reachable'
  BY <1>1, Zenon DEF Reachable
<1>4. Exact => Exact'
  BY <1>1, <1>2, Zenon DEF Exact
<1>5. Distinct => Distinct'
  BY <1>1, Zenon DEF Distinct
<1> QED
  BY <1>1, <1>2, <1>3, <1>4, <1>5, Zenon

(* What a transport's entering or leaving a callback does. *)
LEMMA CallChange ==
    ASSUME Types, NEW t \in Transports, NEW c \in Call, call' = [call EXCEPT ![t] = c]
    PROVE  /\ call' \in [Transports -> Call] /\ call'[t] = c
           /\ \A u \in Transports : u # t => call'[u] = call[u]
           /\ Removing \ {call[t].peer} \subseteq Removing'
           /\ call[t].pc # "removed" => Removing \subseteq Removing'
           /\ c.pc = "removed" => c.peer \in Removing'
<1>0. call \in [Transports -> Call]
  BY Zenon DEF Types
<1>1. /\ call' \in [Transports -> Call] /\ call'[t] = c
      /\ \A u \in Transports : u # t => call'[u] = call[u]
  BY <1>0
<1>2. Removing' = {call'[u].peer : u \in {v \in Transports : call'[v].pc = "removed"}}
  BY DEF Removing
<1>3. Removing \ {call[t].peer} \subseteq Removing'
  BY <1>1, <1>2, Zenon DEF Removing
<1>4. call[t].pc # "removed" => Removing \subseteq Removing'
  BY <1>1, <1>2, Zenon DEF Removing
<1>5. c.pc = "removed" => c.peer \in Removing'
  BY <1>1, <1>2, Zenon
<1> QED
  BY <1>1, <1>3, <1>4, <1>5, Zenon

(* The calls a transport can be in. *)
LEMMA CallTypes ==
    ASSUME Types
    PROVE  /\ NoCall \in Call /\ NoCall.pc = "none"
           /\ \A t \in Transports : call[t] \in Call /\ call[t].peer \in PeerIds
           /\ \A id \in PeerIds, pc \in {"connected", "lost", "removed"} :
                [pc |-> pc, peer |-> id] \in Call
<1>1. Invalid \in PeerIds
  BY IdAssumption DEF Invalid, PeerIds
<1>2. NoCall \in Call /\ NoCall.pc = "none"
  BY <1>1 DEF NoCall, Call
<1>3. \A t \in Transports : call[t] \in Call
  BY Zenon DEF Types
<1>4. \A c \in Call : c.peer \in PeerIds
  BY DEF Call
<1>5. \A id \in PeerIds, pc \in {"connected", "lost", "removed"} : [pc |-> pc, peer |-> id] \in Call
  BY DEF Call
<1> QED
  BY <1>2, <1>3, <1>4, <1>5, Zenon

(* The contexts have the fields of their type. *)
LEMMA PeerTypes ==
    ASSUME Types
    PROVE  \A i \in Indices : peers[i] \in Peer /\ peers[i].id \in PeerIds /\ peers[i].transport \in Transports
<1>1. \A i \in Indices : peers[i] \in Peer
  BY ElementOfSeq DEF Types, Indices
<1>2. \A p \in Peer : p.id \in PeerIds /\ p.transport \in Transports
  BY DEF Peer
<1> QED
  BY <1>1, <1>2, Zenon

(* The entries have the fields of their type. *)
LEMMA EntryTypes ==
    ASSUME Types
    PROVE  \A i \in 1..Len(entries) :
             /\ entries[i] \in Entry /\ entries[i].transport \in Multis
             /\ entries[i].name \in NameSet /\ entries[i].next_child \in Nat
<1>1. \A i \in 1..Len(entries) : entries[i] \in Entry
  BY ElementOfSeq DEF Types
<1>2. \A e \in Entry : e.transport \in Multis /\ e.name \in NameSet /\ e.next_child \in Nat
  BY DEF Entry
<1> QED
  BY <1>1, <1>2, Zenon

(* The states the callbacks set are states. *)
LEMMA StateNames == "Connected" \in States /\ "Disconnected" \in States /\ Reported \subseteq States
BY DEF States

-----------------------------------------------------------------------------
(* Each action preserves Base. *)

(* add_peer() *)
LEMMA AddPeerBase ==
    ASSUME Base, NEW name \in Names, NEW t \in Transports, add_peer(name, t)
    PROVE  Base'
<1>0. Types /\ Reachable /\ HandlersOwned
  BY Zenon DEF Base
<1>1. next_peer_id /\ Len(peers) < MaxPeers
      /\ UNCHANGED <<running, up, entries, handlers, call, conns>>
  BY DEF add_peer, appOnly, Insert, installed
<1>2. next_id' \in PeerIds /\ allocated' \in 0..MaxIds /\ exhausted' \in BOOLEAN
  BY <1>0, <1>1, NewIdFacts, Zenon
<1>3. Removing' = Removing
  BY <1>1, Zenon DEF Removing
<1>4. /\ peers' \in Seq(Peer) /\ Len(peers') <= MaxPeers /\ Reachable'
      /\ strays' \subseteq PeerIds /\ Ids \cup strays \subseteq Ids' \cup strays'
  <2>1. CASE Insert(name, t, "Disconnected")
    <3>1. name \in NameSet
      BY NamesAssumption, Zenon DEF NameSet
    <3>2. /\ peers' \in Seq(Peer) /\ Len(peers') <= MaxPeers /\ Reachable'
          /\ Ids' = Ids \cup {NewId}
      BY <1>0, <1>1, <2>1, <3>1, StateNames, InsertBase, Zenon
    <3>3. strays' = strays \ {NewId}
      BY <2>1, Zenon DEF Insert
    <3> QED
      BY <1>0, <3>2, <3>3, Zenon DEF Types
  <2>2. CASE UNCHANGED <<peers, peer_map, names, installed>>
    <3>1. UNCHANGED <<peers, peer_map, strays>>
      BY <2>2 DEF installed
    <3>2. Ids' = Ids /\ Reachable'
      BY <1>0, <3>1, RegistryKept, Zenon
    <3> QED
      BY <1>0, <3>1, <3>2, Zenon DEF Types
  <2> QED
    BY <2>1, <2>2, Zenon DEF add_peer
<1>5. Types'
  BY <1>0, <1>1, <1>2, <1>4, Zenon DEF Types
<1>6. HandlersOwned'
  BY <1>0, <1>1, <1>3, <1>4, Zenon DEF HandlersOwned
<1> QED
  BY <1>4, <1>5, <1>6, Zenon DEF Base

(* add_peer() with a session factory *)
LEMMA AddFactoryBase ==
    ASSUME Base, NEW name \in Names, NEW t \in Transports, add_peer_factory(name, t)
    PROVE  Base'
<1>0. Types /\ Reachable /\ HandlersOwned
  BY Zenon DEF Base
<1>1. next_peer_id /\ UNCHANGED <<running, up, peers, peer_map, handlers, strays, call, conns>>
  BY DEF add_peer_factory, appOnly, installed
<1>2. next_id' \in PeerIds /\ allocated' \in 0..MaxIds /\ exhausted' \in BOOLEAN
  BY <1>0, <1>1, NewIdFacts, Zenon
<1>3. Ids' = Ids /\ Reachable' /\ Removing' = Removing
  BY <1>0, <1>1, RegistryKept, Zenon DEF Removing
<1>4. entries' \in Seq(Entry)
  <2> DEFINE e == [base |-> NewId, name |-> name, transport |-> t, next_child |-> 1]
  <2>1. CASE entries' = Append(entries, e)
    <3>1. t \in Multis
      BY Zenon DEF add_peer_factory
    <3>2. name \in NameSet
      BY NamesAssumption, Zenon DEF NameSet
    <3>3. e \in Entry
      BY <1>0, <3>1, <3>2, NewIdFacts DEF Entry
    <3> HIDE DEF e
    <3> QED
      BY <1>0, <2>1, <3>3, AppendProperties, Zenon DEF Types
  <2>2. CASE UNCHANGED entries
    BY <1>0, <2>2, Zenon DEF Types
  <2> QED
    BY <2>1, <2>2, Zenon DEF add_peer_factory
<1>5. Types'
  BY <1>0, <1>1, <1>2, <1>4, Zenon DEF Types
<1>6. HandlersOwned'
  BY <1>0, <1>1, <1>3, Zenon DEF HandlersOwned
<1> QED
  BY <1>3, <1>5, <1>6, Zenon DEF Base

(* The installation of handlers, also for an id without a context *)
LEMMA SetHandlerBase ==
    ASSUME Base, NEW id \in Installed, set_handler(id)
    PROVE  Base'
<1>0. Types /\ Reachable /\ HandlersOwned
  BY Zenon DEF Base
<1>1. UNCHANGED <<running, up, next_id, allocated, exhausted, peers, peer_map, entries, call, conns>>
  BY DEF set_handler, registry, allocation
<1>2. Ids' = Ids /\ Reachable' /\ Removing' = Removing
  BY <1>0, <1>1, RegistryKept, Zenon DEF Removing
<1>3. id \in PeerIds
  BY InstalledAssumption, Zenon DEF PeerIds
<1>4. /\ handlers' = handlers \cup {id}
      /\ strays' = strays \/ strays' = strays \cup {id}
      /\ id \in Ids \/ strays' = strays \cup {id}
  BY Zenon DEF set_handler, Ids
<1>5. Types'
  BY <1>0, <1>1, <1>3, <1>4, Zenon DEF Types
<1>6. HandlersOwned'
  BY <1>0, <1>2, <1>4, Zenon DEF HandlersOwned
<1> QED
  BY <1>2, <1>5, <1>6, Zenon DEF Base

(* start(), stop() and a transport that comes up or is stopped *)
LEMMA ControlBase ==
    ASSUME Base,
           start \/ stop \/ \E t \in Transports : start_transport(t) \/ transport_stopped(t)
    PROVE  Base'
<1>0. Types /\ Reachable /\ HandlersOwned
  BY Zenon DEF Base
<1>1. UNCHANGED <<next_id, allocated, exhausted, peers, peer_map, entries, handlers, strays, call, conns>>
  BY DEF start, stop, start_transport, transport_stopped, registry, allocation, installed, appOnly
<1>2. Ids' = Ids /\ Reachable' /\ Removing' = Removing
  BY <1>0, <1>1, RegistryKept, Zenon DEF Removing
<1>3. running' \in BOOLEAN
  <2>1. running' \in {TRUE, FALSE, running}
    BY Zenon DEF start, stop, start_transport, transport_stopped
  <2> QED
    BY <1>0, <2>1, Zenon DEF Types
<1>4. up' \subseteq Transports
  <2>1. up' = up \/ \E t \in Transports : up' = up \cup {t} \/ up' = up \ {t}
    BY DEF start, stop, start_transport, transport_stopped, appOnly
  <2>2. up \subseteq Transports
    BY <1>0, Zenon DEF Types
  <2> QED
    BY <2>1, <2>2, Zenon
<1>5. Types'
  BY <1>0, <1>1, <1>3, <1>4, Zenon DEF Types
<1>6. HandlersOwned'
  BY <1>0, <1>1, <1>2, Zenon DEF HandlersOwned
<1> QED
  BY <1>2, <1>5, <1>6, Zenon DEF Base

(* A session factory that returns null *)
LEMMA FactoryFailsBase ==
    ASSUME Base, NEW t \in Multis, session_factory_fails(t)
    PROVE  Base'
<1>0. Types /\ Reachable /\ HandlersOwned
  BY Zenon DEF Base
<1>1. next_peer_id
      /\ UNCHANGED <<running, up, peers, peer_map, entries, handlers, strays, call, conns>>
  BY DEF session_factory_fails, ioOnly, installed
<1>2. next_id' \in PeerIds /\ allocated' \in 0..MaxIds /\ exhausted' \in BOOLEAN
  BY <1>0, <1>1, NewIdFacts, Zenon
<1>3. Ids' = Ids /\ Reachable' /\ Removing' = Removing
  BY <1>0, <1>1, RegistryKept, Zenon DEF Removing
<1>4. Types'
  BY <1>0, <1>1, <1>2, Zenon DEF Types
<1>5. HandlersOwned'
  BY <1>0, <1>1, <1>3, Zenon DEF HandlersOwned
<1> QED
  BY <1>3, <1>4, <1>5, Zenon DEF Base

(* remove_peer() *)
LEMMA RemovePeerBase ==
    ASSUME Base, NEW t \in Transports, remove_peer(t)
    PROVE  Base'
<1>0. Types /\ Reachable /\ HandlersOwned
  BY Zenon DEF Base
<1>1. /\ UNCHANGED <<running, up, next_id, allocated, exhausted, peers, peer_map, entries, conns>>
      /\ handlers' = handlers \ {call[t].peer} /\ strays' = strays \ {call[t].peer}
      /\ call' = [call EXCEPT ![t] = NoCall]
  BY DEF remove_peer, registry, allocation, ioOnly
<1>2. Ids' = Ids /\ Reachable'
  BY <1>0, <1>1, RegistryKept, Zenon
<1>3. call' \in [Transports -> Call] /\ Removing \ {call[t].peer} \subseteq Removing'
  BY <1>0, <1>1, CallTypes, CallChange, Zenon
<1>4. handlers' \subseteq PeerIds /\ strays' \subseteq PeerIds
  BY <1>0, <1>1, Zenon DEF Types
<1>5. Types'
  BY <1>0, <1>1, <1>3, <1>4, Zenon DEF Types
<1>6. HandlersOwned'
  BY <1>0, <1>1, <1>2, <1>3, Zenon DEF HandlersOwned
<1> QED
  BY <1>2, <1>5, <1>6, Zenon DEF Base

(* A change of state with a change of the callback the transport is in: what *)
(* peer_connected_returns, connection_lost and a disconnection that removes  *)
(* no context have in common *)
LEMMA StateStepBase ==
    ASSUME Base, NEW t \in Transports, NEW id \in PeerIds, NEW s \in States, NEW c \in Call,
           StateChanged(id, s), call' = [call EXCEPT ![t] = c], call[t].pc # "removed",
           conns' \in [Multis -> SUBSET PeerIds],
           UNCHANGED <<running, up, next_id, allocated, exhausted, peer_map, entries, handlers, strays>>
    PROVE  Base'
<1>0. Types /\ Reachable /\ HandlersOwned
  BY Zenon DEF Base
<1>1. peers' \in Seq(Peer) /\ Len(peers') <= MaxPeers /\ Reachable' /\ Ids' = Ids
  BY <1>0, StateBase, Zenon
<1>2. call' \in [Transports -> Call] /\ Removing \subseteq Removing'
  BY <1>0, CallChange, Zenon
<1>3. Types'
  BY <1>0, <1>1, <1>2, Zenon DEF Types
<1>4. HandlersOwned'
  BY <1>0, <1>1, <1>2, Zenon DEF HandlersOwned
<1> QED
  BY <1>1, <1>3, <1>4, Zenon DEF Base

(* handle_state_changed() of a single-peer transport *)
LEMMA StateReportedBase ==
    ASSUME Base, NEW t \in Transports, handle_state_changed(t)
    PROVE  Base'
<1>0. Types /\ Reachable /\ HandlersOwned
  BY Zenon DEF Base
<1>1. UNCHANGED <<running, up, next_id, allocated, exhausted, peer_map, entries, handlers, strays, call, conns>>
  BY DEF handle_state_changed, ioOnly, allocation, installed
<1>2. PICK i \in Indices, s \in Reported : StateChanged(peers[i].id, s)
  BY Zenon DEF handle_state_changed, FirstOn
<1>3. peers' \in Seq(Peer) /\ Len(peers') <= MaxPeers /\ Reachable' /\ Ids' = Ids
  <2>1. peers[i].id \in PeerIds /\ s \in States
    BY <1>0, PeerTypes, StateNames, Zenon
  <2> QED
    BY <1>0, <1>1, <1>2, <2>1, StateBase, Zenon
<1>4. Removing' = Removing
  BY <1>1, Zenon DEF Removing
<1>5. Types'
  BY <1>0, <1>1, <1>3, Zenon DEF Types
<1>6. HandlersOwned'
  BY <1>0, <1>1, <1>3, <1>4, Zenon DEF HandlersOwned
<1> QED
  BY <1>3, <1>5, <1>6, Zenon DEF Base

(* What handle_peer_connected() is made of: a free entry of the transport, a *)
(* context under the name of the child, and the callback.                    *)
LEMMA ConnectedStep ==
    ASSUME Types, NEW t \in Multis, handle_peer_connected(t)
    PROVE  /\ next_peer_id /\ Len(peers) < MaxPeers /\ t \in up /\ call[t] = NoCall
           /\ HasEntry(t)
           /\ \E name \in NameSet : Insert(name, t, "Connected")
           /\ entries' \in Seq(Entry)
           /\ \A u \in Multis : HasEntry(u) => HasEntry(u)'
           /\ call' = [call EXCEPT ![t] = [pc |-> "connected", peer |-> NewId]]
           /\ UNCHANGED <<running, up, conns, handlers>>
<1>1. PICK i \in EntryOf(t) :
        /\ Insert(Append(entries[i].name, entries[i].next_child), t, "Connected")
        /\ entries' = [entries EXCEPT ![i].next_child = @ + 1]
  BY Zenon DEF handle_peer_connected
<1>2. i \in 1..Len(entries) /\ entries[i].transport = t
  BY <1>1, Zenon DEF EntryOf
<1>3. entries[i] \in Entry /\ entries[i].name \in NameSet /\ entries[i].next_child \in Nat
  BY <1>2, EntryTypes, Zenon
<1>4. Append(entries[i].name, entries[i].next_child) \in NameSet
  <2>1. entries[i].next_child \in STRING \cup Nat
    BY <1>3, Zenon
  <2> QED
    BY <1>3, <2>1, AppendProperties, Zenon DEF NameSet
<1> DEFINE e == [entries[i] EXCEPT !.next_child = @ + 1]
<1>5. e \in Entry /\ e.transport = entries[i].transport
  BY <1>3 DEF Entry
<1>6. entries' = [entries EXCEPT ![i] = e]
  BY <1>1
<1> HIDE DEF e
<1>7. /\ entries' \in Seq(Entry) /\ Len(entries') = Len(entries) /\ entries'[i] = e
      /\ \A j \in 1..Len(entries) : j # i => entries'[j] = entries[j]
  <2>1. entries \in Seq(Entry)
    BY Zenon DEF Types
  <2> QED
    BY <1>2, <1>5, <1>6, <2>1, ExceptSeq
<1>8. \A u \in Multis : HasEntry(u) => HasEntry(u)'
  <2>1. \A j \in 1..Len(entries) : entries'[j].transport = entries[j].transport
    BY <1>5, <1>7, Zenon
  <2> QED
    BY <1>7, <2>1, Zenon DEF HasEntry
<1>9. HasEntry(t)
  BY <1>2, Zenon DEF HasEntry
<1>10. /\ next_peer_id /\ Len(peers) < MaxPeers /\ t \in up /\ call[t] = NoCall
       /\ call' = [call EXCEPT ![t] = [pc |-> "connected", peer |-> NewId]]
       /\ UNCHANGED <<running, up, conns>>
  BY DEF handle_peer_connected, ioOnly
<1>11. UNCHANGED handlers
  BY <1>1, Zenon DEF Insert
<1> QED
  BY <1>1, <1>4, <1>7, <1>8, <1>9, <1>10, <1>11, Zenon

(* handle_peer_connected() *)
LEMMA ConnectedBase ==
    ASSUME Base, NEW t \in Multis, handle_peer_connected(t)
    PROVE  Base'
<1>0. Types /\ Reachable /\ HandlersOwned /\ t \in Transports
  BY Zenon DEF Base, Transports
<1>1. /\ next_peer_id /\ Len(peers) < MaxPeers /\ call[t] = NoCall
      /\ entries' \in Seq(Entry)
      /\ call' = [call EXCEPT ![t] = [pc |-> "connected", peer |-> NewId]]
      /\ UNCHANGED <<running, up, conns, handlers>>
  BY <1>0, ConnectedStep, Zenon
<1>2. PICK name \in NameSet : Insert(name, t, "Connected")
  BY <1>0, ConnectedStep, Zenon
<1>3. /\ NewId \in PeerIds
      /\ next_id' \in PeerIds /\ allocated' \in 0..MaxIds /\ exhausted' \in BOOLEAN
  BY <1>0, <1>1, NewIdFacts, Zenon
<1>4. /\ peers' \in Seq(Peer) /\ Len(peers') <= MaxPeers /\ Reachable'
      /\ Ids' = Ids \cup {NewId}
  BY <1>0, <1>1, <1>2, StateNames, InsertBase, Zenon
<1>5. strays' = strays \ {NewId}
  BY <1>2, Zenon DEF Insert
<1>6. call' \in [Transports -> Call] /\ Removing \subseteq Removing'
  <2>1. [pc |-> "connected", peer |-> NewId] \in Call /\ call[t].pc # "removed"
    BY <1>0, <1>1, <1>3, CallTypes
  <2> QED
    BY <1>0, <1>1, <2>1, CallChange, Zenon
<1>7. strays' \subseteq PeerIds
  BY <1>0, <1>5, Zenon DEF Types
<1>8. Types'
  BY <1>0, <1>1, <1>3, <1>4, <1>6, <1>7, Zenon DEF Types
<1>9. HandlersOwned'
  BY <1>0, <1>1, <1>4, <1>5, <1>6, Zenon DEF HandlersOwned
<1> QED
  BY <1>4, <1>8, <1>9, Zenon DEF Base

(* The end of the callback that announces a peer *)
LEMMA ReturnsBase ==
    ASSUME Base, NEW t \in Multis, peer_connected_returns(t)
    PROVE  Base'
<1>0. Types /\ t \in Transports
  BY Zenon DEF Base, Transports
<1>1. /\ UNCHANGED <<running, up, next_id, allocated, exhausted, peer_map, entries, handlers, strays>>
      /\ call[t].pc = "connected" /\ StateChanged(call[t].peer, "Connected")
      /\ conns' = [conns EXCEPT ![t] = @ \cup ({call[t].peer} \ {Invalid})]
      /\ call' = [call EXCEPT ![t] = NoCall]
  BY DEF peer_connected_returns, ioOnly, allocation, installed
<1>2. call[t].peer \in PeerIds /\ NoCall \in Call
  BY <1>0, CallTypes, Zenon
<1>3. conns' \in [Multis -> SUBSET PeerIds]
  BY <1>0, <1>1, <1>2 DEF Types
<1>4. call[t].pc # "removed"
  BY <1>1
<1> QED
  BY <1>0, <1>1, <1>2, <1>3, <1>4, StateNames, StateStepBase, Zenon

(* The end of a connection *)
LEMMA LostBase ==
    ASSUME Base, NEW t \in Transports, connection_lost(t)
    PROVE  Base'
<1>0. Types
  BY Zenon DEF Base
<1>1. /\ UNCHANGED <<running, up, next_id, allocated, exhausted, peer_map, entries, handlers, strays>>
      /\ call[t] = NoCall
  BY DEF connection_lost, ioOnly, allocation, installed
<1>2. \E id \in PeerIds : Lost(t, id) /\ conns' \in [Multis -> SUBSET PeerIds]
  <2>0. conns \in [Multis -> SUBSET PeerIds]
    BY <1>0, Zenon DEF Types
  <2>1. ASSUME t \in Multis, NEW id \in conns[t],
               conns' = [conns EXCEPT ![t] = @ \ {id}], Lost(t, id)
        PROVE  id \in PeerIds /\ conns' \in [Multis -> SUBSET PeerIds]
    BY <2>0, <2>1
  <2>2. ASSUME NEW i \in FirstOn(t), Lost(t, peers[i].id), UNCHANGED conns
        PROVE  peers[i].id \in PeerIds /\ conns' \in [Multis -> SUBSET PeerIds]
    BY <1>0, <2>0, <2>2, PeerTypes, Zenon DEF FirstOn
  <2> QED
    BY <2>1, <2>2, Zenon DEF connection_lost
<1>3. PICK id \in PeerIds : Lost(t, id) /\ conns' \in [Multis -> SUBSET PeerIds]
  BY <1>2
<1>4. [pc |-> "lost", peer |-> id] \in Call
  BY <1>0, CallTypes, Zenon
<1>5. call[t].pc # "removed"
  BY <1>0, <1>1, CallTypes
<1> QED
  BY <1>1, <1>3, <1>4, <1>5, StateNames, StateStepBase, Zenon DEF Lost

(* handle_peer_disconnected() *)
LEMMA DisconnectedBase ==
    ASSUME Base, NEW t \in Transports, handle_peer_disconnected(t)
    PROVE  Base'
<1> DEFINE id == call[t].peer
<1>0. Types /\ Reachable /\ HandlersOwned
  BY Zenon DEF Base
<1>1. /\ UNCHANGED <<running, up, next_id, allocated, exhausted, entries, handlers, strays, conns>>
      /\ call[t].pc = "lost"
  BY DEF handle_peer_disconnected, ioOnly, allocation, installed
<1>2. id \in PeerIds /\ NoCall \in Call /\ call[t] \in Call
  BY <1>0, CallTypes, Zenon
<1>3. call[t].pc # "removed"
  BY <1>1
<1>4. ASSUME NEW i \in Dynamic(id), RemoveContext(i, id), call' = [call EXCEPT ![t].pc = "removed"]
      PROVE  Base'
  <2>1. i \in Indices /\ peers[i].id = id
    BY <1>4, Zenon DEF Dynamic, FirstWithId
  <2>2. peers' \in Seq(Peer) /\ Len(peers') <= MaxPeers
    BY <1>0, <1>2, <1>4, <2>1, RemoveLeaves, Zenon
  <2>3. Reachable' /\ Ids \ {id} \subseteq Ids'
    BY <1>0, <1>2, <1>4, <2>1, RemoveBase, Zenon
  <2> DEFINE c == [call[t] EXCEPT !.pc = "removed"]
  <2>4. c \in Call /\ c.pc = "removed" /\ c.peer = id
    BY <1>2 DEF Call
  <2>5. call' = [call EXCEPT ![t] = c]
    BY <1>4
  <2> HIDE DEF c
  <2>6. call' \in [Transports -> Call] /\ Removing \subseteq Removing' /\ id \in Removing'
    BY <1>0, <1>3, <2>4, <2>5, CallChange, Zenon
  <2>7. Types'
    BY <1>0, <1>1, <2>2, <2>6, Zenon DEF Types
  <2>8. HandlersOwned'
    BY <1>0, <1>1, <2>3, <2>6, Zenon DEF HandlersOwned
  <2> QED
    BY <2>3, <2>7, <2>8, Zenon DEF Base
<1>5. ASSUME StateChanged(id, "Disconnected"), UNCHANGED <<peer_map, names>>,
             call' = [call EXCEPT ![t] = NoCall]
      PROVE  Base'
  <2>1. conns' \in [Multis -> SUBSET PeerIds]
    BY <1>0, <1>1, Zenon DEF Types
  <2> QED
    BY <1>1, <1>2, <1>3, <1>5, <2>1, StateNames, StateStepBase, Zenon
<1> QED
  BY <1>4, <1>5, Zenon DEF handle_peer_disconnected

(* Every step preserves Base. *)
LEMMA BaseInductive ==
    ASSUME Base, [Next]_vars
    PROVE  Base'
<1>1. CASE UNCHANGED vars
  <2>1. UNCHANGED <<running, up, next_id, allocated, exhausted, peers, peer_map, entries, handlers,
                    strays, call, conns>>
    BY <1>1 DEF vars, registry, allocation, installed
  <2>2. Ids' = Ids /\ Reachable' /\ Removing' = Removing
    BY <2>1, RegistryKept, Zenon DEF Removing, Base
  <2>3. Types'
    BY <2>1, Zenon DEF Types, Base
  <2>4. HandlersOwned'
    BY <2>1, <2>2, Zenon DEF HandlersOwned, Base
  <2> QED
    BY <2>2, <2>3, <2>4, Zenon DEF Base
<1>2. CASE Next
  <2>1. ASSUME NEW name \in Names, NEW t \in Transports, add_peer(name, t) \/ add_peer_factory(name, t)
        PROVE  Base'
    BY <2>1, AddPeerBase, AddFactoryBase, Zenon
  <2>2. ASSUME start \/ stop
        PROVE  Base'
    BY <2>2, ControlBase, Zenon
  <2>3. ASSUME NEW id \in Installed, set_handler(id)
        PROVE  Base'
    BY <2>3, SetHandlerBase, Zenon
  <2>4. ASSUME NEW t \in Transports,
               \/ start_transport(t) \/ transport_stopped(t) \/ handle_state_changed(t)
               \/ connection_lost(t) \/ handle_peer_disconnected(t) \/ remove_peer(t)
        PROVE  Base'
    BY <2>4, ControlBase, StateReportedBase, LostBase, DisconnectedBase, RemovePeerBase, Zenon
  <2>5. ASSUME NEW t \in Multis,
               handle_peer_connected(t) \/ session_factory_fails(t) \/ peer_connected_returns(t)
        PROVE  Base'
    BY <2>5, ConnectedBase, FactoryFailsBase, ReturnsBase, Zenon
  <2> QED
    BY <1>2, <2>1, <2>2, <2>3, <2>4, <2>5, Zenon DEF Next
<1> QED
  BY <1>1, <1>2, Zenon

-----------------------------------------------------------------------------
(* Each action preserves Core, as long as the tries do not run out. *)

(* The peer of a callback before and after a transport enters or leaves one. *)
LEMMA AnnouncedChange ==
    ASSUME Types, NEW t \in Transports, NEW c \in Call, call' = [call EXCEPT ![t] = c]
    PROVE  /\ \A u \in Transports : u # t => Announced(u)' = Announced(u)
           /\ Announced(t)' = IF c.pc \in {"connected", "lost"} THEN {c.peer} ELSE {}
<1>1. call'[t] = c /\ \A u \in Transports : u # t => call'[u] = call[u]
  BY CallChange, Zenon
<1> QED
  BY <1>1, Zenon DEF Announced

(* A transport that is in no callback announces nobody. *)
LEMMA AnnouncedNobody ==
    ASSUME Types, NEW t \in Transports, call[t] = NoCall \/ call[t].pc = "removed"
    PROVE  Announced(t) = {}
<1>1. call[t].pc \notin {"connected", "lost"}
  BY CallTypes
<1> QED
  BY <1>1, Zenon DEF Announced

(* Two contexts with one id are on one transport. *)
LEMMA OneOwner ==
    ASSUME Distinct, NEW i \in Indices, NEW j \in Indices, peers[i].id = peers[j].id
    PROVE  peers[i].transport = peers[j].transport
BY Zenon DEF Distinct

(* A step that leaves contexts, connections and announcements alone *)
LEMMA KeptCore ==
    ASSUME Core, UNCHANGED <<peers, peer_map, conns>>,
           \A u \in Transports : Announced(u)' = Announced(u),
           \A u \in Multis : HasEntry(u) => HasEntry(u)',
           Down'
    PROVE  Core'
<1>0. Exact /\ Distinct /\ Owners /\ Serving /\ Announcing /\ HaveEntries
  BY Zenon DEF Core, Served
<1>1. Indices' = Indices /\ Exact' /\ Distinct'
  BY <1>0, RegistryKept, Zenon
<1>2. \A u \in Multis : Announced(u)' = Announced(u)
  BY Zenon DEF Transports
<1>3. Owners'
  BY <1>0, <1>1, <1>2, Zenon DEF Owners
<1>4. Serving'
  <2>1. conns' = conns /\ peers' = peers
    BY Zenon
  <2> QED
    BY <1>0, <1>1, <2>1, SMT DEF Serving
<1>5. Announcing'
  BY <1>0, <1>1, <1>2, Zenon DEF Announcing
<1>6. HaveEntries'
  BY <1>0, <1>1, Zenon DEF HaveEntries
<1> QED
  BY <1>1, <1>3, <1>4, <1>5, <1>6, Zenon DEF Core, Served

(* The control steps, the installation and removal of handlers, and the ids  *)
(* that no context gets *)
LEMMA ControlCore ==
    ASSUME Types, Core,
           \/ start \/ stop
           \/ \E id \in Installed : set_handler(id)
           \/ \E t \in Transports : start_transport(t) \/ transport_stopped(t) \/ remove_peer(t)
           \/ \E t \in Multis : session_factory_fails(t)
           \/ \E name \in Names, t \in Transports : add_peer_factory(name, t)
    PROVE  Core'
<1>0. Down
  BY Zenon DEF Core, Served
<1>1. UNCHANGED <<peers, peer_map, conns>>
  BY DEF start, stop, set_handler, start_transport, transport_stopped, remove_peer,
         session_factory_fails, add_peer_factory, registry, appOnly
<1>2. \A u \in Multis : HasEntry(u) => HasEntry(u)'
  <2>1. CASE UNCHANGED entries
    BY <2>1, Zenon DEF HasEntry
  <2>2. ASSUME NEW e, entries' = Append(entries, e)
        PROVE  \A u \in Multis : HasEntry(u) => HasEntry(u)'
    <3>1. entries \in Seq(Entry) /\ Len(entries) \in Nat
      BY LenProperties DEF Types
    <3>2. \A i \in 1..Len(entries) : i \in 1..Len(entries') /\ entries'[i] = entries[i]
      BY <2>2, <3>1
    <3> QED
      BY <3>2, Zenon DEF HasEntry
  <2>3. UNCHANGED entries \/ \E e : entries' = Append(entries, e)
    BY DEF start, stop, set_handler, start_transport, transport_stopped, remove_peer,
           session_factory_fails, add_peer_factory, registry
  <2> QED
    BY <2>1, <2>2, <2>3, Zenon
<1>3. ASSUME UNCHANGED call, up \subseteq up' \/ \E t \in Transports : transport_stopped(t)
      PROVE  Core'
  <2>1. \A u \in Transports : Announced(u)' = Announced(u)
    BY <1>3, Zenon DEF Announced
  <2>2. Down'
    <3>1. CASE up \subseteq up'
      BY <1>0, <1>1, <1>3, <3>1, Zenon DEF Down
    <3>2. ASSUME NEW t \in Transports, transport_stopped(t)
          PROVE  Down'
      <4>1. call[t] = NoCall /\ (t \in Multis => conns[t] = {}) /\ up' = up \ {t}
        BY <3>2, Zenon DEF transport_stopped
      <4> QED
        BY <1>0, <1>1, <1>3, <4>1, Zenon DEF Down
    <3> QED
      BY <1>3, <3>1, <3>2, Zenon
  <2> QED
    BY <1>1, <1>2, <2>1, <2>2, KeptCore, Zenon
<1>4. ASSUME NEW t \in Transports, remove_peer(t)
      PROVE  Core'
  <2>1. call[t].pc = "removed" /\ call' = [call EXCEPT ![t] = NoCall] /\ up' = up
    BY <1>4 DEF remove_peer, ioOnly
  <2>2. NoCall \in Call /\ NoCall.pc \notin {"connected", "lost"}
    BY CallTypes
  <2>3. \A u \in Transports : Announced(u)' = Announced(u)
    <3>1. Announced(t) = {}
      BY <2>1, AnnouncedNobody, Zenon
    <3> QED
      BY <2>1, <2>2, <3>1, AnnouncedChange, Zenon
  <2>4. Down'
    <3>1. call'[t] = NoCall /\ \A u \in Transports : u # t => call'[u] = call[u]
      BY <2>1, <2>2, CallChange, Zenon
    <3> QED
      BY <1>0, <1>1, <2>1, <3>1, Zenon DEF Down
  <2> QED
    BY <1>1, <1>2, <2>3, <2>4, KeptCore, Zenon
<1>5. \/ UNCHANGED call /\ (up \subseteq up' \/ \E t \in Transports : transport_stopped(t))
      \/ \E t \in Transports : remove_peer(t)
  BY DEF start, stop, set_handler, start_transport, transport_stopped,
         session_factory_fails, add_peer_factory, appOnly, ioOnly
<1> QED
  BY <1>3, <1>4, <1>5, Zenon

(* A new context with a free id *)
LEMMA InsertServed ==
    ASSUME Types, Reachable, Core, Len(peers) < MaxPeers,
           NEW name \in NameSet, NEW t \in Transports, NEW s \in States, Insert(name, t, s),
           NewId # Invalid, NewId \notin DOMAIN peer_map, UNCHANGED conns,
           \A u \in Transports : u # t => Announced(u)' = Announced(u),
           Announced(t) = {}, Announced(t)' = IF t \in Multis THEN {NewId} ELSE {},
           \A u \in Multis : HasEntry(u) => HasEntry(u)',
           t \in Multis => HasEntry(t),
           Down'
    PROVE  Core'
<1> DEFINE last == Len(peers) + 1
<1>0. Exact /\ Distinct /\ Owners /\ Serving /\ Announcing /\ HaveEntries
  BY Zenon DEF Core, Served
<1>1. Exact' /\ Distinct'
  BY <1>0, InsertCore, Zenon
<1>2. Indices' = Indices \cup {last} /\ \A i \in Indices : peers'[i] = peers[i]
  BY InsertBase, Zenon
<1>3. peers'[last].id = NewId /\ peers'[last].transport = t
  <2>1. peers'[last] = [ptr |-> NewPtr, id |-> NewId, name |-> name, transport |-> t, state |-> s]
    BY InsertBase, Zenon
  <2> HIDE DEF last
  <2> QED
    BY <2>1
<1> HIDE DEF last
<1>4. \A u \in Multis : u \in Transports
  BY Zenon DEF Transports
<1>5. Owners'
  <2>1. ASSUME NEW i \in Indices, NEW u \in Multis, peers[i].transport = u
        PROVE  peers[i].id \in conns[u] \cup Announced(u)'
    <3>1. peers[i].id \in conns[u] \cup Announced(u)
      BY <1>0, <2>1, Zenon DEF Owners
    <3>2. Announced(u) \subseteq Announced(u)'
      BY <1>4, Zenon
    <3> QED
      BY <3>1, <3>2, Zenon
  <2>2. \A u \in Multis : t = u => NewId \in conns[u] \cup Announced(u)'
    BY Zenon
  <2>3. \A i \in Indices', u \in Multis : peers'[i].transport = u => peers'[i].id \in conns'[u] \cup Announced(u)'
    BY <1>2, <1>3, <2>1, <2>2, Zenon
  <2> QED
    BY <2>3, Zenon DEF Owners
<1>6. Serving'
  <2>1. ASSUME NEW u \in Multis, NEW id \in conns'[u]
        PROVE  \E i \in Indices' :
                 peers'[i].id = id /\ peers'[i].transport = u /\ peers'[i].state = "Connected"
    <3>1. PICK i \in Indices :
            peers[i].id = id /\ peers[i].transport = u /\ peers[i].state = "Connected"
      BY <1>0, <2>1, Zenon DEF Serving
    <3> QED
      BY <1>2, <3>1, Zenon
  <2> QED
    BY <2>1, Zenon DEF Serving
<1>7. Announcing'
  <2>1. ASSUME NEW u \in Transports, NEW id \in Announced(u)'
        PROVE  \E i \in Indices' : peers'[i].id = id /\ peers'[i].transport = u
    <3>1. CASE u = t
      <4>1. id = NewId
        BY <2>1, <3>1, Zenon
      <4> QED
        BY <1>2, <1>3, <3>1, <4>1, Zenon
    <3>2. CASE u # t
      <4>1. id \in Announced(u)
        BY <2>1, <3>2, Zenon
      <4>2. PICK i \in Indices : peers[i].id = id /\ peers[i].transport = u
        BY <1>0, <4>1, Zenon DEF Announcing
      <4> QED
        BY <1>2, <4>2, Zenon
    <3> QED
      BY <3>1, <3>2, Zenon
  <2>2. ASSUME NEW u \in Multis, NEW id \in Announced(u)'
        PROVE  id \notin conns'[u]
    <3>1. CASE u = t
      <4>1. id = NewId
        BY <2>2, <3>1, Zenon
      <4>2. \A x \in conns[u] : x \in Ids
        BY <1>0, Zenon DEF Serving, Ids
      <4> QED
        BY <1>0, <4>1, <4>2, Zenon DEF Exact
    <3>2. CASE u # t
      <4>1. id \in Announced(u)
        BY <1>4, <2>2, <3>2, Zenon
      <4> QED
        BY <1>0, <4>1, Zenon DEF Announcing
    <3> QED
      BY <3>1, <3>2, Zenon
  <2> QED
    BY <2>1, <2>2, Zenon DEF Announcing
<1>8. HaveEntries'
  <2>1. \A i \in Indices, u \in Multis : peers[i].transport = u => HasEntry(u)'
    BY <1>0, Zenon DEF HaveEntries
  <2>2. \A i \in Indices', u \in Multis : peers'[i].transport = u => HasEntry(u)'
    BY <1>2, <1>3, <2>1, Zenon
  <2> QED
    BY <2>2, Zenon DEF HaveEntries
<1> QED
  BY <1>1, <1>5, <1>6, <1>7, <1>8, Zenon DEF Core, Served

(* add_peer() *)
LEMMA AddPeerCore ==
    ASSUME Base, Core, NEW name \in Names, NEW t \in Transports, add_peer(name, t), ~exhausted'
    PROVE  Core'
<1>0. Types /\ Reachable /\ Down
  BY Zenon DEF Base, Core, Served
<1>1. /\ next_peer_id /\ Len(peers) < MaxPeers /\ t \in Singles /\ up = {}
      /\ UNCHANGED <<up, entries, call, conns>>
  BY DEF add_peer, appOnly
<1>2. NewId # Invalid /\ NewId \notin DOMAIN peer_map
  BY <1>0, <1>1, NewIdFacts, Zenon
<1>3. Down' /\ \A u \in Transports : Announced(u)' = Announced(u)
  BY <1>0, <1>1, Zenon DEF Down, Announced
<1>4. \A u \in Multis : HasEntry(u) => HasEntry(u)'
  BY <1>1, Zenon DEF HasEntry
<1>5. CASE Insert(name, t, "Disconnected")
  <2>1. name \in NameSet
    BY NamesAssumption, Zenon DEF NameSet
  <2>2. t \notin Multis
    BY <1>1, TransportsAssumption, Zenon
  <2>3. Announced(t) = {}
    BY <1>0, <1>1, AnnouncedNobody, Zenon DEF Down
  <2> QED
    BY <1>0, <1>1, <1>2, <1>3, <1>4, <1>5, <2>1, <2>2, <2>3, StateNames, InsertServed, Zenon
<1>6. CASE UNCHANGED <<peers, peer_map, names, installed>>
  BY <1>1, <1>3, <1>4, <1>6, KeptCore, Zenon
<1> QED
  BY <1>5, <1>6, Zenon DEF add_peer

(* handle_peer_connected() *)
LEMMA ConnectedCore ==
    ASSUME Base, Core, NEW t \in Multis, handle_peer_connected(t), ~exhausted'
    PROVE  Core'
<1>0. Types /\ Reachable /\ Down /\ t \in Transports
  BY Zenon DEF Base, Core, Served, Transports
<1>1. /\ next_peer_id /\ Len(peers) < MaxPeers /\ t \in up /\ call[t] = NoCall /\ HasEntry(t)
      /\ \A u \in Multis : HasEntry(u) => HasEntry(u)'
      /\ call' = [call EXCEPT ![t] = [pc |-> "connected", peer |-> NewId]]
      /\ UNCHANGED <<up, conns>>
  BY <1>0, ConnectedStep, Zenon
<1>2. PICK name \in NameSet : Insert(name, t, "Connected")
  BY <1>0, ConnectedStep, Zenon
<1>3. NewId # Invalid /\ NewId \notin DOMAIN peer_map /\ NewId \in PeerIds
  BY <1>0, <1>1, NewIdFacts, Zenon
<1> DEFINE c == [pc |-> "connected", peer |-> NewId]
<1>4. c \in Call /\ c.pc = "connected" /\ c.peer = NewId
  BY <1>0, <1>3, CallTypes
<1>5. call' = [call EXCEPT ![t] = c]
  BY <1>1
<1> HIDE DEF c
<1>6. Announced(t)' = {NewId} /\ \A u \in Transports : u # t => Announced(u)' = Announced(u)
  BY <1>0, <1>4, <1>5, AnnouncedChange, Zenon
<1>7. Announced(t) = {}
  BY <1>0, <1>1, AnnouncedNobody, Zenon
<1>8. Down'
  <2>1. \A u \in Transports : u # t => call'[u] = call[u]
    BY <1>0, <1>4, <1>5, CallChange, Zenon
  <2> QED
    BY <1>0, <1>1, <2>1, Zenon DEF Down
<1> QED
  BY <1>0, <1>1, <1>2, <1>3, <1>6, <1>7, <1>8, StateNames, InsertServed, Zenon

(* Changes to connections and announcements that agree with a change of state *)
NobodyForgotten ==
    \A u \in Multis : conns[u] \cup Announced(u) \subseteq conns'[u] \cup Announced(u)'
ServesAfter(id, s) ==
    \A u \in Multis : \A x \in conns'[u] :
        /\ x \in conns[u] \cup Announced(u)
        /\ IF x = id THEN s = "Connected" ELSE x \in conns[u]
AnnouncesAfter ==
    /\ \A u \in Transports : \A x \in Announced(u)' : \E i \in Indices :
         peers[i].id = x /\ peers[i].transport = u
    /\ \A u \in Multis : \A x \in Announced(u)' : x \notin conns'[u]

(* A change of state together with such changes *)
LEMMA StateServed ==
    ASSUME Types, Reachable, Core, NEW id \in PeerIds, NEW s \in States,
           StateChanged(id, s), UNCHANGED <<peer_map, entries>>,
           NobodyForgotten, ServesAfter(id, s), AnnouncesAfter, Down'
    PROVE  Core'
<1>0. Exact /\ Distinct /\ Owners /\ Serving /\ Announcing /\ HaveEntries
  BY Zenon DEF Core, Served
<1>1. /\ Indices' = Indices
      /\ \A i \in Indices : peers'[i].id = peers[i].id /\ peers'[i].transport = peers[i].transport
  BY StateBase, Zenon
<1>2. /\ Exact' /\ Distinct'
      /\ \A i \in Indices : peers[i].id = id => peers'[i].state = s
      /\ \A i \in Indices : peers[i].id # id => peers'[i] = peers[i]
  BY <1>0, StateCore, Zenon
<1>3. Owners'
  <2>1. ASSUME NEW i \in Indices', NEW u \in Multis, peers'[i].transport = u
        PROVE  peers'[i].id \in conns'[u] \cup Announced(u)'
    <3>1. i \in Indices /\ peers[i].transport = u /\ peers'[i].id = peers[i].id
      BY <1>1, <2>1, Zenon
    <3>2. peers[i].id \in conns[u] \cup Announced(u)
      BY <1>0, <3>1, Zenon DEF Owners
    <3> QED
      BY <3>1, <3>2, Zenon DEF NobodyForgotten
  <2> QED
    BY <2>1, Zenon DEF Owners
<1>4. Serving'
  <2>1. ASSUME NEW u \in Multis, NEW x \in conns'[u]
        PROVE  \E i \in Indices' :
                 peers'[i].id = x /\ peers'[i].transport = u /\ peers'[i].state = "Connected"
    <3>1. CASE x = id
      <4>1. s = "Connected" /\ x \in conns[u] \cup Announced(u)
        BY <2>1, <3>1, Zenon DEF ServesAfter
      <4>2. \A y \in Announced(u) : \E i \in Indices : peers[i].id = y /\ peers[i].transport = u
        BY <1>0, Zenon DEF Announcing, Transports
      <4>3. PICK i \in Indices : peers[i].id = x /\ peers[i].transport = u
        BY <1>0, <4>1, <4>2, Zenon DEF Serving
      <4> QED
        BY <1>1, <1>2, <3>1, <4>1, <4>3, Zenon
    <3>2. CASE x # id
      <4>1. x \in conns[u]
        BY <2>1, <3>2, Zenon DEF ServesAfter
      <4>2. PICK i \in Indices :
              peers[i].id = x /\ peers[i].transport = u /\ peers[i].state = "Connected"
        BY <1>0, <4>1, Zenon DEF Serving
      <4>3. peers'[i] = peers[i]
        BY <1>2, <3>2, <4>2, Zenon
      <4> QED
        BY <1>1, <4>2, <4>3, Zenon
    <3> QED
      BY <3>1, <3>2, Zenon
  <2> QED
    BY <2>1, Zenon DEF Serving
<1>5. Announcing'
  <2>1. ASSUME NEW u \in Transports, NEW x \in Announced(u)'
        PROVE  \E i \in Indices' : peers'[i].id = x /\ peers'[i].transport = u
    <3>1. PICK i \in Indices : peers[i].id = x /\ peers[i].transport = u
      BY <2>1, Zenon DEF AnnouncesAfter
    <3> QED
      BY <1>1, <3>1, Zenon
  <2> QED
    BY <2>1, Zenon DEF Announcing, AnnouncesAfter
<1>6. HaveEntries'
  <2>1. \A u \in Multis : HasEntry(u) => HasEntry(u)'
    BY Zenon DEF HasEntry
  <2>2. \A i \in Indices', u \in Multis : peers'[i].transport = u => HasEntry(u)'
    BY <1>0, <1>1, <2>1, Zenon DEF HaveEntries
  <2> QED
    BY <2>2, Zenon DEF HaveEntries
<1> QED
  BY <1>2, <1>3, <1>4, <1>5, <1>6, Zenon DEF Core, Served

(* No multi-peer transport serves the peer of another transport. *)
LEMMA ServedElsewhere ==
    ASSUME Core, NEW i \in Indices, NEW u \in Multis, peers[i].transport # u
    PROVE  peers[i].id \notin conns[u]
<1>0. Distinct /\ Serving
  BY Zenon DEF Core, Served
<1> SUFFICES ASSUME peers[i].id \in conns[u] PROVE FALSE
  OBVIOUS
<1>1. PICK j \in Indices : peers[j].id = peers[i].id /\ peers[j].transport = u
  BY <1>0, Zenon DEF Serving
<1> QED
  BY <1>0, <1>1, OneOwner, Zenon

(* handle_state_changed() of a single-peer transport *)
LEMMA StateReportedCore ==
    ASSUME Base, Core, NEW t \in Transports, handle_state_changed(t)
    PROVE  Core'
<1>0. Types /\ Reachable /\ Down /\ Announcing
  BY Zenon DEF Base, Core, Served
<1>1. t \in Singles /\ UNCHANGED <<up, peer_map, entries, call, conns>>
  BY DEF handle_state_changed, ioOnly
<1>2. PICK i \in FirstOn(t), s \in Reported : StateChanged(peers[i].id, s)
  BY Zenon DEF handle_state_changed
<1>3. i \in Indices /\ peers[i].transport = t
  BY <1>2, Zenon DEF FirstOn
<1>4. peers[i].id \in PeerIds /\ s \in States
  BY <1>0, <1>3, PeerTypes, StateNames, Zenon
<1>5. \A u \in Multis : u # t
  BY <1>1, TransportsAssumption, Zenon
<1>6. \A u \in Multis : peers[i].id \notin conns[u]
  BY <1>3, <1>5, ServedElsewhere, Zenon
<1>7. \A u \in Transports : Announced(u)' = Announced(u)
  BY <1>1, Zenon DEF Announced
<1>8. Down'
  BY <1>0, <1>1, Zenon DEF Down
<1>9. \A u \in Multis : Announced(u)' = Announced(u) /\ conns'[u] = conns[u]
  BY <1>1, <1>7, Zenon DEF Transports
<1>10. AnnouncesAfter
  BY <1>0, <1>7, <1>9, Zenon DEF Announcing, AnnouncesAfter
<1>11. NobodyForgotten
  BY <1>9, Zenon DEF NobodyForgotten
<1>12. ServesAfter(peers[i].id, s)
  BY <1>6, <1>9, Zenon DEF ServesAfter
<1> QED
  BY <1>0, <1>1, <1>2, <1>4, <1>8, <1>10, <1>11, <1>12, StateServed, Zenon

(* The end of the callback that announces a peer *)
LEMMA ReturnsCore ==
    ASSUME Base, Core, NEW t \in Multis, peer_connected_returns(t)
    PROVE  Core'
<1> DEFINE id == call[t].peer
<1>0. Types /\ Reachable /\ Exact /\ Down /\ Announcing /\ t \in Transports
  BY Zenon DEF Base, Core, Served, Transports
<1>1. /\ call[t].pc = "connected" /\ StateChanged(id, "Connected")
      /\ conns' = [conns EXCEPT ![t] = @ \cup ({id} \ {Invalid})]
      /\ call' = [call EXCEPT ![t] = NoCall]
      /\ UNCHANGED <<up, peer_map, entries>>
  BY DEF peer_connected_returns, ioOnly
<1>2. id \in PeerIds /\ NoCall \in Call /\ NoCall.pc \notin {"connected", "lost"}
  BY <1>0, CallTypes
<1>3. Announced(t) = {id}
  BY <1>1, Zenon DEF Announced
<1>4. Announced(t)' = {} /\ \A u \in Transports : u # t => Announced(u)' = Announced(u)
  BY <1>0, <1>1, <1>2, AnnouncedChange, Zenon
<1>5. PICK i \in Indices : peers[i].id = id /\ peers[i].transport = t
  BY <1>0, <1>3, Zenon DEF Announcing
<1>6. id # Invalid
  BY <1>0, <1>5, Zenon DEF Exact, Ids
<1> HIDE DEF id
<1>7. conns'[t] = conns[t] \cup {id} /\ \A u \in Multis : u # t => conns'[u] = conns[u]
  BY <1>0, <1>1, <1>6 DEF Types
<1>8. \A u \in Multis : u \in Transports
  BY Zenon DEF Transports
<1>9. Down'
  <2>1. call'[t] = NoCall /\ \A u \in Transports : u # t => call'[u] = call[u]
    BY <1>0, <1>1, <1>2, CallChange, Zenon
  <2>2. t \in up
    BY <1>0, <1>1, <1>2 DEF Down
  <2> QED
    BY <1>0, <1>1, <1>7, <2>1, <2>2, Zenon DEF Down
<1>10. AnnouncesAfter
  <2>1. \A u \in Transports : \A x \in Announced(u)' : x \in Announced(u)
    BY <1>4, Zenon
  <2>2. \A u \in Multis : \A x \in Announced(u)' : x \notin conns'[u]
    BY <1>0, <1>4, <1>7, <1>8, Zenon DEF Announcing
  <2> QED
    BY <1>0, <2>1, <2>2, Zenon DEF Announcing, AnnouncesAfter
<1>11. NobodyForgotten
  BY <1>3, <1>4, <1>7, <1>8, Zenon DEF NobodyForgotten
<1>12. ServesAfter(id, "Connected")
  BY <1>3, <1>7, Zenon DEF ServesAfter
<1> QED
  BY <1>0, <1>1, <1>2, <1>9, <1>10, <1>11, <1>12, StateNames, StateServed, Zenon

(* The end of a connection *)
LEMMA LostCore ==
    ASSUME Base, Core, NEW t \in Transports, connection_lost(t)
    PROVE  Core'
<1>0. Types /\ Reachable /\ Down /\ Announcing /\ Serving
  BY Zenon DEF Base, Core, Served
<1>1. t \in up /\ call[t] = NoCall /\ UNCHANGED <<up, peer_map, entries>>
  BY DEF connection_lost, ioOnly
<1>2. Announced(t) = {}
  BY <1>0, <1>1, AnnouncedNobody, Zenon
<1>3. \A u \in Multis : u \in Transports
  BY Zenon DEF Transports
<1>4. \E i \in Indices :
        /\ peers[i].transport = t /\ Lost(t, peers[i].id)
        /\ \A u \in Multis : u # t => conns'[u] = conns[u]
        /\ t \in Multis => conns'[t] = conns[t] \ {peers[i].id} /\ peers[i].id \in conns[t]
  <2>0. conns \in [Multis -> SUBSET PeerIds]
    BY <1>0, Zenon DEF Types
  <2>1. ASSUME t \in Multis, NEW id \in conns[t],
               conns' = [conns EXCEPT ![t] = @ \ {id}], Lost(t, id)
        PROVE  \E i \in Indices :
                 /\ peers[i].transport = t /\ Lost(t, peers[i].id)
                 /\ \A u \in Multis : u # t => conns'[u] = conns[u]
                 /\ t \in Multis => conns'[t] = conns[t] \ {peers[i].id} /\ peers[i].id \in conns[t]
    <3>1. PICK i \in Indices : peers[i].id = id /\ peers[i].transport = t
      BY <1>0, <2>1, Zenon DEF Serving
    <3>2. conns'[t] = conns[t] \ {id} /\ \A u \in Multis : u # t => conns'[u] = conns[u]
      BY <2>0, <2>1
    <3> QED
      BY <2>1, <3>1, <3>2, Zenon
  <2>2. ASSUME t \in Singles, NEW i \in FirstOn(t), Lost(t, peers[i].id), UNCHANGED conns
        PROVE  \E j \in Indices :
                 /\ peers[j].transport = t /\ Lost(t, peers[j].id)
                 /\ \A u \in Multis : u # t => conns'[u] = conns[u]
                 /\ t \in Multis => conns'[t] = conns[t] \ {peers[j].id} /\ peers[j].id \in conns[t]
    <3>1. i \in Indices /\ peers[i].transport = t
      BY <2>2, Zenon DEF FirstOn
    <3>2. t \notin Multis
      BY <2>2, TransportsAssumption, Zenon
    <3> QED
      BY <2>2, <3>1, <3>2, Zenon
  <2> QED
    BY <2>1, <2>2, Zenon DEF connection_lost
<1>5. PICK i \in Indices :
        /\ peers[i].transport = t /\ Lost(t, peers[i].id)
        /\ \A u \in Multis : u # t => conns'[u] = conns[u]
        /\ t \in Multis => conns'[t] = conns[t] \ {peers[i].id} /\ peers[i].id \in conns[t]
  BY <1>4, Zenon
<1> DEFINE id == peers[i].id
           c == [pc |-> "lost", peer |-> id]
<1>6. id \in PeerIds
  BY <1>0, PeerTypes, Zenon
<1>7. c \in Call /\ c.pc = "lost" /\ c.peer = id
  BY <1>0, <1>6, CallTypes
<1>8. call' = [call EXCEPT ![t] = c] /\ StateChanged(id, "Disconnected")
  BY <1>5, Zenon DEF Lost
<1> HIDE DEF c
<1>9. Announced(t)' = {id} /\ \A u \in Transports : u # t => Announced(u)' = Announced(u)
  BY <1>0, <1>7, <1>8, AnnouncedChange, Zenon
<1>10. Down'
  <2>1. \A u \in Transports : u # t => call'[u] = call[u]
    BY <1>0, <1>7, <1>8, CallChange, Zenon
  <2> QED
    BY <1>0, <1>1, <1>5, <2>1, Zenon DEF Down
<1>11. AnnouncesAfter
  <2>1. ASSUME NEW u \in Transports, NEW x \in Announced(u)'
        PROVE  \E j \in Indices : peers[j].id = x /\ peers[j].transport = u
    <3>1. CASE u = t
      BY <1>5, <1>9, <2>1, <3>1, Zenon
    <3>2. CASE u # t
      BY <1>0, <1>9, <2>1, <3>2, Zenon DEF Announcing
    <3> QED
      BY <3>1, <3>2, Zenon
  <2>2. ASSUME NEW u \in Multis, NEW x \in Announced(u)'
        PROVE  x \notin conns'[u]
    <3>1. CASE u = t
      BY <1>5, <1>9, <2>2, <3>1, Zenon
    <3>2. CASE u # t
      <4>1. x \in Announced(u) /\ conns'[u] = conns[u]
        BY <1>3, <1>5, <1>9, <2>2, <3>2, Zenon
      <4> QED
        BY <1>0, <4>1, Zenon DEF Announcing
    <3> QED
      BY <3>1, <3>2, Zenon
  <2> QED
    BY <2>1, <2>2, Zenon DEF AnnouncesAfter
<1>12. NobodyForgotten
  <2>1. ASSUME NEW u \in Multis
        PROVE  conns[u] \cup Announced(u) \subseteq conns'[u] \cup Announced(u)'
    <3>1. CASE u = t
      BY <1>2, <1>5, <1>9, <3>1, Zenon
    <3>2. CASE u # t
      BY <1>3, <1>5, <1>9, <3>2, Zenon
    <3> QED
      BY <3>1, <3>2, Zenon
  <2> QED
    BY <2>1, Zenon DEF NobodyForgotten
<1>13. ServesAfter(id, "Disconnected")
  <2>1. ASSUME NEW u \in Multis, NEW x \in conns'[u]
        PROVE  x \in conns[u] /\ x # id
    <3>1. CASE u = t
      BY <1>5, <2>1, <3>1, Zenon
    <3>2. CASE u # t
      <4>1. x \in conns[u] /\ peers[i].transport # u
        BY <1>5, <2>1, <3>2, Zenon
      <4>2. peers[i].id \notin conns[u]
        BY <4>1, ServedElsewhere, Zenon
      <4> QED
        BY <4>1, <4>2, Zenon
    <3> QED
      BY <3>1, <3>2, Zenon
  <2> QED
    BY <2>1, Zenon DEF ServesAfter
<1> HIDE DEF id
<1> QED
  BY <1>0, <1>1, <1>6, <1>8, <1>10, <1>11, <1>12, <1>13, StateNames, StateServed, Zenon

(* The peer a transport gives up has one context, on that transport. *)
LEMMA LostContext ==
    ASSUME Types, Core, NEW t \in Transports, call[t].pc = "lost"
    PROVE  /\ Announced(t) = {call[t].peer}
           /\ \E i \in FirstWithId(call[t].peer) :
                peers[i].transport = t /\ (t \in Multis => i \in Dynamic(call[t].peer))
<1>0. Distinct /\ Announcing /\ HaveEntries
  BY Zenon DEF Core, Served
<1>1. Announced(t) = {call[t].peer}
  BY Zenon DEF Announced
<1>2. PICK i \in Indices : peers[i].id = call[t].peer /\ peers[i].transport = t
  BY <1>0, <1>1, Zenon DEF Announcing
<1>3. i \in FirstWithId(call[t].peer)
  <2>1. \A j \in 1..(i - 1) : j \in Indices /\ j # i
    BY LenProperties DEF Indices, Types
  <2> QED
    BY <1>0, <1>2, <2>1, Zenon DEF FirstWithId, Distinct
<1>4. t \in Multis => HasEntry(t)
  BY <1>0, <1>2, Zenon DEF HaveEntries
<1>5. t \in Multis => i \in Dynamic(call[t].peer)
  BY <1>2, <1>3, <1>4, Zenon DEF Dynamic
<1> QED
  BY <1>1, <1>2, <1>3, <1>5, Zenon

(* handle_peer_disconnected() of a peer that the application added *)
LEMMA StaticLeftCore ==
    ASSUME Base, Core, NEW t \in Transports, call[t].pc = "lost", Dynamic(call[t].peer) = {},
           StateChanged(call[t].peer, "Disconnected"), call' = [call EXCEPT ![t] = NoCall],
           UNCHANGED <<up, peer_map, entries, conns>>
    PROVE  Core'
<1> DEFINE id == call[t].peer
<1>0. Types /\ Reachable /\ Down /\ Announcing
  BY Zenon DEF Base, Core, Served
<1>1. id \in PeerIds /\ NoCall \in Call /\ NoCall.pc \notin {"connected", "lost"}
  BY <1>0, CallTypes
<1>2. PICK i \in FirstWithId(id) : peers[i].transport = t /\ (t \in Multis => i \in Dynamic(id))
  BY <1>0, LostContext, Zenon
<1>3. i \in Indices /\ peers[i].id = id /\ t \notin Multis
  BY <1>2, Zenon DEF FirstWithId
<1>4. Announced(t)' = {} /\ \A u \in Transports : u # t => Announced(u)' = Announced(u)
  BY <1>0, <1>1, AnnouncedChange, Zenon
<1>5. \A u \in Multis : Announced(u)' = Announced(u) /\ u # t
  BY <1>3, <1>4, Zenon DEF Transports
<1>6. \A u \in Multis : id \notin conns[u]
  BY <1>2, <1>3, <1>5, ServedElsewhere, Zenon
<1>7. Down'
  <2>1. call'[t] = NoCall /\ \A u \in Transports : u # t => call'[u] = call[u]
    BY <1>0, <1>1, CallChange, Zenon
  <2> QED
    BY <1>0, <2>1, Zenon DEF Down
<1>8. AnnouncesAfter
  <2>1. \A u \in Transports : \A x \in Announced(u)' : x \in Announced(u)
    BY <1>4, Zenon
  <2>2. \A u \in Multis : \A x \in Announced(u)' : x \notin conns'[u]
    BY <1>0, <1>5, Zenon DEF Announcing
  <2> QED
    BY <1>0, <2>1, <2>2, Zenon DEF Announcing, AnnouncesAfter
<1>9. NobodyForgotten
  BY <1>5, Zenon DEF NobodyForgotten
<1>10. ServesAfter(id, "Disconnected")
  BY <1>6, Zenon DEF ServesAfter
<1> HIDE DEF id
<1> QED
  BY <1>0, <1>1, <1>7, <1>8, <1>9, <1>10, StateNames, StateServed, Zenon DEF id

(* handle_peer_disconnected() of a dynamic peer *)
LEMMA DynamicLeftCore ==
    ASSUME Base, Core, NEW t \in Transports, call[t].pc = "lost",
           NEW i \in Dynamic(call[t].peer), RemoveContext(i, call[t].peer),
           call' = [call EXCEPT ![t].pc = "removed"], UNCHANGED <<up, entries, conns>>
    PROVE  Core'
<1> DEFINE id == call[t].peer
<1>0. Types /\ Reachable /\ Exact /\ Distinct /\ Owners /\ Serving /\ Announcing /\ Down /\ HaveEntries
  BY Zenon DEF Base, Core, Served
<1>1. id \in PeerIds /\ call[t] \in Call /\ i \in Indices /\ peers[i].id = id
  BY <1>0, CallTypes, Zenon DEF Dynamic, FirstWithId
<1>2. peers[i].transport = t /\ Announced(t) = {id}
  <2>1. PICK j \in FirstWithId(id) : peers[j].transport = t
    BY <1>0, LostContext, Zenon
  <2>2. j \in Indices /\ peers[j].id = id
    BY <2>1, Zenon DEF FirstWithId
  <2>3. Announced(t) = {id}
    BY <1>0, LostContext, Zenon
  <2> QED
    BY <1>0, <1>1, <2>1, <2>2, <2>3, OneOwner, Zenon
<1>3. /\ \A k \in Indices' : \E j \in Indices : j # i /\ peers'[k] = peers[j]
      /\ \A j \in Indices : j # i => \E k \in Indices' : peers'[k] = peers[j]
      /\ Exact' /\ Distinct'
  BY <1>0, <1>1, RemoveCore, Zenon
<1>4. \A j \in Indices : j # i => peers[j].id # id
  BY <1>0, <1>1, Zenon DEF Distinct
<1>5. /\ Announced(t)' = {} /\ \A u \in Transports : u # t => Announced(u)' = Announced(u)
      /\ \A u \in Transports : u # t => call'[u] = call[u]
  <2> DEFINE c == [call[t] EXCEPT !.pc = "removed"]
  <2>1. c \in Call /\ c.pc \notin {"connected", "lost"}
    BY <1>1 DEF Call
  <2>2. call' = [call EXCEPT ![t] = c]
    BY Zenon
  <2> HIDE DEF c
  <2> QED
    BY <1>0, <2>1, <2>2, AnnouncedChange, CallChange, Zenon
<1>6. \A u \in Multis : u \in Transports
  BY Zenon DEF Transports
<1>7. Owners'
  <2>1. ASSUME NEW k \in Indices', NEW u \in Multis, peers'[k].transport = u
        PROVE  peers'[k].id \in conns'[u] \cup Announced(u)'
    <3>1. PICK j \in Indices : j # i /\ peers'[k] = peers[j]
      BY <1>3, Zenon
    <3>2. peers[j].id \in conns[u] \cup Announced(u) /\ peers[j].id # id
      BY <1>0, <1>4, <2>1, <3>1, Zenon DEF Owners
    <3>3. CASE u = t
      BY <1>2, <3>1, <3>2, <3>3, Zenon
    <3>4. CASE u # t
      BY <1>5, <1>6, <3>1, <3>2, <3>4, Zenon
    <3> QED
      BY <3>3, <3>4, Zenon
  <2> QED
    BY <2>1, Zenon DEF Owners
<1>8. Serving'
  <2>1. ASSUME NEW u \in Multis, NEW x \in conns'[u]
        PROVE  \E k \in Indices' :
                 peers'[k].id = x /\ peers'[k].transport = u /\ peers'[k].state = "Connected"
    <3>1. x \in conns[u]
      BY <2>1, Zenon
    <3>2. PICK j \in Indices :
            peers[j].id = x /\ peers[j].transport = u /\ peers[j].state = "Connected"
      BY <1>0, <3>1, Zenon DEF Serving
    <3>3. u = t => id \notin conns[u]
      BY <1>0, <1>2, Zenon DEF Announcing
    <3>4. j # i
      BY <1>1, <1>2, <3>1, <3>2, <3>3, Zenon
    <3>5. PICK k \in Indices' : peers'[k] = peers[j]
      BY <1>3, <3>4, Zenon
    <3> QED
      BY <3>2, <3>5, Zenon
  <2> QED
    BY <2>1, Zenon DEF Serving
<1>9. Announcing'
  <2>1. ASSUME NEW u \in Transports, NEW x \in Announced(u)'
        PROVE  \E k \in Indices' : peers'[k].id = x /\ peers'[k].transport = u
    <3>1. u # t /\ x \in Announced(u)
      BY <1>5, <2>1, Zenon
    <3>2. PICK j \in Indices : peers[j].id = x /\ peers[j].transport = u
      BY <1>0, <3>1, Zenon DEF Announcing
    <3>3. j # i
      BY <1>2, <3>1, <3>2, Zenon
    <3>4. PICK k \in Indices' : peers'[k] = peers[j]
      BY <1>3, <3>3, Zenon
    <3> QED
      BY <3>2, <3>4, Zenon
  <2>2. \A u \in Multis : \A x \in Announced(u)' : x \notin conns'[u]
    BY <1>0, <1>5, <1>6, Zenon DEF Announcing
  <2> QED
    BY <2>1, <2>2, Zenon DEF Announcing
<1>10. Down'
  <2>1. t \in up
    <3>1. call[t] # NoCall
      BY <1>0, CallTypes
    <3> QED
      BY <1>0, <3>1, Zenon DEF Down
  <2> QED
    BY <1>0, <1>5, <2>1, Zenon DEF Down
<1>11. HaveEntries'
  <2>1. \A u \in Multis : HasEntry(u) => HasEntry(u)'
    BY Zenon DEF HasEntry
  <2>2. \A k \in Indices', u \in Multis : peers'[k].transport = u => HasEntry(u)'
    BY <1>0, <1>3, <2>1, Zenon DEF HaveEntries
  <2> QED
    BY <2>2, Zenon DEF HaveEntries
<1> QED
  BY <1>3, <1>7, <1>8, <1>9, <1>10, <1>11, Zenon DEF Core, Served

(* handle_peer_disconnected() *)
LEMMA DisconnectedCore ==
    ASSUME Base, Core, NEW t \in Transports, handle_peer_disconnected(t)
    PROVE  Core'
<1>1. call[t].pc = "lost" /\ UNCHANGED <<up, entries, conns>>
  BY DEF handle_peer_disconnected, ioOnly
<1>2. \/ /\ \E i \in Dynamic(call[t].peer) : RemoveContext(i, call[t].peer)
         /\ call' = [call EXCEPT ![t].pc = "removed"]
      \/ /\ Dynamic(call[t].peer) = {}
         /\ StateChanged(call[t].peer, "Disconnected") /\ UNCHANGED peer_map
         /\ call' = [call EXCEPT ![t] = NoCall]
  BY Zenon DEF handle_peer_disconnected
<1> QED
  BY <1>1, <1>2, StaticLeftCore, DynamicLeftCore, Zenon

-----------------------------------------------------------------------------
(* The theorems. *)

(* Every step preserves the inductive invariant. *)
LEMMA Inductive ==
    ASSUME IInv, [Next]_vars
    PROVE  IInv'
<1>0. Base /\ Base' /\ Types
  BY BaseInductive, Zenon DEF IInv, Base
<1> SUFFICES ASSUME ~exhausted' PROVE Core'
  BY <1>0, Zenon DEF IInv
<1>1. CASE UNCHANGED vars
  <2>1. UNCHANGED <<up, peers, peer_map, entries, call, conns, exhausted>>
    BY <1>1 DEF vars, registry, allocation
  <2>2. Core
    BY <2>1, Zenon DEF IInv
  <2>3. \A u \in Transports : Announced(u)' = Announced(u)
    BY <2>1, Zenon DEF Announced
  <2>4. \A u \in Multis : HasEntry(u) => HasEntry(u)'
    BY <2>1, Zenon DEF HasEntry
  <2>5. Down'
    BY <2>1, <2>2, Zenon DEF Core, Served, Down
  <2> QED
    BY <2>1, <2>2, <2>3, <2>4, <2>5, KeptCore, Zenon
<1>2. CASE Next
  <2>1. ASSUME next_peer_id
        PROVE  Core
    BY <1>0, <2>1, NewIdFacts, Zenon DEF IInv
  <2>2. ASSUME UNCHANGED exhausted
        PROVE  Core
    BY <2>2, Zenon DEF IInv
  <2>3. ASSUME NEW name \in Names, NEW t \in Transports, add_peer(name, t)
        PROVE  Core'
    <3>1. next_peer_id
      BY <2>3, Zenon DEF add_peer
    <3> QED
      BY <1>0, <2>1, <2>3, <3>1, AddPeerCore, Zenon
  <2>4. ASSUME NEW name \in Names, NEW t \in Transports, add_peer_factory(name, t)
        PROVE  Core'
    <3>1. next_peer_id
      BY <2>4, Zenon DEF add_peer_factory
    <3> QED
      BY <1>0, <2>1, <2>4, <3>1, ControlCore, Zenon
  <2>5. ASSUME start \/ stop \/ \E id \in Installed : set_handler(id)
        PROVE  Core'
    <3>1. UNCHANGED exhausted
      BY <2>5 DEF start, stop, set_handler, registry, allocation
    <3> QED
      BY <1>0, <2>2, <2>5, <3>1, ControlCore, Zenon
  <2>6. ASSUME NEW t \in Transports, start_transport(t) \/ transport_stopped(t) \/ remove_peer(t)
        PROVE  Core'
    <3>1. UNCHANGED exhausted
      BY <2>6 DEF start_transport, transport_stopped, remove_peer, registry, allocation
    <3> QED
      BY <1>0, <2>2, <2>6, <3>1, ControlCore, Zenon
  <2>7. ASSUME NEW t \in Transports,
               handle_state_changed(t) \/ connection_lost(t) \/ handle_peer_disconnected(t)
        PROVE  Core'
    <3>1. UNCHANGED exhausted
      BY <2>7 DEF handle_state_changed, connection_lost, handle_peer_disconnected, allocation
    <3> QED
      BY <1>0, <2>2, <2>7, <3>1, StateReportedCore, LostCore, DisconnectedCore, Zenon
  <2>8. ASSUME NEW t \in Multis, handle_peer_connected(t)
        PROVE  Core'
    <3>1. next_peer_id
      BY <2>8, Zenon DEF handle_peer_connected
    <3> QED
      BY <1>0, <2>1, <2>8, <3>1, ConnectedCore, Zenon
  <2>9. ASSUME NEW t \in Multis, session_factory_fails(t)
        PROVE  Core'
    <3>1. next_peer_id
      BY <2>9, Zenon DEF session_factory_fails
    <3> QED
      BY <1>0, <2>1, <2>9, <3>1, ControlCore, Zenon
  <2>10. ASSUME NEW t \in Multis, peer_connected_returns(t)
         PROVE  Core'
    <3>1. UNCHANGED exhausted
      BY <2>10 DEF peer_connected_returns, allocation
    <3> QED
      BY <1>0, <2>2, <2>10, <3>1, ReturnsCore, Zenon
  <2> QED
    BY <1>2, <2>3, <2>4, <2>5, <2>6, <2>7, <2>8, <2>9, <2>10, Zenon DEF Next
<1> QED
  BY <1>1, <1>2, Zenon

(* It holds in every reachable state. *)
LEMMA Invariant == Spec => []IInv
<1>1. Init => IInv
  <2> SUFFICES ASSUME Init PROVE IInv
    OBVIOUS
  <2>1. Indices = {} /\ Ids = {} /\ DOMAIN peer_map = {}
    BY DEF Init, Indices, Ids
  <2>2. Types
    <3>1. NoCall \in Call
      BY IdAssumption DEF NoCall, Call, Invalid, PeerIds
    <3>2. next_id \in PeerIds /\ allocated \in 0..MaxIds
      BY IdAssumption, BoundAssumption DEF Init, PeerIds
    <3>3. peers \in Seq(Peer) /\ Len(peers) <= MaxPeers /\ entries \in Seq(Entry)
      BY BoundAssumption DEF Init
    <3>4. call \in [Transports -> Call] /\ conns \in [Multis -> SUBSET PeerIds]
      BY <3>1 DEF Init
    <3>5. /\ running \in BOOLEAN /\ up \subseteq Transports /\ exhausted \in BOOLEAN
          /\ handlers \subseteq PeerIds /\ strays \subseteq PeerIds
      BY Zenon DEF Init
    <3> QED
      BY <3>2, <3>3, <3>4, <3>5, Zenon DEF Types
  <2>3. Reachable /\ Exact /\ Distinct
    BY <2>1, Zenon DEF Reachable, Exact, Distinct
  <2>4. HandlersOwned
    BY Zenon DEF Init, HandlersOwned
  <2>5. \A t \in Transports : call[t] = NoCall /\ Announced(t) = {}
    <3>1. \A t \in Transports : call[t] = NoCall
      BY DEF Init
    <3> QED
      BY <2>2, <3>1, AnnouncedNobody, Zenon
  <2>6. \A t \in Multis : conns[t] = {}
    BY DEF Init
  <2>7. Owners /\ HaveEntries
    BY <2>1, Zenon DEF Owners, HaveEntries
  <2>8. Serving
    BY <2>6, Zenon DEF Serving
  <2>9. Announcing
    BY <2>5, Zenon DEF Announcing, Transports
  <2>10. Down
    BY <2>5, <2>6, Zenon DEF Down
  <2> QED
    BY <2>2, <2>3, <2>4, <2>7, <2>8, <2>9, <2>10, Zenon DEF IInv, Base, Core, Served
<1>2. IInv /\ [Next]_vars => IInv'
  BY Inductive
<1> QED
  BY <1>1, <1>2, PTL DEF Spec

(* The registry keeps its types, whatever the application and the transports *)
(* do: add_peer(), the callbacks of the transports, start() and stop().      *)
THEOREM TypeCorrect == Spec => []TypeOK
<1>1. IInv => TypeOK
  <2> SUFFICES ASSUME IInv PROVE TypeOK
    OBVIOUS
  <2>0. Types /\ Reachable
    BY Zenon DEF IInv, Base
  <2>1. \A i \in Indices : peers[i].id \in PeerIds /\ peers[i].transport \in Transports
                            /\ peers[i].state \in States
    <3>1. \A p \in Peer : p.state \in States
      BY DEF Peer
    <3> QED
      BY <2>0, <3>1, PeerTypes, Zenon
  <2>2. DOMAIN peer_map \subseteq PeerIds
    BY <2>0, <2>1, Zenon DEF Reachable
  <2>3. \A t \in Transports : call[t].peer \in PeerIds
    BY <2>0, CallTypes, Zenon
  <2>4. \A t \in Multis : conns[t] \subseteq PeerIds
    BY <2>0 DEF Types
  <2> QED
    BY <2>0, <2>1, <2>2, <2>3, <2>4, Zenon DEF Types, TypeOK
<1> QED
  BY <1>1, Invariant, PTL

(* peers_ and peer_map_ agree: every id in the map has a context, always; and *)
(* until next_peer_id() has run out of tries once, every context is found by  *)
(* its id, and no id is invalid.  There is no limit on the number of peers    *)
(* and none on the number of ids handed out: the counter may wrap around.     *)
THEOREM RegistryConsistent == Spec => []MapsAgree
<1>1. IInv => MapsAgree
  BY Zenon DEF IInv, Base, Core, Reachable, Exact, MapsAgree
<1> QED
  BY <1>1, Invariant, PTL

(* next_peer_id() runs out of its tries only when there are at least as many *)
(* peers as tries less one: the tries are different ids, at most one of them *)
(* is the invalid one, and every other one that fails belongs to a peer.     *)
THEOREM TriesSuffice == Spec => FallbackNeedsCrowd
<1>1. IInv /\ [Next]_vars => (exhausted' # exhausted => Len(peers) >= Attempts - 1)
  <2> SUFFICES ASSUME IInv, [Next]_vars, exhausted' # exhausted
               PROVE  Len(peers) >= Attempts - 1
    OBVIOUS
  <2>0. Types /\ Reachable
    BY Zenon DEF IInv, Base
  <2>1. next_peer_id
    <3>1. UNCHANGED allocation => FALSE
      BY DEF allocation
    <3>2. Next
      <4>1. UNCHANGED vars => UNCHANGED allocation
        BY DEF vars, registry
      <4> QED
        BY <3>1, <4>1, Zenon
    <3>3. ASSUME NEW name \in Names, NEW t \in Transports, add_peer(name, t) \/ add_peer_factory(name, t)
          PROVE  next_peer_id
      BY <3>3, Zenon DEF add_peer, add_peer_factory
    <3>4. ASSUME start \/ stop \/ \E id \in Installed : set_handler(id)
          PROVE  UNCHANGED allocation
      BY <3>4 DEF start, stop, set_handler, registry
    <3>5. ASSUME NEW t \in Transports, start_transport(t) \/ transport_stopped(t) \/ remove_peer(t)
          PROVE  UNCHANGED allocation
      BY <3>5 DEF start_transport, transport_stopped, remove_peer, registry
    <3>6. ASSUME NEW t \in Transports,
                 handle_state_changed(t) \/ connection_lost(t) \/ handle_peer_disconnected(t)
          PROVE  UNCHANGED allocation
      BY <3>6 DEF handle_state_changed, connection_lost, handle_peer_disconnected
    <3>7. ASSUME NEW t \in Multis, peer_connected_returns(t)
          PROVE  UNCHANGED allocation
      BY <3>7 DEF peer_connected_returns
    <3>8. ASSUME NEW t \in Multis, handle_peer_connected(t) \/ session_factory_fails(t)
          PROVE  next_peer_id
      BY <3>8, Zenon DEF handle_peer_connected, session_factory_fails
    <3> QED
      BY <3>1, <3>2, <3>3, <3>4, <3>5, <3>6, <3>7, <3>8, Zenon DEF Next
  <2>2. IdOffset = Attempts
    <3>1. exhausted \in BOOLEAN /\ exhausted' = (exhausted \/ IdOffset = Attempts)
      BY <2>0, <2>1, Zenon DEF next_peer_id, Types
    <3> QED
      BY <3>1, Zenon
  <2>3. Usable = {}
    BY <2>2, OffsetFacts, Zenon
  <2>4. ~(Len(peers) < Attempts - 1)
    BY <2>0, <2>3, SomeIdFree, Zenon DEF Usable
  <2>5. Len(peers) \in Nat /\ Attempts \in Nat
    BY <2>0, LenProperties, IdAssumption DEF Types
  <2> QED
    BY <2>4, <2>5
<1> QED
  BY <1>1, Invariant, PTL DEF Spec, FallbackNeedsCrowd

(* Until next_peer_id() has run out of tries once, each peer that a multi-   *)
(* peer transport serves is found by its id, on that transport and marked as *)
(* connected, so that handle_data_received() does not drop its data.         *)
THEOREM ServedAreKnown == Spec => []ServedPeersKnown
<1>1. IInv => ServedPeersKnown
  <2> SUFFICES ASSUME IInv, ~exhausted, NEW t \in Multis, NEW id \in conns[t]
               PROVE  /\ find_peer(id)
                      /\ peers[IndexOf(peer_map[id])].transport = t
                      /\ peers[IndexOf(peer_map[id])].state = "Connected"
    BY Zenon DEF ServedPeersKnown
  <2>0. Exact /\ Distinct /\ Serving
    BY Zenon DEF IInv, Core, Served
  <2>1. PICK i \in Indices :
          peers[i].id = id /\ peers[i].transport = t /\ peers[i].state = "Connected"
    BY <2>0, Zenon DEF Serving
  <2>2. id \in DOMAIN peer_map /\ peer_map[id] = peers[i].ptr
    BY <2>0, <2>1, Zenon DEF Exact, Ids
  <2> DEFINE k == IndexOf(peer_map[id])
  <2>3. k \in Indices /\ peers[k].ptr = peers[i].ptr
    BY <2>1, <2>2, Zenon DEF IndexOf
  <2>4. k = i
    BY <2>0, <2>1, <2>3, Zenon DEF Distinct
  <2> QED
    BY <2>1, <2>2, <2>4, Zenon DEF find_peer
<1> QED
  BY <1>1, Invariant, PTL

(* Handlers belong to a peer of the registry, to the peer that is being      *)
(* removed, or were installed for an id without a context: handle_peer_      *)
(* disconnected() and remove_peer() forget none of a peer's own handlers,    *)
(* with any number of peers.  Once every transport is stopped, and the tries *)
(* have never run out, only the peers the application added are left.        *)
THEOREM NothingLeftBehind == Spec => []NothingOutlivesPeers
<1>1. IInv => NothingOutlivesPeers
  <2> SUFFICES ASSUME IInv PROVE NothingOutlivesPeers
    OBVIOUS
  <2>1. HandlersOwned /\ Types
    BY Zenon DEF IInv, Base
  <2>2. ASSUME ~exhausted, up = {}, NEW i \in Indices
        PROVE  peers[i].transport \in Singles
    <3>1. Owners /\ Down
      BY <2>2, Zenon DEF IInv, Core, Served
    <3>2. peers[i].transport \in Singles \cup Multis
      BY <2>1, PeerTypes, Zenon DEF Transports
    <3>3. ASSUME NEW t \in Multis, peers[i].transport = t
          PROVE  FALSE
      <4>1. conns[t] = {} /\ call[t] = NoCall /\ t \in Transports
        BY <2>2, <3>1, Zenon DEF Down, Transports
      <4>2. Announced(t) = {}
        BY <2>1, <4>1, AnnouncedNobody, Zenon
      <4> QED
        BY <3>1, <3>3, <4>1, <4>2, Zenon DEF Owners
    <3> QED
      BY <3>2, <3>3, Zenon
  <2> QED
    BY <2>1, <2>2, Zenon DEF HandlersOwned, Removing, NothingOutlivesPeers
<1> QED
  BY <1>1, Invariant, PTL
=============================================================================
