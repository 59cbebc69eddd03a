----------------------------- MODULE Session_proofs -----------------------------
(***************************************************************************)
(* Proofs about Session, for any clients, any number of user signals, with *)
(* and without ports of their own, and any number of restarts and of       *)
(* signals in flight, whichever messages outlive their sender's run.       *)
(***************************************************************************)
EXTENDS Session, FiniteSetTheorems, TLAPS

-----------------------------------------------------------------------------
(* The inductive invariant.                                                *)

EntryType == [unique_id : Ids,
              peer_per_channel : {NoPeers} \cup [Hosts -> Peers]]

\* Types; the entries are a vector.
Typed ==
  /\ starts \in [Ids -> 0 .. MaxStarts]
  /\ up \subseteq Procs
  /\ userIdx \in [Procs -> Nat]
  /\ known \in [Procs -> SUBSET Nat]
  /\ peers \subseteq Peers
  /\ clients \in Seq(EntryType)

\* A process that runs is the latest of its client, and no peer is of one that
\* has yet to start.
Latest ==
  /\ \A p \in up : p[2] = starts[Id(p)]
  /\ \A peer \in peers : peer[1][2] <= starts[Id(peer[1])]

\* Only a running process has an index, and it is its client's.
Indexed ==
  \A p \in Procs : userIdx[p] # None =>
    /\ p \in up
    /\ userIdx[p] \in Users
    /\ clients[userIdx[p]].unique_id = Id(p)

\* The server answers a client on the control host, whatever ports it offered.
ControlPeers ==
  \A i \in Connected : clients[i].peer_per_channel[Control][2] = Control

\* What a message on the network says was true and stays so: an entry keeps its
\* id.  Every ConnectionInfo is of an initialized user, for those the server
\* tells a newcomer of are in its world.
Info(p, i, id) == ConnectionInfo(p, i, id, TRUE)

IsNew(m) == \E p \in Procs : m = NewConnection(p) /\ p[2] = starts[Id(p)]
IsOverride(m) ==
  \E p \in Procs, h \in Hosts \ {Control}, i \in Users :
    /\ m = PortOverride(p, h, i) /\ clients[i].unique_id = Id(p)
    /\ p[2] <= starts[Id(p)]
IsSignal(m) ==
  \E p \in Procs, s \in Signals, i \in Users :
    m = Signal(p, s, i) /\ clients[i].unique_id = Id(p)
IsInfo(m) ==
  \E p \in up, i \in Users, id \in Ids \cup {NoId} :
    /\ m = Info(p, i, id)
    /\ id # NoId => clients[i].unique_id = id
IsRelay(m) ==
  \E p \in up, h \in Hosts, s \in Signals, i \in Users :
    m = Relay(<<p, h>>, s, i) /\ clients[i].unique_id # Id(p)

MessageOK(m) == IsNew(m) \/ IsOverride(m) \/ IsSignal(m) \/ IsInfo(m) \/ IsRelay(m)
MessagesOK == \A m \in net : MessageOK(m)

\* A process whose NewConnection is on its way is not registered: it has no
\* index, no entry has a peer of it, and nothing is under way that would give
\* it one.
Unregistered(p) ==
  /\ userIdx[p] = None
  /\ \A i \in Connected : \A peer \in PeersOf(i) : peer[1] # p
  /\ \A h \in Hosts, i \in Users : PortOverride(p, h, i) \notin net
  /\ \A i \in Users : Info(p, i, Id(p)) \notin net

NewAreUnregistered == \A p \in Procs : NewConnection(p) \in net => Unregistered(p)

SessionInv ==
  /\ Typed /\ Latest /\ Indexed /\ ControlPeers
  /\ MessagesOK /\ NewAreUnregistered
  /\ OneEntryPerId /\ RecordsAgree /\ PeersAreTheClients /\ RosterReachesAll

-----------------------------------------------------------------------------
(* Hosts, entries and messages.                                            *)

LEMMA HostFacts ==
  /\ Control \in Hosts
  /\ \A s \in Signals : ClientChannel(s) \in Hosts
  /\ \A h : ChannelOf(h) \in Hosts /\ ChannelOf(h) # Control
  /\ NoPeers \notin [Hosts -> Peers]
<1>1. Control \in Hosts
  BY SessionAssumption DEF Control, Hosts
<1>2. \A s \in Signals : ClientChannel(s) \in Hosts
  BY SessionAssumption DEF Signals, ClientChannel, Hosts
<1>3. \A h : ChannelOf(h) \in Hosts /\ ChannelOf(h) # Control
  BY SessionAssumption DEF ChannelOf, Hosts, Control
<1>4. DOMAIN NoPeers = {}
  BY DEF NoPeers
<1>5. QED
  BY <1>1, <1>2, <1>3, <1>4

LEMMA EntryFacts ==
  ASSUME Typed
  PROVE  /\ Len(clients) \in Nat /\ Users = 1 .. Len(clients)
         /\ \A i \in Users : /\ clients[i] \in EntryType
                             /\ clients[i].unique_id \in Ids
         /\ \A i \in Connected : /\ i \in Users
                                 /\ clients[i].peer_per_channel \in [Hosts -> Peers]
                                 /\ PeersOf(i) \subseteq Peers
<1>1. Len(clients) \in Nat /\ Users = 1 .. Len(clients)
  BY DEF Typed, Users
<1>2. \A i \in Users : clients[i] \in EntryType
  BY <1>1 DEF Typed
<1>3. \A i \in Users : clients[i].unique_id \in Ids
  BY <1>2 DEF EntryType
<1>4. ASSUME NEW i \in Connected
      PROVE  clients[i].peer_per_channel \in [Hosts -> Peers]
  BY <1>2 DEF EntryType, Connected, IsConnected
<1>5. ASSUME NEW i \in Connected
      PROVE  PeersOf(i) \subseteq Peers
  BY <1>4 DEF PeersOf
<1>6. QED
  BY <1>1, <1>2, <1>3, <1>4, <1>5 DEF Connected

\* Who a message is from or to, and what it says.
LEMMA MessageTypes ==
  /\ \A p : NewConnection(p).type = "NewConnection" /\ FromClient(NewConnection(p))
  /\ \A p, h, i : /\ PortOverride(p, h, i).type = "PortOverride"
                  /\ FromClient(PortOverride(p, h, i))
  /\ \A p, s, i : Signal(p, s, i).type = "Signal" /\ FromClient(Signal(p, s, i))
  /\ \A p, i, id : /\ Info(p, i, id).type = "ConnectionInfo"
                   /\ ~FromClient(Info(p, i, id))
  /\ \A q, s, i : Relay(q, s, i).type = "Relay" /\ ~FromClient(Relay(q, s, i))
<1>1. \A p : NewConnection(p).type = "NewConnection" /\ FromClient(NewConnection(p))
  BY DEF NewConnection, FromClient
<1>2. \A p, h, i : /\ PortOverride(p, h, i).type = "PortOverride"
                   /\ FromClient(PortOverride(p, h, i))
  BY DEF PortOverride, FromClient
<1>3. \A p, s, i : Signal(p, s, i).type = "Signal" /\ FromClient(Signal(p, s, i))
  BY DEF Signal, FromClient
<1>4. \A p, i, id : /\ Info(p, i, id).type = "ConnectionInfo"
                    /\ ~FromClient(Info(p, i, id))
  BY DEF Info, ConnectionInfo, FromClient
<1>5. \A q, s, i : Relay(q, s, i).type = "Relay" /\ ~FromClient(Relay(q, s, i))
  BY DEF Relay, FromClient
<1>6. QED
  BY <1>1, <1>2, <1>3, <1>4, <1>5

LEMMA MessageFields ==
  /\ \A p : NewConnection(p).from = <<p, Control>>
  /\ \A p, h, i : /\ PortOverride(p, h, i).from = <<p, h>>
                  /\ PortOverride(p, h, i).user = i
  /\ \A p, s, i : /\ Signal(p, s, i).from = <<p, ClientChannel(s)>>
                  /\ Signal(p, s, i).user = i /\ Signal(p, s, i).sig = s
  /\ \A p, i, id : /\ Info(p, i, id).to = <<p, Control>>
                   /\ Info(p, i, id).user = i /\ Info(p, i, id).id = id
                   /\ Info(p, i, id).initialized = TRUE
  /\ \A q, s, i : Relay(q, s, i).to = q /\ Relay(q, s, i).user = i
<1>1. \A p : NewConnection(p).from = <<p, Control>>
  BY DEF NewConnection
<1>2. \A p, h, i : /\ PortOverride(p, h, i).from = <<p, h>>
                   /\ PortOverride(p, h, i).user = i
  BY DEF PortOverride
<1>3. \A p, s, i : /\ Signal(p, s, i).from = <<p, ClientChannel(s)>>
                   /\ Signal(p, s, i).user = i /\ Signal(p, s, i).sig = s
  BY DEF Signal
<1>4. \A p, i, id : /\ Info(p, i, id).to = <<p, Control>>
                    /\ Info(p, i, id).user = i /\ Info(p, i, id).id = id
                    /\ Info(p, i, id).initialized = TRUE
  BY DEF Info, ConnectionInfo
<1>5. \A q, s, i : Relay(q, s, i).to = q /\ Relay(q, s, i).user = i
  BY DEF Relay
<1>6. QED
  BY <1>1, <1>2, <1>3, <1>4, <1>5

\* A message, by its type.
LEMMA MessageCases ==
  ASSUME NEW m, MessageOK(m)
  PROVE  /\ m.type = "PortOverride" => IsOverride(m)
         /\ m.type = "Signal" => IsSignal(m)
         /\ m.type = "ConnectionInfo" => IsInfo(m)
         /\ m.type = "Relay" => IsRelay(m)
         /\ \A p : m = NewConnection(p) => p \in Procs /\ p[2] = starts[Id(p)]
         /\ FromClient(m) \/ m.to[1] \in up
<1>1. CASE IsNew(m)
  <2>1. PICK p \in Procs : m = NewConnection(p) /\ p[2] = starts[Id(p)]
    BY <1>1 DEF IsNew
  <2>2. \A q : m = NewConnection(q) => <<q, Control>> = <<p, Control>>
    BY <2>1, MessageFields
  <2>3. FromClient(m) /\ m.type = "NewConnection"
    BY <2>1, MessageTypes
  <2>4. QED
    BY <2>1, <2>2, <2>3
<1>2. CASE IsOverride(m)
  <2>1. FromClient(m) /\ m.type = "PortOverride"
    BY <1>2, MessageTypes DEF IsOverride
  <2>2. \A q : m # NewConnection(q)
    BY <2>1, MessageTypes
  <2>3. QED
    BY <1>2, <2>1, <2>2
<1>3. CASE IsSignal(m)
  <2>1. FromClient(m) /\ m.type = "Signal"
    BY <1>3, MessageTypes DEF IsSignal
  <2>2. \A q : m # NewConnection(q)
    BY <2>1, MessageTypes
  <2>3. QED
    BY <1>3, <2>1, <2>2
<1>4. CASE IsInfo(m)
  <2>1. PICK p \in up : \E i, id : m = Info(p, i, id)
    BY <1>4 DEF IsInfo
  <2>2. m.type = "ConnectionInfo" /\ m.to = <<p, Control>>
    <3>1. PICK i, id : m = Info(p, i, id)
      BY <2>1
    <3>2. QED
      BY <3>1, MessageTypes, MessageFields
  <2>3. \A q : m # NewConnection(q)
    BY <2>2, MessageTypes
  <2>4. QED
    BY <1>4, <2>1, <2>2, <2>3
<1>5. CASE IsRelay(m)
  <2>1. PICK p \in up : \E h, s, i : m = Relay(<<p, h>>, s, i)
    BY <1>5 DEF IsRelay
  <2>2. m.type = "Relay" /\ m.to[1] = p
    <3>1. PICK h, s, i : m = Relay(<<p, h>>, s, i)
      BY <2>1
    <3>2. QED
      BY <3>1, MessageTypes, MessageFields
  <2>3. \A q : m # NewConnection(q)
    BY <2>2, MessageTypes
  <2>4. QED
    BY <1>5, <2>1, <2>2, <2>3
<1>6. QED
  BY <1>1, <1>2, <1>3, <1>4, <1>5 DEF MessageOK

\* What a step has to keep for a message to stay true.
LEMMA MessageKept ==
  ASSUME NEW m, MessageOK(m),
         Users \subseteq Users',
         \A i \in Users : clients'[i].unique_id = clients[i].unique_id,
         FromClient(m) \/ m.to[1] \in up',
         \A p \in Procs : m = NewConnection(p) => starts'[Id(p)] = starts[Id(p)],
         \A p \in Procs : p[2] <= starts[Id(p)] => p[2] <= starts'[Id(p)]
  PROVE  MessageOK(m)'
<1>1. CASE IsNew(m)
  BY <1>1 DEF MessageOK, IsNew
<1>2. CASE IsOverride(m)
  BY <1>2 DEF MessageOK, IsOverride
<1>3. CASE IsSignal(m)
  BY <1>3 DEF MessageOK, IsSignal
<1>4. CASE IsInfo(m)
  <2>1. PICK p \in up, i \in Users, id \in Ids \cup {NoId} :
             m = Info(p, i, id) /\ (id # NoId => clients[i].unique_id = id)
    BY <1>4 DEF IsInfo
  <2>2. m.to = <<p, Control>> /\ ~FromClient(m)
    BY <2>1, MessageTypes, MessageFields
  <2>3. p \in up' /\ i \in Users' /\ clients'[i].unique_id = clients[i].unique_id
    BY <2>2
  <2>4. IsInfo(m)'
    BY <2>1, <2>3 DEF IsInfo
  <2>5. QED
    BY <2>4 DEF MessageOK
<1>5. CASE IsRelay(m)
  <2>1. PICK p \in up, h \in Hosts, s \in Signals, i \in Users :
             m = Relay(<<p, h>>, s, i) /\ clients[i].unique_id # Id(p)
    BY <1>5 DEF IsRelay
  <2>2. m.to = <<p, h>> /\ ~FromClient(m)
    BY <2>1, MessageTypes, MessageFields
  <2>3. p \in up' /\ i \in Users' /\ clients'[i].unique_id = clients[i].unique_id
    BY <2>2
  <2>4. IsRelay(m)'
    BY <2>1, <2>3 DEF IsRelay
  <2>5. QED
    BY <2>4 DEF MessageOK
<1>6. QED
  BY <1>1, <1>2, <1>3, <1>4, <1>5 DEF MessageOK

-----------------------------------------------------------------------------
(* Steps that change only what is on the network.                          *)

\* Signals and relays come and go, and port overrides go.
LEMMA NetOnly ==
  ASSUME SessionInv, UNCHANGED <<clientVars, serverVars>>,
         \A m \in net' \ net : MessageOK(m) /\ m.type \in {"Signal", "Relay"},
         \A m \in net \ net' : m.type # "ConnectionInfo"
  PROVE  SessionInv'
<1>1. /\ starts' = starts /\ up' = up /\ userIdx' = userIdx /\ known' = known
      /\ peers' = peers /\ clients' = clients /\ world' = world
      /\ subscribed' = subscribed
  BY DEF clientVars, serverVars
<1>2. Users' = Users /\ Connected' = Connected /\ \A i : PeersOf(i)' = PeersOf(i)
  BY <1>1 DEF Users, Connected, IsConnected, PeersOf
<1>3. /\ Typed' /\ Latest' /\ Indexed' /\ ControlPeers'
      /\ OneEntryPerId' /\ RecordsAgree' /\ PeersAreTheClients'
  BY <1>1, <1>2 DEF SessionInv, Typed, Latest, Indexed, ControlPeers,
    OneEntryPerId, RecordsAgree, PeersAreTheClients
<1>4. MessagesOK'
  <2>1. \A m : MessageOK(m)' = MessageOK(m)
    BY <1>1, <1>2 DEF MessageOK, IsNew, IsOverride, IsSignal, IsInfo, IsRelay
  <2>2. QED
    BY <2>1 DEF SessionInv, MessagesOK
<1>5. \A m \in net' : m \in net \/ m.type = "Signal" \/ m.type = "Relay"
  OBVIOUS
<1>6. /\ \A p : NewConnection(p) \in net' => NewConnection(p) \in net
      /\ \A p, h, i : PortOverride(p, h, i) \in net' => PortOverride(p, h, i) \in net
      /\ \A p, i, id : Info(p, i, id) \in net' => Info(p, i, id) \in net
  BY <1>5, MessageTypes, Zenon
<1>7. NewAreUnregistered'
  BY <1>1, <1>2, <1>6 DEF SessionInv, NewAreUnregistered, Unregistered
<1>8. RosterReachesAll'
  <2>1. \A m \in net : m.type = "ConnectionInfo" => m \in net'
    OBVIOUS
  <2>2. QED
    BY <1>1, <1>2, <2>1 DEF SessionInv, RosterReachesAll
<1>9. QED
  BY <1>3, <1>4, <1>7, <1>8 DEF SessionInv

LEMMA SendSignalStep ==
  ASSUME SessionInv, NEW p \in Procs, NEW s \in Signals, SendSignal(p, s)
  PROVE  SessionInv'
<1>1. /\ net' = net \cup {Signal(p, s, userIdx[p])} /\ userIdx[p] # None
      /\ UNCHANGED <<clientVars, serverVars>>
  BY DEF SendSignal
<1>2. MessageOK(Signal(p, s, userIdx[p]))
  BY <1>1 DEF SessionInv, Indexed, MessageOK, IsSignal
<1>3. Signal(p, s, userIdx[p]).type = "Signal"
  BY MessageTypes
<1>4. QED
  BY <1>1, <1>2, <1>3, NetOnly

LEMMA ReceiveRelayStep ==
  ASSUME SessionInv, NEW p \in Procs, NEW m \in net, ReceiveRelay(p, m)
  PROVE  SessionInv'
<1>1. net' = net \ {m} /\ m.type = "Relay" /\ UNCHANGED <<clientVars, serverVars>>
  BY DEF ReceiveRelay
<1>2. QED
  BY <1>1, NetOnly

LEMMA LoseStep ==
  ASSUME SessionInv, NEW m \in net, Lose(m)
  PROVE  SessionInv'
<1>1. /\ net' = net \ {m} /\ m.type \in {"Signal", "Relay"}
      /\ UNCHANGED <<clientVars, serverVars>>
  BY DEF Lose
<1>2. QED
  BY <1>1, NetOnly

\* The relays of a signal are for processes of other clients.
LEMMA HandleSignalStep ==
  ASSUME SessionInv, NEW m \in net, HandleSignal(m)
  PROVE  SessionInv'
<1> DEFINE to == {clients[j].peer_per_channel[ClientChannel(m.sig)] :
                    j \in Recipients(m.user)}
           relays == IF IsConnected(m.user)
                       THEN {Relay(peer, m.sig, m.user) : peer \in to \cap peers}
                       ELSE {}
<1>1. /\ net' = (net \ {m}) \cup Sent(relays) /\ m.type = "Signal"
      /\ UNCHANGED <<clientVars, serverVars>>
  BY DEF HandleSignal
<1>2. /\ Typed /\ MessagesOK /\ OneEntryPerId /\ PeersAreTheClients
  BY DEF SessionInv
<1>3. PICK p \in Procs, s \in Signals, i \in Users :
        m = Signal(p, s, i) /\ clients[i].unique_id = Id(p)
  BY <1>1, <1>2, MessageCases DEF MessagesOK, IsSignal
<1>4. m.user = i /\ m.sig = s
  BY <1>3, MessageFields
<1>5. ASSUME NEW r \in Sent(relays)
      PROVE  MessageOK(r) /\ r.type = "Relay"
  <2>1. r \in relays /\ (FromClient(r) \/ r.to[1] \in up)
    BY <1>5 DEF Sent
  <2>2. PICK j \in Recipients(i) :
          r = Relay(clients[j].peer_per_channel[ClientChannel(s)], s, i)
    BY <1>4, <2>1
  <2>3. j \in Connected /\ j # i
    BY <2>2 DEF Recipients
  <2>4. PICK q \in Procs, h \in Hosts :
          clients[j].peer_per_channel[ClientChannel(s)] = <<q, h>>
    BY <1>2, <2>3, EntryFacts, HostFacts DEF Peers
  <2>5. <<q, h>> \in PeersOf(j) /\ <<q, h>>[1] = q
    <3>1. DOMAIN clients[j].peer_per_channel = Hosts
      BY <1>2, <2>3, EntryFacts
    <3>2. QED
      BY <2>4, <3>1, HostFacts DEF PeersOf
  <2>6. Id(q) = clients[j].unique_id
    BY <1>2, <2>3, <2>5 DEF PeersAreTheClients
  <2>7. clients[i].unique_id # Id(q)
    BY <1>2, <2>3, <2>6, EntryFacts DEF OneEntryPerId
  <2>8. ~FromClient(r) /\ r.to = <<q, h>> /\ r.type = "Relay"
    BY <2>2, <2>4, MessageTypes, MessageFields
  <2>9. QED
    BY <2>1, <2>2, <2>4, <2>5, <2>7, <2>8 DEF MessageOK, IsRelay
<1> HIDE DEF relays, to
<1>6. QED
  BY <1>1, <1>5, NetOnly

-----------------------------------------------------------------------------
(* A client's process starts and ends.                                     *)

LEMMA RunsAreStarted ==
  ASSUME Typed, NEW id \in Ids, Cardinality(Started) < MaxStarts
  PROVE  starts[id] + 1 \in 1 .. MaxStarts
<1>1. starts[id] \in Nat /\ starts[id] <= MaxStarts /\ MaxStarts \in Nat
  BY SessionAssumption DEF Typed
<1>2. IsFiniteSet(1 .. MaxStarts) /\ IsFiniteSet(Ids)
  BY <1>1, SessionAssumption, FS_Interval
<1>3. IsFiniteSet(Procs)
  BY <1>2, FS_Product DEF Procs
<1>4. IsFiniteSet(Started)
  BY <1>3, FS_Subset DEF Started
<1>5. IsFiniteSet(1 .. starts[id]) /\ Cardinality(1 .. starts[id]) = starts[id]
  <2>1. PICK n \in Nat : n = starts[id]
    BY <1>1
  <2>2. IsFiniteSet(1 .. n) /\ Cardinality(1 .. n) = n
    BY FS_Interval
  <2>3. QED
    BY <2>1, <2>2
<1>6. IsFiniteSet({id}) /\ Cardinality({id}) = 1
  BY FS_Singleton
<1>7. Cardinality({id} \X (1 .. starts[id])) = starts[id]
  <2>1. PICK A, B : A = {id} /\ B = 1 .. starts[id]
    OBVIOUS
  <2>2. /\ IsFiniteSet(A) /\ Cardinality(A) = 1
        /\ IsFiniteSet(B) /\ Cardinality(B) = starts[id]
    BY <1>5, <1>6, <2>1, Zenon
  <2>3. Cardinality(A \X B) = 1 * starts[id]
    BY <2>2, FS_Product
  <2>4. QED
    BY <1>1, <2>1, <2>3
<1>8. {id} \X (1 .. starts[id]) \subseteq Started
  BY <1>1 DEF Started, Procs
<1>9. starts[id] <= Cardinality(Started) /\ Cardinality(Started) \in Nat
  BY <1>4, <1>7, <1>8, FS_Subset, FS_CardinalityType
<1>10. QED
  BY <1>1, <1>9

LEMMA ConnectStep ==
  ASSUME SessionInv, NEW id \in Ids, Connect(id)
  PROVE  SessionInv'
<1>1. /\ Typed /\ Latest /\ Indexed /\ ControlPeers
      /\ MessagesOK /\ NewAreUnregistered
      /\ OneEntryPerId /\ RecordsAgree /\ PeersAreTheClients /\ RosterReachesAll
  BY DEF SessionInv
<1>2. PICK p : p = <<id, starts[id] + 1>>
  OBVIOUS
<1>3. /\ \A q \in up : Id(q) # id
      /\ starts' = [starts EXCEPT ![id] = @ + 1]
      /\ up' = up \cup {p}
      /\ {p} \X Hosts \subseteq peers' /\ peers' \subseteq peers \cup ({p} \X Hosts)
      /\ \A i \in Users : \A peer \in peers \cap PeersOf(i) : peer \in peers'
      /\ NewConnection(p) \in net'
      /\ \A m \in net' : \/ m = NewConnection(p)
                         \/ /\ m \in net
                            /\ FromClient(m) => Id(m.from[1]) # id \/ m.type \in LateTypes
      /\ \A m \in net : ~FromClient(m) => m \in net'
      /\ userIdx' = userIdx /\ known' = known /\ clients' = clients
      /\ world' = world /\ subscribed' = subscribed
  BY <1>2 DEF Connect
<1>4. Users' = Users /\ Connected' = Connected /\ \A i : PeersOf(i)' = PeersOf(i)
  BY <1>3 DEF Users, Connected, IsConnected, PeersOf
<1>5. p \in Procs /\ p \notin up /\ Id(p) = id /\ p[2] = starts[id] + 1
  <2>1. starts[id] + 1 \in 1 .. MaxStarts
    BY <1>1, RunsAreStarted DEF Connect
  <2>2. QED
    BY <1>2, <1>3, <2>1 DEF Procs, Id
<1>6. /\ \A j \in Ids : starts'[j] = IF j = id THEN starts[id] + 1 ELSE starts[j]
      /\ \A j \in Ids : starts[j] \in Nat
      /\ p[2] = starts'[Id(p)]
  <2>1. \A j \in Ids : starts'[j] = IF j = id THEN starts[id] + 1 ELSE starts[j]
    BY <1>1, <1>3 DEF Typed
  <2>2. \A j \in Ids : starts[j] \in Nat
    BY <1>1 DEF Typed
  <2>3. QED
    BY <1>5, <2>1, <2>2
<1>7. Typed'
  <2>1. starts' \in [Ids -> 0 .. MaxStarts]
    BY <1>1, <1>2, <1>3, <1>5 DEF Typed, Procs
  <2>2. up' \subseteq Procs /\ peers' \subseteq Peers
    BY <1>1, <1>3, <1>5 DEF Typed, Peers
  <2>3. QED
    BY <1>1, <1>3, <2>1, <2>2 DEF Typed
<1>8. \A peer \in peers : /\ peer \in Peers /\ peer[1] \in Procs
                          /\ Id(peer[1]) \in Ids /\ peer[1][2] \in Nat
  BY <1>1 DEF Typed, Peers, Procs, Id
\* No entry has a peer of the new process, as none is connected yet.
<1>9. \A i \in Connected : \A peer \in PeersOf(i) : peer \in peers /\ peer[1] # p
  <2>1. ASSUME NEW peer \in peers
        PROVE  peer[1] # p
    <3>1. peer[1][2] <= starts[Id(peer[1])]
      BY <1>1 DEF Latest
    <3>2. QED
      BY <1>5, <1>6, <1>8, <3>1
  <2>2. QED
    BY <1>1, <2>1 DEF PeersAreTheClients
<1>10. Latest'
  <2>1. ASSUME NEW q \in up'
        PROVE  q[2] = starts'[Id(q)]
    <3>1. CASE q = p
      BY <1>6, <3>1
    <3>2. CASE q \in up
      <4>1. Id(q) \in Ids
        BY <1>1, <3>2 DEF Typed, Procs, Id
      <4>2. QED
        BY <1>1, <1>3, <1>6, <3>2, <4>1 DEF Latest
    <3>3. QED
      BY <1>3, <3>1, <3>2
  <2>2. ASSUME NEW peer \in peers'
        PROVE  peer[1][2] <= starts'[Id(peer[1])]
    <3>1. CASE peer[1] = p
      BY <1>5, <1>6, <3>1
    <3>2. CASE peer \in peers
      <4>1. peer[1][2] <= starts[Id(peer[1])]
        BY <1>1, <3>2 DEF Latest
      <4>2. starts[Id(peer[1])] <= starts'[Id(peer[1])]
        BY <1>6, <1>8, <3>2
      <4>3. QED
        BY <1>5, <1>6, <1>8, <3>2, <4>1, <4>2
    <3>3. QED
      BY <1>3, <3>1, <3>2
  <2>3. QED
    BY <2>1, <2>2 DEF Latest
<1>11. Indexed' /\ ControlPeers'
  BY <1>1, <1>3, <1>4 DEF Indexed, ControlPeers
<1>12. \A q \in Procs : q[2] <= starts[Id(q)] => q[2] <= starts'[Id(q)]
  <2>1. \A q \in Procs : Id(q) \in Ids /\ q[2] \in Nat
    BY DEF Procs, Id
  <2>2. \A j \in Ids : starts[j] <= starts'[j] /\ starts'[j] \in Nat
    BY <1>6
  <2>3. QED
    BY <1>6, <2>1, <2>2
<1>13. MessagesOK'
  <2>1. ASSUME NEW m \in net', m # NewConnection(p)
        PROVE  MessageOK(m)'
    <3>1. m \in net /\ (FromClient(m) => Id(m.from[1]) # id \/ m.type \in LateTypes)
      BY <1>3, <2>1
    <3>2. ASSUME NEW q \in Procs, m = NewConnection(q)
          PROVE  starts'[Id(q)] = starts[Id(q)]
      <4>1. m.type = "NewConnection" /\ FromClient(m) /\ m.from = <<q, Control>>
        BY <3>2, MessageTypes, MessageFields
      <4>2. Id(q) # id /\ Id(q) \in Ids
        BY <3>1, <4>1, SessionAssumption DEF Procs, Id
      <4>3. QED
        BY <1>6, <4>2
    <3>3. MessageOK(m) /\ (FromClient(m) \/ m.to[1] \in up')
      BY <1>1, <1>3, <3>1, MessageCases DEF MessagesOK
    <3>4. QED
      BY <1>3, <1>4, <1>12, <3>2, <3>3, MessageKept
  <2>2. MessageOK(NewConnection(p))'
    BY <1>5, <1>6 DEF MessageOK, IsNew
  <2>3. QED
    BY <2>1, <2>2 DEF MessagesOK
<1>14. /\ \A q : NewConnection(q) \in net' => q = p \/ NewConnection(q) \in net
       /\ \A q, h, i : PortOverride(q, h, i) \in net' =>
                         PortOverride(q, h, i) \in net /\ q # p
       /\ \A q, i, j : Info(q, i, j) \in net' <=> Info(q, i, j) \in net
  <2>1. ASSUME NEW q, NewConnection(q) \in net'
        PROVE  q = p \/ NewConnection(q) \in net
    <3>1. NewConnection(q) = NewConnection(p) => <<q, Control>> = <<p, Control>>
      BY MessageFields
    <3>2. QED
      BY <1>3, <2>1, <3>1
  <2>2. ASSUME NEW q, NEW h, NEW i, PortOverride(q, h, i) \in net'
        PROVE  PortOverride(q, h, i) \in net /\ q # p
    <3>1. PortOverride(q, h, i) # NewConnection(p)
      BY MessageTypes
    <3>2. PortOverride(q, h, i) \in net
      BY <1>3, <2>2, <3>1
    <3>3. IsOverride(PortOverride(q, h, i))
      BY <1>1, <3>2, MessageCases, MessageTypes DEF MessagesOK
    <3>4. PICK r \in Procs, g \in Hosts \ {Control}, j \in Users :
            PortOverride(q, h, i) = PortOverride(r, g, j) /\ r[2] <= starts[Id(r)]
      BY <3>3 DEF IsOverride
    <3>5. <<q, h>> = <<r, g>>
      BY <3>4, MessageFields
    <3>6. ~ (p[2] <= starts[Id(p)])
      BY <1>5, <1>6
    <3>7. QED
      BY <3>2, <3>4, <3>5, <3>6
  <2>3. ASSUME NEW q, NEW i, NEW j
        PROVE  Info(q, i, j) \in net' <=> Info(q, i, j) \in net
    <3>1. Info(q, i, j) # NewConnection(p) /\ ~FromClient(Info(q, i, j))
      BY MessageTypes
    <3>2. QED
      BY <1>3, <3>1
  <2>4. QED
    BY <2>1, <2>2, <2>3
<1>15. NewAreUnregistered'
  <2>1. Unregistered(p)'
    <3>1. userIdx[p] = None
      BY <1>1, <1>5 DEF Indexed
    <3>2. \A i : Info(p, i, Id(p)) \notin net
      <4>1. ASSUME NEW i, Info(p, i, Id(p)) \in net
            PROVE  FALSE
        <5>1. Info(p, i, Id(p)).to[1] = p /\ ~FromClient(Info(p, i, Id(p)))
          BY MessageTypes, MessageFields
        <5>2. QED
          BY <1>1, <1>5, <4>1, <5>1, MessageCases DEF MessagesOK
      <4>2. QED
        BY <4>1
    <3>3. QED
      BY <1>3, <1>4, <1>5, <1>9, <1>14, <3>1, <3>2 DEF Unregistered
  <2>2. ASSUME NEW q \in Procs, NewConnection(q) \in net
        PROVE  Unregistered(q)'
    BY <1>1, <1>3, <1>4, <1>14, <2>2 DEF NewAreUnregistered, Unregistered
  <2>3. QED
    BY <1>14, <2>1, <2>2 DEF NewAreUnregistered
<1>16. OneEntryPerId' /\ RecordsAgree'
  BY <1>1, <1>3, <1>4 DEF OneEntryPerId, RecordsAgree
<1>17. PeersAreTheClients'
  <2>1. ASSUME NEW i \in Connected, NEW peer \in PeersOf(i)
        PROVE  peer \in peers' /\ Id(peer[1]) = clients[i].unique_id
    BY <1>1, <1>3, <1>9, <2>1 DEF PeersAreTheClients, Connected
  <2>2. QED
    BY <1>3, <1>4, <2>1 DEF PeersAreTheClients
<1>18. RosterReachesAll'
  <2>1. ASSUME NEW i \in Connected
        PROVE  clients[i].peer_per_channel[Control][1] # p
    <3>1. clients[i].peer_per_channel[Control] \in PeersOf(i)
      BY <1>1, <2>1, EntryFacts, HostFacts DEF PeersOf
    <3>2. QED
      BY <1>9, <2>1, <3>1
  <2>2. \A m \in net : m.type = "ConnectionInfo" => m \in net'
    <3>1. ASSUME NEW m \in net, m.type = "ConnectionInfo"
          PROVE  ~FromClient(m)
      BY <1>1, <3>1, MessageCases, MessageTypes DEF MessagesOK, IsInfo
    <3>2. QED
      BY <1>3, <3>1
  <2>3. QED
    BY <1>1, <1>3, <1>4, <2>1, <2>2 DEF RosterReachesAll
<1>19. QED
  BY <1>7, <1>10, <1>11, <1>13, <1>15, <1>16, <1>17, <1>18 DEF SessionInv

LEMMA StopStep ==
  ASSUME SessionInv, NEW p \in Procs, Stop(p)
  PROVE  SessionInv'
<1>1. /\ Typed /\ Latest /\ Indexed /\ ControlPeers
      /\ MessagesOK /\ NewAreUnregistered
      /\ OneEntryPerId /\ RecordsAgree /\ PeersAreTheClients /\ RosterReachesAll
  BY DEF SessionInv
<1>2. /\ up' = up \ {p}
      /\ userIdx' = [userIdx EXCEPT ![p] = None]
      /\ known' = [known EXCEPT ![p] = {}]
      /\ net' = {m \in net : ~FromClient(m) => m.to[1] # p}
      /\ starts' = starts /\ peers' = peers /\ clients' = clients
      /\ world' = world /\ subscribed' = subscribed
  BY DEF Stop, serverVars
<1>3. Users' = Users /\ Connected' = Connected /\ \A i : PeersOf(i)' = PeersOf(i)
  BY <1>2 DEF Users, Connected, IsConnected, PeersOf
<1>4. /\ \A q \in Procs : userIdx'[q] = IF q = p THEN None ELSE userIdx[q]
      /\ \A q \in Procs \ {p} : known'[q] = known[q]
  BY <1>1, <1>2 DEF Typed
<1>5. Typed'
  <2>1. userIdx' \in [Procs -> Nat] /\ known' \in [Procs -> SUBSET Nat]
    BY <1>1, <1>2 DEF Typed, None
  <2>2. QED
    BY <1>1, <1>2, <2>1 DEF Typed
<1>6. Latest' /\ Indexed' /\ ControlPeers'
  BY <1>1, <1>2, <1>3, <1>4 DEF Latest, Indexed, ControlPeers
<1>7. MessagesOK'
  <2>1. ASSUME NEW m \in net'
        PROVE  MessageOK(m)'
    <3>1. MessageOK(m) /\ (FromClient(m) \/ m.to[1] \in up')
      BY <1>1, <1>2, MessageCases DEF MessagesOK
    <3>2. QED
      BY <1>2, <1>3, <3>1, MessageKept
  <2>2. QED
    BY <2>1 DEF MessagesOK
<1>8. NewAreUnregistered'
  BY <1>1, <1>2, <1>3, <1>4 DEF NewAreUnregistered, Unregistered
<1>9. OneEntryPerId' /\ RecordsAgree' /\ PeersAreTheClients'
  BY <1>1, <1>2, <1>3 DEF OneEntryPerId, RecordsAgree, PeersAreTheClients
<1>10. RosterReachesAll'
  <2> SUFFICES ASSUME NEW i \in Connected, NEW j \in Connected,
                      NEW q, q = clients[i].peer_per_channel[Control][1], q \in up'
               PROVE  \/ j \in known'[q]
                      \/ \E m \in net' : /\ m.type = "ConnectionInfo"
                                         /\ m.to[1] = q /\ m.user = j
                                         /\ m.initialized
    BY <1>2, <1>3 DEF RosterReachesAll
  <2>1. q \in Procs \ {p} /\ q \in up
    BY <1>1, <1>2 DEF Typed
  <2>2. CASE j \in known[q]
    BY <1>4, <2>1, <2>2
  <2>3. CASE j \notin known[q]
    <3>1. PICK m \in net : /\ m.type = "ConnectionInfo"
                           /\ m.to[1] = q /\ m.user = j /\ m.initialized
      BY <1>1, <2>1, <2>3 DEF RosterReachesAll
    <3>2. m \in net'
      BY <1>2, <2>1, <3>1
    <3>3. QED
      BY <3>1, <3>2
  <2>4. QED
    BY <2>2, <2>3
<1>11. QED
  BY <1>5, <1>6, <1>7, <1>8, <1>9, <1>10 DEF SessionInv

-----------------------------------------------------------------------------
(* A client learns of a user.                                              *)

LEMMA ReceiveConnectionInfoStep ==
  ASSUME SessionInv, NEW p \in Procs, NEW m \in net, ReceiveConnectionInfo(p, m)
  PROVE  SessionInv'
<1>1. /\ Typed /\ Latest /\ Indexed /\ ControlPeers
      /\ MessagesOK /\ NewAreUnregistered
      /\ OneEntryPerId /\ RecordsAgree /\ PeersAreTheClients /\ RosterReachesAll
  BY DEF SessionInv
<1>2. /\ p \in up /\ m.type = "ConnectionInfo" /\ m.to[1] = p
      /\ known' = [known EXCEPT ![p] = KnownAfter(p, m)]
      /\ starts' = starts /\ up' = up /\ peers' = peers /\ clients' = clients
      /\ world' = world /\ subscribed' = subscribed
      /\ \/ /\ m.id = Id(p)
            /\ userIdx' = [userIdx EXCEPT ![p] = m.user]
            /\ net' = (net \ {m}) \cup Overrides(p, m.user)
         \/ /\ m.id # Id(p)
            /\ userIdx' = userIdx /\ net' = net \ {m}
  BY DEF ReceiveConnectionInfo, serverVars
<1>3. PICK i \in Users, id \in Ids \cup {NoId} :
        m = Info(p, i, id) /\ (id # NoId => clients[i].unique_id = id)
  <2>1. PICK q \in up, i \in Users, id \in Ids \cup {NoId} :
          m = Info(q, i, id) /\ (id # NoId => clients[i].unique_id = id)
    BY <1>1, <1>2, MessageCases DEF MessagesOK, IsInfo
  <2>2. m.to[1] = q
    BY <2>1, MessageFields
  <2>3. QED
    BY <1>2, <2>1, <2>2
<1>4. m.user = i /\ m.id = id /\ m.initialized = TRUE /\ i \in Nat
  BY <1>1, <1>3, MessageFields, EntryFacts
<1>5. Users' = Users /\ Connected' = Connected /\ \A j : PeersOf(j)' = PeersOf(j)
  BY <1>2 DEF Users, Connected, IsConnected, PeersOf
<1>6. Id(p) \in Ids /\ Id(p) # NoId
  BY SessionAssumption DEF Procs, Id
<1>7. KnownAfter(p, m) = known[p] \cup {i}
  BY <1>4 DEF KnownAfter
<1>8. Typed'
  <2>1. known' \in [Procs -> SUBSET Nat] /\ userIdx' \in [Procs -> Nat]
    BY <1>1, <1>2, <1>4, <1>7 DEF Typed
  <2>2. QED
    BY <1>1, <1>2, <2>1 DEF Typed
<1>9. Latest' /\ ControlPeers'
  BY <1>1, <1>2, <1>5 DEF Latest, ControlPeers
<1>10. /\ \A q \in Procs \ {p} : userIdx'[q] = userIdx[q]
       /\ userIdx'[p] = (IF id = Id(p) THEN i ELSE userIdx[p])
  BY <1>1, <1>2, <1>4 DEF Typed
<1>11. Indexed'
  <2>1. ASSUME NEW q \in Procs, userIdx'[q] # None
        PROVE  q \in up /\ userIdx'[q] \in Users /\ clients[userIdx'[q]].unique_id = Id(q)
    <3>1. CASE q = p /\ id = Id(p)
      BY <1>2, <1>3, <1>6, <1>10, <3>1
    <3>2. CASE ~(q = p /\ id = Id(p))
      BY <1>1, <1>10, <2>1, <3>2 DEF Indexed
    <3>3. QED
      BY <3>1, <3>2
  <2>2. QED
    BY <1>2, <1>5, <2>1 DEF Indexed
<1>12. \A n \in net' :
         \/ n \in net
         \/ id = Id(p) /\ \E h \in Hosts \ {Control} : n = PortOverride(p, h, i)
  BY <1>2, <1>4 DEF Overrides
<1>13. MessagesOK'
  <2>1. ASSUME NEW n \in net'
        PROVE  MessageOK(n)
    <3>1. CASE n \in net
      BY <1>1, <3>1 DEF MessagesOK
    <3>2. CASE id = Id(p) /\ \E h \in Hosts \ {Control} : n = PortOverride(p, h, i)
      <4>1. p[2] <= starts[Id(p)]
        BY <1>1, <1>2 DEF Latest, Procs
      <4>2. QED
        BY <1>3, <1>6, <3>2, <4>1 DEF MessageOK, IsOverride
    <3>3. QED
      BY <1>12, <3>1, <3>2
  <2>2. \A n : MessageOK(n)' = MessageOK(n)
    BY <1>2, <1>5 DEF MessageOK, IsNew, IsOverride, IsSignal, IsInfo, IsRelay
  <2>3. QED
    BY <2>1, <2>2 DEF MessagesOK
\* The process of the message had asked, and its request was handled.
<1>14. NewAreUnregistered'
  <2>1. id = Id(p) => NewConnection(p) \notin net
    BY <1>1, <1>3 DEF NewAreUnregistered, Unregistered
  <2>2. ASSUME NEW q \in Procs, NewConnection(q) \in net'
        PROVE  NewConnection(q) \in net /\ (id = Id(p) => q # p)
    <3>1. \A h : NewConnection(q) # PortOverride(p, h, i)
      BY MessageTypes
    <3>2. QED
      BY <1>12, <2>1, <2>2, <3>1
  <2>3. ASSUME NEW q \in Procs, NewConnection(q) \in net'
        PROVE  Unregistered(q)'
    <3>1. Unregistered(q)
      BY <1>1, <2>2, <2>3 DEF NewAreUnregistered
    <3>2. userIdx'[q] = None
      BY <1>10, <2>2, <2>3, <3>1 DEF Unregistered
    <3>3. ASSUME NEW h \in Hosts, NEW j \in Users, PortOverride(q, h, j) \in net'
          PROVE  FALSE
      <4>1. \A g : PortOverride(q, h, j) = PortOverride(p, g, i) => <<q, h>> = <<p, g>>
        BY MessageFields
      <4>2. PortOverride(q, h, j) \in net
        BY <1>12, <2>2, <2>3, <3>3, <4>1
      <4>3. QED
        BY <3>1, <4>2 DEF Unregistered
    <3>4. ASSUME NEW j \in Users, Info(q, j, Id(q)) \in net'
          PROVE  FALSE
      <4>1. \A g : Info(q, j, Id(q)) # PortOverride(p, g, i)
        BY MessageTypes
      <4>2. Info(q, j, Id(q)) \in net
        BY <1>12, <3>4, <4>1
      <4>3. QED
        BY <3>1, <4>2 DEF Unregistered
    <3>5. QED
      BY <1>2, <1>5, <3>1, <3>2, <3>3, <3>4 DEF Unregistered
  <2>4. QED
    BY <2>3 DEF NewAreUnregistered
<1>15. OneEntryPerId' /\ RecordsAgree' /\ PeersAreTheClients'
  BY <1>1, <1>2, <1>5 DEF OneEntryPerId, RecordsAgree, PeersAreTheClients
<1>16. RosterReachesAll'
  <2> SUFFICES ASSUME NEW k \in Connected, NEW j \in Connected,
                      NEW q, q = clients[k].peer_per_channel[Control][1], q \in up
               PROVE  \/ j \in known'[q]
                      \/ \E n \in net' : /\ n.type = "ConnectionInfo"
                                         /\ n.to[1] = q /\ n.user = j
                                         /\ n.initialized
    BY <1>2, <1>5 DEF RosterReachesAll
  <2>1. q \in Procs
    BY <1>1 DEF Typed
  <2>2. known[q] \subseteq known'[q] /\ (q = p => i \in known'[q])
    BY <1>1, <1>2, <1>7, <2>1 DEF Typed
  <2>3. CASE j \in known[q]
    BY <2>2, <2>3
  <2>4. CASE j \notin known[q]
    <3>1. PICK n \in net : /\ n.type = "ConnectionInfo"
                           /\ n.to[1] = q /\ n.user = j /\ n.initialized
      BY <1>1, <2>4 DEF RosterReachesAll
    <3>2. CASE n = m
      BY <1>2, <1>4, <2>2, <3>1, <3>2
    <3>3. CASE n # m
      BY <1>2, <3>1, <3>3
    <3>4. QED
      BY <3>2, <3>3
  <2>5. QED
    BY <2>3, <2>4
<1>17. QED
  BY <1>8, <1>9, <1>11, <1>13, <1>14, <1>15, <1>16 DEF SessionInv

-----------------------------------------------------------------------------
(* The server takes a port for a channel.                                  *)

LEMMA HandlePortOverrideStep ==
  ASSUME SessionInv, NEW m \in net, HandlePortOverride(m)
  PROVE  SessionInv'
<1>1. /\ Typed /\ Latest /\ Indexed /\ ControlPeers
      /\ MessagesOK /\ NewAreUnregistered
      /\ OneEntryPerId /\ RecordsAgree /\ PeersAreTheClients /\ RosterReachesAll
  BY DEF SessionInv
<1>2. /\ m.type = "PortOverride" /\ m.from \in peers /\ net' = net \ {m}
      /\ starts' = starts /\ up' = up /\ userIdx' = userIdx /\ known' = known
      /\ peers' = peers /\ world' = world /\ subscribed' = subscribed
  BY DEF HandlePortOverride, clientVars
<1>3. PICK p \in Procs, h \in Hosts \ {Control}, i \in Users :
        m = PortOverride(p, h, i) /\ clients[i].unique_id = Id(p)
  BY <1>1, <1>2, MessageCases DEF MessagesOK, IsOverride
<1>4. PICK c : c = ChannelOf(h)
  OBVIOUS
<1>5. m.from = <<p, h>> /\ m.user = i /\ c \in Hosts /\ c # Control
  BY <1>3, <1>4, MessageFields, HostFacts
<1>6. clients' = IF i \in Connected
                 THEN [clients EXCEPT ![i].peer_per_channel[c] = <<p, h>>]
                 ELSE clients
  BY <1>3, <1>4, <1>5 DEF HandlePortOverride, Connected
<1>7. <<p, h>> \in Peers /\ <<p, h>> \in peers
  BY <1>1, <1>2, <1>5 DEF Typed
\* What becomes of the entries.
<1>8. /\ clients' \in Seq(EntryType) /\ Users' = Users
      /\ \A j \in Users : clients'[j].unique_id = clients[j].unique_id
      /\ \A j \in Users \ {i} : clients'[j] = clients[j]
      /\ i \in Connected => clients'[i].peer_per_channel =
                              [clients[i].peer_per_channel EXCEPT ![c] = <<p, h>>]
      /\ i \notin Connected => clients'[i] = clients[i]
  <2>1. CASE i \notin Connected
    <3>1. clients' = clients
      BY <1>6, <2>1
    <3>2. QED
      BY <1>1, <2>1, <3>1 DEF Typed, Users
  <2>2. CASE i \in Connected
    <3>1. PICK ports : ports = [clients[i].peer_per_channel EXCEPT ![c] = <<p, h>>]
      OBVIOUS
    <3>2. ports \in [Hosts -> Peers]
      BY <1>1, <1>7, <2>2, <3>1, EntryFacts
    <3>3. PICK e : e = [clients[i] EXCEPT !.peer_per_channel = ports]
      OBVIOUS
    <3>4. clients[i] \in EntryType
      BY <1>1, EntryFacts
    <3>5. /\ e \in EntryType /\ e.unique_id = clients[i].unique_id
          /\ e.peer_per_channel = ports
      BY <3>2, <3>3, <3>4 DEF EntryType
    <3>6. clients' = [clients EXCEPT ![i] = e]
      BY <1>6, <2>2, <3>1, <3>3
    <3>7. /\ DOMAIN clients' = DOMAIN clients
          /\ \A j \in Users : clients'[j] = IF j = i THEN e ELSE clients[j]
      BY <3>6 DEF Users
    <3>8. clients' \in Seq(EntryType)
      BY <1>1, <3>5, <3>6 DEF Typed, Users
    <3>9. QED
      BY <2>2, <3>1, <3>5, <3>7, <3>8 DEF Users
  <2>3. QED
    BY <2>1, <2>2
<1>9. /\ Connected' = Connected
      /\ \A j \in Connected : /\ PeersOf(j)' \subseteq PeersOf(j) \cup {<<p, h>>}
                              /\ j # i => PeersOf(j)' = PeersOf(j)
                              /\ clients'[j].peer_per_channel[Control]
                                   = clients[j].peer_per_channel[Control]
  <2>1. ASSUME NEW j \in Users \ {i}
        PROVE  /\ IsConnected(j)' = IsConnected(j) /\ PeersOf(j)' = PeersOf(j)
               /\ clients'[j].peer_per_channel = clients[j].peer_per_channel
    BY <1>8 DEF IsConnected, PeersOf
  <2>2. CASE i \notin Connected
    <3>1. clients'[i] = clients[i]
      BY <1>8, <2>2
    <3>2. IsConnected(i)' = IsConnected(i)
      BY <3>1 DEF IsConnected
    <3>3. QED
      BY <1>8, <2>1, <2>2, <3>2 DEF Connected
  <2>3. CASE i \in Connected
    <3>1. PICK ports : ports = clients[i].peer_per_channel
      OBVIOUS
    <3>2. ports \in [Hosts -> Peers]
      BY <1>1, <2>3, <3>1, EntryFacts
    <3>3. clients'[i].peer_per_channel = [ports EXCEPT ![c] = <<p, h>>]
      BY <1>8, <2>3, <3>1
    <3>4. /\ DOMAIN [ports EXCEPT ![c] = <<p, h>>] = Hosts
          /\ \A g \in Hosts : [ports EXCEPT ![c] = <<p, h>>][g]
                                = IF g = c THEN <<p, h>> ELSE ports[g]
      BY <3>2
    <3>5. IsConnected(i)'
      BY <1>5, <3>3, <3>4 DEF IsConnected, NoPeers
    <3>6. PeersOf(i)' \subseteq PeersOf(i) \cup {<<p, h>>}
      BY <3>1, <3>2, <3>3, <3>4 DEF PeersOf
    <3>7. clients'[i].peer_per_channel[Control] = clients[i].peer_per_channel[Control]
      BY <1>5, <3>1, <3>3, <3>4, HostFacts
    <3>8. QED
      BY <1>8, <2>1, <2>3, <3>5, <3>6, <3>7 DEF Connected
  <2>4. QED
    BY <2>2, <2>3
<1>10. Typed' /\ Latest'
  BY <1>1, <1>2, <1>8 DEF Typed, Latest
<1>11. Indexed' /\ ControlPeers' /\ OneEntryPerId' /\ RecordsAgree'
  BY <1>1, <1>2, <1>8, <1>9
  DEF Indexed, ControlPeers, OneEntryPerId, RecordsAgree, Connected
<1>12. MessagesOK'
  <2>1. ASSUME NEW n \in net'
        PROVE  MessageOK(n)'
    <3>1. n \in net /\ MessageOK(n)
      BY <1>1, <1>2 DEF MessagesOK
    <3>2. FromClient(n) \/ n.to[1] \in up'
      BY <1>2, <3>1, MessageCases
    <3>3. QED
      BY <1>2, <1>8, <3>1, <3>2, MessageKept
  <2>2. QED
    BY <2>1 DEF MessagesOK
<1>13. NewAreUnregistered'
  <2>1. ASSUME NEW q \in Procs, NewConnection(q) \in net'
        PROVE  Unregistered(q)'
    <3>1. Unregistered(q)
      BY <1>1, <1>2, <2>1 DEF NewAreUnregistered
    <3>2. q # p
      BY <1>3, <3>1 DEF Unregistered
    <3>3. \A j \in Connected' : \A peer \in PeersOf(j)' : peer[1] # q
      BY <1>9, <3>1, <3>2 DEF Unregistered
    <3>4. QED
      BY <1>2, <1>8, <3>1, <3>3 DEF Unregistered
  <2>2. QED
    BY <2>1 DEF NewAreUnregistered
<1>14. PeersAreTheClients'
  <2>1. ASSUME NEW j \in Connected, NEW peer \in PeersOf(j)'
        PROVE  peer \in peers /\ Id(peer[1]) = clients[j].unique_id
    <3>1. CASE peer \in PeersOf(j)
      BY <1>1, <3>1 DEF PeersAreTheClients
    <3>2. CASE peer \notin PeersOf(j)
      BY <1>3, <1>7, <1>9, <2>1, <3>2
    <3>3. QED
      BY <3>1, <3>2
  <2>2. QED
    BY <1>2, <1>8, <1>9, <2>1 DEF PeersAreTheClients, Connected
<1>15. RosterReachesAll'
  <2>1. \A n \in net : n.type = "ConnectionInfo" => n \in net'
    BY <1>2
  <2>2. QED
    BY <1>1, <1>2, <1>9, <2>1 DEF RosterReachesAll
<1>16. QED
  BY <1>10, <1>11, <1>12, <1>13, <1>14, <1>15 DEF SessionInv

-----------------------------------------------------------------------------
(* The server disconnects clients.                                         *)

\* What disconnect() leaves of the entries.
LEMMA EmptiedFacts ==
  ASSUME Typed, NEW S, clients' = Emptied(S)
  PROVE  /\ clients' \in Seq(EntryType) /\ Users' = Users
         /\ \A i \in Users : clients'[i].unique_id = clients[i].unique_id
         /\ \A i \in Users \ S : clients'[i] = clients[i]
         /\ Connected' = Connected \ S
         /\ \A i \in Connected \ S : PeersOf(i)' = PeersOf(i)
<1>1. Len(clients) \in Nat /\ Users = 1 .. Len(clients)
      /\ \A i \in Users : clients[i] \in EntryType
  BY EntryFacts
<1>2. clients' = [i \in Users |-> IF i \in S
                     THEN [clients[i] EXCEPT !.peer_per_channel = NoPeers]
                     ELSE clients[i]]
  BY DEF Emptied
<1>3. /\ DOMAIN clients' = Users
      /\ \A i \in Users : clients'[i] = IF i \in S
                     THEN [clients[i] EXCEPT !.peer_per_channel = NoPeers]
                     ELSE clients[i]
  BY <1>2
<1>4. ASSUME NEW i \in Users
      PROVE  /\ [clients[i] EXCEPT !.peer_per_channel = NoPeers] \in EntryType
             /\ [clients[i] EXCEPT !.peer_per_channel = NoPeers].unique_id
                  = clients[i].unique_id
             /\ [clients[i] EXCEPT !.peer_per_channel = NoPeers].peer_per_channel
                  = NoPeers
  BY <1>1 DEF EntryType
<1>5. \A i \in Users : clients'[i] \in EntryType
  BY <1>1, <1>3, <1>4
<1>6. clients' \in Seq(EntryType)
  BY <1>1, <1>2, <1>3, <1>5
<1>7. \A i \in Users : /\ clients'[i].unique_id = clients[i].unique_id
                       /\ i \in S => clients'[i].peer_per_channel = NoPeers
                       /\ i \notin S => clients'[i] = clients[i]
  BY <1>3, <1>4
<1>8. Connected' = Connected \ S
  BY <1>3, <1>7 DEF Connected, IsConnected, Users
<1>9. \A i \in Connected \ S : PeersOf(i)' = PeersOf(i)
  BY <1>7 DEF Connected, PeersOf
<1>10. QED
  BY <1>3, <1>6, <1>7, <1>8, <1>9 DEF Users

LEMMA DisconnectStep ==
  ASSUME SessionInv, NEW S, S \subseteq Connected, NEW gone, NEW reset,
         reset = gone \cup UNION {PeersOf(i) : i \in S},
         \A i \in Connected \ S : PeersOf(i) \cap gone = {},
         clients' = Emptied(S), peers' = peers \ reset, world' = world \ S,
         subscribed' = subscribed \ S, net' = Cut(net, reset),
         UNCHANGED clientVars
  PROVE  SessionInv'
<1>1. /\ Typed /\ Latest /\ Indexed /\ ControlPeers
      /\ MessagesOK /\ NewAreUnregistered
      /\ OneEntryPerId /\ RecordsAgree /\ PeersAreTheClients /\ RosterReachesAll
  BY DEF SessionInv
<1>2. starts' = starts /\ up' = up /\ userIdx' = userIdx /\ known' = known
  BY DEF clientVars
<1>3. /\ clients' \in Seq(EntryType) /\ Users' = Users
      /\ \A i \in Users : clients'[i].unique_id = clients[i].unique_id
      /\ \A i \in Users \ S : clients'[i] = clients[i]
      /\ Connected' = Connected \ S
      /\ \A i \in Connected \ S : PeersOf(i)' = PeersOf(i)
  BY <1>1, EmptiedFacts
<1>4. /\ net' \subseteq net
      /\ \A m \in net \ net' : FromClient(m)
  BY DEF Cut
<1>5. Typed' /\ Latest'
  BY <1>1, <1>2, <1>3 DEF Typed, Latest
<1>6. Indexed' /\ ControlPeers' /\ OneEntryPerId' /\ RecordsAgree'
  BY <1>1, <1>2, <1>3
  DEF Indexed, ControlPeers, OneEntryPerId, RecordsAgree, Connected
<1>7. MessagesOK'
  <2>1. ASSUME NEW m \in net'
        PROVE  MessageOK(m)'
    <3>1. MessageOK(m) /\ (FromClient(m) \/ m.to[1] \in up')
      BY <1>1, <1>2, <1>4, MessageCases DEF MessagesOK
    <3>2. QED
      BY <1>2, <1>3, <3>1, MessageKept
  <2>2. QED
    BY <2>1 DEF MessagesOK
<1>8. NewAreUnregistered'
  BY <1>1, <1>2, <1>3, <1>4 DEF NewAreUnregistered, Unregistered
\* The peers of another client are of another process.
<1>9. PeersAreTheClients'
  <2>1. ASSUME NEW i \in Connected \ S, NEW peer \in PeersOf(i)
        PROVE  peer \in peers' /\ Id(peer[1]) = clients'[i].unique_id
    <3>1. i \in Users /\ peer \in peers /\ Id(peer[1]) = clients[i].unique_id
      BY <1>1, <2>1 DEF PeersAreTheClients, Connected
    <3>2. \A j \in S : peer \notin PeersOf(j)
      BY <1>1, <2>1, <3>1 DEF PeersAreTheClients, OneEntryPerId, Connected
    <3>3. QED
      BY <1>3, <2>1, <3>1, <3>2
  <2>2. QED
    BY <1>3, <2>1 DEF PeersAreTheClients
<1>10. RosterReachesAll'
  <2>1. \A m \in net : m.type = "ConnectionInfo" => m \in net'
    <3>1. ASSUME NEW m \in net, m.type = "ConnectionInfo"
          PROVE  ~FromClient(m)
      BY <1>1, <3>1, MessageCases, MessageTypes DEF MessagesOK, IsInfo
    <3>2. QED
      BY <1>4, <3>1
  <2>2. \A i \in Connected' : i \in Connected /\ clients'[i] = clients[i]
    BY <1>3 DEF Connected
  <2>3. ASSUME NEW i \in Connected, NEW j \in Connected,
               NEW p \in up, p = clients[i].peer_per_channel[Control][1]
        PROVE  \/ j \in known[p]
               \/ \E m \in net' : /\ m.type = "ConnectionInfo"
                                  /\ m.to[1] = p /\ m.user = j /\ m.initialized
    BY <1>1, <2>1, <2>3 DEF RosterReachesAll
  <2>4. QED
    BY <1>2, <2>2, <2>3 DEF RosterReachesAll
<1>11. QED
  BY <1>5, <1>6, <1>7, <1>8, <1>9, <1>10 DEF SessionInv

LEMMA PeerLostStep ==
  ASSUME SessionInv, NEW peer \in peers, PeerLost(peer)
  PROVE  SessionInv'
<1>1. PICK S : S = Holders(peer)
  OBVIOUS
<1>2. PICK reset : reset = {peer} \cup UNION {PeersOf(i) : i \in S}
  OBVIOUS
<1>3. /\ clients' = Emptied(S) /\ peers' = peers \ reset /\ world' = world \ S
      /\ subscribed' = subscribed \ S /\ net' = Cut(net, reset)
      /\ UNCHANGED clientVars
  BY <1>1, <1>2 DEF PeerLost, DisconnectAll, Unsubscribed
<1>4. /\ S \subseteq Connected
      /\ \A i \in Connected \ S : PeersOf(i) \cap {peer} = {}
  BY <1>1 DEF Holders
<1>5. QED
  BY <1>2, <1>3, <1>4, DisconnectStep

LEMMA TimeOutStep ==
  ASSUME SessionInv, NEW i \in Users, TimeOut(i)
  PROVE  SessionInv'
<1>1. PICK reset : reset = {} \cup UNION {PeersOf(j) : j \in {i}}
  OBVIOUS
<1>2. /\ clients' = Emptied({i}) /\ peers' = peers \ reset /\ world' = world \ {i}
      /\ subscribed' = subscribed \ {i} /\ net' = Cut(net, reset)
      /\ UNCHANGED clientVars /\ {i} \subseteq Connected
  BY <1>1 DEF TimeOut, DisconnectAll, Unsubscribed
<1>3. \A j \in Connected \ {i} : PeersOf(j) \cap {} = {}
  OBVIOUS
<1>4. QED
  BY <1>1, <1>2, <1>3, DisconnectStep

-----------------------------------------------------------------------------
(* The server registers a process.                                         *)

LEMMA HandleNewConnectionStep ==
  ASSUME SessionInv, NEW p \in Procs, HandleNewConnection(p)
  PROVE  SessionInv'
<1>1. /\ Typed /\ Latest /\ Indexed /\ ControlPeers
      /\ MessagesOK /\ NewAreUnregistered
      /\ OneEntryPerId /\ RecordsAgree /\ PeersAreTheClients /\ RosterReachesAll
  BY DEF SessionInv
<1>2. PICK u : u = IF Entry(Id(p)) = {} THEN NewIndex
                   ELSE CHOOSE i \in Entry(Id(p)) : \A j \in Entry(Id(p)) : i <= j
  OBVIOUS
<1>3. PICK old : old = {u} \cap Connected
  OBVIOUS
<1>4. PICK reset : reset = UNION {PeersOf(i) : i \in old}
  OBVIOUS
<1>5. PICK entry : entry = [unique_id |-> Id(p),
                            peer_per_channel |-> [h \in Hosts |-> <<p, Control>>]]
  OBVIOUS
<1>6. PICK infos : infos =
        {ConnectionInfo(q, u, Id(p), TRUE) : q \in BroadcastTo(peers \ reset)}
          \cup {OtherInfo(p, i) : i \in Others(u)}
  OBVIOUS
<1>7. /\ NewConnection(p) \in net /\ <<p, Control>> \in peers
      /\ clients' = [i \in Users \cup {u} |-> IF i = u THEN entry ELSE clients[i]]
      /\ peers' = peers \ reset
      /\ subscribed' = (subscribed \ old) \cup {u}
      /\ world' = world \cup {u}
      /\ net' = Cut(net \ {NewConnection(p)}, reset) \cup Sent(infos)
      /\ starts' = starts /\ up' = up /\ userIdx' = userIdx /\ known' = known
  BY <1>2, <1>3, <1>4, <1>5, <1>6 DEF HandleNewConnection, Unsubscribed, clientVars
<1>8. Id(p) \in Ids /\ Id(p) # NoId
  BY SessionAssumption DEF Procs, Id
<1>9. /\ Len(clients) \in Nat /\ Users = 1 .. Len(clients)
      /\ \A i \in Users : clients[i] \in EntryType /\ clients[i].unique_id \in Ids
  BY <1>1, EntryFacts
\* The entry found is the only one; the new one comes after the last.
<1>10. \/ u \in Users /\ clients[u].unique_id = Id(p)
       \/ u = Len(clients) + 1 /\ \A i \in Users : clients[i].unique_id # Id(p)
  <2>1. CASE Entry(Id(p)) = {}
    BY <1>2, <2>1 DEF Entry, NewIndex
  <2>2. CASE Entry(Id(p)) # {}
    <3>1. PICK i \in Entry(Id(p)) : TRUE
      BY <2>2
    <3>2. \A j \in Entry(Id(p)) : j = i /\ i <= j
      BY <1>1, <1>9, <3>1 DEF Entry, OneEntryPerId
    <3>3. u \in Entry(Id(p))
      BY <1>2, <2>2, <3>1, <3>2
    <3>4. QED
      BY <3>3 DEF Entry
  <2>3. QED
    BY <2>1, <2>2
<1>11. /\ entry \in EntryType /\ entry.unique_id = Id(p)
       /\ entry.peer_per_channel = [h \in Hosts |-> <<p, Control>>]
       /\ entry.peer_per_channel # NoPeers
  <2>1. [h \in Hosts |-> <<p, Control>>] \in [Hosts -> Peers]
    BY HostFacts DEF Peers
  <2>2. QED
    BY <1>5, <1>8, <2>1, HostFacts DEF EntryType
<1>12. /\ clients' \in Seq(EntryType) /\ Users' = Users \cup {u}
       /\ clients'[u] = entry
       /\ \A i \in Users \ {u} : clients'[i] = clients[i]
       /\ \A i \in Users : clients'[i].unique_id = clients[i].unique_id
  <2>1. /\ DOMAIN clients' = Users \cup {u} /\ clients'[u] = entry
        /\ \A i \in Users \ {u} : clients'[i] = clients[i]
    BY <1>7
  <2>2. ASSUME NEW i \in Users
        PROVE  clients'[i].unique_id = clients[i].unique_id
    <3>1. CASE i = u
      <4>1. clients[u].unique_id = Id(p)
        BY <1>9, <1>10, <2>2, <3>1
      <4>2. clients'[u].unique_id = Id(p)
        BY <1>11, <2>1
      <4>3. QED
        BY <3>1, <4>1, <4>2
    <3>2. CASE i # u
      BY <2>1, <2>2, <3>2
    <3>3. QED
      BY <3>1, <3>2
  <2>3. PICK n \in Nat : Users \cup {u} = 1 .. n
    BY <1>9, <1>10
  <2>4. \A i \in 1 .. n : clients'[i] \in EntryType
    BY <1>9, <1>11, <2>1, <2>3
  <2>5. clients' = [i \in 1 .. n |-> clients'[i]]
    BY <1>7, <2>3
  <2>6. clients' \in Seq(EntryType)
    BY <2>4, <2>5
  <2>7. QED
    BY <2>1, <2>2, <2>6 DEF Users
<1>13. /\ Connected' = Connected \cup {u}
       /\ \A i \in Connected \ {u} : PeersOf(i)' = PeersOf(i)
       /\ PeersOf(u)' = {<<p, Control>>}
  <2>1. IsConnected(u)'
    BY <1>11, <1>12 DEF IsConnected
  <2>2. \A i \in Users \ {u} : IsConnected(i)' = IsConnected(i) /\ PeersOf(i)' = PeersOf(i)
    BY <1>12 DEF IsConnected, PeersOf
  <2>3. PeersOf(u)' = {<<p, Control>>}
    BY <1>11, <1>12, HostFacts DEF PeersOf
  <2>4. QED
    BY <1>12, <2>1, <2>2, <2>3 DEF Connected
\* The peers reset are of an earlier run of this client.
<1>14. \A peer \in reset : u \in Connected /\ peer \in PeersOf(u)
  BY <1>3, <1>4
<1>15. Unregistered(p)
  BY <1>1, <1>7 DEF NewAreUnregistered
<1>16. \A peer \in reset : peer[1] # p /\ Id(peer[1]) = Id(p)
  BY <1>1, <1>10, <1>14, <1>15, <1>9
  DEF Unregistered, PeersAreTheClients, Connected
<1>17. <<p, Control>> \in peers'
  BY <1>7, <1>16
\* What is sent: the new user to everybody, the others to the new process.
<1>18. \A m \in Sent(infos) :
         \/ \E q \in up : m = Info(q, u, Id(p))
         \/ p \in up /\ \E i \in Connected \ {u} : m = Info(p, i, NoId)
  <2> SUFFICES ASSUME NEW m \in Sent(infos)
               PROVE  \/ \E q \in up : m = Info(q, u, Id(p))
                      \/ p \in up /\ \E i \in Connected \ {u} : m = Info(p, i, NoId)
    OBVIOUS
  <2>1. m \in infos /\ (FromClient(m) \/ m.to[1] \in up)
    BY DEF Sent
  <2>2. CASE \E q \in BroadcastTo(peers \ reset) : m = ConnectionInfo(q, u, Id(p), TRUE)
    BY <2>2 DEF BroadcastTo, Info
  <2>3. CASE \E i \in Others(u) : m = OtherInfo(p, i)
    <3>1. PICK i \in Connected \ {u} : m = OtherInfo(p, i)
      BY <2>3 DEF Others
    <3>2. (i \in world) = TRUE
      BY <1>1 DEF RecordsAgree
    <3>3. m = Info(p, i, NoId)
      BY <3>1, <3>2 DEF OtherInfo, Info
    <3>4. p \in up
      BY <2>1, <3>3, MessageTypes, MessageFields
    <3>5. QED
      BY <3>3, <3>4
  <2>4. QED
    BY <1>6, <2>1, <2>2, <2>3
<1>19. /\ \A i \in Connected \ {u} : p \in up => Info(p, i, NoId) \in net'
       /\ \A q \in up : <<q, Control>> \in peers' => Info(q, u, Id(p)) \in net'
  <2>1. ASSUME NEW i \in Connected \ {u}, p \in up
        PROVE  Info(p, i, NoId) \in net'
    <3>1. (i \in world) = TRUE
      BY <1>1 DEF RecordsAgree
    <3>2. Info(p, i, NoId) = OtherInfo(p, i)
      BY <3>1 DEF OtherInfo, Info
    <3>3. Info(p, i, NoId) \in infos
      BY <1>6, <3>2 DEF Others
    <3>4. Info(p, i, NoId).to[1] = p
      BY MessageFields
    <3>5. QED
      BY <1>7, <2>1, <3>3, <3>4 DEF Sent
  <2>2. ASSUME NEW q \in up, <<q, Control>> \in peers'
        PROVE  Info(q, u, Id(p)) \in net'
    <3>1. q \in BroadcastTo(peers \ reset)
      BY <1>7, <2>2 DEF BroadcastTo
    <3>2. Info(q, u, Id(p)) = ConnectionInfo(q, u, Id(p), TRUE)
      BY DEF Info
    <3>3. Info(q, u, Id(p)) \in infos
      BY <1>6, <3>1, <3>2
    <3>4. Info(q, u, Id(p)).to[1] = q
      BY MessageFields
    <3>5. QED
      BY <1>7, <2>2, <3>3, <3>4 DEF Sent
  <2>3. QED
    BY <2>1, <2>2
<1>20. \A m \in net' : m \in net \ {NewConnection(p)} \/ m \in Sent(infos)
  BY <1>7 DEF Cut
<1>21. Typed' /\ Latest'
  BY <1>1, <1>7, <1>12 DEF Typed, Latest
<1>22. Indexed'
  BY <1>1, <1>7, <1>12 DEF Indexed
<1>23. ControlPeers'
  <2>1. clients'[u].peer_per_channel[Control] = <<p, Control>>
    BY <1>11, <1>12, HostFacts
  <2>2. QED
    BY <1>1, <1>12, <1>13, <2>1 DEF ControlPeers, Connected
<1>24. OneEntryPerId'
  BY <1>1, <1>9, <1>10, <1>11, <1>12 DEF OneEntryPerId
<1>25. RecordsAgree'
  BY <1>1, <1>3, <1>7, <1>13 DEF RecordsAgree
<1>26. PeersAreTheClients'
  <2>1. ASSUME NEW i \in Connected \ {u}, NEW peer \in PeersOf(i)
        PROVE  peer \in peers' /\ Id(peer[1]) = clients'[i].unique_id
    <3>1. i \in Users /\ peer \in peers /\ Id(peer[1]) = clients[i].unique_id
      BY <1>1, <2>1 DEF PeersAreTheClients, Connected
    <3>2. clients[i].unique_id # Id(p)
      BY <1>1, <1>10, <2>1, <3>1 DEF OneEntryPerId
    <3>3. QED
      BY <1>7, <1>12, <1>16, <2>1, <3>1, <3>2
  <2>2. Id(<<p, Control>>[1]) = clients'[u].unique_id
    BY <1>11, <1>12
  <2>3. QED
    BY <1>13, <1>17, <2>1, <2>2 DEF PeersAreTheClients
<1>27. MessagesOK'
  <2>1. ASSUME NEW m \in net
        PROVE  MessageOK(m)'
    <3>1. MessageOK(m) /\ (FromClient(m) \/ m.to[1] \in up')
      BY <1>1, <1>7, MessageCases DEF MessagesOK
    <3>2. QED
      BY <1>7, <1>12, <3>1, MessageKept
  <2>2. ASSUME NEW m \in Sent(infos)
        PROVE  MessageOK(m)'
    <3>1. CASE \E q \in up : m = Info(q, u, Id(p))
      BY <1>7, <1>8, <1>11, <1>12, <3>1 DEF MessageOK, IsInfo
    <3>2. CASE p \in up /\ \E i \in Connected \ {u} : m = Info(p, i, NoId)
      BY <1>7, <1>12, <3>2 DEF MessageOK, IsInfo, Connected
    <3>3. QED
      BY <1>18, <3>1, <3>2
  <2>3. QED
    BY <1>20, <2>1, <2>2 DEF MessagesOK
<1>28. NewAreUnregistered'
  <2> SUFFICES ASSUME NEW q \in Procs, NewConnection(q) \in net'
               PROVE  Unregistered(q)'
    BY DEF NewAreUnregistered
  <2>1. NewConnection(q) \notin Sent(infos)
    BY <1>18, MessageTypes
  <2>2. NewConnection(q) \in net /\ q # p
    BY <1>20, <2>1
  <2>3. Id(q) # Id(p)
    <3>1. q[2] = starts[Id(q)] /\ p[2] = starts[Id(p)]
      BY <1>1, <1>7, <2>2, MessageCases DEF MessagesOK
    <3>2. q[1] = Id(q) /\ p[1] = Id(p)
      BY DEF Id
    <3>3. q[1] = p[1] /\ q[2] = p[2] => q = p
      BY DEF Procs
    <3>4. QED
      BY <2>2, <3>1, <3>2, <3>3
  <2>4. Unregistered(q)
    BY <1>1, <2>2 DEF NewAreUnregistered
  <2>5. ASSUME NEW h \in Hosts, NEW i, PortOverride(q, h, i) \in net'
        PROVE  FALSE
    <3>1. PortOverride(q, h, i) \in net
      BY <1>18, <1>20, <2>5, MessageTypes
    <3>2. IsOverride(PortOverride(q, h, i))
      BY <1>1, <3>1, MessageCases, MessageTypes DEF MessagesOK
    <3>3. i \in Users
      BY <3>2, MessageFields DEF IsOverride
    <3>4. QED
      BY <2>4, <3>1, <3>3 DEF Unregistered
  <2>6. ASSUME NEW i, Info(q, i, Id(q)) \in net'
        PROVE  FALSE
    <3>1. Id(q) \in Ids /\ Id(q) # NoId
      BY SessionAssumption DEF Procs, Id
    <3>2. \A r, j, id : Info(q, i, Id(q)) = Info(r, j, id) => Id(q) = id
      BY MessageFields
    <3>3. Info(q, i, Id(q)) \in net
      BY <1>18, <1>20, <2>3, <2>6, <3>1, <3>2
    <3>4. IsInfo(Info(q, i, Id(q)))
      BY <1>1, <3>3, MessageCases, MessageTypes DEF MessagesOK
    <3>5. i \in Users
      BY <3>4, MessageFields DEF IsInfo
    <3>6. QED
      BY <2>4, <3>3, <3>5 DEF Unregistered
  <2>7. ASSUME NEW i \in Connected', NEW peer \in PeersOf(i)'
        PROVE  peer[1] # q
    BY <1>13, <2>2, <2>4, <2>7 DEF Unregistered
  <2>8. userIdx'[q] = None
    BY <1>7, <2>4 DEF Unregistered
  <2>9. QED
    BY <2>5, <2>6, <2>7, <2>8 DEF Unregistered
<1>29. RosterReachesAll'
  <2> SUFFICES ASSUME NEW i \in Connected', NEW j \in Connected',
                      NEW q, q = clients'[i].peer_per_channel[Control][1], q \in up'
               PROVE  \/ j \in known'[q]
                      \/ \E m \in net' : /\ m.type = "ConnectionInfo"
                                         /\ m.to[1] = q /\ m.user = j
                                         /\ m.initialized
    BY DEF RosterReachesAll
  <2> known' = known /\ up' = up
    BY <1>7
  <2>1. CASE j = u
    <3>1. <<q, Control>> \in peers'
      <4>1. CASE i = u
        BY <1>11, <1>12, <1>17, <4>1, HostFacts
      <4>2. CASE i # u
        <5>1. i \in Connected /\ clients'[i] = clients[i]
          BY <1>12, <1>13, <4>2 DEF Connected
        <5>2. clients[i].peer_per_channel \in [Hosts -> Peers]
          BY <1>1, <5>1, EntryFacts
        <5>3. clients[i].peer_per_channel[Control] \in Peers
          BY <5>2, HostFacts
        <5>4. clients[i].peer_per_channel[Control][2] = Control
          BY <1>1, <5>1 DEF ControlPeers
        <5>5. clients[i].peer_per_channel[Control] = <<q, Control>>
          BY <5>1, <5>3, <5>4 DEF Peers
        <5>6. clients[i].peer_per_channel[Control] \in PeersOf(i)
          BY <5>2, HostFacts DEF PeersOf
        <5>7. clients[i].peer_per_channel[Control] \in PeersOf(i)'
          BY <1>13, <4>2, <5>1, <5>6
        <5>8. QED
          BY <1>26, <5>5, <5>7 DEF PeersAreTheClients
      <4>3. QED
        BY <4>1, <4>2
    <3>2. Info(q, u, Id(p)) \in net'
      BY <1>19, <3>1
    <3>3. /\ Info(q, u, Id(p)).type = "ConnectionInfo"
          /\ Info(q, u, Id(p)).to[1] = q /\ Info(q, u, Id(p)).user = u
          /\ Info(q, u, Id(p)).initialized = TRUE
      BY MessageTypes, MessageFields
    <3>4. QED
      BY <2>1, <3>2, <3>3
  <2>2. CASE j # u /\ i = u
    <3>1. q = p
      BY <1>11, <1>12, <2>2, HostFacts
    <3>2. Info(p, j, NoId) \in net'
      BY <1>13, <1>19, <2>2, <3>1
    <3>3. /\ Info(p, j, NoId).type = "ConnectionInfo"
          /\ Info(p, j, NoId).to[1] = p /\ Info(p, j, NoId).user = j
          /\ Info(p, j, NoId).initialized = TRUE
      BY MessageTypes, MessageFields
    <3>4. QED
      BY <3>1, <3>2, <3>3
  <2>3. CASE j # u /\ i # u
    <3>1. i \in Connected /\ j \in Connected /\ clients'[i] = clients[i]
      BY <1>12, <1>13, <2>3 DEF Connected
    <3>2. CASE j \in known[q]
      BY <3>2
    <3>3. CASE j \notin known[q]
      <4>1. PICK m \in net : /\ m.type = "ConnectionInfo"
                             /\ m.to[1] = q /\ m.user = j /\ m.initialized
        BY <1>1, <3>1, <3>3 DEF RosterReachesAll
      <4>2. ~FromClient(m) /\ m # NewConnection(p)
        BY <1>1, <4>1, MessageCases, MessageTypes DEF MessagesOK, IsInfo
      <4>3. m \in net'
        BY <1>7, <4>1, <4>2 DEF Cut
      <4>4. QED
        BY <4>1, <4>3
    <3>4. QED
      BY <3>2, <3>3
  <2>4. QED
    BY <2>1, <2>2, <2>3
<1>30. QED
  BY <1>21, <1>22, <1>23, <1>24, <1>25, <1>26, <1>27, <1>28, <1>29 DEF SessionInv

-----------------------------------------------------------------------------
(* A client that has asked for its index is told it.                       *)

Answered(p) ==
  NewConnection(p) \in net \/ \E i \in Users : Info(p, i, Id(p)) \in net

Answers ==
  \A p \in up : <<p, Control>> \in peers /\ userIdx[p] = None => Answered(p)

\* Who has been waiting goes on, as long as neither the request nor the answer is
\* dropped.
LEMMA AnsweredStill ==
  ASSUME Answers, NEW p \in up, <<p, Control>> \in peers, userIdx[p] = None,
         Users \subseteq Users',
         \A m \in net \ net' : /\ m # NewConnection(p)
                              /\ \A i : m # Info(p, i, Id(p))
  PROVE  Answered(p)'
  BY DEF Answers, Answered

LEMMA AnswersConnect ==
  ASSUME SessionInv, Answers, NEW id \in Ids, Connect(id)
  PROVE  Answers'
<1>1. PICK p : p = <<id, starts[id] + 1>>
  OBVIOUS
<1>2. /\ \A q \in up : Id(q) # id
      /\ up' = up \cup {p} /\ peers' \subseteq peers \cup ({p} \X Hosts)
      /\ \A m \in net \ net' : FromClient(m) /\ Id(m.from[1]) = id
      /\ NewConnection(p) \in net'
      /\ userIdx' = userIdx /\ clients' = clients
  BY <1>1 DEF Connect
<1>3. ASSUME NEW q \in up', <<q, Control>> \in peers', userIdx'[q] = None
      PROVE  Answered(q)'
  <2>1. CASE q = p
    BY <1>2, <2>1 DEF Answered
  <2>2. CASE q # p
    <3>1. q \in up /\ Id(q) # id /\ <<q, Control>> \in peers
      BY <1>2, <1>3, <2>2
    <3>2. \A m \in net \ net' : m # NewConnection(q) /\ \A i : m # Info(q, i, Id(q))
      BY <1>2, <3>1, MessageTypes, MessageFields
    <3>3. Users' = Users
      BY <1>2 DEF Users
    <3>4. QED
      BY <1>2, <1>3, <3>1, <3>2, <3>3, AnsweredStill
  <2>3. QED
    BY <2>1, <2>2
<1>4. QED
  BY <1>3 DEF Answers

LEMMA AnswersStop ==
  ASSUME SessionInv, Answers, NEW p \in Procs, Stop(p)
  PROVE  Answers'
<1>1. /\ up' = up \ {p} /\ peers' = peers /\ clients' = clients
      /\ userIdx' = [userIdx EXCEPT ![p] = None]
      /\ \A m \in net \ net' : ~FromClient(m) /\ m.to[1] = p
  BY DEF Stop, serverVars
<1>2. ASSUME NEW q \in up', <<q, Control>> \in peers', userIdx'[q] = None
      PROVE  Answered(q)'
  <2>1. q \in up /\ q # p /\ userIdx[q] = None
    BY <1>1, <1>2 DEF SessionInv, Typed
  <2>2. \A m \in net \ net' : m # NewConnection(q) /\ \A i : m # Info(q, i, Id(q))
    BY <1>1, <2>1, MessageTypes, MessageFields
  <2>3. Users' = Users
    BY <1>1 DEF Users
  <2>4. QED
    BY <1>1, <1>2, <2>1, <2>2, <2>3, AnsweredStill
<1>3. QED
  BY <1>2 DEF Answers

\* The answer that is received gives the index; another changes nothing.
LEMMA AnswersReceive ==
  ASSUME SessionInv, Answers, NEW p \in Procs, NEW m \in net, ReceiveConnectionInfo(p, m)
  PROVE  Answers'
<1>1. /\ Typed /\ MessagesOK
  BY DEF SessionInv
<1>2. /\ p \in up /\ m.type = "ConnectionInfo" /\ m.to[1] = p
      /\ up' = up /\ peers' = peers /\ clients' = clients
      /\ \A n \in net \ net' : n = m
      /\ userIdx' = IF m.id = Id(p) THEN [userIdx EXCEPT ![p] = m.user] ELSE userIdx
  BY DEF ReceiveConnectionInfo, serverVars
<1>3. m.user \in Users /\ m.user # None
  <2>1. PICK q \in up, i \in Users, id \in Ids \cup {NoId} : m = Info(q, i, id)
    BY <1>1, <1>2, MessageCases DEF MessagesOK, IsInfo
  <2>2. i # None
    BY <1>1, EntryFacts DEF None
  <2>3. QED
    BY <2>1, <2>2, MessageFields
<1>4. ASSUME NEW q \in up', <<q, Control>> \in peers', userIdx'[q] = None
      PROVE  Answered(q)'
  <2>1. /\ q \in up /\ q \in Procs /\ userIdx[q] = None
        /\ ~(q = p /\ m.id = Id(p))
    BY <1>1, <1>2, <1>3, <1>4 DEF Typed
  <2>2. m # NewConnection(q)
    BY <1>2, MessageTypes
  <2>3. \A i : m # Info(q, i, Id(q))
    BY <1>2, <2>1, MessageFields
  <2>4. Users' = Users
    BY <1>2 DEF Users
  <2>5. QED
    BY <1>2, <1>4, <2>1, <2>2, <2>3, <2>4, AnsweredStill
<1>5. QED
  BY <1>4 DEF Answers

\* A registration is announced to all on the control host, the newcomer included.
LEMMA AnswersRegister ==
  ASSUME SessionInv, Answers, NEW p \in Procs, HandleNewConnection(p)
  PROVE  Answers'
<1>1. PICK u : u = IF Entry(Id(p)) = {} THEN NewIndex
                   ELSE CHOOSE i \in Entry(Id(p)) : \A j \in Entry(Id(p)) : i <= j
  OBVIOUS
<1>2. PICK reset : reset = UNION {PeersOf(i) : i \in {u} \cap Connected}
  OBVIOUS
<1>3. PICK infos : infos =
        {ConnectionInfo(q, u, Id(p), TRUE) : q \in BroadcastTo(peers \ reset)}
          \cup {OtherInfo(p, i) : i \in Others(u)}
  OBVIOUS
<1>4. /\ peers' = peers \ reset /\ Users' = Users \cup {u}
      /\ net' = Cut(net \ {NewConnection(p)}, reset) \cup Sent(infos)
      /\ up' = up /\ userIdx' = userIdx
  BY <1>1, <1>2, <1>3 DEF HandleNewConnection, clientVars, Users
<1>5. ASSUME NEW q \in up', <<q, Control>> \in peers', userIdx'[q] = None
      PROVE  Answered(q)'
  <2>1. CASE q = p
    <3>1. Info(p, u, Id(p)) \in infos
      BY <1>3, <1>4, <1>5, <2>1 DEF BroadcastTo, Info
    <3>2. Info(p, u, Id(p)).to[1] \in up
      BY <1>4, <1>5, <2>1, MessageFields
    <3>3. Info(p, u, Id(p)) \in net'
      BY <1>4, <3>1, <3>2 DEF Sent
    <3>4. QED
      BY <1>4, <2>1, <3>3 DEF Answered
  <2>2. CASE q # p
    <3>1. /\ NewConnection(q).from = <<q, Control>> /\ NewConnection(p).from = <<p, Control>>
          /\ NewConnection(q) # NewConnection(p)
      BY <2>2, MessageFields
    <3>2. NewConnection(q) \in net => NewConnection(q) \in net'
      BY <1>4, <1>5, <3>1 DEF Cut
    <3>3. ASSUME NEW i, Info(q, i, Id(q)) \in net
          PROVE  Info(q, i, Id(q)) \in net'
      <4>1. Info(q, i, Id(q)) # NewConnection(p) /\ ~FromClient(Info(q, i, Id(q)))
        BY MessageTypes
      <4>2. QED
        BY <1>4, <3>3, <4>1 DEF Cut
    <3>4. QED
      BY <1>4, <1>5, <3>2, <3>3, AnsweredStill
  <2>3. QED
    BY <2>1, <2>2
<1>6. QED
  BY <1>5 DEF Answers

\* A peer that is reset takes its messages with it.
LEMMA AnswersDisconnect ==
  ASSUME Answers, NEW reset, peers' = peers \ reset, net' = Cut(net, reset),
         Users' = Users, up' = up, userIdx' = userIdx
  PROVE  Answers'
<1>1. ASSUME NEW q \in up', <<q, Control>> \in peers', userIdx'[q] = None
      PROVE  Answered(q)'
  <2>1. \A m \in net \ net' : FromClient(m) /\ m.from \in reset
    BY DEF Cut
  <2>2. \A m \in net \ net' : m # NewConnection(q) /\ \A i : m # Info(q, i, Id(q))
    BY <1>1, <2>1, MessageTypes, MessageFields
  <2>3. QED
    BY <1>1, <2>2, AnsweredStill
<1>2. QED
  BY <1>1 DEF Answers

LEMMA AnswersNext == SessionInv /\ Answers /\ [Next]_vars => Answers'
<1> SUFFICES ASSUME SessionInv, Answers, [Next]_vars PROVE Answers'
  OBVIOUS
<1>1. ASSUME NEW id \in Ids, Connect(id) PROVE Answers'
  BY <1>1, AnswersConnect
<1>2. ASSUME NEW p \in Procs, Stop(p) PROVE Answers'
  BY <1>2, AnswersStop
<1>3. ASSUME NEW p \in Procs, NEW m \in net, ReceiveConnectionInfo(p, m) PROVE Answers'
  BY <1>3, AnswersReceive
<1>4. ASSUME NEW p \in Procs, HandleNewConnection(p) PROVE Answers'
  BY <1>4, AnswersRegister
\* Signals, relays and port overrides are no part of it.
<1>5. ASSUME up' = up, peers' = peers, userIdx' = userIdx, Users' = Users,
             \A m \in net \ net' : m.type \in {"Signal", "Relay", "PortOverride"}
      PROVE  Answers'
  <2>1. ASSUME NEW q \in up', <<q, Control>> \in peers', userIdx'[q] = None
        PROVE  Answered(q)'
    <3>1. \A m \in net \ net' : m # NewConnection(q) /\ \A i : m # Info(q, i, Id(q))
      BY <1>5, MessageTypes
    <3>2. QED
      BY <1>5, <2>1, <3>1, AnsweredStill
  <2>2. QED
    BY <2>1 DEF Answers
<1>6. ASSUME UNCHANGED <<clientVars, serverVars>>,
             \A m \in net \ net' : m.type \in {"Signal", "Relay"}
      PROVE  Answers'
  BY <1>5, <1>6 DEF clientVars, serverVars, Users
<1>7. ASSUME NEW p \in Procs, NEW s \in Signals, SendSignal(p, s) PROVE Answers'
  BY <1>6, <1>7 DEF SendSignal
<1>8. ASSUME NEW m \in net, Lose(m) \/ HandleSignal(m) \/ \E p \in Procs : ReceiveRelay(p, m)
      PROVE  Answers'
  BY <1>6, <1>8 DEF ReceiveRelay, Lose, HandleSignal
<1>9. ASSUME NEW m \in net, HandlePortOverride(m) PROVE Answers'
  <2>1. Users' = Users
    BY <1>9 DEF HandlePortOverride, Users
  <2>2. QED
    BY <1>5, <1>9, <2>1 DEF HandlePortOverride, clientVars
<1>10. ASSUME NEW S, NEW gone, DisconnectAll(S, gone), UNCHANGED clientVars PROVE Answers'
  <2>1. Users' = Users
    BY <1>10 DEF DisconnectAll, Emptied, Users
  <2>2. QED
    BY <1>10, <2>1, AnswersDisconnect DEF DisconnectAll, clientVars
<1>11. CASE UNCHANGED vars
  BY <1>5, <1>11 DEF vars, clientVars, serverVars, Users
<1>12. QED
  BY <1>1, <1>2, <1>3, <1>4, <1>7, <1>8, <1>9, <1>10, <1>11
  DEF Next, ClientStep, ServerEvent, PeerLost, TimeOut

-----------------------------------------------------------------------------
(* The invariant holds, and with it the properties.                        *)

LEMMA SessionInit == Init => SessionInv
<1> SUFFICES ASSUME Init PROVE SessionInv
  OBVIOUS
<1>1. /\ starts = [id \in Ids |-> 0] /\ up = {}
      /\ userIdx = [p \in Procs |-> None] /\ known = [p \in Procs |-> {}]
      /\ net = {} /\ peers = {} /\ clients = <<>> /\ world = {} /\ subscribed = {}
  BY DEF Init
<1>2. Users = {} /\ Connected = {}
  BY <1>1 DEF Users, Connected
<1>3. Typed
  BY <1>1, SessionAssumption DEF Typed, None
<1>4. Latest /\ Indexed /\ ControlPeers /\ MessagesOK /\ NewAreUnregistered
  BY <1>1, <1>2 DEF Latest, Indexed, ControlPeers, MessagesOK, NewAreUnregistered
<1>5. OneEntryPerId /\ RecordsAgree /\ PeersAreTheClients /\ RosterReachesAll
  BY <1>1, <1>2 DEF OneEntryPerId, RecordsAgree, PeersAreTheClients, RosterReachesAll
<1>6. QED
  BY <1>3, <1>4, <1>5 DEF SessionInv

LEMMA SessionNext == SessionInv /\ [Next]_vars => SessionInv'
<1> SUFFICES ASSUME SessionInv, [Next]_vars PROVE SessionInv'
  OBVIOUS
<1>1. ASSUME NEW id \in Ids, Connect(id) PROVE SessionInv'
  BY <1>1, ConnectStep
<1>2. ASSUME NEW p \in Procs, Stop(p) \/ ClientStep(p) PROVE SessionInv'
  BY <1>2, StopStep, ReceiveConnectionInfoStep, ReceiveRelayStep DEF ClientStep
<1>3. ASSUME NEW p \in Procs, NEW s \in Signals, SendSignal(p, s) PROVE SessionInv'
  BY <1>3, SendSignalStep
<1>4. CASE ServerEvent
  BY <1>4, HandleNewConnectionStep, HandlePortOverrideStep, HandleSignalStep
  DEF ServerEvent
<1>5. ASSUME NEW peer \in peers, PeerLost(peer) PROVE SessionInv'
  BY <1>5, PeerLostStep
<1>6. ASSUME NEW i \in Users, TimeOut(i) PROVE SessionInv'
  BY <1>6, TimeOutStep
<1>7. ASSUME NEW m \in net, Lose(m) PROVE SessionInv'
  BY <1>7, LoseStep
<1>8. CASE UNCHANGED vars
  <2>1. UNCHANGED <<clientVars, serverVars>> /\ net' = net
    BY <1>8 DEF vars, clientVars, serverVars
  <2>2. QED
    BY <2>1, NetOnly
<1>9. QED
  BY <1>1, <1>2, <1>3, <1>4, <1>5, <1>6, <1>7, <1>8 DEF Next

LEMMA SessionAlways == Spec => []SessionInv
  BY SessionInit, SessionNext, PTL DEF Spec

\* Types of the two sides' state: a user index is that of an entry, and the
\* entries number without gaps.
THEOREM TypeCorrect == Spec => []TypeOK
<1>1. ASSUME SessionInv PROVE TypeOK
  <2>1. Typed /\ RecordsAgree
    BY <1>1 DEF SessionInv
  <2>2. PICK n \in Nat : Users = 1 .. n
    BY <2>1, EntryFacts
  <2>3. Cardinality(1 .. n) = n
    BY FS_Interval
  <2>4. Users = 1 .. Cardinality(Users)
    BY <2>2, <2>3
  <2>5. clients \in [Users -> EntryType]
    BY <2>1, <2>2 DEF Typed, Users
  <2>6. world \subseteq Users /\ subscribed \subseteq Users
    BY <2>1 DEF RecordsAgree, Connected
  <2>7. QED
    BY <2>1, <2>4, <2>5, <2>6 DEF TypeOK, Typed, EntryType
<1>2. QED
  BY <1>1, SessionAlways, PTL

\* However often its client comes and goes, the server keeps one entry for it,
\* which NewConnection finds again.
THEOREM OneEntryForEachClient == Spec => []OneEntryPerId
<1>1. SessionInv => OneEntryPerId
  BY DEF SessionInv
<1>2. QED
  BY <1>1, SessionAlways, PTL

\* After every registration, replacement, loss and timeout the connected
\* entries, the subscribers and the users of the world are the same.
THEOREM ServerRecordsAgree == Spec => []RecordsAgree
<1>1. SessionInv => RecordsAgree
  BY DEF SessionInv
<1>2. QED
  BY <1>1, SessionAlways, PTL

\* The server never keeps a peer that was reset, or one of another client.
THEOREM NoStalePeer == Spec => []PeersAreTheClients
<1>1. SessionInv => PeersAreTheClients
  BY DEF SessionInv
<1>2. QED
  BY <1>1, SessionAlways, PTL

\* No ConnectionInfo, however late, makes a client take another's index.
THEOREM NobodyTakesAnothersIndex == Spec => []IndexIsOwn
<1>1. ASSUME SessionInv PROVE IndexIsOwn
  BY <1>1 DEF SessionInv, Typed, Indexed, IndexIsOwn
<1>2. QED
  BY <1>1, SessionAlways, PTL

\* Whatever the order of arrivals, departures and broadcasts, of two connected
\* users neither is left without news of the other.
THEOREM NobodyIsLeftOut == Spec => []RosterReachesAll
<1>1. SessionInv => RosterReachesAll
  BY DEF SessionInv
<1>2. QED
  BY <1>1, SessionAlways, PTL

\* Whatever is lost, replaced or broadcast, a client that is connected to the
\* control host never waits for an index that nothing under way will bring.
THEOREM NobodyWaitsForNothing == Spec => []IndexOnItsWay
<1>1. Init => Answers
  BY DEF Init, Answers
<1>2. Spec => []Answers
  BY <1>1, SessionAlways, AnswersNext, PTL DEF Spec
<1>3. ASSUME Answers PROVE IndexOnItsWay
  <2> SUFFICES ASSUME NEW p \in up, <<p, Control>> \in peers, userIdx[p] = None,
                      NewConnection(p) \notin net
               PROVE  \E m \in net : /\ m.type = "ConnectionInfo"
                                    /\ m.to[1] = p /\ m.id = Id(p)
    BY DEF IndexOnItsWay
  <2>1. PICK i \in Users : Info(p, i, Id(p)) \in net
    BY <1>3 DEF Answers, Answered
  <2>2. QED
    BY <2>1, MessageTypes, MessageFields
<1>4. QED
  BY <1>2, <1>3, PTL

\* broadcast_signal never returns a signal to the client it came from: a late one
\* does not reach a later run of its sender.
THEOREM NoEcho == Spec => []RelayedToOthers
<1>1. ASSUME SessionInv PROVE RelayedToOthers
  <2> SUFFICES ASSUME NEW m \in net, m.type = "Relay"
               PROVE  clients[m.user].unique_id # Id(m.to[1])
    BY DEF RelayedToOthers
  <2>1. IsRelay(m)
    BY <1>1, MessageCases DEF SessionInv, MessagesOK
  <2>2. PICK p \in up, h \in Hosts, s \in Signals, i \in Users :
          m = Relay(<<p, h>>, s, i) /\ clients[i].unique_id # Id(p)
    BY <2>1 DEF IsRelay
  <2>3. m.to = <<p, h>> /\ m.user = i
    BY <2>2, MessageFields
  <2>4. QED
    BY <2>2, <2>3
<1>2. QED
  BY <1>1, SessionAlways, PTL
=============================================================================
