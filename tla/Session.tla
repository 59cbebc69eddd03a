------------------------------ MODULE Session -------------------------------
(***************************************************************************)
(* The session protocol between net::ServerState (core/net/server.cpp) and *)
(* net::ClientState (core/net/client.cpp): clients connect, get a user     *)
(* index, move their signals to ports of their own, send signals the       *)
(* server relays, crash and come back; the server registers, replaces and  *)
(* disconnects them.                                                       *)
(*                                                                         *)
(* A process is a pair <<id, n>>, the n-th run of the client whose         *)
(* ClientID is id (MAC address and port: at most one runs at a time).  Its *)
(* connection to the server's host h is the server-side ENet peer          *)
(* <<<<id, n>>, h>>.  Each action of the server is the handling of one     *)
(* ENet event, or the check that ends a tick; events of different peers    *)
(* and channels come in any order.  A user index is the source's plus one. *)
(*                                                                         *)
(* Left out: listeners; telemetry and environment messages, which change   *)
(* nothing of this state; pings, latency rounds and last_seen_time_point,  *)
(* which are module KeepAlive: here the server may time out any client.    *)
(***************************************************************************)
EXTENDS Naturals, Sequences, FiniteSets

CONSTANTS
  Ids,          \* ClientIDs
  NumSignals,   \* scene_runtime_data.user_signals.size()
  SinglePort,   \* config.single_port_operation
  LateTypes,    \* types of messages that may outlive their sender's run
  MaxStarts,    \* bound: runs of all the clients together
  MaxInFlight   \* bound: signals on the network at a time

NoId == "no id"     \* a cleared ClientID

ASSUME SessionAssumption ==
  /\ IsFiniteSet(Ids) /\ NoId \notin Ids
  /\ NumSignals \in Nat /\ NumSignals >= 1
  /\ SinglePort \in BOOLEAN
  /\ LateTypes \subseteq {"Signal", "PortOverride"}
  /\ MaxStarts \in Nat
  /\ MaxInFlight \in Nat

\* Channels of peer_per_channel, and the hosts behind them: control,
\* environment, then one per user signal.
Control == 0
Environment == 1
ClientChannel(sig) == 2 + sig
Signals == 0 .. NumSignals - 1
Hosts == 0 .. NumSignals + 1

Procs == Ids \X (1 .. MaxStarts)
Id(p) == p[1]
Peers == Procs \X Hosts

None == 0           \* userIdx == -1
NoPeers == <<>>     \* an empty peer_per_channel

VARIABLES
  starts,      \* per id: runs of the client so far
  up,          \* processes running now
  userIdx,     \* ClientState::userIdx of each process
  known,       \* per process: users its world has as initialized
  net,         \* messages in flight
  peers,       \* connected ENet peers of the server
  clients,     \* ServerState::clients
  world,       \* users the server's world has as initialized
  subscribed   \* clients subscribed to the universal publisher

clientVars == <<starts, up, userIdx, known>>
serverVars == <<peers, clients, world, subscribed>>
vars == <<clientVars, net, serverVars>>

\* Runs of all the clients, past and present.
Started == {p \in Procs : p[2] <= starts[p[1]]}

Users == DOMAIN clients
IsConnected(i) == clients[i].peer_per_channel # NoPeers
Connected == {i \in Users : IsConnected(i)}
PeersOf(i) == {clients[i].peer_per_channel[h] :
                 h \in DOMAIN clients[i].peer_per_channel}

-----------------------------------------------------------------------------
(* Messages.  Those of a client carry the peer they arrive at.             *)

NewConnection(p) == [type |-> "NewConnection", from |-> <<p, Control>>]
PortOverride(p, h, i) ==
  [type |-> "PortOverride", from |-> <<p, h>>, user |-> i]
Signal(p, s, i) ==
  [type |-> "Signal", from |-> <<p, ClientChannel(s)>>, user |-> i, sig |-> s]

ConnectionInfo(p, i, id, initialized) ==
  [type |-> "ConnectionInfo", to |-> <<p, Control>>, user |-> i, id |-> id,
   initialized |-> initialized]
Relay(peer, s, i) == [type |-> "Relay", to |-> peer, user |-> i, sig |-> s]

FromClient(m) == "from" \in DOMAIN m

\* Messages that reach a process of the client, if they are not lost.
Sent(msgs) == {m \in msgs : FromClient(m) \/ m.to[1] \in up}

\* A reset peer receives nothing any more.
Cut(msgs, gone) == {m \in msgs : FromClient(m) => m.from \notin gone}

-----------------------------------------------------------------------------
(* The client.                                                             *)

\* initialize(): connect every host, then send NewConnection.  Of what an earlier
\* run has sent, messages of the types LateTypes may arrive after this; others
\* have arrived, or are lost with it.  An earlier peer that no entry holds and
\* nothing more arrives at is left out.
Connect(id) ==
  LET p == <<id, starts[id] + 1>>
      earlier == {m \in net : FromClient(m) /\ Id(m.from[1]) = id}
      late == {m \in earlier : m.type \in LateTypes}
  IN  /\ Cardinality(Started) < MaxStarts
      /\ \A q \in up : Id(q) # id
      /\ starts' = [starts EXCEPT ![id] = @ + 1]
      /\ up' = up \cup {p}
      /\ peers' = {peer \in peers : \/ Id(peer[1]) # id
                                   \/ \E i \in Users : peer \in PeersOf(i)
                                   \/ \E m \in late : m.from = peer}
                    \cup ({p} \X Hosts)
      /\ net' = (net \ earlier) \cup late \cup {NewConnection(p)}
      /\ UNCHANGED <<userIdx, known, clients, world, subscribed>>

\* The process ends: deinitialize(), or a crash.
Stop(p) ==
  /\ p \in up
  /\ up' = up \ {p}
  /\ userIdx' = [userIdx EXCEPT ![p] = None]
  /\ known' = [known EXCEPT ![p] = {}]
  /\ net' = {m \in net : ~FromClient(m) => m.to[1] # p}
  /\ UNCHANGED <<starts, serverVars>>

\* The port of host h is offered for the channel of its signal type: sigType is
\* all the message says of it, so every user signal names channel 2.
Overrides(p, i) ==
  IF SinglePort THEN {} ELSE {PortOverride(p, h, i) : h \in Hosts \ {Control}}

\* on_connection_info: a user without an address is cleared.
KnownAfter(p, m) == IF m.initialized THEN known[p] \cup {m.user}
                                    ELSE known[p] \ {m.user}

ReceiveConnectionInfo(p, m) ==
  /\ p \in up
  /\ m \in net /\ m.type = "ConnectionInfo" /\ m.to[1] = p
  /\ known' = [known EXCEPT ![p] = KnownAfter(p, m)]
  /\ IF m.id = Id(p)
       THEN /\ userIdx' = [userIdx EXCEPT ![p] = m.user]
            /\ net' = (net \ {m}) \cup Overrides(p, m.user)
       ELSE /\ net' = net \ {m}
            /\ UNCHANGED userIdx
  /\ UNCHANGED <<starts, up, serverVars>>

SendSignal(p, s) ==
  /\ p \in up
  /\ userIdx[p] # None
  /\ <<p, ClientChannel(s)>> \in peers   \* otherwise nothing receives it
  /\ Cardinality({m \in net : m.type \in {"Signal", "Relay"}}) < MaxInFlight
  /\ net' = net \cup {Signal(p, s, userIdx[p])}
  /\ UNCHANGED <<clientVars, serverVars>>

ReceiveRelay(p, m) ==
  /\ p \in up
  /\ m \in net /\ m.type = "Relay" /\ m.to[1] = p
  /\ net' = net \ {m}
  /\ UNCHANGED <<clientVars, serverVars>>

-----------------------------------------------------------------------------
(* The server.                                                             *)

\* clients, without the peers of the entries S, which are reset; the variant
\* leaves the reset peers in the vectors.
EmptiedNot(S) == clients
Emptied(S) ==
  [i \in Users |-> IF i \in S
                     THEN [clients[i] EXCEPT !.peer_per_channel = NoPeers]
                     ELSE clients[i]]

\* Subscribers left when the users S are disconnected; the variant forgets to
\* unsubscribe them.
UnsubscribedNot(S) == subscribed
Unsubscribed(S) == subscribed \ S

\* disconnect(i), of each user of S; gone are peers that are lost besides.
DisconnectAll(S, gone) ==
  LET reset == gone \cup UNION {PeersOf(i) : i \in S}
  IN  /\ clients' = Emptied(S)
      /\ peers' = peers \ reset
      /\ world' = world \ S
      /\ subscribed' = Unsubscribed(S)
      /\ net' = Cut(net, reset)

\* Entries registered under an id; the variant finds connected ones only.
EntryConnected(id) == {i \in Connected : clients[i].unique_id = id}
Entry(id) == {i \in Users : clients[i].unique_id = id}

\* Which ConnectionInfo the new process of user u is sent about user i: the id
\* is cleared, or it would take i for its own index, as it does in the variant.
OtherInfoWithId(p, i) == ConnectionInfo(p, i, Id(p), i \in world)
OtherInfo(p, i) == ConnectionInfo(p, i, NoId, i \in world)

\* Processes a broadcast on the control host reaches: all that are connected
\* there, whether or not they have registered.  The variant reaches those that
\* have.
BroadcastToRegistered(live) ==
  {q \in up : /\ <<q, Control>> \in live
              /\ \E i \in Connected :
                   clients[i].peer_per_channel[Control] = <<q, Control>>}
BroadcastTo(live) == {q \in up : <<q, Control>> \in live}

\* The users a newcomer is told of; the variant stops at its own index.
OthersBelow(u) == {i \in Connected : i < u}
Others(u) == Connected \ {u}

\* A new entry goes to the end of the vector; the variant overwrites the last.
LastIndex == Len(clients)
NewIndex == Len(clients) + 1

HandleNewConnection(p) ==
  LET found == Entry(Id(p))
      u == IF found = {} THEN NewIndex
                         ELSE CHOOSE i \in found : \A j \in found : i <= j
      old == {u} \cap Connected
      reset == UNION {PeersOf(i) : i \in old}
      entry == [unique_id |-> Id(p),
                peer_per_channel |-> [h \in Hosts |-> <<p, Control>>]]
      infos == {ConnectionInfo(q, u, Id(p), TRUE) :
                  q \in BroadcastTo(peers \ reset)}
                 \cup {OtherInfo(p, i) : i \in Others(u)}
  IN  /\ NewConnection(p) \in net
      /\ <<p, Control>> \in peers
      /\ clients' = [i \in Users \cup {u} |-> IF i = u THEN entry
                                                       ELSE clients[i]]
      /\ peers' = peers \ reset
      /\ subscribed' = Unsubscribed(old) \cup {u}
      /\ world' = world \cup {u}
      /\ net' = Cut(net \ {NewConnection(p)}, reset)
                  \cup Sent(infos)
      /\ UNCHANGED clientVars

\* The peer becomes the one of the channel numbered by the signal type.  On an
\* entry without peers the write lands beyond the end of the vector, in storage
\* nothing reads before NewConnection overwrites it.
ChannelOf(h) == IF h = Environment THEN 1 ELSE 2

HandlePortOverride(m) ==
  /\ m \in net /\ m.type = "PortOverride"
  /\ m.from \in peers
  /\ net' = net \ {m}
  /\ clients' = IF clients[m.user].unique_id = Id(m.from[1])
                   /\ IsConnected(m.user)
                  THEN [clients EXCEPT ![m.user].peer_per_channel
                                         [ChannelOf(m.from[2])] = m.from]
                  ELSE clients
  /\ UNCHANGED <<clientVars, peers, world, subscribed>>

\* GetRecipients and the loop of broadcast_signal; the variant sends the
\* publisher its own signal.
RecipientsAndSelf(i) == subscribed \cap Connected
Recipients(i) == (subscribed \ {i}) \cap Connected

HandleSignal(m) ==
  /\ m \in net /\ m.type = "Signal"
  /\ m.from \in peers
  /\ LET to == {clients[j].peer_per_channel[ClientChannel(m.sig)] :
                   j \in Recipients(m.user)}
         relays == IF IsConnected(m.user)
                     THEN {Relay(peer, m.sig, m.user) : peer \in to \cap peers}
                     ELSE {}
     IN  net' = (net \ {m}) \cup Sent(relays)
  /\ UNCHANGED <<clientVars, serverVars>>

\* ENet reports that a peer disconnected or timed out; every client that uses
\* the peer for some channel is disconnected.  The variant looks at the control
\* channel only.
HoldersControl(peer) ==
  {i \in Connected : clients[i].peer_per_channel[Control] = peer}
Holders(peer) == {i \in Connected : peer \in PeersOf(i)}

PeerLost(peer) ==
  /\ peer \in peers
  /\ DisconnectAll(Holders(peer), {peer})
  /\ UNCHANGED clientVars

\* check_disconnected disconnects a client it has not heard of for too long.
TimeOut(i) ==
  /\ i \in Connected
  /\ DisconnectAll({i}, {})
  /\ UNCHANGED clientVars

-----------------------------------------------------------------------------
(* The network.                                                            *)

\* Signals are unreliable.  Any other message that is lost, with its sender or
\* with a peer reset before ENet flushed or resent it, is one never delivered.
Lose(m) ==
  /\ m \in net /\ m.type \in {"Signal", "Relay"}
  /\ net' = net \ {m}
  /\ UNCHANGED <<clientVars, serverVars>>

ClientStep(p) ==
  \E m \in net : ReceiveConnectionInfo(p, m) \/ ReceiveRelay(p, m)

ServerEvent ==
  \/ \E p \in Procs : HandleNewConnection(p)
  \/ \E m \in net : HandlePortOverride(m) \/ HandleSignal(m)

Init ==
  /\ starts = [id \in Ids |-> 0]
  /\ up = {}
  /\ userIdx = [p \in Procs |-> None]
  /\ known = [p \in Procs |-> {}]
  /\ net = {}
  /\ peers = {}
  /\ clients = <<>>
  /\ world = {}
  /\ subscribed = {}

Next ==
  \/ \E id \in Ids : Connect(id)
  \/ \E p \in Procs : Stop(p) \/ ClientStep(p)
  \/ \E p \in Procs, s \in Signals : SendSignal(p, s)
  \/ ServerEvent
  \/ \E peer \in peers : PeerLost(peer)
  \/ \E i \in Users : TimeOut(i)
  \/ \E m \in net : Lose(m)

Spec == Init /\ [][Next]_vars

-----------------------------------------------------------------------------
(* Properties.                                                             *)

\* Types of the two sides' state.
TypeOK ==
  /\ starts \in [Ids -> 0 .. MaxStarts]
  /\ up \subseteq Procs
  /\ userIdx \in [Procs -> Nat]
  /\ known \in [Procs -> SUBSET Nat]
  /\ peers \subseteq Peers
  /\ Users = 1 .. Cardinality(Users)
  /\ clients \in [Users -> [unique_id : Ids,
                            peer_per_channel : {NoPeers} \cup [Hosts -> Peers]]]
  /\ world \subseteq Users
  /\ subscribed \subseteq Users

\* A client that comes back gets the entry, and so the index, it had: no two
\* entries of the server are registered under one ClientID.
OneEntryPerId ==
  \A i, j \in Users : clients[i].unique_id = clients[j].unique_id => i = j

\* The three records of who is there agree, whichever way a client left or was
\* replaced: the entry's peers, the subscription and the replicated world.
RecordsAgree == subscribed = Connected /\ world = Connected

\* The peers the server sends to are connected ones of the client registered in
\* the entry: none was reset, and none is another client's.
PeersAreTheClients ==
  \A i \in Connected : \A peer \in PeersOf(i) :
    /\ peer \in peers
    /\ Id(peer[1]) = clients[i].unique_id

\* A running client that has an index has the one it is registered under.
IndexIsOwn ==
  \A p \in up : userIdx[p] # None =>
    /\ userIdx[p] \in Users
    /\ clients[userIdx[p]].unique_id = Id(p)

\* Two connected users know each other, or the news is on its way: no order of
\* connections, broadcasts and replacements leaves one out.  (Without it, the
\* client drops every signal of the user it has not heard of.)
RosterReachesAll ==
  \A i, j \in Connected :
    LET p == clients[i].peer_per_channel[Control][1]
    IN  p \in up => \/ j \in known[p]
                    \/ \E m \in net : /\ m.type = "ConnectionInfo"
                                      /\ m.to[1] = p /\ m.user = j
                                      /\ m.initialized

\* A client that is connected to the control host and has no index yet has asked
\* for it, or is being told it: no broadcast, loss of a peer, timeout or
\* replacement leaves it waiting for an answer that nothing will bring.
IndexOnItsWay ==
  \A p \in up : <<p, Control>> \in peers /\ userIdx[p] = None =>
    \/ NewConnection(p) \in net
    \/ \E m \in net : m.type = "ConnectionInfo" /\ m.to[1] = p /\ m.id = Id(p)

\* A relay never goes to a process of the client that sent the signal: not to the
\* sender, nor, when the signal was late, to a later run of it.
RelayedToOthers ==
  \A m \in net : m.type = "Relay" => clients[m.user].unique_id # Id(m.to[1])

\* A client's port for a user signal, offered with PortOverrideInformation, is
\* used for that signal and no other.
OwnPortPerSignal ==
  \A i \in Connected : \A s \in Signals :
    clients[i].peer_per_channel[ClientChannel(s)][2]
      \in {Control, ClientChannel(s)}
=============================================================================
