------------------------------ MODULE Listeners ------------------------------
(***************************************************************************)
(* Listeners: net::ListenerState (core/net/listener.cpp) and what          *)
(* net::ServerState does for it (core/net/server.cpp).  A listener asks    *)
(* for the signals of clients it names; the server answers with the        *)
(* indices of those that are there, and keeps the names of the others      *)
(* until a client with such a name connects.                               *)
(*                                                                         *)
(* The server stores no peer for a listener (the lookup is compiled out),  *)
(* so the news of an awaited client is sent nowhere.  The ConnectionInfo   *)
(* of a new client is broadcast and reaches listeners too, but with a      *)
(* sigIdx of 0, by which a listener does not know it for one: it ignores   *)
(* it, and the response is all it ever takes in.                           *)
(*                                                                         *)
(* A client is its index plus one and clients register in that order; how  *)
(* they connect and get an index is module Session.  Left out: the         *)
(* subscription (module PubSub has the table; for a listener that names    *)
(* clients the request is read uninitialized) and signals, which no        *)
(* listener is sent.                                                       *)
(***************************************************************************)
EXTENDS Naturals, Sequences, FiniteSets

CONSTANTS
  N,            \* clients
  Names,        \* their names
  ListenerIds,  \* listener processes that may run
  MaxConnects,  \* bound: connections of all the clients together
  MaxListens    \* bound: NewListenerConnections

Clients == 1 .. N
None == 0            \* index -1
NoName == "no name"  \* the name of a cleared ClientInfo

\* Every client has a name, as in the presets: an empty one could not be told
\* from that of a cleared ClientInfo.
ASSUME ListenersAssumption ==
  /\ N \in Nat
  /\ NoName \notin Names
  /\ MaxConnects \in Nat
  /\ MaxListens \in Nat

VARIABLES
  connects,     \* connections so far
  registered,   \* world.clients.size()
  name,         \* world.clients[i].name
  renamed,      \* history: connected clients that have changed their name
  bore,         \* history: <<name, index>> that ever went together
  listeners,    \* ServerState::listeners
  asked,        \* per running listener: the names of its clients; else absent
  indexOf,      \* per running listener: ListenerState::clients, by name
  net_id,       \* per running listener: its index in listeners, once known
  requests,     \* listeners whose NewListenerConnection is in flight
  responses     \* listener |-> its response, while in flight

clientVars == <<connects, registered, name, renamed, bore>>
listenerVars == <<asked, indexOf, net_id>>
vars == <<clientVars, listeners, listenerVars, requests, responses>>

Running == DOMAIN asked
Connected == {i \in 1 .. registered : name[i] # NoName}

-----------------------------------------------------------------------------
(* Clients, as the server sees them.                                       *)

\* The entries of listeners that await the name, updated; the variant leaves
\* the name among the awaited.
ResolvedKept(e, n, i) ==
  IF n \in e.unresolved THEN [e EXCEPT !.mask = @ \cup {i}] ELSE e
Resolved(e, n, i) ==
  IF n \in e.unresolved
    THEN [e EXCEPT !.unresolved = @ \ {n}, !.mask = @ \cup {i}]
    ELSE e

\* NewConnection, of a new client or one that comes back.
ClientConnects(i, n) ==
  /\ connects < MaxConnects
  /\ i <= registered + 1
  /\ connects' = connects + 1
  /\ registered' = IF i > registered THEN i ELSE registered
  /\ name' = [name EXCEPT ![i] = n]
  /\ renamed' = renamed \ {i}
  /\ bore' = bore \cup {<<n, i>>}
  /\ listeners' = [l \in DOMAIN listeners |-> Resolved(listeners[l], n, i)]
  /\ UNCHANGED <<listenerVars, requests, responses>>

\* disconnect(): the world's entry is cleared; listeners are not looked at.
ClientLeaves(i) ==
  /\ i \in Connected
  /\ name' = [name EXCEPT ![i] = NoName]
  /\ renamed' = renamed \ {i}
  /\ UNCHANGED <<connects, registered, bore, listeners, listenerVars, requests,
                 responses>>

\* An EnvUserState of the client: its name becomes the one in the bundle.
ClientRenames(i, n) ==
  /\ i \in Connected
  /\ n # name[i]
  /\ name' = [name EXCEPT ![i] = n]
  /\ renamed' = renamed \cup {i}
  /\ bore' = bore \cup {<<n, i>>}
  /\ UNCHANGED <<connects, registered, listeners, listenerVars, requests,
                 responses>>

-----------------------------------------------------------------------------
(* Listeners.                                                              *)

\* initialize(): connect, then send NewListenerConnection.
Listen(p, names) ==
  /\ p \notin Running
  /\ Len(listeners) + Cardinality(requests) < MaxListens
  /\ asked' = [q \in Running \cup {p} |-> IF q = p THEN names ELSE asked[q]]
  /\ indexOf' = [q \in Running \cup {p} |-> IF q = p THEN [n \in names |-> None]
                                                     ELSE indexOf[q]]
  /\ requests' = requests \cup {p}
  /\ net_id' = [q \in Running \cup {p} |-> IF q = p THEN None ELSE net_id[q]]
  /\ UNCHANGED <<clientVars, listeners, responses>>

\* What the network holds for and of a process that ends is lost; its entry in
\* the server stays.
ListenerEnds(p) ==
  /\ p \in Running
  /\ asked' = [q \in Running \ {p} |-> asked[q]]
  /\ indexOf' = [q \in Running \ {p} |-> indexOf[q]]
  /\ net_id' = [q \in Running \ {p} |-> net_id[q]]
  /\ requests' = requests \ {p}
  /\ responses' = [q \in DOMAIN responses \ {p} |-> responses[q]]
  /\ UNCHANGED <<clientVars, listeners>>

\* The first client in the world with the name, if there is one; the variants
\* are off by one, and look for any other name.
FoundPast(n) ==
  LET found == {i \in 1 .. registered : name[i] = n}
  IN  IF found = {} THEN None ELSE 1 + CHOOSE i \in found : \A j \in found : i <= j
FoundNot(n) ==
  LET found == {i \in Connected : name[i] # n}
  IN  IF found = {} THEN None ELSE CHOOSE i \in found : \A j \in found : i <= j
Found(n) ==
  LET found == {i \in 1 .. registered : name[i] = n}
  IN  IF found = {} THEN None ELSE CHOOSE i \in found : \A j \in found : i <= j

\* NewListenerConnection: each one gets an entry of its own at the end.
HandleNewListener(p) ==
  /\ p \in requests
  /\ requests' = requests \ {p}
  /\ LET indices == [n \in asked[p] |-> Found(n)]
         entry == [mask |-> {indices[n] : n \in asked[p]} \ {None},
                   unresolved |-> {n \in asked[p] : indices[n] = None}]
     IN  /\ listeners' = Append(listeners, entry)
         /\ responses' = [q \in DOMAIN responses \cup {p} |->
                            IF q = p THEN [id |-> Len(listeners) + 1,
                                           clientIndices |-> indices]
                                     ELSE responses[q]]
  /\ UNCHANGED <<clientVars, listenerVars>>

ReceiveResponse(p) ==
  /\ p \in DOMAIN responses
  /\ indexOf' = [indexOf EXCEPT ![p] = responses[p].clientIndices]
  /\ net_id' = [net_id EXCEPT ![p] = responses[p].id]
  /\ responses' = [q \in DOMAIN responses \ {p} |-> responses[q]]
  /\ UNCHANGED <<clientVars, listeners, asked, requests>>

-----------------------------------------------------------------------------
Init ==
  /\ connects = 0
  /\ registered = 0
  /\ name = [i \in Clients |-> NoName]
  /\ renamed = {}
  /\ bore = {}
  /\ listeners = <<>>
  /\ asked = <<>>
  /\ indexOf = <<>>
  /\ net_id = <<>>
  /\ requests = {}
  /\ responses = <<>>

Next ==
  \/ \E i \in Clients :
       \/ ClientLeaves(i)
       \/ \E n \in Names : ClientConnects(i, n) \/ ClientRenames(i, n)
  \/ \E p \in ListenerIds :
       \/ \E names \in SUBSET Names : Listen(p, names)
       \/ ListenerEnds(p)
       \/ HandleNewListener(p)
       \/ ReceiveResponse(p)

Spec == Init /\ [][Next]_vars

-----------------------------------------------------------------------------
(* Properties.                                                             *)

\* Types; every index a listener is given exists.
TypeOK ==
  /\ connects \in 0 .. MaxConnects
  /\ registered \in 0 .. N
  /\ name \in [Clients -> Names \cup {NoName}]
  /\ renamed \subseteq Connected
  /\ bore \subseteq Names \X (1 .. registered)
  /\ listeners \in Seq([mask : SUBSET (1 .. registered),
                        unresolved : SUBSET Names])
  /\ Running \subseteq ListenerIds
  /\ DOMAIN indexOf = Running /\ DOMAIN net_id = Running
  /\ \A p \in Running : /\ asked[p] \subseteq Names
                        /\ indexOf[p] \in [asked[p] -> 0 .. registered]
                        /\ net_id[p] \in {None} \cup DOMAIN listeners
  /\ requests \subseteq Running
  /\ DOMAIN responses \subseteq Running \ requests
  /\ \A p \in DOMAIN responses :
       responses[p] \in [id : DOMAIN listeners,
                         clientIndices : [asked[p] -> 0 .. registered]]

\* No listener waits for a client that is there, whichever of the two came
\* first and however often the client came and went; except one that took the
\* name while it was connected (an EnvUserState), which nobody looks for.
AwaitedAreAbsent ==
  \A l \in DOMAIN listeners : \A n \in listeners[l].unresolved :
    \A i \in Connected : name[i] = n => i \in renamed

\* The entry a listener is told is its own is: it has the names the listener
\* asked for, each awaited or with a client in the mask that had the name; and
\* the indices the listener has are among those, however the world has changed
\* since the response was written.
EntryIsOwn ==
  \A p \in Running : net_id[p] # None =>
    LET e == listeners[net_id[p]]
    IN  \A n \in asked[p] :
          /\ n \in e.unresolved \/ \E i \in e.mask : <<n, i>> \in bore
          /\ indexOf[p][n] # None =>
               indexOf[p][n] \in e.mask /\ <<n, indexOf[p][n]>> \in bore
=============================================================================
