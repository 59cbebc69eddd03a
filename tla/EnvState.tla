------------------------------ MODULE EnvState -------------------------------
(***************************************************************************)
(* The environment messages (modules/env/env_common.h): the bundles that   *)
(* say what is so of a user or of the music.  net::ServerState stores the  *)
(* latest bundle of each (net::EnvState), relays it as it came, sends all  *)
(* it has to a newcomer, answers requests, and announces who leaves        *)
(* (core/net/server.cpp); net::ClientState hands what arrives, and what it *)
(* sends itself, to its consumers (core/net/client.cpp), whose copies are  *)
(* the last bundle they were handed.                                       *)
(*                                                                         *)
(* Environment messages are reliable and all travel on ENet channel 0, so  *)
(* they arrive in the order they were sent if they take the same peer.     *)
(* The server's own go to the peer of the Environment channel, relayed     *)
(* ones to that of the first user signal: for a client with separate       *)
(* ports, whose offers the server has adopted, these are two.              *)
(*                                                                         *)
(* A user is its index plus one.  How indices are given out, and what else *)
(* a connection changes, is module Session; clients register here in the   *)
(* order of their numbers.  Left out: the scene and the test bundle, which *)
(* are handled as the music is but not sent to a newcomer.                 *)
(***************************************************************************)
EXTENDS Integers, Sequences, FiniteSets, SequencesExt

CONSTANTS
  N,          \* clients
  Separate,   \* those without single_port_operation
  MaxStarts,  \* bound: runs of all the clients together
  MaxSent     \* bound: messages the clients send together

Clients == 1 .. N

ASSUME EnvStateAssumption ==
  /\ N \in Nat
  /\ Separate \subseteq Clients
  /\ MaxStarts \in Nat
  /\ MaxSent \in Nat

\* What a user's bundle says of it: nothing was heard, the name it connected
\* with and no more, or what the n-th message, one of i's, says.  The negative
\* of one is the same with its names blank, as a user may have them, and as
\* those of a user who has left are (isActive is 1 in all of them).
Unknown == 0
Named == 1
Look(i, n) == Named + N * (n - 1) + i
LooksOf(i) ==
  {Look(i, n) : n \in 1 .. MaxSent} \cup {-Look(i, n) : n \in 1 .. MaxSent}
Looks == -Look(N, MaxSent) .. Look(N, MaxSent)

IsBlank(look) == look < 0
Blanked(look) == IF IsBlank(look) THEN look ELSE -look

NoMusic == 0    \* EnvMusicState{}, musicKnown is false
Nobody == 0
First == 1      \* userID of state_provider, which does not know its client's

VARIABLES
  starts,      \* runs of the clients so far
  sent,        \* messages the clients have sent so far
  phase,       \* of each client: "down", "joining" (NewConnection sent),
               \* "registered" (handled), "in" (has its userIdx)
  offers,      \* PortOverrides of a client in flight, by host
  toServer,    \* its environment messages in flight
  userCopy,    \* its consumers' copies of the user states
  musicCopy,   \* and of the music state
  asked,       \* history: an EnvMusicRequest has come to it in this run
  played,      \* history: it has sent a music state in this run
  conn,        \* ClientDataInServer::is_connected()
  adopted,     \* hosts whose peers the entry holds besides the control one
  toClient,    \* messages in flight to a client: <<host, message>>
  userStates,  \* EnvState::userStates
  music        \* EnvState::musicState, or NoMusic

clientVars == <<starts, sent, phase, offers, toServer, userCopy, musicCopy,
                asked, played>>
serverVars == <<conn, adopted, toClient, userStates, music>>
vars == <<clientVars, serverVars>>

Users == DOMAIN userStates

\* The entry's peers are those of the client's process that runs now.
Live(i) == conn[i] /\ phase[i] \in {"registered", "in"}

-----------------------------------------------------------------------------
(* Messages.                                                               *)

UserState(i, look) == [type |-> "UserState", user |-> i, look |-> look]
MusicState(m) == [type |-> "MusicState", music |-> m]
MusicRequest == [type |-> "MusicRequest"]
UserRequest(j) == [type |-> "UserRequest", user |-> j]

\* peer_per_channel[Environment], peer_per_channel[2]
EnvHost(i) == IF "env" \in adopted[i] THEN "env" ELSE "control"
SignalHost(i) == IF "signal" \in adopted[i] THEN "signal" ELSE "control"

\* The messages msgs, sent with send_env_msg; the packet m, sent by
\* broadcast_signal.
ByEnv(i, msgs) == [k \in 1 .. Len(msgs) |-> <<EnvHost(i), msgs[k]>>]
BySignal(i, m) == <<<<SignalHost(i), m>>>>

\* What the server sends, out[k] to each user k, reaches the processes its peers
\* belong to.
Send(out) ==
  toClient' = [k \in Clients |-> IF Live(k) THEN toClient[k] \o out[k]
                                            ELSE toClient[k]]

-----------------------------------------------------------------------------
(* The client.                                                             *)

\* A process starts and connects.  Nothing of an earlier run is in the network
\* any more (see Session!Connect).
Join(i) ==
  /\ phase[i] = "down"
  /\ starts < MaxStarts
  /\ starts' = starts + 1
  /\ phase' = [phase EXCEPT ![i] = "joining"]
  /\ offers' = [offers EXCEPT ![i] = {}]
  /\ toServer' = [toServer EXCEPT ![i] = <<>>]
  /\ UNCHANGED <<sent, userCopy, musicCopy, asked, played, serverVars>>

\* It ends, or crashes; what it sent may still arrive.
Stop(i) ==
  /\ phase[i] # "down"
  /\ phase' = [phase EXCEPT ![i] = "down"]
  /\ toClient' = [toClient EXCEPT ![i] = <<>>]
  /\ userCopy' = [userCopy EXCEPT ![i] = [j \in Clients |-> Unknown]]
  /\ musicCopy' = [musicCopy EXCEPT ![i] = NoMusic]
  /\ asked' = [asked EXCEPT ![i] = FALSE]
  /\ played' = [played EXCEPT ![i] = FALSE]
  /\ UNCHANGED <<starts, sent, offers, toServer, conn, adopted, userStates,
                 music>>

\* Its ConnectionInfo arrives, on an ENet channel of its own.
LearnIndex(i) ==
  /\ phase[i] = "registered"
  /\ phase' = [phase EXCEPT ![i] = "in"]
  /\ offers' = [offers EXCEPT ![i] = IF i \in Separate THEN {"env", "signal"}
                                                       ELSE {}]
  /\ UNCHANGED <<starts, sent, toServer, userCopy, musicCopy, asked, played,
                 serverVars>>

\* What ProcessSignalData of its consumers makes of a bundle.
UserCopyAfter(i, m) ==
  IF m.type = "UserState" THEN [userCopy EXCEPT ![i][m.user] = m.look]
                          ELSE userCopy
MusicCopyAfter(i, m) ==
  IF m.type = "MusicState" THEN [musicCopy EXCEPT ![i] = m.music] ELSE musicCopy

\* A client the server has disconnected is not told.  Its messages still arrive
\* if the server did not know, and so did not reset, the peer they take.
ReachesServer(i) == conn[i] \/ (i \in Separate /\ "env" \notin adopted[i])

\* _process_outgoing_signal: the bundle goes to the server and, as it is
\* (isReflexive), to the client's own consumers.
SendEnv(i, m) ==
  /\ phase[i] = "in"
  /\ sent < MaxSent
  /\ sent' = sent + 1
  /\ toServer' = [toServer EXCEPT ![i] =
                    IF ReachesServer(i) THEN Append(@, m) ELSE @]
  /\ userCopy' = UserCopyAfter(i, m)
  /\ musicCopy' = MusicCopyAfter(i, m)
  /\ played' = [played EXCEPT ![i] = @ \/ m.type = "MusicState"]
  /\ UNCHANGED <<starts, phase, offers, asked, serverVars>>

\* What a client may say next; not every producer knows the client's index, and
\* not every user has a name.
NextMessages(i) ==
  {UserState(i, Look(i, sent + 1)), UserState(First, Look(i, sent + 1)),
   UserState(i, -Look(i, sent + 1))}
    \cup {MusicState(sent + 1), MusicRequest}
    \cup {UserRequest(j) : j \in Users \ {i}}

\* The k-th message in flight is the first of its host's.
Arrives(i, k) ==
  \A l \in 1 .. k - 1 : toClient[i][l][1] # toClient[i][k][1]

Receive(i) ==
  /\ phase[i] \in {"registered", "in"}
  /\ \E k \in DOMAIN toClient[i] :
       LET m == toClient[i][k][2]
       IN  /\ Arrives(i, k)
           /\ toClient' = [toClient EXCEPT ![i] = RemoveAt(@, k)]
           /\ userCopy' = UserCopyAfter(i, m)
           /\ musicCopy' = MusicCopyAfter(i, m)
           /\ asked' = [asked EXCEPT ![i] = @ \/ m.type = "MusicRequest"]
  /\ UNCHANGED <<starts, sent, phase, offers, toServer, played, conn, adopted,
                 userStates, music>>

-----------------------------------------------------------------------------
(* The server.                                                             *)

\* disconnect(i) of a connected user, as far as the entry goes.
Departs(i) ==
  /\ conn' = [conn EXCEPT ![i] = FALSE]
  /\ offers' = [offers EXCEPT ![i] = @ \ adopted[i]]
  /\ toServer' = [toServer EXCEPT ![i] =
                    IF i \notin Separate \/ "env" \in adopted[i] THEN <<>>
                    ELSE @]

\* What disconnect(i) tells the user k; the variant tells nobody.
FarewellNot(i, k) == <<>>
Farewell(i, k) ==
  IF conn[i] /\ k # i THEN ByEnv(k, <<UserState(i, Blanked(userStates[i]))>>)
                      ELSE <<>>

\* check_disconnected, or the loss of a peer.
Disconnect(i) ==
  /\ conn[i]
  /\ Departs(i)
  /\ userStates' = [userStates EXCEPT ![i] = Blanked(@)]
  /\ toClient' = [k \in Clients |->
                    IF k = i THEN <<>>
                    ELSE IF Live(k) THEN toClient[k] \o Farewell(i, k)
                    ELSE toClient[k]]
  /\ UNCHANGED <<starts, sent, phase, userCopy, musicCopy, asked, played,
                 adopted, music>>

\* send_initial_worldstate: the music, or a request for it; then the state of
\* each other user, whether or not it is connected.  The variants ask nobody,
\* and stop at the newcomer's index.
MusicNewsKnown(i) == IF music = NoMusic THEN <<>> ELSE <<MusicState(music)>>
MusicNews(i) == <<IF music = NoMusic THEN MusicRequest ELSE MusicState(music)>>

OtherUsersBelow(i) == {j \in Users : j < i}
OtherUsers(i) == Users \ {i}

\* The k-th of all users but i, in the order of their indices.
OtherUser(i, k) == IF k < i THEN k ELSE k + 1

InitialWorldState(i) ==
  MusicNews(i) \o [k \in 1 .. Cardinality(OtherUsers(i)) |->
                     UserState(OtherUser(i, k), userStates[OtherUser(i, k)])]

\* initialize_environment_user_state; the variant's resize is one short.
InitializedShort(i) ==
  [j \in Users |-> IF j = i THEN Named ELSE userStates[j]]
Initialized(i) ==
  [j \in Users \cup {i} |-> IF j = i THEN Named ELSE userStates[j]]

\* The entry of a process that was not noticed to be gone is disconnected first.
\* The news of i to each user without peers goes to a stale pointer: nowhere, or
\* to whichever client's connection ENet has put in its place.
HandleNewConnection(i) ==
  /\ phase[i] = "joining"
  /\ i <= Len(userStates) + 1
  /\ phase' = [phase EXCEPT ![i] = "registered"]
  /\ conn' = [conn EXCEPT ![i] = TRUE]
  /\ adopted' = [adopted EXCEPT ![i] = {}]
  /\ userStates' = Initialized(i)
  /\ \E stray \in {Nobody} \cup (IF \A j \in Users \ {i} : conn[j]
                                   THEN {} ELSE Clients) :
       LET news(k) == ByEnv(k, <<UserState(i, Named)>>)
           strayNews(k) == IF k = stray THEN news(k) ELSE <<>>
       IN  toClient' =
             [k \in Clients |->
                IF k = i
                  THEN [l \in 1 .. Len(InitialWorldState(i)) |->
                          <<"control", InitialWorldState(i)[l]>>]
                ELSE IF Live(k)
                  THEN toClient[k] \o Farewell(i, k) \o news(k) \o strayNews(k)
                ELSE toClient[k]]
  /\ UNCHANGED <<starts, sent, offers, toServer, userCopy, musicCopy, asked,
                 played, music>>

\* A PortOverride that arrives while the entry has no peers is written beyond
\* the end of the vector.
HandlePortOverride(i, h) ==
  /\ h \in offers[i]
  /\ offers' = [offers EXCEPT ![i] = @ \ {h}]
  /\ adopted' = [adopted EXCEPT ![i] = IF conn[i] THEN @ \cup {h} ELSE @]
  /\ UNCHANGED <<starts, sent, phase, toServer, userCopy, musicCopy, asked,
                 played, conn, toClient, userStates, music>>

\* A user's bundle is taken for its sender's whatever userID it carries, in the
\* stored state and in the packet that is relayed; the variant believes it.
AsSenderNot(m, i) == m
AsSender(m, i) == IF m.type = "UserState" THEN [m EXCEPT !.user = i] ELSE m

\* The server's answer, to the sender only.
Answer(m) ==
  CASE m.type = "MusicRequest" -> <<MusicState(music)>>
    [] m.type = "UserRequest" -> <<UserState(m.user, userStates[m.user])>>
    [] OTHER -> <<>>

\* Who gets the packet; the variant returns it to its sender.
RelayedToAll(i, k) == TRUE
RelayedTo(i, k) == k # i

\* Only messages of connected users are handled; the variant handles all.
HandledAlways(i) == TRUE
Handled(i) == conn[i]

HandleEnv(i) ==
  /\ toServer[i] # <<>>
  /\ toServer' = [toServer EXCEPT ![i] = Tail(@)]
  /\ LET m == AsSender(Head(toServer[i]), i)
     IN  IF Handled(i)
           THEN /\ userStates' = IF m.type = "UserState"
                                   THEN [userStates EXCEPT ![i] = m.look]
                                   ELSE userStates
                /\ music' = IF m.type = "MusicState" THEN m.music ELSE music
                /\ Send([k \in Clients |->
                          (IF k = i THEN ByEnv(k, Answer(m)) ELSE <<>>)
                             \o (IF RelayedTo(i, k) THEN BySignal(k, m)
                                                    ELSE <<>>)])
           ELSE UNCHANGED <<userStates, music, toClient>>
  /\ UNCHANGED <<starts, sent, phase, offers, userCopy, musicCopy, asked,
                 played, conn, adopted>>

-----------------------------------------------------------------------------
Init ==
  /\ starts = 0
  /\ sent = 0
  /\ phase = [i \in Clients |-> "down"]
  /\ offers = [i \in Clients |-> {}]
  /\ toServer = [i \in Clients |-> <<>>]
  /\ userCopy = [i \in Clients |-> [j \in Clients |-> Unknown]]
  /\ musicCopy = [i \in Clients |-> NoMusic]
  /\ asked = [i \in Clients |-> FALSE]
  /\ played = [i \in Clients |-> FALSE]
  /\ conn = [i \in Clients |-> FALSE]
  /\ adopted = [i \in Clients |-> {}]
  /\ toClient = [i \in Clients |-> <<>>]
  /\ userStates = <<>>
  /\ music = NoMusic

Next ==
  \E i \in Clients :
    \/ Join(i)
    \/ Stop(i)
    \/ LearnIndex(i)
    \/ \E m \in NextMessages(i) : SendEnv(i, m)
    \/ Receive(i)
    \/ Disconnect(i)
    \/ HandleNewConnection(i)
    \/ \E h \in {"env", "signal"} : HandlePortOverride(i, h)
    \/ HandleEnv(i)

Spec == Init /\ [][Next]_vars

-----------------------------------------------------------------------------
(* Properties.                                                             *)

\* Types; every connected user has a stored state (the assertion in
\* disconnect()).
TypeOK ==
  /\ starts \in 0 .. MaxStarts /\ sent \in 0 .. MaxSent
  /\ phase \in [Clients -> {"down", "joining", "registered", "in"}]
  /\ \A i \in Clients : /\ offers[i] \subseteq {"env", "signal"}
                        /\ adopted[i] \subseteq {"env", "signal"}
  /\ userCopy \in [Clients -> [Clients -> Looks]]
  /\ musicCopy \in [Clients -> 0 .. MaxSent]
  /\ asked \in [Clients -> BOOLEAN]
  /\ played \in [Clients -> BOOLEAN]
  /\ conn \in [Clients -> BOOLEAN]
  /\ userStates \in Seq(Looks \ {Unknown}) /\ Len(userStates) <= N
  /\ \A i \in Clients : conn[i] => i \in Users
  /\ music \in 0 .. MaxSent

\* Where, among the messages in flight to i, those of one kind are.
UserNews(i, j) ==
  {k \in DOMAIN toClient[i] :
     toClient[i][k][2].type = "UserState" /\ toClient[i][k][2].user = j}
MusicMessages(i, type) ==
  {k \in DOMAIN toClient[i] : toClient[i][k][2].type = type}

\* What i will have of user j, and as the music, when all in flight has arrived.
FinalCopy(i, j) ==
  IF UserNews(i, j) = {} THEN userCopy[i][j]
                         ELSE toClient[i][Max(UserNews(i, j))][2].look
FinalMusic(i) ==
  LET news == MusicMessages(i, "MusicState")
  IN  IF news = {} THEN musicCopy[i] ELSE toClient[i][Max(news)][2].music

Ordered(i) == Live(i) /\ i \notin Separate

\* A user on a single port misses nothing of the others, joining, leaving,
\* coming back or changing at any moment: when what is in flight has arrived,
\* its copy of every other user's state is the server's, unless it is one of
\* its own bundles, handed to its consumers with the userID it was made with.
UserStatesReach ==
  \A i \in Clients : Ordered(i) =>
    \A j \in Users \ {i} :
      FinalCopy(i, j) = userStates[j] \/ FinalCopy(i, j) \in LooksOf(i)

\* Nothing but blank names says of a user that it has left.  They stay blank
\* until it connects again, whatever of it still arrives, in the stored state
\* and, when what is in flight has arrived, in the copies of the others, so that
\* a newcomer and a user who was there all the time agree that it has.
GoneIsBlank ==
  \A j \in Users : ~conn[j] =>
    /\ IsBlank(userStates[j])
    /\ \A i \in Clients \ {j} : Ordered(i) =>
         IsBlank(FinalCopy(i, j)) \/ FinalCopy(i, j) \in LooksOf(i)

\* The copy such a user has of the music is the server's too, unless it has
\* played something itself (its own state may cross another's); while nobody has
\* played, every user is asked.
MusicReaches ==
  \A i \in Clients : Ordered(i) =>
    /\ ~played[i] => FinalMusic(i) = music
    /\ music = NoMusic =>
         asked[i] \/ MusicMessages(i, "MusicRequest") # {}

-----------------------------------------------------------------------------
\* "Producers don't have easy access to the userID from the server", so the
\* server takes a bundle for its sender's (and README.md: userId is "Client ID
\* of the user").  No client has the state of one user for another's.
CopyIsOfTheUser ==
  \A i, j \in Clients : \A k \in Clients \ {j} :
    phase[i] = "in" => userCopy[i][j] \notin LooksOf(k)
=============================================================================
