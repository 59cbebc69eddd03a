---------------------------- MODULE EnvState_proofs ----------------------------
(***************************************************************************)
(* Proofs about EnvState, for any number of clients, whichever of them     *)
(* have ports of their own, and any number of runs and messages.           *)
(***************************************************************************)
EXTENDS EnvState, FiniteSetTheorems, SequenceTheorems, TLAPS

-----------------------------------------------------------------------------
(* What sequences of messages say.                                         *)

\* Who a message says something of, and what: a user, or the music (Nobody); a
\* request says nothing.
Silent == -1
Subject(m) ==
  IF m.type = "UserState" THEN m.user
  ELSE IF m.type = "MusicState" THEN Nobody ELSE Silent
Content(m) == IF m.type = "UserState" THEN m.look ELSE m.music

\* Whoever has copy c of the state of j has copy v of it when the messages s
\* have arrived in their order.
Says(s, j, c, v) ==
  \/ v = c /\ \A k \in DOMAIN s : Subject(s[k][2]) # j
  \/ \E k \in DOMAIN s :
       /\ Subject(s[k][2]) = j /\ Content(s[k][2]) = v
       /\ \A l \in DOMAIN s : l > k => Subject(s[l][2]) # j

-----------------------------------------------------------------------------
(* The inductive invariant.                                                *)

\* Messages on their way.
Speakers(i) == {i, First}
ClientMessages(i) ==
  {UserState(u, look) : u \in Speakers(i), look \in LooksOf(i)}
    \cup {MusicState(m) : m \in 1 .. MaxSent}
    \cup {MusicRequest} \cup {UserRequest(j) : j \in Clients}
ServerMessages ==
  {UserState(u, look) : u \in Clients, look \in Looks \ {Unknown}}
    \cup {MusicState(m) : m \in 0 .. MaxSent}
    \cup {MusicRequest} \cup {UserRequest(j) : j \in Clients}
Ports == {"control", "env", "signal"}

Mail ==
  /\ toServer \in [Clients -> Seq(UNION {ClientMessages(i) : i \in Clients})]
  /\ toClient \in [Clients -> Seq(Ports \X ServerMessages)]
  /\ \A i \in Clients : \A k \in DOMAIN toServer[i] :
       /\ toServer[i][k] \in ClientMessages(i)
       /\ toServer[i][k].type = "UserRequest" => toServer[i][k].user \in Users

\* Who is not connected has no names.
BlankWhileGone == \A i \in Users : ~conn[i] => IsBlank(userStates[i])

\* Who is registered has a state.
Registered == \A i \in Clients : phase[i] \in {"registered", "in"} => i \in Users

\* A client on a single port is sent everything on it.
SinglePort ==
  \A i \in Clients \ Separate :
    /\ offers[i] = {} /\ adopted[i] = {}
    /\ \A k \in DOMAIN toClient[i] : toClient[i][k][1] = "control"

\* A process starts with nothing; a music state on its way to the server is of
\* the run that goes on, if one does.
FreshStart ==
  \A i \in Clients :
    /\ phase[i] \in {"down", "joining"} => musicCopy[i] = NoMusic /\ ~played[i]
    /\ phase[i] # "down" =>
         \A k \in DOMAIN toServer[i] :
           toServer[i][k].type = "MusicState" => played[i]

\* UserStatesReach and MusicReaches, in terms of what the messages say.
UserNewsInv ==
  \A i \in Clients : Ordered(i) =>
    \A j \in Users \ {i} :
      \E v : /\ Says(toClient[i], j, userCopy[i][j], v)
             /\ v = userStates[j] \/ v \in LooksOf(i)
MusicNewsInv ==
  \A i \in Clients : Ordered(i) /\ ~played[i] =>
    Says(toClient[i], Nobody, musicCopy[i], music)
MusicAskedInv ==
  \A i \in Clients : Ordered(i) /\ music = NoMusic =>
    \/ asked[i]
    \/ \E k \in DOMAIN toClient[i] : toClient[i][k][2] = MusicRequest

EnvInv ==
  /\ TypeOK /\ Mail /\ Registered /\ BlankWhileGone /\ SinglePort /\ FreshStart
  /\ UserNewsInv /\ MusicNewsInv /\ MusicAskedInv

-----------------------------------------------------------------------------
(* What messages and sequences of them say.                                *)

LEMMA LookFacts ==
  /\ Named \in Looks \ {Unknown} /\ Unknown \in Looks
  /\ \A i \in Clients : LooksOf(i) \subseteq Looks \ {Unknown}
  /\ \A i \in Clients, n \in 1 .. MaxSent :
       Look(i, n) \in LooksOf(i) /\ -Look(i, n) \in LooksOf(i)
  /\ \A look \in Looks \ {Unknown} :
       Blanked(look) \in Looks \ {Unknown} /\ IsBlank(Blanked(look))
<1>1. ASSUME NEW i \in Clients, NEW n \in 1 .. MaxSent
      PROVE  Look(i, n) \in Named + 1 .. Look(N, MaxSent)
  <2>1. N \in Nat /\ MaxSent \in Nat /\ i \in 1 .. N
    BY EnvStateAssumption DEF Clients
  <2>2. PICK a \in Nat, b \in Nat : a = n - 1 /\ b = MaxSent - n
    BY <2>1
  <2>3. N * a \in Nat /\ N * b \in Nat
    BY <2>1
  <2>4. N * (MaxSent - 1) = N * a + N * b
    BY <2>1, <2>2
  <2>5. QED
    BY <2>1, <2>2, <2>3, <2>4 DEF Look, Named
<1>2. Look(N, MaxSent) \in Nat /\ Look(N, MaxSent) >= Named
  <2>1. N \in Nat /\ MaxSent \in Nat
    BY EnvStateAssumption
  <2>2. N * (MaxSent - 1) + N = N * MaxSent /\ N * MaxSent \in Nat
    BY <2>1
  <2>3. N * (MaxSent - 1) \in Int
    BY <2>1
  <2>4. QED
    BY <2>1, <2>2, <2>3 DEF Look, Named
<1>3. PICK top \in Nat : top = Look(N, MaxSent) /\ top >= Named
  BY <1>2
<1>4. \A i \in Clients : LooksOf(i) \subseteq Looks \ {Unknown}
  <2>1. ASSUME NEW i \in Clients, NEW n \in 1 .. MaxSent
        PROVE  /\ Look(i, n) \in Looks \ {Unknown}
               /\ -Look(i, n) \in Looks \ {Unknown}
    BY <1>1, <1>3 DEF Looks, Unknown, Named
  <2>2. QED
    BY <2>1 DEF LooksOf
<1>5. \A look \in Looks \ {Unknown} :
        Blanked(look) \in Looks \ {Unknown} /\ IsBlank(Blanked(look))
  BY <1>3 DEF Looks, Unknown, Blanked, IsBlank
<1>6. Named \in Looks \ {Unknown} /\ Unknown \in Looks
  BY <1>3 DEF Looks, Unknown, Named
<1>7. QED
  BY <1>4, <1>5, <1>6 DEF LooksOf

LEMMA SaysUser ==
  ASSUME NEW u \in Nat, NEW look
  PROVE  /\ UserState(u, look).type = "UserState"
         /\ Subject(UserState(u, look)) = u /\ Content(UserState(u, look)) = look
         /\ UserState(u, look).user = u /\ UserState(u, look).look = look
BY DEF UserState, Subject, Content

LEMMA SaysMusic ==
  ASSUME NEW m
  PROVE  /\ MusicState(m).type = "MusicState" /\ MusicState(m).music = m
         /\ Subject(MusicState(m)) = Nobody /\ Content(MusicState(m)) = m
BY DEF MusicState, Subject, Content

LEMMA SaysNothing ==
  /\ MusicRequest.type = "MusicRequest" /\ Subject(MusicRequest) = Silent
  /\ \A j : /\ UserRequest(j).type = "UserRequest" /\ UserRequest(j).user = j
            /\ Subject(UserRequest(j)) = Silent
BY DEF MusicRequest, UserRequest, Subject

\* A message of a client, and of the server, by its type.
LEMMA ClientMessageCases ==
  ASSUME NEW i \in Clients, NEW m \in ClientMessages(i)
  PROVE  \/ \E u \in Speakers(i), look \in LooksOf(i) : m = UserState(u, look)
         \/ \E n \in 1 .. MaxSent : m = MusicState(n)
         \/ m = MusicRequest
         \/ \E j \in Clients : m = UserRequest(j)
BY DEF ClientMessages

LEMMA ServerMessageCases ==
  ASSUME NEW m \in ServerMessages
  PROVE  \/ \E u \in Clients, look \in Looks \ {Unknown} : m = UserState(u, look)
         \/ \E n \in 0 .. MaxSent : m = MusicState(n)
         \/ m = MusicRequest
         \/ \E j \in Clients : m = UserRequest(j)
BY DEF ServerMessages

\* Another message, about somebody else or about j.
LEMMA SaysConcat ==
  ASSUME NEW S, NEW s \in Seq(S), NEW t \in Seq(S), NEW j, NEW c, NEW v,
         Says(s, j, c, v), \A k \in DOMAIN t : Subject(t[k][2]) # j
  PROVE  Says(s \o t, j, c, v)
<1>1. /\ DOMAIN s = 1 .. Len(s) /\ Len(s) \in Nat
      /\ DOMAIN t = 1 .. Len(t) /\ Len(t) \in Nat
      /\ DOMAIN (s \o t) = 1 .. Len(s) + Len(t)
      /\ \A k \in 1 .. Len(s) : (s \o t)[k] = s[k]
      /\ \A k \in Len(s) + 1 .. Len(s) + Len(t) : (s \o t)[k] = t[k - Len(s)]
  OBVIOUS
<1>2. \A k \in DOMAIN (s \o t) : k \notin DOMAIN s =>
        Subject((s \o t)[k][2]) # j
  <2>1. ASSUME NEW k \in DOMAIN (s \o t), k \notin DOMAIN s
        PROVE  k - Len(s) \in DOMAIN t /\ (s \o t)[k] = t[k - Len(s)]
    BY <1>1, <2>1
  <2>2. QED
    BY <2>1
<1>3. \A k \in DOMAIN s : k \in DOMAIN (s \o t) /\ (s \o t)[k] = s[k]
  BY <1>1
<1>4. QED
  BY <1>2, <1>3 DEF Says

LEMMA SaysLast ==
  ASSUME NEW S, NEW s \in Seq(S), NEW e \in S, NEW c
  PROVE  Says(s \o <<e>>, Subject(e[2]), c, Content(e[2]))
<1>1. /\ DOMAIN (s \o <<e>>) = 1 .. Len(s) + 1 /\ Len(s) \in Nat
      /\ (s \o <<e>>)[Len(s) + 1] = e
  OBVIOUS
<1>2. QED
  BY <1>1 DEF Says

\* The first message arrives.
LEMMA SaysTail ==
  ASSUME NEW S, NEW s \in Seq(S), s # <<>>, NEW j, NEW c, NEW v, Says(s, j, c, v)
  PROVE  Says(Tail(s), j, IF Subject(Head(s)[2]) = j THEN Content(Head(s)[2]) ELSE c,
              v)
<1>1. /\ DOMAIN s = 1 .. Len(s) /\ Len(s) \in Nat \ {0} /\ Head(s) = s[1]
      /\ DOMAIN Tail(s) = 1 .. Len(s) - 1
      /\ \A k \in DOMAIN Tail(s) : Tail(s)[k] = s[k + 1] /\ k + 1 \in DOMAIN s
  OBVIOUS
<1>2. CASE v = c /\ \A k \in DOMAIN s : Subject(s[k][2]) # j
  BY <1>1, <1>2 DEF Says
<1>3. ASSUME NEW k \in DOMAIN s, Subject(s[k][2]) = j, Content(s[k][2]) = v,
             \A l \in DOMAIN s : l > k => Subject(s[l][2]) # j
      PROVE  Says(Tail(s), j,
                  IF Subject(Head(s)[2]) = j THEN Content(Head(s)[2]) ELSE c, v)
  <2>1. \A l \in DOMAIN Tail(s) : l + 1 > k => Subject(Tail(s)[l][2]) # j
    BY <1>1, <1>3
  <2>2. CASE k = 1
    <3>1. \A l \in DOMAIN Tail(s) : Subject(Tail(s)[l][2]) # j
      BY <1>1, <2>1, <2>2
    <3>2. QED
      BY <1>1, <1>3, <2>2, <3>1 DEF Says
  <2>3. CASE k # 1
    <3>1. PICK l \in DOMAIN Tail(s) : l + 1 = k
      <4>1. k - 1 \in DOMAIN Tail(s) /\ (k - 1) + 1 = k
        BY <1>1, <1>3, <2>3
      <4>2. QED
        BY <4>1
    <3>2. Tail(s)[l] = s[k] /\ \A n \in DOMAIN Tail(s) : n > l => n + 1 > k
      BY <1>1, <3>1
    <3>3. QED
      BY <1>3, <2>1, <3>1, <3>2 DEF Says
  <2>4. QED
    BY <2>2, <2>3
<1>4. QED
  BY <1>2, <1>3 DEF Says

\* What the messages in flight say is what will be had.
LEMMA FinalCopies ==
  ASSUME EnvInv, NEW i \in Clients
  PROVE  /\ \A j \in Clients : \A v :
              Says(toClient[i], j, userCopy[i][j], v) => FinalCopy(i, j) = v
         /\ \A v : Says(toClient[i], Nobody, musicCopy[i], v) => FinalMusic(i) = v
<1>1. PICK s : s = toClient[i]
  OBVIOUS
<1>2. s \in Seq(Ports \X ServerMessages)
  BY <1>1 DEF EnvInv, Mail
<1>3. ASSUME NEW k \in DOMAIN s
      PROVE  /\ \A j \in Clients : Subject(s[k][2]) = j <=>
                  s[k][2].type = "UserState" /\ s[k][2].user = j
             /\ s[k][2].type = "UserState" => Content(s[k][2]) = s[k][2].look
             /\ Subject(s[k][2]) = Nobody <=> s[k][2].type = "MusicState"
             /\ s[k][2].type = "MusicState" => Content(s[k][2]) = s[k][2].music
  <2>1. PICK m \in ServerMessages : m = s[k][2]
    BY <1>2
  <2>2. /\ \A j \in Clients : j \in Nat /\ j # Nobody /\ j # Silent
        /\ Silent # Nobody
    BY EnvStateAssumption DEF Clients, Nobody, Silent
  <2>3. CASE \E u \in Clients, look \in Looks \ {Unknown} : m = UserState(u, look)
    BY <2>1, <2>2, <2>3, SaysUser
  <2>4. CASE \E n \in 0 .. MaxSent : m = MusicState(n)
    BY <2>1, <2>2, <2>4, SaysMusic
  <2>5. CASE m = MusicRequest \/ \E j \in Clients : m = UserRequest(j)
    BY <2>1, <2>2, <2>5, SaysNothing
  <2>6. QED
    BY <2>3, <2>4, <2>5, ServerMessageCases
<1>4. ASSUME NEW j \in Clients, NEW v, Says(s, j, userCopy[i][j], v)
      PROVE  FinalCopy(i, j) = v
  <2>1. UserNews(i, j) = {k \in DOMAIN s : Subject(s[k][2]) = j}
    BY <1>1, <1>3 DEF UserNews
  <2>2. CASE v = userCopy[i][j] /\ \A k \in DOMAIN s : Subject(s[k][2]) # j
    BY <2>1, <2>2 DEF FinalCopy
  <2>3. ASSUME NEW k \in DOMAIN s, Subject(s[k][2]) = j, Content(s[k][2]) = v,
               \A l \in DOMAIN s : l > k => Subject(s[l][2]) # j
        PROVE  FinalCopy(i, j) = v
    <3>1. k \in UserNews(i, j) /\ \A l \in UserNews(i, j) : k >= l /\ l \in Nat
      BY <1>2, <2>1, <2>3
    <3>2. Max(UserNews(i, j)) = k
      BY <3>1 DEF Max
    <3>3. QED
      BY <1>1, <1>3, <2>3, <3>1, <3>2 DEF FinalCopy
  <2>4. QED
    BY <1>4, <2>2, <2>3 DEF Says
<1>5. ASSUME NEW v, Says(s, Nobody, musicCopy[i], v)
      PROVE  FinalMusic(i) = v
  <2>1. MusicMessages(i, "MusicState") = {k \in DOMAIN s : Subject(s[k][2]) = Nobody}
    BY <1>1, <1>3 DEF MusicMessages
  <2>2. CASE v = musicCopy[i] /\ \A k \in DOMAIN s : Subject(s[k][2]) # Nobody
    BY <2>1, <2>2 DEF FinalMusic
  <2>3. ASSUME NEW k \in DOMAIN s, Subject(s[k][2]) = Nobody, Content(s[k][2]) = v,
               \A l \in DOMAIN s : l > k => Subject(s[l][2]) # Nobody
        PROVE  FinalMusic(i) = v
    <3>1. /\ k \in MusicMessages(i, "MusicState")
          /\ \A l \in MusicMessages(i, "MusicState") : k >= l /\ l \in Nat
      BY <1>2, <2>1, <2>3
    <3>2. Max(MusicMessages(i, "MusicState")) = k
      BY <3>1 DEF Max
    <3>3. QED
      BY <1>1, <1>3, <2>3, <3>1, <3>2 DEF FinalMusic
  <2>4. QED
    BY <1>5, <2>2, <2>3 DEF Says
<1>6. QED
  BY <1>1, <1>4, <1>5

-----------------------------------------------------------------------------
(* Steps in which nobody says anything.                                    *)

\* Who was told something, and stays, has what it was told.
LEMMA NewsKept ==
  ASSUME EnvInv, userStates' = userStates, music' = music,
         \A i \in Clients : Ordered(i)' =>
           /\ Ordered(i)
           /\ toClient'[i] = toClient[i] /\ userCopy'[i] = userCopy[i]
           /\ musicCopy'[i] = musicCopy[i]
           /\ asked'[i] = asked[i] /\ played'[i] = played[i]
  PROVE  UserNewsInv' /\ MusicNewsInv' /\ MusicAskedInv'
<1>1. UserNewsInv /\ MusicNewsInv /\ MusicAskedInv
  BY DEF EnvInv
<1>2. Users' = Users
  BY DEF Users
<1>3. UserNewsInv'
  BY <1>1, <1>2 DEF UserNewsInv
<1>4. MusicNewsInv'
  BY <1>1 DEF MusicNewsInv
<1>5. MusicAskedInv'
  BY <1>1 DEF MusicAskedInv
<1>6. QED
  BY <1>3, <1>4, <1>5

LEMMA JoinStep ==
  ASSUME EnvInv, NEW i \in Clients, Join(i)
  PROVE  EnvInv'
<1>1. /\ phase[i] = "down" /\ starts < MaxStarts /\ starts' = starts + 1
      /\ phase' = [phase EXCEPT ![i] = "joining"]
      /\ offers' = [offers EXCEPT ![i] = {}]
      /\ toServer' = [toServer EXCEPT ![i] = <<>>]
      /\ sent' = sent /\ userCopy' = userCopy /\ musicCopy' = musicCopy
      /\ asked' = asked /\ played' = played /\ conn' = conn /\ adopted' = adopted
      /\ toClient' = toClient /\ userStates' = userStates /\ music' = music
  BY DEF Join, serverVars
<1>2. /\ TypeOK /\ Mail /\ Registered /\ BlankWhileGone /\ SinglePort /\ FreshStart
  BY DEF EnvInv
<1>3. phase' \in [Clients -> {"down", "joining", "registered", "in"}]
      /\ phase'[i] = "joining" /\ \A k \in Clients \ {i} : phase'[k] = phase[k]
  BY <1>1, <1>2 DEF TypeOK
<1>4. Users' = Users
  BY <1>1 DEF Users
<1>5. TypeOK'
  <2>1. starts' \in 0 .. MaxStarts
    BY <1>1, <1>2, EnvStateAssumption DEF TypeOK
  <2>2. \A k \in Clients : offers'[k] \subseteq {"env", "signal"}
    BY <1>1, <1>2 DEF TypeOK, SinglePort, Mail
  <2>3. QED
    BY <1>1, <1>2, <1>3, <1>4, <2>1, <2>2 DEF TypeOK
<1>6. Mail'
  <2>1. toServer \in [Clients -> Seq(UNION {ClientMessages(k) : k \in Clients})]
    BY <1>2 DEF Mail
  <2>2. /\ toServer' \in [Clients -> Seq(UNION {ClientMessages(k) : k \in Clients})]
        /\ \A k \in Clients : toServer'[k] = toServer[k] \/ DOMAIN toServer'[k] = {}
    BY <1>1, <2>1
  <2>3. QED
    BY <1>1, <1>2, <1>4, <2>1, <2>2 DEF Mail
<1>7. Registered' /\ BlankWhileGone' /\ SinglePort'
  BY <1>1, <1>2, <1>3, <1>4 DEF Registered, BlankWhileGone, SinglePort, TypeOK
<1>8. FreshStart'
  <2>1. DOMAIN toServer'[i] = {} /\ \A k \in Clients \ {i} : toServer'[k] = toServer[k]
    BY <1>1, <1>2 DEF Mail
  <2>2. QED
    BY <1>1, <1>2, <1>3, <2>1 DEF FreshStart
<1>9. UserNewsInv' /\ MusicNewsInv' /\ MusicAskedInv'
  BY <1>1, <1>3, NewsKept DEF Ordered, Live
<1>10. QED
  BY <1>5, <1>6, <1>7, <1>8, <1>9 DEF EnvInv

LEMMA StopStep ==
  ASSUME EnvInv, NEW i \in Clients, Stop(i)
  PROVE  EnvInv'
<1>1. /\ phase' = [phase EXCEPT ![i] = "down"]
      /\ toClient' = [toClient EXCEPT ![i] = <<>>]
      /\ userCopy' = [userCopy EXCEPT ![i] = [j \in Clients |-> Unknown]]
      /\ musicCopy' = [musicCopy EXCEPT ![i] = NoMusic]
      /\ asked' = [asked EXCEPT ![i] = FALSE]
      /\ played' = [played EXCEPT ![i] = FALSE]
      /\ starts' = starts /\ sent' = sent /\ offers' = offers
      /\ toServer' = toServer /\ conn' = conn /\ adopted' = adopted
      /\ userStates' = userStates /\ music' = music
  BY DEF Stop
<1>2. /\ TypeOK /\ Mail /\ Registered /\ BlankWhileGone /\ SinglePort /\ FreshStart
  BY DEF EnvInv
<1>3. /\ phase' \in [Clients -> {"down", "joining", "registered", "in"}]
      /\ phase'[i] = "down" /\ \A k \in Clients \ {i} : phase'[k] = phase[k]
  BY <1>1, <1>2 DEF TypeOK
<1>4. Users' = Users
  BY <1>1 DEF Users
<1>5. /\ musicCopy'[i] = NoMusic /\ ~played'[i] /\ DOMAIN toClient'[i] = {}
      /\ \A k \in Clients \ {i} :
           /\ toClient'[k] = toClient[k] /\ userCopy'[k] = userCopy[k]
           /\ musicCopy'[k] = musicCopy[k]
           /\ asked'[k] = asked[k] /\ played'[k] = played[k]
  BY <1>1, <1>2 DEF TypeOK, Mail
<1>6. TypeOK'
  <2>1. userCopy' \in [Clients -> [Clients -> Looks]]
    BY <1>1, <1>2, LookFacts DEF TypeOK
  <2>2. /\ musicCopy' \in [Clients -> 0 .. MaxSent]
        /\ asked' \in [Clients -> BOOLEAN] /\ played' \in [Clients -> BOOLEAN]
    BY <1>1, <1>2, EnvStateAssumption DEF TypeOK, NoMusic
  <2>3. QED
    BY <1>1, <1>2, <1>3, <1>4, <2>1, <2>2 DEF TypeOK
<1>7. Mail'
  <2>1. toClient' \in [Clients -> Seq(Ports \X ServerMessages)]
    BY <1>1, <1>2 DEF Mail
  <2>2. QED
    BY <1>1, <1>2, <1>4, <2>1 DEF Mail
<1>8. Registered' /\ BlankWhileGone' /\ SinglePort'
  BY <1>1, <1>2, <1>3, <1>4, <1>5 DEF Registered, BlankWhileGone, SinglePort, TypeOK
<1>9. FreshStart'
  BY <1>1, <1>2, <1>3, <1>5 DEF FreshStart
<1>10. UserNewsInv' /\ MusicNewsInv' /\ MusicAskedInv'
  BY <1>1, <1>3, <1>5, NewsKept DEF Ordered, Live
<1>11. QED
  BY <1>6, <1>7, <1>8, <1>9, <1>10 DEF EnvInv

LEMMA LearnIndexStep ==
  ASSUME EnvInv, NEW i \in Clients, LearnIndex(i)
  PROVE  EnvInv'
<1>1. /\ phase[i] = "registered" /\ phase' = [phase EXCEPT ![i] = "in"]
      /\ offers' = [offers EXCEPT ![i] = IF i \in Separate THEN {"env", "signal"}
                                                           ELSE {}]
      /\ starts' = starts /\ sent' = sent /\ toServer' = toServer
      /\ userCopy' = userCopy /\ musicCopy' = musicCopy
      /\ asked' = asked /\ played' = played /\ conn' = conn /\ adopted' = adopted
      /\ toClient' = toClient /\ userStates' = userStates /\ music' = music
  BY DEF LearnIndex, serverVars
<1>2. /\ TypeOK /\ Mail /\ Registered /\ BlankWhileGone /\ SinglePort /\ FreshStart
  BY DEF EnvInv
<1>3. phase' \in [Clients -> {"down", "joining", "registered", "in"}]
      /\ phase'[i] = "in" /\ \A k \in Clients \ {i} : phase'[k] = phase[k]
  BY <1>1, <1>2 DEF TypeOK
<1>4. Users' = Users
  BY <1>1 DEF Users
<1>5. \A k \in Clients : /\ offers'[k] \subseteq {"env", "signal"}
                         /\ k \notin Separate => offers'[k] = {}
  <2> SUFFICES ASSUME NEW k \in Clients
               PROVE  /\ offers'[k] \subseteq {"env", "signal"}
                      /\ k \notin Separate => offers'[k] = {}
    OBVIOUS
  <2>1. CASE k = i /\ i \in DOMAIN offers
    BY <1>1, <2>1
  <2>2. CASE k # i \/ i \notin DOMAIN offers
    BY <1>1, <1>2, <2>2 DEF TypeOK, SinglePort
  <2>3. QED
    BY <2>1, <2>2
<1>6. TypeOK'
  BY <1>1, <1>2, <1>3, <1>4, <1>5 DEF TypeOK
<1>7. Mail' /\ Registered' /\ BlankWhileGone' /\ SinglePort' /\ FreshStart'
  <2>1. Mail' /\ BlankWhileGone'
    BY <1>1, <1>2, <1>4 DEF Mail, BlankWhileGone
  <2>2. Registered' /\ FreshStart'
    BY <1>1, <1>2, <1>3, <1>4 DEF Registered, FreshStart
  <2>3. SinglePort'
    BY <1>1, <1>2, <1>5 DEF SinglePort
  <2>4. QED
    BY <2>1, <2>2, <2>3
<1>8. UserNewsInv' /\ MusicNewsInv' /\ MusicAskedInv'
  BY <1>1, <1>3, NewsKept DEF Ordered, Live
<1>9. QED
  BY <1>6, <1>7, <1>8 DEF EnvInv

LEMMA HandlePortOverrideStep ==
  ASSUME EnvInv, NEW i \in Clients, NEW h \in {"env", "signal"},
         HandlePortOverride(i, h)
  PROVE  EnvInv'
<1>1. /\ h \in offers[i] /\ offers' = [offers EXCEPT ![i] = @ \ {h}]
      /\ adopted' = [adopted EXCEPT ![i] = IF conn[i] THEN @ \cup {h} ELSE @]
      /\ starts' = starts /\ sent' = sent /\ phase' = phase
      /\ toServer' = toServer /\ userCopy' = userCopy /\ musicCopy' = musicCopy
      /\ asked' = asked /\ played' = played /\ conn' = conn
      /\ toClient' = toClient /\ userStates' = userStates /\ music' = music
  BY DEF HandlePortOverride
<1>2. /\ TypeOK /\ Mail /\ Registered /\ BlankWhileGone /\ SinglePort /\ FreshStart
  BY DEF EnvInv
<1>3. i \in Separate
  BY <1>1, <1>2 DEF SinglePort
<1>4. Users' = Users
  BY <1>1 DEF Users
<1>5. \A k \in Clients :
        /\ offers'[k] \subseteq {"env", "signal"}
        /\ adopted'[k] \subseteq {"env", "signal"}
        /\ k \notin Separate => offers'[k] = offers[k] /\ adopted'[k] = adopted[k]
  BY <1>1, <1>2, <1>3 DEF TypeOK
<1>6. TypeOK'
  BY <1>1, <1>2, <1>4, <1>5 DEF TypeOK
<1>7. Mail' /\ Registered' /\ BlankWhileGone' /\ FreshStart' /\ SinglePort'
  BY <1>1, <1>2, <1>4, <1>5
  DEF Mail, Registered, BlankWhileGone, SinglePort, FreshStart
<1>8. UserNewsInv' /\ MusicNewsInv' /\ MusicAskedInv'
  BY <1>1, NewsKept DEF Ordered, Live
<1>9. QED
  BY <1>6, <1>7, <1>8 DEF EnvInv

-----------------------------------------------------------------------------
(* A client speaks, and is told.                                           *)

LEMMA SendEnvStep ==
  ASSUME EnvInv, NEW i \in Clients, NEW m \in NextMessages(i), SendEnv(i, m)
  PROVE  EnvInv'
<1>1. /\ phase[i] = "in" /\ sent < MaxSent /\ sent' = sent + 1
      /\ toServer' = [toServer EXCEPT ![i] =
                        IF ReachesServer(i) THEN Append(@, m) ELSE @]
      /\ userCopy' = UserCopyAfter(i, m) /\ musicCopy' = MusicCopyAfter(i, m)
      /\ played' = [played EXCEPT ![i] = @ \/ m.type = "MusicState"]
      /\ starts' = starts /\ phase' = phase /\ offers' = offers
      /\ asked' = asked /\ conn' = conn /\ adopted' = adopted
      /\ toClient' = toClient /\ userStates' = userStates /\ music' = music
  BY DEF SendEnv, serverVars
<1>2. /\ TypeOK /\ Mail /\ Registered /\ BlankWhileGone /\ SinglePort /\ FreshStart
      /\ UserNewsInv /\ MusicNewsInv /\ MusicAskedInv
  BY DEF EnvInv
<1>3. Users' = Users /\ Users \subseteq Clients
  BY <1>1, <1>2, EnvStateAssumption DEF Users, TypeOK, Clients
<1>4. sent + 1 \in 1 .. MaxSent
  BY <1>1, <1>2, EnvStateAssumption DEF TypeOK
<1>5. \/ \E u \in Speakers(i), look \in LooksOf(i) : m = UserState(u, look)
      \/ \E n \in 1 .. MaxSent : m = MusicState(n)
      \/ m = MusicRequest
      \/ \E j \in Users : m = UserRequest(j)
  BY <1>4, LookFacts DEF NextMessages, Speakers
<1>6. Speakers(i) \subseteq Clients /\ i \in Nat
  BY EnvStateAssumption DEF Speakers, First, Clients
\* The message, what its sender's consumers make of it, and what of the music.
<1>7. /\ m \in ClientMessages(i)
      /\ m.type = "UserRequest" => m.user \in Users
      /\ m.type = "UserState" => m.user \in Clients /\ m.look \in LooksOf(i)
      /\ m.type = "MusicState" => m.music \in 1 .. MaxSent
  <2>1. ASSUME NEW u \in Speakers(i), NEW look \in LooksOf(i), m = UserState(u, look)
        PROVE  /\ m \in ClientMessages(i) /\ m.type = "UserState"
               /\ m.user \in Clients /\ m.look \in LooksOf(i)
    <3>1. u \in Clients /\ u \in Nat
      BY <1>6 DEF Clients
    <3>2. QED
      BY <2>1, <3>1, SaysUser DEF ClientMessages
  <2>2. ASSUME NEW n \in 1 .. MaxSent, m = MusicState(n)
        PROVE  /\ m \in ClientMessages(i) /\ m.type = "MusicState"
               /\ m.music \in 1 .. MaxSent
    BY <2>2, SaysMusic DEF ClientMessages
  <2>3. ASSUME m = MusicRequest
        PROVE  m \in ClientMessages(i) /\ m.type = "MusicRequest"
    BY <2>3, SaysNothing DEF ClientMessages
  <2>4. ASSUME NEW j \in Users, m = UserRequest(j)
        PROVE  /\ m \in ClientMessages(i) /\ m.type = "UserRequest"
               /\ m.user \in Users
    <3>1. m.type = "UserRequest" /\ m.user = j
      BY <2>4, SaysNothing
    <3>2. QED
      BY <1>3, <2>4, <3>1 DEF ClientMessages
  <2>5. QED
    BY <1>5, <2>1, <2>2, <2>3, <2>4
<1>8. /\ userCopy' \in [Clients -> [Clients -> Looks]]
      /\ \A k \in Clients, j \in Clients :
           \/ userCopy'[k][j] = userCopy[k][j]
           \/ k = i /\ userCopy'[k][j] \in LooksOf(i)
  <2>1. CASE m.type = "UserState"
    <3>1. /\ m.user \in Clients /\ m.look \in LooksOf(i) /\ m.look \in Looks
          /\ userCopy' = [userCopy EXCEPT ![i][m.user] = m.look]
      BY <1>1, <1>7, <2>1, LookFacts DEF UserCopyAfter
    <3>2. QED
      BY <1>2, <3>1 DEF TypeOK
  <2>2. CASE m.type # "UserState"
    BY <1>1, <1>2, <2>2 DEF UserCopyAfter, TypeOK
  <2>3. QED
    BY <2>1, <2>2
<1>9. /\ musicCopy' \in [Clients -> 0 .. MaxSent]
      /\ played' \in [Clients -> BOOLEAN]
      /\ m.type = "MusicState" => played'[i]
      /\ \A k \in Clients : played[k] => played'[k]
      /\ \A k \in Clients : ~played'[k] => musicCopy'[k] = musicCopy[k]
      /\ \A k \in Clients \ {i} : /\ musicCopy'[k] = musicCopy[k]
                                  /\ played'[k] = played[k]
  <2>1. /\ played' \in [Clients -> BOOLEAN]
        /\ m.type = "MusicState" => played'[i]
        /\ \A k \in Clients : played[k] => played'[k]
        /\ \A k \in Clients \ {i} : played'[k] = played[k]
    BY <1>1, <1>2 DEF TypeOK
  <2>2. CASE m.type = "MusicState"
    <3>1. musicCopy' = [musicCopy EXCEPT ![i] = m.music] /\ m.music \in 0 .. MaxSent
      BY <1>1, <1>7, <2>2 DEF MusicCopyAfter
    <3>2. QED
      BY <1>2, <2>1, <2>2, <3>1 DEF TypeOK
  <2>3. CASE m.type # "MusicState"
    BY <1>1, <1>2, <2>1, <2>3 DEF MusicCopyAfter, TypeOK
  <2>4. QED
    BY <2>2, <2>3
<1>10. /\ toServer' \in [Clients -> Seq(UNION {ClientMessages(k) : k \in Clients})]
       /\ \A k \in Clients : \A l \in DOMAIN toServer'[k] :
            \/ l \in DOMAIN toServer[k] /\ toServer'[k][l] = toServer[k][l]
            \/ k = i /\ toServer'[k][l] = m
  <2>1. toServer[i] \in Seq(UNION {ClientMessages(k) : k \in Clients})
    BY <1>2 DEF Mail
  <2>2. PICK s : s = toServer'[i]
    OBVIOUS
  <2>3. s = Append(toServer[i], m) \/ s = toServer[i]
    BY <1>1, <1>2, <2>2 DEF Mail
  <2>4. /\ s \in Seq(UNION {ClientMessages(k) : k \in Clients})
        /\ \A l \in DOMAIN s : \/ l \in DOMAIN toServer[i] /\ s[l] = toServer[i][l]
                               \/ s[l] = m
    BY <1>7, <2>1, <2>3
  <2>5. QED
    BY <1>1, <1>2, <2>2, <2>4 DEF Mail
<1>11. TypeOK'
  BY <1>1, <1>2, <1>3, <1>4, <1>8, <1>9 DEF TypeOK
<1>12. Mail'
  <2>1. ASSUME NEW k \in Clients, NEW l \in DOMAIN toServer'[k]
        PROVE  /\ toServer'[k][l] \in ClientMessages(k)
               /\ toServer'[k][l].type = "UserRequest" =>
                    toServer'[k][l].user \in Users'
    BY <1>2, <1>3, <1>7, <1>10, <2>1 DEF Mail
  <2>2. toClient' \in [Clients -> Seq(Ports \X ServerMessages)]
    BY <1>1, <1>2 DEF Mail
  <2>3. QED
    BY <1>10, <2>1, <2>2 DEF Mail
<1>13. Registered' /\ BlankWhileGone' /\ SinglePort'
  BY <1>1, <1>2, <1>3 DEF Registered, BlankWhileGone, SinglePort
<1>14. FreshStart'
  BY <1>1, <1>2, <1>9, <1>10 DEF FreshStart
<1>15. \A k \in Clients : Ordered(k)' = Ordered(k)
  BY <1>1 DEF Ordered, Live
\* Its own bundle is what it has, or will be replaced by the last in flight.
<1>16. UserNewsInv'
  <2> SUFFICES ASSUME NEW k \in Clients, Ordered(k), NEW j \in Users \ {k}
               PROVE  \E v : /\ Says(toClient[k], j, userCopy'[k][j], v)
                             /\ v = userStates[j] \/ v \in LooksOf(k)
    BY <1>1, <1>3, <1>15 DEF UserNewsInv
  <2>1. PICK v : /\ Says(toClient[k], j, userCopy[k][j], v)
                 /\ v = userStates[j] \/ v \in LooksOf(k)
    BY <1>2 DEF UserNewsInv
  <2>2. \/ userCopy'[k][j] = userCopy[k][j]
        \/ userCopy'[k][j] \in LooksOf(k)
    BY <1>3, <1>8
  <2>3. \/ Says(toClient[k], j, userCopy'[k][j], v)
        \/ Says(toClient[k], j, userCopy'[k][j], userCopy'[k][j])
    BY <2>1 DEF Says
  <2>4. \/ Says(toClient[k], j, userCopy'[k][j], v)
        \/ /\ Says(toClient[k], j, userCopy'[k][j], userCopy'[k][j])
           /\ userCopy'[k][j] \in LooksOf(k)
    BY <2>1, <2>2, <2>3
  <2>5. QED
    BY <2>1, <2>4
<1>17. MusicNewsInv'
  BY <1>1, <1>2, <1>9, <1>15 DEF MusicNewsInv
<1>18. MusicAskedInv'
  BY <1>1, <1>2, <1>15 DEF MusicAskedInv
<1>19. QED
  BY <1>11, <1>12, <1>13, <1>14, <1>16, <1>17, <1>18 DEF EnvInv

LEMMA ReceiveStep ==
  ASSUME EnvInv, NEW i \in Clients, Receive(i)
  PROVE  EnvInv'
<1>1. PICK k \in DOMAIN toClient[i] :
        /\ Arrives(i, k)
        /\ toClient' = [toClient EXCEPT ![i] = RemoveAt(@, k)]
        /\ userCopy' = UserCopyAfter(i, toClient[i][k][2])
        /\ musicCopy' = MusicCopyAfter(i, toClient[i][k][2])
        /\ asked' = [asked EXCEPT ![i] =
                       @ \/ toClient[i][k][2].type = "MusicRequest"]
  BY DEF Receive
<1>2. /\ phase[i] \in {"registered", "in"}
      /\ starts' = starts /\ sent' = sent /\ phase' = phase /\ offers' = offers
      /\ toServer' = toServer /\ played' = played /\ conn' = conn
      /\ adopted' = adopted /\ userStates' = userStates /\ music' = music
  BY DEF Receive
<1>3. /\ TypeOK /\ Mail /\ Registered /\ BlankWhileGone /\ SinglePort /\ FreshStart
      /\ UserNewsInv /\ MusicNewsInv /\ MusicAskedInv
  BY DEF EnvInv
<1>4. Users' = Users /\ Users \subseteq Clients
  BY <1>2, <1>3, EnvStateAssumption DEF Users, TypeOK, Clients
<1>5. PICK s : s = toClient[i]
  OBVIOUS
<1>6. s \in Seq(Ports \X ServerMessages) /\ k \in DOMAIN s
  BY <1>3, <1>5 DEF Mail
<1>7. PICK m \in ServerMessages : m = s[k][2]
  BY <1>6
<1>8. /\ m.type = "UserState" =>
           /\ m.user \in Clients /\ m.look \in Looks
           /\ Subject(m) = m.user /\ Content(m) = m.look
      /\ m.type = "MusicState" =>
           /\ m.music \in 0 .. MaxSent
           /\ Subject(m) = Nobody /\ Content(m) = m.music
      /\ m.type \notin {"UserState", "MusicState"} => Subject(m) = Silent
      /\ m = MusicRequest => m.type = "MusicRequest"
  <2>1. ASSUME NEW u \in Clients, NEW look \in Looks \ {Unknown},
               m = UserState(u, look)
        PROVE  /\ m.type = "UserState" /\ m.user = u /\ m.look = look
               /\ Subject(m) = u /\ Content(m) = look
    BY <2>1, SaysUser DEF Clients
  <2>2. ASSUME NEW n \in 0 .. MaxSent, m = MusicState(n)
        PROVE  /\ m.type = "MusicState" /\ m.music = n
               /\ Subject(m) = Nobody /\ Content(m) = n
    BY <2>2, SaysMusic
  <2>3. ASSUME m = MusicRequest PROVE m.type = "MusicRequest" /\ Subject(m) = Silent
    BY <2>3, SaysNothing
  <2>4. ASSUME NEW j \in Clients, m = UserRequest(j)
        PROVE  m.type = "UserRequest" /\ Subject(m) = Silent
    BY <2>4, SaysNothing
  <2>5. QED
    BY <2>1, <2>2, <2>3, <2>4, ServerMessageCases
<1>9. \A j \in Clients : j # Nobody /\ j # Silent
  BY EnvStateAssumption DEF Clients, Nobody, Silent
<1>10. /\ toClient' \in [Clients -> Seq(Ports \X ServerMessages)]
       /\ toClient'[i] = RemoveAt(s, k)
       /\ \A l \in Clients \ {i} : toClient'[l] = toClient[l]
  <2>1. RemoveAt(s, k) \in Seq(Ports \X ServerMessages)
    BY <1>6 DEF RemoveAt
  <2>2. QED
    BY <1>1, <1>3, <1>5, <2>1 DEF Mail
<1>11. /\ userCopy' \in [Clients -> [Clients -> Looks]]
       /\ \A j \in Clients : userCopy'[i][j] =
            IF Subject(m) = j THEN Content(m) ELSE userCopy[i][j]
       /\ \A l \in Clients \ {i} : userCopy'[l] = userCopy[l]
  <2>1. CASE m.type = "UserState"
    <3>1. userCopy' = [userCopy EXCEPT ![i][m.user] = m.look]
      BY <1>1, <1>5, <1>7, <2>1 DEF UserCopyAfter
    <3>2. QED
      BY <1>3, <1>8, <2>1, <3>1 DEF TypeOK
  <2>2. CASE m.type # "UserState"
    <3>1. userCopy' = userCopy
      BY <1>1, <1>5, <1>7, <2>2 DEF UserCopyAfter
    <3>2. \A j \in Clients : Subject(m) # j
      BY <1>8, <1>9, <2>2
    <3>3. QED
      BY <1>3, <3>1, <3>2 DEF TypeOK
  <2>3. QED
    BY <2>1, <2>2
<1>12. /\ musicCopy' \in [Clients -> 0 .. MaxSent]
       /\ musicCopy'[i] = IF Subject(m) = Nobody THEN Content(m) ELSE musicCopy[i]
       /\ \A l \in Clients \ {i} : musicCopy'[l] = musicCopy[l]
  <2>1. CASE m.type = "MusicState"
    <3>1. musicCopy' = [musicCopy EXCEPT ![i] = m.music]
      BY <1>1, <1>5, <1>7, <2>1 DEF MusicCopyAfter
    <3>2. QED
      BY <1>3, <1>8, <2>1, <3>1 DEF TypeOK
  <2>2. CASE m.type # "MusicState"
    <3>1. musicCopy' = musicCopy
      BY <1>1, <1>5, <1>7, <2>2 DEF MusicCopyAfter
    <3>2. Subject(m) # Nobody
      BY <1>8, <1>9, <2>2 DEF Nobody, Silent
    <3>3. QED
      BY <1>3, <3>1, <3>2 DEF TypeOK
  <2>3. QED
    BY <2>1, <2>2
<1>13. /\ asked' \in [Clients -> BOOLEAN]
       /\ asked'[i] = (asked[i] \/ m.type = "MusicRequest")
       /\ \A l \in Clients \ {i} : asked'[l] = asked[l]
  BY <1>1, <1>3, <1>5, <1>7 DEF TypeOK
\* On a single port the first message is the one that arrives.
<1>14. ASSUME i \notin Separate
       PROVE  /\ s # <<>> /\ k = 1 /\ m = Head(s)[2]
              /\ toClient'[i] = Tail(s)
  <2>1. \A l \in DOMAIN s : s[l][1] = "control"
    BY <1>3, <1>5, <1>14 DEF SinglePort
  <2>2. \A l \in 1 .. k - 1 : l \in DOMAIN s
    BY <1>6
  <2>3. \A l \in 1 .. k - 1 : s[l][1] # s[k][1]
    BY <1>1, <1>5 DEF Arrives
  <2>4. k = 1
    BY <1>6, <2>1, <2>2, <2>3
  <2>5. s # <<>> /\ Head(s) = s[1]
    BY <1>6
  <2>6. RemoveAt(s, 1) = Tail(s)
    BY <1>6, <2>4, <2>5 DEF RemoveAt
  <2>7. QED
    BY <1>7, <1>10, <2>4, <2>5, <2>6
<1>15. TypeOK'
  BY <1>2, <1>3, <1>4, <1>11, <1>12, <1>13 DEF TypeOK
<1>16. Mail' /\ Registered' /\ BlankWhileGone'
  BY <1>2, <1>3, <1>4, <1>10 DEF Mail, Registered, BlankWhileGone
<1>17. SinglePort'
  <2>1. ASSUME i \notin Separate
        PROVE  \A l \in DOMAIN toClient'[i] : toClient'[i][l][1] = "control"
    <3>1. \A l \in DOMAIN Tail(s) : l + 1 \in DOMAIN s /\ Tail(s)[l] = s[l + 1]
      BY <1>6, <1>14, <2>1
    <3>2. \A l \in DOMAIN s : s[l][1] = "control"
      BY <1>3, <1>5, <2>1 DEF SinglePort
    <3>3. toClient'[i] = Tail(s)
      BY <1>14, <2>1
    <3>4. QED
      BY <3>1, <3>2, <3>3
  <2>2. QED
    BY <1>2, <1>3, <1>10, <2>1 DEF SinglePort
<1>18. FreshStart'
  BY <1>2, <1>3, <1>12 DEF FreshStart
<1>19. \A l \in Clients : Ordered(l)' = Ordered(l)
  BY <1>2 DEF Ordered, Live
<1>20. UserNewsInv'
  <2> SUFFICES ASSUME NEW l \in Clients, Ordered(l), NEW j \in Users \ {l}
               PROVE  \E v : /\ Says(toClient'[l], j, userCopy'[l][j], v)
                             /\ v = userStates[j] \/ v \in LooksOf(l)
    BY <1>2, <1>4, <1>19 DEF UserNewsInv
  <2>1. PICK v : /\ Says(toClient[l], j, userCopy[l][j], v)
                 /\ v = userStates[j] \/ v \in LooksOf(l)
    BY <1>3 DEF UserNewsInv
  <2>2. CASE l = i
    <3>1. s # <<>> /\ m = Head(s)[2] /\ toClient'[l] = Tail(s) /\ j \in Clients
      BY <1>4, <1>14, <2>2 DEF Ordered
    <3>2. Says(Tail(s), j, IF Subject(m) = j THEN Content(m) ELSE userCopy[i][j], v)
      BY <1>5, <1>6, <2>1, <2>2, <3>1, SaysTail
    <3>3. Says(toClient'[l], j, userCopy'[l][j], v)
      BY <1>11, <2>2, <3>1, <3>2
    <3>4. QED
      BY <2>1, <3>3
  <2>3. CASE l # i
    BY <1>10, <1>11, <2>1, <2>3
  <2>4. QED
    BY <2>2, <2>3
<1>21. MusicNewsInv'
  <2> SUFFICES ASSUME NEW l \in Clients, Ordered(l), ~played[l]
               PROVE  Says(toClient'[l], Nobody, musicCopy'[l], music)
    BY <1>2, <1>19 DEF MusicNewsInv
  <2>1. Says(toClient[l], Nobody, musicCopy[l], music)
    BY <1>3 DEF MusicNewsInv
  <2>2. CASE l = i
    <3>1. s # <<>> /\ m = Head(s)[2] /\ toClient'[l] = Tail(s)
      BY <1>14, <2>2 DEF Ordered
    <3>2. Says(Tail(s), Nobody,
               IF Subject(m) = Nobody THEN Content(m) ELSE musicCopy[i], music)
      BY <1>5, <1>6, <2>1, <2>2, <3>1, SaysTail
    <3>3. QED
      BY <1>12, <2>2, <3>1, <3>2
  <2>3. CASE l # i
    BY <1>10, <1>12, <2>1, <2>3
  <2>4. QED
    BY <2>2, <2>3
<1>22. MusicAskedInv'
  <2> SUFFICES ASSUME NEW l \in Clients, Ordered(l), music = NoMusic
               PROVE  \/ asked'[l]
                      \/ \E n \in DOMAIN toClient'[l] :
                           toClient'[l][n][2] = MusicRequest
    BY <1>2, <1>19 DEF MusicAskedInv
  <2>1. \/ asked[l]
        \/ \E n \in DOMAIN toClient[l] : toClient[l][n][2] = MusicRequest
    BY <1>3 DEF MusicAskedInv
  <2>2. CASE l = i
    <3>1. CASE asked[l]
      BY <1>13, <2>2, <3>1
    <3>2. ASSUME NEW n \in DOMAIN s, s[n][2] = MusicRequest
          PROVE  \/ asked'[i]
                 \/ \E o \in DOMAIN Tail(s) : Tail(s)[o][2] = MusicRequest
      <4>1. CASE n = 1
        BY <1>7, <1>8, <1>13, <1>14, <2>2, <3>2, <4>1 DEF Ordered
      <4>2. CASE n # 1
        <5>1. s # <<>>
          BY <3>2, <1>6
        <5>2. n - 1 \in DOMAIN Tail(s) /\ Tail(s)[n - 1] = s[n]
          BY <1>6, <3>2, <4>2, <5>1
        <5>3. QED
          BY <3>2, <5>2
      <4>3. QED
        BY <4>1, <4>2
    <3>3. QED
      BY <1>5, <1>14, <2>1, <2>2, <3>1, <3>2 DEF Ordered
  <2>3. CASE l # i
    BY <1>10, <1>13, <2>1, <2>3
  <2>4. QED
    BY <2>2, <2>3
<1>23. QED
  BY <1>15, <1>16, <1>17, <1>18, <1>20, <1>21, <1>22 DEF EnvInv

-----------------------------------------------------------------------------
(* The server announces who leaves.                                        *)

\* What send_env_msg and broadcast_signal put on the way to k.
LEMMA Packets ==
  ASSUME TypeOK, SinglePort, NEW k \in Clients, NEW m \in ServerMessages
  PROVE  /\ EnvHost(k) \in Ports /\ SignalHost(k) \in Ports
         /\ ByEnv(k, <<m>>) = <<<<EnvHost(k), m>>>>
         /\ BySignal(k, m) = <<<<SignalHost(k), m>>>>
         /\ <<EnvHost(k), m>> \in Ports \X ServerMessages
         /\ <<SignalHost(k), m>> \in Ports \X ServerMessages
         /\ k \notin Separate => EnvHost(k) = "control" /\ SignalHost(k) = "control"
<1>1. EnvHost(k) \in Ports /\ SignalHost(k) \in Ports
  BY DEF EnvHost, SignalHost, Ports
<1>2. k \notin Separate => EnvHost(k) = "control" /\ SignalHost(k) = "control"
  BY DEF SinglePort, EnvHost, SignalHost
<1>3. ByEnv(k, <<m>>) = <<<<EnvHost(k), m>>>>
  BY DEF ByEnv
<1>4. QED
  BY <1>1, <1>2, <1>3 DEF BySignal

\* A message that is put on the way, after what is.
Then(s, h, m) == s \o <<<<h, m>>>>

LEMMA Appended ==
  ASSUME NEW s \in Seq(Ports \X ServerMessages), NEW h \in Ports,
         NEW m \in ServerMessages
  PROVE  /\ Then(s, h, m) \in Seq(Ports \X ServerMessages)
         /\ \A l \in DOMAIN Then(s, h, m) :
              \/ l \in DOMAIN s /\ Then(s, h, m)[l] = s[l]
              \/ Then(s, h, m)[l][1] = h
         /\ \A l \in DOMAIN s : l \in DOMAIN Then(s, h, m) /\ Then(s, h, m)[l] = s[l]
         /\ \A j, c, v : Says(s, j, c, v) /\ Subject(m) # j =>
              Says(Then(s, h, m), j, c, v)
         /\ \A c : Says(Then(s, h, m), Subject(m), c, Content(m))
         /\ \E l \in DOMAIN Then(s, h, m) : Then(s, h, m)[l][2] = m
<1>1. PICK e \in Ports \X ServerMessages : e = <<h, m>>
  OBVIOUS
<1>2. PICK t : t = s \o <<e>>
  OBVIOUS
<1>3. /\ t \in Seq(Ports \X ServerMessages) /\ DOMAIN t = 1 .. Len(s) + 1
      /\ DOMAIN s = 1 .. Len(s) /\ Len(s) \in Nat
      /\ t[Len(s) + 1] = e /\ \A l \in 1 .. Len(s) : t[l] = s[l]
  BY <1>2
<1>4. ASSUME NEW j, NEW c, NEW v, Says(s, j, c, v), Subject(m) # j
      PROVE  Says(t, j, c, v)
  <2>1. <<e>> \in Seq(Ports \X ServerMessages)
    OBVIOUS
  <2>2. \A k \in DOMAIN <<e>> : Subject(<<e>>[k][2]) # j
    BY <1>1, <1>4
  <2>3. QED
    BY <1>2, <1>4, <2>1, <2>2, SaysConcat
<1>5. \A c : Says(t, Subject(m), c, Content(m))
  <2>1. e[2] = m
    BY <1>1
  <2>2. QED
    BY <1>2, <2>1, SaysLast
<1>6. /\ \A l \in DOMAIN t : (l \in DOMAIN s /\ t[l] = s[l]) \/ t[l][1] = h
      /\ \A l \in DOMAIN s : l \in DOMAIN t /\ t[l] = s[l]
      /\ \E l \in DOMAIN t : t[l][2] = m
  <2>1. e[1] = h /\ e[2] = m
    BY <1>1
  <2>2. QED
    BY <1>3, <2>1
<1>7. t = Then(s, h, m)
  BY <1>1, <1>2 DEF Then
<1>8. QED
  BY <1>3, <1>4, <1>5, <1>6, <1>7

LEMMA DisconnectStep ==
  ASSUME EnvInv, NEW i \in Clients, Disconnect(i)
  PROVE  EnvInv'
<1>1. /\ conn[i] /\ conn' = [conn EXCEPT ![i] = FALSE]
      /\ offers' = [offers EXCEPT ![i] = @ \ adopted[i]]
      /\ toServer' = [toServer EXCEPT ![i] =
                        IF i \notin Separate \/ "env" \in adopted[i]
                          THEN <<>> ELSE @]
      /\ userStates' = [userStates EXCEPT ![i] = Blanked(userStates[i])]
      /\ toClient' = [k \in Clients |->
                        IF k = i THEN <<>>
                        ELSE IF Live(k) THEN toClient[k] \o Farewell(i, k)
                        ELSE toClient[k]]
      /\ starts' = starts /\ sent' = sent /\ phase' = phase
      /\ userCopy' = userCopy /\ musicCopy' = musicCopy
      /\ asked' = asked /\ played' = played /\ adopted' = adopted
      /\ music' = music
  BY DEF Disconnect, Departs
<1>2. /\ TypeOK /\ Mail /\ Registered /\ BlankWhileGone /\ SinglePort /\ FreshStart
      /\ UserNewsInv /\ MusicNewsInv /\ MusicAskedInv
  BY DEF EnvInv
<1>23. PICK left : left = Blanked(userStates[i])
  OBVIOUS
<1>24. left \in Looks \ {Unknown} /\ IsBlank(left)
  <2>1. userStates[i] \in Looks \ {Unknown}
    BY <1>1, <1>2 DEF TypeOK, Users
  <2>2. QED
    BY <1>23, <2>1, LookFacts
<1>3. PICK m : m = UserState(i, left)
  OBVIOUS
<1>4. /\ m \in ServerMessages /\ Subject(m) = i /\ Content(m) = left
      /\ i # Nobody /\ i \in Nat
  <2>1. i \in Nat /\ i # Nobody
    BY EnvStateAssumption DEF Clients, Nobody
  <2>2. Subject(m) = i /\ Content(m) = left
    BY <1>3, <2>1, SaysUser
  <2>3. QED
    BY <1>3, <1>24, <2>1, <2>2 DEF ServerMessages
<1>5. i \in Users /\ Users' = Users
  BY <1>1, <1>2 DEF TypeOK, Users
\* What is on the way to each client.
<1>6. /\ DOMAIN toClient' = Clients /\ toClient'[i] = <<>>
      /\ \A k \in Clients \ {i} :
           \/ ~Live(k) /\ toClient'[k] = toClient[k]
           \/ /\ Live(k)
              /\ toClient'[k] = Then(toClient[k], EnvHost(k), m)
  <2>1. \A k \in Clients \ {i} : Farewell(i, k) = <<<<EnvHost(k), m>>>>
    BY <1>1, <1>2, <1>3, <1>4, <1>23, Packets DEF Farewell
  <2>2. QED
    BY <1>1, <2>1 DEF Then
<1>7. \A k \in Clients : /\ EnvHost(k) \in Ports
                         /\ k \notin Separate => EnvHost(k) = "control"
                         /\ toClient[k] \in Seq(Ports \X ServerMessages)
  BY <1>2, <1>4, Packets DEF Mail
<1>8. toClient' \in [Clients -> Seq(Ports \X ServerMessages)]
  <2>1. ASSUME NEW k \in Clients
        PROVE  toClient'[k] \in Seq(Ports \X ServerMessages)
    <3>1. CASE toClient'[k] = <<>> \/ toClient'[k] = toClient[k]
      <4>1. <<>> \in Seq(Ports \X ServerMessages)
        OBVIOUS
      <4>2. toClient[k] \in Seq(Ports \X ServerMessages)
        BY <1>7
      <4>3. QED
        BY <3>1, <4>1, <4>2, Zenon
    <3>2. CASE toClient'[k] = Then(toClient[k], EnvHost(k), m)
      <4>1. Then(toClient[k], EnvHost(k), m) \in Seq(Ports \X ServerMessages)
        BY <1>4, <1>7, Appended, Zenon
      <4>2. QED
        BY <3>2, <4>1
    <3>3. QED
      BY <1>6, <3>1, <3>2
  <2>2. toClient' = [k \in Clients |-> toClient'[k]]
    BY <1>1
  <2>3. QED
    BY <2>1, <2>2
<1>9. /\ toServer' \in [Clients -> Seq(UNION {ClientMessages(k) : k \in Clients})]
      /\ \A k \in Clients : toServer'[k] = toServer[k] \/ toServer'[k] = <<>>
  <2>1. PICK new : new = IF i \notin Separate \/ "env" \in adopted[i]
                           THEN <<>> ELSE toServer[i]
    OBVIOUS
  <2>2. toServer' = [toServer EXCEPT ![i] = new] /\ (new = <<>> \/ new = toServer[i])
    BY <1>1, <2>1
  <2>3. CASE new = <<>>
    BY <1>2, <2>2, <2>3 DEF Mail
  <2>4. CASE new = toServer[i]
    <3>1. toServer' = toServer
      BY <1>2, <2>2, <2>4 DEF Mail
    <3>2. QED
      BY <1>2, <3>1 DEF Mail
  <2>5. QED
    BY <2>2, <2>3, <2>4
<1>10. /\ userStates' \in Seq(Looks \ {Unknown}) /\ Len(userStates') = Len(userStates)
       /\ userStates'[i] = left
       /\ \A j \in Users \ {i} : userStates'[j] = userStates[j]
  <2>1. userStates \in Seq(Looks \ {Unknown})
    BY <1>2 DEF TypeOK
  <2>2. userStates' = [userStates EXCEPT ![i] = left]
    BY <1>1, <1>23
  <2>3. QED
    BY <1>5, <1>24, <2>1, <2>2 DEF Users
<1>11. /\ conn' \in [Clients -> BOOLEAN] /\ ~conn'[i]
       /\ \A k \in Clients \ {i} : conn'[k] = conn[k]
  BY <1>1, <1>2 DEF TypeOK
<1>12. \A k \in Clients : offers'[k] \subseteq offers[k]
  BY <1>1
<1>13. TypeOK'
  BY <1>1, <1>2, <1>5, <1>10, <1>11, <1>12 DEF TypeOK
<1>14. Mail'
  <2>1. ASSUME NEW k \in Clients, NEW l \in DOMAIN toServer'[k]
        PROVE  /\ toServer'[k][l] \in ClientMessages(k)
               /\ toServer'[k][l].type = "UserRequest" =>
                    toServer'[k][l].user \in Users'
    <3>1. toServer'[k] # <<>>
      BY <2>1
    <3>2. toServer'[k] = toServer[k]
      BY <1>9, <3>1
    <3>3. QED
      BY <1>2, <1>5, <2>1, <3>2 DEF Mail
  <2>2. QED
    BY <1>8, <1>9, <2>1 DEF Mail
<1>15. Registered' /\ BlankWhileGone'
  <2>1. Registered'
    BY <1>1, <1>2, <1>5 DEF Registered
  <2>2. Users \subseteq Clients
    BY <1>2, EnvStateAssumption DEF TypeOK, Users, Clients
  <2>3. BlankWhileGone'
    BY <1>2, <1>5, <1>10, <1>11, <1>24, <2>2 DEF BlankWhileGone
  <2>4. QED
    BY <2>1, <2>3
<1>16. SinglePort'
  <2>1. ASSUME NEW k \in Clients \ Separate, NEW l \in DOMAIN toClient'[k]
        PROVE  toClient'[k][l][1] = "control"
    <3>1. CASE toClient'[k] = <<>> \/ toClient'[k] = toClient[k]
      BY <1>2, <2>1, <3>1 DEF SinglePort
    <3>2. CASE toClient'[k] = Then(toClient[k], EnvHost(k), m)
      <4>1. \/ l \in DOMAIN toClient[k] /\ toClient'[k][l] = toClient[k][l]
            \/ toClient'[k][l][1] = EnvHost(k)
        BY <1>4, <1>7, <2>1, <3>2, Appended
      <4>2. QED
        BY <1>2, <1>7, <4>1 DEF SinglePort
    <3>3. QED
      BY <1>6, <3>1, <3>2
  <2>2. QED
    BY <1>1, <1>2, <1>12, <2>1 DEF SinglePort
<1>17. FreshStart'
  BY <1>1, <1>2, <1>9 DEF FreshStart
<1>18. \A k \in Clients : Ordered(k)' =>
         /\ Ordered(k) /\ k # i
         /\ toClient'[k] = Then(toClient[k], EnvHost(k), m)
  BY <1>1, <1>6, <1>11 DEF Ordered, Live
<1>19. UserNewsInv'
  <2> SUFFICES ASSUME NEW k \in Clients, Ordered(k)', NEW j \in Users \ {k}
               PROVE  \E v : /\ Says(toClient'[k], j, userCopy[k][j], v)
                             /\ v = userStates'[j] \/ v \in LooksOf(k)
    BY <1>1, <1>5 DEF UserNewsInv
  <2>1. CASE j = i
    <3>1. \A c : Says(Then(toClient[k], EnvHost(k), m), Subject(m), c, Content(m))
      BY <1>4, <1>7, Appended, Zenon
    <3>2. Says(toClient'[k], j, userCopy[k][j], left)
      BY <1>4, <1>18, <2>1, <3>1
    <3>3. QED
      BY <1>10, <2>1, <3>2
  <2>2. CASE j # i
    <3>1. PICK v : /\ Says(toClient[k], j, userCopy[k][j], v)
                   /\ v = userStates[j] \/ v \in LooksOf(k)
      BY <1>2, <1>18 DEF UserNewsInv
    <3>2. Says(Then(toClient[k], EnvHost(k), m), j, userCopy[k][j], v)
      BY <1>4, <1>7, <2>2, <3>1, Appended, Zenon
    <3>3. QED
      BY <1>10, <1>18, <2>2, <3>1, <3>2
  <2>3. QED
    BY <2>1, <2>2
<1>20. MusicNewsInv'
  <2> SUFFICES ASSUME NEW k \in Clients, Ordered(k)', ~played[k]
               PROVE  Says(toClient'[k], Nobody, musicCopy[k], music)
    BY <1>1 DEF MusicNewsInv
  <2>1. Says(toClient[k], Nobody, musicCopy[k], music)
    BY <1>2, <1>18 DEF MusicNewsInv
  <2>2. Says(Then(toClient[k], EnvHost(k), m), Nobody, musicCopy[k], music)
    BY <1>4, <1>7, <2>1, Appended, Zenon
  <2>3. QED
    BY <1>18, <2>2
<1>21. MusicAskedInv'
  <2> SUFFICES ASSUME NEW k \in Clients, Ordered(k)', music = NoMusic, ~asked[k]
               PROVE  \E l \in DOMAIN toClient'[k] :
                        toClient'[k][l][2] = MusicRequest
    BY <1>1 DEF MusicAskedInv
  <2>1. PICK l \in DOMAIN toClient[k] : toClient[k][l][2] = MusicRequest
    BY <1>2, <1>18 DEF MusicAskedInv
  <2>2. /\ l \in DOMAIN Then(toClient[k], EnvHost(k), m)
        /\ Then(toClient[k], EnvHost(k), m)[l] = toClient[k][l]
    BY <1>4, <1>7, <2>1, Appended, Zenon
  <2>3. QED
    BY <1>18, <2>1, <2>2
<1>22. QED
  BY <1>13, <1>14, <1>15, <1>16, <1>17, <1>19, <1>20, <1>21 DEF EnvInv

-----------------------------------------------------------------------------
(* The server registers a client.                                          *)

\* t is s with messages about u, by the port h, after it: the last says v.
Tells(s, t, h, u, v) ==
  /\ t \in Seq(Ports \X ServerMessages)
  /\ \A l \in DOMAIN t : (l \in DOMAIN s /\ t[l] = s[l]) \/ t[l][1] = h
  /\ \A l \in DOMAIN s : l \in DOMAIN t /\ t[l] = s[l]
  /\ \A j, c, w : Says(s, j, c, w) /\ u # j => Says(t, j, c, w)
  /\ \A c : Says(t, u, c, v)

LEMMA ThenTells ==
  ASSUME NEW s \in Seq(Ports \X ServerMessages), NEW h \in Ports,
         NEW m \in ServerMessages
  PROVE  Tells(s, Then(s, h, m), h, Subject(m), Content(m))
<1>1. PICK t : t = Then(s, h, m)
  OBVIOUS
<1>2. /\ t \in Seq(Ports \X ServerMessages)
      /\ \A l \in DOMAIN t : (l \in DOMAIN s /\ t[l] = s[l]) \/ t[l][1] = h
      /\ \A l \in DOMAIN s : l \in DOMAIN t /\ t[l] = s[l]
      /\ \A j, c, v : Says(s, j, c, v) /\ Subject(m) # j => Says(t, j, c, v)
      /\ \A c : Says(t, Subject(m), c, Content(m))
  BY <1>1, Appended
<1>3. Tells(s, t, h, Subject(m), Content(m))
  BY <1>2 DEF Tells
<1>4. QED
  BY <1>1, <1>3

LEMMA TellsAgain ==
  ASSUME NEW s, NEW t, NEW r, NEW h, NEW u, NEW v, NEW w,
         Tells(s, t, h, u, v), Tells(t, r, h, u, w)
  PROVE  Tells(s, r, h, u, w)
BY DEF Tells

\* The messages to a newcomer.
LEMMA Welcome ==
  ASSUME EnvInv, NEW i \in Clients, i <= Len(userStates) + 1
  PROVE  LET s == [l \in 1 .. Len(InitialWorldState(i)) |->
                     <<"control", InitialWorldState(i)[l]>>]
         IN  /\ s \in Seq(Ports \X ServerMessages)
             /\ \A l \in DOMAIN s : s[l][1] = "control"
             /\ \A j \in Users \ {i} : \A c : Says(s, j, c, userStates[j])
             /\ Says(s, Nobody, NoMusic, music)
             /\ music = NoMusic => \E l \in DOMAIN s : s[l][2] = MusicRequest
<1>1. TypeOK
  BY DEF EnvInv
<1>2. PICK n \in Nat : n = Len(userStates)
  BY <1>1 DEF TypeOK
<1>3. /\ Users = 1 .. n /\ n <= N /\ N \in Nat /\ i \in Nat /\ i # 0 /\ i <= n + 1
      /\ \A j \in Users : userStates[j] \in Looks \ {Unknown}
      /\ music \in 0 .. MaxSent
  BY <1>1, <1>2, EnvStateAssumption DEF TypeOK, Users, Clients
<1>4. PICK c \in Nat : /\ c = Cardinality(OtherUsers(i))
                       /\ i \in Users => c = n - 1
                       /\ i \notin Users => c = n /\ i = n + 1
  <2>1. IsFiniteSet(1 .. n) /\ Cardinality(1 .. n) = n
    BY FS_Interval
  <2>2. CASE i \in Users
    <3>1. i \in 1 .. n
      BY <1>3, <2>2
    <3>2. Cardinality((1 .. n) \ {i}) = n - 1
      BY <2>1, <3>1, FS_RemoveElement
    <3>3. n - 1 \in Nat
      BY <3>1
    <3>4. OtherUsers(i) = (1 .. n) \ {i}
      BY <1>3 DEF OtherUsers
    <3>5. QED
      BY <2>2, <3>2, <3>3, <3>4
  <2>3. CASE i \notin Users
    <3>1. OtherUsers(i) = 1 .. n /\ i = n + 1
      BY <1>3, <2>3 DEF OtherUsers
    <3>2. QED
      BY <2>1, <2>3, <3>1
  <2>4. QED
    BY <2>2, <2>3
<1>5. PICK x : x = IF music = NoMusic THEN MusicRequest ELSE MusicState(music)
  OBVIOUS
<1>6. x \in ServerMessages
  BY <1>3, <1>5 DEF ServerMessages
<1>7. PICK W : W = [k \in 1 .. c |->
                      UserState(OtherUser(i, k), userStates[OtherUser(i, k)])]
  OBVIOUS
\* The k-th of them is about the k-th of the others.
<1>8. ASSUME NEW k \in 1 .. c
      PROVE  OtherUser(i, k) \in Users /\ OtherUser(i, k) # i
  BY <1>3, <1>4 DEF OtherUser
<1>9. ASSUME NEW k \in 1 .. c
      PROVE  W[k] \in ServerMessages
  <2>1. W[k] = UserState(OtherUser(i, k), userStates[OtherUser(i, k)])
    BY <1>7
  <2>2. OtherUser(i, k) \in Clients
    BY <1>3, <1>8 DEF Clients
  <2>3. userStates[OtherUser(i, k)] \in Looks \ {Unknown}
    BY <1>3, <1>8
  <2>4. QED
    BY <2>1, <2>2, <2>3 DEF ServerMessages
<1>10. ASSUME NEW k \in 1 .. c
       PROVE  /\ Subject(W[k]) = OtherUser(i, k)
              /\ Content(W[k]) = userStates[OtherUser(i, k)]
  <2>1. W[k] = UserState(OtherUser(i, k), userStates[OtherUser(i, k)])
    BY <1>7
  <2>2. OtherUser(i, k) \in Nat
    BY <1>3, <1>8
  <2>3. QED
    BY <2>1, <2>2, SaysUser
<1>11. W \in Seq(ServerMessages) /\ Len(W) = c
  BY <1>7, <1>9
<1>12. PICK all : all = InitialWorldState(i)
  OBVIOUS
<1>13. /\ Len(all) = c + 1 /\ all[1] = x
       /\ \A l \in 2 .. c + 1 : all[l] = W[l - 1] /\ l - 1 \in 1 .. c
       /\ \A k \in 1 .. c : all[k + 1] = W[k] /\ k + 1 \in 2 .. c + 1
  <2>1. all = <<x>> \o W
    BY <1>4, <1>5, <1>7, <1>12 DEF InitialWorldState, MusicNews
  <2>2. QED
    BY <1>6, <1>11, <2>1
<1>14. PICK s : s = [l \in 1 .. Len(all) |-> <<"control", all[l]>>]
  OBVIOUS
<1>15. /\ DOMAIN s = 1 .. c + 1
       /\ \A l \in DOMAIN s : s[l] = <<"control", all[l]>>
       /\ s[1] = <<"control", x>>
       /\ \A l \in 2 .. c + 1 : s[l] = <<"control", W[l - 1]>>
  BY <1>13, <1>14
<1>16. s \in Seq(Ports \X ServerMessages)
  <2>1. \A l \in 1 .. c + 1 : all[l] \in ServerMessages
    BY <1>6, <1>9, <1>13
  <2>2. "control" \in Ports
    BY DEF Ports
  <2>3. \A l \in 1 .. Len(all) : <<"control", all[l]>> \in Ports \X ServerMessages
    BY <1>13, <2>1, <2>2
  <2>4. Len(all) \in Nat
    BY <1>13
  <2>5. QED
    BY <1>14, <2>3, <2>4
<1>17. \A l \in DOMAIN s : s[l][1] = "control" /\ s[l][2] = all[l]
  BY <1>15
<1>18. Subject(x) = IF music = NoMusic THEN Silent ELSE Nobody
  BY <1>5, SaysMusic, SaysNothing
<1>19. ASSUME NEW j \in Users \ {i}, NEW d
       PROVE  Says(s, j, d, userStates[j])
  <2>1. PICK k \in 1 .. c : k = IF j < i THEN j ELSE j - 1
    <3>1. (IF j < i THEN j ELSE j - 1) \in 1 .. c
      BY <1>3, <1>4
    <3>2. QED
      BY <3>1
  <2>2. /\ OtherUser(i, k) = j
        /\ \A l \in 1 .. c : l > k => OtherUser(i, l) # j
    BY <1>3, <2>1 DEF OtherUser
  <2>3. /\ k + 1 \in DOMAIN s
        /\ Subject(s[k + 1][2]) = j /\ Content(s[k + 1][2]) = userStates[j]
    BY <1>10, <1>13, <1>15, <1>17, <2>2
  <2>4. \A l \in DOMAIN s : l > k + 1 => Subject(s[l][2]) # j
    <3>1. ASSUME NEW l \in DOMAIN s, l > k + 1
          PROVE  Subject(s[l][2]) # j
      <4>1. l \in 2 .. c + 1 /\ l - 1 \in 1 .. c /\ l - 1 > k
        BY <1>13, <1>15, <3>1
      <4>2. s[l][2] = W[l - 1]
        BY <1>15, <4>1
      <4>3. Subject(W[l - 1]) = OtherUser(i, l - 1)
        BY <1>10, <4>1
      <4>4. QED
        BY <2>2, <4>1, <4>2, <4>3
    <3>2. QED
      BY <3>1
  <2>5. QED
    BY <2>3, <2>4 DEF Says
<1>20. Says(s, Nobody, NoMusic, music)
  <2>1. \A l \in DOMAIN s : l > 1 => Subject(s[l][2]) # Nobody
    <3>1. ASSUME NEW l \in DOMAIN s, l > 1
          PROVE  Subject(s[l][2]) # Nobody
      <4>1. l \in 2 .. c + 1 /\ l - 1 \in 1 .. c
        BY <1>13, <1>15, <3>1
      <4>2. s[l][2] = W[l - 1]
        BY <1>15, <4>1
      <4>3. Subject(W[l - 1]) = OtherUser(i, l - 1)
        BY <1>10, <4>1
      <4>4. OtherUser(i, l - 1) # Nobody
        BY <1>3, <1>8, <4>1 DEF Nobody
      <4>5. QED
        BY <4>2, <4>3, <4>4
    <3>2. QED
      BY <3>1
  <2>2. 1 \in DOMAIN s /\ s[1][2] = x
    BY <1>13, <1>15, <1>17
  <2>3. CASE music = NoMusic
    <3>1. \A l \in DOMAIN s : Subject(s[l][2]) # Nobody
      BY <1>15, <1>18, <2>1, <2>2, <2>3 DEF Silent, Nobody
    <3>2. QED
      BY <2>3, <3>1 DEF Says
  <2>4. CASE music # NoMusic
    <3>1. Subject(s[1][2]) = Nobody /\ Content(s[1][2]) = music
      BY <1>5, <2>2, <2>4, SaysMusic
    <3>2. QED
      BY <2>1, <2>2, <3>1 DEF Says
  <2>5. QED
    BY <2>3, <2>4
<1>21. music = NoMusic => \E l \in DOMAIN s : s[l][2] = MusicRequest
  BY <1>5, <1>13, <1>15, <1>17
<1>22. QED
  BY <1>12, <1>14, <1>16, <1>17, <1>19, <1>20, <1>21

LEMMA HandleNewConnectionStep ==
  ASSUME EnvInv, NEW i \in Clients, HandleNewConnection(i)
  PROVE  EnvInv'
<1>1. /\ phase[i] = "joining" /\ i <= Len(userStates) + 1
      /\ phase' = [phase EXCEPT ![i] = "registered"]
      /\ conn' = [conn EXCEPT ![i] = TRUE]
      /\ adopted' = [adopted EXCEPT ![i] = {}]
      /\ userStates' = Initialized(i)
      /\ starts' = starts /\ sent' = sent /\ offers' = offers
      /\ toServer' = toServer /\ userCopy' = userCopy /\ musicCopy' = musicCopy
      /\ asked' = asked /\ played' = played /\ music' = music
  BY DEF HandleNewConnection
<1>2. /\ TypeOK /\ Mail /\ Registered /\ BlankWhileGone /\ SinglePort /\ FreshStart
      /\ UserNewsInv /\ MusicNewsInv /\ MusicAskedInv
  BY DEF EnvInv
<1>3. PICK welcome : welcome = [l \in 1 .. Len(InitialWorldState(i)) |->
                                  <<"control", InitialWorldState(i)[l]>>]
  OBVIOUS
<1>4. PICK stray : toClient' =
        [k \in Clients |->
           IF k = i THEN welcome
           ELSE IF Live(k)
             THEN toClient[k] \o Farewell(i, k) \o ByEnv(k, <<UserState(i, Named)>>)
                    \o (IF k = stray THEN ByEnv(k, <<UserState(i, Named)>>) ELSE <<>>)
           ELSE toClient[k]]
  <2>1. \E stray : toClient' =
          [k \in Clients |->
             IF k = i THEN [l \in 1 .. Len(InitialWorldState(i)) |->
                              <<"control", InitialWorldState(i)[l]>>]
             ELSE IF Live(k)
               THEN toClient[k] \o Farewell(i, k) \o ByEnv(k, <<UserState(i, Named)>>)
                      \o (IF k = stray THEN ByEnv(k, <<UserState(i, Named)>>) ELSE <<>>)
             ELSE toClient[k]]
    BY DEF HandleNewConnection
  <2>2. QED
    BY <1>3, <2>1, Zenon
<1>25. PICK gone \in Looks \ {Unknown} : conn[i] => gone = Blanked(userStates[i])
  <2>1. CASE conn[i]
    <3>1. userStates[i] \in Looks \ {Unknown}
      BY <1>2, <2>1 DEF TypeOK, Users
    <3>2. QED
      BY <3>1, LookFacts
  <2>2. CASE ~conn[i]
    BY <2>2, LookFacts
  <2>3. QED
    BY <2>1, <2>2
<1>5. PICK left, new : left = UserState(i, gone) /\ new = UserState(i, Named)
  OBVIOUS
<1>6. /\ left \in ServerMessages /\ Subject(left) = i /\ Content(left) = gone
      /\ new \in ServerMessages /\ Subject(new) = i /\ Content(new) = Named
      /\ i # Nobody /\ i \in Nat
  <2>1. i \in Nat /\ i # Nobody
    BY EnvStateAssumption DEF Clients, Nobody
  <2>2. /\ Subject(left) = i /\ Content(left) = gone
        /\ Subject(new) = i /\ Content(new) = Named
    BY <1>5, <2>1, SaysUser
  <2>3. QED
    BY <1>5, <2>1, <2>2, LookFacts DEF ServerMessages
<1>7. \A k \in Clients : /\ EnvHost(k) \in Ports
                         /\ k \notin Separate => EnvHost(k) = "control"
                         /\ toClient[k] \in Seq(Ports \X ServerMessages)
                         /\ ByEnv(k, <<left>>) = <<<<EnvHost(k), left>>>>
                         /\ ByEnv(k, <<new>>) = <<<<EnvHost(k), new>>>>
  BY <1>2, <1>6, Packets DEF Mail
\* The others hear, last, that the newcomer is there.
<1>8. ASSUME NEW k \in Clients \ {i}, Live(k)
      PROVE  Tells(toClient[k], toClient'[k], EnvHost(k), i, Named)
  <2>1. PICK s, h : s = toClient[k] /\ h = EnvHost(k)
    OBVIOUS
  <2>2. s \in Seq(Ports \X ServerMessages) /\ h \in Ports
    BY <1>7, <2>1
  <2>3. PICK a : a = IF conn[i] THEN Then(s, h, left) ELSE s
    OBVIOUS
  <2>4. a \in Seq(Ports \X ServerMessages) /\ s \o Farewell(i, k) = a
    <3>1. CASE conn[i]
      <4>1. Farewell(i, k) = <<<<h, left>>>>
        BY <1>5, <1>7, <1>25, <2>1, <3>1 DEF Farewell
      <4>2. Then(s, h, left) \in Seq(Ports \X ServerMessages)
        BY <1>6, <2>2, Appended, Zenon
      <4>3. QED
        BY <2>3, <3>1, <4>1, <4>2 DEF Then
    <3>2. CASE ~conn[i]
      <4>1. Farewell(i, k) = <<>>
        BY <3>2 DEF Farewell
      <4>2. QED
        BY <2>2, <2>3, <3>2, <4>1
    <3>3. QED
      BY <3>1, <3>2
  <2>5. PICK b : b = Then(a, h, new)
    OBVIOUS
  <2>6. Tells(a, b, h, i, Named) /\ b \in Seq(Ports \X ServerMessages)
    <3>1. Tells(a, b, h, i, Named)
      BY <1>6, <2>2, <2>4, <2>5, ThenTells
    <3>2. QED
      BY <3>1 DEF Tells
  <2>7. Tells(s, b, h, i, Named)
    <3>1. CASE conn[i]
      <4>1. Tells(s, a, h, i, gone)
        BY <1>6, <2>2, <2>3, <3>1, ThenTells
      <4>2. QED
        BY <2>6, <4>1, TellsAgain
    <3>2. CASE ~conn[i]
      BY <2>3, <2>6, <3>2
    <3>3. QED
      BY <3>1, <3>2
  <2>8. toClient'[k] = b \o (IF k = stray THEN <<<<h, new>>>> ELSE <<>>)
    <3>1. toClient'[k] = s \o Farewell(i, k) \o <<<<h, new>>>>
                           \o (IF k = stray THEN <<<<h, new>>>> ELSE <<>>)
      BY <1>4, <1>5, <1>7, <1>8, <2>1
    <3>2. QED
      BY <2>4, <2>5, <3>1 DEF Then
  <2>9. CASE k = stray
    <3>1. toClient'[k] = Then(b, h, new)
      BY <2>8, <2>9 DEF Then
    <3>2. Tells(b, toClient'[k], h, i, Named)
      BY <1>6, <2>2, <2>6, <3>1, ThenTells
    <3>3. QED
      BY <2>1, <2>7, <3>2, TellsAgain
  <2>10. CASE k # stray
    <3>1. toClient'[k] = b
      BY <2>6, <2>8, <2>10
    <3>2. QED
      BY <2>1, <2>7, <3>1
  <2>11. QED
    BY <2>9, <2>10
<1>9. /\ DOMAIN toClient' = Clients /\ toClient'[i] = welcome
      /\ \A k \in Clients \ {i} : ~Live(k) => toClient'[k] = toClient[k]
  BY <1>4
<1>10. /\ welcome \in Seq(Ports \X ServerMessages)
       /\ \A l \in DOMAIN welcome : welcome[l][1] = "control"
       /\ \A j \in Users \ {i} : \A c : Says(welcome, j, c, userStates[j])
       /\ Says(welcome, Nobody, NoMusic, music)
       /\ music = NoMusic => \E l \in DOMAIN welcome : welcome[l][2] = MusicRequest
  BY <1>1, <1>3, Welcome
<1>11. toClient' \in [Clients -> Seq(Ports \X ServerMessages)]
  <2>1. ASSUME NEW k \in Clients
        PROVE  toClient'[k] \in Seq(Ports \X ServerMessages)
    <3>1. CASE k = i
      BY <1>9, <1>10, <3>1
    <3>2. CASE k # i /\ Live(k)
      BY <1>8, <3>2 DEF Tells
    <3>3. CASE k # i /\ ~Live(k)
      BY <1>7, <1>9, <3>3
    <3>4. QED
      BY <3>1, <3>2, <3>3
  <2>2. toClient' = [k \in Clients |-> toClient'[k]]
    BY <1>4
  <2>3. QED
    BY <2>1, <2>2
\* The vector of states may grow by one.
<1>12. /\ Users' = Users \cup {i} /\ userStates' \in Seq(Looks \ {Unknown})
       /\ Len(userStates') <= N
       /\ userStates'[i] = Named
       /\ \A j \in Users \ {i} : userStates'[j] = userStates[j]
  <2>1. PICK n \in Nat : /\ n = Len(userStates) /\ Users = 1 .. n /\ n <= N
                         /\ \A j \in 1 .. n : userStates[j] \in Looks \ {Unknown}
    BY <1>2 DEF TypeOK, Users
  <2>2. i \in 1 .. N /\ N \in Nat
    BY EnvStateAssumption DEF Clients
  <2>3. PICK n2 \in Nat : Users \cup {i} = 1 .. n2 /\ n2 <= N
    BY <1>1, <2>1, <2>2
  <2>4. userStates' = [j \in 1 .. n2 |-> IF j = i THEN Named ELSE userStates[j]]
    BY <1>1, <2>3 DEF Initialized
  <2>5. \A j \in 1 .. n2 :
          (IF j = i THEN Named ELSE userStates[j]) \in Looks \ {Unknown}
    BY <2>1, <2>3, LookFacts
  <2>6. QED
    BY <2>1, <2>3, <2>4, <2>5 DEF Users
<1>13. /\ conn' \in [Clients -> BOOLEAN] /\ conn'[i]
       /\ \A k \in Clients \ {i} : conn'[k] = conn[k]
       /\ phase' \in [Clients -> {"down", "joining", "registered", "in"}]
       /\ phase'[i] = "registered"
       /\ \A k \in Clients \ {i} : phase'[k] = phase[k]
  BY <1>1, <1>2 DEF TypeOK
<1>14. \A k \in Clients : /\ adopted'[k] \subseteq {"env", "signal"}
                          /\ k \notin Separate => adopted'[k] = {}
  BY <1>1, <1>2 DEF TypeOK, SinglePort
<1>15. TypeOK'
  BY <1>1, <1>2, <1>12, <1>13, <1>14 DEF TypeOK
<1>16. Mail'
  <2>1. \A k \in Clients : \A l \in DOMAIN toServer'[k] :
          /\ toServer'[k][l] \in ClientMessages(k)
          /\ toServer'[k][l].type = "UserRequest" => toServer'[k][l].user \in Users'
    BY <1>1, <1>2, <1>12 DEF Mail
  <2>2. toServer' \in [Clients -> Seq(UNION {ClientMessages(k) : k \in Clients})]
    BY <1>1, <1>2 DEF Mail
  <2>3. QED
    BY <1>11, <2>1, <2>2 DEF Mail
<1>17. Registered' /\ BlankWhileGone'
  <2>1. Registered'
    BY <1>2, <1>12, <1>13 DEF Registered
  <2>2. ASSUME NEW j \in Users'
        PROVE  ~conn'[j] => IsBlank(userStates'[j])
    <3>1. CASE j = i
      BY <1>13, <3>1
    <3>2. CASE j # i
      <4>1. j \in Users \ {i} /\ j \in Clients
        BY <1>2, <1>12, <3>2, EnvStateAssumption DEF TypeOK, Users, Clients
      <4>2. ~conn[j] => IsBlank(userStates[j])
        BY <1>2, <4>1 DEF BlankWhileGone
      <4>3. QED
        BY <1>12, <1>13, <4>1, <4>2
    <3>3. QED
      BY <3>1, <3>2
  <2>3. QED
    BY <2>1, <2>2 DEF BlankWhileGone
<1>18. SinglePort'
  <2>1. ASSUME NEW k \in Clients \ Separate, NEW l \in DOMAIN toClient'[k]
        PROVE  toClient'[k][l][1] = "control"
    <3>1. CASE k = i
      BY <1>9, <1>10, <2>1, <3>1
    <3>2. CASE k # i /\ Live(k)
      <4>1. \/ l \in DOMAIN toClient[k] /\ toClient'[k][l] = toClient[k][l]
            \/ toClient'[k][l][1] = EnvHost(k)
        BY <1>8, <2>1, <3>2 DEF Tells
      <4>2. QED
        BY <1>2, <1>7, <4>1 DEF SinglePort
    <3>3. CASE k # i /\ ~Live(k)
      BY <1>2, <1>9, <2>1, <3>3 DEF SinglePort
    <3>4. QED
      BY <3>1, <3>2, <3>3
  <2>2. QED
    BY <1>1, <1>2, <1>14, <2>1 DEF SinglePort
<1>19. FreshStart'
  BY <1>1, <1>2, <1>13 DEF FreshStart
<1>20. \A k \in Clients \ {i} : Ordered(k)' =>
         Ordered(k) /\ Live(k) /\ Tells(toClient[k], toClient'[k], EnvHost(k), i, Named)
  BY <1>8, <1>13 DEF Ordered, Live
<1>21. UserNewsInv'
  <2> SUFFICES ASSUME NEW k \in Clients, Ordered(k)', NEW j \in Users' \ {k}
               PROVE  \E v : /\ Says(toClient'[k], j, userCopy[k][j], v)
                             /\ v = userStates'[j] \/ v \in LooksOf(k)
    BY <1>1 DEF UserNewsInv
  <2>1. CASE k = i
    BY <1>9, <1>10, <1>12, <2>1
  <2>2. CASE k # i /\ j = i
    <3>1. Says(toClient'[k], j, userCopy[k][j], Named)
      BY <1>20, <2>2 DEF Tells
    <3>2. QED
      BY <1>12, <2>2, <3>1
  <2>3. CASE k # i /\ j # i
    <3>1. PICK v : /\ Says(toClient[k], j, userCopy[k][j], v)
                   /\ v = userStates[j] \/ v \in LooksOf(k)
      BY <1>2, <1>12, <1>20, <2>3 DEF UserNewsInv
    <3>2. Says(toClient'[k], j, userCopy[k][j], v)
      BY <1>20, <2>3, <3>1 DEF Tells
    <3>3. QED
      BY <1>12, <2>3, <3>1, <3>2
  <2>4. QED
    BY <2>1, <2>2, <2>3
<1>22. MusicNewsInv'
  <2> SUFFICES ASSUME NEW k \in Clients, Ordered(k)', ~played[k]
               PROVE  Says(toClient'[k], Nobody, musicCopy[k], music)
    BY <1>1 DEF MusicNewsInv
  <2>1. CASE k = i
    <3>1. musicCopy[i] = NoMusic
      BY <1>1, <1>2 DEF FreshStart
    <3>2. QED
      BY <1>9, <1>10, <2>1, <3>1
  <2>2. CASE k # i
    <3>1. Says(toClient[k], Nobody, musicCopy[k], music)
      BY <1>2, <1>20, <2>2 DEF MusicNewsInv
    <3>2. QED
      BY <1>6, <1>20, <2>2, <3>1 DEF Tells
  <2>3. QED
    BY <2>1, <2>2
<1>23. MusicAskedInv'
  <2> SUFFICES ASSUME NEW k \in Clients, Ordered(k)', music = NoMusic, ~asked[k]
               PROVE  \E l \in DOMAIN toClient'[k] :
                        toClient'[k][l][2] = MusicRequest
    BY <1>1 DEF MusicAskedInv
  <2>1. CASE k = i
    BY <1>9, <1>10, <2>1
  <2>2. CASE k # i
    <3>1. PICK l \in DOMAIN toClient[k] : toClient[k][l][2] = MusicRequest
      BY <1>2, <1>20, <2>2 DEF MusicAskedInv
    <3>2. l \in DOMAIN toClient'[k] /\ toClient'[k][l] = toClient[k][l]
      BY <1>20, <2>2, <3>1 DEF Tells
    <3>3. QED
      BY <3>1, <3>2
  <2>3. QED
    BY <2>1, <2>2
<1>24. QED
  BY <1>15, <1>16, <1>17, <1>18, <1>19, <1>21, <1>22, <1>23 DEF EnvInv
-----------------------------------------------------------------------------
(* The server handles a message of a client.                               *)

\* What a message that is handled can be, and what it changes.
HandledMessage(i, m) ==
  \/ /\ \E look \in LooksOf(i) : m = UserState(i, look) /\ userStates'[i] = look
     /\ \A j \in Users \ {i} : userStates'[j] = userStates[j]
     /\ music' = music
  \/ /\ m = MusicState(music') /\ music' \in 1 .. MaxSent
     /\ phase[i] # "down" => played[i]
     /\ userStates' = userStates
  \/ /\ m = MusicRequest \/ \E q \in Users : m = UserRequest(q)
     /\ userStates' = userStates /\ music' = music

\* A truthful answer.
IsAnswer(x) ==
  /\ x \in ServerMessages
  /\ x = MusicState(music) \/ \E q \in Users : x = UserState(q, userStates[q])
  /\ userStates' = userStates /\ music' = music

\* A user on a single port hears of it what the server stores, or is told what
\* the server has.
LEMMA HandledIsTold ==
  ASSUME EnvInv, NEW i \in Clients, NEW m \in ServerMessages, HandledMessage(i, m),
         conn' = conn, phase' = phase, i \in Users, Users' = Users,
         userCopy' = userCopy, musicCopy' = musicCopy,
         asked' = asked, played' = played,
         \A k \in Clients \ {i} : Live(k) =>
           toClient'[k] = Then(toClient[k], SignalHost(k), m),
         \/ toClient'[i] = toClient[i]
         \/ \E x : /\ IsAnswer(x)
                   /\ toClient'[i] = Then(toClient[i], EnvHost(i), x)
  PROVE  UserNewsInv' /\ MusicNewsInv' /\ MusicAskedInv'
<1>1. /\ TypeOK /\ Mail /\ SinglePort
      /\ UserNewsInv /\ MusicNewsInv /\ MusicAskedInv
  BY DEF EnvInv
<1>2. /\ \A k \in Clients : Ordered(k)' => Ordered(k) /\ Live(k) /\ phase[k] # "down"
      /\ \A k \in Clients : /\ EnvHost(k) \in Ports /\ SignalHost(k) \in Ports
                            /\ toClient[k] \in Seq(Ports \X ServerMessages)
      /\ \A j \in Users : j \in Clients /\ j \in Nat /\ j # Nobody /\ j # Silent
      /\ Silent # Nobody
  <2>1. \A k \in Clients : Ordered(k)' => Ordered(k) /\ Live(k) /\ phase[k] # "down"
    BY DEF Ordered, Live
  <2>2. \A k \in Clients : /\ EnvHost(k) \in Ports /\ SignalHost(k) \in Ports
                           /\ toClient[k] \in Seq(Ports \X ServerMessages)
    BY <1>1 DEF EnvHost, SignalHost, Ports, Mail
  <2>3. \A j \in Users : j \in Clients /\ j \in Nat /\ j # Nobody /\ j # Silent
    BY <1>1, EnvStateAssumption DEF TypeOK, Users, Clients, Nobody, Silent
  <2>4. QED
    BY <2>1, <2>2, <2>3 DEF Silent, Nobody
\* Whom the message, and an answer, are about.
<1>3. /\ \A j \in Users : j # i \/ Subject(m) # i =>
           Subject(m) # j /\ userStates'[j] = userStates[j]
      /\ Subject(m) = i => Content(m) = userStates'[i]
      /\ Subject(m) # Nobody => music' = music
      /\ Subject(m) = Nobody =>
           /\ Content(m) = music' /\ music' # NoMusic
           /\ phase[i] # "down" => played[i]
  <2>1. CASE /\ \E look \in LooksOf(i) : m = UserState(i, look) /\ userStates'[i] = look
             /\ \A j \in Users \ {i} : userStates'[j] = userStates[j]
             /\ music' = music
    <3>1. Subject(m) = i /\ Content(m) = userStates'[i]
      BY <1>2, <2>1, SaysUser
    <3>2. QED
      BY <1>2, <2>1, <3>1
  <2>2. CASE /\ m = MusicState(music') /\ music' \in 1 .. MaxSent
             /\ phase[i] # "down" => played[i]
             /\ userStates' = userStates
    <3>1. Subject(m) = Nobody /\ Content(m) = music' /\ music' # NoMusic
      BY <2>2, SaysMusic DEF NoMusic
    <3>2. QED
      BY <1>2, <2>2, <3>1
  <2>3. CASE /\ m = MusicRequest \/ \E q \in Users : m = UserRequest(q)
             /\ userStates' = userStates /\ music' = music
    <3>1. Subject(m) = Silent
      BY <2>3, SaysNothing
    <3>2. QED
      BY <1>2, <2>3, <3>1
  <2>4. QED
    BY <2>1, <2>2, <2>3 DEF HandledMessage
<1>4. ASSUME NEW x, IsAnswer(x)
      PROVE  /\ x \in ServerMessages /\ userStates' = userStates /\ music' = music
             /\ \A j \in Users : Subject(x) = j => Content(x) = userStates[j]
             /\ Subject(x) = Nobody => Content(x) = music
  <2>1. CASE x = MusicState(music)
    BY <1>2, <1>4, <2>1, SaysMusic DEF IsAnswer
  <2>2. CASE \E q \in Users : x = UserState(q, userStates[q])
    BY <1>2, <1>4, <2>2, SaysUser DEF IsAnswer
  <2>3. QED
    BY <1>4, <2>1, <2>2 DEF IsAnswer
<1>5. UserNewsInv'
  <2> SUFFICES ASSUME NEW k \in Clients, Ordered(k)', NEW j \in Users \ {k}
               PROVE  \E v : /\ Says(toClient'[k], j, userCopy[k][j], v)
                             /\ v = userStates'[j] \/ v \in LooksOf(k)
    BY DEF UserNewsInv
  <2>1. PICK v : /\ Says(toClient[k], j, userCopy[k][j], v)
                 /\ v = userStates[j] \/ v \in LooksOf(k)
    BY <1>1, <1>2 DEF UserNewsInv
  <2>2. CASE k # i /\ Subject(m) = j
    <3>1. \A c : Says(Then(toClient[k], SignalHost(k), m), Subject(m), c, Content(m))
      BY <1>2, Appended, Zenon
    <3>2. j = i
      BY <1>3, <2>2
    <3>3. Says(toClient'[k], j, userCopy[k][j], userStates'[j])
      BY <1>2, <1>3, <2>2, <3>1, <3>2
    <3>4. QED
      BY <3>3
  <2>3. CASE k # i /\ Subject(m) # j
    <3>1. Says(Then(toClient[k], SignalHost(k), m), j, userCopy[k][j], v)
      BY <1>2, <2>1, <2>3, Appended, Zenon
    <3>2. toClient'[k] = Then(toClient[k], SignalHost(k), m)
      BY <1>2, <2>3
    <3>3. userStates'[j] = userStates[j]
      BY <1>3, <2>3
    <3>4. QED
      BY <2>1, <3>1, <3>2, <3>3
  <2>4. CASE k = i /\ toClient'[i] = toClient[i]
    <3>1. userStates'[j] = userStates[j]
      BY <1>3, <2>4
    <3>2. QED
      BY <2>1, <2>4, <3>1
  <2>5. ASSUME k = i, NEW x, IsAnswer(x),
               toClient'[i] = Then(toClient[i], EnvHost(i), x)
        PROVE  \E w : /\ Says(toClient'[k], j, userCopy[k][j], w)
                      /\ w = userStates'[j] \/ w \in LooksOf(k)
    <3>1. x \in ServerMessages
      BY <1>4, <2>5
    <3>2. CASE Subject(x) = j
      <4>1. \A c : Says(Then(toClient[k], EnvHost(k), x), Subject(x), c, Content(x))
        BY <1>2, <3>1, Appended, Zenon
      <4>2. QED
        BY <1>4, <2>5, <3>2, <4>1
    <3>3. CASE Subject(x) # j
      <4>1. Says(Then(toClient[k], EnvHost(k), x), j, userCopy[k][j], v)
        BY <1>2, <2>1, <3>1, <3>3, Appended, Zenon
      <4>2. QED
        BY <1>4, <2>1, <2>5, <4>1
    <3>4. QED
      BY <3>2, <3>3
  <2>6. QED
    BY <2>2, <2>3, <2>4, <2>5
<1>6. MusicNewsInv'
  <2> SUFFICES ASSUME NEW k \in Clients, Ordered(k)', ~played[k]
               PROVE  Says(toClient'[k], Nobody, musicCopy[k], music')
    BY DEF MusicNewsInv
  <2>1. Says(toClient[k], Nobody, musicCopy[k], music)
    BY <1>1, <1>2 DEF MusicNewsInv
  <2>2. CASE k # i /\ Subject(m) = Nobody
    <3>1. \A c : Says(Then(toClient[k], SignalHost(k), m), Subject(m), c, Content(m))
      BY <1>2, Appended, Zenon
    <3>2. QED
      BY <1>2, <1>3, <2>2, <3>1
  <2>3. CASE k # i /\ Subject(m) # Nobody
    <3>1. Says(Then(toClient[k], SignalHost(k), m), Nobody, musicCopy[k], music)
      BY <1>2, <2>1, <2>3, Appended, Zenon
    <3>2. QED
      BY <1>2, <1>3, <2>3, <3>1
  <2>4. CASE k = i /\ toClient'[i] = toClient[i]
    <3>1. Subject(m) # Nobody
      BY <1>2, <1>3, <2>4
    <3>2. QED
      BY <1>3, <2>1, <2>4, <3>1
  <2>5. ASSUME k = i, NEW x, IsAnswer(x),
               toClient'[i] = Then(toClient[i], EnvHost(i), x)
        PROVE  Says(toClient'[k], Nobody, musicCopy[k], music')
    <3>1. x \in ServerMessages
      BY <1>4, <2>5
    <3>2. CASE Subject(x) = Nobody
      <4>1. \A c : Says(Then(toClient[k], EnvHost(k), x), Subject(x), c, Content(x))
        BY <1>2, <3>1, Appended, Zenon
      <4>2. QED
        BY <1>4, <2>5, <3>2, <4>1
    <3>3. CASE Subject(x) # Nobody
      <4>1. Says(Then(toClient[k], EnvHost(k), x), Nobody, musicCopy[k], music)
        BY <1>2, <2>1, <3>1, <3>3, Appended, Zenon
      <4>2. QED
        BY <1>4, <2>5, <4>1
    <3>4. QED
      BY <3>2, <3>3
  <2>6. QED
    BY <2>2, <2>3, <2>4, <2>5
<1>7. MusicAskedInv'
  <2> SUFFICES ASSUME NEW k \in Clients, Ordered(k)', music' = NoMusic, ~asked[k]
               PROVE  \E l \in DOMAIN toClient'[k] :
                        toClient'[k][l][2] = MusicRequest
    BY DEF MusicAskedInv
  <2>1. music = NoMusic
    BY <1>3
  <2>2. PICK l \in DOMAIN toClient[k] : toClient[k][l][2] = MusicRequest
    BY <1>1, <1>2, <2>1 DEF MusicAskedInv
  <2>3. ASSUME NEW h \in Ports, NEW x \in ServerMessages,
               toClient'[k] = Then(toClient[k], h, x)
        PROVE  l \in DOMAIN toClient'[k] /\ toClient'[k][l] = toClient[k][l]
    <3>1. /\ l \in DOMAIN Then(toClient[k], h, x)
          /\ Then(toClient[k], h, x)[l] = toClient[k][l]
      BY <1>2, <2>2, Appended, Zenon
    <3>2. QED
      BY <2>3, <3>1
  <2>4. l \in DOMAIN toClient'[k] /\ toClient'[k][l] = toClient[k][l]
    BY <1>2, <1>4, <2>2, <2>3
  <2>5. QED
    BY <2>2, <2>4
<1>8. QED
  BY <1>5, <1>6, <1>7
LEMMA HandleEnvStep ==
  ASSUME EnvInv, NEW i \in Clients, HandleEnv(i)
  PROVE  EnvInv'
<1>1. PICK raw, m : raw = Head(toServer[i]) /\ m = AsSender(raw, i)
  OBVIOUS
<1>2. /\ toServer[i] # <<>>
      /\ toServer' = [toServer EXCEPT ![i] = Tail(@)]
      /\ starts' = starts /\ sent' = sent /\ phase' = phase /\ offers' = offers
      /\ userCopy' = userCopy /\ musicCopy' = musicCopy
      /\ asked' = asked /\ played' = played
      /\ conn' = conn /\ adopted' = adopted
  BY DEF HandleEnv
<1>3. /\ TypeOK /\ Mail /\ Registered /\ BlankWhileGone /\ SinglePort /\ FreshStart
      /\ UserNewsInv /\ MusicNewsInv /\ MusicAskedInv
  BY DEF EnvInv
\* The message, and those that remain.
<1>4. PICK s : s = toServer[i]
  OBVIOUS
<1>5. /\ s \in Seq(UNION {ClientMessages(k) : k \in Clients}) /\ s # <<>>
      /\ Tail(s) \in Seq(UNION {ClientMessages(k) : k \in Clients})
      /\ 1 \in DOMAIN s /\ raw = s[1]
      /\ \A l \in DOMAIN Tail(s) : l + 1 \in DOMAIN s /\ Tail(s)[l] = s[l + 1]
  <2>1. s \in Seq(UNION {ClientMessages(k) : k \in Clients}) /\ s # <<>>
    BY <1>2, <1>3, <1>4 DEF Mail
  <2>2. raw = Head(s)
    BY <1>1, <1>4
  <2>3. QED
    BY <2>1, <2>2
<1>6. /\ raw \in ClientMessages(i)
      /\ raw.type = "UserRequest" => raw.user \in Users
      /\ raw.type = "MusicState" /\ phase[i] # "down" => played[i]
  BY <1>3, <1>4, <1>5 DEF Mail, FreshStart
<1>7. /\ \A j \in Users : j \in Clients /\ userStates[j] \in Looks \ {Unknown}
      /\ i \in Nat /\ First \in Nat
      /\ MaxSent \in Nat /\ music \in 0 .. MaxSent
  BY <1>3, EnvStateAssumption DEF TypeOK, Users, Clients, First
<1>8. \/ \E look \in LooksOf(i) : m = UserState(i, look)
      \/ \E n \in 1 .. MaxSent : m = MusicState(n) /\ (phase[i] # "down" => played[i])
      \/ m = MusicRequest
      \/ \E q \in Users : m = UserRequest(q)
  <2>1. ASSUME NEW u \in Speakers(i), NEW look \in LooksOf(i),
               raw = UserState(u, look)
        PROVE  m = UserState(i, look)
    <3>1. raw.type = "UserState"
      BY <2>1 DEF UserState
    <3>2. m = [raw EXCEPT !.user = i]
      BY <1>1, <3>1 DEF AsSender
    <3>3. QED
      BY <2>1, <3>2 DEF UserState
  <2>2. ASSUME NEW n \in 1 .. MaxSent, raw = MusicState(n)
        PROVE  m = MusicState(n) /\ (phase[i] # "down" => played[i])
    BY <1>1, <1>6, <2>2, SaysMusic DEF AsSender
  <2>3. CASE raw = MusicRequest
    BY <1>1, <2>3, SaysNothing DEF AsSender
  <2>4. ASSUME NEW j \in Clients, raw = UserRequest(j)
        PROVE  m = UserRequest(j) /\ j \in Users
    BY <1>1, <1>6, <2>4, SaysNothing DEF AsSender
  <2>5. QED
    BY <1>6, <2>1, <2>2, <2>3, <2>4, ClientMessageCases
<1>9. m \in ServerMessages
  BY <1>7, <1>8, LookFacts DEF ServerMessages
\* What is stored, and told.
<1>10. IF conn[i]
         THEN /\ userStates' = IF m.type = "UserState"
                                 THEN [userStates EXCEPT ![i] = m.look]
                                 ELSE userStates
              /\ music' = IF m.type = "MusicState" THEN m.music ELSE music
              /\ toClient' = [k \in Clients |->
                   IF Live(k)
                     THEN toClient[k] \o
                            ((IF k = i THEN ByEnv(k, Answer(m)) ELSE <<>>)
                               \o (IF k # i THEN BySignal(k, m) ELSE <<>>))
                     ELSE toClient[k]]
         ELSE userStates' = userStates /\ music' = music /\ toClient' = toClient
  BY <1>1 DEF HandleEnv, Handled, Send, RelayedTo
<1>11. conn[i] => /\ i \in Users /\ HandledMessage(i, m)
                  /\ userStates' \in Seq(Looks \ {Unknown})
                  /\ Len(userStates') = Len(userStates) /\ music' \in 0 .. MaxSent
                  /\ \A j \in Users \ {i} : userStates'[j] = userStates[j]
  <2> SUFFICES ASSUME conn[i]
               PROVE  /\ i \in Users /\ HandledMessage(i, m)
                      /\ userStates' \in Seq(Looks \ {Unknown})
                      /\ Len(userStates') = Len(userStates) /\ music' \in 0 .. MaxSent
                          /\ \A j \in Users \ {i} : userStates'[j] = userStates[j]
    OBVIOUS
  <2>1. i \in Users /\ userStates \in Seq(Looks \ {Unknown})
    BY <1>3 DEF TypeOK
  <2>2. ASSUME NEW look \in LooksOf(i), m = UserState(i, look)
        PROVE  /\ userStates' = [userStates EXCEPT ![i] = look]
               /\ look \in Looks \ {Unknown} /\ music' = music
    BY <1>7, <1>10, <2>2, SaysUser, LookFacts
  <2>3. ASSUME NEW look \in LooksOf(i), m = UserState(i, look)
        PROVE  /\ HandledMessage(i, m)
               /\ userStates' \in Seq(Looks \ {Unknown})
               /\ Len(userStates') = Len(userStates) /\ music' \in 0 .. MaxSent
               /\ \A j \in Users \ {i} : userStates'[j] = userStates[j]
    <3>1. /\ userStates' \in Seq(Looks \ {Unknown})
          /\ Len(userStates') = Len(userStates)
          /\ userStates'[i] = look
          /\ \A j \in Users \ {i} : userStates'[j] = userStates[j]
      BY <2>1, <2>2, <2>3 DEF Users
    <3>2. QED
      BY <1>7, <2>2, <2>3, <3>1 DEF HandledMessage
  <2>4. ASSUME NEW n \in 1 .. MaxSent, m = MusicState(n),
               phase[i] # "down" => played[i]
        PROVE  /\ HandledMessage(i, m) /\ userStates' = userStates
               /\ music' \in 0 .. MaxSent
    <3>1. userStates' = userStates /\ music' = n
      BY <1>10, <2>4, SaysMusic
    <3>2. QED
      BY <1>7, <2>4, <3>1 DEF HandledMessage
  <2>5. CASE m = MusicRequest \/ \E q \in Users : m = UserRequest(q)
    <3>1. userStates' = userStates /\ music' = music
      BY <1>10, <2>5, SaysNothing
    <3>2. QED
      BY <1>7, <2>1, <2>5, <3>1 DEF HandledMessage
  <2>6. QED
    BY <1>8, <2>1, <2>3, <2>4, <2>5
<1>12. ASSUME NEW k \in Clients
       PROVE  /\ EnvHost(k) \in Ports /\ SignalHost(k) \in Ports
              /\ k \notin Separate => EnvHost(k) = "control" /\ SignalHost(k) = "control"
              /\ toClient[k] \in Seq(Ports \X ServerMessages)
              /\ BySignal(k, m) = <<<<SignalHost(k), m>>>>
  BY <1>3, <1>9, Packets DEF Mail
<1>13. ASSUME conn[i], NEW k \in Clients \ {i}, Live(k)
       PROVE  toClient'[k] = Then(toClient[k], SignalHost(k), m)
  <2>1. toClient'[k] = toClient[k] \o (<<>> \o <<<<SignalHost(k), m>>>>)
    BY <1>10, <1>12, <1>13
  <2>2. QED
    BY <2>1 DEF Then
<1>14. ASSUME conn[i]
       PROVE  \/ toClient'[i] = toClient[i]
              \/ \E x : /\ IsAnswer(x)
                        /\ toClient'[i] = Then(toClient[i], EnvHost(i), x)
  <2>1. CASE ~Live(i)
    BY <1>10, <1>14, <2>1
  <2>2. CASE Live(i)
    <3>1. toClient'[i] = toClient[i] \o (ByEnv(i, Answer(m)) \o <<>>)
      BY <1>10, <1>14, <2>2
    <3>2. ASSUME NEW x \in ServerMessages, Answer(m) = <<x>>
          PROVE  toClient'[i] = Then(toClient[i], EnvHost(i), x)
      <4>1. ByEnv(i, <<x>>) = <<<<EnvHost(i), x>>>>
        BY <1>3, Packets
      <4>2. PICK e : e = <<EnvHost(i), x>>
        OBVIOUS
      <4>3. toClient'[i] = toClient[i] \o (<<e>> \o <<>>)
        BY <3>1, <3>2, <4>1, <4>2
      <4>4. <<e>> \o <<>> = <<e>>
        OBVIOUS
      <4>5. QED
        BY <4>2, <4>3, <4>4 DEF Then
    <3>3. CASE m.type \in {"UserState", "MusicState"}
      <4>1. Answer(m) = <<>>
        BY <3>3 DEF Answer
      <4>2. ByEnv(i, <<>>) = <<>>
        BY DEF ByEnv
      <4>3. QED
        BY <1>12, <3>1, <4>1, <4>2
    <3>4. CASE m = MusicRequest
      <4>1. /\ Answer(m) = <<MusicState(music)>>
            /\ userStates' = userStates /\ music' = music
        BY <1>10, <1>14, <3>4, SaysNothing DEF Answer
      <4>2. MusicState(music) \in ServerMessages
        BY <1>7 DEF ServerMessages
      <4>3. QED
        BY <3>2, <4>1, <4>2 DEF IsAnswer
    <3>5. ASSUME NEW q \in Users, m = UserRequest(q)
          PROVE  \E x : /\ IsAnswer(x)
                        /\ toClient'[i] = Then(toClient[i], EnvHost(i), x)
      <4>1. /\ Answer(m) = <<UserState(q, userStates[q])>>
            /\ userStates' = userStates /\ music' = music
        BY <1>10, <1>14, <3>5, SaysNothing DEF Answer
      <4>2. UserState(q, userStates[q]) \in ServerMessages
        BY <1>7 DEF ServerMessages
      <4>3. QED
        BY <3>2, <4>1, <4>2 DEF IsAnswer
    <3>6. QED
      BY <1>7, <1>8, <3>3, <3>4, <3>5, SaysUser, SaysMusic
  <2>3. QED
    BY <2>1, <2>2
\* In short: each has what it had, or one more message by one of its ports.
<1>15. ASSUME NEW k \in Clients
       PROVE  \/ toClient'[k] = toClient[k]
              \/ \E x \in ServerMessages, h \in {EnvHost(k), SignalHost(k)} :
                   toClient'[k] = Then(toClient[k], h, x)
  <2>1. CASE ~conn[i] \/ ~Live(k)
    BY <1>10, <2>1
  <2>2. CASE conn[i] /\ Live(k)
    BY <1>9, <1>13, <1>14, <2>2 DEF IsAnswer
  <2>3. QED
    BY <2>1, <2>2
<1>16. toClient' \in [Clients -> Seq(Ports \X ServerMessages)]
  <2>1. ASSUME NEW k \in Clients
        PROVE  toClient'[k] \in Seq(Ports \X ServerMessages)
    <3>1. ASSUME NEW x \in ServerMessages, NEW h \in Ports
          PROVE  Then(toClient[k], h, x) \in Seq(Ports \X ServerMessages)
      BY <1>12, Appended, Zenon
    <3>2. QED
      BY <1>12, <1>15, <3>1
  <2>2. toClient' = [k \in Clients |-> toClient'[k]]
    BY <1>3, <1>10 DEF Mail
  <2>3. QED
    BY <2>1, <2>2
<1>17. Users' = Users /\ DOMAIN toServer' = Clients
  BY <1>2, <1>3, <1>10, <1>11 DEF Users, TypeOK, Mail
<1>18. TypeOK'
  BY <1>2, <1>3, <1>10, <1>11, <1>17 DEF TypeOK
<1>19. toServer'[i] = Tail(s) /\ \A k \in Clients \ {i} : toServer'[k] = toServer[k]
  BY <1>2, <1>3, <1>4 DEF Mail
<1>20. ASSUME NEW k \in Clients, NEW l \in DOMAIN toServer'[k]
       PROVE  \E n \in DOMAIN toServer[k] : toServer'[k][l] = toServer[k][n]
  <2>1. CASE k = i
    <3>1. l \in DOMAIN Tail(s)
      BY <1>19, <1>20, <2>1
    <3>2. l + 1 \in DOMAIN s /\ Tail(s)[l] = s[l + 1]
      BY <1>5, <3>1
    <3>3. QED
      BY <1>4, <1>19, <2>1, <3>2
  <2>2. CASE k # i
    BY <1>19, <1>20, <2>2
  <2>3. QED
    BY <2>1, <2>2
<1>21. Mail'
  <2>1. ASSUME NEW k \in Clients, NEW l \in DOMAIN toServer'[k]
        PROVE  /\ toServer'[k][l] \in ClientMessages(k)
               /\ toServer'[k][l].type = "UserRequest" =>
                    toServer'[k][l].user \in Users'
    <3>1. \E n \in DOMAIN toServer[k] : toServer'[k][l] = toServer[k][n]
      BY <1>20, <2>1
    <3>2. QED
      BY <1>3, <1>17, <3>1 DEF Mail
  <2>2. toServer' \in [Clients -> Seq(UNION {ClientMessages(k) : k \in Clients})]
    BY <1>2, <1>3, <1>4, <1>5 DEF Mail
  <2>3. QED
    BY <1>16, <2>1, <2>2 DEF Mail
<1>22. Registered' /\ BlankWhileGone'
  <2>1. Registered'
    BY <1>2, <1>3, <1>17 DEF Registered
  <2>2. BlankWhileGone'
    <3>1. ASSUME NEW j \in Users, ~conn[j] PROVE IsBlank(userStates'[j])
      <4>1. userStates'[j] = userStates[j]
        BY <1>10, <1>11, <3>1
      <4>2. QED
        BY <1>3, <3>1, <4>1 DEF BlankWhileGone
    <3>2. QED
      BY <1>2, <1>17, <3>1 DEF BlankWhileGone
  <2>3. QED
    BY <2>1, <2>2
<1>23. SinglePort'
  <2>1. ASSUME NEW k \in Clients \ Separate, NEW l \in DOMAIN toClient'[k]
        PROVE  toClient'[k][l][1] = "control"
    <3>1. CASE toClient'[k] = toClient[k]
      BY <1>3, <2>1, <3>1 DEF SinglePort
    <3>2. ASSUME NEW x \in ServerMessages, NEW h \in {EnvHost(k), SignalHost(k)},
                 toClient'[k] = Then(toClient[k], h, x)
          PROVE  toClient'[k][l][1] = "control"
      <4>1. h = "control"
        BY <1>12
      <4>2. h \in Ports
        BY <1>12
      <4>3. \A n \in DOMAIN Then(toClient[k], h, x) :
              \/ n \in DOMAIN toClient[k]
                 /\ Then(toClient[k], h, x)[n] = toClient[k][n]
              \/ Then(toClient[k], h, x)[n][1] = h
        BY <1>12, <4>2, Appended, Zenon
      <4>4. QED
        BY <1>3, <2>1, <3>2, <4>1, <4>3 DEF SinglePort
    <3>3. QED
      BY <1>15, <3>1, <3>2
  <2>2. QED
    BY <1>2, <1>3, <2>1 DEF SinglePort
<1>24. FreshStart'
  <2>1. ASSUME NEW k \in Clients, phase[k] # "down", NEW l \in DOMAIN toServer'[k],
               toServer'[k][l].type = "MusicState"
        PROVE  played[k]
    <3>1. \E n \in DOMAIN toServer[k] : toServer'[k][l] = toServer[k][n]
      BY <1>20, <2>1
    <3>2. QED
      BY <1>3, <2>1, <3>1 DEF FreshStart
  <2>2. QED
    BY <1>2, <1>3, <2>1 DEF FreshStart
<1>25. UserNewsInv' /\ MusicNewsInv' /\ MusicAskedInv'
  <2>1. CASE conn[i]
    BY <1>2, <1>9, <1>11, <1>13, <1>14, <1>17, <2>1, HandledIsTold
  <2>2. CASE ~conn[i]
    <3>1. \A k \in Clients : Ordered(k)' => Ordered(k)
      BY <1>2 DEF Ordered, Live
    <3>2. QED
      BY <1>2, <1>10, <2>2, <3>1, NewsKept
  <2>3. QED
    BY <2>1, <2>2
<1>26. QED
  BY <1>18, <1>21, <1>22, <1>23, <1>24, <1>25 DEF EnvInv

-----------------------------------------------------------------------------
(* The theorems.                                                           *)

LEMMA EnvInit == Init => EnvInv
<1> SUFFICES ASSUME Init
             PROVE  EnvInv
  OBVIOUS
<1>1. /\ starts = 0 /\ sent = 0 /\ phase = [i \in Clients |-> "down"]
      /\ offers = [i \in Clients |-> {}] /\ toServer = [i \in Clients |-> <<>>]
      /\ userCopy = [i \in Clients |-> [j \in Clients |-> Unknown]]
      /\ musicCopy = [i \in Clients |-> NoMusic]
      /\ asked = [i \in Clients |-> FALSE] /\ played = [i \in Clients |-> FALSE]
      /\ conn = [i \in Clients |-> FALSE] /\ adopted = [i \in Clients |-> {}]
      /\ toClient = [i \in Clients |-> <<>>] /\ userStates = <<>>
      /\ music = NoMusic
  BY DEF Init
<1>2. Users = {} /\ \A i \in Clients : ~Ordered(i)
  BY <1>1 DEF Users, Ordered, Live
<1>3. TypeOK
  <2>1. N \in Nat /\ MaxStarts \in Nat /\ MaxSent \in Nat
    BY EnvStateAssumption
  <2>2. userStates \in Seq(Looks \ {Unknown}) /\ Len(userStates) <= N
    BY <1>1, <2>1
  <2>3. userCopy \in [Clients -> [Clients -> Looks]]
    BY <1>1, LookFacts
  <2>4. musicCopy \in [Clients -> 0 .. MaxSent] /\ music \in 0 .. MaxSent
    BY <1>1, <2>1 DEF NoMusic
  <2>5. QED
    BY <1>1, <2>1, <2>2, <2>3, <2>4 DEF TypeOK
<1>4. Mail
  BY <1>1 DEF Mail
<1>5. Registered /\ BlankWhileGone
  BY <1>1, <1>2 DEF Registered, BlankWhileGone
<1>6. SinglePort /\ FreshStart
  BY <1>1 DEF SinglePort, FreshStart
<1>7. UserNewsInv /\ MusicNewsInv /\ MusicAskedInv
  BY <1>2 DEF UserNewsInv, MusicNewsInv, MusicAskedInv
<1>8. QED
  BY <1>3, <1>4, <1>5, <1>6, <1>7 DEF EnvInv

LEMMA EnvNext == EnvInv /\ [Next]_vars => EnvInv'
<1> SUFFICES ASSUME EnvInv, [Next]_vars
             PROVE  EnvInv'
  OBVIOUS
<1>1. CASE UNCHANGED vars
  <2>1. /\ starts' = starts /\ sent' = sent /\ phase' = phase /\ offers' = offers
        /\ toServer' = toServer /\ userCopy' = userCopy /\ musicCopy' = musicCopy
        /\ asked' = asked /\ played' = played /\ conn' = conn
        /\ adopted' = adopted /\ toClient' = toClient
        /\ userStates' = userStates /\ music' = music
    BY <1>1 DEF vars, clientVars, serverVars
  <2>2. /\ TypeOK /\ Mail /\ Registered /\ BlankWhileGone /\ SinglePort /\ FreshStart
    BY DEF EnvInv
  <2>3. TypeOK' /\ Users' = Users
    BY <2>1, <2>2 DEF TypeOK, Users
  <2>4. Mail' /\ Registered' /\ BlankWhileGone' /\ SinglePort' /\ FreshStart'
    BY <2>1, <2>2, <2>3 DEF Mail, Registered, BlankWhileGone, SinglePort, FreshStart
  <2>5. UserNewsInv' /\ MusicNewsInv' /\ MusicAskedInv'
    <3>1. \A i \in Clients : Ordered(i)' => Ordered(i)
      BY <2>1 DEF Ordered, Live
    <3>2. QED
      BY <2>1, <3>1, NewsKept
  <2>6. QED
    BY <2>3, <2>4, <2>5 DEF EnvInv
<1>2. ASSUME NEW i \in Clients,
             \/ Join(i) \/ Stop(i) \/ LearnIndex(i)
             \/ \E m \in NextMessages(i) : SendEnv(i, m)
             \/ Receive(i) \/ Disconnect(i) \/ HandleNewConnection(i)
             \/ \E h \in {"env", "signal"} : HandlePortOverride(i, h)
             \/ HandleEnv(i)
      PROVE  EnvInv'
  <2>1. CASE Join(i)
    BY <2>1, JoinStep
  <2>2. CASE Stop(i)
    BY <2>2, StopStep
  <2>3. CASE LearnIndex(i)
    BY <2>3, LearnIndexStep
  <2>4. CASE \E m \in NextMessages(i) : SendEnv(i, m)
    BY <2>4, SendEnvStep
  <2>5. CASE Receive(i)
    BY <2>5, ReceiveStep
  <2>6. CASE Disconnect(i)
    BY <2>6, DisconnectStep
  <2>7. CASE HandleNewConnection(i)
    BY <2>7, HandleNewConnectionStep
  <2>8. CASE \E h \in {"env", "signal"} : HandlePortOverride(i, h)
    BY <2>8, HandlePortOverrideStep
  <2>9. CASE HandleEnv(i)
    BY <2>9, HandleEnvStep
  <2>10. QED
    BY <1>2, <2>1, <2>2, <2>3, <2>4, <2>5, <2>6, <2>7, <2>8, <2>9
<1>3. QED
  BY <1>1, <1>2 DEF Next

LEMMA EnvAlways == Spec => []EnvInv
BY EnvInit, EnvNext, PTL DEF Spec

\* Types; whoever is connected has a stored state, which is what disconnect()
\* (core/net/server.cpp) asserts before it writes to it.
THEOREM TypeCorrect == Spec => []TypeOK
<1>1. EnvInv => TypeOK
  BY DEF EnvInv
<1>2. QED
  BY <1>1, EnvAlways, PTL

LEMMA EnvReaches == EnvInv => UserStatesReach
<1> SUFFICES ASSUME EnvInv, NEW i \in Clients, Ordered(i), NEW j \in Users \ {i}
             PROVE  \/ FinalCopy(i, j) = userStates[j]
                    \/ FinalCopy(i, j) \in LooksOf(i)
  BY DEF UserStatesReach
<1>1. j \in Clients
  BY EnvStateAssumption DEF EnvInv, TypeOK, Users, Clients
<1>2. PICK v : /\ Says(toClient[i], j, userCopy[i][j], v)
               /\ v = userStates[j] \/ v \in LooksOf(i)
  BY DEF EnvInv, UserNewsInv
<1>3. FinalCopy(i, j) = v
  BY <1>1, <1>2, FinalCopies
<1>4. QED
  BY <1>2, <1>3

\* A user on a single port comes to know the state the server has of every other
\* user: send_initial_worldstate gives it those there were, and nothing that was
\* stored or announced since has been withheld from it or overtaken.
THEOREM EveryUserStateReaches == Spec => []UserStatesReach
BY EnvReaches, EnvAlways, PTL

\* The names of a user that was disconnected are blank until it connects again,
\* in the state ServerState keeps and in the copies the others end with, after any
\* number of joins, crashes, returns and messages that arrive too late.
THEOREM TheGoneAreBlank == Spec => []GoneIsBlank
<1>1. EnvInv => GoneIsBlank
  <2> SUFFICES ASSUME EnvInv, NEW j \in Users, ~conn[j]
               PROVE  /\ IsBlank(userStates[j])
                      /\ \A i \in Clients \ {j} : Ordered(i) =>
                           \/ IsBlank(FinalCopy(i, j))
                           \/ FinalCopy(i, j) \in LooksOf(i)
    BY DEF GoneIsBlank
  <2>1. IsBlank(userStates[j])
    BY DEF EnvInv, BlankWhileGone
  <2>2. ASSUME NEW i \in Clients \ {j}, Ordered(i)
        PROVE  FinalCopy(i, j) = userStates[j] \/ FinalCopy(i, j) \in LooksOf(i)
    BY <2>2, EnvReaches DEF UserStatesReach
  <2>3. QED
    BY <2>1, <2>2
<1>2. QED
  BY <1>1, EnvAlways, PTL

\* And the music the server has, unless it has played something itself; while
\* nobody has, it is asked to.
THEOREM TheMusicReaches == Spec => []MusicReaches
<1>1. EnvInv => MusicReaches
  <2> SUFFICES ASSUME EnvInv, NEW i \in Clients, Ordered(i)
               PROVE  /\ ~played[i] => FinalMusic(i) = music
                      /\ music = NoMusic =>
                           asked[i] \/ MusicMessages(i, "MusicRequest") # {}
    BY DEF MusicReaches
  <2>1. ~played[i] => FinalMusic(i) = music
    BY FinalCopies DEF EnvInv, MusicNewsInv
  <2>2. ASSUME music = NoMusic, ~asked[i]
        PROVE  MusicMessages(i, "MusicRequest") # {}
    <3>1. PICK l \in DOMAIN toClient[i] : toClient[i][l][2] = MusicRequest
      BY <2>2 DEF EnvInv, MusicAskedInv
    <3>2. QED
      BY <3>1, SaysNothing DEF MusicMessages
  <2>3. QED
    BY <2>1, <2>2
<1>2. QED
  BY <1>1, EnvAlways, PTL
=============================================================================
