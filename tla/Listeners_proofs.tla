---------------------------- MODULE Listeners_proofs ----------------------------
(***************************************************************************)
(* Proofs about Listeners, for any number of clients and listeners, any    *)
(* names, and any number of connections and requests.                      *)
(***************************************************************************)
EXTENDS Listeners, WellFoundedInduction, SequenceTheorems, TLAPS

-----------------------------------------------------------------------------
(* The inductive invariant.                                                *)

\* Indices that answer what a listener asked for, by its entry and the names
\* that clients have had.
Answers(names, entry, indices, known) ==
  \A n \in names :
    /\ n \in entry.unresolved \/ \E i \in entry.mask : <<n, i>> \in known
    /\ indices[n] # None =>
         indices[n] \in entry.mask /\ <<n, indices[n]>> \in known

\* A response tells the truth while it is on its way, too.
ResponsesMatch ==
  \A p \in DOMAIN responses :
    Answers(asked[p], listeners[responses[p].id], responses[p].clientIndices, bore)

\* The history of names has those of the clients that are there.
NamesAreRecorded == \A i \in Connected : <<name[i], i>> \in bore

ListenersInv ==
  TypeOK /\ NamesAreRecorded /\ AwaitedAreAbsent /\ ResponsesMatch /\ EntryIsOwn

-----------------------------------------------------------------------------
(* The lookup of a name.                                                   *)

LEMMA Least ==
  ASSUME NEW S \in SUBSET Nat, S # {}
  PROVE  \E i \in S : \A j \in S : i <= j
<1>1. PICK i \in S : \A j \in S : ~ (<<j, i>> \in OpToRel(<, Nat))
  BY NatLessThanWellFounded, WFMin, Zenon
<1>2. \A j \in S : ~ (j < i)
  BY <1>1 DEF OpToRel
<1>3. QED
  BY <1>2

\* An index that is found is of a client with the name; if none is found, none
\* has it.
LEMMA FoundFacts ==
  ASSUME TypeOK, NEW n
  PROVE  /\ Found(n) \in 0 .. registered
         /\ Found(n) # None => Found(n) \in 1 .. registered /\ name[Found(n)] = n
         /\ Found(n) = None => \A i \in 1 .. registered : name[i] # n
<1> DEFINE S == {i \in 1 .. registered : name[i] = n}
<1>1. registered \in Nat /\ S \subseteq 1 .. registered
  BY DEF TypeOK
<1>2. CASE S = {}
  BY <1>1, <1>2 DEF Found, None
<1>3. CASE S # {}
  <2>1. \E i \in S : \A j \in S : i <= j
    <3>1. S \in SUBSET Nat
      BY <1>1
    <3> HIDE DEF S
    <3>2. QED
      BY <1>3, <3>1, Least
  <2>2. Found(n) = CHOOSE i \in S : \A j \in S : i <= j
    BY <1>3 DEF Found
  <2>3. Found(n) \in S
    BY <2>1, <2>2
  <2>4. QED
    BY <1>1, <2>3 DEF None
<1>4. QED
  BY <1>2, <1>3

-----------------------------------------------------------------------------
(* Entries and answers.                                                    *)

Entries(count) == [mask : SUBSET (1 .. count), unresolved : SUBSET Names]

LEMMA EntryIsOwnAnswers ==
  EntryIsOwn <=> \A p \in Running : net_id[p] # None =>
                   Answers(asked[p], listeners[net_id[p]], indexOf[p], bore)
  BY DEF EntryIsOwn, Answers

\* Names may be resolved and clients may take names: answers stay true.
LEMMA AnswersGrow ==
  ASSUME NEW names, NEW e, NEW f, NEW indices, NEW known, NEW more,
         Answers(names, e, indices, known),
         known \subseteq more, e.mask \subseteq f.mask,
         \A n \in e.unresolved \ f.unresolved : \E i \in f.mask : <<n, i>> \in more
  PROVE  Answers(names, f, indices, more)
  BY DEF Answers

LEMMA ResolvedFacts ==
  ASSUME NEW r \in Nat, NEW s \in Nat, r <= s, NEW e \in Entries(r),
         NEW n \in Names, NEW i \in 1 .. s
  PROVE  /\ Resolved(e, n, i) \in Entries(s)
         /\ e.mask \subseteq Resolved(e, n, i).mask
         /\ Resolved(e, n, i).unresolved = e.unresolved \ {n}
         /\ n \in e.unresolved => i \in Resolved(e, n, i).mask
<1>1. e.mask \subseteq 1 .. s /\ e.unresolved \subseteq Names
  BY DEF Entries
<1>2. CASE n \in e.unresolved
  BY <1>1, <1>2 DEF Entries, Resolved
<1>3. CASE n \notin e.unresolved
  BY <1>1, <1>3 DEF Entries, Resolved
<1>4. QED
  BY <1>2, <1>3

\* What the invariant says of the state.
LEMMA Facts ==
  ASSUME ListenersInv
  PROVE  /\ TypeOK /\ NamesAreRecorded /\ AwaitedAreAbsent /\ ResponsesMatch
         /\ registered \in Nat /\ registered <= N
         /\ listeners \in Seq(Entries(registered))
         /\ \A p \in Running : net_id[p] # None =>
              Answers(asked[p], listeners[net_id[p]], indexOf[p], bore)
  BY EntryIsOwnAnswers, ListenersAssumption DEF ListenersInv, TypeOK, Entries

-----------------------------------------------------------------------------
(* A client connects.                                                      *)

LEMMA ClientConnectsStep ==
  ASSUME ListenersInv, NEW i \in Clients, NEW n \in Names, ClientConnects(i, n)
  PROVE  ListenersInv'
<1>1. /\ TypeOK /\ NamesAreRecorded /\ AwaitedAreAbsent /\ ResponsesMatch
      /\ registered \in Nat /\ registered <= N
      /\ listeners \in Seq(Entries(registered))
      /\ \A p \in Running : net_id[p] # None =>
           Answers(asked[p], listeners[net_id[p]], indexOf[p], bore)
  BY Facts
<1>2. /\ connects < MaxConnects /\ i <= registered + 1 /\ connects' = connects + 1
      /\ registered' = IF i > registered THEN i ELSE registered
      /\ name' = [name EXCEPT ![i] = n] /\ renamed' = renamed \ {i}
      /\ bore' = bore \cup {<<n, i>>}
      /\ listeners' = [l \in DOMAIN listeners |-> Resolved(listeners[l], n, i)]
      /\ asked' = asked /\ indexOf' = indexOf /\ net_id' = net_id
      /\ requests' = requests /\ responses' = responses
  BY DEF ClientConnects, listenerVars
<1>3. i \in Nat \ {0} /\ n # NoName /\ i <= N
  BY ListenersAssumption DEF Clients
<1>4. /\ registered' \in Nat /\ registered <= registered' /\ i \in 1 .. registered'
      /\ registered' <= N
  BY <1>1, <1>2, <1>3
<1>5. name \in [Clients -> Names \cup {NoName}]
  BY <1>1 DEF TypeOK
<1>6. Connected' = Connected \cup {i}
  <2>1. \A j \in Clients : name'[j] = IF j = i THEN n ELSE name[j]
    BY <1>2, <1>5
  <2>2. 1 .. registered' = (1 .. registered) \cup {i}
    BY <1>1, <1>2, <1>3
  <2>3. 1 .. registered' \subseteq Clients
    BY <1>4, ListenersAssumption DEF Clients
  <2>4. QED
    BY <1>3, <2>1, <2>2, <2>3 DEF Connected
<1>7. /\ DOMAIN listeners' = DOMAIN listeners
      /\ \A l \in DOMAIN listeners :
           /\ listeners'[l] \in Entries(registered')
           /\ listeners[l].mask \subseteq listeners'[l].mask
           /\ listeners'[l].unresolved = listeners[l].unresolved \ {n}
           /\ n \in listeners[l].unresolved => i \in listeners'[l].mask
  <2>1. ASSUME NEW l \in DOMAIN listeners
        PROVE  listeners[l] \in Entries(registered)
    BY <1>1, ElementOfSeq
  <2>2. QED
    BY <1>1, <1>2, <1>4, <2>1, ResolvedFacts
<1>8. ASSUME NEW l \in DOMAIN listeners, NEW names, NEW indices,
             Answers(names, listeners[l], indices, bore)
      PROVE  Answers(names, listeners'[l], indices, bore')
  <2>1. bore \subseteq bore' /\ <<n, i>> \in bore'
    BY <1>2
  <2>2. QED
    BY <1>7, <1>8, <2>1, AnswersGrow
<1>9. TypeOK'
  <2>1. /\ connects' \in 0 .. MaxConnects /\ registered' \in 0 .. N
        /\ name' \in [Clients -> Names \cup {NoName}]
    BY <1>1, <1>2, <1>4, <1>5, ListenersAssumption DEF TypeOK
  <2>2. renamed' \subseteq Connected'
    BY <1>1, <1>2, <1>6 DEF TypeOK
  <2>3. bore' \subseteq Names \X (1 .. registered')
    BY <1>1, <1>2, <1>4 DEF TypeOK
  <2>4. listeners' \in Seq(Entries(registered'))
    <3>1. Len(listeners) \in Nat /\ DOMAIN listeners = 1 .. Len(listeners)
      BY <1>1
    <3>2. QED
      BY <1>2, <1>7, <3>1
  <2>5. \A p \in Running : indexOf[p] \in [asked[p] -> 0 .. registered']
    BY <1>1, <1>4 DEF TypeOK
  <2>6. \A p \in DOMAIN responses :
          responses[p] \in [id : DOMAIN listeners,
                            clientIndices : [asked[p] -> 0 .. registered']]
    <3> SUFFICES ASSUME NEW p \in DOMAIN responses
                 PROVE  responses[p] \in [id : DOMAIN listeners,
                            clientIndices : [asked[p] -> 0 .. registered']]
      OBVIOUS
    <3>1. responses[p] \in [id : DOMAIN listeners,
                            clientIndices : [asked[p] -> 0 .. registered]]
      BY <1>1 DEF TypeOK
    <3>2. 0 .. registered \subseteq 0 .. registered'
      BY <1>1, <1>4
    <3>3. QED
      BY <3>1, <3>2
  <2>7. QED
    BY <1>1, <1>2, <1>7, <2>1, <2>2, <2>3, <2>4, <2>5, <2>6
    DEF TypeOK, Running, Entries
<1>10. NamesAreRecorded'
  BY <1>1, <1>2, <1>5, <1>6 DEF NamesAreRecorded, Connected, TypeOK
<1>11. AwaitedAreAbsent'
  BY <1>1, <1>2, <1>5, <1>6, <1>7 DEF AwaitedAreAbsent
<1>12. ResponsesMatch'
  BY <1>1, <1>2, <1>8 DEF ResponsesMatch, TypeOK
<1>13. EntryIsOwn'
  <2>1. ASSUME NEW p \in Running, net_id[p] # None
        PROVE  Answers(asked[p], listeners'[net_id[p]], indexOf[p], bore')
    BY <1>1, <1>8, <2>1 DEF TypeOK
  <2>2. QED
    BY <1>2, <2>1 DEF EntryIsOwn, Answers, Running
<1>14. QED
  BY <1>9, <1>10, <1>11, <1>12, <1>13 DEF ListenersInv

-----------------------------------------------------------------------------
(* A client leaves, or takes another name.                                 *)

LEMMA ClientLeavesStep ==
  ASSUME ListenersInv, NEW i \in Clients, ClientLeaves(i)
  PROVE  ListenersInv'
<1>1. /\ TypeOK /\ NamesAreRecorded /\ AwaitedAreAbsent /\ ResponsesMatch
      /\ EntryIsOwn
  BY DEF ListenersInv
<1>2. /\ name' = [name EXCEPT ![i] = NoName] /\ renamed' = renamed \ {i}
      /\ connects' = connects /\ registered' = registered /\ bore' = bore
      /\ listeners' = listeners
      /\ asked' = asked /\ indexOf' = indexOf /\ net_id' = net_id
      /\ requests' = requests /\ responses' = responses
  BY DEF ClientLeaves, listenerVars
<1>3. name \in [Clients -> Names \cup {NoName}]
  BY <1>1 DEF TypeOK
<1>4. Connected' = Connected \ {i} /\ \A j \in Connected' : name'[j] = name[j]
  <2>1. 1 .. registered \subseteq Clients
    BY <1>1, ListenersAssumption DEF TypeOK, Clients
  <2>2. \A j \in Clients : name'[j] = IF j = i THEN NoName ELSE name[j]
    BY <1>2, <1>3
  <2>3. QED
    BY <1>2, <2>1, <2>2 DEF Connected
<1>5. TypeOK'
  <2>1. name' \in [Clients -> Names \cup {NoName}]
    BY <1>2, <1>3
  <2>2. renamed' \subseteq Connected'
    BY <1>1, <1>2, <1>4 DEF TypeOK
  <2>3. QED
    BY <1>1, <1>2, <2>1, <2>2 DEF TypeOK, Running
<1>6. NamesAreRecorded' /\ AwaitedAreAbsent'
  BY <1>1, <1>2, <1>4 DEF NamesAreRecorded, AwaitedAreAbsent
<1>7. ResponsesMatch' /\ EntryIsOwn'
  BY <1>1, <1>2 DEF ResponsesMatch, EntryIsOwn, Answers, Running
<1>8. QED
  BY <1>5, <1>6, <1>7 DEF ListenersInv

LEMMA ClientRenamesStep ==
  ASSUME ListenersInv, NEW i \in Clients, NEW n \in Names, ClientRenames(i, n)
  PROVE  ListenersInv'
<1>1. /\ TypeOK /\ NamesAreRecorded /\ AwaitedAreAbsent /\ ResponsesMatch
      /\ \A p \in Running : net_id[p] # None =>
           Answers(asked[p], listeners[net_id[p]], indexOf[p], bore)
  BY Facts
<1>2. /\ i \in Connected
      /\ name' = [name EXCEPT ![i] = n] /\ renamed' = renamed \cup {i}
      /\ bore' = bore \cup {<<n, i>>}
      /\ connects' = connects /\ registered' = registered
      /\ listeners' = listeners
      /\ asked' = asked /\ indexOf' = indexOf /\ net_id' = net_id
      /\ requests' = requests /\ responses' = responses
  BY DEF ClientRenames, listenerVars
<1>3. name \in [Clients -> Names \cup {NoName}] /\ n # NoName
  BY <1>1, ListenersAssumption DEF TypeOK
<1>4. /\ Connected' = Connected
      /\ \A j \in Connected : name'[j] = IF j = i THEN n ELSE name[j]
  <2>1. 1 .. registered \subseteq Clients
    BY <1>1, ListenersAssumption DEF TypeOK, Clients
  <2>2. \A j \in Clients : name'[j] = IF j = i THEN n ELSE name[j]
    BY <1>2, <1>3
  <2>3. QED
    BY <1>2, <1>3, <2>1, <2>2 DEF Connected
<1>5. TypeOK'
  <2>1. name' \in [Clients -> Names \cup {NoName}]
    BY <1>2, <1>3
  <2>2. renamed' \subseteq Connected'
    BY <1>1, <1>2, <1>4 DEF TypeOK
  <2>3. bore' \subseteq Names \X (1 .. registered')
    BY <1>1, <1>2 DEF TypeOK, Connected
  <2>4. QED
    BY <1>1, <1>2, <2>1, <2>2, <2>3 DEF TypeOK, Running
<1>6. NamesAreRecorded' /\ AwaitedAreAbsent'
  BY <1>1, <1>2, <1>4 DEF NamesAreRecorded, AwaitedAreAbsent
<1>7. ASSUME NEW names, NEW e, NEW indices, Answers(names, e, indices, bore)
      PROVE  Answers(names, e, indices, bore')
  BY <1>2, <1>7 DEF Answers
<1>8. ResponsesMatch'
  BY <1>1, <1>2, <1>7 DEF ResponsesMatch
<1>9. EntryIsOwn'
  <2>1. ASSUME NEW p \in Running, net_id[p] # None
        PROVE  Answers(asked[p], listeners[net_id[p]], indexOf[p], bore')
    BY <1>1, <1>7, <2>1
  <2>2. QED
    BY <1>2, <2>1 DEF EntryIsOwn, Answers, Running
<1>10. QED
  BY <1>5, <1>6, <1>8, <1>9 DEF ListenersInv

-----------------------------------------------------------------------------
(* A listener starts, ends, is answered and takes in the answer.           *)

LEMMA ListenStep ==
  ASSUME ListenersInv, NEW p \in ListenerIds, NEW names \in SUBSET Names,
         Listen(p, names)
  PROVE  ListenersInv'
<1>1. /\ TypeOK /\ NamesAreRecorded /\ AwaitedAreAbsent /\ ResponsesMatch
      /\ EntryIsOwn
  BY DEF ListenersInv
<1>2. /\ p \notin Running
      /\ asked' = [q \in Running \cup {p} |-> IF q = p THEN names ELSE asked[q]]
      /\ indexOf' = [q \in Running \cup {p} |-> IF q = p THEN [n \in names |-> None]
                                                        ELSE indexOf[q]]
      /\ net_id' = [q \in Running \cup {p} |-> IF q = p THEN None ELSE net_id[q]]
      /\ requests' = requests \cup {p}
      /\ name' = name /\ renamed' = renamed
      /\ connects' = connects /\ registered' = registered /\ bore' = bore
      /\ listeners' = listeners /\ responses' = responses
  BY DEF Listen, clientVars
<1>3. Running' = Running \cup {p}
  BY <1>2 DEF Running
<1>4. /\ asked'[p] = names /\ net_id'[p] = None /\ indexOf'[p] = [n \in names |-> None]
      /\ \A q \in Running : /\ asked'[q] = asked[q] /\ net_id'[q] = net_id[q]
                            /\ indexOf'[q] = indexOf[q]
  BY <1>2
<1>5. DOMAIN responses \subseteq Running /\ p \notin DOMAIN responses
  BY <1>1, <1>2 DEF TypeOK
<1>6. TypeOK'
  <2>1. /\ Running' \subseteq ListenerIds
        /\ DOMAIN indexOf' = Running' /\ DOMAIN net_id' = Running'
    BY <1>1, <1>2, <1>3 DEF TypeOK
  <2>2. \A q \in Running' : /\ asked'[q] \subseteq Names
                            /\ indexOf'[q] \in [asked'[q] -> 0 .. registered]
                            /\ net_id'[q] \in {None} \cup DOMAIN listeners
    <3>1. [n \in names |-> None] \in [names -> 0 .. registered]
      BY <1>1, ListenersAssumption DEF TypeOK, None
    <3>2. QED
      BY <1>1, <1>3, <1>4, <3>1 DEF TypeOK
  <2>3. requests' \subseteq Running' /\ DOMAIN responses' \subseteq Running' \ requests'
    BY <1>1, <1>2, <1>3, <1>5 DEF TypeOK
  <2>4. \A q \in DOMAIN responses :
          responses[q] \in [id : DOMAIN listeners,
                            clientIndices : [asked'[q] -> 0 .. registered]]
    BY <1>1, <1>4, <1>5 DEF TypeOK
  <2>5. QED
    BY <1>1, <1>2, <2>1, <2>2, <2>3, <2>4 DEF TypeOK, Connected
<1>7. NamesAreRecorded' /\ AwaitedAreAbsent'
  BY <1>1, <1>2 DEF NamesAreRecorded, AwaitedAreAbsent, Connected
<1>8. ResponsesMatch'
  BY <1>1, <1>2, <1>4, <1>5 DEF ResponsesMatch
<1>9. EntryIsOwn'
  BY <1>1, <1>2, <1>3, <1>4 DEF EntryIsOwn
<1>10. QED
  BY <1>6, <1>7, <1>8, <1>9 DEF ListenersInv

LEMMA ListenerEndsStep ==
  ASSUME ListenersInv, NEW p \in ListenerIds, ListenerEnds(p)
  PROVE  ListenersInv'
<1>1. /\ TypeOK /\ NamesAreRecorded /\ AwaitedAreAbsent /\ ResponsesMatch
      /\ EntryIsOwn
  BY DEF ListenersInv
<1>2. /\ asked' = [q \in Running \ {p} |-> asked[q]]
      /\ indexOf' = [q \in Running \ {p} |-> indexOf[q]]
      /\ net_id' = [q \in Running \ {p} |-> net_id[q]]
      /\ requests' = requests \ {p}
      /\ responses' = [q \in DOMAIN responses \ {p} |-> responses[q]]
      /\ name' = name /\ renamed' = renamed
      /\ connects' = connects /\ registered' = registered /\ bore' = bore
      /\ listeners' = listeners
  BY DEF ListenerEnds, clientVars
<1>3. Running' = Running \ {p} /\ DOMAIN responses' = DOMAIN responses \ {p}
  BY <1>2 DEF Running
<1>4. /\ \A q \in Running' : /\ asked'[q] = asked[q] /\ net_id'[q] = net_id[q]
                             /\ indexOf'[q] = indexOf[q]
      /\ \A q \in DOMAIN responses' : responses'[q] = responses[q]
  BY <1>2, <1>3
<1>5. DOMAIN responses \subseteq Running \ requests
  BY <1>1 DEF TypeOK
<1>6. TypeOK'
  <2>1. /\ Running' \subseteq ListenerIds
        /\ DOMAIN indexOf' = Running' /\ DOMAIN net_id' = Running'
    BY <1>1, <1>2, <1>3 DEF TypeOK
  <2>2. \A q \in Running' : /\ asked'[q] \subseteq Names
                            /\ indexOf'[q] \in [asked'[q] -> 0 .. registered]
                            /\ net_id'[q] \in {None} \cup DOMAIN listeners
    BY <1>1, <1>3, <1>4 DEF TypeOK
  <2>3. requests' \subseteq Running' /\ DOMAIN responses' \subseteq Running' \ requests'
    BY <1>1, <1>2, <1>3, <1>5 DEF TypeOK
  <2>4. \A q \in DOMAIN responses' :
          responses'[q] \in [id : DOMAIN listeners,
                             clientIndices : [asked'[q] -> 0 .. registered]]
    BY <1>1, <1>3, <1>4, <1>5 DEF TypeOK
  <2>5. QED
    BY <1>1, <1>2, <2>1, <2>2, <2>3, <2>4 DEF TypeOK, Connected
<1>7. NamesAreRecorded' /\ AwaitedAreAbsent'
  BY <1>1, <1>2 DEF NamesAreRecorded, AwaitedAreAbsent, Connected
<1>8. ResponsesMatch'
  BY <1>1, <1>2, <1>3, <1>4, <1>5 DEF ResponsesMatch
<1>9. EntryIsOwn'
  BY <1>1, <1>2, <1>3, <1>4 DEF EntryIsOwn
<1>10. QED
  BY <1>6, <1>7, <1>8, <1>9 DEF ListenersInv

LEMMA HandleNewListenerStep ==
  ASSUME ListenersInv, NEW p \in ListenerIds, HandleNewListener(p)
  PROVE  ListenersInv'
<1>1. /\ TypeOK /\ NamesAreRecorded /\ AwaitedAreAbsent /\ ResponsesMatch
      /\ registered \in Nat /\ registered <= N
      /\ listeners \in Seq(Entries(registered))
      /\ \A q \in Running : net_id[q] # None =>
           Answers(asked[q], listeners[net_id[q]], indexOf[q], bore)
  BY Facts
<1>2. PICK indices : indices = [n \in asked[p] |-> Found(n)]
  OBVIOUS
<1>3. PICK entry : entry = [mask |-> {indices[n] : n \in asked[p]} \ {None},
                            unresolved |-> {n \in asked[p] : indices[n] = None}]
  OBVIOUS
<1>4. PICK k : k = Len(listeners) + 1
  OBVIOUS
<1>5. /\ p \in requests /\ requests' = requests \ {p}
      /\ listeners' = Append(listeners, entry)
      /\ responses' = [q \in DOMAIN responses \cup {p} |->
                         IF q = p THEN [id |-> k, clientIndices |-> indices]
                                  ELSE responses[q]]
      /\ name' = name /\ renamed' = renamed /\ connects' = connects
      /\ registered' = registered /\ bore' = bore
      /\ asked' = asked /\ indexOf' = indexOf /\ net_id' = net_id
  BY <1>2, <1>3, <1>4 DEF HandleNewListener, clientVars, listenerVars
<1>6. p \in Running /\ asked[p] \subseteq Names /\ p \notin DOMAIN responses
  BY <1>1, <1>5 DEF TypeOK
<1>7. \A n \in asked[p] :
        /\ indices[n] \in 0 .. registered
        /\ indices[n] # None => indices[n] \in 1 .. registered /\ name[indices[n]] = n
        /\ indices[n] = None => \A i \in 1 .. registered : name[i] # n
  BY <1>1, <1>2, FoundFacts
<1>8. entry \in Entries(registered)
  <2>1. entry.mask \subseteq 1 .. registered
    BY <1>3, <1>7
  <2>2. entry.unresolved \subseteq Names
    BY <1>3, <1>6
  <2>3. QED
    BY <1>3, <2>1, <2>2 DEF Entries
<1>9. Answers(asked[p], entry, indices, bore)
  <2>1. \A n \in asked[p] : indices[n] # None =>
          indices[n] \in entry.mask /\ <<n, indices[n]>> \in bore
    <3>1. NoName \notin asked[p]
      BY <1>6, ListenersAssumption
    <3>2. QED
      BY <1>1, <1>3, <1>7, <3>1 DEF NamesAreRecorded, Connected
  <2>2. \A n \in asked[p] : indices[n] = None => n \in entry.unresolved
    BY <1>3
  <2>3. QED
    BY <2>1, <2>2 DEF Answers
<1>10. /\ listeners' \in Seq(Entries(registered))
       /\ k \in Nat \ {0} /\ DOMAIN listeners = 1 .. (k - 1)
       /\ DOMAIN listeners' = 1 .. k
       /\ listeners'[k] = entry
       /\ \A l \in DOMAIN listeners : listeners'[l] = listeners[l]
  BY <1>1, <1>4, <1>5, <1>8, AppendProperties
<1>11. /\ DOMAIN responses' = DOMAIN responses \cup {p}
       /\ responses'[p] = [id |-> k, clientIndices |-> indices]
       /\ \A q \in DOMAIN responses : responses'[q] = responses[q]
  BY <1>5, <1>6
<1>12. TypeOK'
  <2>1. \A q \in Running : net_id[q] \in {None} \cup DOMAIN listeners'
    BY <1>1, <1>10 DEF TypeOK
  <2>2. requests' \subseteq Running /\ DOMAIN responses' \subseteq Running \ requests'
    BY <1>1, <1>5, <1>6, <1>11 DEF TypeOK
  <2>3. ASSUME NEW q \in DOMAIN responses'
        PROVE  responses'[q] \in [id : DOMAIN listeners',
                                  clientIndices : [asked[q] -> 0 .. registered]]
    <3>1. CASE q = p
      <4>1. indices \in [asked[p] -> 0 .. registered]
        BY <1>2, <1>7
      <4>2. QED
        BY <1>10, <1>11, <3>1, <4>1
    <3>2. CASE q # p
      <4>1. responses[q] \in [id : DOMAIN listeners,
                              clientIndices : [asked[q] -> 0 .. registered]]
        BY <1>1, <1>11, <3>2 DEF TypeOK
      <4>2. DOMAIN listeners \subseteq DOMAIN listeners'
        BY <1>10
      <4>3. QED
        BY <1>11, <3>2, <4>1, <4>2
    <3>3. QED
      BY <3>1, <3>2
  <2>4. QED
    BY <1>1, <1>5, <1>10, <2>1, <2>2, <2>3 DEF TypeOK, Connected, Running, Entries
<1>13. NamesAreRecorded'
  BY <1>1, <1>5 DEF NamesAreRecorded, Connected
<1>14. AwaitedAreAbsent'
  <2>1. ASSUME NEW l \in DOMAIN listeners', NEW n \in listeners'[l].unresolved,
               NEW i \in Connected, name[i] = n
        PROVE  i \in renamed
    <3>1. CASE l \in DOMAIN listeners
      BY <1>1, <1>10, <2>1, <3>1 DEF AwaitedAreAbsent
    <3>2. CASE l = k
      <4>1. n \in asked[p] /\ indices[n] = None
        BY <1>3, <1>10, <3>2
      <4>2. QED
        BY <1>7, <2>1, <4>1 DEF Connected
    <3>3. QED
      BY <1>10, <3>1, <3>2
  <2>2. QED
    BY <1>5, <2>1 DEF AwaitedAreAbsent, Connected
<1>15. ResponsesMatch'
  <2>1. ASSUME NEW q \in DOMAIN responses'
        PROVE  Answers(asked[q], listeners'[responses'[q].id],
                       responses'[q].clientIndices, bore)
    <3>1. CASE q = p
      BY <1>9, <1>10, <1>11, <3>1
    <3>2. CASE q # p
      <4>1. /\ q \in DOMAIN responses /\ responses'[q] = responses[q]
            /\ responses[q].id \in DOMAIN listeners
        BY <1>1, <1>11, <3>2 DEF TypeOK
      <4>2. QED
        BY <1>1, <1>10, <4>1 DEF ResponsesMatch
    <3>3. QED
      BY <3>1, <3>2
  <2>2. QED
    BY <1>5, <2>1 DEF ResponsesMatch
<1>16. EntryIsOwn'
  <2>1. ASSUME NEW q \in Running, net_id[q] # None
        PROVE  Answers(asked[q], listeners'[net_id[q]], indexOf[q], bore)
    BY <1>1, <1>10, <2>1 DEF TypeOK
  <2>2. QED
    BY <1>5, <2>1 DEF EntryIsOwn, Answers, Running
<1>17. QED
  BY <1>12, <1>13, <1>14, <1>15, <1>16 DEF ListenersInv

LEMMA ReceiveResponseStep ==
  ASSUME ListenersInv, NEW p \in ListenerIds, ReceiveResponse(p)
  PROVE  ListenersInv'
<1>1. /\ TypeOK /\ NamesAreRecorded /\ AwaitedAreAbsent /\ ResponsesMatch
      /\ registered \in Nat /\ registered <= N
      /\ listeners \in Seq(Entries(registered))
      /\ \A q \in Running : net_id[q] # None =>
           Answers(asked[q], listeners[net_id[q]], indexOf[q], bore)
  BY Facts
<1>2. /\ p \in DOMAIN responses
      /\ indexOf' = [indexOf EXCEPT ![p] = responses[p].clientIndices]
      /\ net_id' = [net_id EXCEPT ![p] = responses[p].id]
      /\ responses' = [q \in DOMAIN responses \ {p} |-> responses[q]]
      /\ name' = name /\ renamed' = renamed /\ connects' = connects
      /\ registered' = registered /\ bore' = bore
      /\ listeners' = listeners /\ asked' = asked /\ requests' = requests
  BY DEF ReceiveResponse, clientVars
<1>3. /\ p \in Running /\ DOMAIN indexOf = Running /\ DOMAIN net_id = Running
      /\ responses[p] \in [id : DOMAIN listeners,
                           clientIndices : [asked[p] -> 0 .. registered]]
  BY <1>1, <1>2 DEF TypeOK
<1>4. /\ DOMAIN indexOf' = Running /\ DOMAIN net_id' = Running
      /\ \A q \in Running : net_id'[q] = IF q = p THEN responses[p].id ELSE net_id[q]
      /\ \A q \in Running : indexOf'[q] = IF q = p THEN responses[p].clientIndices
                                                   ELSE indexOf[q]
  <2>1. \A q \in Running : net_id'[q] = IF q = p THEN responses[p].id ELSE net_id[q]
    BY <1>2, <1>3
  <2>2. \A q \in Running : indexOf'[q] = IF q = p THEN responses[p].clientIndices
                                                   ELSE indexOf[q]
    BY <1>2, <1>3
  <2>3. DOMAIN indexOf' = Running /\ DOMAIN net_id' = Running
    BY <1>2, <1>3
  <2>4. QED
    BY <2>1, <2>2, <2>3
<1>5. TypeOK'
  <2>1. \A q \in Running : /\ asked[q] \subseteq Names
                           /\ indexOf'[q] \in [asked[q] -> 0 .. registered]
                           /\ net_id'[q] \in {None} \cup DOMAIN listeners
    BY <1>1, <1>3, <1>4 DEF TypeOK
  <2>2. /\ DOMAIN responses' \subseteq Running \ requests
        /\ \A q \in DOMAIN responses' :
             responses'[q] \in [id : DOMAIN listeners,
                                clientIndices : [asked[q] -> 0 .. registered]]
    BY <1>1, <1>2 DEF TypeOK
  <2>3. QED
    BY <1>1, <1>2, <1>4, <2>1, <2>2 DEF TypeOK, Connected, Running
<1>6. NamesAreRecorded' /\ AwaitedAreAbsent' /\ ResponsesMatch'
  BY <1>1, <1>2 DEF NamesAreRecorded, AwaitedAreAbsent, ResponsesMatch, Connected
<1>7. EntryIsOwn'
  <2>1. ASSUME NEW q \in Running, net_id'[q] # None
        PROVE  Answers(asked[q], listeners[net_id'[q]], indexOf'[q], bore)
    <3>1. CASE q = p
      BY <1>1, <1>2, <1>4, <3>1 DEF ResponsesMatch
    <3>2. CASE q # p
      BY <1>1, <1>4, <2>1, <3>2
    <3>3. QED
      BY <3>1, <3>2
  <2>2. QED
    BY <1>2, <2>1 DEF EntryIsOwn, Answers, Running
<1>8. QED
  BY <1>5, <1>6, <1>7 DEF ListenersInv

-----------------------------------------------------------------------------
LEMMA ListenersInit == Init => ListenersInv
<1> SUFFICES ASSUME Init PROVE ListenersInv
  OBVIOUS
<1>1. /\ DOMAIN asked = {} /\ DOMAIN indexOf = {} /\ DOMAIN net_id = {}
      /\ DOMAIN responses = {} /\ DOMAIN listeners = {}
  BY DEF Init
<1>2. Connected = {} /\ Running = {}
  BY <1>1 DEF Init, Connected, Running
<1>3. TypeOK
  <2>1. connects \in 0 .. MaxConnects /\ registered \in 0 .. N
    BY ListenersAssumption DEF Init
  <2>2. name \in [Clients -> Names \cup {NoName}]
    BY DEF Init
  <2>3. listeners \in Seq([mask : SUBSET (1 .. registered), unresolved : SUBSET Names])
    BY DEF Init
  <2>4. QED
    BY <1>1, <1>2, <2>1, <2>2, <2>3 DEF Init, TypeOK
<1>4. QED
  BY <1>1, <1>2, <1>3 DEF ListenersInv, NamesAreRecorded, AwaitedAreAbsent,
    ResponsesMatch, EntryIsOwn

LEMMA ListenersNext == ListenersInv /\ [Next]_vars => ListenersInv'
<1> SUFFICES ASSUME ListenersInv, [Next]_vars PROVE ListenersInv'
  OBVIOUS
<1>1. CASE Next
  BY <1>1, ClientConnectsStep, ClientLeavesStep, ClientRenamesStep, ListenStep,
    ListenerEndsStep, HandleNewListenerStep, ReceiveResponseStep DEF Next
<1>2. CASE UNCHANGED vars
  <2>1. /\ connects' = connects /\ registered' = registered /\ name' = name
        /\ renamed' = renamed /\ bore' = bore /\ listeners' = listeners
        /\ asked' = asked /\ indexOf' = indexOf /\ net_id' = net_id
        /\ requests' = requests /\ responses' = responses
    BY <1>2 DEF vars, clientVars, listenerVars
  <2>2. Connected' = Connected /\ Running' = Running
    BY <2>1 DEF Connected, Running
  <2>3. TypeOK' = TypeOK /\ EntryIsOwn' = EntryIsOwn
    BY <2>1, <2>2 DEF TypeOK, EntryIsOwn
  <2>4. NamesAreRecorded' /\ AwaitedAreAbsent' /\ ResponsesMatch'
    BY <2>1, <2>2 DEF ListenersInv, NamesAreRecorded, AwaitedAreAbsent,
      ResponsesMatch, Answers
  <2>5. QED
    BY <2>3, <2>4 DEF ListenersInv
<1>3. QED
  BY <1>1, <1>2

LEMMA ListenersAlways == Spec => []ListenersInv
  BY ListenersInit, ListenersNext, PTL DEF Spec

\* Types; no listener is ever told, or stores, the index of a client the world
\* does not have.
THEOREM TypeCorrect == Spec => []TypeOK
<1>1. ListenersInv => TypeOK
  BY DEF ListenersInv
<1>2. QED
  BY <1>1, ListenersAlways, PTL

\* No entry of ServerState::listeners awaits a client that is there, but for one
\* that took the name with an EnvUserState.
THEOREM NobodyIsAwaitedInVain == Spec => []AwaitedAreAbsent
<1>1. ListenersInv => AwaitedAreAbsent
  BY DEF ListenersInv
<1>2. QED
  BY <1>1, ListenersAlways, PTL

\* The index of a NewListenerConnectionResponse is that of the entry made for
\* the listener, and stays so: entries are only appended and only grow.
THEOREM EntryStaysOwn == Spec => []EntryIsOwn
<1>1. ListenersInv => EntryIsOwn
  BY DEF ListenersInv
<1>2. QED
  BY <1>1, ListenersAlways, PTL
=============================================================================
