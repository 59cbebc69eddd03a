------------------------------- MODULE PubSub -------------------------------
(***************************************************************************)
(* pubsub::SubscriptionManager<int> (core/lib/pubsub/pubsub.h): the table  *)
(* of topics, one per publisher and signal plus one per signal for the     *)
(* universal publisher, and the subscribers of each in a std::set.         *)
(*                                                                         *)
(* The operator< of Subscriber is not an order (a client may be less than  *)
(* a listener and the listener less than the client), so what a std::set   *)
(* does with it depends on the shape of its tree.  A set is the sequence   *)
(* of its elements in tree order; a search ends in a gap between two       *)
(* neighbours, which it has both compared with the key, and any gap those  *)
(* two comparisons allow may be the one.  While the ids of those present   *)
(* make operator< an order, there is one such gap; they do until a client  *)
(* is present with an id above that of a listener (both are numbered from  *)
(* 0), which the history variable ordered records.                         *)
(***************************************************************************)
EXTENDS Naturals, Sequences, SequencesExt

CONSTANTS
  ClientIds, ListenerIds,   \* ids of clients and of listeners
  Signals,                  \* signal_list
  MaxTopic                  \* bound: a topic to which subscribers are added

ASSUME PubSubAssumption ==
  /\ ClientIds \subseteq Nat /\ ListenerIds \subseteq Nat
  /\ IsFiniteSet(ClientIds) /\ IsFiniteSet(Signals)
  /\ MaxTopic \in Nat

Client(i) == [type |-> 0, id |-> i]
Listener(i) == [type |-> 1, id |-> i]
Clients == {Client(i) : i \in ClientIds}
Subscribers == Clients \cup {Listener(i) : i \in ListenerIds}
UniversalPublisher == [type |-> 3, id |-> 0]
Publishers == Clients \cup {UniversalPublisher}
Keys == Publishers \X Signals

VARIABLES
  topicTable,   \* per key: the set of subscribers, in tree order
  members,      \* client_list and listener_list
  wanted,       \* history: <<subscriber, publisher, signal>> asked for
  ordered       \* history: operator< was an order on the members so far

vars == <<topicTable, members, wanted, ordered>>

-----------------------------------------------------------------------------
(* std::set<Subscriber>                                                    *)

\* operator<.  The variants, the slips their names say, stand in for it to
\* break the properties below: on ids alone, and not strict.
LessById(r, s) == r.id < s.id
LessOrEqual(r, s) == r.type < s.type \/ r.id <= s.id
Less(r, s) == r.type < s.type \/ r.id < s.id

\* The subscribers of S on which operator< is an order.
Ordered(S) == \A c \in S \cap Clients, l \in S \ Clients : c.id <= l.id

\* The outcomes of set::insert.
Inserted(set, k) ==
  LET gaps == {p \in 0 .. Len(set) : /\ p > 0 => ~Less(k, set[p])
                                     /\ p < Len(set) => Less(k, set[p + 1])}
  IN  {IF p = 0 \/ Less(set[p], k) THEN InsertAt(set, p + 1, k) ELSE set :
         p \in gaps}

\* Where set::find may end, and whether it has found k there.
FindGaps(set, k) ==
  {p \in 0 .. Len(set) : /\ p > 0 => Less(set[p], k)
                         /\ p < Len(set) => ~Less(set[p + 1], k)}
Hit(set, k, p) == p < Len(set) /\ ~Less(k, set[p + 1])

\* The outcomes of set::find, then erase of the element found.
Erased(set, k) ==
  {IF Hit(set, k, p) THEN RemoveAt(set, p + 1) ELSE set : p \in FindGaps(set, k)}

\* The outcomes of Topic::Delete: set::find, then erase of all that a second
\* search, from there on, takes for equal to k.  The variant searches for the
\* end of them as for their beginning.
EqualsEndEarly(set, k, p) ==
  {q \in p .. Len(set) : /\ q > 0 => Less(set[q], k)
                         /\ q < Len(set) => ~Less(set[q + 1], k)}
EqualsEnd(set, k, p) ==
  {q \in p + 1 .. Len(set) : \/ q = p + 1
                             \/ /\ ~Less(k, set[q])
                                /\ q < Len(set) => Less(k, set[q + 1])}
Deleted(set, k) ==
  UNION {IF Hit(set, k, p)
           THEN {SubSeq(set, 1, p) \o SubSeq(set, q + 1, Len(set)) :
                   q \in EqualsEnd(set, k, p)}
           ELSE {set} : p \in FindGaps(set, k)}

\* The outcomes of set::merge.
Merged(set, other) ==
  FoldLeft(LAMBDA outcomes, k : UNION {Inserted(s, k) : s \in outcomes},
           {set}, other)

-----------------------------------------------------------------------------
\* topicTable with every topic replaced by one of its outcomes.
Update(outcomes) ==
  topicTable' \in FoldSet(LAMBDA key, tables :
                            {[t EXCEPT ![key] = set] :
                               t \in tables, set \in outcomes[key]},
                          {topicTable}, Keys)

\* Where operator< is no order, a subscriber may be in a topic again and again.
HasRoom(keys) == \A key \in keys : Len(topicTable[key]) < MaxTopic

Join(sub) ==
  /\ members' = members \cup {sub}
  /\ ordered' = (ordered /\ Ordered(members'))

\* AddToSubscribers, for the publishers and signals the request names.
Requested(sub, pubs, sigs, key) ==
  IF key \in pubs \X sigs THEN Inserted(topicTable[key], sub)
                          ELSE {topicTable[key]}

\* A client subscribes; then it gets empty topics of its own, in which nobody
\* is any more who subscribed to it by name.
SubscribeClient(sub, pubs, sigs) ==
  /\ sub \in Clients \ members
  /\ HasRoom(pubs \X sigs)
  /\ Update([key \in Keys |-> IF key[1] = sub THEN {<<>>}
                             ELSE Requested(sub, pubs, sigs, key)])
  /\ Join(sub)
  /\ wanted' = {w \in wanted \cup ({sub} \X pubs \X sigs) : w[2] # sub}

SubscribeListener(sub, pubs, sigs) ==
  /\ sub \in Subscribers \ (Clients \cup members)
  /\ HasRoom(pubs \X sigs)
  /\ Update([key \in Keys |-> Requested(sub, pubs, sigs, key)])
  /\ Join(sub)
  /\ wanted' = wanted \cup ({sub} \X pubs \X sigs)

\* The topics the leaver published go, with all who are in them; then it is
\* searched for in every other.
Unsubscribe(sub) ==
  /\ sub \in members
  /\ Update([key \in Keys |-> IF key[1] = sub THEN {<<>>}
                             ELSE Deleted(topicTable[key], sub)])
  /\ members' = members \ {sub}
  /\ wanted' = {w \in wanted : w[1] # sub /\ w[2] # sub}
  /\ UNCHANGED ordered

\* The outcomes of GetRecipients.
GetRecipients(pub, sig) ==
  UNION {Erased(set, pub) :
           set \in Merged(topicTable[<<UniversalPublisher, sig>>],
                          topicTable[<<pub, sig>>])}

Init ==
  /\ topicTable = [key \in Keys |-> <<>>]
  /\ members = {}
  /\ wanted = {}
  /\ ordered = TRUE

\* Requests: all publishers or a list of clients, all signals or a list.
Requests == {r \in (SUBSET Publishers) \X (SUBSET Signals) :
               r[1] = {UniversalPublisher} \/ r[1] \subseteq Clients}

Next ==
  \/ \E sub \in Subscribers, r \in Requests :
       SubscribeClient(sub, r[1], r[2]) \/ SubscribeListener(sub, r[1], r[2])
  \/ \E sub \in Subscribers : Unsubscribe(sub)

Spec == Init /\ [][Next]_vars

-----------------------------------------------------------------------------
\* Types; while operator< is an order, a topic holds nobody twice.
TypeOK ==
  /\ topicTable \in [Keys -> Seq(Subscribers)]
  /\ members \subseteq Subscribers
  /\ wanted \subseteq Subscribers \X Publishers \X Signals
  /\ ordered \in BOOLEAN
  /\ ordered => \A key \in Keys : IsInjective(topicTable[key])

\* Whoever asked for a publisher's signal, by name or with all, and has not left,
\* is a recipient of it, once; nobody else is, nor the publisher itself: as long
\* as no client has been present with an id above that of a listener.  (A
\* request for a client by name ends when that client joins or leaves.)
RecipientsExact ==
  ordered =>
    \A pub \in Clients \cap members, sig \in Signals :
      \A set \in GetRecipients(pub, sig) :
        /\ IsInjective(set)
        /\ ToSet(set) =
             {sub \in members \ {pub} : \/ <<sub, UniversalPublisher, sig>> \in wanted
                                        \/ <<sub, pub, sig>> \in wanted}

\* Who has left is in no topic, not even of a client that is not there, as long
\* as no client has been present with an id above that of a listener.
GoneFromAllTopics ==
  ordered => \A key \in Keys : ToSet(topicTable[key]) \subseteq members

\* The publisher of a signal is never among its recipients.
NotToOurselves ==
  \A pub \in Clients \cap members, sig \in Signals :
    \A set \in GetRecipients(pub, sig) : pub \notin ToSet(set)
=============================================================================
