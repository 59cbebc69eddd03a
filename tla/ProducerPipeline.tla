-------------------------- MODULE ProducerPipeline --------------------------
(***************************************************************************)
(* How a registered client takes signals from its producers and sends them *)
(* (core/net/client.cpp, tick() and _process_outgoing_signal()).  Every    *)
(* signal has a future, a byte vector (the cache) and a time point; the    *)
(* producer runs as a task of a thread pool and writes the vector and the  *)
(* time point by reference, while the tick thread resizes, reads and sends *)
(* them.  Signals are numbered in the order a tick visits them: those of   *)
(* the user, then those of the environment.                                *)
(*                                                                         *)
(* Every signal has a producer and is passed through, as in all modules of *)
(* the repository, and no transformer produces.  The header's bytes at the *)
(* front of a cache are left out; a payload byte remembers the call of the *)
(* producer that wrote it, and is 0 where resize() put a zero.             *)
(***************************************************************************)
EXTENDS Integers, FiniteSets

CONSTANTS
  NumSignals,  \* user and environment signals of the scene
  Index,       \* sigIdx of each: the k-th user and the k-th environment
               \* signal both have index k
  FormMax,     \* producerFormMaxSize, one for all signals
  Stuck,       \* signals whose producer may never return
  MaxCalls     \* bound: calls of each producer explored

Signals == 1 .. NumSignals
Bytes == 1 .. FormMax
Calls == 0 .. MaxCalls

ASSUME PipelineAssumption ==
  /\ NumSignals \in Nat /\ NumSignals >= 1
  /\ Index \in [Signals -> Nat]
  /\ FormMax \in Nat /\ FormMax >= 1
  /\ Stuck \subseteq Signals
  /\ MaxCalls \in Nat /\ MaxCalls >= 1

VARIABLES
  visiting, stage, \* the tick thread: the signal, and the statement it is at
  future,          \* producer_futures: the call it waits for (0: invalid),
                   \* whether the result is there, and the result
  cache,           \* caches_mt, caches_env_mt: size and bytes
  time,            \* time_points_mt, by index: the call that stamped it
  tasks,           \* tasks of the thread pool
  calls,           \* calls submitted so far, per signal
  sentCounter,
  last,            \* the latest packet of each signal
  finished         \* history: calls of each producer that returned data

vars == <<visiting, stage, future, cache, time, tasks, calls, sentCounter,
          last, finished>>

NoFuture == [call |-> 0, ready |-> FALSE, bytes |-> 0]
NoStamp == [signal |-> 0, call |-> 0]

\* Packets carry what was in the cache and the time point; before is the size
\* of the packet sent before it (for the first one, the whole form).
NoPacket == [call |-> 0, size |-> FormMax, bytes |-> [b \in Bytes |-> 0],
             stamp |-> NoStamp, before |-> FormMax]

\* std::vector::resize: bytes it adds are zero.  The variant is the fill that
\* _process_outgoing_signal() has commented out.
ResizeAndFill(v, n) == [size |-> n, bytes |-> [b \in Bytes |-> 0]]
Resize(v, n) ==
  [size |-> n, bytes |-> [b \in Bytes |->
     IF b > v.size /\ b <= n THEN 0 ELSE v.bytes[b]]]

\* The time point of a signal.
TimeSlot(s) == Index[s]

\* What the future says: the result is there; the producer may be called
\* (again); the tick may go on.  The variants call it whatever the future
\* says, and wait for the result.
ResultIn(s) == future[s].ready
MayRequestAlways(s) == TRUE
MayRequest(s) == future[s].call = 0 \/ future[s].ready
PollsBlocking(s) == MayRequest(s)
Polls(s) == TRUE

\* The next turn of the loop, or the next tick; the variant runs past the end.
NextSignalOver(s) == s + 1
NextSignal(s) == IF s = NumSignals THEN 1 ELSE s + 1

-----------------------------------------------------------------------------
(* The tick thread.                                                        *)

\* cache.resize(), before the future is looked at: the task of an earlier
\* tick may be writing, or have written, the bytes it adds.  It adds them in
\* one step; the storage never moves, as it never needs more than FormMax.
TickResize ==
  /\ stage = "resize"
  /\ stage' = "poll"
  /\ cache' = [cache EXCEPT ![visiting] = Resize(@, FormMax)]
  /\ UNCHANGED <<visiting, future, time, tasks, calls, sentCounter, last,
                 finished>>

\* A result with data is cut to its size and sent; the variant does not ask
\* whether there is data.
SendsAny(s) == ResultIn(s)
Sends(s) == ResultIn(s) /\ future[s].bytes > 0

SendPacket(s) ==
  IF Sends(s)
  THEN /\ cache' = [cache EXCEPT ![s] = Resize(@, future[s].bytes)]
       /\ sentCounter' = [sentCounter EXCEPT ![s] = @ + 1]
       /\ last' = [last EXCEPT ![s] =
            [call |-> future[s].call, size |-> future[s].bytes,
             bytes |-> cache[s].bytes, stamp |-> time[TimeSlot(s)],
             before |-> last[s].size]]
  ELSE UNCHANGED <<cache, sentCounter, last>>

\* submit_task replaces the future; the task runs the producer.
RequestData(s) ==
  IF MayRequest(s) /\ calls[s] < MaxCalls
  THEN /\ calls' = [calls EXCEPT ![s] = @ + 1]
       /\ tasks' = tasks \cup {[signal |-> s, call |-> calls[s] + 1,
                                size |-> 0, next |-> 0]}
       /\ future' = [future EXCEPT ![s] =
            [call |-> calls[s] + 1, ready |-> FALSE, bytes |-> 0]]
  ELSE /\ future' = IF ResultIn(s) THEN [future EXCEPT ![s] = NoFuture]
                                   ELSE future
       /\ UNCHANGED <<calls, tasks>>

TickPoll ==
  /\ stage = "poll"
  /\ Polls(visiting)
  /\ stage' = "resize"
  /\ visiting' = NextSignal(visiting)
  /\ SendPacket(visiting)
  /\ RequestData(visiting)
  /\ UNCHANGED <<time, finished>>

-----------------------------------------------------------------------------
(* The tasks: GetSignalData of the producer, on a thread of the pool.  The *)
(* pool has a thread for every signal.                                     *)

\* The producer has data of some size and stamps it.
Stamp(t) ==
  /\ t.next = 0
  /\ \E n \in Bytes :
       tasks' = (tasks \ {t}) \cup {[t EXCEPT !.size = n, !.next = 1]}
  /\ time' = [time EXCEPT ![TimeSlot(t.signal)] =
                [signal |-> t.signal, call |-> t.call]]
  /\ UNCHANGED <<visiting, stage, future, cache, calls, sentCounter, last,
                 finished>>

\* It writes one byte to mem.
WriteByte(t) ==
  /\ t.next \in 1 .. t.size
  /\ tasks' = (tasks \ {t}) \cup {[t EXCEPT !.next = @ + 1]}
  /\ cache' = [cache EXCEPT ![t.signal].bytes[t.next] = t.call]
  /\ UNCHANGED <<visiting, stage, future, time, calls, sentCounter, last,
                 finished>>

\* It returns the number of bytes written, or 0 at once if it has no signal;
\* the result goes to the future of this submission, if that still exists.
Return(t) ==
  /\ t.next = 0 \/ t.next = t.size + 1
  /\ tasks' = tasks \ {t}
  /\ future' = IF future[t.signal].call = t.call
               THEN [future EXCEPT ![t.signal].ready = TRUE,
                                   ![t.signal].bytes = t.size]
               ELSE future
  /\ finished' = IF t.size > 0
                 THEN [finished EXCEPT ![t.signal] = @ \cup {t.call}]
                 ELSE finished
  /\ UNCHANGED <<visiting, stage, cache, time, calls, sentCounter, last>>

Produce(s) ==
  \E t \in tasks : t.signal = s /\ (Stamp(t) \/ WriteByte(t) \/ Return(t))

-----------------------------------------------------------------------------
Init ==
  /\ visiting = 1
  /\ stage = "resize"
  /\ future = [s \in Signals |-> NoFuture]
  /\ cache = [s \in Signals |-> [size |-> 0, bytes |-> [b \in Bytes |-> 0]]]
  /\ time = [i \in {TimeSlot(s) : s \in Signals} |-> NoStamp]
  /\ tasks = {}
  /\ calls = [s \in Signals |-> 0]
  /\ sentCounter = [s \in Signals |-> 0]
  /\ last = [s \in Signals |-> NoPacket]
  /\ finished = [s \in Signals |-> {}]

Tick == TickResize \/ TickPoll

Next == Tick \/ \E s \in Signals : Produce(s)

Spec == Init /\ [][Next]_vars

\* The client keeps ticking, and a producer that is not stuck returns.
FairSpec == Spec /\ WF_vars(Tick)
                 /\ \A s \in Signals \ Stuck : WF_vars(Produce(s))

-----------------------------------------------------------------------------
Stamps == [signal : Signals \cup {0}, call : Calls]
Contents == [Bytes -> Calls]

\* Types of the pipeline's futures, caches, tasks and packets.
TypeOK ==
  /\ visiting \in Signals /\ stage \in {"resize", "poll"}
  /\ future \in [Signals -> [call : Calls, ready : BOOLEAN,
                             bytes : Bytes \cup {0}]]
  /\ cache \in [Signals -> [size : Bytes \cup {0}, bytes : Contents]]
  /\ time \in [{TimeSlot(s) : s \in Signals} -> Stamps]
  /\ tasks \subseteq [signal : Signals, call : Calls \ {0},
                      size : Bytes \cup {0}, next : 0 .. FormMax + 1]
  /\ calls \in [Signals -> Calls]
  /\ sentCounter \in [Signals -> Calls]
  /\ last \in [Signals -> [call : Calls, size : Bytes, bytes : Contents,
                           stamp : Stamps, before : Bytes]]
  /\ finished \in [Signals -> SUBSET (Calls \ {0})]

\* "DanceGraph will refrain from calling the producer again until after the
\* last GetSignalData call has finished" (README.md): whatever the ticks and
\* the pool do, a producer is never entered twice, and nobody but the tick
\* touches a cache whose result is waiting to be sent.
OneCallAtATime ==
  \A s \in Signals :
    /\ Cardinality({t \in tasks : t.signal = s}) <= 1
    /\ ResultIn(s) => \A t \in tasks : t.signal # s

\* What the producers made is sent once and in order: the packets of a signal
\* are its finished calls, but for the one whose result waits in the future,
\* numbered by sentCounter without a gap.
SentOnceInOrder ==
  \A s \in Signals :
    LET waiting == IF Sends(s) THEN {future[s].call} ELSE {}
        done == finished[s] \ waiting
    IN  /\ waiting \subseteq finished[s]
        /\ sentCounter[s] = Cardinality(done)
        /\ \A c \in done : c <= last[s].call
        /\ \A c \in waiting : c > last[s].call

\* A packet is of one call.  Although the cache is resized under a running
\* producer, the payload arrives as that call wrote it, up to the size of the
\* packet before (so a producer whose signals all have one size is never
\* corrupted); and however late the tick comes to send it, it carries the time of
\* that call, unless another signal has the same index.
PacketOfOneCall ==
  \A s \in Signals : last[s].call > 0 =>
    /\ \A b \in Bytes : b <= last[s].size /\ b <= last[s].before =>
                          last[s].bytes[b] = last[s].call
    /\ (\A r \in Signals \ {s} : Index[r] # Index[s]) =>
         last[s].stamp = [signal |-> s, call |-> last[s].call]

\* A producer that never returns holds up neither the tick nor the signals of
\* the others: their results are sent, and they are called again.
OthersKeepProducing ==
  \A s \in Signals \ Stuck :
    /\ \A c \in 1 .. MaxCalls :
         (c \in finished[s]) ~> (last[s].call >= c)
    /\ <>(calls[s] = MaxCalls)

-----------------------------------------------------------------------------
\* signal_producer.h: "The return value is the number of bytes written to
\* `mem`", which are the bytes the packet is made of: a packet holds what its
\* producer wrote.
PayloadIsAsWritten ==
  \A s \in Signals : \A b \in Bytes :
    b <= last[s].size => last[s].bytes[b] = last[s].call
=============================================================================
