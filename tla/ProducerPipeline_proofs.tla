------------------------ MODULE ProducerPipeline_proofs ------------------------
(***************************************************************************)
(* Proofs about ProducerPipeline, for any number of signals, any indices,  *)
(* any size of form and any number of calls.                               *)
(***************************************************************************)
EXTENDS ProducerPipeline, FiniteSetTheorems, TLAPS

-----------------------------------------------------------------------------
(* The inductive invariant.                                                *)

\* No other signal has the time point of s.
Lone(s) == \A r \in Signals \ {s} : Index[r] # Index[s]

\* The first n bytes of the cache of s are of call c, as far as no resize can
\* have zeroed them: cache[s] is never cut below the packet sent last.
Arrived(s, c, n) ==
  \A b \in Bytes : b <= n /\ b <= last[s].size => cache[s].bytes[b] = c

\* The time point of s is of call c.
Stamped(s, c) == Lone(s) => time[TimeSlot(s)] = [signal |-> s, call |-> c]

\* The finished calls whose data has been sent.
Done(s) == finished[s] \ (IF Sends(s) THEN {future[s].call} ELSE {})

\* Calls are numbered up to calls[s], and a future waits for the latest one.
Numbering(s) ==
  /\ finished[s] \subseteq 1 .. calls[s]
  /\ last[s].call <= calls[s]
  /\ future[s].call \in {0, calls[s]}
  /\ future[s].ready => future[s].call # 0
  /\ Sends(s) => /\ future[s].call \in finished[s]
                 /\ last[s].call < future[s].call

Counting(s) ==
  /\ sentCounter[s] = Cardinality(Done(s))
  /\ \A c \in Done(s) : c <= last[s].call

CacheSize(s) ==
  /\ calls[s] > 0 => last[s].size <= cache[s].size
  /\ visiting = s /\ stage = "poll" => cache[s].size = FormMax

\* A result that waits is in the cache, a packet that was sent is of one call.
Payload(s) ==
  /\ Sends(s) => /\ Arrived(s, future[s].call, future[s].bytes)
                 /\ Stamped(s, future[s].call)
  /\ last[s].call > 0 =>
       /\ \A b \in Bytes : b <= last[s].size /\ b <= last[s].before =>
                             last[s].bytes[b] = last[s].call
       /\ Lone(s) => last[s].stamp = [signal |-> s, call |-> last[s].call]

\* A task runs the latest call of its signal, for which the future waits.
Running(t) ==
  LET s == t.signal
  IN  /\ future[s].call = t.call /\ ~future[s].ready
      /\ t.call = calls[s] /\ t.call \notin finished[s]
      /\ last[s].call < t.call
      /\ t.next = 0 => t.size = 0
      /\ t.next <= t.size + 1
      /\ Arrived(s, t.call, t.next - 1)
      /\ t.next > 0 => Stamped(s, t.call)

Alone == \A t, u \in tasks : t.signal = u.signal => t = u

\* Types but for the bound of sentCounter, which follows from Counting.
Typed ==
  /\ visiting \in Signals /\ stage \in {"resize", "poll"}
  /\ future \in [Signals -> [call : Calls, ready : BOOLEAN,
                             bytes : Bytes \cup {0}]]
  /\ cache \in [Signals -> [size : Bytes \cup {0}, bytes : Contents]]
  /\ time \in [{TimeSlot(s) : s \in Signals} -> Stamps]
  /\ tasks \subseteq [signal : Signals, call : Calls \ {0},
                      size : Bytes \cup {0}, next : 0 .. FormMax + 1]
  /\ calls \in [Signals -> Calls]
  /\ sentCounter \in [Signals -> Nat]
  /\ last \in [Signals -> [call : Calls, size : Bytes, bytes : Contents,
                           stamp : Stamps, before : Bytes]]
  /\ finished \in [Signals -> SUBSET (Calls \ {0})]

PipelineInv ==
  /\ Typed
  /\ \A s \in Signals : Numbering(s) /\ Counting(s) /\ CacheSize(s) /\ Payload(s)
  /\ \A t \in tasks : Running(t)
  /\ Alone

-----------------------------------------------------------------------------
(* What the steps do to the parts they touch.                              *)

LEMMA ResizeType ==
  ASSUME NEW v \in [size : Bytes \cup {0}, bytes : Contents],
         NEW n \in Bytes
  PROVE  /\ Resize(v, n) \in [size : Bytes \cup {0}, bytes : Contents]
         /\ Resize(v, n).size = n
         /\ \A b \in Bytes : b <= v.size => Resize(v, n).bytes[b] = v.bytes[b]
  BY PipelineAssumption DEF Resize, Contents, Bytes, Calls

LEMMA FormIsByte == FormMax \in Bytes /\ Bytes \subseteq Nat \ {0}
  BY PipelineAssumption DEF Bytes

LEMMA BytesUpTo ==
  ASSUME NEW m \in Nat, NEW n \in Nat, m <= n
  PROVE  \A b \in Bytes : b <= m => b <= n
  BY FormIsByte

LEMMA Neighbour == \A s \in Signals : NextSignal(s) \in Signals
  BY PipelineAssumption DEF NextSignal, Signals

LEMMA SignalTypes ==
  ASSUME Typed, NEW s \in Signals
  PROVE  /\ future[s].call \in Calls /\ future[s].bytes \in Bytes \cup {0}
         /\ cache[s].size \in Bytes \cup {0} /\ cache[s].bytes \in Contents
         /\ calls[s] \in Calls /\ sentCounter[s] \in Nat
         /\ last[s].call \in Calls /\ last[s].size \in Bytes
         /\ last[s].before \in Bytes
         /\ last[s].size \in Nat /\ cache[s].size \in Nat
<1>1. future[s] \in [call : Calls, ready : BOOLEAN, bytes : Bytes \cup {0}]
  BY DEF Typed
<1>2. cache[s] \in [size : Bytes \cup {0}, bytes : Contents]
  BY DEF Typed
<1>3. last[s] \in [call : Calls, size : Bytes, bytes : Contents,
                   stamp : Stamps, before : Bytes]
  BY DEF Typed
<1>4. calls[s] \in Calls /\ sentCounter[s] \in Nat
  BY DEF Typed
<1>5. last[s].size \in Bytes /\ cache[s].size \in Bytes \cup {0}
  BY <1>2, <1>3
<1>6. last[s].size \in Nat /\ cache[s].size \in Nat
  BY <1>5, FormIsByte
<1>7. QED
  BY <1>1, <1>2, <1>3, <1>4, <1>5, <1>6

\* A signal whose producer runs may not be called again, and its result is not
\* in.
LEMMA BusyWaits ==
  ASSUME PipelineInv, NEW t \in tasks
  PROVE  /\ t.signal \in Signals /\ t.call \in Calls \ {0}
         /\ ~MayRequest(t.signal) /\ ~ResultIn(t.signal) /\ ~Sends(t.signal)
  BY DEF PipelineInv, Typed, Running, MayRequest, ResultIn, Sends

\* The calls that were sent are finitely many, and at most MaxCalls.
LEMMA FewCalls ==
  ASSUME NEW n \in Calls, NEW S, S \subseteq 1 .. n
  PROVE  IsFiniteSet(S) /\ Cardinality(S) \in Calls
<1>1. n \in Nat /\ n <= MaxCalls /\ MaxCalls \in Nat
  BY PipelineAssumption DEF Calls
<1>2. IsFiniteSet(1 .. n) /\ Cardinality(1 .. n) = n
  BY <1>1, FS_Interval
<1>3. IsFiniteSet(S) /\ Cardinality(S) \in Nat /\ Cardinality(S) <= n
  BY <1>2, FS_Subset, FS_CardinalityType
<1>4. QED
  BY <1>1, <1>3 DEF Calls

-----------------------------------------------------------------------------
(* The tick resizes a cache.                                               *)

LEMMA TickResizeStep ==
  ASSUME PipelineInv, TickResize
  PROVE  PipelineInv'
<1> USE DEF PipelineInv
<1>1. /\ visiting' = visiting /\ future' = future /\ time' = time
      /\ tasks' = tasks /\ calls' = calls /\ sentCounter' = sentCounter
      /\ last' = last /\ finished' = finished
      /\ stage = "resize" /\ stage' = "poll"
  BY DEF TickResize
<1>2. /\ visiting \in Signals
      /\ cache \in [Signals -> [size : Bytes \cup {0}, bytes : Contents]]
      /\ cache' = [cache EXCEPT ![visiting] = Resize(@, FormMax)]
  BY DEF TickResize, Typed
<1>3. Typed'
  <2>1. cache' \in [Signals -> [size : Bytes \cup {0}, bytes : Contents]]
    BY <1>2, ResizeType, FormIsByte
  <2>2. QED
    BY <1>1, <2>1 DEF Typed
<1>4. ASSUME NEW s \in Signals
      PROVE  /\ cache'[s].size = IF s = visiting THEN FormMax ELSE cache[s].size
             /\ \A b \in Bytes : b <= cache[s].size =>
                                   cache'[s].bytes[b] = cache[s].bytes[b]
  <2>1. CASE s = visiting
    BY <1>2, <2>1, ResizeType, FormIsByte
  <2>2. CASE s # visiting
    BY <1>2, <2>2
  <2>3. QED
    BY <2>1, <2>2
<1>5. ASSUME NEW s \in Signals
      PROVE  /\ Sends(s)' = Sends(s) /\ Done(s)' = Done(s)
             /\ \A c : Stamped(s, c)' = Stamped(s, c)
  BY <1>1 DEF Sends, ResultIn, Done, Stamped, Lone, TimeSlot
<1>6. ASSUME NEW s \in Signals, calls[s] > 0, NEW c, NEW n, Arrived(s, c, n)
      PROVE  Arrived(s, c, n)'
  <2>1. last[s].size <= cache[s].size /\ last'[s].size = last[s].size
    BY <1>1, <1>6 DEF CacheSize
  <2>2. last[s].size \in Nat /\ cache[s].size \in Nat
    BY SignalTypes
  <2>3. \A b \in Bytes : b <= last[s].size => b <= cache[s].size
    BY <2>1, <2>2, BytesUpTo
  <2>4. QED
    BY <1>4, <1>6, <2>1, <2>3 DEF Arrived
<1>7. ASSUME NEW s \in Signals
      PROVE  (Numbering(s) /\ Counting(s) /\ CacheSize(s) /\ Payload(s))'
  <2>1. Numbering(s)' /\ Counting(s)'
    BY <1>1, <1>5 DEF Numbering, Counting
  <2>2. CacheSize(s)'
    BY <1>1, <1>4, FormIsByte DEF CacheSize, Typed, Bytes
  <2>3. Sends(s) => calls[s] > 0
    BY DEF Sends, ResultIn, Numbering, Typed, Calls
  <2>4. Payload(s)'
    BY <1>1, <1>5, <1>6, <2>3 DEF Payload, Lone
  <2>5. QED
    BY <2>1, <2>2, <2>4
<1>8. ASSUME NEW t \in tasks
      PROVE  Running(t)'
  <2>1. t.signal \in Signals /\ calls[t.signal] > 0
    BY BusyWaits DEF Running, Calls
  <2>2. QED
    BY <1>1, <1>5, <1>6, <2>1 DEF Running
<1>9. Alone'
  BY <1>1 DEF Alone
<1>10. QED
  BY <1>1, <1>3, <1>7, <1>8, <1>9

-----------------------------------------------------------------------------
(* The tick polls a future.                                                *)

LEMMA TickPollStep ==
  ASSUME PipelineInv, TickPoll
  PROVE  PipelineInv'
<1> USE DEF PipelineInv
<1>2. PICK v \in Signals : v = visiting
  BY DEF Typed
<1>1. /\ time' = time /\ finished' = finished
      /\ stage = "poll" /\ stage' = "resize" /\ visiting' = NextSignal(v)
      /\ SendPacket(v) /\ RequestData(v)
  BY <1>2 DEF TickPoll
<1>0. /\ future \in [Signals -> [call : Calls, ready : BOOLEAN,
                                bytes : Bytes \cup {0}]]
      /\ calls \in [Signals -> Calls]
  BY DEF Typed
\* What becomes of the future, the call and the tasks of the signal.
<1>3. \/ /\ MayRequest(v) /\ calls[v] < MaxCalls
         /\ calls' = [calls EXCEPT ![v] = @ + 1]
         /\ tasks' = tasks \cup {[signal |-> v, call |-> calls[v] + 1,
                                  size |-> 0, next |-> 0]}
         /\ future' = [future EXCEPT ![v] =
               [call |-> calls[v] + 1, ready |-> FALSE, bytes |-> 0]]
      \/ /\ future' = [future EXCEPT ![v] = NoFuture]
         /\ ResultIn(v) /\ calls' = calls /\ tasks' = tasks
      \/ /\ ~ResultIn(v)
         /\ future' = future /\ calls' = calls /\ tasks' = tasks
  BY <1>1 DEF RequestData
<1>4. \/ /\ Sends(v)
         /\ cache' = [cache EXCEPT ![v] = Resize(@, future[v].bytes)]
         /\ sentCounter' = [sentCounter EXCEPT ![v] = @ + 1]
         /\ last' = [last EXCEPT ![v] =
              [call |-> future[v].call, size |-> future[v].bytes,
               bytes |-> cache[v].bytes, stamp |-> time[TimeSlot(v)],
               before |-> last[v].size]]
      \/ /\ ~Sends(v)
         /\ cache' = cache /\ sentCounter' = sentCounter /\ last' = last
  BY <1>1 DEF SendPacket
<1>5. Typed'
  <2>1. visiting' \in Signals /\ stage' \in {"resize", "poll"}
    BY <1>1, <1>2, Neighbour
  <2>2. /\ calls' \in [Signals -> Calls]
        /\ future' \in [Signals -> [call : Calls, ready : BOOLEAN,
                                    bytes : Bytes \cup {0}]]
    <3>1. NoFuture \in [call : Calls, ready : BOOLEAN, bytes : Bytes \cup {0}]
      BY PipelineAssumption DEF NoFuture, Calls
    <3>2. calls[v] < MaxCalls => calls[v] + 1 \in Calls
      BY SignalTypes, PipelineAssumption DEF Calls
    <3>3. calls[v] < MaxCalls =>
            [call |-> calls[v] + 1, ready |-> FALSE, bytes |-> 0]
            \in [call : Calls, ready : BOOLEAN, bytes : Bytes \cup {0}]
      BY <3>2
    <3>4. calls' \in [Signals -> Calls]
      BY <1>0, <1>3, <3>2
    <3>5. QED
      BY <1>0, <1>3, <3>1, <3>3, <3>4
  <2>3. tasks' \subseteq [signal : Signals, call : Calls \ {0},
                          size : Bytes \cup {0}, next : 0 .. FormMax + 1]
    BY <1>2, <1>3, PipelineAssumption DEF Typed, Calls
  <2>4. cache' \in [Signals -> [size : Bytes \cup {0}, bytes : Contents]]
    <3>1. CASE Sends(v)
      <4>1. future[v].bytes \in Bytes
        BY <1>2, <3>1, SignalTypes DEF Sends
      <4>2. Resize(cache[v], future[v].bytes) \in [size : Bytes \cup {0}, bytes : Contents]
        BY <1>2, <4>1, ResizeType DEF Typed
      <4>3. QED
        BY <1>4, <3>1, <4>2 DEF Typed
    <3>2. QED
      BY <1>4, <3>1 DEF Typed
  <2>5. sentCounter' \in [Signals -> Nat]
    BY <1>2, <1>4 DEF Typed
  <2>6. last' \in [Signals -> [call : Calls, size : Bytes, bytes : Contents,
                               stamp : Stamps, before : Bytes]]
    <3>1. CASE Sends(v)
      <4>1. future[v].bytes \in Bytes /\ time[TimeSlot(v)] \in Stamps
        BY <1>2, <3>1, SignalTypes DEF Sends, Typed
      <4>2. cache[v].bytes \in Contents /\ last[v].size \in Bytes
            /\ future[v].call \in Calls
        BY SignalTypes
      <4>3. [call |-> future[v].call, size |-> future[v].bytes,
             bytes |-> cache[v].bytes, stamp |-> time[TimeSlot(v)],
             before |-> last[v].size]
            \in [call : Calls, size : Bytes, bytes : Contents,
                 stamp : Stamps, before : Bytes]
        BY <4>1, <4>2
      <4>4. QED
        BY <1>4, <3>1, <4>3 DEF Typed
    <3>2. QED
      BY <1>4, <3>1 DEF Typed
  <2>7. QED
    BY <1>1, <2>1, <2>2, <2>3, <2>4, <2>5, <2>6 DEF Typed
\* The other signals.
<1>6. ASSUME NEW s \in Signals, s # v
      PROVE  /\ future'[s] = future[s] /\ calls'[s] = calls[s]
             /\ cache'[s] = cache[s] /\ sentCounter'[s] = sentCounter[s]
             /\ last'[s] = last[s] /\ finished'[s] = finished[s]
  BY <1>1, <1>2, <1>3, <1>4, <1>6 DEF Typed
<1>7. ASSUME NEW s \in Signals, s # v
      PROVE  (Numbering(s) /\ Counting(s) /\ CacheSize(s) /\ Payload(s))'
  <2>1. Sends(s)' = Sends(s) /\ Done(s)' = Done(s)
    BY <1>6, <1>7 DEF Sends, ResultIn, Done
  <2>2. /\ \A c : Stamped(s, c)' = Stamped(s, c)
        /\ \A c, n : Arrived(s, c, n)' = Arrived(s, c, n)
    BY <1>1, <1>6, <1>7 DEF Stamped, Lone, TimeSlot, Arrived
  <2>3. Numbering(s)' /\ Counting(s)'
    BY <1>6, <1>7, <2>1 DEF Numbering, Counting
  <2>4. CacheSize(s)'
    BY <1>1, <1>6, <1>7 DEF CacheSize
  <2>5. Payload(s)'
    BY <1>6, <1>7, <2>1, <2>2 DEF Payload, Lone
  <2>6. QED
    BY <2>3, <2>4, <2>5
\* The signal itself.
<1>8. /\ calls'[v] \in {calls[v], calls[v] + 1}
      /\ future'[v].call \in {0, calls'[v]}
      /\ future'[v].ready = FALSE
  <2>1. CASE future' = [future EXCEPT ![v] = NoFuture] /\ calls' = calls
    BY <1>0, <2>1 DEF NoFuture
  <2>2. CASE ~ResultIn(v) /\ future' = future /\ calls' = calls
    BY <1>0, <2>2 DEF ResultIn, Numbering
  <2>3. CASE /\ calls' = [calls EXCEPT ![v] = @ + 1]
             /\ future' = [future EXCEPT ![v] =
                   [call |-> calls[v] + 1, ready |-> FALSE, bytes |-> 0]]
    BY <1>0, <2>3
  <2>4. QED
    BY <1>3, <2>1, <2>2, <2>3
<1>9. Done(v)' = finished[v]
  BY <1>1, <1>8 DEF Done, Sends, ResultIn
\* The packet of v is the latest finished call.
<1>10. /\ \A c \in finished[v] : c <= last'[v].call
       /\ last'[v].call <= calls[v]
  <2>1. finished[v] \subseteq 1 .. calls[v] /\ future[v].call \in {0, calls[v]}
    BY DEF Numbering
  <2>2. CASE Sends(v)
    <3>1. last'[v].call = future[v].call
      BY <1>4, <2>2 DEF Typed
    <3>2. future[v].call \in finished[v]
      BY <2>2 DEF Numbering
    <3>3. future[v].call = calls[v] /\ calls[v] \in Nat
      BY <2>1, <3>2, SignalTypes DEF Calls
    <3>4. QED
      BY <2>1, <3>1, <3>3
  <2>3. CASE ~Sends(v)
    BY <1>4, <2>3 DEF Counting, Numbering, Done
  <2>4. QED
    BY <2>2, <2>3
<1>11. Numbering(v)'
  <2>1. calls'[v] \in Nat /\ calls[v] \in Nat /\ calls[v] <= calls'[v]
    BY <1>8, SignalTypes DEF Calls
  <2>2. finished[v] \subseteq 1 .. calls[v] /\ finished'[v] = finished[v]
    BY <1>1 DEF Numbering
  <2>3. last'[v].call \in Nat
    BY <1>5, SignalTypes DEF Typed, Calls
  <2>4. finished'[v] \subseteq 1 .. calls'[v] /\ last'[v].call <= calls'[v]
    BY <1>10, <2>1, <2>2, <2>3
  <2>5. QED
    BY <1>8, <2>4 DEF Numbering, Sends, ResultIn
<1>12. Counting(v)'
  <2>1. CASE Sends(v)
    <3>1. sentCounter'[v] = sentCounter[v] + 1
      BY <1>4, <2>1 DEF Typed
    <3>2. Done(v) = finished[v] \ {future[v].call} /\ future[v].call \in finished[v]
      BY <2>1 DEF Done, Numbering
    <3>3. finished[v] \subseteq 1 .. calls[v] /\ calls[v] \in Calls
      BY SignalTypes DEF Numbering
    <3>4. IsFiniteSet(finished[v]) /\ Cardinality(finished[v]) \in Nat
      BY <3>3, FewCalls DEF Calls
    <3>5. Cardinality(Done(v)) = Cardinality(finished[v]) - 1
      <4>1. Cardinality(finished[v] \ {future[v].call}) = Cardinality(finished[v]) - 1
        BY ONLY <3>2, <3>4, FS_RemoveElement
      <4>2. QED
        BY <3>2, <4>1
    <3>6. sentCounter[v] = Cardinality(Done(v))
      BY DEF Counting
    <3>7. sentCounter'[v] = Cardinality(finished[v])
      BY <3>1, <3>4, <3>5, <3>6
    <3>8. QED
      BY <1>9, <1>10, <3>7 DEF Counting
  <2>2. CASE ~Sends(v)
    BY <1>4, <1>9, <1>10, <2>2 DEF Counting, Done
  <2>3. QED
    BY <2>1, <2>2
<1>13. cache[v].size = FormMax
  BY <1>1, <1>2 DEF CacheSize
<1>14. CacheSize(v)'
  <2>1. CASE Sends(v)
    <3>1. future[v].bytes \in Bytes
      BY <2>1, SignalTypes DEF Sends
    <3>2. cache'[v] = Resize(cache[v], future[v].bytes) /\ cache[v] = cache[v]
      BY <1>4, <2>1 DEF Typed
    <3>3. cache'[v].size = future[v].bytes
      BY <3>1, <3>2, ResizeType DEF Typed
    <3>4. last'[v].size = future[v].bytes
      BY <1>4, <2>1 DEF Typed
    <3>5. future[v].bytes \in Nat
      BY <3>1, FormIsByte
    <3>6. QED
      BY <1>1, <3>3, <3>4, <3>5 DEF CacheSize
  <2>2. CASE ~Sends(v)
    <3>1. cache'[v].size = FormMax /\ last'[v].size \in Bytes
      BY <1>4, <1>13, <2>2, SignalTypes
    <3>2. QED
      BY <1>1, <3>1 DEF CacheSize, Bytes
  <2>3. QED
    BY <2>1, <2>2
<1>15. Payload(v)'
  <2>1. CASE Sends(v)
    <3>1. /\ last'[v].call = future[v].call /\ last'[v].size = future[v].bytes
          /\ last'[v].bytes = cache[v].bytes /\ last'[v].before = last[v].size
          /\ last'[v].stamp = time[TimeSlot(v)]
      BY <1>4, <2>1 DEF Typed
    <3>2. Arrived(v, future[v].call, future[v].bytes) /\ Stamped(v, future[v].call)
      BY <2>1 DEF Payload
    <3>3. QED
      BY <1>8, <3>1, <3>2 DEF Payload, Arrived, Stamped, Lone, Sends, ResultIn
  <2>2. CASE ~Sends(v)
    BY <1>4, <1>8, <2>2 DEF Payload, Lone, Sends, ResultIn
  <2>3. QED
    BY <2>1, <2>2
\* A task that was there is of another signal.
<1>16. ASSUME NEW t \in tasks
       PROVE  Running(t)' /\ t.signal \in Signals
  <2>1. t.signal \in Signals /\ ~MayRequest(t.signal) /\ ~Sends(t.signal)
              /\ ~ResultIn(t.signal)
    BY BusyWaits
  <2>2. /\ future'[t.signal] = future[t.signal] /\ calls'[t.signal] = calls[t.signal]
        /\ last'[t.signal] = last[t.signal]
        /\ finished'[t.signal] = finished[t.signal]
        /\ cache'[t.signal] = cache[t.signal]
    <3>1. CASE t.signal = v
      BY <1>1, <1>3, <1>4, <2>1, <3>1
    <3>2. CASE t.signal # v
      BY <1>6, <2>1, <3>2
    <3>3. QED
      BY <3>1, <3>2
  <2>3. QED
    BY <1>1, <2>1, <2>2 DEF Running, Arrived, Stamped, Lone
<1>17. QED
  <2>1. CASE tasks' = tasks
    BY <1>5, <1>7, <1>11, <1>12, <1>14, <1>15, <1>16, <2>1 DEF Alone
  <2>2. CASE /\ MayRequest(v) /\ calls[v] < MaxCalls
             /\ calls' = [calls EXCEPT ![v] = @ + 1]
             /\ tasks' = tasks \cup {[signal |-> v, call |-> calls[v] + 1,
                                      size |-> 0, next |-> 0]}
             /\ future' = [future EXCEPT ![v] =
                   [call |-> calls[v] + 1, ready |-> FALSE, bytes |-> 0]]
    <3>0. PICK new : new = [signal |-> v, call |-> calls[v] + 1, size |-> 0, next |-> 0]
      OBVIOUS
    <3>1. \A t \in tasks : t.signal # v
      BY <2>2, BusyWaits
    <3>2. Running(new)'
      <4>1. calls'[v] = calls[v] + 1 /\ future'[v].call = calls[v] + 1
        BY <1>0, <2>2
      <4>2. finished'[v] \subseteq 1 .. calls[v] /\ calls[v] \in Nat
        BY <1>1, SignalTypes DEF Numbering, Calls
      <4>3. last'[v].call <= calls[v] /\ last'[v].call \in Nat
        BY <1>5, <1>10, SignalTypes DEF Typed, Calls
      <4>4. calls[v] + 1 \notin finished'[v] /\ last'[v].call < calls[v] + 1
        BY <4>2, <4>3
      <4>5. Arrived(new.signal, new.call, new.next - 1)'
        BY <3>0, FormIsByte DEF Arrived
      <4>6. QED
        BY <1>8, <3>0, <4>1, <4>4, <4>5 DEF Running
    <3>3. Alone'
      BY <2>2, <3>0, <3>1 DEF Alone
    <3>4. \A t \in tasks' : Running(t)'
      BY <1>16, <2>2, <3>0, <3>2
    <3>5. QED
      BY <1>5, <1>7, <1>11, <1>12, <1>14, <1>15, <3>3, <3>4
  <2>3. QED
    BY <1>3, <2>1, <2>2

-----------------------------------------------------------------------------
(* A producer runs.                                                        *)

LEMMA TaskType ==
  ASSUME Typed, NEW t \in tasks
  PROVE  /\ t \in [signal : Signals, call : Calls \ {0},
                   size : Bytes \cup {0}, next : 0 .. FormMax + 1]
         /\ t.signal \in Signals /\ t.call \in Calls \ {0}
         /\ t.size \in Nat /\ t.next \in Nat
<1>1. t \in [signal : Signals, call : Calls \ {0},
             size : Bytes \cup {0}, next : 0 .. FormMax + 1]
  BY DEF Typed
<1>2. t.size \in Bytes \cup {0} /\ t.next \in 0 .. FormMax + 1
  BY <1>1
<1>3. t.size \in Nat
  BY <1>2, PipelineAssumption DEF Bytes
<1>4. t.next \in Nat
  BY <1>2, PipelineAssumption
<1>5. t.signal \in Signals /\ t.call \in Calls \ {0}
  BY <1>1
<1>6. QED
  BY <1>1, <1>3, <1>4, <1>5

LEMMA StampStep ==
  ASSUME PipelineInv, NEW t \in tasks, Stamp(t)
  PROVE  PipelineInv'
<1>1. Typed /\ Alone /\ (\A u \in tasks : Running(u))
      /\ \A s \in Signals : Numbering(s) /\ Counting(s) /\ CacheSize(s) /\ Payload(s)
  BY DEF PipelineInv
<1>2. /\ visiting' = visiting /\ stage' = stage /\ future' = future
      /\ cache' = cache /\ calls' = calls /\ sentCounter' = sentCounter
      /\ last' = last /\ finished' = finished /\ t.next = 0
      /\ time' = [time EXCEPT ![TimeSlot(t.signal)] =
                    [signal |-> t.signal, call |-> t.call]]
  BY DEF Stamp
<1>3. PICK n \in Bytes : tasks' = (tasks \ {t}) \cup {[t EXCEPT !.size = n, !.next = 1]}
  BY DEF Stamp
<1>4. PICK u : u = [t EXCEPT !.size = n, !.next = 1]
  OBVIOUS
<1>5. /\ u.signal = t.signal /\ u.call = t.call /\ u.size = n /\ u.next = 1
      /\ u \in [signal : Signals, call : Calls \ {0},
               size : Bytes \cup {0}, next : 0 .. FormMax + 1]
  <2>1. t \in [signal : Signals, call : Calls \ {0},
               size : Bytes \cup {0}, next : 0 .. FormMax + 1]
    BY <1>1, TaskType
  <2>2. 1 \in 0 .. FormMax + 1
    BY PipelineAssumption
  <2>3. QED
    BY <1>4, <2>1, <2>2
<1>6. Typed'
  <2>1. time \in [{TimeSlot(s) : s \in Signals} -> Stamps]
    BY <1>1 DEF Typed
  <2>2. [signal |-> t.signal, call |-> t.call] \in Stamps
    BY <1>1, TaskType DEF Stamps
  <2>3. time' \in [{TimeSlot(s) : s \in Signals} -> Stamps]
    BY <1>2, <2>1, <2>2
  <2>4. tasks' \subseteq [signal : Signals, call : Calls \ {0},
                          size : Bytes \cup {0}, next : 0 .. FormMax + 1]
    BY <1>1, <1>3, <1>4, <1>5 DEF Typed
  <2>5. QED
    BY <1>1, <1>2, <2>3, <2>4 DEF Typed
\* The time of another signal that has its own slot, and of this one.
<1>7. ASSUME NEW s \in Signals, s # t.signal, NEW c, Stamped(s, c)
      PROVE  Stamped(s, c)'
  <2>1. Lone(s) => TimeSlot(s) # TimeSlot(t.signal)
    BY <1>1, <1>7, TaskType DEF Lone, TimeSlot
  <2>2. time \in [{TimeSlot(r) : r \in Signals} -> Stamps]
    BY <1>1 DEF Typed
  <2>3. Lone(s) => time'[TimeSlot(s)] = time[TimeSlot(s)]
    BY <1>2, <2>1, <2>2
  <2>4. Lone(s)' = Lone(s) /\ TimeSlot(s)' = TimeSlot(s)
    BY DEF Lone, TimeSlot
  <2>5. QED
    BY <1>7, <2>3, <2>4 DEF Stamped
<1>8. Stamped(u.signal, u.call)'
  <2>1. time'[TimeSlot(t.signal)] = [signal |-> t.signal, call |-> t.call]
    BY <1>1, <1>2, TaskType DEF Typed
  <2>2. QED
    BY <1>5, <2>1 DEF Stamped, TimeSlot
<1>9. ASSUME NEW s \in Signals
      PROVE  (Numbering(s) /\ Counting(s) /\ CacheSize(s) /\ Payload(s))'
  <2>1. Sends(s)' = Sends(s) /\ Done(s)' = Done(s)
    BY <1>2 DEF Sends, ResultIn, Done
  <2>2. \A c, m : Arrived(s, c, m)' = Arrived(s, c, m)
    BY <1>2 DEF Arrived
  <2>3. Sends(s) => s # t.signal
    BY BusyWaits
  <2>4. Numbering(s)' /\ Counting(s)' /\ CacheSize(s)'
    BY <1>1, <1>2, <2>1 DEF Numbering, Counting, CacheSize
  <2>5. Payload(s)'
    BY <1>1, <1>2, <1>7, <2>1, <2>2, <2>3 DEF Payload, Lone
  <2>6. QED
    BY <2>4, <2>5
<1>10. ASSUME NEW r \in tasks \ {t}
       PROVE  Running(r)' /\ r.signal # t.signal
  <2>1. r.signal # t.signal /\ r.signal \in Signals /\ Running(r)
    BY <1>1, TaskType DEF Alone
  <2>2. QED
    BY <1>2, <1>7, <2>1 DEF Running, Arrived
<1>11. Running(u)'
  <2>1. Running(t) /\ n \in Nat
    BY <1>1, FormIsByte
  <2>2. Arrived(u.signal, u.call, u.next - 1)'
    BY <1>5, FormIsByte DEF Arrived
  <2>3. QED
    BY <1>2, <1>5, <1>8, <2>1, <2>2 DEF Running
<1>12. \A r \in tasks' : Running(r)'
  BY <1>3, <1>4, <1>10, <1>11
<1>13. Alone'
  BY <1>1, <1>3, <1>4, <1>5, <1>10 DEF Alone
<1>14. QED
  BY <1>6, <1>9, <1>12, <1>13 DEF PipelineInv

LEMMA WriteByteStep ==
  ASSUME PipelineInv, NEW t \in tasks, WriteByte(t)
  PROVE  PipelineInv'
<1>1. Typed /\ Alone /\ (\A u \in tasks : Running(u))
      /\ \A s \in Signals : Numbering(s) /\ Counting(s) /\ CacheSize(s) /\ Payload(s)
  BY DEF PipelineInv
<1>2. /\ visiting' = visiting /\ stage' = stage /\ future' = future
      /\ time' = time /\ calls' = calls /\ sentCounter' = sentCounter
      /\ last' = last /\ finished' = finished /\ t.next \in 1 .. t.size
      /\ tasks' = (tasks \ {t}) \cup {[t EXCEPT !.next = @ + 1]}
      /\ cache' = [cache EXCEPT ![t.signal].bytes[t.next] = t.call]
  BY DEF WriteByte
<1>3. PICK u : u = [t EXCEPT !.next = @ + 1]
  OBVIOUS
<1>4. /\ t \in [signal : Signals, call : Calls \ {0},
               size : Bytes \cup {0}, next : 0 .. FormMax + 1]
      /\ t.signal \in Signals /\ t.call \in Calls /\ t.next \in Bytes
      /\ t.size \in Nat
  BY <1>1, <1>2, TaskType, PipelineAssumption DEF Bytes
<1>5. /\ u.signal = t.signal /\ u.call = t.call /\ u.size = t.size
      /\ u.next = t.next + 1
      /\ u \in [signal : Signals, call : Calls \ {0},
               size : Bytes \cup {0}, next : 0 .. FormMax + 1]
  BY <1>3, <1>4, PipelineAssumption DEF Bytes
<1>6. cache \in [Signals -> [size : Bytes \cup {0}, bytes : Contents]]
  BY <1>1 DEF Typed
<1>7. /\ \A s \in Signals : cache'[s].size = cache[s].size
      /\ \A s \in Signals \ {t.signal} : cache'[s] = cache[s]
      /\ \A b \in Bytes : cache'[t.signal].bytes[b] =
                             IF b = t.next THEN t.call
                             ELSE cache[t.signal].bytes[b]
  BY <1>2, <1>4, <1>6 DEF Contents
<1>8. Typed'
  <2>1. cache' \in [Signals -> [size : Bytes \cup {0}, bytes : Contents]]
    BY <1>2, <1>4, <1>6 DEF Contents
  <2>2. tasks' \subseteq [signal : Signals, call : Calls \ {0},
                          size : Bytes \cup {0}, next : 0 .. FormMax + 1]
    BY <1>1, <1>2, <1>3, <1>5 DEF Typed
  <2>3. QED
    BY <1>1, <1>2, <2>1, <2>2 DEF Typed
<1>9. ASSUME NEW s \in Signals
      PROVE  (Numbering(s) /\ Counting(s) /\ CacheSize(s) /\ Payload(s))'
  <2>1. Sends(s)' = Sends(s) /\ Done(s)' = Done(s)
    BY <1>2 DEF Sends, ResultIn, Done
  <2>2. /\ \A c : Stamped(s, c)' = Stamped(s, c)
        /\ s # t.signal => \A c, m : Arrived(s, c, m)' = Arrived(s, c, m)
    BY <1>2, <1>7 DEF Arrived, Stamped, Lone, TimeSlot
  <2>3. Sends(s) => s # t.signal
    BY BusyWaits
  <2>4. Numbering(s)' /\ Counting(s)' /\ CacheSize(s)'
    BY <1>1, <1>2, <1>7, <2>1 DEF Numbering, Counting, CacheSize
  <2>5. Payload(s)'
    BY <1>1, <1>2, <2>1, <2>2, <2>3 DEF Payload, Lone
  <2>6. QED
    BY <2>4, <2>5
<1>10. ASSUME NEW r \in tasks \ {t}
       PROVE  Running(r)' /\ r.signal # t.signal
  <2>1. r.signal # t.signal /\ r.signal \in Signals /\ Running(r)
    BY <1>1, TaskType DEF Alone
  <2>2. QED
    BY <1>2, <1>7, <2>1 DEF Running, Arrived, Stamped, Lone, TimeSlot
<1>11. Running(u)'
  <2>1. Running(t)
    BY <1>1
  <2>2. Stamped(u.signal, u.call)'
    BY <1>2, <1>5, <2>1 DEF Running, Stamped, Lone, TimeSlot
  <2>3. Arrived(t.signal, t.call, t.next - 1)
    BY <2>1 DEF Running
  <2>4. Arrived(u.signal, u.call, u.next - 1)'
    <3> SUFFICES ASSUME NEW b \in Bytes, b <= u.next - 1, b <= last'[u.signal].size
                 PROVE  cache'[u.signal].bytes[b] = u.call
      BY DEF Arrived
    <3>1. b \in Nat /\ t.next \in Nat /\ b <= t.next
      BY <1>4, <1>5, FormIsByte
    <3>2. CASE b = t.next
      BY <1>5, <1>7, <3>2
    <3>3. CASE b # t.next
      <4>1. b <= t.next - 1 /\ b <= last[t.signal].size
        BY <1>2, <1>5, <3>1, <3>3
      <4>2. cache[t.signal].bytes[b] = t.call
        BY <2>3, <4>1 DEF Arrived
      <4>3. QED
        BY <1>5, <1>7, <3>3, <4>2
    <3>4. QED
      BY <3>2, <3>3
  <2>5. QED
    BY <1>2, <1>4, <1>5, <2>1, <2>2, <2>4 DEF Running
<1>12. \A r \in tasks' : Running(r)'
  BY <1>2, <1>3, <1>10, <1>11
<1>13. Alone'
  BY <1>1, <1>2, <1>3, <1>5, <1>10 DEF Alone
<1>14. QED
  BY <1>8, <1>9, <1>12, <1>13 DEF PipelineInv

LEMMA ReturnStep ==
  ASSUME PipelineInv, NEW t \in tasks, Return(t)
  PROVE  PipelineInv'
<1>1. Typed /\ Alone /\ (\A u \in tasks : Running(u))
      /\ \A s \in Signals : Numbering(s) /\ Counting(s) /\ CacheSize(s) /\ Payload(s)
  BY DEF PipelineInv
<1>2. /\ visiting' = visiting /\ stage' = stage /\ cache' = cache
      /\ time' = time /\ calls' = calls /\ sentCounter' = sentCounter
      /\ last' = last /\ tasks' = tasks \ {t}
      /\ t.next = 0 \/ t.next = t.size + 1
  BY DEF Return
<1>3. PICK v \in Signals : v = t.signal
  BY <1>1, TaskType
<1>4. /\ t.call \in Calls \ {0} /\ t.size \in Bytes \cup {0}
      /\ t.size \in Nat /\ t.next \in Nat
  BY <1>1, TaskType
<1>5. /\ future[v].call = t.call /\ ~future[v].ready
      /\ t.call = calls[v] /\ t.call \notin finished[v]
      /\ last[v].call < t.call
      /\ t.next = 0 => t.size = 0
      /\ Arrived(v, t.call, t.next - 1)
      /\ t.next > 0 => Stamped(v, t.call)
  BY <1>1, <1>3 DEF Running
<1>6. /\ future' = [future EXCEPT ![v].ready = TRUE, ![v].bytes = t.size]
      /\ finished' = IF t.size > 0
                     THEN [finished EXCEPT ![v] = @ \cup {t.call}]
                     ELSE finished
  BY <1>3, <1>5 DEF Return
<1>7. /\ future \in [Signals -> [call : Calls, ready : BOOLEAN,
                                bytes : Bytes \cup {0}]]
      /\ finished \in [Signals -> SUBSET (Calls \ {0})]
  BY <1>1 DEF Typed
<1>8. /\ \A s \in Signals \ {v} : /\ future'[s] = future[s]
                                   /\ finished'[s] = finished[s]
      /\ future'[v].call = t.call /\ future'[v].ready = TRUE
      /\ future'[v].bytes = t.size
      /\ finished'[v] = finished[v] \cup (IF t.size > 0 THEN {t.call} ELSE {})
  BY <1>5, <1>6, <1>7
<1>9. Typed'
  <2>1. future' \in [Signals -> [call : Calls, ready : BOOLEAN,
                                 bytes : Bytes \cup {0}]]
    BY <1>4, <1>6, <1>7
  <2>2. finished' \in [Signals -> SUBSET (Calls \ {0})]
    BY <1>4, <1>6, <1>7
  <2>3. QED
    BY <1>1, <1>2, <2>1, <2>2 DEF Typed
<1>10. /\ \A s, c : Stamped(s, c)' = Stamped(s, c)
       /\ \A s, c, m : Arrived(s, c, m)' = Arrived(s, c, m)
  BY <1>2 DEF Arrived, Stamped, Lone, TimeSlot
<1>11. ASSUME NEW s \in Signals, s # v
       PROVE  (Numbering(s) /\ Counting(s) /\ CacheSize(s) /\ Payload(s))'
  <2>1. future'[s] = future[s] /\ finished'[s] = finished[s]
    BY <1>8, <1>11
  <2>2. Sends(s)' = Sends(s) /\ Done(s)' = Done(s)
    BY <2>1 DEF Sends, ResultIn, Done
  <2>3. QED
    BY <1>1, <1>2, <1>10, <2>1, <2>2 DEF Numbering, Counting, CacheSize, Payload, Lone
<1>12. (Numbering(v) /\ Counting(v) /\ CacheSize(v) /\ Payload(v))'
  <2>1. Sends(v)' = (t.size > 0) /\ ~Sends(v)
    BY <1>5, <1>8 DEF Sends, ResultIn
  <2>2. Done(v)' = finished[v] /\ Done(v) = finished[v]
    BY <1>5, <1>8, <2>1 DEF Done, Sends, ResultIn
  <2>3. Numbering(v)'
    <3>1. finished[v] \subseteq 1 .. calls[v] /\ last[v].call <= calls[v]
      BY <1>1 DEF Numbering
    <3>2. calls[v] \in Nat /\ calls[v] # 0
      BY <1>4, <1>5, PipelineAssumption DEF Calls
    <3>3. finished'[v] \subseteq 1 .. calls'[v]
      BY <1>2, <1>5, <1>8, <3>1, <3>2
    <3>4. QED
      BY <1>2, <1>5, <1>8, <2>1, <3>1, <3>2, <3>3 DEF Numbering
  <2>4. Counting(v)' /\ CacheSize(v)'
    BY <1>1, <1>2, <2>2 DEF Counting, CacheSize
  <2>5. Payload(v)'
    <3>1. t.size > 0 => t.size = t.next - 1 /\ t.next > 0
      BY <1>2, <1>4, <1>5
    <3>2. Sends(v)' => /\ Arrived(v, t.call, t.size)
                       /\ Stamped(v, t.call)
      BY <1>5, <2>1, <3>1
    <3>3. QED
      BY <1>1, <1>2, <1>8, <1>10, <3>2 DEF Payload, Lone
  <2>6. QED
    BY <2>3, <2>4, <2>5
<1>13. ASSUME NEW r \in tasks \ {t}
       PROVE  Running(r)'
  <2>1. r.signal # v /\ r.signal \in Signals /\ Running(r)
    BY <1>1, <1>3, TaskType DEF Alone
  <2>2. future'[r.signal] = future[r.signal] /\ finished'[r.signal] = finished[r.signal]
    BY <1>8, <2>1
  <2>3. QED
    BY <1>2, <1>10, <2>1, <2>2 DEF Running
<1>14. \A r \in tasks' : Running(r)'
  BY <1>2, <1>13
<1>15. Alone'
  BY <1>1, <1>2 DEF Alone
<1>16. QED
  BY <1>9, <1>11, <1>12, <1>14, <1>15 DEF PipelineInv

-----------------------------------------------------------------------------
LEMMA PipelineInit == Init => PipelineInv
<1> SUFFICES ASSUME Init PROVE PipelineInv
  OBVIOUS
<1>1. /\ visiting = 1 /\ stage = "resize" /\ tasks = {}
      /\ future = [s \in Signals |-> NoFuture]
      /\ cache = [s \in Signals |-> [size |-> 0, bytes |-> [b \in Bytes |-> 0]]]
      /\ time = [i \in {TimeSlot(s) : s \in Signals} |-> NoStamp]
      /\ calls = [s \in Signals |-> 0] /\ sentCounter = [s \in Signals |-> 0]
      /\ last = [s \in Signals |-> NoPacket] /\ finished = [s \in Signals |-> {}]
  BY DEF Init
<1>2. 0 \in Calls /\ 1 \in Signals /\ [b \in Bytes |-> 0] \in Contents
  BY PipelineAssumption DEF Calls, Signals, Contents
<1>3. NoFuture \in [call : Calls, ready : BOOLEAN, bytes : Bytes \cup {0}]
  BY <1>2 DEF NoFuture
<1>4. NoStamp \in Stamps
  BY <1>2 DEF NoStamp, Stamps
<1>5. NoPacket \in [call : Calls, size : Bytes, bytes : Contents,
                   stamp : Stamps, before : Bytes]
  BY <1>2, <1>4, FormIsByte DEF NoPacket
<1>6. Typed
  BY <1>1, <1>2, <1>3, <1>4, <1>5 DEF Typed
<1>7. ASSUME NEW s \in Signals
      PROVE  Numbering(s) /\ Counting(s) /\ CacheSize(s) /\ Payload(s)
  <2>1. /\ future[s].call = 0 /\ future[s].ready = FALSE /\ last[s].call = 0
        /\ finished[s] = {} /\ sentCounter[s] = 0 /\ calls[s] = 0
    BY <1>1 DEF NoFuture, NoPacket
  <2>2. Done(s) = {} /\ Sends(s) = FALSE
    BY <2>1 DEF Done, Sends, ResultIn
  <2>3. Cardinality({}) = 0
    BY FS_EmptySet
  <2>4. QED
    BY <1>1, <2>1, <2>2, <2>3 DEF Numbering, Counting, CacheSize, Payload
<1>8. QED
  BY <1>1, <1>6, <1>7 DEF PipelineInv, Alone

LEMMA PipelineNext == PipelineInv /\ [Next]_vars => PipelineInv'
<1> SUFFICES ASSUME PipelineInv, [Next]_vars PROVE PipelineInv'
  OBVIOUS
<1>1. CASE Tick
  BY <1>1, TickResizeStep, TickPollStep DEF Tick
<1>2. CASE \E s \in Signals : Produce(s)
  BY <1>2, StampStep, WriteByteStep, ReturnStep DEF Produce
<1>3. CASE UNCHANGED vars
  <2>1. /\ visiting' = visiting /\ stage' = stage /\ cache' = cache
        /\ time' = time /\ calls' = calls /\ sentCounter' = sentCounter
        /\ last' = last /\ tasks' = tasks /\ future' = future
        /\ finished' = finished
    BY <1>3 DEF vars
  <2>2. \A s : /\ Numbering(s)' = Numbering(s) /\ CacheSize(s)' = CacheSize(s)
               /\ Sends(s)' = Sends(s) /\ Done(s)' = Done(s)
    BY <2>1 DEF Numbering, CacheSize, Done, Sends, ResultIn
  <2>3. /\ \A s, c : Stamped(s, c)' = Stamped(s, c)
        /\ \A s, c, m : Arrived(s, c, m)' = Arrived(s, c, m)
    BY <2>1 DEF Arrived, Stamped, Lone, TimeSlot
  <2>4. \A s : Counting(s)' = Counting(s) /\ Payload(s)' = Payload(s)
    BY <2>1, <2>2, <2>3 DEF Counting, Payload, Lone
  <2>5. \A t : Running(t)' = Running(t)
    BY <2>1, <2>3 DEF Running
  <2>6. Typed' = Typed /\ Alone' = Alone
    BY <2>1 DEF Typed, Alone
  <2>7. QED
    BY <2>1, <2>2, <2>4, <2>5, <2>6 DEF PipelineInv
<1>4. QED
  BY <1>1, <1>2, <1>3 DEF Next

LEMMA PipelineAlways == Spec => []PipelineInv
  BY PipelineInit, PipelineNext, PTL DEF Spec

\* The types of the pipeline's state; that sentCounter stays within the calls
\* is part of them, and needs the count below.
THEOREM TypeCorrect == Spec => []TypeOK
<1>1. ASSUME PipelineInv PROVE TypeOK
  <2>1. Typed
    BY <1>1 DEF PipelineInv
  <2>2. ASSUME NEW s \in Signals
        PROVE  sentCounter[s] \in Calls
    <3>1. finished[s] \subseteq 1 .. calls[s] /\ sentCounter[s] = Cardinality(Done(s))
      BY <1>1 DEF PipelineInv, Numbering, Counting
    <3>2. calls[s] \in Calls /\ Done(s) \subseteq 1 .. calls[s]
      BY <2>1, <3>1, SignalTypes DEF Done
    <3>3. QED
      BY <3>1, <3>2, FewCalls
  <2>3. sentCounter \in [Signals -> Calls]
    BY <2>1, <2>2 DEF Typed
  <2>4. QED
    BY <2>1, <2>3 DEF Typed, TypeOK
<1>2. QED
  BY <1>1, PipelineAlways, PTL

\* A producer is never entered twice, and while a result waits to be sent no
\* task is left that could write over it: the future that a tick replaces is
\* always one whose task has returned (client.cpp, _process_outgoing_signal).
THEOREM ProducersEnteredOnce == Spec => []OneCallAtATime
<1>1. ASSUME PipelineInv PROVE OneCallAtATime
  <2> SUFFICES ASSUME NEW s \in Signals
               PROVE  /\ Cardinality({t \in tasks : t.signal = s}) <= 1
                      /\ ResultIn(s) => \A t \in tasks : t.signal # s
    BY DEF OneCallAtATime
  <2> DEFINE S == {t \in tasks : t.signal = s}
  <2>1. CASE S = {}
    BY <2>1, FS_EmptySet
  <2>2. CASE S # {}
    <3>1. PICK t \in S : TRUE
      BY <2>2
    <3>2. S = {t}
      BY <1>1, <3>1 DEF PipelineInv, Alone
    <3>3. Cardinality({t}) = 1
      BY FS_Singleton
    <3>4. Cardinality(S) <= 1
      BY <3>2, <3>3
    <3>5. QED
      BY <1>1, <3>4, BusyWaits
  <2>3. QED
    BY <1>1, <2>1, <2>2, BusyWaits
<1>2. QED
  BY <1>1, PipelineAlways, PTL

\* Nothing a producer made is lost, sent twice or overtaken, and sentCounter
\* numbers the packets of a signal without a gap.
THEOREM EachResultSentOnce == Spec => []SentOnceInOrder
<1>1. ASSUME PipelineInv PROVE SentOnceInOrder
  <2> SUFFICES ASSUME NEW s \in Signals
               PROVE  LET waiting == IF Sends(s) THEN {future[s].call} ELSE {}
                          done == finished[s] \ waiting
                      IN  /\ waiting \subseteq finished[s]
                          /\ sentCounter[s] = Cardinality(done)
                          /\ \A c \in done : c <= last[s].call
                          /\ \A c \in waiting : c > last[s].call
    BY DEF SentOnceInOrder
  <2>1. Numbering(s) /\ Counting(s) /\ Typed
    BY <1>1 DEF PipelineInv
  <2>2. QED
    BY <2>1, SignalTypes DEF Numbering, Counting, Done, Calls
<1>2. QED
  BY <1>1, PipelineAlways, PTL

\* A packet carries the bytes and the time of one call of its producer, within
\* the limits PacketOfOneCall names.
THEOREM PacketsAreWhole == Spec => []PacketOfOneCall
<1>1. PipelineInv => PacketOfOneCall
  BY DEF PipelineInv, Payload, Lone, PacketOfOneCall
<1>2. QED
  BY <1>1, PipelineAlways, PTL
=============================================================================
