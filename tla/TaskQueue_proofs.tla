-------------------------- MODULE TaskQueue_proofs --------------------------
(***************************************************************************)
(* Proofs about TaskQueue: its types, that no task is lost, run twice or   *)
(* overtaken, and that the pair of queues implements TaskFifo, for any     *)
(* bound on the tasks of one batch and any number of tasks.                *)
(***************************************************************************)
EXTENDS TaskQueue, SequenceTheorems, TLAPS

-----------------------------------------------------------------------------
(* Sequences.                                                              *)

UpTo(n) == [i \in 1 .. n |-> i]

\* A task appended at the end of what is still to run.
LEMMA AppendNext ==
  ASSUME NEW s \in Seq(Nat), NEW t \in Seq(Nat), NEW n \in Nat,
         s \o t = UpTo(n)
  PROVE  s \o Append(t, n + 1) = UpTo(n + 1)
<1>1. Len(s) + Len(t) = n
  <2>1. Len(s \o t) = Len(s) + Len(t)
    BY ConcatProperties
  <2>2. Len(UpTo(n)) = n
    BY DEF UpTo
  <2>3. QED
    BY <2>1, <2>2
<1>2. Append(t, n + 1) \in Seq(Nat) /\ Len(Append(t, n + 1)) = Len(t) + 1
  OBVIOUS
<1>3. s \o Append(t, n + 1) \in Seq(Nat) /\ UpTo(n + 1) \in Seq(Nat)
  BY <1>2, ConcatProperties, IsASeq DEF UpTo
<1>4. Len(s \o Append(t, n + 1)) = n + 1 /\ Len(UpTo(n + 1)) = n + 1
  <2>1. Len(s \o Append(t, n + 1)) = Len(s) + Len(Append(t, n + 1))
    BY <1>2, ConcatProperties
  <2>2. Len(UpTo(n + 1)) = n + 1
    BY DEF UpTo
  <2>3. QED
    BY <1>1, <1>2, <2>1, <2>2
<1>5. ASSUME NEW i \in 1 .. n + 1
      PROVE  (s \o Append(t, n + 1))[i] = UpTo(n + 1)[i]
  <2>1. CASE i = n + 1
    BY <1>1, <1>2, <2>1 DEF UpTo
  <2>2. CASE i # n + 1
    <3>1. i \in 1 .. n /\ UpTo(n + 1)[i] = i /\ (s \o t)[i] = i
      BY <2>2 DEF UpTo
    <3>2. (s \o Append(t, n + 1))[i] = (s \o t)[i]
      BY <1>1, <1>2, <3>1
    <3>3. QED
      BY <3>1, <3>2
  <2>3. QED
    BY <2>1, <2>2
<1>6. QED
  BY <1>3, <1>4, <1>5, SeqEqual

LEMMA Associative ==
  ASSUME NEW s \in Seq(Nat), NEW t \in Seq(Nat), NEW u \in Seq(Nat)
  PROVE  (s \o t) \o u = s \o (t \o u)
  OBVIOUS

LEMMA PutFirst ==
  ASSUME NEW x \in Nat, NEW u \in Seq(Nat)
  PROVE  <<x>> \o u # <<>> /\ Head(<<x>> \o u) = x /\ Tail(<<x>> \o u) = u
<1> DEFINE v == <<x>> \o u
<1>1. <<x>> \in Seq(Nat) /\ Len(<<x>>) = 1 /\ <<x>>[1] = x
  OBVIOUS
<1>2. /\ v \in Seq(Nat) /\ Len(v) = 1 + Len(u)
      /\ \A i \in 1 .. 1 + Len(u) : v[i] = IF i <= 1 THEN <<x>>[i] ELSE u[i - 1]
  BY <1>1, ConcatProperties
<1> HIDE DEF v
<1>3. v # <<>> /\ Head(v) = x
  BY <1>1, <1>2
<1>4. Tail(v) \in Seq(Nat) /\ Len(Tail(v)) = Len(u)
  BY <1>2, <1>3, HeadTailProperties
<1>5. \A i \in 1 .. Len(u) : Tail(v)[i] = u[i]
  <2>1. \A i \in 1 .. Len(u) : Tail(v)[i] = v[i + 1]
    BY <1>2, <1>3, <1>4, HeadTailProperties
  <2>2. ASSUME NEW i \in 1 .. Len(u)
        PROVE  v[i + 1] = u[i]
    <3>1. i + 1 \in 1 .. 1 + Len(u) /\ ~ (i + 1 <= 1) /\ (i + 1) - 1 = i
      OBVIOUS
    <3>2. QED
      BY <1>2, <3>1
  <2>3. QED
    BY <2>1, <2>2
<1>6. Tail(v) = u
  BY <1>4, <1>5, SeqEqual
<1>7. QED
  BY <1>3, <1>6 DEF v

\* What is left of a list when its m-th element has been taken.
LEMMA TakeNext ==
  ASSUME NEW s \in Seq(Nat), NEW t \in Seq(Nat), NEW m \in 0 .. Len(s) - 1
  PROVE  LET rest == SubSeq(s, m + 1, Len(s)) \o t
             left == SubSeq(s, m + 2, Len(s)) \o t
         IN  /\ rest \in Seq(Nat) /\ rest # <<>>
             /\ Head(rest) = s[m + 1]
             /\ Tail(rest) = left
             /\ rest = <<s[m + 1]>> \o left
<1> DEFINE a == SubSeq(s, m + 1, Len(s))
           b == SubSeq(s, m + 2, Len(s))
<1>1. m + 1 \in 1 .. Len(s) /\ Len(s) \in m + 1 .. Len(s) /\ m + 1 + 1 = m + 2
  OBVIOUS
<1>2. a = <<s[m + 1]>> \o b
  BY <1>1, SubSeqRecursiveFirst
<1>3. a \in Seq(Nat) /\ b \in Seq(Nat) /\ <<s[m + 1]>> \in Seq(Nat)
  OBVIOUS
<1> HIDE DEF a, b
<1>4. a \o t = <<s[m + 1]>> \o (b \o t)
  <2>1. PICK h \in Seq(Nat) : h = <<s[m + 1]>>
    BY <1>3
  <2>2. (h \o b) \o t = h \o (b \o t)
    BY <1>3, Associative
  <2>3. QED
    BY <1>2, <2>1, <2>2
<1>5. b \o t \in Seq(Nat)
  BY <1>3, ConcatProperties
<1>6. s[m + 1] \in Nat
  BY <1>1, ElementOfSeq
<1>7. a \o t # <<>> /\ Head(a \o t) = s[m + 1] /\ Tail(a \o t) = b \o t
  BY <1>4, <1>5, <1>6, PutFirst
<1>8. a \o t \in Seq(Nat)
  BY <1>3, ConcatProperties
<1>9. QED
  BY <1>4, <1>7, <1>8 DEF a, b

-----------------------------------------------------------------------------
(* Types.                                                                  *)

LEMMA AppendedType ==
  ASSUME TypeOK, NEW t \in Threads, Appended(t)
  PROVE  /\ localTasks' \in [Threads -> Seq(Nat)]
         /\ posted' \in [Threads -> 0 .. MaxPosted]
  BY TaskQueueAssumption DEF TypeOK, Appended

LEMMA RestType ==
  ASSUME NEW s \in Seq(Nat), NEW n \in Nat
  PROVE  SubSeq(s, n + 1, Len(s)) \in Seq(Nat)
  OBVIOUS

LEMMA LeftType ==
  ASSUME TypeOK, NEW t \in Threads
  PROVE  Left(t) \in Seq(Nat)
<1>1. Other(t) \in Threads
  BY DEF Other, Threads
<1>2. tasks[Other(t)] \in Seq(Nat) /\ consumed[t] \in Nat
  BY <1>1 DEF TypeOK
<1>3. QED
  BY <1>2, RestType DEF Left

LEMMA RunsOne ==
  ASSUME TypeOK, NEW t \in Threads, RunTask(t)
  PROVE  /\ consumed[t] + 1 \in 0 .. MaxTasksToConsume
         /\ tasks[Other(t)][consumed[t] + 1] \in Nat
<1>1. Other(t) \in Threads
  BY DEF Other, Threads
<1>2. consumed[t] \in Nat /\ MaxTasksToConsume \in Nat /\ tasks[Other(t)] \in Seq(Nat)
  BY <1>1, TaskQueueAssumption DEF TypeOK
<1>3. consumed[t] < MaxTasksToConsume /\ consumed[t] < Len(tasks[Other(t)])
  BY DEF RunTask, MoreToRun
<1>4. consumed[t] + 1 \in 1 .. Len(tasks[Other(t)])
  BY <1>2, <1>3
<1>5. QED
  BY <1>2, <1>3, <1>4, ElementOfSeq

LEMMA TypeStep ==
  ASSUME TypeOK, [Next]_vars
  PROVE  TypeOK'
<1> USE TaskQueueAssumption
<1>1. ASSUME NEW t \in Threads, Step(t)
      PROVE  TypeOK'
  <2>1. Other(t) \in Threads
    BY DEF Other, Threads
  <2> USE <2>1 DEF TypeOK, Goto
  <2>2. CASE AppendLocalTask(t)
    BY <2>2, AppendedType DEF AppendLocalTask
  <2>3. CASE StopAppending(t)
    BY <2>3 DEF StopAppending
  <2>4. CASE MoveLocked(t)
    <3>1. tasks[t] \o localTasks[t] \in Seq(Nat)
      BY ConcatProperties
    <3>2. QED
      BY <2>4, <3>1 DEF MoveLocked
  <2>5. CASE MoveFailed(t)
    BY <2>5 DEF MoveFailed
  <2>6. CASE ResizeLocal(t)
    BY <2>6 DEF ResizeLocal
  <2>7. CASE ConsumeLocked(t)
    BY <2>7 DEF ConsumeLocked
  <2>8. CASE ConsumeFailed(t)
    BY <2>8 DEF ConsumeFailed
  <2>9. CASE RunTask(t)
    <3>1. consumed[t] + 1 \in 0 .. MaxTasksToConsume
      BY <2>9, RunsOne, Zenon
    <3>2. tasks[Other(t)][consumed[t] + 1] \in Nat
      BY <2>9, RunsOne, Zenon
    <3>3. executed' \in [Threads -> Seq(Nat)]
      BY <2>9, <3>2 DEF RunTask
    <3>4. consumed' \in [Threads -> 0 .. MaxTasksToConsume]
      BY <2>9, <3>1 DEF RunTask
    <3>5. /\ localTasks' \in [Threads -> Seq(Nat)]
          /\ posted' \in [Threads -> 0 .. MaxPosted]
      BY <2>9, AppendedType DEF RunTask
    <3>6. QED
      BY <2>9, <3>3, <3>4, <3>5 DEF RunTask
  <2>10. CASE EraseAndUnlock(t)
    <3>1. Left(t) \in Seq(Nat)
      BY LeftType, Zenon
    <3>2. tasks' \in [Threads -> Seq(Nat)]
      BY <2>10, <3>1 DEF EraseAndUnlock
    <3>3. QED
      BY <2>10, <3>2 DEF EraseAndUnlock
  <2>11. QED
    BY <1>1, <2>2, <2>3, <2>4, <2>5, <2>6, <2>7, <2>8, <2>9, <2>10 DEF Step
<1>2. CASE UNCHANGED vars
  BY <1>2 DEF vars, TypeOK
<1>3. QED
  BY <1>1, <1>2 DEF Next

LEMMA TypeInit == Init => TypeOK
  BY TaskQueueAssumption DEF Init, TypeOK, Threads

\* The lists stay lists of task numbers, and no batch runs more tasks than
\* kMaxTasksToConsume.
THEOREM TypeCorrect == Spec => []TypeOK
<1>1. TypeOK /\ [Next]_vars => TypeOK'
  BY TypeStep
<1>2. QED
  BY <1>1, TypeInit, PTL DEF Spec

-----------------------------------------------------------------------------
(* A thread at work on a list holds its mutex, and has run no more tasks   *)
(* than the list has.                                                      *)

AtWork(t) ==
  pc[t] = "run" => mutex[Other(t)] = t /\ consumed[t] <= Len(tasks[Other(t)])
WorkInv == TypeOK /\ \A t \in Threads : AtWork(t)

LEMMA Others ==
  ASSUME NEW t \in Threads
  PROVE  Other(t) \in Threads /\ Other(t) # t /\ Other(Other(t)) = t
         /\ \A u \in Threads : u = t \/ u = Other(t)
  BY DEF Other, Threads

LEMMA WorkStep ==
  ASSUME WorkInv, [Next]_vars
  PROVE  WorkInv'
<1>1. TypeOK /\ TypeOK'
  BY TypeStep DEF WorkInv
<1>2. ASSUME NEW t \in Threads, Step(t), NEW u \in Threads
      PROVE  AtWork(u)'
  <2>1. /\ Other(t) \in Threads /\ Other(t) # t /\ Other(Other(t)) = t
        /\ u = t \/ u = Other(t)
        /\ Free \notin Threads
    BY Others DEF Free, Threads
  <2> USE <1>1, <2>1 DEF WorkInv, AtWork, TypeOK, Goto
  <2>2. CASE AppendLocalTask(t)
    BY <2>2 DEF AppendLocalTask
  <2>3. CASE StopAppending(t)
    BY <2>3 DEF StopAppending
  <2>4. CASE MoveLocked(t)
    BY <2>4 DEF MoveLocked
  <2>5. CASE MoveFailed(t)
    BY <2>5 DEF MoveFailed
  <2>6. CASE ResizeLocal(t)
    BY <2>6 DEF ResizeLocal
  <2>7. CASE ConsumeLocked(t)
    BY <2>7 DEF ConsumeLocked
  <2>8. CASE ConsumeFailed(t)
    BY <2>8 DEF ConsumeFailed
  <2>9. CASE RunTask(t)
    <3>1. consumed[t] \in Nat /\ Len(tasks[Other(t)]) \in Nat
      BY LenProperties
    <3>2. consumed[t] + 1 <= Len(tasks[Other(t)])
      BY <2>9, <3>1 DEF RunTask, MoreToRun
    <3>3. QED
      BY <2>9, <3>2 DEF RunTask
  <2>10. CASE EraseAndUnlock(t)
    BY <2>10 DEF EraseAndUnlock
  <2>11. QED
    BY <1>2, <2>2, <2>3, <2>4, <2>5, <2>6, <2>7, <2>8, <2>9, <2>10 DEF Step
<1>3. ASSUME UNCHANGED vars
      PROVE  WorkInv'
  BY <1>1, <1>3 DEF vars, WorkInv, AtWork
<1>4. QED
  BY <1>1, <1>2, <1>3 DEF Next, WorkInv

LEMMA WorkInit == Init => WorkInv
  BY TypeInit, Others DEF Init, WorkInv, AtWork

-----------------------------------------------------------------------------
(* The refinement of TaskFifo.                                             *)

LEMMA PendingType ==
  ASSUME TypeOK, NEW q \in Threads
  PROVE  Shared(q) \in Seq(Nat) /\ Unmoved(q) \in Seq(Nat) /\ Pending(q) \in Seq(Nat)
<1>1. Other(q) \in Threads
  BY Others
<1>2. Shared(q) \in Seq(Nat)
  <2>1. SubSeq(tasks[q], consumed[Other(q)] + 1, Len(tasks[q])) \in Seq(Nat)
    <3>1. tasks[q] \in Seq(Nat) /\ consumed[Other(q)] \in Nat
      BY <1>1 DEF TypeOK
    <3>2. QED
      BY <3>1, RestType
  <2>2. QED
    BY <2>1 DEF Shared, TypeOK
<1>3. Unmoved(q) \in Seq(Nat)
  BY DEF Unmoved, TypeOK
<1>4. QED
  BY <1>2, <1>3, ConcatProperties DEF Pending

LEMMA AppendLast ==
  ASSUME NEW s \in Seq(Nat), NEW t \in Seq(Nat), NEW n \in Nat
  PROVE  s \o Append(t, n) = Append(s \o t, n)
<1>1. s \o t \in Seq(Nat) /\ <<n>> \in Seq(Nat)
  BY ConcatProperties
<1>2. Append(t, n) = t \o <<n>> /\ Append(s \o t, n) = (s \o t) \o <<n>>
  BY <1>1, AppendIsConcat
<1>3. (s \o t) \o <<n>> = s \o (t \o <<n>>)
  BY <1>1, Associative
<1>4. QED
  BY <1>2, <1>3

\* What a thread does when it appends a task: outside TryConsumeTasks, or in a
\* task it runs.
LEMMA AppendPosts ==
  ASSUME TypeOK, NEW t \in Threads, Appended(t), pc[t] # "moved", pc'[t] # "moved"
  PROVE  /\ Unmoved(t)' = Append(Unmoved(t), posted[t] + 1)
         /\ Unmoved(Other(t))' = IF pc'[Other(t)] = "moved" THEN <<>>
                                 ELSE localTasks[Other(t)]
         /\ posted' = [posted EXCEPT ![t] = @ + 1]
  BY Others DEF Appended, Unmoved, TypeOK

LEMMA GotoFacts ==
  ASSUME TypeOK, NEW t \in Threads, NEW from, NEW to, Goto(t, from, to)
  PROVE  pc[t] = from /\ pc'[t] = to /\ \A u \in Threads \ {t} : pc'[u] = pc[u]
  BY DEF Goto, TypeOK

\* What is still to run of a queue changes with its lists and with where its
\* consumer is.
LEMMA SharedSame ==
  ASSUME NEW q \in Threads, tasks'[q] = tasks[q],
         pc'[Other(q)] # "run", pc[Other(q)] # "run"
  PROVE  Shared(q)' = Shared(q)
  BY DEF Shared

LEMMA SharedSameRun ==
  ASSUME NEW q \in Threads, tasks'[q] = tasks[q],
         pc'[Other(q)] = pc[Other(q)], consumed'[Other(q)] = consumed[Other(q)]
  PROVE  Shared(q)' = Shared(q)
  BY DEF Shared

LEMMA UnmovedSame ==
  ASSUME NEW q \in Threads, localTasks'[q] = localTasks[q],
         pc'[q] = pc[q] \/ (pc'[q] # "moved" /\ pc[q] # "moved")
  PROVE  Unmoved(q)' = Unmoved(q)
  BY DEF Unmoved

\* Each step of a tick posts a task, runs one, does both, or is no step of the
\* channels.  The thread is t, and q the queue it consumes from.
LEMMA StepImplements ==
  ASSUME WorkInv, NEW t \in Threads, Step(t),
         NEW q \in Threads, q = Other(t), t = Other(q), q # t
  PROVE  \/ Fifo!Post(t) \/ Fifo!Run(q) \/ Fifo!RunAndAnswer(q, t)
         \/ UNCHANGED Fifo!vars
<1>1. (\A u \in Threads : u = t \/ u = q) /\ Free \notin Threads
  BY Others DEF Free, Threads
<1>2. TypeOK /\ AtWork(t) /\ AtWork(q)
  BY DEF WorkInv
<1>3. /\ Shared(t) \in Seq(Nat) /\ Unmoved(t) \in Seq(Nat) /\ Pending(t) \in Seq(Nat)
      /\ Shared(q) \in Seq(Nat) /\ Unmoved(q) \in Seq(Nat) /\ Pending(q) \in Seq(Nat)
  BY <1>2, PendingType
<1>4. ASSUME UNCHANGED <<posted, executed>>,
             Pending(t)' = Pending(t), Pending(q)' = Pending(q)
      PROVE  UNCHANGED Fifo!vars
  BY <1>1, <1>4 DEF Fifo!vars
<1>5. ASSUME NEW from, NEW to, Goto(t, from, to)
      PROVE  pc[t] = from /\ pc'[t] = to /\ pc'[q] = pc[q]
  BY <1>2, <1>5, GotoFacts
<1>6. CASE AppendLocalTask(t)
  <2>1. pc'[t] = "append" /\ pc[t] = "append" /\ pc'[q] = pc[q]
    BY <1>6 DEF AppendLocalTask
  <2>2. Shared(q)' = Shared(q) /\ Shared(t)' = Shared(t)
    BY <1>6, <2>1, SharedSameRun DEF AppendLocalTask
  <2>3. Unmoved(q)' = Unmoved(q)
    BY <1>2, <1>6, <2>1, UnmovedSame DEF AppendLocalTask, Appended, TypeOK
  <2>4. Unmoved(t)' = Append(Unmoved(t), posted[t] + 1)
    BY <1>2, <1>6, <2>1, AppendPosts DEF AppendLocalTask
  <2>5. Pending(t)' = Append(Pending(t), posted[t] + 1) /\ Pending(q)' = Pending(q)
    <3>1. posted[t] + 1 \in Nat
      BY <1>2, TaskQueueAssumption DEF TypeOK
    <3>2. Pending(t)' = Shared(t) \o Append(Unmoved(t), posted[t] + 1)
      BY <2>2, <2>4 DEF Pending
    <3>3. Shared(t) \o Append(Unmoved(t), posted[t] + 1) =
            Append(Shared(t) \o Unmoved(t), posted[t] + 1)
      BY <1>3, <3>1, AppendLast
    <3>4. QED
      BY <2>2, <2>3, <3>2, <3>3 DEF Pending
  <2>6. posted' = [posted EXCEPT ![t] = @ + 1] /\ executed' = executed
    BY <1>6 DEF AppendLocalTask, Appended
  <2>7. QED
    BY <1>1, <2>5, <2>6 DEF Fifo!Post
<1>7. CASE StopAppending(t)
  <2>1. pc[t] = "append" /\ pc'[t] = "move" /\ pc'[q] = pc[q]
    BY <1>5, <1>7 DEF StopAppending
  <2>2. Shared(t)' = Shared(t) /\ Shared(q)' = Shared(q)
    BY <1>7, <2>1, SharedSame, SharedSameRun DEF StopAppending
  <2>3. Unmoved(t)' = Unmoved(t) /\ Unmoved(q)' = Unmoved(q)
    BY <1>7, <2>1, UnmovedSame DEF StopAppending
  <2>4. QED
    BY <1>4, <1>7, <2>2, <2>3 DEF StopAppending, Pending
<1>8. CASE MoveLocked(t)
  <2>1. pc[t] = "move" /\ pc'[t] = "moved" /\ pc'[q] = pc[q]
    BY <1>5, <1>8 DEF MoveLocked
  <2>2. pc[q] # "run"
    BY <1>1, <1>2, <1>8 DEF MoveLocked, AtWork
  <2>3. tasks'[t] = tasks[t] \o localTasks[t] /\ tasks'[q] = tasks[q]
    BY <1>2, <1>8 DEF MoveLocked, TypeOK
  <2>4. Shared(q)' = Shared(q) /\ Unmoved(q)' = Unmoved(q)
    BY <1>8, <2>1, <2>3, SharedSame, UnmovedSame DEF MoveLocked
  <2>5. Shared(t)' = Shared(t) \o Unmoved(t) /\ Unmoved(t)' = <<>>
    BY <2>1, <2>2, <2>3 DEF Shared, Unmoved
  <2>6. Pending(t)' = Pending(t)
    BY <1>3, <2>5, ConcatEmptySeq DEF Pending
  <2>7. QED
    BY <1>4, <1>8, <2>4, <2>6 DEF MoveLocked, Pending
<1>9. CASE MoveFailed(t)
  <2>1. pc[t] = "move" /\ pc'[t] = "tick" /\ pc'[q] = pc[q]
    BY <1>5, <1>9 DEF MoveFailed
  <2>2. Shared(t)' = Shared(t) /\ Shared(q)' = Shared(q)
    BY <1>9, <2>1, SharedSame, SharedSameRun DEF MoveFailed
  <2>3. Unmoved(t)' = Unmoved(t) /\ Unmoved(q)' = Unmoved(q)
    BY <1>9, <2>1, UnmovedSame DEF MoveFailed
  <2>4. QED
    BY <1>4, <1>9, <2>2, <2>3 DEF MoveFailed, Pending
<1>10. CASE ResizeLocal(t)
  <2>1. pc[t] = "moved" /\ pc'[t] = "tick" /\ pc'[q] = pc[q]
    BY <1>5, <1>10 DEF ResizeLocal
  <2>2. Shared(t)' = Shared(t) /\ Shared(q)' = Shared(q)
    BY <1>10, <2>1, SharedSame, SharedSameRun DEF ResizeLocal
  <2>3. localTasks'[t] = <<>> /\ localTasks'[q] = localTasks[q]
    BY <1>2, <1>10 DEF ResizeLocal, TypeOK
  <2>4. Unmoved(t)' = Unmoved(t) /\ Unmoved(q)' = Unmoved(q)
    BY <2>1, <2>3 DEF Unmoved
  <2>5. QED
    BY <1>4, <1>10, <2>2, <2>4 DEF ResizeLocal, Pending
<1>11. CASE ConsumeLocked(t)
  <2>1. pc[t] = "tick" /\ pc'[t] = "run" /\ pc'[q] = pc[q]
    BY <1>5, <1>11 DEF ConsumeLocked
  <2>2. consumed'[t] = 0 /\ consumed'[q] = consumed[q]
    BY <1>2, <1>11 DEF ConsumeLocked, TypeOK
  <2>3. Shared(t)' = Shared(t)
    BY <1>11, <2>1, <2>2, SharedSameRun DEF ConsumeLocked
  <2>4. Shared(q)' = Shared(q)
    <3>1. Shared(q)' = SubSeq(tasks[q], 1, Len(tasks[q])) /\ Shared(q) = tasks[q]
      BY <1>11, <2>1, <2>2 DEF ConsumeLocked, Shared
    <3>2. QED
      BY <1>3, <3>1, SubSeqFull
  <2>5. Unmoved(t)' = Unmoved(t) /\ Unmoved(q)' = Unmoved(q)
    BY <1>11, <2>1, UnmovedSame DEF ConsumeLocked
  <2>6. QED
    BY <1>4, <1>11, <2>3, <2>4, <2>5 DEF ConsumeLocked, Pending
<1>12. CASE ConsumeFailed(t)
  <2>1. pc[t] = "tick" /\ pc'[t] = "append" /\ pc'[q] = pc[q]
    BY <1>5, <1>12 DEF ConsumeFailed
  <2>2. Shared(t)' = Shared(t) /\ Shared(q)' = Shared(q)
    BY <1>12, <2>1, SharedSame, SharedSameRun DEF ConsumeFailed
  <2>3. Unmoved(t)' = Unmoved(t) /\ Unmoved(q)' = Unmoved(q)
    BY <1>12, <2>1, UnmovedSame DEF ConsumeFailed
  <2>4. QED
    BY <1>4, <1>12, <2>2, <2>3 DEF ConsumeFailed, Pending
<1>13. CASE RunTask(t)
  <2> DEFINE c == consumed[t]
  <2>1. pc[t] = "run" /\ pc' = pc /\ consumed'[t] = c + 1 /\ consumed'[q] = consumed[q]
    BY <1>2, <1>13 DEF RunTask, TypeOK
  <2>2. c \in 0 .. Len(tasks[q]) - 1 /\ tasks[q] \in Seq(Nat)
    <3>1. c \in Nat /\ tasks[q] \in Seq(Nat)
      BY <1>2 DEF TypeOK
    <3>2. c < Len(tasks[q]) /\ Len(tasks[q]) \in Nat
      BY <1>13, <3>1, LenProperties DEF RunTask, MoreToRun
    <3>3. QED
      BY <3>1, <3>2
  <2>3. /\ Shared(q) = SubSeq(tasks[q], c + 1, Len(tasks[q]))
        /\ Shared(q)' = SubSeq(tasks[q], c + 2, Len(tasks[q]))
    <3>1. c + 1 + 1 = c + 2
      BY <2>2
    <3>2. QED
      BY <1>13, <2>1, <3>1 DEF RunTask, Shared
  <2>4. Shared(t)' = Shared(t)
    BY <1>13, <2>1, SharedSameRun DEF RunTask
  <2>5. localTasks'[q] = localTasks[q]
    BY <1>2, <1>13 DEF RunTask, Appended, TypeOK
  <2>6. Unmoved(q)' = Unmoved(q)
    BY <2>1, <2>5 DEF Unmoved
  <2>7. /\ Pending(q) # <<>> /\ Head(Pending(q)) = tasks[q][c + 1]
        /\ Pending(q)' = Tail(Pending(q))
    <3>1. /\ Pending(q) = SubSeq(tasks[q], c + 1, Len(tasks[q])) \o Unmoved(q)
          /\ Pending(q)' = SubSeq(tasks[q], c + 2, Len(tasks[q])) \o Unmoved(q)
      BY <2>3, <2>6 DEF Pending
    <3> DEFINE l == tasks[q]
               u == Unmoved(q)
    <3>2. l \in Seq(Nat) /\ u \in Seq(Nat) /\ c \in 0 .. Len(l) - 1
      BY <1>3, <2>2
    <3> HIDE DEF c, l, u
    <3>3. /\ SubSeq(l, c + 1, Len(l)) \o u # <<>>
          /\ Head(SubSeq(l, c + 1, Len(l)) \o u) = l[c + 1]
          /\ Tail(SubSeq(l, c + 1, Len(l)) \o u) = SubSeq(l, c + 2, Len(l)) \o u
      BY <3>2, TakeNext
    <3>4. QED
      BY <3>1, <3>3 DEF l, u
  <2>8. executed' = [executed EXCEPT ![q] = Append(@, Head(Pending(q)))]
    BY <1>13, <2>7 DEF RunTask
  <2>9. CASE UNCHANGED <<posted, localTasks>>
    <3>1. Pending(t)' = Pending(t)
      BY <2>1, <2>4, <2>9 DEF Pending, Unmoved
    <3>2. QED
      BY <1>1, <2>7, <2>8, <2>9, <3>1 DEF Fifo!Run
  <2>10. CASE Appended(t)
    <3>1. Unmoved(t)' = Append(Unmoved(t), posted[t] + 1)
      BY <1>2, <2>1, <2>10, AppendPosts
    <3>2. posted[t] + 1 \in Nat
      BY <1>2, TaskQueueAssumption DEF TypeOK
    <3>3. Pending(t)' = Append(Pending(t), posted[t] + 1)
      <4>1. Shared(t) \o Append(Unmoved(t), posted[t] + 1) =
              Append(Shared(t) \o Unmoved(t), posted[t] + 1)
        BY <1>3, <3>2, AppendLast
      <4>2. QED
        BY <2>4, <3>1, <4>1 DEF Pending
    <3>4. posted' = [posted EXCEPT ![t] = @ + 1]
      BY <2>10 DEF Appended
    <3>5. QED
      BY <1>1, <2>7, <2>8, <3>3, <3>4 DEF Fifo!RunAndAnswer
  <2>11. QED
    BY <1>13, <2>9, <2>10 DEF RunTask
<1>14. CASE EraseAndUnlock(t)
  <2>1. pc[t] = "run" /\ pc'[t] = "append" /\ pc'[q] = pc[q]
    BY <1>5, <1>14 DEF EraseAndUnlock
  <2>2. /\ tasks'[q] = SubSeq(tasks[q], consumed[t] + 1, Len(tasks[q]))
        /\ tasks'[t] = tasks[t]
    BY <1>2, <1>14 DEF EraseAndUnlock, Left, TypeOK
  <2>3. Shared(t)' = Shared(t)
    BY <1>14, <2>1, <2>2, SharedSameRun DEF EraseAndUnlock
  <2>4. Shared(q)' = Shared(q)
    BY <2>1, <2>2 DEF Shared
  <2>5. Unmoved(t)' = Unmoved(t) /\ Unmoved(q)' = Unmoved(q)
    BY <1>14, <2>1, UnmovedSame DEF EraseAndUnlock
  <2>6. QED
    BY <1>4, <1>14, <2>3, <2>4, <2>5 DEF EraseAndUnlock, Pending
<1>15. QED
  BY <1>6, <1>7, <1>8, <1>9, <1>10, <1>11, <1>12, <1>13, <1>14 DEF Step

LEMMA InitImplements == Init => Fifo!Init
<1> SUFFICES ASSUME Init PROVE Fifo!Init
  OBVIOUS
<1>1. ASSUME NEW q \in Threads
      PROVE  Pending(q) = <<>>
  <2>1. Shared(q) = <<>> /\ Unmoved(q) = <<>>
    BY Others DEF Init, Shared, Unmoved
  <2>2. QED
    BY <2>1 DEF Pending
<1>2. QED
  BY <1>1 DEF Init, Fifo!Init

LEMMA NextImplements == WorkInv /\ [Next]_vars => [Fifo!Next]_(Fifo!vars)
<1> SUFFICES ASSUME WorkInv, [Next]_vars PROVE [Fifo!Next]_(Fifo!vars)
  OBVIOUS
<1>1. CASE UNCHANGED vars
  BY <1>1 DEF vars, Fifo!vars, Pending, Shared, Unmoved
<1>2. CASE Next
  BY <1>2, StepImplements, Others DEF Next, Fifo!Next
<1>3. QED
  BY <1>1, <1>2

\* The two TaskQueues implement two first-in first-out channels, whatever the
\* order of the ticks and however often a try_lock fails.
THEOREM ImplementsFifo == Spec => FifoSpec
<1>1. WorkInv /\ [Next]_vars => WorkInv'
  BY WorkStep
<1>2. QED
  BY <1>1, WorkInit, InitImplements, NextImplements, PTL DEF Spec, FifoSpec, Fifo!Spec

-----------------------------------------------------------------------------
(* An invariant of the channels, and so of the queues.                     *)

Numbered == \A q \in Threads : executed[q] \o Pending(q) = UpTo(posted[q])

LEMMA NumberedPost ==
  ASSUME NEW t \in Threads, posted[t] \in Nat,
         executed[t] \in Seq(Nat), Pending(t) \in Seq(Nat),
         executed[t] \o Pending(t) = UpTo(posted[t]),
         executed'[t] = executed[t], posted'[t] = posted[t] + 1,
         Pending(t)' = Append(Pending(t), posted[t] + 1)
  PROVE  (executed[t] \o Pending(t) = UpTo(posted[t]))'
<1>1. executed[t] \o Append(Pending(t), posted[t] + 1) = UpTo(posted[t] + 1)
  BY AppendNext
<1>2. QED
  BY <1>1 DEF UpTo

LEMMA SplitHead ==
  ASSUME NEW s \in Seq(Nat), s # <<>>
  PROVE  s = <<Head(s)>> \o Tail(s)
<1>1. Len(s) \in Nat \ {0}
  BY EmptySeq
<1>2. 1 \in 1 .. Len(s) /\ Len(s) \in 1 .. Len(s)
  BY <1>1
<1>3. SubSeq(s, 1, Len(s)) = <<s[1]>> \o SubSeq(s, 1 + 1, Len(s))
  BY <1>2, SubSeqRecursiveFirst
<1>4. SubSeq(s, 1, Len(s)) = s
  BY SubSeqFull
<1>5. Tail(s) = SubSeq(s, 2, Len(s))
  BY TailIsSubSeq
<1>6. Head(s) = s[1]
  OBVIOUS
<1>7. 1 + 1 = 2
  OBVIOUS
<1>8. QED
  BY <1>3, <1>4, <1>5, <1>6, <1>7, Zenon

LEMMA Reassociate ==
  ASSUME NEW e \in Seq(Nat), NEW h \in Nat, NEW s \in Seq(Nat)
  PROVE  e \o (<<h>> \o s) = Append(e, h) \o s
<1>1. <<h>> \in Seq(Nat)
  OBVIOUS
<1>2. Append(e, h) = e \o <<h>>
  BY AppendIsConcat
<1>3. (e \o <<h>>) \o s = e \o (<<h>> \o s)
  BY <1>1, Associative
<1>4. QED
  BY <1>2, <1>3, Zenon

LEMMA MoveHead ==
  ASSUME NEW e \in Seq(Nat), NEW s \in Seq(Nat), s # <<>>
  PROVE  e \o s = Append(e, Head(s)) \o Tail(s)
<1>1. Head(s) \in Nat /\ Tail(s) \in Seq(Nat)
  BY HeadTailProperties
<1>2. s = <<Head(s)>> \o Tail(s)
  BY SplitHead
<1>3. e \o (<<Head(s)>> \o Tail(s)) = Append(e, Head(s)) \o Tail(s)
  BY <1>1, Reassociate
<1>4. QED
  BY <1>2, <1>3, Zenon

LEMMA NumberedRun ==
  ASSUME NEW q \in Threads,
         executed[q] \in Seq(Nat), Pending(q) \in Seq(Nat), Pending(q) # <<>>,
         executed[q] \o Pending(q) = UpTo(posted[q]),
         executed'[q] = Append(executed[q], Head(Pending(q))),
         posted'[q] = posted[q], Pending(q)' = Tail(Pending(q))
  PROVE  (executed[q] \o Pending(q) = UpTo(posted[q]))'
<1>1. executed[q] \o Pending(q) = Append(executed[q], Head(Pending(q))) \o Tail(Pending(q))
  BY MoveHead
<1>2. UpTo(posted[q])' = UpTo(posted[q])
  BY DEF UpTo
<1>3. QED
  BY <1>1, <1>2

FifoInv == WorkInv /\ Numbered

LEMMA FifoStep ==
  ASSUME FifoInv, [Next]_vars
  PROVE  Numbered'
<1>1. WorkInv /\ TypeOK /\ Numbered
  BY DEF FifoInv, WorkInv
<1>2. ASSUME NEW u \in Threads
      PROVE  posted[u] \in Nat /\ executed[u] \in Seq(Nat) /\ Pending(u) \in Seq(Nat)
  BY <1>1, PendingType, TaskQueueAssumption DEF TypeOK
<1>3. \A u \in Threads : executed[u] \o Pending(u) = UpTo(posted[u])
  BY <1>1 DEF Numbered
<1>4. DOMAIN posted = Threads /\ DOMAIN executed = Threads
  BY <1>1 DEF TypeOK
<1>5. ASSUME NEW p \in Threads, Fifo!Post(p), NEW u \in Threads
      PROVE  (executed[u] \o Pending(u) = UpTo(posted[u]))'
  <2>1. CASE u = p
    BY <1>2, <1>3, <1>4, <1>5, <2>1, NumberedPost DEF Fifo!Post
  <2>2. CASE u # p
    BY <1>3, <1>4, <1>5, <2>2 DEF Fifo!Post
  <2>3. QED
    BY <2>1, <2>2
<1>6. ASSUME NEW p \in Threads, Fifo!Run(p), NEW u \in Threads
      PROVE  (executed[u] \o Pending(u) = UpTo(posted[u]))'
  <2>1. CASE u = p
    BY <1>2, <1>3, <1>4, <1>6, <2>1, NumberedRun DEF Fifo!Run
  <2>2. CASE u # p
    BY <1>3, <1>4, <1>6, <2>2 DEF Fifo!Run
  <2>3. QED
    BY <2>1, <2>2
<1>7. ASSUME NEW p \in Threads, NEW r \in Threads, Fifo!RunAndAnswer(p, r),
             NEW u \in Threads
      PROVE  (executed[u] \o Pending(u) = UpTo(posted[u]))'
  <2>1. CASE u = p
    BY <1>2, <1>3, <1>4, <1>7, <2>1, NumberedRun DEF Fifo!RunAndAnswer
  <2>2. CASE u = r
    BY <1>2, <1>3, <1>4, <1>7, <2>2, NumberedPost DEF Fifo!RunAndAnswer
  <2>3. CASE u # p /\ u # r
    BY <1>3, <1>4, <1>7, <2>3 DEF Fifo!RunAndAnswer
  <2>4. QED
    BY <2>1, <2>2, <2>3
<1>8. ASSUME UNCHANGED Fifo!vars, NEW u \in Threads
      PROVE  (executed[u] \o Pending(u) = UpTo(posted[u]))'
  <2>1. Pending(u)' = Pending(u) /\ executed' = executed /\ posted' = posted
    BY <1>8 DEF Fifo!vars
  <2>2. QED
    BY <1>3, <2>1
<1>9. Fifo!Next \/ UNCHANGED Fifo!vars
  BY <1>1, NextImplements
<1>10. QED
  BY <1>5, <1>6, <1>7, <1>8, <1>9 DEF Numbered, Fifo!Next

\* No task is lost, run twice or overtaken.  The argument is TaskFifo's: a step
\* of the queues is one of the channels, and those keep the numbers in order.
THEOREM ExactlyOnce == Spec => []FifoExactlyOnce
<1>1. Init => FifoInv
  <2> SUFFICES ASSUME Init PROVE FifoInv
    OBVIOUS
  <2>1. ASSUME NEW q \in Threads
        PROVE  executed[q] \o Pending(q) = UpTo(posted[q])
    <3>1. Shared(q) = <<>> /\ Unmoved(q) = <<>> /\ executed[q] = <<>>
      BY Others DEF Init, Shared, Unmoved
    <3>2. UpTo(0) = <<>> /\ posted[q] = 0
      BY DEF Init, UpTo
    <3>3. QED
      BY <3>1, <3>2 DEF Pending
  <2>2. QED
    BY <2>1, WorkInit DEF FifoInv, Numbered
<1>2. FifoInv /\ [Next]_vars => FifoInv'
  BY WorkStep, FifoStep DEF FifoInv
<1>3. FifoInv => FifoExactlyOnce
  BY DEF FifoInv, Numbered, FifoExactlyOnce, UpTo
<1>4. QED
  BY <1>1, <1>2, <1>3, PTL DEF Spec

=============================================================================
