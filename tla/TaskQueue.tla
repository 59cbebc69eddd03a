----------------------------- MODULE TaskQueue ------------------------------
(***************************************************************************)
(* TaskQueue (core/common/task_queue.cpp), used in pairs: the native       *)
(* plugin's thread and the media framework's (adapter's) thread each post  *)
(* tasks on a queue the other one consumes, in a tick that consumes input, *)
(* appends to the output queue's local list and tries to move that list to *)
(* the shared one.  A queue is named after the thread that posts on it.    *)
(* Tasks are numbered per queue in the order they are appended.            *)
(***************************************************************************)
EXTENDS Naturals, Sequences

CONSTANTS
  MaxTasksToConsume,   \* kMaxTasksToConsume
  MaxPosted            \* bound: tasks appended to each queue

ASSUME TaskQueueAssumption ==
  /\ MaxTasksToConsume \in Nat /\ MaxTasksToConsume >= 1
  /\ MaxPosted \in Nat

Threads == {"native", "adapter"}
Other(t) == IF t = "native" THEN "adapter" ELSE "native"
Free == "free"

VARIABLES
  mutex,       \* per queue: the thread holding it, or Free
  tasks,       \* the shared list of each queue
  localTasks,  \* the list only the posting thread touches
  posted,      \* number of tasks ever appended to each queue
  executed,    \* history: the tasks of each queue in the order they ran
  pc,          \* where each thread is in its tick
  consumed     \* tasks run so far by the thread's TryConsumeTasks

vars == <<mutex, tasks, localTasks, posted, executed, pc, consumed>>

Goto(t, from, to) ==
  /\ pc[t] = from
  /\ pc' = [pc EXCEPT ![t] = to]

\* localTasks and posted after thread t appends one task.
Appended(t) ==
  /\ posted[t] < MaxPosted
  /\ posted' = [posted EXCEPT ![t] = @ + 1]
  /\ localTasks' = [localTasks EXCEPT ![t] = Append(@, posted[t] + 1)]

AppendLocalTask(t) ==
  /\ pc[t] = "append"
  /\ Appended(t)
  /\ UNCHANGED <<mutex, tasks, executed, pc, consumed>>

StopAppending(t) ==
  /\ Goto(t, "append", "move")
  /\ UNCHANGED <<mutex, tasks, localTasks, posted, executed, consumed>>

-----------------------------------------------------------------------------
(* TryMoveLocalToShared: the lock is released before the local list is     *)
(* emptied.                                                                *)

MoveLocked(t) ==
  /\ Goto(t, "move", "moved")
  /\ mutex[t] = Free
  /\ tasks' = [tasks EXCEPT ![t] = @ \o localTasks[t]]
  /\ UNCHANGED <<mutex, localTasks, posted, executed, consumed>>

\* try_lock fails: the other thread holds the mutex, or for no reason.  The
\* variant empties the local list on this path too.
MoveFailedDrop(t) ==
  /\ Goto(t, "move", "tick")
  /\ localTasks' = [localTasks EXCEPT ![t] = <<>>]
  /\ UNCHANGED <<mutex, tasks, posted, executed, consumed>>
MoveFailed(t) ==
  /\ Goto(t, "move", "tick")
  /\ UNCHANGED <<mutex, tasks, localTasks, posted, executed, consumed>>

ResizeLocal(t) ==
  /\ Goto(t, "moved", "tick")
  /\ localTasks' = [localTasks EXCEPT ![t] = <<>>]
  /\ UNCHANGED <<mutex, tasks, posted, executed, consumed>>

-----------------------------------------------------------------------------
(* TryConsumeTasks by thread t, on the queue of the other thread.          *)

ConsumeLocked(t) ==
  /\ Goto(t, "tick", "run")
  /\ mutex[Other(t)] = Free
  /\ mutex' = [mutex EXCEPT ![Other(t)] = t]
  /\ consumed' = [consumed EXCEPT ![t] = 0]
  /\ UNCHANGED <<tasks, localTasks, posted, executed>>

ConsumeFailed(t) ==
  /\ Goto(t, "tick", "append")
  /\ UNCHANGED <<mutex, tasks, localTasks, posted, executed, consumed>>

\* The variant tests the bound after one task too many.
MoreToRunLate(t) ==
  consumed[t] <= MaxTasksToConsume /\ consumed[t] < Len(tasks[Other(t)])
MoreToRun(t) ==
  consumed[t] < MaxTasksToConsume /\ consumed[t] < Len(tasks[Other(t)])

\* A task may append to its thread's own output queue while it runs, as the
\* adapter's signal tasks do to record telemetry.
RunTask(t) ==
  /\ pc[t] = "run"
  /\ MoreToRun(t)
  /\ executed' = [executed EXCEPT ![Other(t)] =
                    Append(@, tasks[Other(t)][consumed[t] + 1])]
  /\ consumed' = [consumed EXCEPT ![t] = @ + 1]
  /\ Appended(t) \/ UNCHANGED <<posted, localTasks>>
  /\ UNCHANGED <<mutex, tasks, pc>>

\* What erase() leaves of the shared list; the variant empties it.
LeftClear(t) == <<>>
Left(t) == SubSeq(tasks[Other(t)], consumed[t] + 1, Len(tasks[Other(t)]))

EraseAndUnlock(t) ==
  /\ Goto(t, "run", "append")
  /\ ~MoreToRun(t)
  /\ tasks' = [tasks EXCEPT ![Other(t)] = Left(t)]
  /\ mutex' = [mutex EXCEPT ![Other(t)] = Free]
  /\ UNCHANGED <<localTasks, posted, executed, consumed>>

-----------------------------------------------------------------------------
Step(t) ==
  \/ AppendLocalTask(t) \/ StopAppending(t)
  \/ MoveLocked(t) \/ MoveFailed(t) \/ ResizeLocal(t)
  \/ ConsumeLocked(t) \/ ConsumeFailed(t) \/ RunTask(t) \/ EraseAndUnlock(t)

Init ==
  /\ mutex = [q \in Threads |-> Free]
  /\ tasks = [q \in Threads |-> <<>>]
  /\ localTasks = [q \in Threads |-> <<>>]
  /\ posted = [q \in Threads |-> 0]
  /\ executed = [q \in Threads |-> <<>>]
  /\ pc = [t \in Threads |-> "tick"]
  /\ consumed = [t \in Threads |-> 0]

Next == \E t \in Threads : Step(t)

Spec == Init /\ [][Next]_vars

\* Each thread keeps ticking and stops appending at some point of each tick.
\* A try_lock that finds the mutex free again and again does not fail every
\* time: the C++ memory model allows it, no implementation does it.
Fairness ==
  \A t \in Threads :
    /\ WF_vars(Step(t))
    /\ WF_vars(StopAppending(t))
    /\ SF_vars(MoveLocked(t))
    /\ SF_vars(ConsumeLocked(t))

FairSpec == Spec /\ Fairness

-----------------------------------------------------------------------------
\* Types of a TaskQueue's lists and of the two ticks.
TypeOK ==
  /\ mutex \in [Threads -> Threads \cup {Free}]
  /\ tasks \in [Threads -> Seq(Nat)]
  /\ localTasks \in [Threads -> Seq(Nat)]
  /\ posted \in [Threads -> 0 .. MaxPosted]
  /\ executed \in [Threads -> Seq(Nat)]
  /\ pc \in [Threads -> {"tick", "run", "append", "move", "moved"}]
  /\ consumed \in [Threads -> 0 .. MaxTasksToConsume]

\* Tasks of the shared list that have not run: TryConsumeTasks erases those it
\* ran only when it is done.
Shared(q) ==
  LET t == Other(q)
  IN  IF pc[t] = "run" THEN SubSeq(tasks[q], consumed[t] + 1, Len(tasks[q]))
                       ELSE tasks[q]

\* Tasks of the local list that are not on the shared one yet.
Unmoved(q) == IF pc[q] = "moved" THEN <<>> ELSE localTasks[q]

Pending(q) == Shared(q) \o Unmoved(q)

\* No task is lost, run twice or overtaken: the tasks that ran, followed by
\* those still queued, are the tasks appended, in order.
FifoExactlyOnce ==
  \A q \in Threads : executed[q] \o Pending(q) = [i \in 1 .. posted[q] |-> i]

\* The pair of queues implements two FIFO channels.
Fifo == INSTANCE TaskFifo WITH pending <- [q \in Threads |-> Pending(q)]
FifoSpec == Fifo!Spec

\* Every task appended is run at last, however often try_lock fails and
\* however the batches of MaxTasksToConsume cut the list, provided the ticks of
\* the two threads are not locked in phase: a thread that tries to move its
\* tasks in every tick does not find its consumer at work every time.
NotPhaseLocked == \A t \in Threads : []<>(pc[t] = "move" /\ mutex[t] = Free)
AllTasksRun == \A q \in Threads : \A n \in 1 .. MaxPosted :
                 posted[q] >= n ~> Len(executed[q]) >= n
EveryTaskRuns == NotPhaseLocked => AllTasksRun
=============================================================================
