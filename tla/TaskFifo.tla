------------------------------ MODULE TaskFifo ------------------------------
(***************************************************************************)
(* What a pair of TaskQueues promises to the two threads that talk through *)
(* it: each direction is a first-in first-out channel that runs every      *)
(* posted task once.  Tasks are numbered in the order they are posted.     *)
(***************************************************************************)
EXTENDS Naturals, Sequences

CONSTANT Threads  \* a channel is named after the thread that posts on it

VARIABLES
  posted,    \* number of tasks posted on each channel
  pending,   \* tasks posted and not yet run
  executed   \* tasks run, in the order they ran

vars == <<posted, pending, executed>>

Init ==
  /\ posted = [q \in Threads |-> 0]
  /\ pending = [q \in Threads |-> <<>>]
  /\ executed = [q \in Threads |-> <<>>]

Post(q) ==
  /\ posted' = [posted EXCEPT ![q] = @ + 1]
  /\ pending' = [pending EXCEPT ![q] = Append(@, posted[q] + 1)]
  /\ UNCHANGED executed

Run(q) ==
  /\ pending[q] # <<>>
  /\ executed' = [executed EXCEPT ![q] = Append(@, Head(pending[q]))]
  /\ pending' = [pending EXCEPT ![q] = Tail(@)]
  /\ UNCHANGED posted

\* A task that posts an answer on the other channel while it runs.
RunAndAnswer(q, r) ==
  /\ q # r
  /\ pending[q] # <<>>
  /\ executed' = [executed EXCEPT ![q] = Append(@, Head(pending[q]))]
  /\ posted' = [posted EXCEPT ![r] = @ + 1]
  /\ pending' = [pending EXCEPT ![q] = Tail(@),
                                ![r] = Append(@, posted[r] + 1)]

Next == \E q \in Threads : \/ Post(q)
                           \/ Run(q)
                           \/ \E r \in Threads : RunAndAnswer(q, r)

Spec == Init /\ [][Next]_vars
=============================================================================
