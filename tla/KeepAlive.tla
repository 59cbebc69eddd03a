----------------------------- MODULE KeepAlive ------------------------------
(***************************************************************************)
(* How the server decides that a client is gone: last_seen_time_point,     *)
(* ping_reminder and check_disconnected (core/net/server.cpp), the client's *)
(* answer to PingRequest (core/net/client.cpp), and time.  One client, and *)
(* one entry of the server for it.  Time is counted in units; the client   *)
(* may crash at any moment and be started again.                           *)
(***************************************************************************)
EXTENDS Integers

CONSTANTS
  connectionPing, connectionTimeout,   \* cfg networking settings
  MaxGap,     \* longest time between two check_disconnected of the server
  MaxDelay    \* longest time from sending a message to handling it

\* A ping is answered before connectionPing (4 s by default) is over.
ASSUME KeepAliveAssumption ==
  /\ connectionPing \in Nat /\ connectionTimeout \in Nat
  /\ MaxGap \in Nat /\ MaxGap >= 1
  /\ MaxDelay \in Nat
  /\ 2 * MaxDelay <= connectionPing

\* The settings, the server's ticks and the network are such that a ping sent
\* in time is answered in time.
InTime ==
  /\ MaxGap <= connectionPing
  /\ connectionPing + MaxGap + 2 * MaxDelay <= connectionTimeout

Nothing == -1    \* no such message in flight

VARIABLES
  connected,       \* the entry has peers
  elapsed,         \* time since last_seen_time_point
  ping_reminder,
  sinceCheck,      \* time since the last check_disconnected
  request,         \* age of the PingRequest in flight
  reply,           \* age of the PingReply in flight
  alive,           \* the client process runs
  pings            \* history: PingRequests since last_seen_time_point

vars == <<connected, elapsed, ping_reminder, sinceCheck, request, reply, alive,
          pings>>

Older(age) == IF age = Nothing THEN Nothing ELSE age + 1

MaxElapsed == connectionTimeout + MaxGap + 1   \* bound: time counted

Pass ==
  /\ connected
  /\ sinceCheck < MaxGap
  /\ request < MaxDelay /\ reply < MaxDelay
  /\ elapsed' = IF elapsed < MaxElapsed THEN elapsed + 1 ELSE elapsed
  /\ sinceCheck' = sinceCheck + 1
  /\ request' = Older(request)
  /\ reply' = Older(reply)
  /\ UNCHANGED <<connected, ping_reminder, alive, pings>>

\* last_seen_time_point = time_now.
Seen ==
  /\ elapsed' = 0
  /\ pings' = 0

\* Anything else the client says: signals, LatencyTelemetry.
HandleSignal ==
  /\ connected
  /\ alive
  /\ Seen
  /\ UNCHANGED <<connected, ping_reminder, sinceCheck, request, reply, alive>>

AnswerPing ==
  /\ alive
  /\ request # Nothing
  /\ reply = Nothing
  /\ request' = Nothing
  /\ reply' = 0
  /\ UNCHANGED <<connected, elapsed, ping_reminder, sinceCheck, alive, pings>>

HandlePingReply ==
  /\ connected
  /\ reply # Nothing
  /\ Seen
  /\ reply' = Nothing
  /\ UNCHANGED <<connected, ping_reminder, sinceCheck, request, alive>>

\* The pinger's flag after a check: reset by a timely signal, set with a ping.
\* The variants never reset it, and reset it in every check.
ReminderKept == ping_reminder \/ elapsed > connectionPing
ReminderReset == FALSE
Reminder == elapsed > connectionPing

PingNow == elapsed > connectionPing /\ ~ping_reminder

\* The variants drop the client when it should be pinged, and only if it was not.
ExpiredAtPing == elapsed > connectionPing
ExpiredUnpinged == elapsed > connectionTimeout /\ ~ping_reminder
Expired == elapsed > connectionTimeout

\* A ping request queued on a peer that is reset in the same check is dropped.
CheckDisconnected ==
  /\ connected
  /\ sinceCheck > 0
  /\ sinceCheck' = 0
  /\ ping_reminder' = Reminder
  /\ connected' = ~Expired
  /\ request' = IF PingNow /\ ~Expired /\ alive THEN 0 ELSE request
  /\ pings' = IF PingNow /\ ~Expired THEN pings + 1 ELSE pings
  /\ UNCHANGED <<elapsed, reply, alive>>

\* The process ends; what it sent still arrives, or does not.
Crash ==
  /\ alive
  /\ alive' = FALSE
  /\ request' = Nothing
  /\ reply' \in {reply, Nothing}
  /\ UNCHANGED <<connected, elapsed, ping_reminder, sinceCheck, pings>>

\* NewConnection of a new run of the client, on the entry it had, at any time
\* between two checks.
Reconnect ==
  /\ ~alive
  /\ alive' = TRUE
  /\ connected' = TRUE
  /\ ping_reminder' = FALSE
  /\ Seen
  /\ request' = Nothing /\ reply' = Nothing
  /\ sinceCheck' \in IF connected THEN {sinceCheck} ELSE 0 .. MaxGap

Init ==
  /\ connected = TRUE
  /\ elapsed = 0
  /\ ping_reminder = FALSE
  /\ sinceCheck \in 0 .. MaxGap
  /\ request = Nothing
  /\ reply = Nothing
  /\ alive = TRUE
  /\ pings = 0

Next ==
  \/ Pass \/ HandleSignal \/ AnswerPing \/ HandlePingReply
  \/ CheckDisconnected \/ Crash \/ Reconnect

Spec == Init /\ [][Next]_vars

\* Time passes, the server ticks, and nothing waits longer than MaxDelay.
FairSpec ==
  /\ Spec
  /\ WF_vars(Pass) /\ WF_vars(CheckDisconnected)
  /\ WF_vars(AnswerPing) /\ WF_vars(HandlePingReply)

-----------------------------------------------------------------------------
\* Types; the entry of a silent client is not kept for longer than the timeout
\* and one gap.
TypeOK ==
  /\ connected \in BOOLEAN /\ alive \in BOOLEAN /\ ping_reminder \in BOOLEAN
  /\ elapsed \in 0 .. connectionTimeout + MaxGap
  /\ sinceCheck \in 0 .. MaxGap
  /\ request \in Nothing .. MaxDelay
  /\ reply \in Nothing .. MaxDelay
  /\ pings \in 0 .. 1

\* A client that runs is not disconnected however little it has to say, if the
\* settings leave the time for a ping and its answer.
LiveClientStays == InTime /\ alive => connected

\* The server disconnects a client for inactivity only after it has pinged it in
\* the same silence ("if the client is about to timeout ... send a ping request"),
\* in an earlier check.
PingBeforeTimeout == [][connected /\ ~connected' => pings = 1]_vars

\* A client that crashed and does not come back is disconnected.
DeadClientGoes == ~alive ~> (~connected \/ alive)
=============================================================================
