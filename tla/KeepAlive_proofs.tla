-------------------------- MODULE KeepAlive_proofs --------------------------
(***************************************************************************)
(* Proofs about KeepAlive, for every setting of the timers.  TypeOK holds  *)
(* always; the two properties a user depends on hold InTime, that is when  *)
(* the timers leave a ping the time to be answered.                        *)
(***************************************************************************)
EXTENDS KeepAlive, TLAPS

\* What TypeOK needs to be inductive: the last check found the client in time,
\* and a client pinged in this silence is one the flag is set for.
SilenceBounded == connected => elapsed <= connectionTimeout + sinceCheck
PingedIsFlagged == pings = 1 => ping_reminder /\ elapsed > connectionPing

TypeInv == TypeOK /\ SilenceBounded /\ PingedIsFlagged

\* TypeOK in two halves, for the two kinds of prover.
Flags ==
  connected \in BOOLEAN /\ alive \in BOOLEAN /\ ping_reminder \in BOOLEAN
Counts ==
  /\ elapsed \in 0 .. connectionTimeout + MaxGap
  /\ sinceCheck \in 0 .. MaxGap
  /\ request \in Nothing .. MaxDelay
  /\ reply \in Nothing .. MaxDelay
  /\ pings \in 0 .. 1

\* Without the flag, the last check found the client within connectionPing; a
\* flag that is older than the silence will be reset by the next check.
UnflaggedIsRecent == ~ping_reminder => elapsed <= connectionPing + sinceCheck
StaleFlagIsRecent == ping_reminder /\ pings = 0 => elapsed <= sinceCheck

FlagInv == connected => UnflaggedIsRecent /\ StaleFlagIsRecent

\* A ping or its answer on the way, and how long ago the client was heard at
\* most: it was either sent in this silence, or the client was heard since.
RequestInv ==
  request >= 0 =>
    \/ elapsed <= request
    \/ /\ ping_reminder
       /\ elapsed > connectionPing + request
       /\ elapsed <= connectionPing + MaxGap + request
ReplyInv ==
  reply >= 0 =>
    \/ elapsed <= MaxDelay + reply
    \/ /\ ping_reminder
       /\ elapsed > connectionPing + reply
       /\ elapsed <= connectionPing + MaxGap + MaxDelay + reply
OneInFlight == request = Nothing \/ reply = Nothing
AnsweredIsRecent ==
  ping_reminder /\ request = Nothing /\ reply = Nothing => elapsed <= sinceCheck

PingInv ==
  alive => connected /\ RequestInv /\ ReplyInv /\ OneInFlight /\ AnsweredIsRecent

-----------------------------------------------------------------------------
\* The ranges and the two facts about the flag are inductive for any timers.
LEMMA TypeSplit == TypeOK <=> Flags /\ Counts
  BY DEF TypeOK, Flags, Counts

\* The flags stay Boolean.
LEMMA FlagsStep == Flags /\ [Next]_vars => Flags'
<1> SUFFICES ASSUME Flags, [Next]_vars PROVE Flags'
  OBVIOUS
<1> USE DEF Flags
<1>1. CASE Pass \/ HandleSignal \/ AnswerPing \/ HandlePingReply
  BY <1>1 DEF Pass, HandleSignal, AnswerPing, HandlePingReply
<1>2. CASE CheckDisconnected
  BY <1>2 DEF CheckDisconnected, Reminder, Expired
<1>3. CASE Crash \/ Reconnect
  BY <1>3 DEF Crash, Reconnect
<1>4. CASE UNCHANGED vars
  BY <1>4 DEF vars
<1>5. QED
  BY <1>1, <1>2, <1>3, <1>4 DEF Next

\* What a check finds and leaves.
LEMMA CheckFacts ==
  ASSUME TypeInv, CheckDisconnected
  PROVE  /\ connected' <=> ~Expired
         /\ ping_reminder' <=> elapsed > connectionPing
         /\ sinceCheck' = 0 /\ elapsed' = elapsed /\ reply' = reply
         /\ PingNow => pings = 0 /\ elapsed > connectionPing
         /\ ~PingNow => pings' = pings /\ request' = request
         /\ PingNow /\ ~Expired => pings' = 1
         /\ Expired => pings' = pings /\ request' = request
         /\ request' \in {0, request}
<1>1. /\ connected' <=> ~Expired
      /\ ping_reminder' <=> elapsed > connectionPing
  BY DEF CheckDisconnected, Reminder
<1>2. sinceCheck' = 0 /\ elapsed' = elapsed /\ reply' = reply
  BY DEF CheckDisconnected
<1>3. PingNow => pings = 0 /\ elapsed > connectionPing
  BY DEF PingNow, TypeInv, TypeOK, PingedIsFlagged
<1>4. /\ ~PingNow => pings' = pings /\ request' = request
      /\ Expired => pings' = pings /\ request' = request
      /\ PingNow /\ ~Expired => pings' = pings + 1
      /\ request' \in {0, request}
  BY DEF CheckDisconnected
<1>5. QED
  BY <1>1, <1>2, <1>3, <1>4

\* The counts stay in range and the two facts about the silence hold.
LEMMA TypeInvStep == TypeInv /\ [Next]_vars => TypeInv'
<1> SUFFICES ASSUME TypeInv, [Next]_vars PROVE TypeInv'
  OBVIOUS
<1>1. Flags /\ Counts /\ Flags'
  BY TypeSplit, FlagsStep DEF TypeInv
<1>2. SUFFICES (Counts /\ SilenceBounded /\ PingedIsFlagged)'
  BY <1>1 DEF TypeInv, TypeOK, Flags, Counts
<1>3. SilenceBounded /\ PingedIsFlagged
  BY DEF TypeInv
<1>10. CASE Reconnect
  <2>1. /\ elapsed' = 0 /\ pings' = 0 /\ \E gap \in 0 .. MaxGap : sinceCheck' = gap
        /\ request' = Nothing /\ reply' = Nothing
    BY <1>1, <1>10 DEF Reconnect, Seen, Counts
  <2>2. Counts'
    BY <2>1, KeepAliveAssumption DEF Counts, Nothing
  <2>3. SilenceBounded' /\ PingedIsFlagged'
    BY <2>1, KeepAliveAssumption DEF SilenceBounded, PingedIsFlagged
  <2>4. QED
    BY <2>2, <2>3
<1> USE <1>1, <1>3, KeepAliveAssumption
    DEF Counts, SilenceBounded, PingedIsFlagged, Nothing
<1>4. CASE Pass
  BY <1>4 DEF Pass, Older, MaxElapsed
<1>5. CASE HandleSignal
  BY <1>5 DEF HandleSignal, Seen
<1>6. CASE AnswerPing
  BY <1>6 DEF AnswerPing
<1>7. CASE HandlePingReply
  BY <1>7 DEF HandlePingReply, Seen
<1>8. CASE CheckDisconnected
  <2>1. Counts'
    BY <1>8, CheckFacts, 0 \in Nothing .. MaxDelay
  <2>2. SilenceBounded'
    BY <1>8, CheckFacts DEF Expired
  <2>3. PingedIsFlagged'
    BY <1>8, CheckFacts
  <2>4. QED
    BY <2>1, <2>2, <2>3
<1>9. CASE Crash
  BY <1>9 DEF Crash
<1>11. CASE UNCHANGED vars
  BY <1>11 DEF vars
<1>12. QED
  BY <1>4, <1>5, <1>6, <1>7, <1>8, <1>9, <1>10, <1>11 DEF Next

LEMMA TypeInvInit == Init => TypeInv
<1> SUFFICES ASSUME Init PROVE TypeInv
  OBVIOUS
<1>1. Flags
  BY DEF Init, Flags
<1>2. Counts /\ SilenceBounded /\ PingedIsFlagged
  BY KeepAliveAssumption
  DEF Init, Counts, SilenceBounded, PingedIsFlagged, Nothing
<1>3. QED
  BY <1>1, <1>2 DEF TypeInv, TypeOK, Flags, Counts

\* The server's record of a client keeps its types, and a silence is not counted
\* beyond the timeout and one gap (check_disconnected).
THEOREM TypeCorrect == Spec => []TypeOK
<1>1. TypeInv => TypeOK
  BY DEF TypeInv
<1>2. QED
  BY <1>1, TypeInvInit, TypeInvStep, PTL DEF Spec

-----------------------------------------------------------------------------
\* The flag and the silence, when the timers leave time for a ping.
LEMMA FlagInvStep ==
  ASSUME InTime
  PROVE  TypeInv /\ FlagInv /\ [Next]_vars => FlagInv'
<1> SUFFICES ASSUME TypeInv, FlagInv, [Next]_vars PROVE FlagInv'
  OBVIOUS
<1>1. Counts
  BY TypeSplit DEF TypeInv
<1>2. CASE HandleSignal \/ HandlePingReply \/ Reconnect
  <2>1. elapsed' = 0 /\ \E gap \in 0 .. MaxGap : sinceCheck' = gap
    BY <1>1, <1>2 DEF HandleSignal, HandlePingReply, Reconnect, Seen, Counts
  <2>2. elapsed' <= connectionPing + sinceCheck' /\ elapsed' <= sinceCheck'
    BY <2>1, KeepAliveAssumption
  <2>3. QED
    BY <2>2 DEF FlagInv, UnflaggedIsRecent, StaleFlagIsRecent
<1> USE <1>1, KeepAliveAssumption
    DEF FlagInv, UnflaggedIsRecent, StaleFlagIsRecent, Counts
<1>3. CASE Pass
  BY <1>3 DEF Pass, MaxElapsed
<1>4. CASE AnswerPing \/ Crash
  BY <1>4 DEF AnswerPing, Crash
<1>5. CASE CheckDisconnected
  <2>1. UnflaggedIsRecent'
    BY <1>5, CheckFacts
  <2>2. ASSUME connected', ping_reminder', pings' = 0 PROVE FALSE
    <3>1. elapsed > connectionPing /\ ~Expired /\ ~PingNow /\ pings = 0
      BY <1>5, <2>2, CheckFacts
    <3>2. elapsed <= sinceCheck
      BY <1>5, <3>1 DEF CheckDisconnected, PingNow
    <3>3. QED
      BY <3>1, <3>2 DEF InTime
  <2>3. QED
    BY <2>1, <2>2
<1>6. CASE UNCHANGED vars
  BY <1>6 DEF vars
<1>7. QED
  BY <1>2, <1>3, <1>4, <1>5, <1>6 DEF Next

LEMMA FlagInvInit == Init => FlagInv
  BY KeepAliveAssumption
  DEF Init, FlagInv, UnflaggedIsRecent, StaleFlagIsRecent

\* A check that drops a client has pinged it in the same silence.
LEMMA DropAfterPing ==
  ASSUME InTime, TypeInv, FlagInv, Next
  PROVE  connected /\ ~connected' => pings = 1
<1> SUFFICES ASSUME connected, ~connected' PROVE pings = 1
  OBVIOUS
<1>1. CheckDisconnected
  BY DEF Next, Pass, HandleSignal, AnswerPing, HandlePingReply, Crash, Reconnect
<1>2. elapsed > connectionTimeout
  BY <1>1 DEF CheckDisconnected, Expired
<1>3. elapsed > connectionPing + sinceCheck /\ elapsed > sinceCheck
  BY <1>2, KeepAliveAssumption DEF InTime, TypeInv, TypeOK
<1>4. ping_reminder /\ pings # 0
  BY <1>3, KeepAliveAssumption
  DEF FlagInv, UnflaggedIsRecent, StaleFlagIsRecent, TypeInv, TypeOK
<1>5. QED
  BY <1>4 DEF TypeInv, TypeOK

\* check_disconnected drops a client only after an earlier check of the same
\* silence sent it a PingRequest, whether the client still runs or not.
THEOREM PingedBeforeDropped ==
  ASSUME InTime
  PROVE  Spec => PingBeforeTimeout
<1>1. Init => TypeInv /\ FlagInv
  BY TypeInvInit, FlagInvInit
<1>2. TypeInv /\ FlagInv /\ [Next]_vars => (TypeInv /\ FlagInv)'
  BY TypeInvStep, FlagInvStep
<1>3. TypeInv /\ FlagInv /\ [Next]_vars
        => [connected /\ ~connected' => pings = 1]_vars
  BY DropAfterPing
<1>4. QED
  BY <1>1, <1>2, <1>3, PTL DEF Spec, PingBeforeTimeout

-----------------------------------------------------------------------------
\* In time, the next check finds every client that runs alive enough.
LEMMA InTimeNotExpired ==
  ASSUME InTime, TypeInv, FlagInv, PingInv, alive
  PROVE  ~Expired
<1> USE KeepAliveAssumption DEF InTime, TypeInv, TypeOK, Expired, Nothing
<1>1. CASE ~ping_reminder
  BY <1>1 DEF FlagInv, UnflaggedIsRecent, PingInv
<1>2. CASE request >= 0
  BY <1>2 DEF PingInv, RequestInv
<1>3. CASE reply >= 0
  BY <1>3 DEF PingInv, ReplyInv
<1>4. CASE ping_reminder /\ request = Nothing /\ reply = Nothing
  BY <1>4 DEF PingInv, AnsweredIsRecent
<1>5. QED
  BY <1>1, <1>2, <1>3, <1>4

\* A ping is sent only when no earlier ping and no answer is on the way.
LEMMA PingNowAlone ==
  ASSUME InTime, TypeInv, PingInv, alive, PingNow
  PROVE  request = Nothing /\ reply = Nothing
<1> USE KeepAliveAssumption DEF TypeInv, TypeOK, PingNow, PingInv, Nothing
<1>1. ~(request >= 0)
  BY DEF RequestInv
<1>2. ~(reply >= 0)
  BY DEF ReplyInv
<1>3. QED
  BY <1>1, <1>2

LEMMA PingInvStep ==
  ASSUME InTime
  PROVE  TypeInv /\ FlagInv /\ PingInv /\ [Next]_vars => PingInv'
<1> SUFFICES ASSUME TypeInv, FlagInv, PingInv, [Next]_vars PROVE PingInv'
  OBVIOUS
<1> SUFFICES ASSUME alive'
             PROVE  (connected /\ RequestInv /\ ReplyInv /\ OneInFlight
                       /\ AnsweredIsRecent)'
  BY DEF PingInv
<1> USE KeepAliveAssumption
    DEF TypeInv, TypeOK, PingInv, RequestInv, ReplyInv, OneInFlight,
        AnsweredIsRecent, Nothing
<1>1. CASE Pass
  BY <1>1 DEF Pass, Older, MaxElapsed
<1>2. CASE HandleSignal
  BY <1>2 DEF HandleSignal, Seen
<1>3. CASE AnswerPing
  BY <1>3 DEF AnswerPing
<1>4. CASE HandlePingReply
  BY <1>4 DEF HandlePingReply, Seen
<1>5. CASE CheckDisconnected
  <2>1. alive /\ ~Expired
    BY <1>5, InTimeNotExpired DEF CheckDisconnected
  <2>2. /\ connected' /\ (ping_reminder' <=> elapsed > connectionPing)
        /\ sinceCheck' = 0 /\ elapsed' = elapsed /\ reply' = reply
    BY <1>5, <2>1, CheckFacts
  <2>3. CASE PingNow
    <3>1. request = Nothing /\ reply = Nothing
      BY <2>1, <2>3, PingNowAlone
    <3>2. request' = 0
      BY <1>5, <2>1, <2>3 DEF CheckDisconnected
    <3>3. elapsed > connectionPing /\ elapsed <= connectionPing + MaxGap
      BY <2>1, <2>3 DEF PingNow, FlagInv, UnflaggedIsRecent
    <3>4. QED
      BY <2>2, <3>1, <3>2, <3>3
  <2>4. CASE ~PingNow
    <3>1. request' = request
      BY <1>5, <2>4, CheckFacts
    <3>2. elapsed > connectionPing => ping_reminder
      BY <2>4 DEF PingNow
    <3>3. AnsweredIsRecent'
      BY <2>1, <2>2, <3>1, <3>2 DEF InTime
    <3>4. RequestInv' /\ ReplyInv' /\ OneInFlight'
      BY <2>1, <2>2, <3>1, <3>2
    <3>5. QED
      BY <2>2, <3>3, <3>4
  <2>5. QED
    BY <2>3, <2>4
<1>6. CASE Crash
  BY <1>6 DEF Crash
<1>7. CASE Reconnect
  BY <1>7 DEF Reconnect, Seen
<1>8. CASE UNCHANGED vars
  BY <1>8 DEF vars
<1>9. QED
  BY <1>1, <1>2, <1>3, <1>4, <1>5, <1>6, <1>7, <1>8 DEF Next

\* A client that runs stays connected, however little it sends: the pings of
\* check_disconnected and their answers keep last_seen_time_point recent.
THEOREM LiveStays == Spec => []LiveClientStays
<1>1. CASE InTime
  <2>1. Init => TypeInv /\ FlagInv /\ PingInv
    <3>1. Init => PingInv
      BY KeepAliveAssumption
      DEF Init, PingInv, RequestInv, ReplyInv, OneInFlight, AnsweredIsRecent,
          Nothing
    <3>2. QED
      BY <3>1, TypeInvInit, FlagInvInit
  <2>2. TypeInv /\ FlagInv /\ PingInv /\ [Next]_vars
          => (TypeInv /\ FlagInv /\ PingInv)'
    BY <1>1, TypeInvStep, FlagInvStep, PingInvStep
  <2>3. TypeInv /\ FlagInv /\ PingInv => LiveClientStays
    BY DEF PingInv, LiveClientStays
  <2>4. QED
    BY <2>1, <2>2, <2>3, PTL DEF Spec
<1>2. CASE ~InTime
  <2>1. LiveClientStays
    BY <1>2 DEF LiveClientStays
  <2>2. QED
    BY <2>1, PTL
<1>3. QED
  BY <1>1, <1>2
=============================================================================
