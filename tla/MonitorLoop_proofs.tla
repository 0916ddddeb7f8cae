------------------------- MODULE MonitorLoop_proofs -------------------------
(***************************************************************************)
(* Proofs about the main loop, for all intervals and for every way the wall *)
(* clock is behind the clock of the event loop.                             *)
(***************************************************************************)
EXTENDS MonitorLoop, TLAPS

(* A reading of the wall clock taken at the real time t. *)
ReadAt(reading, t) == reading <= t /\ t - reading <= MaxSlack

(* The wall clock is a reading of the real time. *)
ClockReads == ReadAt(clock, real) /\ real >= StartTime

(* From the start of a cycle to the next, its start is remembered twice: as *)
(* the program's reading of the wall clock and as the real time.            *)
CycleRead ==
    /\ pc # "loop" \/ stop => cycled > 0
    /\ cycled > 0 => ReadAt(started, cycled) /\ cycled <= real

(* The wait aims at the tick, and when the loop gets to its next pass        *)
(* without a request to stop, the tick is there.                            *)
TickReached ==
    /\ pc = "wait" => WaitAimsAtTick
    /\ pc = "loop" /\ ~stop /\ cycled > 0 =>
          real - cycled >= MarketInterval - MaxSlack

(* The heartbeat under way, and the last one, likewise.                     *)
BeatRead ==
    /\ pc = "beating" => ReadAt(now, beaten) /\ beaten >= StartTime
    /\ pc # "beating" /\ beaten > 0 =>
          last_heartbeat > 0 /\ ReadAt(last_heartbeat, beaten)

IInv == TypeOK /\ ClockReads /\ CycleRead /\ TickReached /\ BeatRead

(* A process that has just begun. *)
Begun ==
    /\ pc = "loop" /\ stop = FALSE
    /\ started = 0 /\ now = 0 /\ wake = 0
    /\ last_heartbeat = 0 /\ last_cleanup = 0
    /\ open = Resources
    /\ cycled = 0 /\ beaten = 0

LEMMA BegunIsGood ==
    ASSUME Begun, clock \in Nat, real \in Nat, restarts \in Nat, ClockReads
    PROVE  IInv
<1>1. TypeOK
  BY DEF Begun, TypeOK
<1>2. CycleRead
  BY DEF Begun, CycleRead
<1>3. TickReached
  BY DEF Begun, TickReached
<1>4. BeatRead
  BY DEF Begun, BeatRead
<1>5. QED
  BY <1>1, <1>2, <1>3, <1>4 DEF IInv

LEMMA InitIInv == Init => IInv
<1> SUFFICES ASSUME Init PROVE IInv
  OBVIOUS
<1>1. Begun
  BY DEF Init, Begun
<1>2. clock = StartTime /\ real = StartTime /\ StartTime \in Nat /\ MaxSlack \in Nat
  BY LoopBounds DEF Init
<1>3. ClockReads
  BY <1>2 DEF ClockReads, ReadAt
<1>4. restarts \in Nat
  BY DEF Init
<1>5. QED
  BY <1>1, <1>2, <1>3, <1>4, BegunIsGood

LEMMA NextIInv == IInv /\ [Next]_vars => IInv'
<1> SUFFICES ASSUME IInv, [Next]_vars PROVE IInv'
  OBVIOUS
<1> USE LoopParams, LoopBounds
<1>1. CASE StartCycle
  BY <1>1 DEF StartCycle, time, lasts, IInv, TypeOK, ClockReads, ReadAt,
              CycleRead, TickReached, WaitAimsAtTick, BeatRead
<1>2. CASE CycleEnds \/ SkipHeartbeat \/ SkipCleanup
  BY <1>2 DEF CycleEnds, SkipHeartbeat, SkipCleanup, time, local, lasts,
              history, IInv, TypeOK, ClockReads, ReadAt, CycleRead,
              TickReached, WaitAimsAtTick, BeatRead
<1>3. CASE SendHeartbeat
  BY <1>3 DEF SendHeartbeat, time, lasts, IInv, TypeOK, ClockReads, ReadAt,
              CycleRead, TickReached, WaitAimsAtTick, BeatRead
<1>4. CASE HeartbeatEnds
  <2>1. now > 0
    BY <1>4 DEF HeartbeatEnds, IInv, TypeOK, BeatRead, ReadAt
  <2>2. QED
    BY <1>4, <2>1 DEF HeartbeatEnds, time, local, history, IInv, TypeOK,
                ClockReads, ReadAt, CycleRead, TickReached, WaitAimsAtTick,
                BeatRead
<1>5. CASE StartCleanup \/ CleanupEnds
  BY <1>5 DEF StartCleanup, CleanupEnds, time, local, lasts, history, IInv,
              TypeOK, ClockReads, ReadAt, CycleRead, TickReached,
              WaitAimsAtTick, BeatRead
<1>6. CASE Sleep
  BY <1>6 DEF Sleep, Delay, time, lasts, history, IInv, TypeOK, ClockReads,
              ReadAt, CycleRead, TickReached, WaitAimsAtTick, BeatRead
<1>7. CASE Wake
  BY <1>7 DEF Wake, time, local, lasts, history, IInv, TypeOK, ClockReads,
              ReadAt, CycleRead, TickReached, WaitAimsAtTick, BeatRead
<1>8. CASE Leave \/ CloseAll
  <2> DEFINE closing == {"close_exchange", "close_notifier", "close_database",
                         "down"}
  <2>1. /\ pc' \in closing
        /\ open' \subseteq open
        /\ UNCHANGED <<time, stop, local, lasts, restarts, history>>
    <3>1. CASE Leave
      BY <3>1 DEF Leave
    <3>2. CASE CloseAll
      BY <3>2 DEF CloseAll, Close
    <3>3. QED
      BY <1>8, <3>1, <3>2
  <2>2. pc # "loop" \/ stop
    BY <1>8 DEF Leave, CloseAll, Close
  <2>3. pc # "beating"
    BY <1>8 DEF Leave, CloseAll, Close
  <2>4. TypeOK'
    BY <2>1 DEF time, local, lasts, history, IInv, TypeOK
  <2>5. ClockReads' /\ CycleRead'
    BY <2>1, <2>2 DEF time, local, history, IInv, ClockReads, ReadAt, CycleRead
  <2>6. TickReached' /\ BeatRead'
    BY <2>1, <2>3 DEF time, local, lasts, history, IInv, TickReached,
                      BeatRead, ReadAt
  <2>7. QED
    BY <2>4, <2>5, <2>6 DEF IInv
<1>9. CASE RequestShutdown
  BY <1>9 DEF RequestShutdown, Awaits, time, local, lasts, history, IInv,
              TypeOK, ClockReads, ReadAt, CycleRead, TickReached,
              WaitAimsAtTick, BeatRead
<1>10. CASE Restart
  <2>1. Begun'
    BY <1>10 DEF Restart, Begun
  <2>2. clock' \in Nat /\ real' \in Nat /\ ClockReads'
    BY <1>10 DEF Restart, time, IInv, TypeOK, ClockReads, ReadAt
  <2>3. restarts' \in Nat
    BY <1>10 DEF Restart, IInv, TypeOK
  <2>4. TypeOK'
    BY <2>1, <2>2, <2>3 DEF Begun, TypeOK
  <2>5. CycleRead'
    BY <2>1 DEF Begun, CycleRead
  <2>6. TickReached'
    BY <2>1 DEF Begun, TickReached
  <2>7. BeatRead'
    BY <2>1 DEF Begun, BeatRead
  <2>8. QED
    BY <2>2, <2>4, <2>5, <2>6, <2>7 DEF IInv
<1>11. CASE Tick \/ StepBack \/ CatchUp
  BY <1>11 DEF Tick, StepBack, CatchUp, local, lasts, history, IInv, TypeOK,
               ClockReads, ReadAt, CycleRead, TickReached, WaitAimsAtTick,
               BeatRead
<1>12. CASE UNCHANGED vars
  BY <1>12 DEF vars, time, local, lasts, history, IInv, TypeOK, ClockReads,
               ReadAt, CycleRead, TickReached, WaitAimsAtTick, BeatRead
<1>13. QED
  BY <1>1, <1>2, <1>3, <1>4, <1>5, <1>6, <1>7, <1>8, <1>9, <1>10, <1>11,
     <1>12 DEF Next, Run

LEMMA AlwaysIInv == Spec => []IInv
  BY InitIInv, NextIInv, PTL DEF Spec

-----------------------------------------------------------------------------
(* The variables of run and main keep their types (app.py, run).            *)
THEOREM TypeCorrect == Spec => []TypeOK
<1>1. IInv => TypeOK
  BY DEF IInv
<1>2. QED
  BY <1>1, AlwaysIInv, PTL

(* The wait always aims at the tick, but for corrections of the clock       *)
(* (async_utils.py, next_tick_delay_ms).                                    *)
THEOREM WaitIsForTick == Spec => []WaitAimsAtTick
<1>1. IInv => WaitAimsAtTick
  BY DEF IInv, TickReached, WaitAimsAtTick
<1>2. QED
  BY <1>1, AlwaysIInv, PTL

(* Cycles keep the pace of the polling interval, whatever happened in them  *)
(* (app.py, run).                                                           *)
THEOREM PaceHolds == Spec => CyclePace
<1> DEFINE Paced == /\ WaitAimsAtTick'
                    /\ StartCycle /\ cycled > 0 =>
                          cycled' - cycled >= MarketInterval - MaxSlack
<1>1. ASSUME IInv, StartCycle, cycled > 0
      PROVE  cycled' - cycled >= MarketInterval - MaxSlack
  BY <1>1 DEF IInv, StartCycle, TickReached
<1>2. IInv' => WaitAimsAtTick'
  BY DEF IInv, TickReached, WaitAimsAtTick
<1>3. IInv /\ IInv' => [Paced]_vars
  BY <1>1, <1>2
<1>4. QED
  BY <1>3, AlwaysIInv, PTL DEF CyclePace

(* Heartbeats keep their interval, delivered or not (app.py,                *)
(* _maybe_send_heartbeat).                                                  *)
THEOREM HeartbeatsAreSpaced == Spec => HeartbeatSpacing
<1>1. ASSUME IInv, SendHeartbeat, beaten > 0
      PROVE  beaten' - beaten >= HeartbeatInterval - MaxSlack
  <2>1. /\ clock - last_heartbeat >= HeartbeatInterval
        /\ ReadAt(last_heartbeat, beaten) /\ ReadAt(clock, real)
        /\ beaten' = real
    BY <1>1 DEF SendHeartbeat, HeartbeatDue, IInv, BeatRead, ClockReads
  <2>2. /\ clock \in Nat /\ real \in Nat /\ last_heartbeat \in Nat
        /\ beaten \in Nat /\ HeartbeatInterval \in Nat /\ MaxSlack \in Nat
    BY <1>1, LoopParams, LoopBounds DEF IInv, TypeOK
  <2>3. QED
    BY <2>1, <2>2 DEF ReadAt
<1>2. IInv => [SendHeartbeat /\ beaten > 0 =>
                  beaten' - beaten >= HeartbeatInterval - MaxSlack]_vars
  BY <1>1
<1>3. QED
  BY <1>2, AlwaysIInv, PTL DEF HeartbeatSpacing
=============================================================================
