---------------------------- MODULE BlinkyProofs ----------------------------
(***************************************************************************)
(* Proofs about Blinky.tla, for every period, every tick count width and   *)
(* every lag shorter than one turn of the tick count.                      *)
(***************************************************************************)
EXTENDS Blinky, TLAPS

P == mainQUEUE_SEND_FREQUENCY_MS

\* The wrapped tick count and the wrapped wake time tell age, up to one turn.
Clock ==
    pcTx \in {"delay", "blocked", "send"} =>
        \/ tick = xNextWakeTime + age
        \/ tick = xNextWakeTime + age - TickMod
        \/ tick = xNextWakeTime + age + TickMod

\* A value in flight is the one sent, and both tasks exist once one does.
InFlight ==
    /\ pcRx = "check" => ulReceivedValue = ulValueToSend
    /\ pcTx = "absent" <=> setup # "done"
    /\ pcRx = "absent" <=> setup # "done"
    /\ pcRx = "absent" => xQueue = <<>>

IInv == TypeOK /\ Clock /\ InFlight /\ EverySendToggles /\ NeverEarly

\* vTaskDelayUntil decides by comparing wrapped times only; it blocks exactly
\* when the wake time is truly ahead, provided the task is less than a whole
\* turn of the tick count late.
LEMMA MustDelayIsRight ==
    ASSUME NEW M \in Nat, NEW prev \in 0 .. M - 1, NEW now \in 0 .. M - 1,
           NEW late \in 0 .. M - 1, NEW period \in 1 .. M - 1,
           \/ now = prev + late \/ now = prev + late - M
    PROVE  LET wake == AddTicks(prev, period, M)
           IN  /\ wake \in 0 .. M - 1
               /\ MustDelay(prev, wake, now) <=> late < period
               /\ \/ now = wake + (late - period)
                  \/ now = wake + (late - period) - M
                  \/ now = wake + (late - period) + M
BY DEF AddTicks, MustDelay

LEMMA TxRunsAlone ==
    ASSUME IInv, Runs("Tx")
    PROVE  xQueue = <<>> /\ pcRx = "receive" /\ missing = 0
<1>1. "Rx" \notin Ready /\ "Tx" \in Ready
    BY DEF Runs, Dispatched, Priority, mainQUEUE_SEND_TASK_PRIORITY,
       mainQUEUE_RECEIVE_TASK_PRIORITY
<1>2. pcRx = "receive" /\ xQueue = <<>>
    BY <1>1 DEF Ready, IInv, TypeOK, InFlight
<1> QED
    BY <1>2 DEF IInv, EverySendToggles

LEMMA Initially == Init => IInv
<1> SUFFICES ASSUME Init PROVE IInv
    OBVIOUS
<1>1. TypeOK
  <2>1. 0 \in 0 .. TickMod - 1 /\ 0 \in -mainQUEUE_SEND_FREQUENCY_MS .. MaxLag
      BY TicksAssumption
  <2> QED
      BY <2>1 DEF Init, TypeOK
<1>2. Len(xQueue) = 0
    BY DEF Init
<1> QED
    BY <1>1, <1>2 DEF Init, IInv, Clock, InFlight, EverySendToggles, NeverEarly

LEMMA TimeSteps ==
    ASSUME IInv, Tick \/ TxStart \/ TxDelay
    PROVE  IInv'
<1> USE TicksAssumption
<1>1. CASE Tick
  <2>1. /\ tick' \in 0 .. TickMod - 1
        /\ tick' = tick + 1 \/ tick' = tick + 1 - TickMod
      BY <1>1 DEF Tick, AddTicks, IInv, TypeOK
  <2>2. CASE pcTx \in {"absent", "start"}
      BY <1>1, <2>1, <2>2 DEF Tick, IInv, TypeOK, Clock, InFlight,
         EverySendToggles, NeverEarly
  <2>3. CASE pcTx \in {"delay", "blocked", "send"}
    <3>1. age' = age + 1 /\ age' \in -P + 1 .. MaxLag
        BY <1>1, <2>3 DEF Tick, IInv, TypeOK, P
    <3>2. \/ tick' = xNextWakeTime + age'
          \/ tick' = xNextWakeTime + age' - TickMod
          \/ tick' = xNextWakeTime + age' + TickMod
        BY <2>1, <2>3, <3>1 DEF IInv, TypeOK, Clock, P
    <3>3. NeverEarly'
      <4>1. pcTx = "blocked" => (tick' = xNextWakeTime <=> age' = 0)
          BY <3>1, <3>2, <2>1 DEF IInv, TypeOK, NeverEarly, P
      <4> QED
          BY <1>1, <2>3, <3>1, <4>1 DEF Tick, IInv, TypeOK, NeverEarly
    <3> QED
        BY <1>1, <2>1, <2>3, <3>1, <3>2, <3>3
        DEF Tick, IInv, TypeOK, Clock, InFlight, EverySendToggles, P
  <2> QED
      BY <2>2, <2>3 DEF IInv, TypeOK
<1>2. CASE TxStart
    BY <1>2 DEF TxStart, IInv, TypeOK, Clock, InFlight, EverySendToggles,
       NeverEarly
<1>3. CASE TxDelay
  <2> DEFINE wake == AddTicks(xNextWakeTime, P, TickMod)
  <2>1. /\ pcTx = "delay" /\ xNextWakeTime' = wake /\ age' = age - P
        /\ pcTx' = IF MustDelay(xNextWakeTime, wake, tick) THEN "blocked" ELSE "send"
        /\ UNCHANGED <<setup, tick, busy, pcRx, xQueue, ulReceivedValue, led,
                       missing>>
      BY <1>3 DEF TxDelay, P
  <2>2. /\ age \in 0 .. TickMod - 1 /\ age <= MaxLag
        /\ xNextWakeTime \in 0 .. TickMod - 1 /\ tick \in 0 .. TickMod - 1
        /\ tick = xNextWakeTime + age \/ tick = xNextWakeTime + age - TickMod
        /\ P \in 1 .. TickMod - 1
      BY <2>1 DEF IInv, TypeOK, NeverEarly, Clock, P
  <2>3. /\ wake \in 0 .. TickMod - 1
        /\ MustDelay(xNextWakeTime, wake, tick) <=> age < P
        /\ \/ tick = wake + (age - P)
           \/ tick = wake + (age - P) - TickMod
           \/ tick = wake + (age - P) + TickMod
      BY <2>2, MustDelayIsRight
  <2> HIDE DEF wake
  <2> QED
      BY <2>1, <2>2, <2>3 DEF IInv, TypeOK, Clock, InFlight, EverySendToggles,
         NeverEarly, P
<1> QED
    BY <1>1, <1>2, <1>3

LEMMA QueueSteps ==
    ASSUME IInv, TxSend \/ RxReceive \/ RxCheck
    PROVE  IInv'
<1>1. CASE TxSend
  <2>1. /\ xQueue = <<>> /\ pcRx = "receive" /\ missing = 0
      BY <1>1, TxRunsAlone DEF TxSend
  <2>2. xQueue' = <<ulValueToSend>> /\ Len(xQueue') = 1
      BY <1>1, <2>1 DEF TxSend, mainQUEUE_LENGTH
  <2> QED
      BY <1>1, <2>1, <2>2 DEF TxSend, IInv, TypeOK, Clock, InFlight,
         EverySendToggles, NeverEarly
<1>2. CASE RxReceive
  <2>1. "Rx" \in Ready /\ pcRx = "receive"
      BY <1>2 DEF RxReceive, Runs, Dispatched
  <2>2. xQueue = <<ulValueToSend>>
      BY <2>1 DEF Ready, IInv, TypeOK
  <2>3. xQueue' = <<>> /\ ulReceivedValue' = ulValueToSend
      BY <1>2, <2>2 DEF RxReceive
  <2> QED
      BY <1>2, <2>1, <2>2, <2>3 DEF RxReceive, IInv, TypeOK, Clock, InFlight,
         EverySendToggles, NeverEarly
<1>3. CASE RxCheck
  <2>1. missing >= 1 /\ ulReceivedValue = ulExpectedValue
      BY <1>3 DEF RxCheck, IInv, TypeOK, InFlight, EverySendToggles,
         ulExpectedValue, ulValueToSend
  <2>2. /\ led' = ~led /\ ulReceivedValue' = 0 /\ missing' = missing - 1
        /\ pcRx' = "receive" /\ pcRx = "check"
        /\ UNCHANGED <<setup, tick, busy, pcTx, xNextWakeTime, xQueue, age>>
      BY <1>3, <2>1 DEF RxCheck
  <2> QED
      BY <2>1, <2>2 DEF IInv, TypeOK, Clock, InFlight, EverySendToggles,
         NeverEarly
<1> QED
    BY <1>1, <1>2, <1>3

LEMMA OtherSteps ==
    ASSUME IInv, Setup \/ Others \/ UNCHANGED vars
    PROVE  IInv'
<1>1. CASE Setup
    BY <1>1 DEF Setup, IInv, TypeOK, Clock, InFlight, EverySendToggles, NeverEarly
<1>2. CASE Others
    BY <1>2 DEF Others, IInv, TypeOK, Clock, InFlight, EverySendToggles, NeverEarly
<1>3. CASE UNCHANGED vars
    BY <1>3 DEF vars, IInv, TypeOK, Clock, InFlight, EverySendToggles, NeverEarly
<1> QED
    BY <1>1, <1>2, <1>3

LEMMA Invariance == Spec => []IInv
<1>1. IInv /\ [Next]_vars => IInv'
    BY TimeSteps, QueueSteps, OtherSteps DEF Next, Tx, Rx, Halted
<1> QED
    BY <1>1, Initially, PTL DEF Spec
------------------------------------------------------------------------------
\* Type correctness: no value but 100 is ever in the queue, and the tick
\* arithmetic stays in range.
THEOREM TypeCorrect == Spec => []TypeOK
<1>1. IInv => TypeOK
    BY DEF IInv
<1> QED
    BY <1>1, Invariance, PTL

\* The comment of line 135: the queue of length one is empty whenever Tx sends,
\* because the Rx task has the higher priority and no other way to wait.
THEOREM QueueIsEmptyAtSend == Spec => []QueueEmptyAtSend
<1>1. IInv => QueueEmptyAtSend
    BY TxRunsAlone DEF QueueEmptyAtSend
<1> QED
    BY <1>1, Invariance, PTL

\* No value is lost, received twice or left without its toggle.
THEOREM SendsMatchToggles == Spec => []EverySendToggles
<1>1. IInv => EverySendToggles
    BY DEF IInv
<1> QED
    BY <1>1, Invariance, PTL

\* The period is kept across every wrap of the tick count: the Tx task neither
\* sends before its time nor sleeps past a time already gone.
THEOREM PeriodIsKept == Spec => []NeverEarly
<1>1. IInv => NeverEarly
    BY DEF IInv
<1> QED
    BY <1>1, Invariance, PTL
==============================================================================
