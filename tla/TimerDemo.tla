----------------------------- MODULE TimerDemo -----------------------------
(***************************************************************************)
(* demo-common/minimal/TimerDemo.c: software timers are started, stopped,  *)
(* reset and left to fall behind, by a task and by the tick interrupt, and *)
(* their callbacks are counted.                                            *)
(***************************************************************************)
EXTENDS RtosKernel, Program

CONSTANTS
    xBasePeriod,                \* 50 ticks in the usual call
    tmrdemoNUM_TIMER_RESETS     \* 10 in the source

configMAX_PRIORITIES == 5
tmrdemoONE_SHOT_TIMER_PERIOD == 3 * xBasePeriod
tmrdemoBACKLOG_TIMER_PERIOD == 1
tmrdemoEXPECTED_BACKLOG_EXPIRES == 2
xMargin == 4

Number(n) == [i \in 1 .. n |-> i]
\* The timers and counters have the indices 0 to configTIMER_QUEUE_LENGTH in the source.
xAutoReloadTimers == <<"xTimer0", "xTimer1", "xTimer2", "xTimer3", "xTimer4", "xTimer5">>
ucAutoReloadTimerCounters == <<"ucCount0", "ucCount1", "ucCount2", "ucCount3", "ucCount4", "ucCount5">>
Running   == Number(configTIMER_QUEUE_LENGTH)
TimerZero == xAutoReloadTimers[1]
LastTimer == xAutoReloadTimers[configTIMER_QUEUE_LENGTH]
LastCount == ucAutoReloadTimerCounters[configTIMER_QUEUE_LENGTH]
Spare     == configTIMER_QUEUE_LENGTH + 1
PeriodOf(i) == IF i = Spare THEN configTIMER_QUEUE_LENGTH * xBasePeriod ELSE i * xBasePeriod

IsActive(o)  == TimerIsActive(o, 1)
IsDormant(o) == TimerIsActive(o, 0)
Loop      == Add("ulLoopCounter", 1)
Count(var) == Modulo(Add(var, 1), 256)
-----------------------------------------------------------------------------
(* The callbacks, which the timer task runs *)

prvAutoReloadTimerCallback(i) ==
    << Count(ucAutoReloadTimerCounters[i]) >>
    \o IF i = 1
       THEN If(Read("ucIsStopNeededInTimerZeroCallback"), {1},
               << TimerStop(TimerZero), Set("ucIsStopNeededInTimerZeroCallback", 0) >>)
       ELSE <<>>

\* The identifier of the timer counts the calls, as a static variable does.
prvOneShotTimerCallback == <<
    Same("xOneShotTimerID", "uxCallCount"),
    Add("xOneShotTimerID", 1), Add("uxCallCount", 1), Count("ucOneShotTimerCounter") >>

prvISRAutoReloadTimerCallback == << Count("ucISRAutoReloadTimerCounter") >>
prvISROneShotTimerCallback    == << Count("ucISROneShotTimerCounter") >>
-----------------------------------------------------------------------------
(* The tests of the task *)

\* Before the scheduler starts, the timer task does not empty its queue.
prvTest1_CreateTimersWithoutSchedulerRunning ==
    << SuspendAll >>
    \o Repeat(Running, LAMBDA i : << Passes(TimerStart(xAutoReloadTimers[i])) >>)
    \o << Fails(TimerStart(xAutoReloadTimers[Spare])), ResumeAll >>

SetReloadModes == <<
    TimerSetReloadMode("xOneShotTimer", TRUE), TimerReloads("xOneShotTimer", 1),
    TimerSetReloadMode("xOneShotTimer", FALSE), TimerReloads("xOneShotTimer", 0) >>

prvTest2_CheckTaskAndTimersInitialState ==
    Repeat(Running, LAMBDA i : << IsActive(xAutoReloadTimers[i]) >>)
    \o << IsDormant(xAutoReloadTimers[Spare]) >>

prvTest3_CheckAutoReloadExpireRates ==
    LET xBlockPeriod == configTIMER_QUEUE_LENGTH * xBasePeriod
        xExpectedNumber(i) == xBlockPeriod \div PeriodOf(i)
    IN  << PrioritySet(Self, configMAX_PRIORITIES - 1), Delay(xBlockPeriod) >>
        \o Repeat(Running, LAMBDA i : <<
              Expect(Read(ucAutoReloadTimerCounters[i]), {xExpectedNumber(i) - 1, xExpectedNumber(i)}) >>)
        \o << PrioritySet(Self, configMAX_PRIORITIES - 2), Loop >>

prvTest4_CheckAutoReloadTimersCanBeStopped ==
    Repeat(Running, LAMBDA i : << IsActive(xAutoReloadTimers[i]), TimerStop(xAutoReloadTimers[i]),
                                  IsDormant(xAutoReloadTimers[i]) >>)
    \o << EnterCritical, Is(ucAutoReloadTimerCounters[Spare], 0) >>
    \o Repeat(Number(Spare), LAMBDA i : << Set(ucAutoReloadTimerCounters[i], 0) >>)
    \o << ExitCritical, Delay(configTIMER_QUEUE_LENGTH * xBasePeriod) >>
    \o Repeat(Running, LAMBDA i : << Is(ucAutoReloadTimerCounters[i], 0) >>) \o << Loop >>

prvTest5_CheckBasicOneShotTimerBehaviour == <<
    IsDormant("xOneShotTimer"), Is("ucOneShotTimerCounter", 0),
    TimerStart("xOneShotTimer"), IsActive("xOneShotTimer"),
    Delay(3 * tmrdemoONE_SHOT_TIMER_PERIOD),
    IsDormant("xOneShotTimer"), Is("ucOneShotTimerCounter", 1), Set("ucOneShotTimerCounter", 0), Loop >>

\* A timer that is reset in time never ends.
prvTest6_CheckAutoReloadResetBehaviour ==
    LET still == << IsActive("xOneShotTimer"), Is("ucOneShotTimerCounter", 0),
                    IsActive(LastTimer), Is(LastCount, 0) >>
    IN  << TimerStart("xOneShotTimer"), IsActive("xOneShotTimer"),
           TimerStart(LastTimer), IsActive(LastTimer) >>
        \o Repeat(Number(tmrdemoNUM_TIMER_RESETS), LAMBDA i :
              << Delay(tmrdemoONE_SHOT_TIMER_PERIOD \div 2) >> \o still
              \o << TimerReset("xOneShotTimer"), TimerReset(LastTimer), Loop >>)
        \o << Delay(configTIMER_QUEUE_LENGTH * xBasePeriod),
              Is("ucOneShotTimerCounter", 1), Expect(Read(LastCount), 1 .. 255),
              IsActive(LastTimer), IsDormant("xOneShotTimer"),
              TimerStop(LastTimer), IsDormant(LastTimer),
              Set(LastCount, 0), Set("ucOneShotTimerCounter", 0), Loop >>

\* Two periods of timer 0 pass at once; its callback stops it when it is first called.
prvTest7_CheckBacklogBehaviour == <<
    IsDormant(TimerZero), Set("ucIsStopNeededInTimerZeroCallback", 1),
    TimerChangePeriod(TimerZero, tmrdemoBACKLOG_TIMER_PERIOD), IsActive(TimerZero),
    CatchUpTicks(tmrdemoBACKLOG_TIMER_PERIOD * tmrdemoEXPECTED_BACKLOG_EXPIRES),
    IsDormant(TimerZero),
    TimerChangePeriod(TimerZero, xBasePeriod), TimerStop(TimerZero),
    Set(ucAutoReloadTimerCounters[1], 0), Loop >>

prvResetStartConditionsForNextIteration ==
    Repeat(Running, LAMBDA i : << IsDormant(xAutoReloadTimers[i]), TimerStart(xAutoReloadTimers[i]),
                                  IsActive(xAutoReloadTimers[i]) >>) \o << Loop >>

\* ucIsBacklogDemoEnabled: whether the seventh test is made.
prvTimerTestTask(ucIsBacklogDemoEnabled) ==
    TaskOf(configMAX_PRIORITIES - 2,
        prvTest1_CreateTimersWithoutSchedulerRunning \o SetReloadModes
        \o prvTest2_CheckTaskAndTimersInitialState,
        prvTest3_CheckAutoReloadExpireRates \o prvTest4_CheckAutoReloadTimersCanBeStopped
        \o prvTest5_CheckBasicOneShotTimerBehaviour \o prvTest6_CheckAutoReloadResetBehaviour
        \o (IF ucIsBacklogDemoEnabled THEN prvTest7_CheckBacklogBehaviour ELSE <<>>)
        \o prvResetStartConditionsForNextIteration)
-----------------------------------------------------------------------------
(* The test from the tick interrupt *)

StartFromISR ==
    While(Read("uxTick"), {-1},
          << Delay(1), Set("ucISRAutoReloadTimerCounter", 0), Set("ucISROneShotTimerCounter", 0) >>
          \o If(TimerChangePeriod("xISRAutoReloadTimer", xBasePeriod), {Pass},
                IfElse(TimerChangePeriod("xISROneShotTimer", xBasePeriod), {Pass},
                       << Set("uxTick", 0) >>, << TimerStop("xISRAutoReloadTimer") >>)))

\* At these ticks the two counters have these values; what is done then.
Counted(tick, auto, oneShot, next) == [tick |-> tick, auto |-> auto, oneShot |-> oneShot, next |-> next]
Schedule ==
    LET P == xBasePeriod
        M == xMargin
        reset == << TimerReset("xISROneShotTimer") >>
    IN  << Counted(P - M, 0, 0, <<>>), Counted(P + M, 1, 1, <<>>),
           Counted(2 * P - M, 1, 1, <<>>), Counted(2 * P + M, 2, 1, <<>>),
           Counted(2 * P + P \div 4, 2, 1, <<>>),
           [Counted(3 * P, 0, 0, << TimerStart("xISROneShotTimer") >>) EXCEPT !.auto = Unset],
           Counted(3 * P + M, 3, 1, << TimerStop("xISRAutoReloadTimer") >>),
           Counted(4 * (P - M), 3, 1, <<>>), Counted(4 * P + M, 3, 2, <<>>),
           Counted(8 * P, 3, 2, reset), Counted(9 * P - M, 3, 2, reset),
           Counted(10 * P - 2 * M, 3, 2, reset), Counted(11 * P - 3 * M, 3, 2, reset),
           Counted(12 * P - 2 * M, 3, 3, <<>>), Counted(15 * P, 3, 3, <<>>) >>

vTimerPeriodicISRTests ==
    LET before(i) == IF i = 1 THEN 0 ELSE Schedule[i - 1].tick
        checks(s) == IF s.auto = Unset THEN <<>>
                     ELSE << Is("ucISRAutoReloadTimerCounter", s.auto),
                             Is("ucISROneShotTimerCounter", s.oneShot) >>
    IN  Task(Interrupt,
             StartFromISR
             \o Repeat(Number(Len(Schedule)), LAMBDA i :
                   << Delay(Schedule[i].tick - before(i)) >> \o checks(Schedule[i]) \o Schedule[i].next)
             \o << Set("uxTick", -1) >>)
-----------------------------------------------------------------------------
xAreTimerDemoTasksStillRunning == <<"ulLoopCounter">>

\* The timers of the task and those of the interrupt are two programs.
vStartTimerDemoTask == [
    task |->
        Prompt(Demo(<< prvTimerTestTask(TRUE),
                       Daemon([i \in 1 .. Spare |-> prvAutoReloadTimerCallback(i)]
                              \o << prvOneShotTimerCallback >>) >>,
                    [o \in {TimerQueue} |-> Commands]
                    @@ [o \in {"xOneShotTimer"} |-> Timer(tmrdemoONE_SHOT_TIMER_PERIOD, FALSE, Spare + 1)]
                    @@ FoldSeq(LAMBDA i, f : f @@ (xAutoReloadTimers[i] :> Timer(PeriodOf(i), TRUE, i)),
                               <<>>, Number(Spare)),
                    Zero({ucAutoReloadTimerCounters[i] : i \in 1 .. Spare}
                         \cup {"ucIsStopNeededInTimerZeroCallback", "ucOneShotTimerCounter",
                               "xOneShotTimerID", "uxCallCount", "ulLoopCounter"}),
                    xAreTimerDemoTasksStillRunning), {0}),
    interrupt |->
        Prompt(Demo(<< vTimerPeriodicISRTests,
                       Daemon(<< prvISRAutoReloadTimerCallback, prvISROneShotTimerCallback >>) >>,
                    [xTimerQueue |-> Commands,
                     xISRAutoReloadTimer |-> Timer(65535, TRUE, 1),
                     xISROneShotTimer |-> Timer(65535, FALSE, 2)],
                    [v \in {"ucISRAutoReloadTimerCounter", "ucISROneShotTimerCounter", "uxTick"} |->
                        IF v = "uxTick" THEN -1 ELSE 0], <<"uxTick">>), {0})]
=============================================================================
