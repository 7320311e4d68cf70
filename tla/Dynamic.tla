------------------------------ MODULE Dynamic ------------------------------
(***************************************************************************)
(* demo-common/minimal/dynamic.c: one task suspends and resumes others     *)
(* that count, one of which changes its own priority; two more use a queue *)
(* with the scheduler suspended.                                           *)
(***************************************************************************)
EXTENDS RtosKernel, Program

CONSTANTS
    priLOOPS,           \* 5 in the source
    priMAX_COUNT,       \* 255
    PriMod              \* bound: the values sent count modulo this

priSLEEP_TIME == 128
priSUSPENDED_QUEUE_LENGTH == 1

Continuous == 1
Limited == 2

vLimitedIncrementTask ==
    TaskOf(1, << Suspend(Self) >>,
           << Modulo(Add("ulCounter", 1), priMAX_COUNT + 1) >>
           \o If(Read("ulCounter"), {priMAX_COUNT}, << Suspend(Self) >>))

\* The counter is one more than the last value that vCounterControlTask has seen,
\* which stands for any larger value.
vContinuousIncrementTask ==
    TaskOf(0, << PriorityGet(Self) >>, <<
        PrioritySet(Self, 1), PriorityIs(Self, 1),
        From(Set("ulCounter", 1), "ulLastCounter"),
        PrioritySet(Self, 0), PriorityIs(Self, 0) >>)

\* The value of ulLastCounter is dead between two runs of the loop.
CheckCounting == <<
    Suspend(Continuous), StateIs(Continuous, "suspended"),
    From(Set("ulLastCounter", 0), "ulCounter"),
    Resume(Continuous), StateIs(Continuous, "ready"),
    Delay(priSLEEP_TIME), SuspendAll,
    Expect([Call("Compare", "ulCounter") EXCEPT !.from = "ulLastCounter"], 1 .. priMAX_COUNT),
    ResumeAll >>

vCounterControlTask ==
    Task(0,
        << Set("ulLastCounter", 0), Set("ulCounter", 0) >>
        \o Repeat([i \in 1 .. priLOOPS |-> i], LAMBDA sLoops : CheckCounting)
        \o << Suspend(Continuous), Set("ulCounter", 0), StateIs(Limited, "suspended"),
              Resume(Limited), StateIs(Limited, "suspended"),
              Is("ulCounter", priMAX_COUNT),
              EnterCritical, Add("usCheckVariable", 1), ExitCritical,
              Resume(Continuous) >>)

vQueueSendWhenSuspendedTask ==
    Task(0, << SuspendAll, Passes(From(SendToBack("xSuspendedTestQueue", 0), "ulValueToSend")),
               ResumeAll, Delay(priSLEEP_TIME), Modulo(Add("ulValueToSend", 1), PriMod) >>)

\* do ... while( xGotValue == pdFALSE ): an empty queue starts the loop again.
vQueueReceiveWhenSuspendedTask ==
    Task(0,
        << SuspendAll, SuspendAll,
           Into(Receive("xSuspendedTestQueue"), "ulReceivedValue"),
           Expect(ResumeAll, {0}), ResumeAll >>
        \o If(Read("ulReceivedValue"), 0 .. PriMod - 1,
              << Same("ulReceivedValue", "ulExpectedValue"),
                 Modulo(Add("ulExpectedValue", 1), PriMod) >>))

xAreDynamicPriorityTasksStillRunning == <<"usCheckVariable", "ulExpectedValue">>

\* The three tasks that count share nothing with the two that use the queue: they are
\* two programs.
vStartDynamicPriorityTasks == [
    counter |->
        Paced(Demo(<< vContinuousIncrementTask, vLimitedIncrementTask, vCounterControlTask >>,
                   <<>>, Zero({"ulCounter", "ulLastCounter", "usCheckVariable"}),
                   <<xAreDynamicPriorityTasksStillRunning[1]>>), {Continuous}),
    queue |->
        Paced(Demo(<< vQueueSendWhenSuspendedTask,
                      Locals(vQueueReceiveWhenSuspendedTask, {"ulReceivedValue"}) >>,
                   [xSuspendedTestQueue |-> Queue(priSUSPENDED_QUEUE_LENGTH)],
                   Zero({"ulValueToSend", "ulExpectedValue", "ulReceivedValue"}),
                   <<xAreDynamicPriorityTasksStillRunning[2]>>), {2})]
=============================================================================
