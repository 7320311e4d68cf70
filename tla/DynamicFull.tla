---------------------------- MODULE DynamicFull ----------------------------
(***************************************************************************)
(* demo-common/full/dynamic.c: the demonstration of module Dynamic in an   *)
(* older form, with two tasks that change a priority while the scheduler   *)
(* is suspended.                                                           *)
(***************************************************************************)
EXTENDS RtosKernel, Program

CONSTANTS priLOOPS, priMAX_COUNT, PriMod

Minimal == INSTANCE Dynamic

priSLEEP_TIME == 128

vLimitedIncrementTask == Minimal!vLimitedIncrementTask

vContinuousIncrementTask ==
    TaskOf(0, << PriorityGet(Self) >>, <<
        PrioritySet(Self, 1), From(Set("ulCounter", 1), "ulLastCounter"), PrioritySet(Self, 0) >>)

CheckCounting == <<
    Suspend(Minimal!Continuous), From(Set("ulLastCounter", 0), "ulCounter"),
    Resume(Minimal!Continuous), Delay(priSLEEP_TIME), SuspendAll,
    Expect([Call("Compare", "ulCounter") EXCEPT !.from = "ulLastCounter"], 1 .. priMAX_COUNT),
    ResumeAll >>

vCounterControlTask ==
    Task(0,
        << Set("ulLastCounter", 0), Set("ulCounter", 0) >>
        \o Repeat([i \in 1 .. priLOOPS |-> i], LAMBDA sLoops : CheckCounting)
        \o << Suspend(Minimal!Continuous), Set("ulCounter", 0),
              SuspendAll, Resume(Minimal!Limited), ResumeAll,
              Is("ulCounter", priMAX_COUNT),
              EnterCritical, Add("usCheckVariable", 1), ExitCritical,
              Resume(Minimal!Continuous) >>)

vQueueSendWhenSuspendedTask == Minimal!vQueueSendWhenSuspendedTask
vQueueReceiveWhenSuspendedTask == Minimal!vQueueReceiveWhenSuspendedTask

Helper == 2
CounterIs(n) == << EnterCritical, Is("ulPrioritySetCounter", n), ExitCritical >>

prvChangePriorityWhenSuspendedTask ==
    Task(1,
        << Set("ulPrioritySetCounter", 0), Resume(Helper) >> \o CounterIs(0)
        \o << SuspendAll, PrioritySet(Helper, 4) >> \o CounterIs(0) \o << ResumeAll >>
        \o CounterIs(1)
        \o << Delay(priSLEEP_TIME * 2), SuspendAll, PrioritySet(Helper, 0), ResumeAll >>)

prvChangePriorityHelperTask ==
    Task(0, << Add("ulPrioritySetCounter", 1), Suspend(Self) >>)

\* What the check function compares; the two other programs are watched as well.
xAreDynamicPriorityTasksStillRunning == <<"usCheckVariable">>

vStartDynamicPriorityTasks == [
    counter |->
        [Minimal!vStartDynamicPriorityTasks.counter EXCEPT
            !.tasks = << vContinuousIncrementTask, vLimitedIncrementTask, vCounterControlTask >>,
            !.watched = xAreDynamicPriorityTasksStillRunning],
    queue |-> Minimal!vStartDynamicPriorityTasks.queue,
    change |->
        Demo(<< prvChangePriorityWhenSuspendedTask, prvChangePriorityHelperTask >>,
             <<>>, Zero({"ulPrioritySetCounter"}), <<"ulPrioritySetCounter">>)]
=============================================================================
