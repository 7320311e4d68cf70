------------------------------- MODULE Death -------------------------------
(***************************************************************************)
(* demo-common/minimal/death.c: a task creates pairs of tasks, the second  *)
(* of which deletes the first and then itself.                             *)
(***************************************************************************)
EXTENDS RtosKernel, Program

\* Bound: as many pairs may be alive at the same time.
Pairs == 3
First(i)  == 2 * i
Second(i) == 2 * i + 1
Firsts  == {First(i) : i \in 1 .. Pairs}
Seconds == {Second(i) : i \in 1 .. Pairs}

uxMaxNumberOfExtraTasksRunning == 3

\* Bound: while time passes, as many tasks may be left that the idle task has not yet had
\* the time to remove ("under heavy load the idle task might not get much processing
\* time").  With the pair that is alive they make up the number above.
LeftToIdle == 1

xDelaySuicidal == 200
xDelayCreator == 1000

KillsOnlyItself(xTaskToKill) ==
    IF xTaskToKill = "" THEN << Delay(xDelaySuicidal) >>
    ELSE << From(Set(xTaskToKill, 0), "xCreatedTask"),
            Delay(xDelaySuicidal), Delay(0), Delete(Self) >>

\* The first of a pair has nothing to kill.
vSuicidalTask(xTaskToKill) ==
    IF xTaskToKill = "" THEN << Delay(xDelaySuicidal) >>
    ELSE << From(Set(xTaskToKill, 0), "xCreatedTask"),
            Delay(xDelaySuicidal), Delay(0),
            At(Delete(0), xTaskToKill), Delete(Self) >>

vCreateTasks(uxPriority) ==
    TaskOf(uxPriority, << Delay(xDelayCreator) >>,
        << Delay(xDelayCreator),
           Set("xCreatedTask", 0),
           Into(Expect(Create(Firsts, uxPriority), Firsts), "xCreatedTask"),
           Expect(Create(Seconds, uxPriority), Seconds),
           Add("usCreationCount", 1) >>)

xIsCreateTaskStillRunning == <<"usCreationCount">>

vCreateSuicidalTasks(uxPriority) ==
    Unreaped(Prompt(Demo(<< vCreateTasks(uxPriority),
                   Later(vSuicidalTask("")), Later(vSuicidalTask("xTaskToKill1")),
                   Later(vSuicidalTask("")), Later(vSuicidalTask("xTaskToKill2")),
                   Later(vSuicidalTask("")), Later(vSuicidalTask("xTaskToKill3")) >>,
                <<>>, Zero({"xCreatedTask", "usCreationCount", "xTaskToKill1", "xTaskToKill2", "xTaskToKill3"}),
                xIsCreateTaskStillRunning), {0}), LeftToIdle)

\* A task that has deleted itself counts until the idle task has removed it.
uxTaskGetNumberOfTasks(K) == Cardinality({u \in DOMAIN K.task : K.task[u].run # Absent})

uxTasksRunningAtStart == 1

\* What the check function asks of the number of tasks.
NumberOfTasksOK(K) ==
    uxTaskGetNumberOfTasks(K) \in
        uxTasksRunningAtStart .. uxTasksRunningAtStart + uxMaxNumberOfExtraTasksRunning
=============================================================================
