----------------------------- MODULE IntSemTest -----------------------------
(***************************************************************************)
(* demo-common/minimal/IntSemTest.c: an interrupt gives a mutex that a     *)
(* task waits for while it holds another one, and a counting semaphore.    *)
(***************************************************************************)
EXTENDS RtosKernel, Program

intsemMASTER_PRIORITY == 0
intsemSLAVE_PRIORITY  == 1
intsemINTERRUPT_MUTEX_GIVE_PERIOD_MS == 100
intsemMAX_COUNT       == 3
configMAX_PRIORITIES  == 5
xInterruptGivePeriod  == intsemINTERRUPT_MUTEX_GIVE_PERIOD_MS

xSlaveHandle == 2

PriorityStays(n) == PriorityIs(Self, n)

\* The master holds one mutex that the slave waits for, takes the other one when the
\* interrupt gives it, and has the priority of the slave.
TakeBoth == <<
    StateIs(xSlaveHandle, "suspended"), PriorityStays(intsemMASTER_PRIORITY),
    Passes(TakeMutex("xMasterSlaveMutex")), Resume(xSlaveHandle),
    StateIs(xSlaveHandle, "blocked"), PriorityStays(intsemSLAVE_PRIORITY),
    Set("xOkToGiveMutex", 1), Passes(Within(TakeMutex("xISRMutex"), 2 * xInterruptGivePeriod)),
    Set("xOkToGiveMutex", 0), Fails(TakeMutex("xISRMutex")),
    PriorityStays(intsemSLAVE_PRIORITY) >>

prvTakeAndGiveInTheSameOrder == TakeBoth \o <<
    Passes(GiveMutex("xISRMutex")), PriorityStays(intsemSLAVE_PRIORITY),
    Passes(GiveMutex("xMasterSlaveMutex")), PriorityStays(intsemMASTER_PRIORITY),
    StateIs(xSlaveHandle, "suspended"), ResetMutex("xISRMutex") >>

prvTakeAndGiveInTheOppositeOrder == TakeBoth \o <<
    Passes(GiveMutex("xMasterSlaveMutex")), PriorityStays(intsemSLAVE_PRIORITY),
    Passes(GiveMutex("xISRMutex")), PriorityStays(intsemMASTER_PRIORITY),
    ResetMutex("xISRMutex") >>

vInterruptMutexMasterTask ==
    LET rest == << Add("ulMasterLoops", 1), Delay(intsemINTERRUPT_MUTEX_GIVE_PERIOD_MS) >>
    IN  Task(intsemMASTER_PRIORITY, prvTakeAndGiveInTheSameOrder \o rest
                                    \o prvTakeAndGiveInTheOppositeOrder \o rest)

vInterruptMutexSlaveTask == Task(intsemSLAVE_PRIORITY, <<
    Suspend(Self), Passes(Within(TakeMutex("xMasterSlaveMutex"), Forever)),
    Passes(GiveMutex("xMasterSlaveMutex")) >>)

\* At the highest priority the task wakes with each give.
TakeTwiceFlagLate == <<
    PrioritySet(Self, configMAX_PRIORITIES - 1), Within(Take("xISRCountingSemaphore"), Forever),
    Set("xOkToGiveCountingSemaphore", 1), Within(Take("xISRCountingSemaphore"), Forever) >>
TakeTwice == <<
    PrioritySet(Self, configMAX_PRIORITIES - 1), Set("xOkToGiveCountingSemaphore", 1),
    Within(Take("xISRCountingSemaphore"), Forever), Within(Take("xISRCountingSemaphore"), Forever) >>

vInterruptCountingSemaphoreTask == Task(0,
    << Messages("xISRCountingSemaphore", 0), Set("xOkToGiveCountingSemaphore", 1),
       Delay(xInterruptGivePeriod * (intsemMAX_COUNT + 1)),
       Set("xOkToGiveCountingSemaphore", 0), Messages("xISRCountingSemaphore", intsemMAX_COUNT),
       Add("ulCountingSemaphoreLoops", 1), Set("xCount", 0) >>
    \o While(Take("xISRCountingSemaphore"), {Pass},
             << Modulo(Add("xCount", 1), intsemMAX_COUNT + 2) >>)
    \o << Is("xCount", intsemMAX_COUNT) >> \o TakeTwice
    \o << Set("xOkToGiveCountingSemaphore", 0), PrioritySet(Self, 0),
          Add("ulCountingSemaphoreLoops", 1) >>)

\* The interrupt handler, which the tick calls, once in a period.
vInterruptSemaphorePeriodicTest == Task(Interrupt,
    << Delay(intsemINTERRUPT_MUTEX_GIVE_PERIOD_MS) >>
    \o If(Read("xOkToGiveMutex"), {1},
          << Expect(GiveMutexFromISR("xISRMutex"), {Pass, Fail}),
             Fails(GiveMutexFromISR("xISRMutex")) >>)
    \o If(Read("xOkToGiveCountingSemaphore"), {1}, << Give("xISRCountingSemaphore") >>))

xAreInterruptSemaphoreTasksStillRunning == <<"ulMasterLoops", "ulCountingSemaphoreLoops">>

\* The tasks of the mutexes and the task of the semaphore share only the interrupt:
\* they are two programs.  A task of the idle priority may be kept waiting.
vStartInterruptSemaphoreTasks ==
    LET flags == Zero({"xOkToGiveMutex", "xOkToGiveCountingSemaphore"})
    IN [mutexes |->
            Prompt(Demo(<< vInterruptMutexMasterTask, vInterruptMutexSlaveTask,
                           vInterruptSemaphorePeriodicTest >>,
                        [xISRMutex |-> Mutex, xMasterSlaveMutex |-> Mutex],
                        flags @@ Zero({"ulMasterLoops"}),
                        <<xAreInterruptSemaphoreTasksStillRunning[1]>>), {0, 1}),
        counting |->
            Prompt(Demo(<< vInterruptCountingSemaphoreTask, vInterruptSemaphorePeriodicTest >>,
                        [xISRCountingSemaphore |-> Semaphore(intsemMAX_COUNT, 0)],
                        flags @@ Zero({"xCount", "ulCountingSemaphoreLoops"}),
                        <<xAreInterruptSemaphoreTasksStillRunning[2]>>), {0, 4})]
=============================================================================
