------------------------------ MODULE GenQTest ------------------------------
(***************************************************************************)
(* demo-common/minimal/GenQTest.c: one task uses a queue from both ends;   *)
(* three or four others test mutexes, priority inheritance included.       *)
(***************************************************************************)
EXTENDS RtosKernel, Program

genqQUEUE_LENGTH == 5
genqSHORT_BLOCK == 2

genqMUTEX_LOW_PRIORITY == 0
genqMUTEX_TEST_PRIORITY == 1
genqMUTEX_MEDIUM_PRIORITY == 2
genqMUTEX_HIGH_PRIORITY == 3

MuLow == 1
MuMed == 2
MuHigh == 3
MuHigh2 == 4
MyPriorityIs(n) == PriorityIs(Self, n)
-----------------------------------------------------------------------------
(* prvSendFrontAndBackTest *)

\* The loop counter itself is sent, and must be what is then received.
SendCounter(op) == <<
    From(Set("ulLoopCounterSnapshot", 0), "ulLoopCounter"),
    From(Call(op, "xQueue"), "ulLoopCounterSnapshot"), Messages("xQueue", 1),
    Into(Receive("xQueue"), "ulData"), Same("ulLoopCounter", "ulData"),
    Messages("xQueue", 0) >>

FullQueue == << Messages("xQueue", 5), Fails(SendToFront("xQueue", 0)),
                Fails(SendToBack("xQueue", 0)) >>

prvSendFrontAndBackTest ==
    SendCounter("SendToFront") \o SendCounter("SendToBack")
    \o << SendToBack("xQueue", 2), SendToBack("xQueue", 3), SendToBack("xQueue", 4),
          Messages("xQueue", 3),
          SendToFront("xQueue", 1), SendToFront("xQueue", 0) >>
    \o FullQueue
    \o Repeat(<<0, 1, 2, 3, 4>>, LAMBDA ulData :
          << Expect(Peek("xQueue"), {ulData}), Expect(Receive("xQueue"), {ulData}) >>)
    \o << Messages("xQueue", 0),
          Passes(SendToBack("xQueue", 10)), Passes(SendToBack("xQueue", 11)),
          Messages("xQueue", 2),
          Passes(SendToFront("xQueue", 9)), Passes(SendToFront("xQueue", 8)),
          Passes(SendToFront("xQueue", 7)) >>
    \o FullQueue
    \o Repeat(<<7, 8, 9, 10, 11>>, LAMBDA ulData : << Expect(Receive("xQueue"), {ulData}) >>)
    \o << Messages("xQueue", 0), Add("ulLoopCounter", 1) >>
-----------------------------------------------------------------------------
(* The mutex tests of prvLowPriorityMutexTask *)

TakeAndWakeHigh == <<
    Expect(TakeMutex("xMutex"), {Pass}),
    Set("ulGuardedVariable", 0),
    MyPriorityIs(genqMUTEX_LOW_PRIORITY),
    Resume(MuHigh),
    StateIs(MuHigh, "blocked"),
    MyPriorityIs(genqMUTEX_HIGH_PRIORITY) >>

prvTakeTwoMutexesReturnInDifferentOrder ==
    TakeAndWakeHigh \o <<
    PrioritySet(Self, genqMUTEX_TEST_PRIORITY),
    MyPriorityIs(genqMUTEX_HIGH_PRIORITY),
    Resume(MuMed),
    Is("ulGuardedVariable", 0),
    Passes(TakeMutex("xLocalMutex")),
    Passes(GiveMutex("xMutex")),
    Is("ulGuardedVariable", 0),
    MyPriorityIs(genqMUTEX_HIGH_PRIORITY),
    Passes(GiveMutex("xLocalMutex")),
    Is("ulGuardedVariable", 1),
    MyPriorityIs(genqMUTEX_TEST_PRIORITY),
    PrioritySet(Self, genqMUTEX_LOW_PRIORITY) >>

prvTakeTwoMutexesReturnInSameOrder ==
    TakeAndWakeHigh \o <<
    Resume(MuMed),
    Is("ulGuardedVariable", 0),
    Passes(TakeMutex("xLocalMutex")),
    Passes(GiveMutex("xLocalMutex")),
    Is("ulGuardedVariable", 0),
    MyPriorityIs(genqMUTEX_HIGH_PRIORITY),
    Passes(GiveMutex("xMutex")),
    Is("ulGuardedVariable", 1),
    MyPriorityIs(genqMUTEX_LOW_PRIORITY) >>

\* Ends the wait of a task for the mutex, and waits for the own priority to fall.
AbortWait(task, priority) ==
    << Set("xBlockWasAborted", 1), Passes(AbortDelay(task)) >>
    \o While(PriorityGet(Self), (0 .. 4) \ {priority}, << Delay(genqSHORT_BLOCK) >>)

\* Built with INCLUDE_xTaskAbortDelay only, as is the task MuHigh2.
prvHighPriorityTimeout ==
    << HolderIs("xMutex", Nobody), Passes(TakeMutex("xMutex")), HolderIs("xMutex", MuLow),
       MyPriorityIs(genqMUTEX_LOW_PRIORITY),
       Resume(MuHigh), MyPriorityIs(genqMUTEX_HIGH_PRIORITY),
       Resume(MuHigh2), MyPriorityIs(genqMUTEX_HIGH_PRIORITY),
       From(Delay(0), "uxLoopCount") >>
    \o AbortWait(MuHigh, genqMUTEX_MEDIUM_PRIORITY)
    \o AbortWait(MuHigh2, genqMUTEX_LOW_PRIORITY)
    \o << HolderIs("xMutex", MuLow), GiveMutex("xMutex"), HolderIs("xMutex", Nobody),
          Passes(TakeMutex("xMutex")), MyPriorityIs(genqMUTEX_LOW_PRIORITY),
          Resume(MuHigh2), MyPriorityIs(genqMUTEX_MEDIUM_PRIORITY),
          Resume(MuHigh), MyPriorityIs(genqMUTEX_HIGH_PRIORITY) >>
    \o AbortWait(MuHigh, genqMUTEX_MEDIUM_PRIORITY)
    \o AbortWait(MuHigh2, genqMUTEX_LOW_PRIORITY)
    \o << GiveMutex("xMutex"), Add("uxLoopCount", 1) >>

prvLowPriorityMutexTask ==
    prvTakeTwoMutexesReturnInDifferentOrder \o << Add("ulLoopCounter2", 1) >>
    \o prvTakeTwoMutexesReturnInSameOrder   \o << Add("ulLoopCounter2", 1) >>
    \o prvHighPriorityTimeout

prvMediumPriorityMutexTask == << Suspend(Self), Add("ulGuardedVariable", 1) >>

prvHighPriorityMutexTask ==
    << Suspend(Self) >>
    \o IfElse(Within(TakeMutex("xMutex"), Forever), {Fail},
              << Is("xBlockWasAborted", 1), Set("xBlockWasAborted", 0) >>,
              << Passes(GiveMutex("xMutex")) >>)
-----------------------------------------------------------------------------
xAreGenericQueueTasksStillRunning == <<"ulLoopCounter", "ulLoopCounter2">>

\* The task of the queue and those of the mutexes share nothing but the check: they
\* are two programs.
vStartGenericQueueTasks == [
    queue |->
        Prompt(Demo(<< Task(0, prvSendFrontAndBackTest) >>,
                    [xQueue |-> Queue(genqQUEUE_LENGTH)],
                    Zero({"ulLoopCounter", "ulLoopCounterSnapshot", "ulData"}),
                    <<xAreGenericQueueTasksStillRunning[1]>>), {1}),
    mutexes |->
        Demo(<< Task(genqMUTEX_LOW_PRIORITY, prvLowPriorityMutexTask),
                Task(genqMUTEX_MEDIUM_PRIORITY, prvMediumPriorityMutexTask),
                Task(genqMUTEX_HIGH_PRIORITY, prvHighPriorityMutexTask),
                Task(genqMUTEX_MEDIUM_PRIORITY, prvHighPriorityMutexTask) >>,
             [xMutex |-> Mutex, xLocalMutex |-> Mutex],
             Zero({"ulLoopCounter2", "ulGuardedVariable", "xBlockWasAborted", "uxLoopCount"}),
             <<xAreGenericQueueTasksStillRunning[2]>>)]
-----------------------------------------------------------------------------
\* The outline (module Outlines) of the tasks that suspend themselves: they have the mutex
\* when they are about to give it.
Outline ==
    LET d == vStartGenericQueueTasks.mutexes
    IN  [program |-> d,
         depth   |-> [t \in {MuMed, MuHigh, MuHigh2} |->
                         [n \in DOMAIN d.tasks[t].program |->
                             [xMutex |-> IF d.tasks[t].program[n].op = "GiveMutex" THEN 1 ELSE 0,
                              xLocalMutex |-> 0]]]]

Outlines == {Outline}
=============================================================================
