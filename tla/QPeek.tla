------------------------------- MODULE QPeek -------------------------------
(***************************************************************************)
(* demo-common/minimal/QPeek.c: four tasks of different priorities peek at *)
(* and receive from one queue.                                             *)
(***************************************************************************)
EXTENDS RtosKernel, Program

qpeekQUEUE_LENGTH == 5
qpeekSHORT_DELAY == 10

PeekL == 1
PeekM == 2
PeekH1 == 3
PeekH2 == 4

First  == 1     \* 0x11223344
Second == 2     \* 0x01234567
Third  == 3     \* 0xaabbaabb

PeekFor(v)    == Expect(Within(Peek("xQueue"), Forever), {v})
ReceiveFor(v) == Expect(Within(Receive("xQueue"), Forever), {v})

prvHighestPriorityPeekTask == <<
    PeekFor(First), Messages("xQueue", 1),
    Expect(Receive("xQueue"), {First}),
    PeekFor(Second), Messages("xQueue", 1),
    Suspend(Self),
    PeekFor(Third),
    Suspend(Self) >>

prvHighPriorityPeekTask == <<
    PeekFor(Second), Messages("xQueue", 1),
    Suspend(Self),
    ReceiveFor(Third),
    Suspend(Self) >>

prvMediumPriorityPeekTask == <<
    PeekFor(Second), Messages("xQueue", 1),
    Add("ulLoopCounter", 1),
    Suspend(Self) >>

ResumesNotHighest == <<
    Passes(SendToBack("xQueue", First)), Messages("xQueue", 0),
    Passes(SendToBack("xQueue", Second)),
    Expect(Receive("xQueue"), {Second}),
    Delay(qpeekSHORT_DELAY),
    Resume(PeekM), Resume(PeekH1),
    Passes(SendToFront("xQueue", Third)),
    Fails(Peek("xQueue")),
    Resume(PeekH1), Resume(PeekH2),
    Delay(qpeekSHORT_DELAY) >>

prvLowPriorityPeekTask == <<
    Passes(SendToBack("xQueue", First)), Messages("xQueue", 0),
    Passes(SendToBack("xQueue", Second)),
    Expect(Receive("xQueue"), {Second}),
    Delay(qpeekSHORT_DELAY),
    Resume(PeekM), Resume(PeekH1), Resume(PeekH2),
    Passes(SendToFront("xQueue", Third)),
    Fails(Peek("xQueue")),
    Resume(PeekH1), Resume(PeekH2),
    Delay(qpeekSHORT_DELAY) >>

xAreQueuePeekTasksStillRunning == <<"ulLoopCounter">>

vStartQueuePeekTasks ==
    Demo(<< Task(0, prvLowPriorityPeekTask),
            Task(1, prvMediumPriorityPeekTask),
            Task(2, prvHighPriorityPeekTask),
            Task(3, prvHighestPriorityPeekTask) >>,
         [xQueue |-> Queue(qpeekQUEUE_LENGTH)],
         Zero({"ulLoopCounter"}), xAreQueuePeekTasksStillRunning)
============================================================================
