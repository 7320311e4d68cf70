------------------------------ MODULE CountSem ------------------------------
(***************************************************************************)
(* demo-common/minimal/countsem.c: two tasks count a counting semaphore of *)
(* their own down and up, one from its maximum and one from zero.          *)
(***************************************************************************)
EXTENDS RtosKernel, Program

CONSTANT countMAX_COUNT_VALUE       \* 200 in the source

Counts == [i \in 1 .. countMAX_COUNT_VALUE |-> i - 1]

prvDecrementSemaphoreCount(xSemaphore, uxLoopCounter) ==
    << Fails(Give(xSemaphore)) >>
    \o Repeat(Counts, LAMBDA ux : <<
          Messages(xSemaphore, countMAX_COUNT_VALUE - ux), Passes(Take(xSemaphore)),
          Add(uxLoopCounter, 1) >>)
    \o << Messages(xSemaphore, 0), Fails(Take(xSemaphore)) >>

prvIncrementSemaphoreCount(xSemaphore, uxLoopCounter) ==
    << Fails(Take(xSemaphore)) >>
    \o Repeat(Counts, LAMBDA ux : <<
          Messages(xSemaphore, ux), Passes(Give(xSemaphore)), Add(uxLoopCounter, 1) >>)
    \o << Fails(Give(xSemaphore)) >>

prvCountingSemaphoreTask(xSemaphore, uxLoopCounter, atMax) ==
    TaskOf(0,
        (IF atMax THEN prvDecrementSemaphoreCount(xSemaphore, uxLoopCounter) ELSE <<>>)
        \o << Fails(Take(xSemaphore)) >>,
        prvIncrementSemaphoreCount(xSemaphore, uxLoopCounter)
        \o prvDecrementSemaphoreCount(xSemaphore, uxLoopCounter))

xAreCountingSemaphoreTasksStillRunning == <<"uxLoopCounter1", "uxLoopCounter2">>

vStartCountingSemaphoreTasks ==
    Prompt(Demo(<< prvCountingSemaphoreTask("xSemaphore1", "uxLoopCounter1", TRUE),
                   prvCountingSemaphoreTask("xSemaphore2", "uxLoopCounter2", FALSE) >>,
                [xSemaphore1 |-> Semaphore(countMAX_COUNT_VALUE, countMAX_COUNT_VALUE),
                 xSemaphore2 |-> Semaphore(countMAX_COUNT_VALUE, 0)],
                Zero({"uxLoopCounter1", "uxLoopCounter2"}),
                xAreCountingSemaphoreTasksStillRunning), {5})
=============================================================================
