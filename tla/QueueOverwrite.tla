--------------------------- MODULE QueueOverwrite ---------------------------
(***************************************************************************)
(* demo-common/minimal/QueueOverwrite.c: a task and the tick interrupt     *)
(* overwrite the one item of a queue each, and peek at it.                 *)
(***************************************************************************)
EXTENDS RtosKernel, Program

CONSTANT qoLOOPS            \* 5 in the source

uxQueueLength == 1

prvQueueOverwriteTask ==
    << Overwrite("xTaskQueue", 10), Expect(Receive("xTaskQueue"), {10}) >>
    \o Repeat([i \in 1 .. qoLOOPS |-> i - 1], LAMBDA x : <<
          Overwrite("xTaskQueue", x), Expect(Peek("xTaskQueue"), {x}),
          Messages("xTaskQueue", uxQueueLength) >>)
    \o << Receive("xTaskQueue"), Messages("xTaskQueue", 0), Add("ulLoopCounter", 1) >>

\* The three cases of the switch follow each other, one in each run of the interrupt.
vQueueOverwritePeriodicISRDemo == <<
    Delay(1), Overwrite("xISRQueue", 10), Expect(Peek("xISRQueue"), {10}),
    Delay(1), Overwrite("xISRQueue", 20),
    Delay(1), Expect(Receive("xISRQueue"), {20}) >>

xIsQueueOverwriteTaskStillRunning == <<"ulLoopCounter">>

vStartQueueOverwriteTask(uxPriority) ==
    Prompt(Demo(<< Task(uxPriority, prvQueueOverwriteTask),
            Task(Interrupt, vQueueOverwritePeriodicISRDemo) >>,
         [xTaskQueue |-> Queue(uxQueueLength), xISRQueue |-> Queue(uxQueueLength)],
         Zero({"ulLoopCounter"}), xIsQueueOverwriteTaskStillRunning), {5})
=============================================================================
