----------------------------- MODULE AbortDelay -----------------------------
(***************************************************************************)
(* demo-common/minimal/AbortDelay.c: a task blocks in every way there is,  *)
(* and another one aborts its wait.  The file is part of the program only  *)
(* when INCLUDE_xTaskAbortDelay is set, as it is here.                     *)
(***************************************************************************)
EXTENDS RtosKernel, Program

abtCONTROLLING_PRIORITY == 2    \* configMAX_PRIORITIES - 3
abtBLOCKING_PRIORITY    == 3    \* configMAX_PRIORITIES - 2
xMaxBlockTime           == 100
xHalfMaxBlockTime       == 50
xAllowableMargin        == 7
xStartMargin            == 2
ulMax                   == 15   \* bound: all bits of a notification that is sent here

xControllingTask == 1
xBlockingTask    == 2

prvCheckExpectedTimeIsWithinAnAcceptableMargin(xStartTime, xExpectedBlockTime) ==
    InTime(xStartTime, xExpectedBlockTime, xExpectedBlockTime + xAllowableMargin)

\* A wait that ends with its block time, one that is aborted half way, and the first again.
Aborted(waits, isAborted) ==
    LET Lasts(calls, ticks) ==
            << Stamp("xTimeAtStart") >> \o calls
            \o << prvCheckExpectedTimeIsWithinAnAcceptableMargin("xTimeAtStart", ticks) >>
    IN  Lasts(waits, xMaxBlockTime) \o Lasts(isAborted, xHalfMaxBlockTime)
        \o Lasts(waits, xMaxBlockTime)

prvTestAbortingTaskNotifyWait ==
    Aborted(<< Fails(NotifyWait(0, 0, xMaxBlockTime)) >>, << Fails(NotifyWait(0, 0, Forever)) >>)

prvTestAbortingTaskNotifyTake ==
    LET take == << Expect(NotifyTake(0, xMaxBlockTime), {0}) >> IN Aborted(take, take)

prvTestAbortingTaskDelay == Aborted(<< Delay(xMaxBlockTime) >>, << Delay(xMaxBlockTime) >>)

prvTestAbortingTaskDelayUntil ==
    LET until(delay) == << Stamp("xLastBlockTime"), delay, Elapsed("xLastBlockTime") >>
        delay == DelayUntil("xLastBlockTime", xMaxBlockTime)
    IN  Aborted(until(Passes(delay)), until(delay))

prvTestAbortingSemaphoreTake ==
    LET take(ticks) == << Fails(Within(Take("xSemaphore"), ticks)) >>
    IN  Aborted(take(xMaxBlockTime), take(Forever))

prvTestAbortingEventGroupWait ==
    LET wait == << Expect(WaitBits("xEventGroup", {0}, TRUE, TRUE, xMaxBlockTime), {{}}) >>
    IN  Aborted(wait, wait) \o << DeleteGroup("xEventGroup") >>

prvTestAbortingQueueSend ==
    LET send == Within(SendToBack("xQueue", 0), xMaxBlockTime)
    IN  << Passes(send) >> \o Aborted(<< Fails(send) >>, << Fails(send) >>)
        \o << CreateBuffer("xQueue", Queue(1)) >>

prvTestAbortingStreamBufferReceive ==
    LET receive == << Expect(Within(Fetch("xStreamBuffer", 1, "uxRxData"), xMaxBlockTime), {0}) >>
    IN  Aborted(receive, receive)

\* The tests by their numbers, abtNOTIFY_WAIT_ABORTS and so on.
Tests == << prvTestAbortingTaskNotifyWait, prvTestAbortingTaskNotifyTake,
            prvTestAbortingTaskDelay, prvTestAbortingTaskDelayUntil,
            prvTestAbortingSemaphoreTake, prvTestAbortingEventGroupWait,
            prvTestAbortingQueueSend, prvTestAbortingStreamBufferReceive >>
abtMAX_TESTS == Len(Tests)

\* The task wakes when the other one has waited half the time of the second wait, and aborts
\* it.
prvControllingTask == Task(abtCONTROLLING_PRIORITY, <<
    Stamp("xTimeAtNotify"),
    From(Notify(xBlockingTask, 0, "eSetValueWithOverwrite"), "ulTestToPerform"),
    PrioritySet(Self, abtBLOCKING_PRIORITY),
    Delay(xMaxBlockTime + xHalfMaxBlockTime + xStartMargin),
    Passes(AbortDelay(xBlockingTask)),
    PrioritySet(Self, abtCONTROLLING_PRIORITY),
    NotifyTake(1, Forever),
    prvCheckExpectedTimeIsWithinAnAcceptableMargin(
        "xTimeAtNotify", 2 * xMaxBlockTime + xHalfMaxBlockTime),
    Modulo(Add("ulTestToPerform", 1), abtMAX_TESTS),
    Add("xControllingCycles", 1) >>)

\* A task that is not blocked cannot be aborted.
prvPerformSingleTaskTests == << Fails(AbortDelay(xBlockingTask)) >>

prvBlockingTask == TaskOf(abtBLOCKING_PRIORITY, prvPerformSingleTaskTests,
    << Out(NotifyWait(0, ulMax, Forever), "ulNotificationValue") >>
    \o Repeat([i \in 1 .. abtMAX_TESTS |-> i],
              LAMBDA i : If(Read("ulNotificationValue"), {i - 1}, Tests[i]))
    \o << NotifyGive(xControllingTask), Add("xBlockingCycles", 1) >>)

xAreAbortDelayTestTasksStillRunning == << "xControllingCycles", "xBlockingCycles" >>

vCreateAbortDelayTasks ==
    LET notified(task) == [task EXCEPT !.notes = Notes(1)]
    IN  Prompt(Stamped(Demo(<< notified(prvControllingTask), notified(prvBlockingTask) >>,
                            [xQueue |-> Queue(1), xSemaphore |-> Semaphore(1, 0),
                             xEventGroup |-> EventGroup, xStreamBuffer |-> StreamBuffer(1, 1)],
                            [uxRxData |-> <<>>]
                            @@ Zero({"ulTestToPerform", "ulNotificationValue",
                                     "xControllingCycles", "xBlockingCycles"}),
                            xAreAbortDelayTestTasksStillRunning),
                       {"xTimeAtStart", "xLastBlockTime", "xTimeAtNotify"}), {0})
=============================================================================
