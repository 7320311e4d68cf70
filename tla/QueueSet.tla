------------------------------ MODULE QueueSet ------------------------------
(***************************************************************************)
(* demo-common/minimal/QueueSet.c: a task and the tick interrupt send to   *)
(* the queues of a set, another task and the interrupt select from it.     *)
(* The relative priorities of the two tasks change as they run.  The small *)
(* demonstration of QueueSetPolling.c follows at the end.                  *)
(***************************************************************************)
EXTENDS RtosKernel, Program

CONSTANTS
    Queues,                         \* the queues in the set: all or some of xQueues
    queuesetQUEUE_LENGTH,           \* 3 in the source, of 3 queues
    queuesetPRIORITY_CHANGE_LOOPS,  \* 18
    queuesetALLOWABLE_RX_DEVIATION, \* 3
    ValueMod                        \* bound: the values sent count modulo this

queuesetSHORT_DELAY == 200

\* Bound: the interrupt sends every 101 ticks and the delay is 200; smaller times leave
\* fewer states in which only the phases of the two differ.
queuesetISR_TX_PERIOD == 1
queuesetTX_LOOP_DELAY == 4

queuesetLOW_PRIORITY == 0
queuesetMEDIUM_PRIORITY == 1

\* The values of the tick interrupt start here.
queuesetINITIAL_ISR_TX_VALUE == 1000

TaskValues == 0 .. ValueMod - 1
IsrValues == {queuesetINITIAL_ISR_TX_VALUE + n : n \in TaskValues}

SetTx == 1
SetRx == 2
SetIsr == 3

NULL == ""
Set1 == "xQueueSet"
-----------------------------------------------------------------------------
\* prvCheckReceivedValueWithinExpectedRange: the distance that is allowed between a
\* value and the one expected next, and with which the check passes near the ends.
prvCheckReceivedValueWithinExpectedRange ==
    {d \in 1 - ValueMod .. ValueMod - 1 :
        \/ d % ValueMod <= queuesetALLOWABLE_RX_DEVIATION
        \/ d % ValueMod >= ValueMod - queuesetALLOWABLE_RX_DEVIATION}

CheckAgainst(ulReceived, expected, base) ==
    << Expect([Call("Compare", ulReceived) EXCEPT !.from = expected, !.v = base],
              prvCheckReceivedValueWithinExpectedRange),
       Modulo(Add(expected, 1), ValueMod) >>

prvCheckReceivedValue(ulReceived) ==
    IfElse(Read(ulReceived), IsrValues,
           CheckAgainst(ulReceived, "ulExpectedReceivedFromISR", queuesetINITIAL_ISR_TX_VALUE),
           CheckAgainst(ulReceived, "ulExpectedReceivedFromTask", 0))

ReceiveSelected(queue, value) ==
    << Into(Expect(At(Receive(""), queue), TaskValues \cup IsrValues), value) >>
-----------------------------------------------------------------------------
(* The tests of prvSetupTest, on queues of their own *)

prvTestQueueOverwriteWithQueueSet == <<
    AddToSet("xQueueHandle", Set1),
    Overwrite("xQueueHandle", 0), Messages(Set1, 1),
    Expect(PeekSet(Set1), {"xQueueHandle"}),
    Overwrite("xQueueHandle", 1), Messages(Set1, 1),
    Expect(Select(Set1), {"xQueueHandle"}),
    Expect(Receive("xQueueHandle"), {1}), Messages(Set1, 0),
    Expect(Select(Set1), {NULL}),
    RemoveFromSet("xQueueHandle", Set1) >>

prvTestQueueOverwriteOnTwoQusInQueueSet == <<
    AddToSet("xQueueHandle1", Set1), AddToSet("xQueueHandle2", Set1),
    Overwrite("xQueueHandle1", 1), Messages(Set1, 1),
    Expect(PeekSet(Set1), {"xQueueHandle1"}),
    Overwrite("xQueueHandle2", 2), Messages(Set1, 2),
    Expect(PeekSet(Set1), {"xQueueHandle1"}),
    Overwrite("xQueueHandle1", 2), Messages(Set1, 2),
    Overwrite("xQueueHandle2", 1), Messages(Set1, 2),
    Overwrite("xQueueHandle1", 2), Messages(Set1, 2),
    Overwrite("xQueueHandle2", 1), Messages(Set1, 2),
    Expect(Select(Set1), {"xQueueHandle1"}), Messages(Set1, 1),
    Expect(Receive("xQueueHandle1"), {2}),
    Expect(Select(Set1), {"xQueueHandle2"}), Messages(Set1, 0),
    Expect(Receive("xQueueHandle2"), {1}),
    Expect(Select(Set1), {NULL}),
    RemoveFromSet("xQueueHandle1", Set1), RemoveFromSet("xQueueHandle2", Set1) >>

\* The same calls in their FromISR forms, made by the same task.
prvTestQueueOverwriteFromISROnTwoQusInQueueSet == prvTestQueueOverwriteOnTwoQusInQueueSet

prvSetupTest ==
    Repeat(SetToSeq(Queues), LAMBDA q :
        << Passes(AddToSet(q, Set1)), Fails(AddToSet(q, Set1)) >>)
    \o << Fails(RemoveFromSet("xQueue0", NULL)), Passes(RemoveFromSet("xQueue0", Set1)),
          SendToBack("xQueue0", 0), Fails(AddToSet("xQueue0", Set1)),
          Receive("xQueue0"), Passes(AddToSet("xQueue0", Set1)),
          Expect(Within(Select(Set1), queuesetSHORT_DELAY), {NULL}) >>
    \o prvTestQueueOverwriteWithQueueSet
    \o prvTestQueueOverwriteOnTwoQusInQueueSet
    \o prvTestQueueOverwriteFromISROnTwoQusInQueueSet
    \o << Resume(SetTx), Set("xSetupComplete", 1) >>
-----------------------------------------------------------------------------
prvChangeRelativePriorities ==
    << Modulo(Add("ulLoops", 1), queuesetPRIORITY_CHANGE_LOOPS) >>
    \o If(Read("ulLoops"), {0},
          IfElse(Read("ePriorities"), {"eEqualPriority"},
             << PrioritySet(SetRx, queuesetLOW_PRIORITY),
                Set("ePriorities", "eTxHigherPriority") >>,
          IfElse(Read("ePriorities"), {"eTxHigherPriority"},
             << PrioritySet(SetRx, queuesetMEDIUM_PRIORITY),
                PrioritySet(SetTx, queuesetLOW_PRIORITY),
                Set("ePriorities", "eTxLowerPriority") >>,
             << PrioritySet(SetTx, queuesetMEDIUM_PRIORITY),
                Set("ePriorities", "eEqualPriority"),
                Delay(queuesetTX_LOOP_DELAY) >>)))

\* prvRand picks the queue.
prvQueueSetSendingTask ==
    << Into(Choose(Queues), "xQueueInUse"),
       Passes(Within(At(From(SendToBack("", 0), "ulTaskTxValue"), "xQueueInUse"), Forever)),
       Modulo(Add("ulTaskTxValue", 1), ValueMod) >>
    \o prvChangeRelativePriorities

prvQueueSetReceivingTask ==
    << Into(PriorityGet(Self), "xBlockTime") >>
    \o IfElse(Into(Within(Select(Set1), Forever), "xActivatedQueue"), {NULL},
          << Is("xBlockTime", 0) >>,
          ReceiveSelected("xActivatedQueue", "ulReceived")
          \o << EnterCritical >> \o prvCheckReceivedValue("ulReceived") \o << ExitCritical >>
          \o << Add("ulCycleCounter", 1) >>)
-----------------------------------------------------------------------------
(* The tick interrupt *)

SelectsAndLeaves ==
    If(Into(Select(Set1), "xActivatedFromISR"), Queues, << Set("ulReceivedFromISR", 0) >>)
prvReceiveFromQueueInSetFromISR ==
    If(Into(Select(Set1), "xActivatedFromISR"), Queues,
       ReceiveSelected("xActivatedFromISR", "ulReceivedFromISR")
       \o prvCheckReceivedValue("ulReceivedFromISR"))

\* The queues in their order, and the one after the last one written to, in a circle.
xQueues == SelectSeq(<< "xQueue0", "xQueue1", "xQueue2" >>, LAMBDA q : q \in Queues)

WriteToNext ==
    FoldRight(LAMBDA i, others :
                  IfElse(Read("xQueueToWriteTo"), {xQueues[i]},
                         << Set("xQueueToWriteTo", xQueues[i + 1]) >>, others),
              [i \in 1 .. Len(xQueues) - 1 |-> i],
              << Set("xQueueToWriteTo", xQueues[1]) >>)

prvSendToQueueInSetFromISR ==
    If(At(From(SendToBack("", queuesetINITIAL_ISR_TX_VALUE), "ulISRTxValue"), "xQueueToWriteTo"),
       {Pass},
       << Modulo(Add("ulISRTxValue", 1), ValueMod) >> \o WriteToNext)

AccessDuringSetup ==
    << Delay(queuesetISR_TX_PERIOD + 1) >>
    \o prvReceiveFromQueueInSetFromISR \o prvSendToQueueInSetFromISR
vQueueSetAccessQueueSetFromISR ==
    << Delay(queuesetISR_TX_PERIOD + 1) >>
    \o If(Read("xSetupComplete"), {1},
          prvReceiveFromQueueInSetFromISR \o prvSendToQueueInSetFromISR)
-----------------------------------------------------------------------------
\* How often each queue was used is up to prvRand and not followed.
xAreQueueSetTasksStillRunning == <<"ulCycleCounter", "ulISRTxValue">>

vStartQueueSetTasks ==
    Paced(Demo(
        << Locals(TaskOf(queuesetMEDIUM_PRIORITY, << Suspend(Self) >>, prvQueueSetSendingTask),
                  {"xQueueInUse"}),
           Locals(TaskOf(queuesetMEDIUM_PRIORITY, prvSetupTest, prvQueueSetReceivingTask),
                  {"xBlockTime", "xActivatedQueue", "ulReceived"}),
           Locals(Task(Interrupt, vQueueSetAccessQueueSetFromISR),
                  {"xActivatedFromISR", "ulReceivedFromISR"}) >>,
        [o \in Queues \cup {"xQueueHandle", "xQueueHandle1", "xQueueHandle2", Set1} |->
            CASE o \in Queues -> Queue(queuesetQUEUE_LENGTH)
              [] o = Set1     -> Queue(queuesetQUEUE_LENGTH * Cardinality(Queues))
              [] OTHER        -> Queue(1)],
        [Zero({"ulTaskTxValue", "ulISRTxValue", "ulExpectedReceivedFromTask",
               "ulExpectedReceivedFromISR", "ulLoops", "ulReceived", "ulReceivedFromISR",
               "ulCycleCounter", "xSetupComplete", "xBlockTime", "xQueueInUse",
               "xActivatedQueue", "xActivatedFromISR", "ePriorities", "xQueueToWriteTo"})
         EXCEPT !.xQueueInUse = NULL, !.xActivatedQueue = NULL, !.xActivatedFromISR = NULL,
                !.ePriorities = "eEqualPriority", !.xQueueToWriteTo = "xQueue0"],
        xAreQueueSetTasksStillRunning), {SetRx})
-----------------------------------------------------------------------------
(* demo-common/minimal/QueueSetPolling.c: the tick interrupt sends a counter to a queue in *)
(* another set, and a task polls this set for it.                                          *)

setpollISR_TX_PERIOD == 50

setpollReceivingTask(SetPollMod) ==
    If(Into(Select("xQueueSet"), "xActivatedQueue"), {"xQueue"},
       << Into(Expect(At(Receive(""), "xActivatedQueue"), 0 .. SetPollMod - 1), "ulReceived"),
          Same("ulReceived", "ulExpected"),
          Modulo(Add("ulExpected", 1), SetPollMod), Add("ulCycleCounter", 1) >>)

vQueueSetPollingInterruptAccess(SetPollMod) ==
    << Delay(setpollISR_TX_PERIOD + 1) >>
    \o If(From(SendToBack("xQueue", 0), "ulValueToSend"), {Pass},
          << Modulo(Add("ulValueToSend", 1), SetPollMod) >>)

xAreQueueSetPollTasksStillRunning == <<"ulCycleCounter">>

\* Bound: the values sent count modulo SetPollMod.
vStartQueueSetPollingTask(setpollQUEUE_LENGTH, SetPollMod) ==
    Prompt(Demo(<< Locals(Task(0, setpollReceivingTask(SetPollMod)),
                          {"xActivatedQueue", "ulReceived"}),
                   Task(Interrupt, vQueueSetPollingInterruptAccess(SetPollMod)) >>,
         [xQueue |-> [Queue(setpollQUEUE_LENGTH) EXCEPT !.set = "xQueueSet"],
          xQueueSet |-> Queue(setpollQUEUE_LENGTH)],
         [Zero({"xActivatedQueue", "ulReceived", "ulExpected", "ulValueToSend",
                "ulCycleCounter"}) EXCEPT !.xActivatedQueue = ""],
         xAreQueueSetPollTasksStillRunning), {5})
-----------------------------------------------------------------------------
\* The outlines (module Outlines) of the two sets.  In prvSetupTest a queue is outside from
\* where it has been removed to where it is added again.
Outline ==
    LET setup == prvSetupTest
        away(q, n) == \E i \in 1 .. Min({n - 1, Len(setup)}) :
                          /\ setup[i].op = "RemoveFromSet" /\ setup[i].o = q /\ setup[i].expect = {Pass}
                          /\ \A j \in i + 1 .. Min({n - 1, Len(setup)}) : setup[j].op # "AddToSet" \/ setup[j].expect = {Fail}
    IN  [program |-> vStartQueueSetTasks, set |-> Set1, members |-> Queues,
         hand    |-> [t \in {SetRx, SetIsr} |->
                         IF t = SetRx THEN "xActivatedQueue" ELSE "xActivatedFromISR"],
         always  |-> {"xQueueToWriteTo"}, manager |-> SetRx,
         outside |-> [n \in DOMAIN vStartQueueSetTasks.tasks[SetRx].program |->
                         {q \in Queues : away(q, n)}]]

PollingOutline(setpollQUEUE_LENGTH, SetPollMod) ==
    [program |-> vStartQueueSetPollingTask(setpollQUEUE_LENGTH, SetPollMod),
     set |-> "xQueueSet", members |-> {"xQueue"}, hand |-> << "xActivatedQueue" >>,
     always |-> {}, manager |-> Nobody, outside |-> <<>>]
=============================================================================
