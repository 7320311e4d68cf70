----------------------------- MODULE BlockTime -----------------------------
(***************************************************************************)
(* demo-common/minimal/blocktim.c: how long calls on a full or an empty    *)
(* queue block, also when the queue changes under the blocked task, and    *)
(* how long vTaskDelay and xTaskDelayUntil do.                             *)
(***************************************************************************)
EXTENDS RtosKernel, Program

CONSTANT bktQUEUE_LENGTH        \* 5 in the source

bktPRIMARY_PRIORITY   == 2      \* configMAX_PRIORITIES - 3
bktSECONDARY_PRIORITY == 1
bktSHORT_WAIT         == 20
bktPRIMARY_BLOCK_TIME == 10
bktALLOWABLE_MARGIN   == 15
bktTIME_TO_BLOCK      == 175
bktRUN_INDICATOR      == 85
xPeriod               == 75
xAllowableMargin      == bktALLOWABLE_MARGIN \div 2

Secondary == 2
Items == [i \in 1 .. bktQUEUE_LENGTH |-> i - 1]

GetOne == Expect(Receive("xTestQueue"), 0 .. bktQUEUE_LENGTH - 1)

\* The call c is refused after a block time of n ticks.
Blocks(c, n) == <<
    Stamp("xTimeWhenBlocking"), Fails(Within(c, n)),
    InTime("xTimeWhenBlocking", n, n + bktALLOWABLE_MARGIN) >>

\* Returns TRUE when the task has blocked.
WakesUntil(period, didBlock) ==
    Expect(DelayUntil("xLastUnblockTime", period), {IF didBlock THEN Pass ELSE 0})

prvBasicDelayTests == <<
    PrioritySet(Self, configTIMER_TASK_PRIORITY - 1),
    Stamp("xPreTime"), Delay(bktTIME_TO_BLOCK),
    InTime("xPreTime", 0, bktTIME_TO_BLOCK + xAllowableMargin),
    Stamp("xPostTime"), Stamp("xLastUnblockTime") >>
    \o Repeat(<<0, 1, 2, 3, 4>>, LAMBDA x : <<
          DelayUntil("xLastUnblockTime", xPeriod),
          Expect(Read("xPostTime"),
                 x * xPeriod .. x * xPeriod + bktTIME_TO_BLOCK + xAllowableMargin),
          Add("xPrimaryCycles", 1) >>)
    \o << Elapsed("xPostTime"),
          WakesUntil(xPeriod, TRUE),
          Delay(xPeriod \div 2), WakesUntil(xPeriod, TRUE),
          Delay(xPeriod), WakesUntil(xPeriod, FALSE),
          WakesUntil(xPeriod, TRUE),
          Delay(xPeriod + xAllowableMargin), WakesUntil(xPeriod, FALSE),
          Elapsed("xLastUnblockTime"),
          PrioritySet(Self, bktPRIMARY_PRIORITY) >>

\* The secondary task wakes twice from its block time, and says so.
AwaitSecondary == While(Read("xRunIndicator"), {0}, << Delay(bktSHORT_WAIT) >>)
                  \o << Delay(bktSHORT_WAIT), Set("xRunIndicator", 0) >>

\* The event that the secondary task waits for occurs and is undone again, at either
\* priority: the task must wait on, for the rest of its time.
Disturb(event, undo) == << event, undo, Is("xRunIndicator", 0),
    PrioritySet(Secondary, bktPRIMARY_PRIORITY + 2), Is("xRunIndicator", 0),
    PrioritySet(Secondary, bktSECONDARY_PRIORITY) >>

\* Test 1 and 2: the block time of the primary task; test 3 and 4: of the secondary.
Test1 == Repeat(Items, LAMBDA x : Blocks(Receive("xTestQueue"), bktPRIMARY_BLOCK_TIME * 2^x))
Test2 == Repeat(Items, LAMBDA x : << Passes(SendToBack("xTestQueue", x)) >>)
         \o Repeat(Items, LAMBDA x : Blocks(SendToBack("xTestQueue", x),
                                            bktPRIMARY_BLOCK_TIME * 2^x))
Test3 == << Set("xRunIndicator", 0), Resume(Secondary) >> \o AwaitSecondary
         \o Repeat(Items, LAMBDA x : Disturb(GetOne, Passes(SendToBack("xTestQueue", x))))
         \o AwaitSecondary
         \o Repeat(Items, LAMBDA x : << GetOne >>)
Test4 == << Resume(Secondary) >> \o AwaitSecondary
         \o Repeat(Items, LAMBDA x : Disturb(Passes(SendToBack("xTestQueue", x)), GetOne))
         \o While(Read("xRunIndicator"), {0}, << Delay(bktSHORT_WAIT) >>)
         \o << Delay(bktSHORT_WAIT), Add("xPrimaryCycles", 1) >>

vPrimaryBlockTimeTestTask ==
    Task(bktPRIMARY_PRIORITY, prvBasicDelayTests \o Test1 \o Test2 \o Test3 \o Test4)

SecondaryBlocks(c) == <<
    Suspend(Self), Stamp("xSecondTime"), Set("xRunIndicator", bktRUN_INDICATOR),
    Fails(Within(c, bktTIME_TO_BLOCK)),
    InTime("xSecondTime", bktTIME_TO_BLOCK, bktTIME_TO_BLOCK + bktALLOWABLE_MARGIN),
    Set("xRunIndicator", bktRUN_INDICATOR) >>

vSecondaryBlockTimeTestTask ==
    Task(bktSECONDARY_PRIORITY,
         SecondaryBlocks(SendToBack("xTestQueue", 0)) \o SecondaryBlocks(Receive("xTestQueue"))
         \o << Add("xSecondaryCycles", 1) >>)

xAreBlockTimeTestTasksStillRunning == <<"xPrimaryCycles", "xSecondaryCycles">>

vCreateBlockTimeTasks ==
    Prompt(Stamped(Demo(<< vPrimaryBlockTimeTestTask, vSecondaryBlockTimeTestTask >>,
                        [xTestQueue |-> Queue(bktQUEUE_LENGTH)],
                        Zero({"xRunIndicator", "xPrimaryCycles", "xSecondaryCycles"}),
                        xAreBlockTimeTestTasksStillRunning),
                   {"xTimeWhenBlocking", "xSecondTime", "xPreTime", "xPostTime",
                    "xLastUnblockTime"}), {0})
=============================================================================
