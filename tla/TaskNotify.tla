----------------------------- MODULE TaskNotify -----------------------------
(***************************************************************************)
(* demo-common/minimal/TaskNotify.c: a task notifies itself in every way   *)
(* there is, and then counts the notifications that a timer and an         *)
(* interrupt send it.                                                      *)
(***************************************************************************)
EXTENDS RtosKernel, Program

CONSTANTS
    notifyBITS,                 \* the width of a notification value: 32 in the source
    ulCyclesToRaisePriority,    \* 50
    ulMaxSendReceiveDeviation,  \* 5
    MaxPending,                 \* bound: time passes only while no more are pending
    Periods,                    \* bound: the random block times, of 10 .. 89 ticks
    NotifyMod                   \* bound: the counts of notifications are modulo this

notifyTASK_PRIORITY == 0
notifySUSPENDED_TEST_TIMER_PERIOD == 50
notifyUINT32_MAX == 2^notifyBITS - 1
notifyUINT32_LOW_BYTE == 3
notifyUINT32_HIGH_BYTE == 3 * 2^(notifyBITS - 2)
ulFirstNotifiedConst == 33
ulSecondNotifiedValueConst == 21
ulMaxLoops == 5
ulBit0 == 1
ulBit1 == 2
xTicksToWait == 100
xDontBlock == 0
configMAX_PRIORITIES == 5

xTaskToNotify == 1

Known(var, value) == << Is(var, value), Set(var, 0) >>

\* The task is notified, with or without a look at the value it had.
Sets(v, action)          == Passes(Notify(xTaskToNotify, v, action))
Query(v, action, before) == << Out(Notify(xTaskToNotify, v, action), "ulPreviousValue") >>
                            \o Known("ulPreviousValue", before)

\* It waits, and finds this result and value.
Finds(entry, exit, ticks, result, value) ==
    << Expect(Out(NotifyWait(entry, exit, ticks), "ulNotifiedValue"), {result}) >>
    \o Known("ulNotifiedValue", value)
Drain == NotifyWait(notifyUINT32_MAX, 0, xDontBlock)

\* Time-outs, overwriting and incrementing.
ValueTests ==
    << Stamp("xTimeOnEntering") >> \o Finds(notifyUINT32_MAX, 0, xTicksToWait, Fail, 0)
    \o << Expect(Elapsed("xTimeOnEntering"), xTicksToWait .. Forever) >>
    \o << Sets(ulFirstNotifiedConst, "eSetValueWithoutOverwrite"), Stamp("xTimeOnEntering") >>
    \o Finds(notifyUINT32_MAX, 0, xTicksToWait, Pass, ulFirstNotifiedConst)
    \o << InTime("xTimeOnEntering", 0, xTicksToWait - 1), Add("ulNotifyCycleCount", 1),
          Sets(ulFirstNotifiedConst, "eSetValueWithoutOverwrite"),
          Fails(Notify(xTaskToNotify, ulSecondNotifiedValueConst, "eSetValueWithoutOverwrite")) >>
    \o Finds(notifyUINT32_MAX, 0, 0, Pass, ulFirstNotifiedConst)
    \o << Sets(ulFirstNotifiedConst, "eSetValueWithOverwrite"),
          Sets(ulSecondNotifiedValueConst, "eSetValueWithOverwrite") >>
    \o Finds(notifyUINT32_MAX, 0, 0, Pass, ulSecondNotifiedValueConst)
    \o << Sets(ulFirstNotifiedConst, "eNoAction") >>
    \o Finds(notifyUINT32_MAX, 0, 0, Pass, ulSecondNotifiedValueConst)
    \o Repeat([i \in 1 .. ulMaxLoops |-> i], LAMBDA ulLoop : << Sets(0, "eIncrement") >>)
    \o Finds(notifyUINT32_MAX, 0, 0, Pass, ulSecondNotifiedValueConst + ulMaxLoops)
    \o << Fails(NotifyWait(0, 0, 0)) >>

\* Bits are set one after the other, and cleared on entry and on exit.
Bits == [i \in 1 .. notifyBITS |-> 2^(i - 1)]
BitTests ==
    LET but(bits) == notifyUINT32_MAX - bits
    IN  << Drain >>
        \o Repeat(Bits, LAMBDA bit : << Notify(xTaskToNotify, bit, "eSetBits") >>
                                     \o Finds(0, 0, 0, Pass, 2 * bit - 1))
        \o << Fails(NotifyWait(ulBit0, ulBit1, xTicksToWait)),
              Notify(xTaskToNotify, notifyUINT32_MAX, "eNoAction") >>
        \o Finds(0, 0, 0, Pass, but(ulBit0))
        \o << Notify(xTaskToNotify, 0, "eNoAction") >>
        \o Finds(0, ulBit1, 0, Pass, but(ulBit0))
        \o Finds(0, 0, 0, Fail, but(ulBit0 + ulBit1))
        \o << Notify(xTaskToNotify, 0, "eSetBits"), NotifyWait(0, notifyUINT32_MAX, 0) >>
        \o Query(0, "eSetBits", 0)
        \o Repeat(SubSeq(Bits, 1, notifyBITS - 1),
                  LAMBDA bit : Query(bit, "eSetBits", bit - 1))
        \o << Drain >>

\* The state and the value are cleared.
ClearTests ==
    LET cleared(bits, before) == Expect(NotifyValueClear(xTaskToNotify, bits), {before})
        cleared_state(result) == Expect(NotifyStateClear(Self), {result})
    IN  << cleared_state(0),
           Notify(xTaskToNotify, ulFirstNotifiedConst, "eSetValueWithoutOverwrite"),
           cleared_state(Pass), cleared_state(0),
           Notify(xTaskToNotify, notifyUINT32_MAX, "eSetBits"),
           cleared(notifyUINT32_HIGH_BYTE, notifyUINT32_MAX),
           cleared(notifyUINT32_LOW_BYTE, notifyUINT32_MAX - notifyUINT32_HIGH_BYTE),
           cleared(notifyUINT32_MAX,
                   notifyUINT32_MAX - notifyUINT32_HIGH_BYTE - notifyUINT32_LOW_BYTE),
           cleared(notifyUINT32_MAX, 0), cleared(0, 0), cleared(notifyUINT32_MAX, 0),
           cleared_state(Pass), cleared_state(0) >>

\* A suspended task that is resumed has not been notified, unless it has been.
SuspendTests ==
    << Add("ulNotifyCycleCount", 1), Drain, PrioritySet(Self, configMAX_PRIORITIES - 1),
       Within(TimerStart("xSingleTaskTimer"), Forever) >>
    \o Finds(0, 0, Forever, Fail, 0)
    \o << Add("ulNotifyCycleCount", 1), Within(TimerStart("xSingleTaskTimer"), Forever) >>
    \o Finds(0, 0, Forever, Pass, 1)
    \o << PrioritySet(Self, notifyTASK_PRIORITY), Within(TimerDelete("xSingleTaskTimer"), Forever),
          Add("ulNotifyCycleCount", 1), Drain >>

prvSingleTaskTests == ValueTests \o BitTests \o ClearTests \o SuspendTests

prvSuspendedTaskTimerTestCallback ==
    << Suspend(xTaskToNotify) >>
    \o If(Read("ulCallCount"), {1}, << Notify(xTaskToNotify, 1, "eSetValueWithOverwrite") >>)
    \o << StateIs(xTaskToNotify, "suspended"), Resume(xTaskToNotify), Set("ulCallCount", 1) >>

\* The count is loaded and stored; the interrupt counts in the same variable.
CountSent == << From(Set("ulCount", 0), "ulTimerNotificationsSent"),
                Modulo(From(Set("ulTimerNotificationsSent", 1), "ulCount"), NotifyMod),
                Set("ulCount", 0) >>

NotifyingTimerUnprotected == << NotifyGive(xTaskToNotify) >> \o CountSent
prvNotifyingTimer ==
    << NotifyGive(xTaskToNotify), EnterCritical >> \o CountSent \o << ExitCritical >>

\* What ulTaskNotifyTake returns is counted, in full or as one.
CountTaken(clear, ticks) == <<
    Into(NotifyTake(clear, ticks), "ulTaken"),
    Modulo(From(Add("ulTimerNotificationsReceived", 0), "ulTaken"), NotifyMod),
    Set("ulTaken", 0) >>
CountOne(ticks) == IfElse(NotifyTake(0, ticks), {0}, <<>>,
    << Modulo(Add("ulTimerNotificationsReceived", 1), NotifyMod) >>)

prvNotifiedTask ==
    LET rounds(xPeriod) == CountOne(xPeriod) \o CountOne(xDontBlock) \o CountTaken(1, xPeriod)
    IN  IfElse(Choose({0, 1}), {0},
               << Within(TimerChangePeriod("xTimer", Min(Periods)), Forever) >>,
               << Within(TimerChangePeriod("xTimer", Max(Periods)), Forever) >>)
        \o IfElse(Choose({0, 1}), {0}, rounds(Min(Periods)), rounds(Max(Periods)))
        \o IfElse(Read("ulCycles"), {0},
               << PrioritySet(xTaskToNotify, configMAX_PRIORITIES - 1) >>
               \o CountTaken(1, Forever)
               \o << PrioritySet(xTaskToNotify, notifyTASK_PRIORITY) >>,
               CountTaken(1, Forever))
        \o << Add("ulNotifyCycleCount", 1), Modulo(Add("ulCycles", 1), ulCyclesToRaisePriority) >>

\* The three ways to notify from the interrupt are used in turn.
xNotifyTaskFromISR == Task(Interrupt,
    << Delay(50) >>
    \o IfElse(Read("xAPIToUse"), {2},
              << Out(Notify(xTaskToNotify, 0, "eIncrement"), "ulIsrPrevious"),
                 Expect(Read("ulIsrPrevious"), 0 .. NotifyMod),
                 Set("ulIsrPrevious", 0) >>,
              << NotifyGive(xTaskToNotify) >>)
    \o << Modulo(Add("xAPIToUse", 1), 3), Modulo(Add("ulTimerNotificationsSent", 1), NotifyMod) >>)

xAreTaskNotificationTasksStillRunning == <<"ulNotifyCycleCount">>

\* What is done once, before the interrupt handler does anything, and what then goes on
\* for ever are two programs.  The first begins again when it is over.
vStartTaskNotifyTask ==
    LET notified(body) == [Task(notifyTASK_PRIORITY, body) EXCEPT !.notes = Notes(1)]
    IN [single |->
          Prompt(Stamped(Demo(
            << notified(prvSingleTaskTests \o << Set("ulCallCount", 0) >>),
               Daemon(<< prvSuspendedTaskTimerTestCallback >>) >>,
            [xTimerQueue |-> Commands,
             xSingleTaskTimer |-> Timer(notifySUSPENDED_TEST_TIMER_PERIOD, FALSE, 1)],
            Zero({"ulNotifyCycleCount", "ulCallCount", "ulNotifiedValue", "ulPreviousValue"}),
            xAreTaskNotificationTasksStillRunning), {"xTimeOnEntering"}), {0}),
        counting |->
          Backlog(Demo(<< notified(prvNotifiedTask), Daemon(<< prvNotifyingTimer >>), xNotifyTaskFromISR >>,
               [xTimerQueue |-> Commands, xTimer |-> Timer(90, FALSE, 1)],
               Zero({"ulNotifyCycleCount", "ulCycles", "ulTimerNotificationsReceived",
                     "ulTimerNotificationsSent", "ulTaken", "ulCount", "xAPIToUse",
                     "ulIsrPrevious"}),
               xAreTaskNotificationTasksStillRunning), MaxPending)]

\* When the task and those who notify it wait, it has received all that was sent.
AllReceived(K, m) ==
    (\A t \in DOMAIN K.task : K.task[t].run = "blocked")
    => m["ulTimerNotificationsSent"] = m["ulTimerNotificationsReceived"]

\* The test of the check function, on counts that wrap.  The task may for a moment have
\* received more than is counted as sent.
KeepsTrack(m) ==
    LET ahead == (m["ulTimerNotificationsSent"] - m["ulTimerNotificationsReceived"]) % NotifyMod
    IN  ahead <= ulMaxSendReceiveDeviation \/ ahead > NotifyMod \div 2
=============================================================================
