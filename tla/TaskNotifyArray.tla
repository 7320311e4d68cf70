-------------------------- MODULE TaskNotifyArray --------------------------
(***************************************************************************)
(* demo-common/minimal/TaskNotifyArray.c: the notifications of a task at   *)
(* each of several indexes, and that those at one index leave the others   *)
(* alone.  The file is part of the program only when                       *)
(* configTASK_NOTIFICATION_ARRAY_ENTRIES is at least 3, as it is here.     *)
(***************************************************************************)
EXTENDS RtosKernel, Program

CONSTANT notifyBITS             \* the width of a notification value: 32 in the source

configTASK_NOTIFICATION_ARRAY_ENTRIES == 3
configMAX_PRIORITIES  == 5
notifyTASK_PRIORITY   == 0
notifyUINT32_MAX      == 2^notifyBITS - 1
notifyUINT32_HIGH_BYTE == 3 * 2^(notifyBITS - 2)
notifyUINT32_LOW_BYTE == 3
ulFirstNotifiedConst  == 33
ulSecondNotifiedValueConst == 21
ulMaxLoops            == 5
ulBit0                == 1
ulBit1                == 2
xTicksToWait          == 100
xTimerPeriod          == 100
xMargin               == 50
xSuspendTimerPeriod   == 50
xDontBlock            == 0

xTaskToNotify == 1

\* The loops over the indexes: all, all but one, and those up to or above one.
Indexes == [ix \in 1 .. configTASK_NOTIFICATION_ARRAY_ENTRIES |-> ix]
Each(A(_))       == Repeat(Indexes, A)
Others(ix, A(_)) == Repeat(SelectSeq(Indexes, LAMBDA o : o # ix), A)
UpTo(ix, A(_))   == Repeat(SubSeq(Indexes, 1, ix), A)
Above(ix, A(_))  == Repeat(SubSeq(Indexes, ix + 1, Len(Indexes)), A)

Known(var, value) == << Is(var, value), Set(var, 0) >>

Tell(ix, v, action) == Index(Notify(xTaskToNotify, v, action), ix)
Sets(ix, v, action) == Passes(Tell(ix, v, action))
Query(ix, v, action, before) ==
    << Out(Tell(ix, v, action), "ulPreviousValue") >> \o Known("ulPreviousValue", before)

\* A wait at ix, with what it returns, the value it finds, or both.
Waits(ix, entry, exit, ticks) == Index(NotifyWait(entry, exit, ticks), ix)
Value(ix, exit, value) ==
    << Out(Waits(ix, 0, exit, 0), "ulNotifiedValue") >> \o Known("ulNotifiedValue", value)
Finds(ix, entry, exit, ticks, result, value) ==
    << Expect(Out(Waits(ix, entry, exit, ticks), "ulNotifiedValue"), {result}) >>
    \o Known("ulNotifiedValue", value)
FindsNone(ix) == << Fails(Waits(ix, 0, 0, 0)) >>
DrainAll == Each(LAMBDA ix : << Waits(ix, notifyUINT32_MAX, 0, 0) >>)

ValueClear(ix, bits)  == Index(NotifyValueClear(xTaskToNotify, bits), ix)
StateClear(ix)        == Index(NotifyStateClear(xTaskToNotify), ix)
ValueWas(ix, bits, value) == << Expect(ValueClear(ix, bits), {value}) >>
StateWas(ix, result)      == << Expect(StateClear(ix), {result}) >>

\* Reading a value without a change of it.
Holds(ix, value) == ValueWas(ix, 0, value)

\* Time-outs at one index while the others have been notified.
TimeoutTests == Each(LAMBDA ix :
    Others(ix, LAMBDA o : << Tell(o, 0, "eNoAction") >>)
    \o << Stamp("xTimeOnEntering") >> \o Finds(ix, notifyUINT32_MAX, 0, xTicksToWait, Fail, 0)
    \o << Expect(Elapsed("xTimeOnEntering"), xTicksToWait .. Forever) >>
    \o Others(ix, LAMBDA o : StateWas(o, Pass)))

\* A wait for what is there already.
NoWaitTests == Each(LAMBDA ix :
    << Passes(Out(Tell(ix, ulFirstNotifiedConst, "eSetValueWithoutOverwrite"), "ulPreviousValue")) >>
    \o Known("ulPreviousValue", 0)
    \o << Stamp("xTimeOnEntering") >>
    \o Finds(ix, notifyUINT32_MAX, 0, xTicksToWait, Pass, ulFirstNotifiedConst)
    \o << InTime("xTimeOnEntering", 0, xTicksToWait - 1) >>)

\* Values that are protected, or overwritten, or left, or incremented.
OverwriteTests ==
    LET first(o)   == << Sets(o, ulFirstNotifiedConst, "eSetValueWithOverwrite") >>
        restore(o) == StateWas(o, Pass) \o ValueWas(o, notifyUINT32_MAX, ulFirstNotifiedConst)
    IN  Each(LAMBDA ix :
            Others(ix, first)
            \o << Sets(ix, ulFirstNotifiedConst, "eSetValueWithoutOverwrite"),
                  Fails(Tell(ix, ulSecondNotifiedValueConst, "eSetValueWithoutOverwrite")) >>
            \o Finds(ix, notifyUINT32_MAX, 0, 0, Pass, ulFirstNotifiedConst)
            \o Others(ix, restore))
        \o Each(LAMBDA ix :
            Others(ix, first) \o first(ix)
            \o << Sets(ix, ulSecondNotifiedValueConst, "eSetValueWithOverwrite") >>
            \o Finds(ix, 0, notifyUINT32_MAX, 0, Pass, ulSecondNotifiedValueConst)
            \o Others(ix, restore))

IncrementTests ==
    LET incremented == ulSecondNotifiedValueConst + ulMaxLoops
    IN  Each(LAMBDA ix :
            << Sets(ix, ulSecondNotifiedValueConst, "eSetValueWithOverwrite"),
               Sets(ix, ulFirstNotifiedConst, "eNoAction") >>
            \o UpTo(ix, LAMBDA o : Value(o, 0, ulSecondNotifiedValueConst))
            \o Above(ix, LAMBDA o : Holds(o, 0)))
        \o Each(LAMBDA ix :
            Repeat([i \in 1 .. ulMaxLoops |-> i], LAMBDA ulLoop : << Sets(ix, 0, "eIncrement") >>)
            \o UpTo(ix, LAMBDA o : Value(o, 0, incremented)) \o FindsNone(ix)
            \o Above(ix, LAMBDA o : Holds(o, ulSecondNotifiedValueConst)))
        \o Each(LAMBDA ix : << ValueClear(ix, notifyUINT32_MAX) >>)

\* Bits are set one after the other, and cleared on entry and on exit.
Bits == [i \in 1 .. notifyBITS |-> 2^(i - 1)]
BitTests ==
    LET but(bits) == notifyUINT32_MAX - bits
    IN  Each(LAMBDA ix :
            Repeat(Bits, LAMBDA bit : << Tell(ix, bit, "eSetBits") >>
                                      \o Finds(ix, 0, 0, 0, Pass, 2 * bit - 1))
            \o UpTo(ix, LAMBDA o : Value(o, 0, notifyUINT32_MAX))
            \o Above(ix, LAMBDA o : Holds(o, 0)))
        \o Each(LAMBDA ix :
            << Fails(Waits(ix, ulBit0, ulBit1, xTicksToWait)), Tell(ix, notifyUINT32_MAX, "eNoAction") >>
            \o UpTo(ix, LAMBDA o : Finds(o, 0, 0, 0, IF o = ix THEN Pass ELSE Fail, but(ulBit0)))
            \o Above(ix, LAMBDA o : Holds(o, notifyUINT32_MAX)))
        \o Each(LAMBDA ix :
            << Tell(ix, 0, "eNoAction") >> \o Value(ix, ulBit1, but(ulBit0))
            \o Finds(ix, 0, 0, 0, Fail, but(ulBit0 + ulBit1))
            \o Others(ix, FindsNone))
        \o Each(LAMBDA ix :
            << Tell(ix, 0, "eSetBits"), Waits(ix, 0, notifyUINT32_MAX, 0) >>
            \o Query(ix, 0, "eSetBits", 0)
            \o Repeat(SubSeq(Bits, 1, notifyBITS - 1),
                      LAMBDA bit : Query(ix, bit, "eSetBits", bit - 1)))
        \o DrainAll

\* The state and the value are cleared.
ClearTests ==
    Each(LAMBDA ix :
        Each(LAMBDA o : StateWas(o, 0))
        \o << Tell(ix, ulFirstNotifiedConst, "eSetValueWithoutOverwrite") >>
        \o Each(LAMBDA o : (IF o = ix THEN StateWas(o, Pass) ELSE <<>>) \o StateWas(o, 0)))
    \o Each(LAMBDA ix :
        << Tell(ix, notifyUINT32_MAX, "eSetBits") >>
        \o ValueWas(ix, notifyUINT32_HIGH_BYTE, notifyUINT32_MAX)
        \o ValueWas(ix, notifyUINT32_LOW_BYTE, notifyUINT32_MAX - notifyUINT32_HIGH_BYTE)
        \o ValueWas(ix, notifyUINT32_MAX,
                    notifyUINT32_MAX - notifyUINT32_HIGH_BYTE - notifyUINT32_LOW_BYTE)
        \o ValueWas(ix, notifyUINT32_MAX, 0) \o ValueWas(ix, 0, 0) \o ValueWas(ix, notifyUINT32_MAX, 0)
        \o StateWas(ix, Pass) \o StateWas(ix, 0))

prvSingleTaskTests ==
    TimeoutTests \o NoWaitTests \o OverwriteTests \o IncrementTests \o BitTests \o ClearTests
    \o << Add("ulFineCycleCount", 1) >> \o DrainAll

\* The index that a callback or the interrupt notifies is the next one each time.
AtNextIndex(var, A(_)) ==
    Repeat(Indexes, LAMBDA ix : If(Read(var), {ix - 1}, A(ix)))
    \o << Modulo(Add(var, 1), configTASK_NOTIFICATION_ARRAY_ENTRIES) >>

prvSuspendedTaskTimerTestCallback ==
    << Suspend(xTaskToNotify) >>
    \o If(Read("ulCallCount"), {1},
          AtNextIndex("uxSuspendedIndex", LAMBDA ix : << Tell(ix, 1, "eSetValueWithOverwrite") >>))
    \o << StateIs(xTaskToNotify, "suspended"), Resume(xTaskToNotify), Modulo(Add("ulCallCount", 1), 2) >>

prvNotifyingTimerCallback ==
    AtNextIndex("uxTimerIndex", LAMBDA ix : << Index(NotifyGive(xTaskToNotify), ix) >>)

\* A suspended task that is resumed has not been notified, unless it has been.
prvTestNotifyTaskWhileSuspended ==
    LET start == << Within(TimerStart("xNotifyWhileSuspendedTimer"), Forever) >>
    IN  << PrioritySet(Self, configMAX_PRIORITIES - 1) >>
        \o Each(LAMBDA ix :
            Each(FindsNone) \o start \o Finds(ix, 0, 0, Forever, Fail, 0)
            \o Each(FindsNone) \o start
            \o << Passes(Out(Waits(ix, 0, 0, Forever), "ulNotifiedValue")),
                  Expect(Read("ulNotifiedValue"), 1 .. notifyUINT32_MAX), Set("ulNotifiedValue", 0) >>
            \o Each(LAMBDA o : Finds(o, 0, 0, 0, Fail, IF o <= ix THEN 1 ELSE 0)))
        \o << PrioritySet(Self, notifyTASK_PRIORITY), Add("ulFineCycleCount", 1) >> \o DrainAll

\* A value that is not taken for a notification.
Holding(ix, v) == << Tell(ix, v, "eSetValueWithOverwrite"), StateClear(ix) >>

StartIncrementing == << Within(TimerStart("xIncrementingIndexTimer"), Forever) >>

prvBlockOnTheNotifiedIndexed ==
    Each(LAMBDA ix : Holding(ix, ix))
    \o Each(LAMBDA ix :
        Holding(ix, 0) \o StartIncrementing
        \o << Expect(Index(NotifyTake(0, xTimerPeriod + xMargin), ix), {1}) >>
        \o Others(ix, LAMBDA o : Finds(o, 0, 0, xDontBlock, Fail, o))
        \o Holding(ix, ix))
    \o << Add("ulFineCycleCount", 1) >>

prvBlockOnANonNotifiedIndexed ==
    LET next(ix) == (ix % configTASK_NOTIFICATION_ARRAY_ENTRIES) + 1
    IN  Each(LAMBDA ix : << ValueClear(ix, notifyUINT32_MAX) >>)
        \o Each(LAMBDA ix :
            StartIncrementing
            \o << Stamp("xTimeOnEntering"), Fails(Waits(next(ix), 0, 0, xTimerPeriod + xMargin)),
                  Expect(Elapsed("xTimeOnEntering"), xTimerPeriod + xMargin .. Forever) >>
            \o Each(LAMBDA o :
                IF o = ix THEN Finds(o, 0, 0, xDontBlock, Pass, 1)
                               \o << ValueClear(o, notifyUINT32_MAX) >>
                ELSE Finds(o, 0, 0, xDontBlock, Fail, 0)))
        \o << Add("ulFineCycleCount", 1) >>

\* What follows a notification looks at the notified index as often as there are indexes,
\* and never at the others.
prvBlockOnNotificationsComingFromInterrupts ==
    Each(LAMBDA ix : Holding(ix, 0))
    \o Each(LAMBDA ix :
        << EnterCritical, Is("xSendNotificationFromISR", 0), Set("xSendNotificationFromISR", 1),
           ExitCritical,
           Into(Index(NotifyTake(1, Forever), ix), "ulNotifiedValue"),
           Is("xSendNotificationFromISR", 0) >> \o Known("ulNotifiedValue", 1)
        \o Each(LAMBDA o : Finds(ix, 0, 0, xDontBlock, Fail, 0)))
    \o << Add("ulFineCycleCount", 1) >>

prvNotifiedTask ==
    prvSingleTaskTests \o prvTestNotifyTaskWhileSuspended \o prvBlockOnTheNotifiedIndexed
    \o prvBlockOnANonNotifiedIndexed \o prvBlockOnNotificationsComingFromInterrupts
    \o << Add("ulCourseCycleCounter", 1) >>

\* The interrupt comes at every tick, but does something only when it is asked to; here it
\* comes after period ticks.
xNotifyArrayTaskFromISR(period) == Task(Interrupt,
    << Delay(period) >>
    \o If(Read("xSendNotificationFromISR"), {1},
          << Set("xSendNotificationFromISR", 0) >>
          \o AtNextIndex("uxIsrIndex", LAMBDA ix :
                 IfElse(Read("xAPIToUse"), {2}, Query(ix, 0, "eIncrement", 0),
                        << Index(NotifyGive(xTaskToNotify), ix) >>))
          \o << Modulo(Add("xAPIToUse", 1), 3) >>))

xAreTaskNotificationArrayTasksStillRunning == << "ulFineCycleCount", "ulCourseCycleCounter" >>

\* The whole task, which must not be kept waiting while it measures time; and its last part
\* by itself, with interrupts at any time.
vStartTaskNotifyArrayTask ==
    LET notified(body) == [Task(notifyTASK_PRIORITY, body)
                           EXCEPT !.notes = Notes(configTASK_NOTIFICATION_ARRAY_ENTRIES)]
        interrupts == {"xSendNotificationFromISR", "uxIsrIndex", "xAPIToUse", "ulPreviousValue",
                       "ulNotifiedValue", "ulFineCycleCount"}
    IN [cycle |->
          Prompt(Stamped(Demo(
            << notified(prvNotifiedTask),
               Daemon(<< prvSuspendedTaskTimerTestCallback, prvNotifyingTimerCallback >>),
               xNotifyArrayTaskFromISR(1000) >>,
            [xTimerQueue |-> Commands,
             xNotifyWhileSuspendedTimer |-> Timer(xSuspendTimerPeriod, FALSE, 1),
             xIncrementingIndexTimer |-> Timer(xTimerPeriod, FALSE, 2)],
            Zero(interrupts \cup {"ulCallCount", "uxSuspendedIndex", "uxTimerIndex",
                                  "ulCourseCycleCounter"}),
            xAreTaskNotificationArrayTasksStillRunning), {"xTimeOnEntering"}), {0}),
        interrupts |->
          Demo(<< notified(prvBlockOnNotificationsComingFromInterrupts), xNotifyArrayTaskFromISR(1) >>,
               <<>>, Zero(interrupts),
               SubSeq(xAreTaskNotificationArrayTasksStillRunning, 1, 1))]
=============================================================================
