------------------------------ MODULE SemTest ------------------------------
(***************************************************************************)
(* demo-common/minimal/semtest.c: two tasks share a variable guarded by a  *)
(* binary semaphore; the one that has it counts the variable from 0 to the *)
(* expected value and gives the semaphore back.  One pair of tasks polls   *)
(* its semaphore, another waits for it.                                    *)
(***************************************************************************)
EXTENDS RtosKernel, Program

CONSTANTS
    semtstBLOCKING_EXPECTED_VALUE,      \* 0xfff in the source
    semtstNON_BLOCKING_EXPECTED_VALUE   \* 0xff in the source

semtstNUM_TASKS    == 4
semtstDELAY_FACTOR == 10
tskIDLE_PRIORITY   == 0

sCheckVariables == <<"sCheck0", "sCheck1", "sCheck2", "sCheck3">>

\* "sNextCheckVariable is not semaphore protected!": but it is read and incremented in one
\* critical section.
Number(use) == << EnterCritical, Into(Read("sNextCheckVariable"), use),
                  Modulo(Add("sNextCheckVariable", 1), 32768), ExitCritical >>

\* A check that fails is remembered: the task counts no cycle from then on.
Checks(c, sError) == << [c EXCEPT !.ok = 2], Set(sError, 1) >>

Success(use, sError) ==
    If(Read(sError), {0},
       Repeat([i \in 1 .. semtstNUM_TASKS |-> i], LAMBDA i :
              If(Read(use), {i - 1}, << Add(sCheckVariables[i], 1) >>)))

\* A pair of tasks with a semaphore and a shared variable of its own.
Pair(semaphore, shared, block, expected) ==
    [xSemaphore |-> semaphore, pulSharedVariable |-> shared, xBlockTime |-> block,
     ulExpectedValue |-> expected]

\* The loop counts to the expected value, that one included: it sets the variable, and
\* looks whether it has the value.
Counting(pair, sError, n) ==
    [i \in 1 .. 3 * n |->
        LET ulCounter == (i - 1) \div 3
        IN  IF i % 3 = 1 THEN Set(pair.pulSharedVariable, ulCounter)
            ELSE Checks(Is(pair.pulSharedVariable, ulCounter), sError)[((i - 2) % 3) + 1]]

CountBelow(pair, sError) == Counting(pair, sError, pair.ulExpectedValue)
CountUp(pair, sError)    == Counting(pair, sError, pair.ulExpectedValue + 1)

GiveForgotten(pair, sError) == <<>>
GiveBack(pair, sError) == Checks(Passes(Give(pair.xSemaphore)), sError)

\* The variable must be as the last holder left it.  Only tasks that wait for the semaphore
\* sleep after a cycle.
prvSemaphoreTest(priority, pair, use, sError) ==
    TaskOf(priority, Number(use),
        If(Within(Take(pair.xSemaphore), pair.xBlockTime), {Pass},
           Checks(Is(pair.pulSharedVariable, pair.ulExpectedValue), sError)
           \o CountUp(pair, sError) \o GiveBack(pair, sError) \o Success(use, sError)
           \o (IF pair.xBlockTime = 0 THEN <<>>
               ELSE << Delay(pair.xBlockTime * semtstDELAY_FACTOR) >>)))

Polling  == Pair("xPolledSemaphore", "ulPolled", 0, semtstNON_BLOCKING_EXPECTED_VALUE)
Blocking == Pair("xBlockingSemaphore", "ulBlocking", 100, semtstBLOCKING_EXPECTED_VALUE)

PollingTasks == << prvSemaphoreTest(tskIDLE_PRIORITY, Polling, "use1", "sError1"),
                   prvSemaphoreTest(tskIDLE_PRIORITY, Polling, "use2", "sError2") >>
BlockingTasks(uxPriority) == << prvSemaphoreTest(uxPriority, Blocking, "use1", "sError1"),
                                prvSemaphoreTest(uxPriority, Blocking, "use2", "sError2") >>

xAreSemaphoreTasksStillRunning == sCheckVariables

\* others: how many tasks have taken their numbers before.
Semaphores(tasks, others, watched) ==
    Prompt(Demo(tasks, [xPolledSemaphore |-> Semaphore(1, 1), xBlockingSemaphore |-> Semaphore(1, 1)],
                [Zero(Range(sCheckVariables) \cup {"use1", "use2", "sError1", "sError2",
                                             "ulPolled", "ulBlocking", "sNextCheckVariable"})
                 EXCEPT !.ulPolled = semtstNON_BLOCKING_EXPECTED_VALUE,
                        !.ulBlocking = semtstBLOCKING_EXPECTED_VALUE,
                        !.sNextCheckVariable = others], watched), {5})

\* The pairs share only the counter that they take their numbers from: a pair is run on its
\* own, as if the other one had taken its numbers before, or takes them later.  A task that
\* polls, or is late (it starves), may find the semaphore taken each time it looks: only the
\* tasks that wait and are not late are known to go on for ever.
vStartSemaphoreTasks(uxPriority) ==
    LET second == SubSeq(sCheckVariables, 3, 4)
    IN  [polling  |-> Semaphores(PollingTasks, 0, <<>>),
         blocking |-> Prompt(Semaphores(BlockingTasks(uxPriority), 2, second), {0}),
         starved  |-> Semaphores(BlockingTasks(uxPriority), 2, <<>>)]
-----------------------------------------------------------------------------
\* The outline (module Outlines) of the tasks of a pair: they have the semaphore from the
\* first look at the variable to the give, and know what they have set it to.
Outline(program, pair) ==
    LET first == Len(Number("use1")) + 2
        last  == first + 2 + 3 * (pair.ulExpectedValue + 1)
    IN  [program |-> program, o |-> pair.xSemaphore,
         variable |-> pair.pulSharedVariable, value |-> pair.ulExpectedValue,
         inside |-> [t \in 1 .. 2 |-> first .. last],
         holds  |-> [t \in 1 .. 2 |-> [n \in first .. last |->
                        IF n < first + 3 THEN pair.ulExpectedValue ELSE (n - first - 3) \div 3]]]

Outlines(uxPriority) ==
    LET s == vStartSemaphoreTasks(uxPriority)
    IN  {Outline(s.polling, Polling), Outline(s.blocking, Blocking), Outline(s.starved, Blocking)}
=============================================================================
