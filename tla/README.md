# A TLA+ model of the STM32F7 FreeRTOS application

These modules model the application's own code (`src/src/`, `src/scripts/`,
`src/configuration/`) and the standard demonstration tasks that are part of its
"full" program (`src/demo-common/`), the latter on a model of the part of the
FreeRTOS kernel that they call.  TLC checks every module on small instances;
TLAPS proves the theorems of the eight `*Proofs` modules for every value of the
constants.  `PROJECT.json` lists the components, the runs, the mutants that
show that each property can fail, the source lines behind each definition, the
hazards and the theorems.

Paths below are relative to the repository root; `app-task-logging.c` stands
for `src/app-task-logging.c`, and so on.

## 1. The system

### Components

| component | code | state | operations | correct when |
|---|---|---|---|---|
| Logging | `app-task-logging.c` | mutex `xLoggingSemaphore`, stream buffer, message counter, the logging task's read buffer | `vLoggingPrintf` (from every task), `vLoggingTask`, `vWriteUart` | items enter the stream whole and in order, all of them arrive, the UART has one writer, nobody keeps the mutex, nobody sleeps on data |
| Blinky | `app-task-blinky.c` | queue of length one, wake time, LED | Tx task (periodic send), Rx task (receive, toggle) | no send meets a full queue, each send toggles the LED once, the period is kept across tick wraps |
| Boot and heap | `app-main.c`, `app-kernel-hooks.c` | the heap, which objects exist | `main()`'s calls, one after the other; the malloc hook | all objects exist exactly when there is room, and the scheduler never runs with half of blinky |
| Random numbers | `app-hardware.c`, `app-network.c` | two static `ulNextRand`, `ulSeed` | seeding at boot, `uxRand` | the seed is used; full period, equal distribution |
| Device Advisor gate | `scripts/da-monitor.sh`, `configuration/awscsdk-buildspec-test.yml` | status file, exit code, the background application (its own life), the suite run | poll, judge, sleep; the build commands around it | the gate opens for PASS only, never for an application that has ended by itself, and the build ends |
| IoT credentials | `scripts/create-iot-credential.sh` | local variables and files; thing, policy, certificates, links and secret in the service | one call of the service per step; may fail, be interrupted, be repeated | a clean run makes a linked tuple, an error links nothing, a secret with a certificate's ARN holds that certificate and its key |
| IAM scripts | `scripts/create-iam-roles.sh`, `delete-iam-roles.sh` | roles and policies in the service | straight sequences of calls whose results are not read | not modelled, see section 7 |
| Bootstrap scripts | `scripts/create-deploy-to-bucket.sh`, `initialize-self-directed.sh` | none of their own | straight sequences | - |
| Demo kernel | (external) as configured by `inc/FreeRTOSConfig.h` | tasks, queues, mutexes, notifications, event groups, timers, buffers | the calls of the demos | - |
| Mutex and semaphore demos | `minimal/recmutex.c`, `semtest.c`, `countsem.c`, `IntSemTest.c` | (recursive) mutexes with inheritance, binary and counting semaphores, guarded variables | tasks of different priorities, a tick interrupt that gives | every take and give has the expected result, priorities are inherited and returned as the code expects, a guarded variable is never seen half changed, nobody stalls |
| Queue demos | `minimal/BlockQ.c`, `PollQ.c`, `GenQTest.c`, `QPeek.c`, `QueueOverwrite.c`, `QueueSet.c`, `QueueSetPolling.c` | queues, mutexes, queue sets, check variables | producers, consumers, tasks that poll, peek, overwrite, select; interrupts that send and receive | values in order, none lost, the right task is woken, the set has a handle for each item |
| Priority and suspension demos | `minimal/dynamic.c`, `full/dynamic.c`, `minimal/blocktim.c`, `minimal/death.c`, `minimal/AbortDelay.c` | a shared counter, queues, block times, the number of tasks | suspend, resume, change priorities, suspend the scheduler, create, delete, abort a wait | counters exactly as expected, block times kept, no more tasks than allowed |
| Event group demo | `minimal/EventGroupsDemo.c` | event groups, sync variables | set, wait for any or all, rendezvous, delete under waiting tasks, bits set by an interrupt | every call returns the bits expected at that point |
| Notification demos | `minimal/TaskNotify.c`, `TaskNotifyArray.c` | notification value and state, one or several of a task, counts of what was sent | every action, wait and take, with block times; from a task, a timer, an interrupt | no notification lost or counted twice, one index does not wake another |
| Timer demo | `minimal/TimerDemo.c` | timers, their command queue, callback counts | start, stop, reset, change, delete from task, timer task and interrupt | each timer expires exactly as often as the period demands, the full command queue refuses |
| Stream and message buffer demos | `minimal/StreamBufferDemo.c`, `MessageBufferDemo.c`, `StreamBufferInterrupt.c`, `MessageBufferAMP.c` | buffers, the position in a test string | echo, send in parts, trigger levels, a sender in an interrupt, a control buffer for two data buffers | bytes in order, none lost, messages whole, fill levels exact |
| Other demos | `full/events.c`, `minimal/IntQueue.c`, `StaticAllocation.c`, arithmetic, serial, LED, co-routine demos | | | not modelled, see section 7 |
| Network hooks, UART demo, vendor start-up code, build and cloud templates | `app-network-hooks.c`, `dem-uart.c`, `system_stm32f7xx.c`, `Makefile`, ... | no state machine of the project's own | | - |

### How they interact

`main()` (AppMain) creates the objects of Logging and Blinky and starts the
scheduler.  Every task calls `vLoggingPrintf`; callers and the logging task
share the mutex and the stream buffer and nothing else.  Before the scheduler
runs, `main()` writes to the UART directly, and so shares it with the logging
task that has not started yet.  The IP task calls `uxRand`, whose seed should
come from the hardware set-up.  The demos are independent of each other: a demo
meets the others only as tasks and interrupts that have the processor at the
wrong moment.  Inside a demo, tasks, the timer task and interrupt handlers share
kernel objects and plain variables; a check function, called from outside, reads
the variables.  The scripts interact with remote services, and the build script
with a background process.

### What is hard

Preemption at any point of a task and priorities that forbid some orders
(Logging, Blinky, all demos); interrupts between any two calls (IntSemTest,
EventGroupsDemo, TaskNotify, QueueSet, StreamBufferInterrupt); time-outs and
retries (Logging, BlockQ, RecMutex, BlockTime, AbortDelay); priority inheritance
over nested mutexes and its return after a time-out (RecMutex, GenQTest,
IntSemTest); a task that is resumed or deleted, or whose object is deleted, at the wrong moment
(Dynamic, Death, EventGroupsDemo); queues, the timer command queue and buffers
at their limits (QueueOverwrite, TimerDemo, the buffers); tick counts that wrap
and tasks that are late (Blinky, PollQ); allocations that fail in the middle of
set-up (AppMain); stale or missing answers of a service, interruption and
repetition (DaMonitor, IotCredential).  The list at the source line where each
bites is `hazards` in `PROJECT.json`.

## 2. The modules

| module | models | extends |
|---|---|---|
| `LogPipe` | abstract promise of logging: whole items into an ordered stream, delivered later | |
| `Logging`, `LoggingProofs` | `app-task-logging.c`; its proofs | `LogPipe` by instance |
| `Blinky`, `BlinkyProofs` | `app-task-blinky.c` | |
| `Random` | seed and generator: their state and steps | |
| `AppMain`, `MCAppMain`, `AppMainProofs` | boot and heap; takes the steps of `Random` at their places in the boot; its proofs | `Random` |
| `DaMonitor`, `DaMonitorProofs` | delivery gate | |
| `IotCredential`, `IotCredentialProofs` | credential script; its proofs | |
| `PollQ`, `PollQProofs` | `PollQ.c` against time; its proofs | |
| `RtosKernel` | the kernel as the demos see it: tasks and time; queues, mutexes and queue sets; notifications, event groups and timers; stream and message buffers | |
| `Program` | a C function of a demo as a value: the sequence of the calls it makes | `RtosKernel` |
| `RecMutex`, `BlockQ`, `SemTest`, `CountSem`, `GenQTest`, `QPeek`, `QueueOverwrite`, `QueueSet`, `Dynamic`, `DynamicFull`, `BlockTime`, `Death`, `AbortDelay`, `EventGroupsDemo`, `TaskNotify`, `TaskNotifyArray`, `TimerDemo`, `IntSemTest`, `StreamBufferDemo`, `MessageBufferDemo`, `StreamBufferInterrupt`, `MessageBufferAMP` | one file of `demo-common` each (`QueueSet` two: also `QueueSetPolling.c`): its functions as programs | `Program` |
| `Rtos` | runs such programs on the kernel: the state, one action per kind of call, time | `RtosKernel`, `Program` |
| `Outlines` | what is known of shared data, mutexes, queue sets and buffers before each call of a program, and what it takes for that to be true; the properties that follow | `Rtos` |
| `RtosProofs` | proofs about every program that has such an outline | `Outlines` |
| `TransferProofs` | the same for queue sets and stream buffers | `RtosProofs` |
| `MCQueues`, `MCSignals`, `MCTransfers` | `Rtos` with programs of those modules for TLC, and the properties of single programs | `Rtos` (`MCQueues` and `MCTransfers`: `Outlines`); the demos by instance |

Common conventions.  An action is the code between two points at which another
actor could see a difference; a function's local variables carry the source's
names; `pc...` says where a task stands.  Where there are priorities, a step of a
task requires that the task is ready and no ready task has a higher priority.
Which of several ready tasks of equal priority runs is left open, because time
slicing is on.  An operator that stands just before another with the same
parameters, and is named for a defect (`TakeTimeoutIgnored`, `GiveOnceTooFew`),
is a mutant of it: no specification uses it.

### Logging

`Call`, `LoadNumber`, `StoreNumber` are the formatting of an item;
`xMessageNumber++` is two actions because nothing protects it.  `DirectWrite`
is the branch before the scheduler runs.  `TakeMutex`, `TakeTimeout`,
`DelayOver` are the first loop, `TestSpace` the second, then `Send` and
`GiveMutex`.  The logging task has `Receive`, `ReceiveBlocks`,
`ReceiveNotified`, `ReceiveTimeout` and `WriteUart`.  A byte is a record that
says which item it is of and its position, so that mixing, cutting, loss and
duplication are all visible.  `SizesAssumption` is what the `#define`s of lines
25-27 satisfy: with an item longer than the buffer, or shorter than the trigger
level, the code would block for good or sleep on data.

### Blinky

Time is the tick count modulo `TickMod`.  `Others` is all work of higher
priority, including interrupts; it may hold up both tasks, up to `MaxLag` ticks
past the wake time.  `age` (ticks since the wake time, without wrap) and
`missing` (sends without toggle) are history variables.

### DaMonitor

The build, the monitor script, the suite run and the application are actors.
`FetchSucceeds` copies the status as it is then, `FetchFails` leaves an empty
file, `Judge` is the chain of tests.  `SuiteIsStopped` is a user who stops the
run at the console, `AppEnds` an application that ends by itself.  `KillApp` and
`PrintLog` are the last two commands of the build: `kill` fails when there is no
process any more, and then the build fails.  `EndedAppFailsBuild` says that this
always happens to an application that has ended by itself, whatever the verdict.

### AppMain

Each set-up function is one action that allocates its objects (`Malloc`) in the order of
the source, and `vSetupHardware`, which seeds the generator, is three.  The
initial heap is any number of units.  After a start with a network stack, the
stack draws numbers (`NumberForNetwork`), and the logger task, once it runs, takes its
buffer from the same heap (`vLoggingTask`).  The hook that reports a
failed allocation returns, since `configASSERT` is not defined.  Nobody looks at
the results of the two task creations of `vSetupBlinkyTask`; that no half of
blinky ever runs is a consequence of what follows: the scheduler needs an idle and
a timer task, and these are together at least as large as either of the two
(`SizeAssumption`: three times the minimal stack against once and twice), so that
where one of the two found no room the scheduler returns (`BlinkyComplete`).

### Random

The module has no behaviour of its own; `AppMain` extends it.  A draw from the
hardware (`Store`) may fail, and then leaves `ulSeed`;
`prvSRand` stores the seed in the variable of `app-hardware.c`, `uxRand` steps
the one of `app-network.c`, as the linker has it: both are `static`.

### IotCredential

One action per call of the service, each with a failing disjunct, in the
order of the script's main part; `Interrupt` may come between any two;
`RunAgain` starts the script over with any options and what is in the service.
The name that `-s` gives the secret is taken as given.  Shell quoting matters at one place,
`SecretString`: empty words vanish and the arguments behind move up.
`SecretMatches` says that this never happens to a run that has its certificate.
Without a certificate it does happen: the words behind the missing ARN move up by one
place and the private key is stored as the certificate; such a secret shows
in a field of the ARN that holds something else.

### The demos

A demo module holds no variables and no actions.  Each function of the C file is
an operator whose value is a sequence of calls (`Program`): what is called, on
which object, with which value and block time, what result the code expects, and
where it goes on when the result is that or another.  A loop with a constant
count is unrolled; `If`, `IfElse` and `While` are the code's branches.  The
function that sets a demo up (`vStart...`) gives the tasks with their priorities,
the objects with their lengths and first contents, the variables, and those
variables that the check function watches.

`Rtos` runs one such demo, chosen at the start.  Its state is the kernel
(`kernel`), the next call of each task (`pc`), the program's variables (`mem`),
and whether the program has found an error.  A step of a task is one call: it
returns, or blocks (and is made again when the task is woken, with what is left
of the block time).  An interrupt handler is a task of priority 100.  The
operators of `RtosKernel` say what a call does and returns; they are
external, as the kernel is not in the repository, and read off from how the
demos and the application use it.

Time.  The block times of the tasks and the timers are ticks that are left.
`Elapse` lets time pass to the next of them.  It may do so while no task is
ready, and also while the ready tasks have a priority below `prompt`: that is
other tasks of the system that keep them waiting for any time.  `prompt` is one
of the values in the demo; those whose results depend on being in time (block
times that are measured, for instance) are only run with a `prompt` they can
live with, as the comments in their modules say.  In a `Paced` program time also
passes while tasks are ready that always have something to do, but not before
they have done a whole round of their loops.  A `Stamped` variable holds the
time since it was set.  The idle task removes deleted tasks while time passes
(`IdleTurn`); in an `Unreaped` program (`Death`, with `LeftToIdle` = 1) other tasks
may also keep it from that, as long as no more than so many wait for it.  In a
program with a `Backlog` (`TaskNotify`, with `MaxPending`) time stands still while
more notifications of a task are pending, which bounds how far an interrupt runs
ahead of a task that is kept waiting.

Most files start several groups of tasks that share nothing.  Each such group is
a program of its own (`Dynamic`: counter and queue; `GenQTest`: queue and
mutexes; ...), because nothing but the processor connects it with the others.  The
task of `TaskNotify` is split into its self-contained tests and the part that
counts what a timer and an interrupt send; that of `TaskNotifyArray` runs as a
whole, and its last part once more by itself with an interrupt at any time.

Configuration.  `inc/FreeRTOSConfig.h`: preemptive, 1000 ticks a second, five
priorities, a timer task of priority 4 whose command queue holds five.  Parts
that this configuration compiles out are modelled as they are with the switch
they need: `AbortDelay.c` and the time-out test of `GenQTest.c`
(`INCLUDE_xTaskAbortDelay`), `TaskNotifyArray.c`
(`configTASK_NOTIFICATION_ARRAY_ENTRIES`, here three, the least with which the file compiles), the
coherence test of `MessageBufferDemo.c` (`configRUN_ADDITIONAL_TESTS`).  What the
code passes to `configASSERT` is modelled as a result it expects.  Set-up
allocations of the demos are not modelled.  The check functions ask whether
counters still change, and that is the property `NobodyStalls`.

`PollQ` is not one of these programs, because its hazard is lateness itself:
both tasks may be late by up to `MaxLate` ticks, and its check function is an
action.

## 3. The runs

| run | shows | bounds, and why they are enough |
|---|---|---|
| `logging` | mutual exclusion, whole and ordered items, one UART writer, no lost wake-up, holders give back, `Logging` implements `LogPipe` with liveness | two writers and `main()`, three calls in all: one caller in the critical section, one waiting, one following. Sizes 6/4/3 keep the order relations of the source; the longest item fills the buffer, the shortest just reaches the trigger level, no item is a multiple of a read. The memory of `ucRxData` holds zeros at first (`Junk` = `Nul`); the theorems are for any content |
| `blinky` | the five properties of section 1 | period 3, 16 ticks: the tick count wraps in every fifth period and Tx may be up to five periods late |
| `boot` | which objects exist for which heap size, the reader's buffer among them; no unit is given out twice; the scheduler never runs with half of blinky; period and distribution of the numbers | 23,395 states. Every heap from 0 to 60 units of 512 bytes, of which all objects take 48: every allocation fails in some behaviour. Words of 8 bits, all 256 states of the generator; the argument (odd increment, multiplier 1 modulo 4) is the same for 32 |
| `monitor` | the gate is sound, the monitor's code agrees with the verdict, an application that ends by itself fails the build, builds end | complete: the model is finite |
| `credential` | clean runs, failing runs, links, what a secret holds | three runs: one to leave things behind, one to fail over them, one to repair; either of thing and policy may be there at first |
| `pollq` | the queue is never full, nothing is lost, no false alarm of the check function | delays 5 and 4 stand for 200 and 180 ms (40 ms a tick), lateness of up to a whole producer delay. `DelaysAssumption` is sharp at these values: without it TLC finds a full queue with `MaxLate` 6 and a false alarm with `CheckPeriod` 29. That it is enough for all values is proved |
| `queues` | sixteen programs on queues, semaphores and mutexes: no error, no stall; order of the values, whole guarded variables, no mutex with a sleeping holder | 27,616 states. `recmuMAX_COUNT` 3 (first, middle, last take), values of BlockQ modulo 7, more than the longest queue holds; guarded variables count to 2; counting semaphore of 3; overwrite loops of 3; polled set of length 3 |
| `signals` | twenty-nine programs on everything else: no error, no stall, no tasks left behind | 25,715 states. `priLOOPS` 2 and `priMAX_COUNT` 3; notification words of 6 bits; the base period of 50 ticks for timers that callers use; buffer loops of 2 over strings of 13 (streams) and 23 characters (messages), more than the space that is free in some round, so that the ring wraps inside them; messages numbered to 11, of one and two digits; an interrupt that comes every tick where it races with the task (`NotifyArrayInterrupt`) and every 1000 ticks otherwise; three pairs of suicidal tasks, of which the idle task may leave one task unremoved (with two left and a pair alive there are four, and the check function does fail, as its comment allows under heavy load) |
| `transfers` | the programs with the most state, for safety: no error; nothing lost between sender, buffer or notification, and receiver; a queue set in step with its queues | 1,862,716 states. Two queues of length one in the set, so that it is full and empty in turn; time stands still while more than two notifications are pending, while the check function's margin is the source's five, of counts modulo 16; buffers as in `signals`, with a receiver that is slower than its sender |

In all three the variables count modulo `CounterMod` = 2, which is enough for
"has it changed"; modules with counters that are compared have a bound of their
own.

`MCTransfers` also fits the outlines (`Outlines`, next section but one) to the programs of
`semtest.c`, `BlockQ.c`, `recmutex.c` and `GenQTest.c` with the source's own constants -
counts of 4095 and 255, values modulo 65536, ten takes of a recursive mutex - which no run
could explore: its assumption `SourceOutlinesFit` says that they fit, and TLC evaluates
it.  `SourceSetsFit` of `MCQueues` says the same of `QueueSet.c` and `QueueSetPolling.c`, and of
the three pairs of `StreamBufferDemo.c` with strings of 54 and 55 characters and 100 rounds.  (Only the cycle counters of `recmutex.c` count modulo 65536 there and not 2^32, which
is too wide for TLC; no outline speaks of them.)  `MCQueues` checks the same properties
over every interleaving of the small programs.

The type invariants of `Logging`, `Blinky` and `AppMain` are checked and proved, those of
`DaMonitor` and `PollQ` are proved, as is the part that matters for `IotCredential`
(`Numbers`).

Where a program of the three demo runs has a variant whose name ends in `S`,
other tasks of the system may starve it: sends and takes then do time out, which
the code allows, and only its order properties are claimed, not its liveness.

Three properties that the program's documents or comments state are refuted by
what the code does.  Their runs are expected to end in a violation:
`logging_uart`, `boot_seed` and `credential_arn`; see section 6.

`CHECK_DEADLOCK FALSE` stands where the system may stop: after the last run of
the credential script, and after a boot that ends without a network stack or
whose stack has drawn its last number.

## 4. Fairness

* Tasks that only compete for the processor get weak fairness per task
  (`Logging`): `configUSE_TIME_SLICING` is on and no caller keeps the processor.
  Nobody is obliged to call `vLoggingPrintf`.
* Where work of higher priority interrupts (`Blinky`), it goes away again (weak
  fairness of `Others /\ busy`), a task that is ready again and again gets a turn
  (strong fairness), and the tick goes on.
* `Rtos`: time goes on (weak fairness of `Elapse`), and a task that may run again
  and again does run: `[]<>MayRun(i) => []<><<Runs(i)>>`, which is strong fairness
  of its steps in a form TLC evaluates quickly.  Time slicing gives this to tasks
  of equal priority; nothing is assumed for a task of
  low priority while others are ready for ever, so that its progress is a
  consequence of what they do.  Not watched are the sets of
  BlockQ and the pairs of SemTest that are starved, and the polling pair of
  SemTest, which may find the semaphore taken every time it looks.
* `DaMonitor`: the scripts run, the service decides every run, and a call that
  is repeated for ever gets through again and again.  A stop by the user is not
  fair.
* `AppMain`: `main()` is the only code that runs.
* `IotCredential` and `PollQ` have safety properties only.

## 5. What is proved

All theorems are of the form `Spec => []P` or a refinement of steps, from the
named assumptions on the constants, or, for `RtosProofs` and
`TransferProofs`, the named hypothesis of the
theorem, and nothing else.

**Logging** (`LoggingProofs`, from `CallersAssumption`, `SizesAssumption`,
`NumbersAssumption`; any number of writers).  The inductive invariant is
`TypeOK`, `HolderOnly`, `SendFits`, `StreamIntact`, `NoLostWakeup` and
`OneUartWriter` with the facts they need: only `main()` is ever at the direct
write, and only while the scheduler is not started, during which the logging
task stands still.  `SendFits` carries the argument: only the holder
of the mutex adds bytes, so the space it has seen can only grow until it sends;
then `Send` cuts nothing, and `StreamIntact` follows for whole items.
`NoLostWakeup` needs `SizesAssumption`: the shortest item reaches the trigger
level.  `LoggingRefinesPipe` maps `Send` to `Accept`, the three receives to
`Deliver`, every other step to a stutter.

**Blinky** (`BlinkyProofs`, from `TicksAssumption`).  `Clock` relates the
wrapping tick count and wake time to the true `age`; the lemma `MustDelayIsRight`
shows that the kernel's comparison of wrapped times decides exactly
`age < period` while the task is less than a whole turn late.  `TxRunsAlone`
is the priority argument: when Tx runs, Rx is blocked on an empty queue.

**DaMonitor** (`DaMonitorProofs`).  The invariant relates the status file to the
run: a final status in the file is still the status of the run, and `STOPPING`
can only become `STOPPED`, so a judgement on an older poll is still right.

**IotCredential** (`IotCredentialProofs`, from no assumption, for any number of
runs).  None of the three claims is inductive, because each is
about the end of a run and each run starts over what earlier ones, failed or
interrupted, have left.  `LinkOrder` says at which steps the certificate of the
present run may be attached to what, and that what is attached to things is
attached to the policy; `CleanSoFar` says what a run without a failed call has
achieved when it comes to a step; `Numbers` that a new certificate is in nobody's
hands yet.  `SecretIsOwn` is about every run: a lemma says that of words none of which is
empty the i-th argument is the i-th word, which covers the runs that have their
certificate, and another that without its ARN the field of that name holds a
file name or an endpoint, which is no ARN.

**Boot** (`AppMainProofs`; objects of any size, any heap).  The invariant says at each place
of `main()` which objects have been asked for, that those that exist and what is
free make up the heap (a sum over a set, `MapThenSumSet`, of which only what
adding one object does is needed), and that what has failed would not fit now
either, since what is free only shrinks.  `TotalDecides` follows: start-up succeeds
exactly if the sum of all sizes fits, whatever the order of the allocations, the
reader's buffer included.  `BlinkyIsComplete` uses the last part: where Rx or Tx has
failed, what is free is less than its size, so less than the idle and the timer task
together, one of which then fails too.

**Programs on the kernel** (`RtosProofs`; any program that has an outline, any number of
tasks and priorities).  An outline says what is known before each call of each task.  Three
kinds come first in `Outlines`; sets and buffers follow below.  In a *guard* outline tasks are inside between the take and
the give of a binary semaphore, and the one inside knows what the guarded variable holds
(`semtest.c`).  In a *channel* outline a producer sends consecutive numbers, a consumer
expects them, and both are at each place before or after counting on (`BlockQ.c`).  A
*sleeper* outline bounds at each place how many takes of each mutex a task has not given
back; where a task suspends itself the bound is zero (`recmutex.c`, `GenQTest.c`).
`GuardFits`, `ChannelFits` and `SleeperFits` are conditions on one call of one task at a
time, with every result the call may have, refusals and time-outs included.  That the
outlines fit their programs is the hypothesis of the theorems (`GuardsFit`, `ChannelsFit`,
`SleepersFit`, `SetsFit`, `StreamsFit`); TLC evaluates it for the programs of the source
(`SourceOutlinesFit` of `MCTransfers`, `SourceSetsFit` of `MCQueues`).  What is proved is that this is enough under every interleaving that the
kernel allows.  The inductive invariants are `GuardInv` (the semaphore has its item and the
variable its value, or exactly one task is inside and the variable holds what that place
says), `ChannelInv` (hand, queue and next number are consecutive modulo `modulus`,
`Consecutive`) and `SleeperInv` (a held mutex is taken at least once and at most as often
as its holder's place says, a suspended task is where all its bounds are zero), each with
the shape of the objects.  The lemmas before them go through `StepOf`: which action makes
which call (`OpsOfActions`), that blocking, waking, expiry of timers, deletion and time
leave queues and mutexes alone (`SameObjects`, `NewItems`, `ElapseEffect`) and suspend
nobody (`Rouses`), and what a receive, a send, a take and a give do, or fail to do, to one
object (`ReceiveStep`, `SendStep`, `TakeStep`, `GiveStep`).
`GuardsFindNoError` adds that such a program finds no error at all (its variable is never
disturbed, its gives are never refused), `ChannelsOnCourse` that no consumer finds a wrong number.
`SleepersHoldNothing` is about programs that have found no error: after a refusal that it
did not expect, `recmutex.c` goes on with a count of takes that no longer holds.  Programs
without a sleeper outline are not its subject; in `MCQueues` none of them has both a mutex
and a task that suspends itself, so that TLC has nothing further to check there.

**Queue sets** (`TransferProofs`, from `SetsFit`; sets and queues of any length, any number
of members, tasks and interrupts).  A *set* outline names the set, its members, the
variable in which each task keeps the member it has selected, the task that adds and
removes members, and the members that are outside the set before each of its calls
(`prvSetupTest` of `QueueSet.c`).  `SetMirrorsQueues` is not inductive: it says nothing of
what a task has selected and not yet received, nor of members that are outside.  `SetInv`
does, per member: the items of a member inside are as many as its handles in the set and
the tasks that hold it (`SetClaim`), a member outside is empty; tasks hold a member only
at the places between select and receive (`SetPlaces`), and the objects keep their shape
(`SetObjects`).  The lemmas `SetStepQueue`, `SetStepReceive`, `SetStepSelect` and
`SetStepMember` are the four ways in which a call can move an item, a handle or a member:
a send that finds room adds an item and a handle, a select moves a handle into a hand, a
receive takes the item of the hand, and a removal succeeds on an empty queue only.  The
queues that `QueueSet.c` overwrites are in the set for a while too, but they are not among
the members the property is about.  `SetsMirrorQueues` and
`SetsHandOutItems` follow; both end with the first error the program finds, after which
`QueueSet.c` goes on with what it has in hand.

**Stream buffers** (`TransferProofs`, from `StreamsFit`; any string, buffer size, trigger
level, priorities and waiting times).  A *stream* outline names the buffer, the string that
the sender sends around and around, the index up to which it has sent and the variable with
what the last call has stored, the same two for the receiver, the places at which each has
yet to count the last call's bytes on, and, for the sender, the setup: the places at which it
tests the buffer by itself, before it creates the receiver (`sbLOWER_PRIORITY` of
`StreamBufferDemo.c`).  `NothingLost` says that the buffer holds the string from one index
to the other while neither task has bytes to count.  It is not inductive: between the call
and the count an index is behind by a number that only the task's variable holds, and a
task that waits inside its call has no place of its own to say so.  `StreamInv` has three
parts.  In transit, what is in the buffer starts where the receiver's index *and* its
uncounted bytes end, and ends where the sender's do (`InTransit`, `Carries`); the modulus
is that of the indexes, so this goes around with them.  During the setup no other task exists
(`Alone`), the buffer holds anything, and the indexes are equal; the reset at its end makes
that a string of no characters.  A task that does not exist stands at its first place (`Away`),
so that its creation, `CreateStep`, cannot put it between a call and its count.  `CarriesMore`,
`CarriesLess` and `CarriesAround` are the three facts about positions: a send appends a part of
the string that starts at the sender's index and does not reach over its end, a receive drops
what it returns, and counting on modulo the length changes nothing that is read through the
modulus.  `BufferSendStep` and `BufferFetchStep` say that the kernel moves as many bytes as it
reports, none included, and `StreamStep` has a case for each kind of call an outline allows.

**PollQ** (`PollQProofs`, from `ParametersAssumption` and `DelaysAssumption`;
all delays, latenesses and queue lengths).  `Backlog` carries the argument for
the room in the queue: what is in it was posted since the consumer last found
it empty, in at most so many turns of the producer as delays fit into that time;
a fourth turn does not.  `Consecutive` numbers the values from the consumer's
hand through the queue to the producer's next, across wraps (`AheadStep`).
`Turns` bounds the time since the last check of a task that has not counted
yet, and so rules out the false alarm.

Only model-checked: every liveness property and the liveness half of the
refinement; `Uniform` of `Random` (its arithmetic is about powers of two and the
whole period); of the demos `NoErrorDetected` for programs without a guard outline, `NoneLeftBehind`
and `AllReceived`.  These are claims about fixed programs, where the instance that TLC explores
differs from the code only in loop counts and string lengths.

## 6. Where code and words differ

Shown by a run:

* The logging task transmits `strlen` of a buffer that is neither terminated
  nor cleared, so a short read is followed by bytes of an older one
  (`logging_uart`).
* The seed never reaches the generator, because both files have a static
  `ulNextRand` (`boot_seed`).
* The credential script stores `None` as the ARN of an existing thing
  (`credential_arn`).

Met while modelling, visible in the models, without a run of their own:

* Two tasks can print the same message number (`LoadNumber`, `StoreNumber`); the
  source's own comment says that this needs a mutex.
* The monitor polls a run that ended as `PASS_WITH_WARNINGS` or `ERROR` for ever
  (`Judge`); `HandledRunsEnd` leaves these two out.
* A passed run fails the build when the application has already ended
  (`KillApp`).
* Blinky starts whatever `APP_PROGRAM_BLINKY` says (`CreateQueue`), although a
  comment in `app-main.c` ties it to the switch.
* A failed allocation does not stop the program (`Malloc`): the hook's assert
  is compiled away.
* The credential script ends with code 0 without a linked certificate
  (`LinkPolicy`, `LinkThing`) and, without a certificate, stores the private key
  in the place of the certificate (`SecretString`).
* `TaskNotify.c:357` and `TaskNotifyArray.c:634` assert the value of a variable
  that the call before them does not write; `TaskNotifyArray.c:1100` looks at the
  notified index inside a loop over the others; `prvRand` of that file is never
  called.
* `TimerDemo.c:1112` lets through a timer number one beyond the array of
  counters; line 952 says `4 * ( xBasePeriod - xMargin )` where the other cases
  subtract the margin once or twice from the multiple, so that this test runs
  earlier than its neighbours suggest, with the same outcome.
* `MessageBufferDemo.c:633` counts a signed integer without end; the check
  variables of `BlockQ.c:274` are 16 bits wide, so that 65536 cycles between two
  checks look like none; `StreamBufferInterrupt.c:216` compares with a local
  variable that starts at 0 in every call, so that a stall after the first cycle
  goes unnoticed; `semtest.c:105` writes to memory whose allocation is not checked.
* The UART time-out of 10 ms (`app-task-logging.c:64`) is shorter than the
  transmission of an item of more than about 115 characters, and either draw of
  the hardware generator (`app-hardware.c:68`) may fail unnoticed (`Store`).

## 7. What is not modelled, and the plan

Not modelled:

* `full/events.c`: its tasks of equal priority must first run in the order of
  their creation, which the kernel of the models leaves open.  The order of
  wake-ups it tests is also that of `QPeek.c`.
* `IntQueue.c`: it judges how many values each task and interrupt has handled,
  and these counts depend on the rates of two hardware timers that nothing in the
  repository sets up.
* `StaticAllocation.c`: one task that creates, uses and deletes; no interaction.
* The interrupt between the cores in `MessageBufferAMP.c`: nothing defines
  `sbSEND_COMPLETED` to call it, so the kernel wakes the receivers itself.
* `create-iam-roles.sh`, `delete-iam-roles.sh` and the bootstrap scripts: straight
  sequences of service calls whose results nobody reads.
* The other versions in `full/` of demos that are modelled from `minimal/`: the
  same programs with text output (`dynamic.c`, which differs, is modelled).
* The stack overflow hook (what the overflow has overwritten is undefined), the
  rate of the UART, register set-up, vendor code, templates and make rules, the
  co-routine, serial and LED demos (no port in the repository), the arithmetic
  demos (they test that the port saves registers).

The order of what has been built: Logging with its promise and proofs, Blinky,
the gate, boot, random numbers, credentials, the kernel of the demos and the
demos on it.  Next:

1. Outlines of counted notifications (`AllReceived`), which need a statement about the
   critical sections of a task, a timer callback and an interrupt.
2. Outlines of buffers that carry whole messages (`MessageBufferDemo.c`); the outlines of
   streams are about bytes.
