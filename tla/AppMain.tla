------------------------------ MODULE AppMain ------------------------------
(***************************************************************************)
(* src/app-main.c: main() sets up the hardware, which seeds the random     *)
(* numbers (Random), and one subsystem after the other, and starts the     *)
(* scheduler.  A restart begins again at Init: the start-up code zeroes    *)
(* the static variables, the heap among them, and nothing else is kept.    *)
(*                                                                         *)
(* The subsystems allocate their kernel objects from the one heap of the   *)
(* program, and any allocation may fail: the hook of                       *)
(* src/app-kernel-hooks.c reports it and returns, because                  *)
(* inc/FreeRTOSConfig.h leaves configASSERT undefined.  The size of the    *)
(* heap, configTOTAL_HEAP_SIZE, is a setting and left open.                *)
(***************************************************************************)
EXTENDS Random, FiniteSets

CONSTANTS
    MaxHeap,              \* bound: the heap has at most this many units
    Size,                 \* the units that each object takes
    APP_PROGRAM_NETWORK   \* a switch of inc/app-main.h

Objects == {"xStreamBuffer", "xLoggingSemaphore", "Logger", "IP",
            "xQueue", "Rx", "Tx", "Idle", "Timer", "ucRxData"}

\* Rx and Tx have stacks of three times configMINIMAL_STACK_SIZE each
\* (app-task-blinky.c:102, 110), the idle task has one of that size and the timer
\* task one of twice that (FreeRTOSConfig.h:90) and a queue.
ASSUME SizeAssumption ==
    /\ Size \in [Objects -> Nat \ {0}]
    /\ Size["Rx"] <= Size["Idle"] + Size["Timer"]
    /\ Size["Tx"] <= Size["Idle"] + Size["Timer"]
    /\ MaxHeap \in Nat
    /\ APP_PROGRAM_NETWORK \in {0, 1}

VARIABLES
    pc,         \* main()'s next call, or where it ended; "reading" when the logger
                \* task has begun
    heap,       \* configTOTAL_HEAP_SIZE, in units
    free,       \* the units left
    created,    \* the objects that exist
    failed      \* the objects whose allocation failed

heapVars == <<heap, free, created, failed>>
vars == <<pc, heapVars, randomVars>>
------------------------------------------------------------------------------
MallocLeak(h, o) ==
    IF Size[o] <= h.free
    THEN [h EXCEPT !.free = @ - Size[o], !.created = @ \cup {o}]
    ELSE [h EXCEPT !.free = @ \div 2, !.failed = @ \cup {o}]

\* pvPortMalloc for one object.  One that fails takes nothing (xTaskCreate returns what
\* it got); a later, smaller one may still succeed.  vApplicationMallocFailedHook prints
\* a message and returns.
Malloc(h, o) ==
    IF Size[o] <= h.free
    THEN [h EXCEPT !.free = @ - Size[o], !.created = @ \cup {o}]
    ELSE [h EXCEPT !.failed = @ \cup {o}]

Heap == [free |-> free, created |-> created, failed |-> failed]

\* The heap is now h.
Becomes(h) ==
    /\ free' = h.free /\ created' = h.created /\ failed' = h.failed
    /\ UNCHANGED <<heap, randomVars>>

Go(from, to) == pc = from /\ pc' = to

\* vSetupHardware initialises the devices and draws a number, checks that it can
\* draw another, and seeds its generator.
GenerateRandomNumber ==
    Go("hardware", "random32") /\ Store /\ UNCHANGED heapVars

xRandom32 == Go("random32", "srand") /\ Store /\ UNCHANGED heapVars

SeedGenerator ==
    /\ Go("srand", "logging")
    /\ prvSRand(ulSeed) /\ ulInitialSeed' = ulSeed
    /\ UNCHANGED <<heapVars, ulSeed, calls, tally>>

SetupLoggingWithoutMutex ==
    /\ Go("logging", "network")
    /\ Becomes(Malloc(Malloc(Heap, "xStreamBuffer"), "Logger"))

vSetupLoggingTask ==
    /\ Go("logging", "network")
    /\ Becomes(Malloc(Malloc(Malloc(Heap, "xStreamBuffer"), "xLoggingSemaphore"), "Logger"))

vSetupNetwork ==
    /\ Go("network", "blinkyQueue")
    /\ Becomes(IF APP_PROGRAM_NETWORK = 1 THEN Malloc(Heap, "IP") ELSE Heap)

\* vSetupBlinkyTask: without a queue it says so and never returns ...
CreateQueue ==
    /\ pc = "blinkyQueue"
    /\ Becomes(Malloc(Heap, "xQueue"))
    /\ pc' = IF "xQueue" \in created' THEN "blinkyTasks" ELSE "halted"

\* ... and with one it creates both tasks, whatever becomes of them.
CreateTasks ==
    Go("blinkyTasks", "full") /\ Becomes(Malloc(Malloc(Heap, "Rx"), "Tx"))

\* vSetupFullTask and vSetupMqttTask are empty.
vSetupFullTask == Go("full", "mqtt") /\ Becomes(Heap)

vSetupMqttTask == Go("mqtt", "scheduler") /\ Becomes(Heap)

SchedulerWithoutTimer ==
    /\ pc = "scheduler"
    /\ Becomes(Malloc(Malloc(Heap, "Idle"), "Timer"))
    /\ pc' = IF "Idle" \in created' THEN "running" ELSE "stopped"

\* vTaskStartScheduler creates the idle and the timer task.  Without both it
\* returns, and main() goes on into its last, empty loop.
vTaskStartScheduler ==
    /\ pc = "scheduler"
    /\ Becomes(Malloc(Malloc(Heap, "Idle"), "Timer"))
    /\ pc' = IF {"Idle", "Timer"} \subseteq created' THEN "running" ELSE "stopped"

\* The logger task runs for the first time and asks for its buffer, without a look at
\* what it gets.
vLoggingTask ==
    /\ Go("running", "reading")
    /\ "Logger" \in created
    /\ Becomes(Malloc(Heap, "ucRxData"))

Running == pc \in {"running", "reading"}

\* The network stack calls uxRand in its own time.
NumberForNetwork ==
    /\ Running /\ "IP" \in created
    /\ uxRand
    /\ UNCHANGED <<pc, heapVars>>

Init ==
    /\ pc = "hardware"
    /\ heap \in 0 .. MaxHeap
    /\ free = heap
    /\ created = {} /\ failed = {}
    /\ Zeroed

Main == \/ GenerateRandomNumber \/ xRandom32 \/ SeedGenerator
        \/ vSetupLoggingTask \/ vSetupNetwork
        \/ CreateQueue \/ CreateTasks \/ vSetupFullTask \/ vSetupMqttTask
        \/ vTaskStartScheduler

Next == Main \/ vLoggingTask \/ NumberForNetwork

\* Until the scheduler starts, main() is the only code that runs; then the logger task
\* shares priority 0 with the idle task and gets its turn.
Spec == Init /\ [][Next]_vars /\ WF_vars(Main) /\ WF_vars(vLoggingTask)
------------------------------------------------------------------------------
Used == IF APP_PROGRAM_NETWORK = 1 THEN Objects ELSE Objects \ {"IP"}

\* The units that these objects take together.
UnitsOf(o) == {o} \X (1 .. Size[o])
Units(objects) == Cardinality(UNION {UnitsOf(o) : o \in objects})

\* The variables keep their ranges, and the allocator gives out no unit twice.
TypeOK ==
    /\ pc \in {"hardware", "random32", "srand", "logging", "network",
               "blinkyQueue", "blinkyTasks", "full", "mqtt", "scheduler",
               "halted", "running", "reading", "stopped"}
    /\ heap \in 0 .. MaxHeap /\ free \in 0 .. heap
    /\ created \subseteq Used /\ failed \subseteq Used
    /\ free + Units(created) = heap
    /\ {ulSeed, ulInitialSeed, hwNextRand, ulNextRand}
          \subseteq 0 .. Period - 1
    /\ calls \in 0 .. Period /\ tally \in [Outputs -> 0 .. calls]

\* Nobody looks at whether Rx and Tx were created (app-task-blinky.c:101, 109), yet
\* none of them ever runs without the other or without the queue: where one of them
\* found no room, the scheduler's own tasks find none either and main() stops.
BlinkyComplete == Running => {"xQueue", "Rx", "Tx"} \subseteq created

\* The start is over, for the logger task also if there is one.
Ended == \/ pc \in {"halted", "stopped", "reading"}
         \/ pc = "running" /\ "Logger" \notin created

\* Which objects exist depends on the total only: the start ends, with the scheduler
\* running and every object there, the reader's buffer among them, if there is room
\* for all of them, with something missing if there is less.
RoomDecides == heap >= Units(Used) <=> Running /\ created = Used
EnoughHeapStartsAll == <>(Ended /\ RoomDecides)

\* "Utility function to seed the pseudo random number generator"
\* (src/app-hardware.c:166): when the network stack draws its first number, its
\* generator holds the seed.
SeedReachesGenerator ==
    Running /\ calls = 0 => ulNextRand = ulInitialSeed
==============================================================================
