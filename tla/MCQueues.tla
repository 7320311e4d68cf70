------------------------------ MODULE MCQueues ------------------------------
(***************************************************************************)
(* The demonstrations of queues, semaphores and mutexes on the kernel, with*)
(* small loops.  The sets of BlockQ and the pairs of SemTest whose names   *)
(* end in S may be starved by other tasks of the system.                   *)
(***************************************************************************)
EXTENDS TLC, Outlines

RM == INSTANCE RecMutex WITH recmuMAX_COUNT <- 3, CyclesMod <- 4
BQ == INSTANCE BlockQ WITH uxPriority <- 2, ValueMod <- 7
SM == INSTANCE SemTest WITH
          semtstBLOCKING_EXPECTED_VALUE <- 2, semtstNON_BLOCKING_EXPECTED_VALUE <- 2
CS == INSTANCE CountSem WITH countMAX_COUNT_VALUE <- 3
QO == INSTANCE QueueOverwrite WITH qoLOOPS <- 3
QS == INSTANCE QueueSet WITH
          Queues <- {"xQueue0", "xQueue1", "xQueue2"}, queuesetQUEUE_LENGTH <- 3,
          queuesetPRIORITY_CHANGE_LOOPS <- 18, queuesetALLOWABLE_RX_DEVIATION <- 3,
          ValueMod <- 1000
SB == INSTANCE StreamBufferDemo WITH
          sbLOOPS <- 100, sbNUMBER_OF_CHARACTERS <- 95, xCycleBlockTime <- 100
GQ == INSTANCE GenQTest
PK == INSTANCE QPeek

B  == BQ!vStartBlockingQueueTasks(FALSE)
BS == BQ!vStartBlockingQueueTasks(TRUE)
S  == SM!vStartSemaphoreTasks(1)

MCDemos ==
    "BlockQ1" :> B[1] @@ "BlockQ2" :> B[2] @@ "BlockQ3" :> B[3]
    @@ "BlockQ1S" :> BS[1] @@ "BlockQ2S" :> BS[2] @@ "BlockQ3S" :> BS[3]
    @@ "SemPolling" :> S.polling @@ "SemBlocking" :> S.blocking @@ "SemBlockingS" :> S.starved
    @@ "RecMutex" :> RM!vStartRecursiveMutexTasks
    @@ "CountSem" :> CS!vStartCountingSemaphoreTasks
    @@ "QueueOverwrite" :> QO!vStartQueueOverwriteTask(0) @@ "QueueSetPolling" :> QS!vStartQueueSetPollingTask(3, 4)
    @@ "GenQueue" :> GQ!vStartGenericQueueTasks.queue
    @@ "GenMutexes" :> GQ!vStartGenericQueueTasks.mutexes
    @@ "QPeek" :> PK!vStartQueuePeekTasks

MCGuards   == SM!Outlines(1)
MCChannels == BQ!Outlines
MCSleepers == RM!Outlines \cup GQ!Outlines

\* The outlines of the queue sets and the streams fit the programs with the source's own
\* constants.
SourceSets    == {QS!Outline, QS!PollingOutline(10, 65536)}
SourceStreams == SB!Outlines

ASSUME SourceSetsFit == SetsFit /\ StreamsFit
=============================================================================
