----------------------------- MODULE MCTransfers -----------------------------
(***************************************************************************)
(* The demonstrations with the largest state on the kernel, checked for    *)
(* safety: a queue set, notifications that are counted, and the buffers of *)
(* senders whose receiver has a lower priority.  The outlines that TLC     *)
(* fits to their programs here are those of the source's own constants.    *)
(***************************************************************************)
EXTENDS TLC, Outlines

QS == INSTANCE QueueSet WITH
          Queues <- {"xQueue0", "xQueue1"}, queuesetQUEUE_LENGTH <- 1,
          queuesetPRIORITY_CHANGE_LOOPS <- 2, queuesetALLOWABLE_RX_DEVIATION <- 1, ValueMod <- 4
TN == INSTANCE TaskNotify WITH
          notifyBITS <- 6, ulCyclesToRaisePriority <- 2, ulMaxSendReceiveDeviation <- 5,
          Periods <- {10, 60}, NotifyMod <- 16, MaxPending <- 2
SB == INSTANCE StreamBufferDemo WITH
          sbLOOPS <- 2, sbNUMBER_OF_CHARACTERS <- 13, xCycleBlockTime <- 10
MB == INSTANCE MessageBufferDemo WITH
          mbLOOPS <- 2, mbNUMBER_OF_CHARACTERS <- 23, iMaxValue <- 11,
          iSendsBetweenIncrements <- 4, DataMod <- 12

SM == INSTANCE SemTest WITH
          semtstBLOCKING_EXPECTED_VALUE <- 4095, semtstNON_BLOCKING_EXPECTED_VALUE <- 255
BQ == INSTANCE BlockQ WITH uxPriority <- 2, ValueMod <- 65536

\* The counters of recmutex.c wrap at 2^32, which is too wide for TLC.
RM == INSTANCE RecMutex WITH recmuMAX_COUNT <- 10, CyclesMod <- 65536
GQ == INSTANCE GenQTest

SourceGuards   == SM!Outlines(1)
SourceChannels == BQ!Outlines
SourceSleepers == RM!Outlines \cup GQ!Outlines

MCSets    == {QS!Outline}
MCStreams == SB!Outlines

ASSUME SourceOutlinesFit == GuardsFit /\ ChannelsFit /\ SleepersFit

T == TN!vStartTaskNotifyTask
F == SB!vStartStreamBufferTasks
G == MB!vStartMessageBufferTasks

MCDemos ==
    "QueueSet" :> QS!vStartQueueSetTasks
    @@ "Notify" :> T.counting
    @@ "Stream0" :> F.nonBlocking @@ "StreamH" :> F.senderHigher @@ "StreamL" :> F.senderLower
    @@ "MessageH" :> G.senderHigher
-----------------------------------------------------------------------------
\* TaskNotify.c: when the notified task, the timer task and the interrupt all wait, every
\* notification that was sent has been received: none is lost between the three.  And a
\* task that is not kept waiting by others is never further behind than the check
\* function allows (line 703).
AllReceived ==
    demo = "Notify" => /\ TN!AllReceived(kernel, mem)
                       /\ prompt = 0 => TN!KeepsTrack(mem)
=============================================================================
