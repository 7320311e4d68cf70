------------------------------ MODULE MCSignals ------------------------------
(***************************************************************************)
(* The demonstrations of suspension and priorities, block times, event     *)
(* groups, notifications, timers and buffers on the kernel, with small     *)
(* loops.                                                                  *)
(***************************************************************************)
EXTENDS TLC, Rtos

DY == INSTANCE Dynamic WITH priLOOPS <- 2, priMAX_COUNT <- 3, PriMod <- 2
DF == INSTANCE DynamicFull WITH priLOOPS <- 2, priMAX_COUNT <- 3, PriMod <- 2
DE == INSTANCE Death
BT == INSTANCE BlockTime WITH bktQUEUE_LENGTH <- 5
IS == INSTANCE IntSemTest
EG == INSTANCE EventGroupsDemo
TN == INSTANCE TaskNotify WITH
          notifyBITS <- 6, ulCyclesToRaisePriority <- 2, ulMaxSendReceiveDeviation <- 5,
          Periods <- {10, 60}, NotifyMod <- 16, MaxPending <- 2
TD == INSTANCE TimerDemo WITH xBasePeriod <- 50, tmrdemoNUM_TIMER_RESETS <- 10
SB == INSTANCE StreamBufferDemo WITH
          sbLOOPS <- 2, sbNUMBER_OF_CHARACTERS <- 13, xCycleBlockTime <- 10
MB == INSTANCE MessageBufferDemo WITH
          mbLOOPS <- 2, mbNUMBER_OF_CHARACTERS <- 23, iMaxValue <- 11,
          iSendsBetweenIncrements <- 4, DataMod <- 12
AD == INSTANCE AbortDelay
SI == INSTANCE StreamBufferInterrupt
MA == INSTANCE MessageBufferAMP WITH ValueMod <- 12
TA == INSTANCE TaskNotifyArray WITH notifyBITS <- 6

Y == DY!vStartDynamicPriorityTasks
Z == DF!vStartDynamicPriorityTasks
I == IS!vStartInterruptSemaphoreTasks
E == EG!vStartEventGroupTasks
T == TN!vStartTaskNotifyTask
R == TD!vStartTimerDemoTask
F == SB!vStartStreamBufferTasks
G == MB!vStartMessageBufferTasks
A == TA!vStartTaskNotifyArrayTask
DeathTasks == DE!vCreateSuicidalTasks(3)

MCDemos ==
    "Dynamic" :> Y.counter @@ "DynamicQueue" :> Y.queue
    @@ "FullDynamic" :> Z.counter @@ "FullDynamicQueue" :> Z.queue @@ "FullDynamicChange" :> Z.change
    @@ "Death" :> DeathTasks
    @@ "BlockTime" :> BT!vCreateBlockTimeTasks
    @@ "IntSem" :> I.mutexes @@ "IntSemCounting" :> I.counting
    @@ "Events" :> E.tasks @@ "EventsInterrupt" :> E.interrupt
    @@ "NotifySelf" :> T.single
    @@ "Timer" :> R.task @@ "TimerInterrupt" :> R.interrupt
    @@ "StreamEchoH" :> F.echoHigher @@ "StreamEchoL" :> F.echoLower
    @@ "Stream0" :> F.nonBlocking @@ "StreamTrigger" :> F.trigger @@ "StreamL" :> F.senderLower
    @@ "MessageEchoH" :> G.echoHigher @@ "MessageEchoL" :> G.echoLower
    @@ "Message0" :> G.nonBlocking @@ "MessageSpace" :> G.coherence @@ "MessageL" :> G.senderLower
    @@ "StreamInterrupt" :> SI!vStartStreamBufferInterruptDemo
    @@ "MessageAMP" :> MA!vStartMessageBufferAMPTasks
    @@ "NotifyArray" :> A.cycle @@ "NotifyArrayInterrupt" :> A.interrupts
    @@ "AbortDelay" :> AD!vCreateAbortDelayTasks
-----------------------------------------------------------------------------
\* death.c: the tasks that delete each other and themselves do not pile up, although the
\* idle task may be kept from removing one: never more of them exist than the check
\* function allows, and none of those that were there before is gone.
NoneLeftBehind == demo = "Death" => DE!NumberOfTasksOK(kernel)
==============================================================================
