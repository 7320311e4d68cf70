-------------------------- MODULE EventGroupsDemo --------------------------
(***************************************************************************)
(* demo-common/minimal/EventGroupsDemo.c: tasks wait for bits of an event  *)
(* group and meet in it, and an interrupt sets and clears bits through the *)
(* timer task.  A bit is a number, a value a set of bits.                  *)
(***************************************************************************)
EXTENDS RtosKernel, Program

ebSET_BIT_TASK_PRIORITY  == 0
ebWAIT_BIT_TASK_PRIORITY == 1
ebALL_BITS       == 0 .. 7
ebCOMBINED_BITS  == {1, 5, 7}
ebBIT_1          == {1}
ebSET_BIT_TASK_SYNC_BIT  == {0}
ebWAIT_BIT_TASK_SYNC_BIT == {1}
ebRENDESVOUS_TASK_SYNC_BIT == << {2}, {3} >>
ebALL_SYNC_BITS  == 0 .. 3
ebSELECTIVE_BITS == << {0, 1}, {0, 2} >>
ebDONT_BLOCK     == 0

xTestSlave == 1
xSyncTasks == <<3, 4>>
Others     == <<xTestSlave>> \o xSyncTasks

AllAre(tasks, state) == Repeat(tasks, LAMBDA t : << StateIs(t, state) >>)
ResumeThem(tasks)    == Repeat(tasks, LAMBDA t : << Resume(t) >>)

Gives(c, bits)    == Expect(c, {bits})
GivesAll(c, bits) == Expect(c, {b \in SUBSET ebALL_BITS : bits \subseteq b})
NotAll(c, bits)   == Expect(c, {b \in SUBSET ebALL_BITS : ~(bits \subseteq b)})

SyncAll(bit, ticks) == Sync("xEventGroup", bit, ebALL_SYNC_BITS, ticks)
BitsNow == WaitBits("xEventGroup", ebALL_BITS, FALSE, FALSE, ebDONT_BLOCK)
\* A wait that ends when the group is deleted.
WaitForDeletion ==
    Gives(WaitBits("xEventGroup", ebALL_SYNC_BITS, FALSE, TRUE, Forever), {})
-----------------------------------------------------------------------------
SlaveLeavesBits(i) ==
    LET wait == WaitBits("xEventGroup", ebSELECTIVE_BITS[i], FALSE, FALSE, Forever)
    IN  << Suspend(Self), [wait EXCEPT !.expect = {{}}, !.no = -1] >>
prvSelectiveBitsTestSlaveFunction(i) ==
    LET wait == WaitBits("xEventGroup", ebSELECTIVE_BITS[i], TRUE, FALSE, Forever)
    IN  << Suspend(Self), [wait EXCEPT !.expect = {{}}, !.no = -1] >>

prvSyncTask(i) ==
    LET uxSynchronisationBit == ebRENDESVOUS_TASK_SYNC_BIT[i]
    IN  TaskOf(ebWAIT_BIT_TASK_PRIORITY, prvSelectiveBitsTestSlaveFunction(i), <<
            Suspend(Self),
            NotAll(SyncAll(uxSynchronisationBit, ebDONT_BLOCK), ebALL_SYNC_BITS),
            GivesAll(SyncAll(uxSynchronisationBit, Forever), ebALL_SYNC_BITS),
            Suspend(Self),
            GivesAll(SyncAll(uxSynchronisationBit, Forever), ebALL_SYNC_BITS),
            WaitForDeletion >>)

prvTestSlaveTask ==
    LET wait(bits, clear) == WaitBits("xEventGroup", bits, clear, TRUE, Forever)
        meet == GivesAll(SyncAll(ebWAIT_BIT_TASK_SYNC_BIT, Forever), ebALL_SYNC_BITS)
    IN  Task(ebWAIT_BIT_TASK_PRIORITY, <<
            Suspend(Self), Gives(wait(ebBIT_1, TRUE), ebCOMBINED_BITS),
            GivesAll(wait(ebCOMBINED_BITS, FALSE), ebCOMBINED_BITS),
            Suspend(Self), Gives(wait(ebCOMBINED_BITS, TRUE), ebALL_BITS),
            Suspend(Self), meet, Gives(SetBits("xEventGroup", {}), {}),
            Gives(GetBits("xEventGroup"), {}), Add("ulTestSlaveCycles", 1),
            Suspend(Self), meet, Gives(SetBits("xEventGroup", {}), {}),
            WaitForDeletion, Add("ulTestSlaveCycles", 1) >>)
-----------------------------------------------------------------------------
prvSelectiveBitsTestMasterFunction ==
    LET after(bit, i) == IF bit \in ebSELECTIVE_BITS[i] THEN "suspended" ELSE "blocked"
    IN  AllAre(xSyncTasks, "suspended")
        \o Repeat(<<0, 1, 2, 3, 4, 5, 6, 7>>, LAMBDA bit :
              ResumeThem(xSyncTasks) \o AllAre(xSyncTasks, "blocked")
              \o << SetBits("xEventGroup", {bit}),
                    StateIs(xSyncTasks[1], after(bit, 1)), StateIs(xSyncTasks[2], after(bit, 2)) >>)
        \o ResumeThem(xSyncTasks) \o << DeleteGroup("xEventGroup") >>

prvBitCombinationTestMasterFunction == <<
    Resume(xTestSlave), StateIs(xTestSlave, "blocked"),
    SetBits("xEventGroup", ebCOMBINED_BITS), Gives(BitsNow, ebCOMBINED_BITS \ ebBIT_1),
    StateIs(xTestSlave, "blocked"),
    SetBits("xEventGroup", ebALL_BITS \ ebBIT_1), Gives(BitsNow, ebALL_BITS \ ebBIT_1),
    StateIs(xTestSlave, "blocked"),
    SetBits("xEventGroup", ebBIT_1), StateIs(xTestSlave, "suspended"),
    Gives(SetBits("xEventGroup", {}), ebALL_BITS),
    Gives(ClearBits("xEventGroup", ebBIT_1), ebALL_BITS),
    Resume(xTestSlave), StateIs(xTestSlave, "blocked"),
    SetBits("xEventGroup", ebBIT_1), StateIs(xTestSlave, "suspended"),
    Gives(BitsNow, ebALL_BITS \ ebCOMBINED_BITS),
    Gives(ClearBits("xEventGroup", ebALL_BITS), ebALL_BITS \ ebCOMBINED_BITS),
    Gives(GetBits("xEventGroup"), {}) >>

prvPerformTaskSyncTests ==
    LET others == ebALL_SYNC_BITS \ ebSET_BIT_TASK_SYNC_BIT
        meet   == << GivesAll(SyncAll(ebSET_BIT_TASK_SYNC_BIT, Forever), ebALL_SYNC_BITS),
                     Gives(GetBits("xEventGroup"), {}) >>
    IN  AllAre(Others, "suspended")
        \o << SetBits("xEventGroup", others),
              GivesAll(Sync("xEventGroup", ebSET_BIT_TASK_SYNC_BIT, ebSET_BIT_TASK_SYNC_BIT, Forever),
                       ebSET_BIT_TASK_SYNC_BIT),
              Gives(GetBits("xEventGroup"), others), ClearBits("xEventGroup", others),
              Gives(GetBits("xEventGroup"), {}) >>
        \o ResumeThem(Others) \o AllAre(Others, "blocked") \o meet \o AllAre(Others, "suspended")
        \o ResumeThem(Others) \o AllAre(Others, "blocked")
        \o << PrioritySet(Self, ebWAIT_BIT_TASK_PRIORITY + 1) >> \o meet \o AllAre(Others, "ready")
        \o << PrioritySet(Self, ebSET_BIT_TASK_PRIORITY) >> \o AllAre(Others, "blocked")

prvTestMasterTask ==
    TaskOf(ebSET_BIT_TASK_PRIORITY, prvSelectiveBitsTestMasterFunction,
           prvBitCombinationTestMasterFunction \o prvPerformTaskSyncTests
           \o << DeleteGroup("xEventGroup") >> \o AllAre(Others, "suspended")
           \o << Add("ulTestMasterCycles", 1) >>)
-----------------------------------------------------------------------------
\* The tick counts to 300: it sets bits at 100, finds them set at 200, and clears them.
vPeriodicEventGroupsProcessing ==
    LET uxBitsToSet == {1, 4}
    IN  Task(Interrupt, <<
            Delay(100), Gives(GetBits("xISREventGroup"), {}),
            Passes(Command("SetBits", "xISREventGroup", uxBitsToSet)),
            Delay(100), Gives(GetBits("xISREventGroup"), uxBitsToSet),
            Delay(100), Passes(Command("ClearBits", "xISREventGroup", uxBitsToSet)),
            Add("ulISRCycles", 1) >>)

xAreEventGroupTasksStillRunning == <<"ulTestMasterCycles", "ulTestSlaveCycles", "ulISRCycles">>

\* The interrupt has an event group of its own, which makes it a program of its own.
vStartEventGroupTasks == [
    tasks |->
        Demo(<< prvTestSlaveTask, prvTestMasterTask, prvSyncTask(1), prvSyncTask(2) >>,
             [xEventGroup |-> EventGroup],
             Zero({"ulTestMasterCycles", "ulTestSlaveCycles"}),
             SubSeq(xAreEventGroupTasksStillRunning, 1, 2)),
    interrupt |->
        Prompt(Demo(<< vPeriodicEventGroupsProcessing, Daemon(<<>>) >>,
                    [xISREventGroup |-> EventGroup, xTimerQueue |-> Commands],
                    Zero({"ulISRCycles"}), <<xAreEventGroupTasksStillRunning[3]>>), {0, 4})]
=============================================================================
