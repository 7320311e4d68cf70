------------------------------ MODULE RecMutex ------------------------------
(***************************************************************************)
(* demo-common/minimal/recmutex.c: three tasks of different priorities use *)
(* one recursive mutex.  The controlling task takes it recmuMAX_COUNT times*)
(* and gives it back as often, the blocking task waits for it, the polling *)
(* task tries without waiting and, when it has it, resumes the other two   *)
(* while it is still the holder.                                           *)
(***************************************************************************)
EXTENDS RtosKernel, Program

CONSTANTS
    recmuMAX_COUNT,     \* 10 in the source
    CyclesMod           \* bound: 2^32 for the UBaseType_t counters

recmuCONTROLLING_TASK_PRIORITY == 2
recmuBLOCKING_TASK_PRIORITY    == 1
recmuPOLLING_TASK_PRIORITY     == 0
recmuSHORT_DELAY == 20
recmu15ms_DELAY  == 15

Controlling == 1
Blocking    == 2
TakeCount   == [ux \in 1 .. recmuMAX_COUNT |-> ux]
Give1       == GiveRecursive("xMutex")
Count(var)  == Modulo(Add(var, 1), CyclesMod)

\* A task says that it is suspended, and is.
SuspendedWith(flag) == << Set(flag, 1), Suspend(Self), Set(flag, 0) >>

\* The first and the last give of a cycle must fail.
prvRecursiveMutexControllingTask == Task(recmuCONTROLLING_TASK_PRIORITY,
    << Fails(Give1) >>
    \o Repeat(TakeCount, LAMBDA ux :
          << Passes(Within(TakeRecursive("xMutex"), recmu15ms_DELAY)), Delay(recmuSHORT_DELAY) >>)
    \o Repeat(TakeCount, LAMBDA ux : << Delay(recmuSHORT_DELAY), Passes(Give1) >>)
    \o << Fails(Give1), Count("uxControllingCycles") >>
    \o SuspendedWith("xControllingIsSuspended"))

BlockingTaskSleepsFirst == Task(recmuBLOCKING_TASK_PRIORITY,
    << Passes(Within(TakeRecursive("xMutex"), Forever)) >>
    \o IfElse(Is("xControllingIsSuspended", 1), {1},
              SuspendedWith("xBlockingIsSuspended") \o << Passes(Give1) >>, <<>>)
    \o << Count("uxBlockingCycles") >>)

\* The block time portMAX_DELAY - 1 is 49 days: it is not over in the model.  The
\* controlling task must be exactly one cycle ahead.
prvRecursiveMutexBlockingTask == Task(recmuBLOCKING_TASK_PRIORITY,
    << Passes(Within(TakeRecursive("xMutex"), Forever)) >>
    \o IfElse(Is("xControllingIsSuspended", 1), {1},
              << Passes(Give1) >> \o SuspendedWith("xBlockingIsSuspended"), <<>>)
    \o << Expect([Call("Compare", "uxControllingCycles") EXCEPT !.v = 1, !.from = "uxBlockingCycles"],
                 {0, -CyclesMod}),
          Count("uxBlockingCycles") >>)

\* Once the other two are resumed they wait for the mutex: its holder has the priority of
\* the higher one until it gives it back.  When they are not both suspended it is kept.
ResumeOthers == <<
    Count("uxPollingCycles"), Resume(Blocking), Resume(Controlling),
    Is("xBlockingIsSuspended", 0), Is("xControllingIsSuspended", 0),
    PriorityIs(Self, recmuCONTROLLING_TASK_PRIORITY),
    StateIs(Controlling, "blocked"), StateIs(Blocking, "blocked"),
    Passes(Give1), PriorityIs(Self, recmuPOLLING_TASK_PRIORITY) >>

prvRecursiveMutexPollingTask == Task(recmuPOLLING_TASK_PRIORITY,
    If(TakeRecursive("xMutex"), {Pass},
       << StateIs(Controlling, "suspended"), StateIs(Blocking, "suspended") >>
       \o IfElse(Is("xBlockingIsSuspended", 1), {1},
                 IfElse(Is("xControllingIsSuspended", 1), {1}, ResumeOthers, <<>>), <<>>)))

xAreRecursiveMutexTasksStillRunning ==
    <<"uxControllingCycles", "uxBlockingCycles", "uxPollingCycles">>

\* The polling task polls all the time, so that time passes only while it is kept waiting;
\* a task of the priority 2, its own or inherited, is not.
vStartRecursiveMutexTasks ==
    Prompt(Demo(<< prvRecursiveMutexControllingTask, prvRecursiveMutexBlockingTask,
                   prvRecursiveMutexPollingTask >>,
                [xMutex |-> Mutex],
                Zero({"xControllingIsSuspended", "xBlockingIsSuspended"}
                     \cup Range(xAreRecursiveMutexTasksStillRunning)),
                xAreRecursiveMutexTasksStillRunning), {1, 2})
-----------------------------------------------------------------------------
\* The outline (module Outlines) of the tasks that suspend themselves: how often they hold
\* the mutex.  The first and the last give of the controlling task fail, and the blocking
\* task has the mutex while it looks at what the controlling task does.
Outline ==
    LET calls       == prvRecursiveMutexControllingTask.program
        made(op, n) == Cardinality({k \in 2 .. n - 1 : calls[k].op = op})
        controlling(n) == Max({0, made("TakeRecursive", n) - made("GiveRecursive", n)})
        blocking(n) == IF n \in {2, 3} THEN 1 ELSE 0
    IN  [program |-> vStartRecursiveMutexTasks,
         depth   |-> << [n \in DOMAIN calls |-> [xMutex |-> controlling(n)]],
                        [n \in DOMAIN prvRecursiveMutexBlockingTask.program |->
                            [xMutex |-> blocking(n)]] >>]

Outlines == {Outline}
=============================================================================
