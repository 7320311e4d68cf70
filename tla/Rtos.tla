-------------------------------- MODULE Rtos --------------------------------
(***************************************************************************)
(* Several programs of demo-common on the kernel.  One of them, demo, is   *)
(* chosen at the start; its tasks and interrupt handlers are scheduled by  *)
(* priority, and each step of a task is one call of its program.           *)
(*                                                                         *)
(* Time passes to the next moment at which a delay, a block time or a      *)
(* timer ends.  It passes while no task is ready, and also while a task of *)
(* a priority below prompt is ready: other tasks of the system may keep    *)
(* such tasks waiting for any time.  In a program that is paced it also    *)
(* passes while any task is ready, but not before each of the tasks in     *)
(* D.paced has done a whole round of its loop since the last time and since*)
(* a task began to wait: they are never so slow that a wait ends before.   *)
(***************************************************************************)
EXTENDS RtosKernel, Program

CONSTANTS
    Demos,          \* the programs, by name
    CounterMod      \* bound: the variables count modulo this number

ASSUME CounterModAssumption == CounterMod \in Nat /\ CounterMod > 1

VARIABLES
    demo,           \* fixed: the program
    prompt,         \* fixed: tasks from this priority on are never kept waiting
    pc,             \* the next call of each task
    kernel,              \* the kernel (RtosKernel)
    mem,            \* the variables of the program
    error,          \* the program has found an error
    began, ended    \* the tasks of D.paced that have begun, and then ended, a round of
                    \* their loop since time passed or a task began to wait

vars == <<demo, prompt, pc, kernel, mem, error, began, ended>>

D == Demos[demo]

Tasks == DOMAIN pc

\* The call that t makes next.  In all that follows d is the program, D, and c this call.
CallOf(d, t) == LET c == d.tasks[t].program[pc[t]]
                IN  IF c.of = "" THEN c ELSE [c EXCEPT !.o = mem[c.of]]

\* How many calls further the program goes with the result r, and the call that is then the
\* next of the task: the jump at the end of a branch is no step of its own, and the end of
\* the program leads back to its loop.
Ahead(c, r) == IF c.expect = {} \/ r \in c.expect THEN c.ok ELSE c.no

Follow(p, n) == IF n <= Len(p) /\ p[n].op = "Jump" THEN n + p[n].ok ELSE n

AtEnd(task, n) == Follow(task.program, n) > Len(task.program)
Place(task, n) == IF AtEnd(task, n) THEN task.again ELSE Follow(task.program, n)

\* The call is over with result r.  The local variables of a loop are forgotten where it
\* starts again.
\* DoneAt: as well, the next calls of the other tasks are those of p, and the call has
\* changed the variables to m.
DoneAt(d, p, m, t, c, r) ==
    LET task    == d.tasks[t]
        written == IF c.into = "" THEN m ELSE [m EXCEPT ![c.into] = r]
    IN
    /\ pc' = [p EXCEPT ![t] = Place(task, pc[t] + Ahead(c, r))]
    /\ mem' = IF AtEnd(task, pc[t] + Ahead(c, r)) /\ task.locals # {}
              THEN [v \in DOMAIN mem |-> IF v \in task.locals THEN d.mem[v] ELSE written[v]]
              ELSE written
    /\ error' = (error \/ (c.strict /\ r \notin c.expect))

Done(d, t, c, r) == DoneAt(d, pc, mem, t, c, r)

\* A call that gives back a second result, in the variable c.out.
DoneOut(d, t, c, r, out) ==
    DoneAt(d, pc, IF c.out = "" THEN mem ELSE [mem EXCEPT ![c.out] = out], t, c, r)

\* What is left of the block time of the call that t makes or is blocked in.
Patience(t, c) == IF kernel.task[t].left = Fresh THEN c.block ELSE kernel.task[t].left

Rested(K1, t) == [K1 EXCEPT !.task[t].left = Fresh]

\* What a call passes on; to the timer task it is a record.
Value(c) == IF c.from = "" THEN c.v ELSE c.v + mem[c.from]
Item(c) == IF c.cmd = "" THEN Value(c) ELSE [cmd |-> c.cmd, o |-> c.to, v |-> Value(c)]
-----------------------------------------------------------------------------
(* Calls on queues, semaphores and mutexes *)

QueueCall(d, t, c) ==
    /\ c.op \in QueueCalls
    /\ \/ /\ QueueAble(kernel, c)
          /\ kernel' = Rested(QueueAfter(kernel, c, Item(c)), t)
          /\ Done(d, t, c, QueueReturned(kernel, c))
       \/ /\ ~QueueAble(kernel, c) /\ Patience(t, c) = NoBlock
          /\ kernel' = Rested(kernel, t)
          /\ Done(d, t, c, Refused(c))
       \/ /\ ~QueueAble(kernel, c) /\ Patience(t, c) # NoBlock
          /\ kernel' = Block(kernel, t, IF c.op \in Receives THEN Filled(c.o)
                                                              ELSE Emptied(c.o),
                        Patience(t, c))
          /\ UNCHANGED <<pc, mem, error>>

MutexCall(d, t, c) ==
    /\ c.op \in MutexCalls
    /\ \/ /\ MutexAble(kernel, t, c)
          /\ kernel' = Rested(MutexAfter(kernel, t, c), t)
          /\ Done(d, t, c, MutexReturned(kernel, c))
       \/ /\ ~MutexAble(kernel, t, c) /\ Patience(t, c) = NoBlock
          /\ kernel' = Rested(DisinheritAfterTimeout(kernel, t, c.o), t)
          /\ Done(d, t, c, Fail)
       \/ /\ ~MutexAble(kernel, t, c) /\ Patience(t, c) # NoBlock
          /\ kernel' = Block(Inherit(kernel, t, c.o), t, Filled(c.o), Patience(t, c))
          /\ UNCHANGED <<pc, mem, error>>
-----------------------------------------------------------------------------
(* Calls on tasks *)

Target(t, c) == IF c.o = Self THEN t ELSE c.o

DelayCall(d, t, c) ==
    LET ticks == IF kernel.task[t].left = Fresh THEN c.block + Value(c) ELSE kernel.task[t].left
    IN  /\ c.op = "Delay"
        /\ IF ticks = 0 THEN kernel' = Rested(kernel, t) /\ Done(d, t, c, Pass)
           ELSE kernel' = Block(kernel, t, Nowhere, ticks) /\ UNCHANGED <<pc, mem, error>>

\* The next wake time is a period after the last: c.o is the time since then, which is
\* negative when it is still to come.
DelayUntilCall(d, t, c) ==
    LET since == mem[c.o] - c.v
    IN  /\ c.op = "DelayUntil"
        /\ IF kernel.task[t].left # Fresh
           THEN kernel' = Rested(kernel, t) /\ Done(d, t, c, Pass)
           ELSE IF since >= 0
           THEN kernel' = kernel /\ DoneAt(d, pc, [mem EXCEPT ![c.o] = since], t, c, 0)
           ELSE /\ kernel' = Block(kernel, t, Nowhere, -since)
                /\ mem' = [mem EXCEPT ![c.o] = since]
                /\ UNCHANGED <<pc, error>>

\* A suspended task that waited for something tries again when it is resumed.
SuspendCall(d, t, c) ==
    /\ c.op = "Suspend"
    /\ kernel' = [Unblock(kernel, Target(t, c)) EXCEPT !.task[Target(t, c)].run = "suspended"]
    /\ Done(d, t, c, Pass)

ResumeCall(d, t, c) ==
    /\ c.op = "Resume"
    /\ kernel' = IF kernel.task[c.o].run = "suspended" THEN Unblock(kernel, c.o) ELSE kernel
    /\ Done(d, t, c, Pass)

\* The block time of another task is over at once.
AbortDelayCall(d, t, c) ==
    LET blocked == kernel.task[c.o].run = "blocked"
    IN  /\ c.op = "AbortDelay"
        /\ kernel' = IF blocked THEN [Unblock(kernel, c.o) EXCEPT !.task[c.o].left = 0] ELSE kernel
        /\ Done(d, t, c, IF blocked THEN Pass ELSE Fail)

\* vTaskPrioritySet changes the base priority, and the present one unless a higher
\* one is inherited.
PriorityCall(d, t, c) ==
    LET u == Target(t, c)
        r == kernel.task[u]
    IN  \/ /\ c.op = "PrioritySet"
           /\ kernel' = [kernel EXCEPT !.task[u] = [@ EXCEPT
                      !.base = c.v,
                      !.prio = IF r.base = r.prio \/ c.v > r.prio THEN c.v ELSE r.prio]]
           /\ Done(d, t, c, Pass)
        \/ /\ c.op = "PriorityGet"
           /\ Done(d, t, c, r.prio)
           /\ UNCHANGED kernel

\* A new task begins its program.  One that deletes itself exists until the idle task
\* has the processor.
CreateCall(d, t, c) ==
    LET free == {u \in c.o : kernel.task[u].run = Absent}
    IN  /\ c.op = "Create"
        /\ IF free = {} THEN Done(d, t, c, Fail) /\ UNCHANGED kernel
           ELSE LET u == Min(free)
                IN  /\ kernel' = [kernel EXCEPT !.task[u] = NewTask(c.v, <<>>)]
                    /\ DoneAt(d, [pc EXCEPT ![u] = 1], mem, t, c, u)

DeleteCall(d, t, c) ==
    LET u == Target(t, c)
    IN  /\ c.op = "Delete"
        /\ kernel' = [Unblock(kernel, u) EXCEPT
               !.task[u] = [Gone EXCEPT !.run = IF u = t THEN "deleted" ELSE Absent]]
        /\ IF u = t THEN pc' = [pc EXCEPT ![t] = 1] /\ UNCHANGED <<mem, error>>
           ELSE Done(d, t, c, Pass)

\* eTaskGetState: a task that waits for ever at no object is suspended.
StateOf(u) == IF kernel.task[u].run = "blocked" /\ kernel.task[u].left >= Forever
                 /\ kernel.task[u].on = Nowhere
              THEN "suspended" ELSE kernel.task[u].run

GetStateCall(d, t, c) ==
    /\ c.op = "GetState"
    /\ Done(d, t, c, StateOf(c.o))
    /\ UNCHANGED kernel

\* A critical section, and a time with the scheduler suspended, which nests; only the
\* outermost xTaskResumeAll may switch to another task.
LockCall(d, t, c) ==
    LET locks == c.op \in {"EnterCritical", "SuspendAll"}
    IN  /\ locks \/ c.op \in {"ExitCritical", "ResumeAll"}
        /\ kernel' = [kernel EXCEPT !.lock = IF locks \/ kernel.nest > 1 THEN t ELSE Nobody,
                                    !.nest = IF locks THEN @ + 1 ELSE @ - 1,
                                    !.mask = (c.op = "EnterCritical")]
        /\ Done(d, t, c, IF locks \/ kernel.nest = 1 THEN Pass ELSE 0)
-----------------------------------------------------------------------------
(* Notifications, event groups and timers *)

NoteCall(d, t, c) ==
    LET u == Target(t, c)
    IN  /\ c.op \in NoteCalls
        /\ kernel' = AfterNoteCall(kernel, u, c, Value(c))
        /\ DoneOut(d, t, c, NoteReturned(kernel, u, c), kernel.task[u].note[c.ix].value)

\* A task that has waited does not wait again, whatever it has been woken by.
NoteWaitCall(d, t, c) ==
    LET first == kernel.task[t].left = Fresh
        n == IF first THEN OnEntry(kernel.task[t].note[c.ix], c) ELSE kernel.task[t].note[c.ix]
    IN  /\ c.op \in WaitCalls
        /\ IF first /\ ~NoteWanted(n, c) /\ c.block # NoBlock
           THEN /\ kernel' = [Block(kernel, t, NoteWait(c.ix), c.block) EXCEPT
                                 !.task[t].note[c.ix] = [n EXCEPT !.received = FALSE]]
                /\ UNCHANGED <<pc, mem, error>>
           ELSE /\ kernel' = Rested([kernel EXCEPT !.task[t].note[c.ix] = OnExit(n, c)], t)
                /\ DoneOut(d, t, c, WaitReturned(n, c), n.value)

GroupCall(d, t, c) ==
    /\ c.op \in GroupCalls
    /\ kernel' = AfterGroupCall(kernel, c)
    /\ Done(d, t, c, GroupReturned(kernel, c))

GroupWaitCall(d, t, c) ==
    LET r    == kernel.task[t]
        K1   == IF Rendezvous(c) /\ r.left = Fresh THEN GroupSet(kernel, c.o, c.v[1]) ELSE kernel
        have == IF Rendezvous(c) /\ r.left = Fresh THEN kernel.obj[c.o].bits \cup c.v[1]
                ELSE kernel.obj[c.o].bits
        met  == Satisfied(have, Awaited(c), NeedsAll(c))
        K2   == IF met /\ Clears(c) /\ r.got = NotGot THEN GroupClear(K1, c.o, Awaited(c)) ELSE K1
    IN  /\ c.op \in {"WaitBits", "Sync"}
        /\ \/ /\ r.left = Fresh /\ ~met /\ c.block # NoBlock
              /\ kernel' = Block(K1, t, GroupWait(c.o, Awaited(c), NeedsAll(c), Clears(c)), c.block)
              /\ UNCHANGED <<pc, mem, error>>
           \/ /\ r.left # Fresh \/ met \/ c.block = NoBlock
              /\ kernel' = Rested([K2 EXCEPT !.task[t].got = NotGot], t)
              /\ Done(d, t, c, IF r.got # NotGot THEN CHOOSE bits \in r.got : TRUE
                            ELSE IF met THEN have ELSE K1.obj[c.o].bits)

\* The timer task executes a command, or else runs the callback of a timer, or waits.
DaemonCall(d, t, c) ==
    LET queue == kernel.obj[TimerQueue].items
    IN  /\ c.op = "Daemon"
        /\ \/ /\ queue # <<>>
              /\ kernel' = Rested(Executed(Leave(kernel, TimerQueue, Tail(queue)), Head(queue)), t)
              /\ UNCHANGED pc
           \/ /\ queue = <<>> /\ Expired(kernel) # {}
              /\ \E o \in NextExpired(kernel) :
                    /\ kernel' = Rested(Expire(kernel, o), t)
                    /\ pc' = [pc EXCEPT ![t] = d.tasks[t].entry[kernel.obj[o].entry]]
           \/ /\ queue = <<>> /\ Expired(kernel) = {}
              /\ kernel' = Block(kernel, t, Filled(TimerQueue), UntilNext(kernel))
              /\ UNCHANGED pc
        /\ UNCHANGED <<mem, error>>

TimerCall(d, t, c) ==
    /\ c.op \in TimerCalls
    /\ kernel' = AfterTimerCall(kernel, c)
    /\ Done(d, t, c, TimerReturned(kernel, c))
-----------------------------------------------------------------------------
(* Stream and message buffers *)

\* The data that is sent, and the most that is received.
Data(c) == IF c.from = "" THEN c.v
           ELSE IF c.v = <<>> THEN mem[c.from]
           ELSE SubSeq(c.v, mem[c.from] + 1, Min({mem[c.from] + c.mod, Len(c.v)}))

MaxLength(c) == IF c.from = "" THEN c.v ELSE Min({c.v, c.mod - mem[c.from]})

\* A sender waits until there is space for all, and then writes what it can; a message
\* that can never fit is not waited for.
SendCall(d, t, c) ==
    LET b == kernel.obj[c.o]
        data == Data(c)
        waits == /\ Patience(t, c) # NoBlock
                 /\ Space(b) < Required(b, data)
                 /\ Required(b, data) <= b.size
    IN  /\ c.op = "Send"
        /\ IF waits
           THEN /\ kernel' = Block(kernel, t, Emptied(c.o), Patience(t, c))
                /\ UNCHANGED <<pc, mem, error>>
           ELSE /\ kernel' = Rested(AfterSend(kernel, c.o, data), t)
                /\ Done(d, t, c, Written(b, data))

\* A receiver waits once, until the trigger level is reached, and takes what there is.
FetchCall(d, t, c) ==
    LET b == kernel.obj[c.o]
        data == Readable(b, MaxLength(c))
    IN  /\ c.op = "Fetch"
        /\ IF b.items = <<>> /\ kernel.task[t].left = Fresh /\ c.block # NoBlock
           THEN /\ kernel' = Block(kernel, t, Filled(c.o), c.block)
                /\ UNCHANGED <<pc, mem, error>>
           ELSE /\ kernel' = Rested(AfterReceive(kernel, c.o, MaxLength(c)), t)
                /\ DoneOut(d, t, c, Len(data), data)

BufferCall(d, t, c) ==
    /\ c.op \in BufferCalls
    /\ kernel' = AfterBufferCall(kernel, c)
    /\ Done(d, t, c, BufferReturned(kernel, c))

\* The decimal digits of n.
Digits(n) == LET k == CHOOSE i \in 1 .. 10 : n < 10^i /\ (i = 1 \/ n >= 10^(i - 1))
             IN  [i \in 1 .. k |-> (n \div 10^(k - i)) % 10]

DataCall(d, t, c) ==
    LET data == mem[c.o]
        index == IF c.from = "" THEN 0 ELSE mem[c.from]
    IN  /\ \/ /\ c.op = "Matches"
              /\ Done(d, t, c, Truth(\A i \in DOMAIN data :
                                     data[i] = c.v[((index + i - 1) % Len(c.v)) + 1]))
           \/ c.op = "SameData" /\ Done(d, t, c, Truth(data = mem[c.from]))
           \/ c.op = "Format" /\ DoneAt(d, pc, [mem EXCEPT ![c.o] = Digits(mem[c.from])], t, c, Pass)
        /\ UNCHANGED kernel
-----------------------------------------------------------------------------
(* The program's own variables *)

ReadCall(d, t, c) ==
    /\ c.op \in {"Read", "Compare", "Jump"}
    /\ Done(d, t, c, CASE c.op = "Read"    -> mem[c.o]
                    [] c.op = "Compare" -> mem[c.o] - Value(c)
                    [] c.op = "Jump"    -> Pass)
    /\ UNCHANGED kernel

\* The time since a stamp, which is not needed any more.
ElapsedCall(d, t, c) ==
    /\ c.op = "Elapsed"
    /\ DoneAt(d, pc, [mem EXCEPT ![c.o] = Unset], t, c, mem[c.o])
    /\ UNCHANGED kernel

ChooseCall(d, t, c) ==
    /\ c.op = "Choose"
    /\ \E r \in c.v : Done(d, t, c, r)
    /\ UNCHANGED kernel

WriteCall(d, t, c) ==
    LET modulus == IF c.mod = 0 THEN CounterMod ELSE c.mod
    IN  /\ c.op \in {"Set", "Add"}
        /\ Done(d, t, c, IF c.op = "Set" /\ c.mod = 0 THEN Value(c)
                      ELSE (Value(c) + IF c.op = "Add" THEN mem[c.o] ELSE 0) % modulus)
        /\ UNCHANGED kernel
-----------------------------------------------------------------------------
\* The time since each stamp, after these ticks.
StampsAfter(d, ticks) ==
    [v \in DOMAIN mem |-> IF v \in d.stamps /\ mem[v] # Unset THEN mem[v] + ticks ELSE mem[v]]

\* xTaskCatchUpTicks: these ticks pass at once.
CatchUpCall(d, t, c) ==
    /\ c.op = "CatchUpTicks"
    /\ kernel' = TimersAfter(TasksAfter(kernel, c.v), c.v)
    /\ DoneAt(d, pc, StampsAfter(d, c.v), t, c, Pass)

StepOf(d, t, c) ==
    /\ \/ QueueCall(d, t, c) \/ MutexCall(d, t, c)
       \/ CreateCall(d, t, c) \/ DeleteCall(d, t, c)
       \/ DelayCall(d, t, c) \/ DelayUntilCall(d, t, c)
       \/ SuspendCall(d, t, c) \/ ResumeCall(d, t, c) \/ AbortDelayCall(d, t, c)
       \/ NoteCall(d, t, c) \/ NoteWaitCall(d, t, c)
       \/ GroupCall(d, t, c) \/ GroupWaitCall(d, t, c)
       \/ CatchUpCall(d, t, c) \/ DaemonCall(d, t, c) \/ TimerCall(d, t, c)
       \/ SendCall(d, t, c) \/ FetchCall(d, t, c) \/ BufferCall(d, t, c) \/ DataCall(d, t, c)
       \/ PriorityCall(d, t, c) \/ GetStateCall(d, t, c) \/ LockCall(d, t, c)
       \/ ReadCall(d, t, c) \/ ElapsedCall(d, t, c) \/ ChooseCall(d, t, c) \/ WriteCall(d, t, c)
    /\ LET waits == kernel'.task[t].run = "blocked"
           paced == {t} \cap d.paced
       IN  /\ began' = IF waits THEN {}
                       ELSE IF pc[t] = d.tasks[t].again THEN began \cup paced ELSE began
           /\ ended' = IF waits THEN {}
                       ELSE IF pc'[t] = d.tasks[t].again THEN ended \cup (paced \cap began) ELSE ended
    /\ UNCHANGED <<demo, prompt>>

Step(d, t) == Dispatchable(kernel, t) /\ \E c \in {CallOf(d, t)} : StepOf(d, t, c)

\* While time passes the idle task removes the deleted tasks, but other tasks may keep it
\* from doing so while no more than d.unreaped of them wait to be removed.
IdleTurn(d, K) == {Reap(K)} \cup
    IF Cardinality({t \in DOMAIN K.task : K.task[t].run = "deleted"}) <= d.unreaped THEN {K} ELSE {}

\* Time does not pass while more than d.backlog notifications of one task are pending.
Elapse(d) ==
    /\ Timed(kernel) # {}
    /\ d.backlog = Forever \/ \A t \in Tasks : \A ix \in DOMAIN kernel.task[t].note :
                                   kernel.task[t].note[ix].value <= d.backlog
    /\ \/ /\ \A t \in ReadyTasks(kernel) : kernel.task[t].prio < prompt
          /\ UNCHANGED <<began, ended>>
       \/ /\ \E t \in ReadyTasks(kernel) : kernel.task[t].prio \in prompt .. Interrupt - 1
          /\ d.paced # {} /\ ended = d.paced
          /\ \A t \in ReadyTasks(kernel) : kernel.task[t].prio < Interrupt
          /\ began' = {} /\ ended' = {}
    /\ LET ticks == Min({kernel.task[t].left : t \in Timed(kernel)})
       IN  /\ \E K \in IdleTurn(d, TasksAfter(kernel, ticks)) : kernel' = TimersAfter(K, ticks)
           /\ mem' = StampsAfter(d, ticks)
    /\ UNCHANGED <<demo, prompt, pc, error>>

InitOf(d) ==
    /\ prompt \in d.prompt
    /\ pc = [t \in DOMAIN d.tasks |-> 1]
    /\ kernel = [task |-> [t \in DOMAIN d.tasks |->
                               IF d.tasks[t].priority < 0 THEN Gone
                               ELSE NewTask(d.tasks[t].priority, d.tasks[t].notes)],
                 obj  |-> d.obj, line |-> <<>>, lock |-> Nobody, nest |-> 0, mask |-> FALSE]
    /\ mem = d.mem
    /\ error = FALSE /\ began = {} /\ ended = {}

Init == demo \in DOMAIN Demos /\ \E d \in {D} : InitOf(d)

Next == \E d \in {D} : Elapse(d) \/ \E t \in Tasks : Step(d, t)

\* No program has more tasks than MaxTasks.
MaxTasks == 8
MayRun(i) == i \in Tasks /\ Dispatchable(kernel, i)
Runs(i) == i \in Tasks /\ \/ pc'[i] # pc[i]
                          \/ kernel.task[i].run = "ready" /\ kernel'.task[i].run \in {"blocked", "deleted"}

\* Time goes on, and a task that may run again and again does.  For tasks this is the
\* strong fairness of Step(D, i), whose steps are those with Runs(i) and which is possible
\* just when MayRun(i), in a form that TLC evaluates fast.
Fairness ==
    /\ WF_vars(Elapse(D))
    /\ \A i \in 1 .. MaxTasks : []<>MayRun(i) => []<><<Runs(i)>>_vars

Spec == Init /\ [][Next]_vars /\ Fairness
-----------------------------------------------------------------------------
\* Whatever the interleaving, no demonstration finds an error: every call returns
\* what the program expects of it at this point.
NoErrorDetected == ~error

\* "...still running": every variable that a check function watches goes on
\* changing for ever, so that no task of the program has stalled.
Watched(i) == IF i \in DOMAIN D.watched THEN {D.watched[i]} ELSE {}
NobodyStalls ==
    \A i \in 1 .. 3 : /\ []<>(\A v \in Watched(i) : mem[v] = 0)
                      /\ []<>(\A v \in Watched(i) : mem[v] # 0)
=============================================================================
