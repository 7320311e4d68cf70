----------------------------- MODULE RtosProofs -----------------------------
(***************************************************************************)
(* Programs on the kernel whose outlines fit (Outlines.tla): for every     *)
(* program, every number of tasks and priorities, every interleaving that  *)
(* the kernel's scheduling, its time-outs and its interrupts allow.        *)
(*                                                                         *)
(* An invariant here says of each task what its outline says of its place, *)
(* and relates it to the object that the tasks share.  The lemmas before   *)
(* it say what one call of the kernel does to one object, however it ends. *)
(***************************************************************************)
EXTENDS Outlines, SequenceTheorems, TLAPS

\* K2 differs from K at most in the tasks.
SameObjects(K, K2) == "obj" \in DOMAIN K2 /\ K2.obj = K.obj

LEMMA UnblockObjects ==
    ASSUME NEW K, NEW t, "obj" \in DOMAIN K
    PROVE  SameObjects(K, Unblock(K, t))
  BY DEF Unblock, SameObjects

LEMMA BlockObjects ==
    ASSUME NEW K, NEW t, NEW where, NEW ticks, "obj" \in DOMAIN K
    PROVE  SameObjects(K, Block(K, t, where, ticks))
  BY DEF Block, SameObjects

LEMMA WakeObjects ==
    ASSUME NEW K, NEW where, "obj" \in DOMAIN K
    PROVE  SameObjects(K, Wake(K, where))
  BY UnblockObjects DEF Wake, SameObjects

LEMMA RestedObjects ==
    ASSUME NEW K, NEW t, "obj" \in DOMAIN K
    PROVE  SameObjects(K, Rested(K, t))
  BY DEF Rested, SameObjects

LEMMA TasksAfterObjects ==
    ASSUME NEW K, NEW ticks, "obj" \in DOMAIN K
    PROVE  SameObjects(K, TasksAfter(K, ticks))
  BY DEF TasksAfter, SameObjects

LEMMA ReapObjects ==
    ASSUME NEW K, "obj" \in DOMAIN K
    PROVE  SameObjects(K, Reap(K))
  BY DEF Reap, SameObjects

LEMMA TimersAfterObjects ==
    ASSUME NEW K, NEW ticks, "obj" \in DOMAIN K, NEW o \in DOMAIN K.obj, K.obj[o].kind # "timer"
    PROVE  /\ "obj" \in DOMAIN TimersAfter(K, ticks)
           /\ DOMAIN TimersAfter(K, ticks).obj = DOMAIN K.obj
           /\ TimersAfter(K, ticks).obj[o] = K.obj[o]
  BY DEF TimersAfter, Active, Timers
-----------------------------------------------------------------------------
(* Which action a call is *)

LEMMA OpsOfActions ==
    ASSUME NEW d, NEW t, NEW c
    PROVE  /\ QueueCall(d, t, c) => c.op \in QueueCalls
           /\ MutexCall(d, t, c) => c.op \in MutexCalls
           /\ CreateCall(d, t, c) => c.op = "Create"
           /\ DeleteCall(d, t, c) => c.op = "Delete"
           /\ DelayCall(d, t, c) => c.op = "Delay"
           /\ DelayUntilCall(d, t, c) => c.op = "DelayUntil"
           /\ SuspendCall(d, t, c) => c.op = "Suspend"
           /\ ResumeCall(d, t, c) => c.op = "Resume"
           /\ AbortDelayCall(d, t, c) => c.op = "AbortDelay"
           /\ NoteCall(d, t, c) => c.op \in NoteCalls
           /\ NoteWaitCall(d, t, c) => c.op \in WaitCalls
           /\ GroupCall(d, t, c) => c.op \in GroupCalls
           /\ GroupWaitCall(d, t, c) => c.op \in {"WaitBits", "Sync"}
           /\ CatchUpCall(d, t, c) => c.op = "CatchUpTicks"
           /\ DaemonCall(d, t, c) => c.op = "Daemon"
           /\ TimerCall(d, t, c) => c.op \in TimerCalls
           /\ SendCall(d, t, c) => c.op = "Send"
           /\ FetchCall(d, t, c) => c.op = "Fetch"
           /\ BufferCall(d, t, c) => c.op \in BufferCalls
           /\ DataCall(d, t, c) => c.op \in {"Matches", "SameData", "Format"}
           /\ PriorityCall(d, t, c) => c.op \in {"PrioritySet", "PriorityGet"}
           /\ GetStateCall(d, t, c) => c.op = "GetState"
           /\ LockCall(d, t, c) => c.op \in {"EnterCritical", "SuspendAll", "ExitCritical", "ResumeAll"}
           /\ ReadCall(d, t, c) => c.op \in {"Read", "Compare", "Jump"}
           /\ ElapsedCall(d, t, c) => c.op = "Elapsed"
           /\ ChooseCall(d, t, c) => c.op = "Choose"
           /\ WriteCall(d, t, c) => c.op \in {"Set", "Add"}
<1>1. /\ QueueCall(d, t, c) => c.op \in QueueCalls
      /\ MutexCall(d, t, c) => c.op \in MutexCalls
      /\ CreateCall(d, t, c) => c.op = "Create"
      /\ DeleteCall(d, t, c) => c.op = "Delete"
      /\ DelayCall(d, t, c) => c.op = "Delay"
      /\ DelayUntilCall(d, t, c) => c.op = "DelayUntil"
      /\ SuspendCall(d, t, c) => c.op = "Suspend"
  BY DEF QueueCall, MutexCall, CreateCall, DeleteCall, DelayCall, DelayUntilCall, SuspendCall
<1>2. /\ ResumeCall(d, t, c) => c.op = "Resume"
      /\ AbortDelayCall(d, t, c) => c.op = "AbortDelay"
      /\ NoteCall(d, t, c) => c.op \in NoteCalls
      /\ NoteWaitCall(d, t, c) => c.op \in WaitCalls
      /\ GroupCall(d, t, c) => c.op \in GroupCalls
      /\ GroupWaitCall(d, t, c) => c.op \in {"WaitBits", "Sync"}
      /\ CatchUpCall(d, t, c) => c.op = "CatchUpTicks"
      /\ DaemonCall(d, t, c) => c.op = "Daemon"
      /\ TimerCall(d, t, c) => c.op \in TimerCalls
  BY DEF ResumeCall, AbortDelayCall, NoteCall, NoteWaitCall, GroupCall, GroupWaitCall,
         CatchUpCall, DaemonCall, TimerCall
<1>3. /\ SendCall(d, t, c) => c.op = "Send"
      /\ FetchCall(d, t, c) => c.op = "Fetch"
      /\ BufferCall(d, t, c) => c.op \in BufferCalls
      /\ DataCall(d, t, c) => c.op \in {"Matches", "SameData", "Format"}
      /\ PriorityCall(d, t, c) => c.op \in {"PrioritySet", "PriorityGet"}
      /\ GetStateCall(d, t, c) => c.op = "GetState"
  BY DEF SendCall, FetchCall, BufferCall, DataCall, PriorityCall, GetStateCall
<1>4. /\ LockCall(d, t, c) => c.op \in {"EnterCritical", "SuspendAll", "ExitCritical", "ResumeAll"}
      /\ ReadCall(d, t, c) => c.op \in {"Read", "Compare", "Jump"}
      /\ ElapsedCall(d, t, c) => c.op = "Elapsed"
      /\ ChooseCall(d, t, c) => c.op = "Choose"
      /\ WriteCall(d, t, c) => c.op \in {"Set", "Add"}
  BY DEF LockCall, ReadCall, ElapsedCall, ChooseCall, WriteCall
<1> QED
  BY <1>1, <1>2, <1>3, <1>4

LEMMA ActionOfOp ==
    ASSUME NEW d, NEW t, NEW c, StepOf(d, t, c)
    PROVE  /\ c.op \in {"Receive", "SendToBack"} => QueueCall(d, t, c)
           /\ c.op \in {"Read", "Compare"} => ReadCall(d, t, c)
           /\ c.op \in {"Set", "Add"} => WriteCall(d, t, c)
           /\ c.op = "Delay" => DelayCall(d, t, c)
           /\ c.op \in {"EnterCritical", "ExitCritical"} => LockCall(d, t, c)
  BY OpsOfActions
     DEF StepOf, QueueCalls, Receives, MutexCalls, NoteCalls, WaitCalls, GroupCalls,
         TimerCalls, BufferCalls
-----------------------------------------------------------------------------
(* What the calls of an outline do *)

\* v names a variable: a call with the result in "" keeps it nowhere.
Named(v) == v # ""

\* The call of t is over with the result r: t is at its next place, ...
LEMMA DonePlace ==
    ASSUME NEW d, NEW t \in DOMAIN pc, NEW c, NEW r, Done(d, t, c, r)
    PROVE  /\ DOMAIN pc' = DOMAIN pc
           /\ pc'[t] = Place(d.tasks[t], pc[t] + Ahead(c, r))
           /\ \A u \in DOMAIN pc \ {t} : pc'[u] = pc[u]
  BY DEF Done, DoneAt

\* ... only c.into may have changed, ...
LEMMA DoneVariable ==
    ASSUME NEW d, NEW t, NEW c, NEW r, Done(d, t, c, r),
           NEW v \in DOMAIN mem, Named(v), v \notin d.tasks[t].locals
    PROVE  /\ v \in DOMAIN mem'
           /\ mem'[v] = IF c.into = v THEN r ELSE mem[v]
  BY DEF Done, DoneAt, Named

\* ... and it is no error if the program accepts the result.
LEMMA DoneAccepts ==
    ASSUME NEW d, NEW t, NEW c, NEW r, Done(d, t, c, r), Accepts(c, r), ~error
    PROVE  ~error'
  BY DEF Done, DoneAt, Accepts

\* A call that touches no object ends with some result, or goes on.
LEMMA PlainStep ==
    ASSUME NEW d, NEW t, NEW c, StepOf(d, t, c), c.op \in PlainCalls, "obj" \in DOMAIN kernel
    PROVE  /\ SameObjects(kernel, kernel')
           /\ \/ UNCHANGED <<pc, mem, error>>
              \/ \E r : Done(d, t, c, r)
<1>1. CASE c.op \in {"Read", "Compare"}
  BY <1>1, ActionOfOp DEF ReadCall, SameObjects
<1>2. CASE c.op \in {"Set", "Add"}
  BY <1>2, ActionOfOp DEF WriteCall, SameObjects
<1>3. CASE c.op = "Delay"
  <2>1. DelayCall(d, t, c)
    BY <1>3, ActionOfOp
  <2>2. \/ kernel' = Rested(kernel, t) /\ Done(d, t, c, Pass)
        \/ \E ticks : kernel' = Block(kernel, t, Nowhere, ticks) /\ UNCHANGED <<pc, mem, error>>
    BY <2>1 DEF DelayCall
  <2> QED
    BY <2>2, RestedObjects, BlockObjects
<1>4. CASE c.op \in {"EnterCritical", "ExitCritical"}
  BY <1>4, ActionOfOp DEF LockCall, SameObjects
<1> QED
  BY <1>1, <1>2, <1>3, <1>4 DEF PlainCalls
-----------------------------------------------------------------------------
\* K2 differs from K at most in the tasks, and the object o of K2 has the items.
NewItems(K, K2, o, items) ==
    "obj" \in DOMAIN K2 /\ K2.obj = [K.obj EXCEPT ![o] = [@ EXCEPT !.items = items]]

LEMMA RestedItems ==
    ASSUME NEW K, NEW K1, NEW t, NEW o, NEW items, NewItems(K, K1, o, items)
    PROVE  NewItems(K, Rested(K1, t), o, items)
  BY RestedObjects DEF NewItems, SameObjects

LEMMA LeaveObjects ==
    ASSUME NEW K, NEW o, NEW items, "obj" \in DOMAIN K, o \in DOMAIN K.obj
    PROVE  NewItems(K, Leave(K, o, items), o, items)
<1> DEFINE K1 == [K EXCEPT !.obj[o].items = items]
<1>1. "obj" \in DOMAIN K1 /\ K1.obj = [K.obj EXCEPT ![o] = [@ EXCEPT !.items = items]]
  OBVIOUS
<1>2. SameObjects(K1, Wake(K1, Emptied(o)))
  <2> HIDE DEF K1
  <2> QED
    BY <1>1, WakeObjects
<1> QED
  BY <1>1, <1>2 DEF Leave, NewItems, SameObjects

LEMMA ArriveObjects ==
    ASSUME NEW K, NEW o, NEW items, "obj" \in DOMAIN K, o \in DOMAIN K.obj, K.obj[o].set = ""
    PROVE  NewItems(K, Arrive(K, o, items), o, items)
<1> DEFINE K1 == [K EXCEPT !.obj[o].items = items]
<1>1. "obj" \in DOMAIN K1 /\ K1.obj = [K.obj EXCEPT ![o] = [@ EXCEPT !.items = items]]
  OBVIOUS
<1>2. SameObjects(K1, Wake(K1, Filled(o)))
  <2> HIDE DEF K1
  <2> QED
    BY <1>1, WakeObjects
<1>3. Arrive(K, o, items) = Wake(K1, Filled(o))
  BY DEF Arrive
<1> QED
  BY <1>1, <1>2, <1>3 DEF NewItems, SameObjects

\* A receive takes the first item, or it is refused, or the task blocks.
LEMMA ReceiveStep ==
    ASSUME NEW d, NEW t, NEW c, StepOf(d, t, c), c.op = "Receive", c.to = "",
           "obj" \in DOMAIN kernel, c.o \in DOMAIN kernel.obj
    PROVE  LET items == kernel.obj[c.o].items
           IN  \/ /\ items # <<>> /\ NewItems(kernel, kernel', c.o, Tail(items))
                  /\ Done(d, t, c, Head(items))
               \/ SameObjects(kernel, kernel') /\ Done(d, t, c, Fail)
               \/ SameObjects(kernel, kernel') /\ UNCHANGED <<pc, mem, error>>
<1> DEFINE items == kernel.obj[c.o].items
<1>1. QueueCall(d, t, c)
  BY ActionOfOp
<1>2. CASE /\ QueueAble(kernel, c)
           /\ kernel' = Rested(QueueAfter(kernel, c, Item(c)), t)
           /\ Done(d, t, c, QueueReturned(kernel, c))
  <2>1. items # <<>>
    BY <1>2 DEF QueueAble, Receives
  <2>2. QueueReturned(kernel, c) = Head(items)
    BY DEF QueueReturned, Receives
  <2>3. QueueAfter(kernel, c, Item(c)) = Leave(kernel, c.o, Tail(items))
    BY DEF QueueAfter
  <2>4. NewItems(kernel, kernel', c.o, Tail(items))
    BY <1>2, <2>3, LeaveObjects, RestedItems
  <2> QED
    BY <1>2, <2>1, <2>2, <2>4
<1>3. CASE /\ kernel' = Rested(kernel, t)
           /\ Done(d, t, c, Refused(c))
  <2>1. Refused(c) = Fail
    BY DEF Refused
  <2> QED
    BY <1>3, <2>1, RestedObjects
<1>4. CASE /\ \E where, ticks : kernel' = Block(kernel, t, where, ticks)
           /\ UNCHANGED <<pc, mem, error>>
  BY <1>4, BlockObjects
<1> QED
  BY <1>1, <1>2, <1>3, <1>4 DEF QueueCall

\* A send to a queue that is in no queue set puts its item at the end, or it is refused, or
\* the task blocks.
LEMMA SendStep ==
    ASSUME NEW d, NEW t, NEW c, StepOf(d, t, c), c.op = "SendToBack", c.to = "",
           "obj" \in DOMAIN kernel, c.o \in DOMAIN kernel.obj, kernel.obj[c.o].set = ""
    PROVE  LET q == kernel.obj[c.o]
           IN  \/ /\ Len(q.items) < q.len
                  /\ NewItems(kernel, kernel', c.o, Append(q.items, Item(c)))
                  /\ Done(d, t, c, Pass)
               \/ ~(Len(q.items) < q.len) /\ SameObjects(kernel, kernel') /\ Done(d, t, c, Fail)
               \/ SameObjects(kernel, kernel') /\ UNCHANGED <<pc, mem, error>>
<1> DEFINE q == kernel.obj[c.o]
<1>1. QueueCall(d, t, c)
  BY ActionOfOp
<1>2. QueueAble(kernel, c) <=> Len(q.items) < q.len
  BY DEF QueueAble, Receives
<1>3. CASE /\ QueueAble(kernel, c)
           /\ kernel' = Rested(QueueAfter(kernel, c, Item(c)), t)
           /\ Done(d, t, c, QueueReturned(kernel, c))
  <2>1. QueueReturned(kernel, c) = Pass
    BY DEF QueueReturned, Receives
  <2>2. QueueAfter(kernel, c, Item(c)) = Arrive(kernel, c.o, Append(q.items, Item(c)))
    BY DEF QueueAfter
  <2>3. NewItems(kernel, kernel', c.o, Append(q.items, Item(c)))
    BY <1>3, <2>2, ArriveObjects, RestedItems
  <2> QED
    BY <1>2, <1>3, <2>1, <2>3
<1>4. CASE /\ ~QueueAble(kernel, c)
           /\ kernel' = Rested(kernel, t)
           /\ Done(d, t, c, Refused(c))
  <2>1. Refused(c) = Fail
    BY DEF Refused
  <2> QED
    BY <1>2, <1>4, <2>1, RestedObjects
<1>5. CASE /\ \E where, ticks : kernel' = Block(kernel, t, where, ticks)
           /\ UNCHANGED <<pc, mem, error>>
  BY <1>5, BlockObjects
<1> QED
  BY <1>1, <1>3, <1>4, <1>5 DEF QueueCall

\* Time passes: objects other than timers stay as they are, and variables that are not stamped.
LEMMA ElapseEffect ==
    ASSUME NEW d, Elapse(d), "obj" \in DOMAIN kernel,
           NEW o \in DOMAIN kernel.obj, kernel.obj[o].kind # "timer"
    PROVE  /\ "obj" \in DOMAIN kernel' /\ DOMAIN kernel'.obj = DOMAIN kernel.obj
           /\ kernel'.obj[o] = kernel.obj[o]
           /\ DOMAIN mem' = DOMAIN mem
           /\ \A v \in DOMAIN mem \ d.stamps : mem'[v] = mem[v]
           /\ UNCHANGED <<demo, pc, error>>
<1>1. PICK ticks, K : /\ K \in {Reap(TasksAfter(kernel, ticks)), TasksAfter(kernel, ticks)}
                      /\ kernel' = TimersAfter(K, ticks)
                      /\ mem' = StampsAfter(d, ticks)
  BY DEF Elapse, IdleTurn
<1>2. SameObjects(kernel, TasksAfter(kernel, ticks))
  BY TasksAfterObjects
<1>3. SameObjects(kernel, K)
  BY <1>1, <1>2, ReapObjects DEF SameObjects
<1>4. /\ "obj" \in DOMAIN kernel' /\ DOMAIN kernel'.obj = DOMAIN kernel.obj
      /\ kernel'.obj[o] = kernel.obj[o]
  BY <1>1, <1>3, TimersAfterObjects DEF SameObjects
<1>5. DOMAIN mem' = DOMAIN mem /\ \A v \in DOMAIN mem \ d.stamps : mem'[v] = mem[v]
  BY <1>1 DEF StampsAfter
<1> QED
  BY <1>4, <1>5 DEF Elapse

\* The queues of numbers, semaphores among them, that are in no queue set.
PlainQueues == [kind : {"queue"}, len : Nat, items : Seq(Int), set : {""}]

LEMMA QueueFields ==
    ASSUME NEW q \in PlainQueues
    PROVE  /\ q.kind = "queue" /\ q.len \in Nat /\ q.items \in Seq(Int) /\ q.set = ""
           /\ [q EXCEPT !.items = q.items] = q
  BY DEF PlainQueues

LEMMA QueueItems ==
    ASSUME NEW q \in PlainQueues, NEW items \in Seq(Int)
    PROVE  /\ [q EXCEPT !.items = items] \in PlainQueues
           /\ [q EXCEPT !.items = items].items = items
           /\ [q EXCEPT !.items = items].len = q.len
  BY DEF PlainQueues

\* Task t goes to the place n; the object o then has the items, or those that it had.
Goes(o, t, n, items) ==
    /\ DOMAIN pc' = DOMAIN pc /\ pc'[t] = n /\ \A u \in DOMAIN pc \ {t} : pc'[u] = pc[u]
    /\ "obj" \in DOMAIN kernel' /\ o \in DOMAIN kernel'.obj
    /\ kernel'.obj[o] = [kernel.obj[o] EXCEPT !.items = items]

LEMMA DoneGoes ==
    ASSUME NEW d, NEW t \in DOMAIN pc, NEW c, NEW r, Done(d, t, c, r),
           "obj" \in DOMAIN kernel, NEW o \in DOMAIN kernel.obj,
           kernel.obj[o] \in PlainQueues,
           NEW items,
           \/ SameObjects(kernel, kernel') /\ items = kernel.obj[o].items
           \/ NewItems(kernel, kernel', o, items)
    PROVE  Goes(o, t, Place(d.tasks[t], pc[t] + Ahead(c, r)), items)
<1>1. /\ "obj" \in DOMAIN kernel' /\ o \in DOMAIN kernel'.obj
      /\ kernel'.obj[o] = [kernel.obj[o] EXCEPT !.items = items]
  <2>1. [kernel.obj[o] EXCEPT !.items = kernel.obj[o].items] = kernel.obj[o]
    BY QueueFields
  <2> QED
    BY <2>1 DEF SameObjects, NewItems
<1>2. /\ DOMAIN pc' = DOMAIN pc /\ pc'[t] = Place(d.tasks[t], pc[t] + Ahead(c, r))
      /\ \A u \in DOMAIN pc \ {t} : pc'[u] = pc[u]
  BY DonePlace
<1> QED
  BY <1>1, <1>2 DEF Goes
-----------------------------------------------------------------------------
(* Guards: the inductive invariant *)

GuardState(g) ==
    /\ "obj" \in DOMAIN kernel /\ g.o \in DOMAIN kernel.obj
    /\ kernel.obj[g.o] \in PlainQueues /\ kernel.obj[g.o].len = 1
    /\ kernel.obj[g.o].items \in {<<>>, <<Pass>>}
    /\ DOMAIN pc = DOMAIN g.program.tasks
    /\ \A t \in DOMAIN pc : pc[t] \in DOMAIN g.program.tasks[t].program
    /\ g.variable \in DOMAIN mem

Inside(g, t) == pc[t] \in g.inside[t]

\* One task is inside and knows the variable, or the semaphore is free and all know it.
GuardClaim(g) ==
    /\ \A t, u \in DOMAIN pc : Inside(g, t) /\ Inside(g, u) => t = u
    /\ (\E t \in DOMAIN pc : Inside(g, t)) <=> kernel.obj[g.o].items = <<>>
    /\ kernel.obj[g.o].items # <<>> => mem[g.variable] = g.value
    /\ \A t \in DOMAIN pc : Inside(g, t) => mem[g.variable] = g.holds[t][pc[t]]

GuardInv(g) == GuardState(g) /\ GuardClaim(g) /\ ~error

\* Task t goes to the place n; the semaphore then has the items and the variable the value.
Moves(g, t, n, items, value) ==
    /\ Goes(g.o, t, n, items)
    /\ g.variable \in DOMAIN mem' /\ mem'[g.variable] = value
    /\ ~error'

LEMMA GuardInit ==
    ASSUME NEW g \in Guards, GuardOutline(g), InitOf(g.program)
    PROVE  GuardInv(g)
<1> DEFINE d == g.program
<1>1. kernel.obj = d.obj /\ "obj" \in DOMAIN kernel
  BY DEF InitOf
<1>2. pc = [t \in DOMAIN d.tasks |-> 1] /\ mem = d.mem /\ error = FALSE
  BY DEF InitOf
<1>3. Semaphore(1, 1).items = <<Pass>> /\ Semaphore(1, 1).items # <<>>
  BY DEF Semaphore, Queue
<1>4. Semaphore(1, 1) \in PlainQueues /\ Semaphore(1, 1).len = 1
  <2>1. <<Pass>> \in Seq(Int)
    BY DEF Pass
  <2>2. Queue(1) \in PlainQueues /\ Queue(1).len = 1
    BY DEF Queue, PlainQueues
  <2>3. Semaphore(1, 1) = [Queue(1) EXCEPT !.items = Semaphore(1, 1).items]
    BY <1>3 DEF Semaphore, Queue
  <2>4. \A items \in Seq(Int) : /\ [Queue(1) EXCEPT !.items = items] \in PlainQueues
                                /\ [Queue(1) EXCEPT !.items = items].len = 1
    BY <2>2, QueueItems
  <2> DEFINE items == Semaphore(1, 1).items
             q == [Queue(1) EXCEPT !.items = items]
  <2>5. items \in Seq(Int)
    BY <1>3, <2>1
  <2>6. q \in PlainQueues /\ q.len = 1
    <3> HIDE DEF items
    <3> QED
      BY <2>4, <2>5
  <2>7. Semaphore(1, 1) = q
    BY <2>3
  <2> HIDE DEF q
  <2> QED
    BY <2>6, <2>7
<1>5. GuardState(g)
  BY <1>1, <1>2, <1>3, <1>4 DEF GuardState, GuardOutline
<1>6. GuardClaim(g)
  BY <1>1, <1>2, <1>3 DEF GuardClaim, GuardOutline, Inside
<1> QED
  BY <1>2, <1>5, <1>6 DEF GuardInv

LEMMA GuardMoves ==
    ASSUME NEW g \in Guards, GuardInv(g), NEW t \in DOMAIN pc, NEW n, NEW items, NEW value,
           Moves(g, t, n, items, value),
           n \in DOMAIN g.program.tasks[t].program, items \in {<<>>, <<Pass>>},
           \/ /\ items = kernel.obj[g.o].items
              /\ Inside(g, t) <=> n \in g.inside[t]
              /\ ~Inside(g, t) => value = mem[g.variable]
              /\ Inside(g, t) => value = g.holds[t][n]
           \/ /\ kernel.obj[g.o].items # <<>> /\ items = <<>>
              /\ n \in g.inside[t]
              /\ value = mem[g.variable] /\ g.holds[t][n] = g.value
           \/ /\ Inside(g, t) /\ items = <<Pass>>
              /\ n \notin g.inside[t] /\ value = g.value
    PROVE  GuardInv(g)'
<1> DEFINE q == kernel.obj[g.o]
<1>1. GuardState(g)'
  <2>1. "obj" \in DOMAIN kernel' /\ g.o \in DOMAIN kernel'.obj
    BY DEF Moves, Goes
  <2>2. /\ kernel'.obj[g.o] \in PlainQueues /\ kernel'.obj[g.o].len = 1
        /\ kernel'.obj[g.o].items \in {<<>>, <<Pass>>}
    <3>1. items \in Seq(Int)
      <4>1. <<>> \in Seq(Int) /\ <<Pass>> \in Seq(Int)
        BY DEF Pass
      <4> QED
        BY <4>1
    <3>2. kernel'.obj[g.o] = [q EXCEPT !.items = items]
      BY DEF Moves, Goes
    <3>3. q \in PlainQueues /\ q.len = 1
      BY DEF GuardInv, GuardState
    <3>4. [q EXCEPT !.items = items] \in PlainQueues
          /\ [q EXCEPT !.items = items].items = items /\ [q EXCEPT !.items = items].len = 1
      BY <3>1, <3>3, QueueItems
    <3> QED
      BY <3>2, <3>4
  <2>3. DOMAIN pc' = DOMAIN g.program.tasks
        /\ \A u \in DOMAIN pc' : pc'[u] \in DOMAIN g.program.tasks[u].program
    BY DEF Moves, Goes, GuardInv, GuardState
  <2>4. g.variable \in DOMAIN mem'
    BY DEF Moves, Goes
  <2> QED
    BY <2>1, <2>2, <2>3, <2>4 DEF GuardState
<1>2. kernel'.obj[g.o].items = items
  BY DEF Moves, Goes, GuardInv, GuardState, PlainQueues
<1>3. mem'[g.variable] = value /\ DOMAIN pc' = DOMAIN pc /\ pc'[t] = n
      /\ \A u \in DOMAIN pc \ {t} : pc'[u] = pc[u]
  BY DEF Moves, Goes
<1>4. <<>> # <<Pass>>
  OBVIOUS
<1>5. GuardClaim(g)
  BY DEF GuardInv
<1>6. ASSUME items = q.items,
             Inside(g, t) <=> n \in g.inside[t],
             ~Inside(g, t) => value = mem[g.variable],
             Inside(g, t) => value = g.holds[t][n]
      PROVE  GuardClaim(g)'
  <2>1. \A u \in DOMAIN pc : Inside(g, u)' <=> Inside(g, u)
    BY <1>3, <1>6 DEF Inside
  <2>2. /\ \A u, w \in DOMAIN pc' : Inside(g, u)' /\ Inside(g, w)' => u = w
        /\ (\E u \in DOMAIN pc' : Inside(g, u)') <=> kernel'.obj[g.o].items = <<>>
    BY <1>2, <1>3, <1>5, <1>6, <2>1 DEF GuardClaim
  <2>3. kernel'.obj[g.o].items # <<>> => mem'[g.variable] = g.value
    BY <1>2, <1>3, <1>5, <1>6 DEF GuardClaim
  <2>4. \A u \in DOMAIN pc' : Inside(g, u)' => mem'[g.variable] = g.holds[u][pc'[u]]
    BY <1>3, <1>5, <1>6, <2>1 DEF GuardClaim
  <2> QED
    BY <2>2, <2>3, <2>4 DEF GuardClaim
<1>7. ASSUME q.items # <<>>, items = <<>>, n \in g.inside[t],
             value = mem[g.variable], g.holds[t][n] = g.value
      PROVE  GuardClaim(g)'
  <2>1. \A u \in DOMAIN pc : Inside(g, u)' <=> u = t
    BY <1>3, <1>5, <1>7 DEF Inside, GuardClaim
  <2> QED
    BY <1>2, <1>3, <1>5, <1>7, <2>1 DEF GuardClaim
<1>8. ASSUME Inside(g, t), items = <<Pass>>, n \notin g.inside[t], value = g.value
      PROVE  GuardClaim(g)'
  <2>1. \A u \in DOMAIN pc : ~Inside(g, u)'
    BY <1>3, <1>5, <1>8 DEF Inside, GuardClaim
  <2> QED
    BY <1>2, <1>3, <1>4, <1>8, <2>1 DEF GuardClaim
<1>9. GuardClaim(g)'
  BY <1>6, <1>7, <1>8
<1> QED
  BY <1>1, <1>9 DEF GuardInv, Moves

LEMMA GuardIdle ==
    ASSUME NEW g \in Guards, GuardInv(g), UNCHANGED <<pc, error>>,
           "obj" \in DOMAIN kernel', g.o \in DOMAIN kernel'.obj,
           kernel'.obj[g.o] = kernel.obj[g.o],
           g.variable \in DOMAIN mem', mem'[g.variable] = mem[g.variable]
    PROVE  GuardInv(g)'
<1>1. GuardState(g)'
  BY DEF GuardInv, GuardState
<1>2. GuardClaim(g)'
  BY DEF GuardInv, GuardClaim, Inside
<1> QED
  BY <1>1, <1>2 DEF GuardInv

LEMMA DoneMoves ==
    ASSUME NEW g \in Guards, GuardOutline(g), GuardInv(g), NEW t \in DOMAIN pc,
           NEW c, NEW r, Done(g.program, t, c, r), Accepts(c, r), NEW items,
           \/ SameObjects(kernel, kernel') /\ items = kernel.obj[g.o].items
           \/ NewItems(kernel, kernel', g.o, items)
    PROVE  Moves(g, t, Place(g.program.tasks[t], pc[t] + Ahead(c, r)), items,
                 IF c.into = g.variable THEN r ELSE mem[g.variable])
<1> DEFINE value == IF c.into = g.variable THEN r ELSE mem[g.variable]
<1>1. /\ Named(g.variable) /\ g.variable \in DOMAIN mem
      /\ g.variable \notin g.program.tasks[t].locals
  BY DEF GuardOutline, GuardInv, GuardState, Named
<1>2. g.variable \in DOMAIN mem' /\ mem'[g.variable] = value
  BY <1>1, DoneVariable
<1>3. ~error'
  BY DoneAccepts DEF GuardInv
<1>4. "obj" \in DOMAIN kernel /\ g.o \in DOMAIN kernel.obj /\ kernel.obj[g.o] \in PlainQueues
  BY DEF GuardInv, GuardState
<1>5. Goes(g.o, t, Place(g.program.tasks[t], pc[t] + Ahead(c, r)), items)
  BY <1>4, DoneGoes
<1> QED
  BY <1>2, <1>3, <1>5 DEF Moves

LEMMA GuardStep ==
    ASSUME NEW g \in Guards, GuardOutline(g), GuardInv(g), NEW t \in DOMAIN pc,
           StepOf(g.program, t, CallOf(g.program, t))
    PROVE  GuardInv(g)'
<1> DEFINE d == g.program
           task == d.tasks[t]
           n == pc[t]
           c == task.program[n]
           q == kernel.obj[g.o]
           To(k) == Place(task, n + k)
           keeps(k) == /\ n \in g.inside[t] <=> To(k) \in g.inside[t]
                       /\ n \in g.inside[t] => g.holds[t][To(k)] = g.holds[t][n]
<1>1. GuardFits(g, t, n)
  BY DEF GuardOutline, GuardInv, GuardState
<1>2. CallOf(d, t) = c
  BY <1>1 DEF GuardFits, CallOf
<1>3. StepOf(d, t, c)
  BY <1>2
<1>4. /\ "obj" \in DOMAIN kernel /\ g.o \in DOMAIN kernel.obj
      /\ q.kind = "queue" /\ q.len = 1 /\ q.items \in {<<>>, <<Pass>>} /\ q.set = ""
  BY QueueFields DEF GuardInv, GuardState
<1>5. ASSUME SameObjects(kernel, kernel'), UNCHANGED <<pc, mem, error>>
      PROVE  GuardInv(g)'
  BY <1>4, <1>5, GuardIdle DEF SameObjects, GuardInv, GuardState
<1>6. \A r : To(Ahead(c, r)) \in DOMAIN task.program
  BY <1>1 DEF GuardFits, Branches, Ahead
<1>7. Inside(g, t) <=> n \in g.inside[t]
  BY DEF Inside
<1>8. ASSUME NEW r, SameObjects(kernel, kernel'), Done(d, t, c, r), Accepts(c, r),
             n \in g.inside[t] <=> To(Ahead(c, r)) \in g.inside[t],
             n \notin g.inside[t] => c.into # g.variable,
             n \in g.inside[t] => g.holds[t][To(Ahead(c, r))] =
                                      IF c.into = g.variable THEN r ELSE g.holds[t][n]
      PROVE  GuardInv(g)'
  <2>1. Moves(g, t, To(Ahead(c, r)), q.items,
              IF c.into = g.variable THEN r ELSE mem[g.variable])
    BY <1>8, DoneMoves
  <2>2. Inside(g, t) => mem[g.variable] = g.holds[t][n]
    BY DEF GuardInv, GuardClaim
  <2> QED
    BY <1>4, <1>6, <1>7, <1>8, <2>1, <2>2, GuardMoves
<1>9. CASE /\ c.op = "Receive" /\ c.o = g.o /\ c.to = "" /\ c.into # g.variable
           /\ n \notin g.inside[t]
           /\ To(Ahead(c, Pass)) \in g.inside[t]
           /\ g.holds[t][To(Ahead(c, Pass))] = g.value
           /\ To(Ahead(c, Fail)) \notin g.inside[t]
           /\ Accepts(c, Pass) /\ Accepts(c, Fail)
  <2>1. CASE /\ q.items # <<>> /\ NewItems(kernel, kernel', g.o, Tail(q.items))
             /\ Done(d, t, c, Head(q.items))
    <3>1. Head(q.items) = Pass /\ Tail(q.items) = <<>>
      <4>1. Head(<<Pass>>) = Pass /\ Tail(<<Pass>>) = <<>>
        OBVIOUS
      <4>2. q.items = <<Pass>>
        BY <1>4, <2>1
      <4> QED
        BY <4>1, <4>2
    <3>2. Moves(g, t, To(Ahead(c, Pass)), <<>>, mem[g.variable])
      BY <1>9, <2>1, <3>1, DoneMoves
    <3> QED
      BY <1>6, <1>9, <2>1, <3>2, GuardMoves
  <2>2. CASE SameObjects(kernel, kernel') /\ Done(d, t, c, Fail)
    BY <1>8, <1>9, <2>2
  <2> QED
    BY <1>3, <1>4, <1>5, <1>9, <2>1, <2>2, ReceiveStep
<1>10. CASE /\ c.op = "SendToBack" /\ c.o = g.o /\ c.v = Pass /\ c.from = "" /\ c.cmd = ""
            /\ c.to = "" /\ c.into # g.variable
            /\ n \in g.inside[t] /\ g.holds[t][n] = g.value
            /\ To(Ahead(c, Pass)) \notin g.inside[t]
            /\ Accepts(c, Pass)
  <2>1. q.items = <<>> /\ mem[g.variable] = g.value
    BY <1>10 DEF GuardInv, GuardClaim, Inside
  <2>2. Len(q.items) < q.len
    <3>1. Len(<<>>) = 0 /\ q.len = 1
      BY <1>4
    <3> QED
      BY <2>1, <3>1
  <2>3. Item(c) = Pass /\ Append(q.items, Item(c)) = <<Pass>>
    <3>1. Append(<<>>, Pass) = <<Pass>>
      OBVIOUS
    <3>2. Item(c) = Pass
      BY <1>10 DEF Item, Value
    <3> QED
      BY <2>1, <3>1, <3>2
  <2>4. CASE NewItems(kernel, kernel', g.o, Append(q.items, Item(c))) /\ Done(d, t, c, Pass)
    <3>1. Moves(g, t, To(Ahead(c, Pass)), <<Pass>>, mem[g.variable])
      BY <1>10, <2>3, <2>4, DoneMoves
    <3> QED
      BY <1>6, <1>7, <1>10, <2>1, <3>1, GuardMoves
  <2> QED
    BY <1>3, <1>4, <1>5, <1>10, <2>2, <2>4, SendStep
<1>11. CASE /\ c.op = "Read" /\ c.o = g.variable /\ c.into # g.variable
            /\ n \in g.inside[t]
            /\ keeps(Ahead(c, g.holds[t][n])) /\ Accepts(c, g.holds[t][n])
  <2>1. mem[g.variable] = g.holds[t][n]
    BY <1>11 DEF GuardInv, GuardClaim, Inside
  <2>2. Done(d, t, c, mem[c.o]) /\ SameObjects(kernel, kernel')
    BY <1>3, <1>4, <1>11, ActionOfOp DEF ReadCall, SameObjects
  <2> QED
    BY <1>8, <1>11, <2>1, <2>2
<1>12. CASE /\ c.op = "Set" /\ c.o = g.variable /\ c.into = g.variable
            /\ c.mod = 0 /\ c.from = ""
            /\ n \in g.inside[t]
            /\ To(Ahead(c, c.v)) \in g.inside[t] /\ g.holds[t][To(Ahead(c, c.v))] = c.v
            /\ Accepts(c, c.v)
  <2>1. Done(d, t, c, c.v) /\ SameObjects(kernel, kernel')
    <3>1. WriteCall(d, t, c) /\ Value(c) = c.v
      BY <1>3, <1>12, ActionOfOp DEF Value
    <3> QED
      BY <1>4, <1>12, <3>1 DEF WriteCall, SameObjects
  <2> QED
    BY <1>8, <1>12, <2>1
<1>13. CASE /\ c.op \in PlainCalls /\ c.into # g.variable /\ ~c.strict
            /\ \A k \in Branches(c) : keeps(k)
  <2>1. ASSUME NEW r, SameObjects(kernel, kernel'), Done(d, t, c, r)
        PROVE  GuardInv(g)'
    <3>1. Ahead(c, r) \in Branches(c)
      BY DEF Ahead, Branches
    <3> QED
      BY <1>8, <1>13, <2>1, <3>1 DEF Accepts
  <2> QED
    BY <1>3, <1>4, <1>5, <1>13, <2>1, PlainStep
<1> QED
  BY <1>1, <1>9, <1>10, <1>11, <1>12, <1>13 DEF GuardFits

GuardsInv == \A g \in Guards : D = g.program => GuardInv(g)

LEMMA GuardsInductive ==
    ASSUME GuardsFit
    PROVE  /\ Init => GuardsInv
           /\ GuardsInv /\ [Next]_vars => GuardsInv'
<1>1. Init => GuardsInv
  BY GuardInit DEF Init, GuardsInv, GuardsFit
<1>2. ASSUME GuardsInv, [Next]_vars
      PROVE  GuardsInv'
  <2> SUFFICES ASSUME NEW g \in Guards, D' = g.program
               PROVE  GuardInv(g)'
    BY DEF GuardsInv
  <2>1. demo' = demo
    BY <1>2 DEF Next, vars, Elapse, Step, StepOf
  <2>2. D = g.program
    BY <2>1 DEF D
  <2>3. GuardInv(g) /\ GuardOutline(g)
    BY <1>2, <2>2 DEF GuardsInv, GuardsFit
  <2>4. ASSUME NEW t \in Tasks, Step(D, t)
        PROVE  GuardInv(g)'
    BY <2>2, <2>3, <2>4, GuardStep DEF Step, Tasks
  <2>5. CASE Elapse(D)
    <3>1. /\ "obj" \in DOMAIN kernel /\ g.o \in DOMAIN kernel.obj
          /\ kernel.obj[g.o].kind # "timer"
          /\ g.variable \in DOMAIN mem \ g.program.stamps
      BY <2>3, QueueFields DEF GuardInv, GuardState, GuardOutline
    <3>2. /\ "obj" \in DOMAIN kernel' /\ g.o \in DOMAIN kernel'.obj
          /\ kernel'.obj[g.o] = kernel.obj[g.o]
          /\ g.variable \in DOMAIN mem' /\ mem'[g.variable] = mem[g.variable]
          /\ UNCHANGED <<pc, error>>
      BY <2>2, <2>5, <3>1, ElapseEffect
    <3> QED
      BY <2>3, <3>2, GuardIdle
  <2>6. CASE UNCHANGED vars
    <3>1. UNCHANGED <<pc, kernel, mem, error>>
      BY <2>6 DEF vars
    <3> QED
      BY <2>3, <3>1, GuardIdle DEF GuardInv, GuardState
  <2> QED
    BY <1>2, <2>4, <2>5, <2>6 DEF Next
<1> QED
  BY <1>1, <1>2

\* semtest.c: whenever the semaphore is free the variable is whole, for any number of tasks,
\* any priorities and any way in which the kernel interleaves them.
THEOREM GuardedIsWhole ==
    ASSUME GuardsFit
    PROVE  Spec => []WholeWhenFree
<1>1. GuardsInv => WholeWhenFree
  BY DEF GuardsInv, GuardInv, GuardClaim, WholeWhenFree
<1> QED
  BY <1>1, GuardsInductive, PTL DEF Spec

\* semtest.c: what a task reads while it has the semaphore is what it expects, and its give
\* is never refused: such a program finds no error.
THEOREM GuardsFindNoError ==
    ASSUME GuardsFit
    PROVE  Spec => []((\E g \in Guards : D = g.program) => NoErrorDetected)
<1>1. GuardsInv => ((\E g \in Guards : D = g.program) => NoErrorDetected)
  BY DEF GuardsInv, GuardInv, NoErrorDetected
<1> QED
  BY <1>1, GuardsInductive, PTL DEF Spec
-----------------------------------------------------------------------------
(* Numbers modulo M *)

LEMMA ModIn == ASSUME NEW M \in Nat \ {0}, NEW x \in Nat PROVE (x % M) \in 0 .. M - 1
  OBVIOUS

LEMMA ModSmall == ASSUME NEW M \in Nat \ {0}, NEW x \in 0 .. M - 1 PROVE x % M = x
  OBVIOUS

LEMMA ModOfRest ==
    ASSUME NEW M \in Nat \ {0}, NEW q \in Nat, NEW r \in 0 .. M - 1 PROVE (q * M + r) % M = r
  OBVIOUS

LEMMA Division ==
    ASSUME NEW M \in Nat \ {0}, NEW x \in Nat PROVE \E q \in Nat : x = q * M + (x % M)
<1>1. x \div M \in Nat
  OBVIOUS
<1>2. x = (x \div M) * M + (x % M)
  OBVIOUS
<1> QED
  BY <1>1, <1>2

LEMMA ModPlus ==
    ASSUME NEW M \in Nat \ {0}, NEW x \in Nat, NEW y \in Nat
    PROVE  ((x % M) + y) % M = (x + y) % M
<1>1. x % M \in 0 .. M - 1 /\ (x % M) + y \in Nat /\ ((x % M) + y) % M \in 0 .. M - 1
  OBVIOUS
<1>2. PICK q \in Nat : x = q * M + (x % M)
  BY Division
<1>3. PICK p \in Nat : (x % M) + y = p * M + (((x % M) + y) % M)
  BY <1>1, Division
<1>4. x + y = (q + p) * M + (((x % M) + y) % M)
  BY <1>1, <1>2, <1>3
<1>5. q + p \in Nat
  OBVIOUS
<1> QED
  BY <1>1, <1>4, <1>5, ModOfRest
-----------------------------------------------------------------------------
(* Consecutive numbers: in the queue from the next but received one after   *)
(* expected, and then the next one to be sent, but for one that was posted. *)

Consecutive(M, expected, received, items, next, posted) ==
    /\ \A i \in 1 .. Len(items) : items[i] = (expected + received + (i - 1)) % M
    /\ (next + posted) % M = (expected + received + Len(items)) % M

LEMMA AfterPost ==
    ASSUME NEW M \in Nat \ {0}, NEW e \in 0 .. M - 1, NEW r \in {0, 1}, NEW n \in 0 .. M - 1,
           NEW items \in Seq(0 .. M - 1), Consecutive(M, e, r, items, n, 0)
    PROVE  Consecutive(M, e, r, Append(items, n), n, 1)
<1> DEFINE k == Len(items)
           more == Append(items, n)
<1>1. k \in Nat /\ Len(more) = k + 1
      /\ more[k + 1] = n /\ \A i \in 1 .. k : more[i] = items[i]
  OBVIOUS
<1>2. n = (e + r + k) % M
  <2>1. n % M = n /\ n + 0 = n
    OBVIOUS
  <2> QED
    BY <2>1 DEF Consecutive
<1>3. \A i \in 1 .. k : more[i] = (e + r + (i - 1)) % M
  BY <1>1 DEF Consecutive
<1>4. more[k + 1] = (e + r + (k + 1 - 1)) % M
  <2>1. k + 1 - 1 = k
    BY <1>1
  <2> QED
    BY <1>1, <1>2, <2>1
<1>5. (n + 1) % M = (e + r + (k + 1)) % M
  <2>1. e + r + k \in Nat
    BY <1>1
  <2>2. (((e + r + k) % M) + 1) % M = (e + r + k + 1) % M
    BY <2>1, ModPlus
  <2>3. e + r + k + 1 = e + r + (k + 1)
    BY <1>1
  <2> QED
    BY <1>2, <2>2, <2>3
<1>6. \A i \in 1 .. k + 1 : i \in 1 .. k \/ i = k + 1
  BY <1>1
<1>7. \A i \in 1 .. Len(more) : more[i] = (e + r + (i - 1)) % M
  <2>1. \A i \in 1 .. k + 1 : more[i] = (e + r + (i - 1)) % M
    <3> SUFFICES ASSUME NEW i \in 1 .. k + 1
                 PROVE  more[i] = (e + r + (i - 1)) % M
      OBVIOUS
    <3>1. CASE i \in 1 .. k
      BY <1>3, <3>1
    <3>2. CASE i = k + 1
      BY <1>4, <3>2
    <3> QED
      BY <1>6, <3>1, <3>2
  <2> QED
    BY <1>1, <2>1
<1>8. (n + 1) % M = (e + r + Len(more)) % M
  <2> HIDE DEF more
  <2> QED
    BY <1>1, <1>5
<1> QED
  BY <1>7, <1>8 DEF Consecutive

LEMMA AfterCountingNext ==
    ASSUME NEW M \in Nat \ {0}, NEW e, NEW r, NEW items, NEW n \in 0 .. M - 1,
           Consecutive(M, e, r, items, n, 1)
    PROVE  (1 + n) % M \in 0 .. M - 1 /\ Consecutive(M, e, r, items, (1 + n) % M, 0)
<1>1. 1 + n \in Nat /\ 1 + n = n + 1
  OBVIOUS
<1>2. (1 + n) % M \in 0 .. M - 1
  BY <1>1, ModIn
<1>3. (((1 + n) % M) + 0) % M = (n + 1) % M
  <2>1. (((1 + n) % M) + 0) % M = (1 + n + 0) % M
    BY <1>1, ModPlus
  <2>2. 1 + n + 0 = n + 1
    OBVIOUS
  <2> QED
    BY <2>1, <2>2
<1> QED
  BY <1>2, <1>3 DEF Consecutive

LEMMA AfterReceipt ==
    ASSUME NEW M \in Nat \ {0}, NEW e \in 0 .. M - 1, NEW n, NEW p,
           NEW items \in Seq(0 .. M - 1), items # <<>>, Consecutive(M, e, 0, items, n, p)
    PROVE  Head(items) = e /\ Consecutive(M, e, 1, Tail(items), n, p)
<1> DEFINE k == Len(items)
<1>1. k \in Nat /\ k >= 1 /\ Len(Tail(items)) = k - 1 /\ Head(items) = items[1]
      /\ \A i \in 1 .. k - 1 : Tail(items)[i] = items[i + 1]
  OBVIOUS
<1>2. Head(items) = e
  <2>1. e + 0 + (1 - 1) = e /\ e % M = e /\ 1 \in 1 .. k
    BY <1>1
  <2> QED
    BY <1>1, <2>1 DEF Consecutive
<1>3. ASSUME NEW i \in 1 .. k - 1
      PROVE  Tail(items)[i] = (e + 1 + (i - 1)) % M
  <2>1. i + 1 \in 1 .. k /\ e + 0 + (i + 1 - 1) = e + 1 + (i - 1)
    BY <1>1
  <2>2. items[i + 1] = (e + 0 + (i + 1 - 1)) % M
    BY <2>1 DEF Consecutive
  <2> QED
    BY <1>1, <2>1, <2>2
<1>4. e + 0 + k = e + 1 + (k - 1)
  BY <1>1
<1> QED
  BY <1>1, <1>2, <1>3, <1>4 DEF Consecutive

LEMMA AfterCountingExpected ==
    ASSUME NEW M \in Nat \ {0}, NEW e \in 0 .. M - 1, NEW n, NEW p,
           NEW items \in Seq(0 .. M - 1), Consecutive(M, e, 1, items, n, p)
    PROVE  (1 + e) % M \in 0 .. M - 1 /\ Consecutive(M, (1 + e) % M, 0, items, n, p)
<1> DEFINE f == (1 + e) % M
<1>1. 1 + e \in Nat /\ Len(items) \in Nat
  OBVIOUS
<1>2. f \in 0 .. M - 1
  BY <1>1, ModIn
<1>3. ASSUME NEW j \in Nat
      PROVE  (f + 0 + j) % M = (e + 1 + j) % M
  <2>1. (f + j) % M = (1 + e + j) % M
    BY <1>1, ModPlus
  <2>2. f + 0 + j = f + j /\ 1 + e + j = e + 1 + j
    BY <1>2
  <2> QED
    BY <2>1, <2>2
<1>4. \A i \in 1 .. Len(items) : i - 1 \in Nat
  BY <1>1
<1> HIDE DEF f
<1>5. \A i \in 1 .. Len(items) : items[i] = (f + 0 + (i - 1)) % M
  BY <1>3, <1>4 DEF Consecutive
<1>6. (n + p) % M = (f + 0 + Len(items)) % M
  BY <1>1, <1>3 DEF Consecutive
<1> QED
  BY <1>2, <1>5, <1>6 DEF Consecutive, f
-----------------------------------------------------------------------------
(* Channels: the inductive invariant *)

Numbers(ch) == 0 .. ch.modulus - 1

ChannelState(ch) ==
    /\ "obj" \in DOMAIN kernel /\ ch.o \in DOMAIN kernel.obj
    /\ kernel.obj[ch.o] \in PlainQueues /\ kernel.obj[ch.o].items \in Seq(Numbers(ch))
    /\ DOMAIN pc = DOMAIN ch.program.tasks
    /\ \A t \in DOMAIN pc : pc[t] \in ch.live[t]
    /\ SharedBy(ch) \subseteq DOMAIN mem
    /\ mem[ch.next] \in Numbers(ch) /\ mem[ch.expected] \in Numbers(ch)

Received(ch, n) == IF n \in ch.received THEN 1 ELSE 0
Posted(ch, n)   == IF n \in ch.posted THEN 1 ELSE 0

ChannelClaim(ch) ==
    /\ Consecutive(ch.modulus, mem[ch.expected], Received(ch, pc[ch.consumer]),
                   kernel.obj[ch.o].items, mem[ch.next], Posted(ch, pc[ch.producer]))
    /\ pc[ch.consumer] \in ch.received => mem[ch.data] = mem[ch.expected]

ChannelInv(ch) == ChannelState(ch) /\ ChannelClaim(ch)

LEMMA ChannelInit ==
    ASSUME NEW ch \in Channels, ChannelOutline(ch), InitOf(ch.program)
    PROVE  ChannelInv(ch)
<1> DEFINE d == ch.program
           M == ch.modulus
<1>1. kernel.obj = d.obj /\ "obj" \in DOMAIN kernel
  BY DEF InitOf
<1>2. pc = [t \in DOMAIN d.tasks |-> 1] /\ mem = d.mem
  BY DEF InitOf
<1>3. M \in Nat \ {0} /\ 0 \in Numbers(ch)
  <2>1. M \in Nat \ {0}
    BY DEF ChannelOutline
  <2>2. \A m \in Nat \ {0} : 0 \in 0 .. m - 1
    OBVIOUS
  <2> QED
    BY <2>1, <2>2 DEF Numbers
<1>4. kernel.obj[ch.o] \in PlainQueues /\ kernel.obj[ch.o].items = <<>>
  <2>1. \A n \in Nat : Queue(n) \in PlainQueues /\ Queue(n).items = <<>>
    BY DEF Queue, PlainQueues
  <2>2. d.obj[ch.o] = Queue(d.obj[ch.o].len) /\ d.obj[ch.o].len \in Nat
    BY DEF ChannelOutline
  <2> DEFINE n == d.obj[ch.o].len
  <2>3. Queue(n) \in PlainQueues /\ Queue(n).items = <<>>
    BY <2>1, <2>2
  <2> QED
    BY <1>1, <2>2, <2>3
<1>5. mem[ch.next] = 0 /\ mem[ch.expected] = 0 /\ SharedBy(ch) \subseteq DOMAIN mem
  BY <1>2 DEF ChannelOutline
<1>6. /\ DOMAIN pc = DOMAIN d.tasks
      /\ \A t \in DOMAIN pc : pc[t] \in ch.live[t]
      /\ pc[ch.consumer] \notin ch.received /\ pc[ch.producer] \notin ch.posted
  BY <1>2 DEF ChannelOutline
<1>7. ChannelState(ch)
  <2>1. <<>> \in Seq(Numbers(ch))
    OBVIOUS
  <2>2. ch.o \in DOMAIN d.obj
    BY DEF ChannelOutline
  <2> QED
    BY <1>1, <1>3, <1>4, <1>5, <1>6, <2>1, <2>2 DEF ChannelState
<1>8. Consecutive(M, 0, 0, <<>>, 0, 0)
  <2>1. Len(<<>>) = 0 /\ 0 + 0 = 0 /\ 0 + 0 + 0 = 0 /\ 1 .. 0 = {}
    OBVIOUS
  <2> QED
    BY <2>1 DEF Consecutive
<1>9. ChannelClaim(ch)
  BY <1>4, <1>5, <1>6, <1>8 DEF ChannelClaim, Received, Posted
<1> QED
  BY <1>7, <1>9 DEF ChannelInv

\* What a step must do to keep the invariant.
LEMMA ChannelKept ==
    ASSUME NEW ch \in Channels, ChannelOutline(ch), ChannelInv(ch), NEW t \in DOMAIN pc, NEW n,
           NEW items \in Seq(Numbers(ch)), Goes(ch.o, t, n, items), n \in ch.live[t],
           SharedBy(ch) \subseteq DOMAIN mem',
           mem'[ch.next] \in Numbers(ch), mem'[ch.expected] \in Numbers(ch),
           Consecutive(ch.modulus, mem'[ch.expected], Received(ch, pc'[ch.consumer]),
                       items, mem'[ch.next], Posted(ch, pc'[ch.producer])),
           pc'[ch.consumer] \in ch.received => mem'[ch.data] = mem'[ch.expected]
    PROVE  ChannelInv(ch)'
<1> DEFINE q == kernel.obj[ch.o]
<1>1. kernel'.obj[ch.o] \in PlainQueues /\ kernel'.obj[ch.o].items = items
  <2>1. items \in Seq(Int)
    BY SeqMonotonic, Numbers(ch) \subseteq Int DEF Numbers
  <2>2. kernel'.obj[ch.o] = [q EXCEPT !.items = items]
    BY DEF Goes
  <2>3. q \in PlainQueues
    BY DEF ChannelInv, ChannelState
  <2>4. [q EXCEPT !.items = items] \in PlainQueues /\ [q EXCEPT !.items = items].items = items
    <3> HIDE DEF q
    <3> QED
      BY <2>1, <2>3, QueueItems
  <2> QED
    BY <2>2, <2>4
<1>2. "obj" \in DOMAIN kernel' /\ ch.o \in DOMAIN kernel'.obj
      /\ DOMAIN pc' = DOMAIN ch.program.tasks
      /\ \A u \in DOMAIN pc' : pc'[u] \in ch.live[u]
  BY DEF Goes, ChannelInv, ChannelState
<1>3. ChannelState(ch)'
  BY <1>1, <1>2 DEF ChannelState
<1>4. ChannelClaim(ch)'
  BY <1>1 DEF ChannelClaim
<1> QED
  BY <1>3, <1>4 DEF ChannelInv

LEMMA ChannelIdle ==
    ASSUME NEW ch \in Channels, ChannelInv(ch), UNCHANGED pc,
           "obj" \in DOMAIN kernel', ch.o \in DOMAIN kernel'.obj,
           kernel'.obj[ch.o] = kernel.obj[ch.o],
           \A v \in SharedBy(ch) : v \in DOMAIN mem' /\ mem'[v] = mem[v]
    PROVE  ChannelInv(ch)'
<1>1. /\ SharedBy(ch) \subseteq DOMAIN mem'
      /\ mem'[ch.next] = mem[ch.next] /\ mem'[ch.data] = mem[ch.data]
      /\ mem'[ch.expected] = mem[ch.expected]
  BY DEF SharedBy
<1>2. ChannelState(ch)'
  BY <1>1 DEF ChannelInv, ChannelState
<1>3. ChannelClaim(ch)'
  BY <1>1 DEF ChannelInv, ChannelClaim
<1> QED
  BY <1>2, <1>3 DEF ChannelInv

\* What a variable is, and where a task u is, after the call c of t with the result r.
After(c, r, v) == IF c.into = v THEN r ELSE mem[v]
Lands(d, t, c, r, u) == IF u = t THEN Place(d.tasks[t], pc[t] + Ahead(c, r)) ELSE pc[u]

\* A call is over: what its result and its effect on the queue must be.
LEMMA ChannelDone ==
    ASSUME NEW ch \in Channels, ChannelOutline(ch), ChannelInv(ch), NEW t \in DOMAIN pc,
           NEW c, NEW r, Done(ch.program, t, c, r),
           Lands(ch.program, t, c, r, t) \in ch.live[t],
           NEW items \in Seq(Numbers(ch)),
           \/ SameObjects(kernel, kernel') /\ items = kernel.obj[ch.o].items
           \/ NewItems(kernel, kernel', ch.o, items),
           After(c, r, ch.next) \in Numbers(ch), After(c, r, ch.expected) \in Numbers(ch),
           Consecutive(ch.modulus, After(c, r, ch.expected),
                       Received(ch, Lands(ch.program, t, c, r, ch.consumer)), items,
                       After(c, r, ch.next),
                       Posted(ch, Lands(ch.program, t, c, r, ch.producer))),
           Lands(ch.program, t, c, r, ch.consumer) \in ch.received
              => After(c, r, ch.data) = After(c, r, ch.expected)
    PROVE  ChannelInv(ch)'
<1> DEFINE n == Place(ch.program.tasks[t], pc[t] + Ahead(c, r))
<1>1. Goes(ch.o, t, n, items)
  BY DoneGoes DEF ChannelInv, ChannelState
<1>2. ASSUME NEW v \in SharedBy(ch)
      PROVE  v \in DOMAIN mem' /\ mem'[v] = After(c, r, v)
  <2>1. Named(v) /\ v \in DOMAIN mem /\ v \notin ch.program.tasks[t].locals
    BY DEF ChannelOutline, ChannelInv, ChannelState, Named
  <2> QED
    BY <2>1, DoneVariable DEF After
<1>3. SharedBy(ch) \subseteq DOMAIN mem'
  BY <1>2
<1>4. /\ mem'[ch.next] = After(c, r, ch.next) /\ mem'[ch.data] = After(c, r, ch.data)
      /\ mem'[ch.expected] = After(c, r, ch.expected)
  BY <1>2 DEF SharedBy
<1>5. \A u \in DOMAIN pc : pc'[u] = Lands(ch.program, t, c, r, u)
  BY <1>1 DEF Goes, Lands
<1>6. /\ pc'[ch.consumer] = Lands(ch.program, t, c, r, ch.consumer)
      /\ pc'[ch.producer] = Lands(ch.program, t, c, r, ch.producer)
  <2>1. ch.consumer \in DOMAIN pc /\ ch.producer \in DOMAIN pc
    BY DEF ChannelOutline, ChannelInv, ChannelState
  <2> QED
    BY <1>5, <2>1
<1>7. n \in ch.live[t]
  BY DEF Lands
<1> QED
  BY <1>1, <1>3, <1>4, <1>6, <1>7, ChannelKept

LEMMA ChannelStep ==
    ASSUME NEW ch \in Channels, ChannelOutline(ch), ChannelInv(ch), NEW t \in DOMAIN pc,
           StepOf(ch.program, t, CallOf(ch.program, t))
    PROVE  ChannelInv(ch)'
<1> DEFINE d == ch.program
           here == pc[t]
           c == d.tasks[t].program[here]
           q == kernel.obj[ch.o]
           To(k) == Place(d.tasks[t], here + k)
           posted == t = ch.producer /\ here \in ch.posted
           received == t = ch.consumer /\ here \in ch.received
           M == ch.modulus
           expected == mem[ch.expected]
           next == mem[ch.next]
           rec == Received(ch, pc[ch.consumer])
           pos == Posted(ch, pc[ch.producer])
           Producer(r) == Lands(d, t, c, r, ch.producer)
           Consumer(r) == Lands(d, t, c, r, ch.consumer)
<1>1. ChannelFits(ch, t, here)
  BY DEF ChannelOutline, ChannelInv, ChannelState
<1>2. CallOf(d, t) = c
  BY <1>1 DEF ChannelFits, CallOf
<1>3. StepOf(d, t, c)
  BY <1>2
<1>4. /\ "obj" \in DOMAIN kernel /\ ch.o \in DOMAIN kernel.obj
      /\ q.kind = "queue" /\ q.set = "" /\ q.items \in Seq(Numbers(ch))
  BY QueueFields DEF ChannelInv, ChannelState
<1>5. /\ M \in Nat \ {0} /\ ch.producer # ch.consumer
      /\ ch.next # ch.data /\ ch.next # ch.expected /\ ch.data # ch.expected
      /\ next \in Numbers(ch) /\ expected \in Numbers(ch) /\ Numbers(ch) = 0 .. M - 1
      /\ rec \in {0, 1} /\ pos \in {0, 1}
  BY DEF ChannelOutline, ChannelInv, ChannelState, Numbers, Received, Posted
<1>6. /\ Consecutive(M, expected, rec, q.items, next, pos)
      /\ pc[ch.consumer] \in ch.received => mem[ch.data] = expected
  BY DEF ChannelInv, ChannelClaim
<1>7. \A r : Ahead(c, r) \in Branches(c) /\ Lands(d, t, c, r, t) = To(Ahead(c, r))
  BY DEF Ahead, Branches, Lands
<1>8. ASSUME SameObjects(kernel, kernel'), UNCHANGED <<pc, mem>>
      PROVE  ChannelInv(ch)'
  BY <1>4, <1>8, ChannelIdle DEF SameObjects, ChannelInv, ChannelState
\* A call that leaves the queue and the numbers alone.
<1>9. ASSUME NEW r, SameObjects(kernel, kernel'), Done(d, t, c, r), c.into \notin SharedBy(ch),
             To(Ahead(c, r)) \in ch.live[t],
             t = ch.producer => (posted <=> To(Ahead(c, r)) \in ch.posted),
             t = ch.consumer => (received <=> To(Ahead(c, r)) \in ch.received)
      PROVE  ChannelInv(ch)'
  <2>1. /\ Received(ch, Consumer(r)) = rec /\ Posted(ch, Producer(r)) = pos
        /\ (Consumer(r) \in ch.received <=> pc[ch.consumer] \in ch.received)
    BY <1>9 DEF Received, Posted, Lands
  <2>2. /\ After(c, r, ch.next) = next /\ After(c, r, ch.expected) = expected
        /\ After(c, r, ch.data) = mem[ch.data]
    BY <1>9 DEF SharedBy, After
  <2>3. Consecutive(M, After(c, r, ch.expected), Received(ch, Consumer(r)), q.items,
                    After(c, r, ch.next), Posted(ch, Producer(r)))
    BY <1>6, <2>1, <2>2
  <2> QED
    BY <1>4, <1>5, <1>6, <1>7, <1>9, <2>1, <2>2, <2>3, ChannelDone
<1>10. CASE /\ t = ch.producer /\ ~posted
            /\ c.op = "SendToBack" /\ c.o = ch.o /\ c.from = ch.next /\ c.v = 0 /\ c.cmd = ""
            /\ c.to = ""
            /\ c.into \notin SharedBy(ch)
            /\ To(Ahead(c, Pass)) \in ch.live[t] \cap ch.posted
            /\ To(Ahead(c, Fail)) \in ch.live[t] \ ch.posted
  <2>1. Item(c) = next
    <3>1. Named(ch.next)
      BY DEF ChannelOutline, SharedBy, Named
    <3>2. c.from # ""
      BY <1>10, <3>1 DEF Named
    <3>3. Item(c) = 0 + next
      BY <1>10, <3>2 DEF Item, Value
    <3> QED
      BY <1>5, <3>3
  <2>2. ASSUME NewItems(kernel, kernel', ch.o, Append(q.items, next)), Done(d, t, c, Pass)
        PROVE  ChannelInv(ch)'
    <3> DEFINE items == Append(q.items, next)
    <3>1. items \in Seq(Numbers(ch))
      BY <1>4, <1>5, AppendProperties
    <3>2. pos = 0 /\ Received(ch, Consumer(Pass)) = rec /\ Posted(ch, Producer(Pass)) = 1
          /\ Consumer(Pass) = pc[ch.consumer]
      BY <1>5, <1>10 DEF Received, Posted, Lands
    <3>3. /\ After(c, Pass, ch.next) = next /\ After(c, Pass, ch.expected) = expected
          /\ After(c, Pass, ch.data) = mem[ch.data]
      BY <1>10 DEF SharedBy, After
    <3>4. Consecutive(M, expected, rec, items, next, 1)
      BY <1>4, <1>5, <1>6, <3>2, AfterPost
    <3>5. Consecutive(M, After(c, Pass, ch.expected), Received(ch, Consumer(Pass)), items,
                      After(c, Pass, ch.next), Posted(ch, Producer(Pass)))
      BY <3>2, <3>3, <3>4
    <3>6. Lands(d, t, c, Pass, t) \in ch.live[t]
      BY <1>7, <1>10
    <3> HIDE DEF items
    <3> QED
      BY <1>5, <1>6, <2>2, <3>1, <3>2, <3>3, <3>5, <3>6, ChannelDone DEF items
  <2>3. ASSUME SameObjects(kernel, kernel'), Done(d, t, c, Fail)
        PROVE  ChannelInv(ch)'
    BY <1>5, <1>9, <1>10, <2>3
  <2> QED
    BY <1>3, <1>4, <1>8, <1>10, <2>1, <2>2, <2>3, SendStep
<1>11. CASE /\ t = ch.producer /\ posted
            /\ CountsOn(ch, c, ch.next)
            /\ \A k \in Branches(c) : To(k) \in ch.live[t] \ ch.posted
  <2> DEFINE r == (1 + next) % M
  <2>1. Done(d, t, c, r) /\ SameObjects(kernel, kernel')
    <3>1. WriteCall(d, t, c) /\ Value(c) = 1 /\ c.mod = M /\ M # 0 /\ c.o = ch.next /\ c.op = "Add"
      BY <1>3, <1>5, <1>11, ActionOfOp DEF CountsOn, Value
    <3> QED
      BY <1>4, <3>1 DEF WriteCall, SameObjects
  <2>2. r \in Numbers(ch) /\ Consecutive(M, expected, rec, q.items, r, 0)
    <3>1. pos = 1
      BY <1>11 DEF Posted
    <3> QED
      BY <1>5, <1>6, <3>1, AfterCountingNext
  <2> HIDE DEF r
  <2>3. Received(ch, Consumer(r)) = rec /\ Posted(ch, Producer(r)) = 0
        /\ Consumer(r) = pc[ch.consumer] /\ Lands(d, t, c, r, t) \in ch.live[t]
    BY <1>5, <1>7, <1>11 DEF Received, Posted, Lands
  <2>4. /\ After(c, r, ch.next) = r /\ After(c, r, ch.expected) = expected
        /\ After(c, r, ch.data) = mem[ch.data]
    BY <1>5, <1>11 DEF CountsOn, After
  <2>5. Consecutive(M, After(c, r, ch.expected), Received(ch, Consumer(r)), q.items,
                    After(c, r, ch.next), Posted(ch, Producer(r)))
    BY <2>2, <2>3, <2>4
  <2> QED
    BY <1>4, <1>5, <1>6, <2>1, <2>2, <2>3, <2>4, <2>5, ChannelDone
<1>12. CASE /\ t = ch.consumer /\ ~received
            /\ c.op = "Receive" /\ c.o = ch.o /\ c.into = ch.data /\ c.to = ""
            /\ 0 .. ch.modulus - 1 \subseteq c.expect /\ Fail \notin c.expect
            /\ To(c.ok) \in ch.live[t] \cap ch.received
            /\ To(c.no) \in ch.live[t] \ ch.received
  <2>1. rec = 0
    BY <1>12 DEF Received
  <2>2. ASSUME q.items # <<>>, NewItems(kernel, kernel', ch.o, Tail(q.items)),
               Done(d, t, c, Head(q.items))
        PROVE  ChannelInv(ch)'
    <3> DEFINE items == Tail(q.items)
    <3>1. items \in Seq(Numbers(ch))
      BY <1>4, <2>2, HeadTailProperties
    <3>2. Head(q.items) = expected /\ Consecutive(M, expected, 1, items, next, pos)
      BY <1>4, <1>5, <1>6, <2>1, <2>2, AfterReceipt
    <3>3. Ahead(c, expected) = c.ok
      BY <1>5, <1>12 DEF Ahead
    <3>4. /\ Consumer(expected) = To(c.ok) /\ Received(ch, Consumer(expected)) = 1
          /\ Posted(ch, Producer(expected)) = pos /\ Lands(d, t, c, expected, t) \in ch.live[t]
      BY <1>5, <1>7, <1>12, <3>3 DEF Received, Posted, Lands
    <3>5. /\ After(c, expected, ch.next) = next /\ After(c, expected, ch.expected) = expected
          /\ After(c, expected, ch.data) = expected
      BY <1>5, <1>12 DEF After
    <3>6. Consecutive(M, After(c, expected, ch.expected), Received(ch, Consumer(expected)), items,
                      After(c, expected, ch.next), Posted(ch, Producer(expected)))
      BY <3>2, <3>4, <3>5
    <3> HIDE DEF items
    <3> QED
      BY <1>5, <2>2, <3>1, <3>2, <3>4, <3>5, <3>6, ChannelDone DEF items
  <2>3. ASSUME SameObjects(kernel, kernel'), Done(d, t, c, Fail)
        PROVE  ChannelInv(ch)'
    <3> DEFINE r == Fail
    <3>1. Ahead(c, r) = c.no
      BY <1>5, <1>12 DEF Ahead
    <3>2. /\ Consumer(r) = To(c.no) /\ Received(ch, Consumer(r)) = 0 /\ Consumer(r) \notin ch.received
          /\ Posted(ch, Producer(r)) = pos /\ Lands(d, t, c, r, t) \in ch.live[t]
      BY <1>5, <1>7, <1>12, <3>1 DEF Received, Posted, Lands
    <3>3. After(c, r, ch.next) = next /\ After(c, r, ch.expected) = expected
      BY <1>5, <1>12 DEF After
    <3>4. Consecutive(M, After(c, r, ch.expected), Received(ch, Consumer(r)), q.items,
                      After(c, r, ch.next), Posted(ch, Producer(r)))
      BY <1>6, <2>1, <3>2, <3>3
    <3> HIDE DEF r
    <3> QED
      BY <1>4, <1>5, <2>3, <3>2, <3>3, <3>4, ChannelDone DEF r
  <2> QED
    BY <1>3, <1>4, <1>8, <1>12, <2>2, <2>3, ReceiveStep
<1>13. CASE /\ t = ch.consumer /\ received
            /\ c.op = "Compare" /\ c.o = ch.data /\ c.from = ch.expected /\ c.v = 0
            /\ c.into \notin SharedBy(ch)
            /\ To(Ahead(c, 0)) \in ch.live[t] \cap ch.received
  <2>1. ReadCall(d, t, c)
    BY <1>3, <1>13, ActionOfOp
  <2>2. mem[c.o] - Value(c) = 0
    <3>1. Named(ch.expected)
      BY DEF ChannelOutline, SharedBy, Named
    <3>2. c.from # ""
      BY <1>13, <3>1 DEF Named
    <3>3. Value(c) = 0 + expected /\ mem[c.o] = expected
      BY <1>6, <1>13, <3>2 DEF Value
    <3> QED
      BY <1>5, <3>3
  <2>3. Done(d, t, c, 0) /\ SameObjects(kernel, kernel')
    BY <1>4, <1>13, <2>1, <2>2 DEF ReadCall, SameObjects
  <2> QED
    BY <1>5, <1>9, <1>13, <2>3
<1>14. CASE /\ t = ch.consumer /\ received
            /\ CountsOn(ch, c, ch.expected)
            /\ \A k \in Branches(c) : To(k) \in ch.live[t] \ ch.received
  <2> DEFINE r == (1 + expected) % M
  <2>1. Done(d, t, c, r) /\ SameObjects(kernel, kernel')
    <3>1. /\ WriteCall(d, t, c) /\ Value(c) = 1 /\ c.mod = M /\ M # 0
          /\ c.o = ch.expected /\ c.op = "Add"
      BY <1>3, <1>5, <1>14, ActionOfOp DEF CountsOn, Value
    <3> QED
      BY <1>4, <3>1 DEF WriteCall, SameObjects
  <2>2. r \in Numbers(ch) /\ Consecutive(M, r, 0, q.items, next, pos)
    <3>1. rec = 1
      BY <1>14 DEF Received
    <3> QED
      BY <1>4, <1>5, <1>6, <3>1, AfterCountingExpected
  <2> HIDE DEF r
  <2>3. /\ Consumer(r) \notin ch.received /\ Received(ch, Consumer(r)) = 0
        /\ Posted(ch, Producer(r)) = pos /\ Lands(d, t, c, r, t) \in ch.live[t]
    BY <1>5, <1>7, <1>14 DEF Received, Posted, Lands
  <2>4. After(c, r, ch.next) = next /\ After(c, r, ch.expected) = r
    BY <1>5, <1>14 DEF CountsOn, After
  <2>5. Consecutive(M, After(c, r, ch.expected), Received(ch, Consumer(r)), q.items,
                    After(c, r, ch.next), Posted(ch, Producer(r)))
    BY <2>2, <2>3, <2>4
  <2> QED
    BY <1>4, <1>5, <2>1, <2>2, <2>3, <2>4, <2>5, ChannelDone
<1>15. CASE /\ c.op \in PlainCalls /\ c.into \notin SharedBy(ch)
            /\ \A k \in Branches(c) :
                  /\ To(k) \in ch.live[t]
                  /\ t = ch.producer => (posted <=> To(k) \in ch.posted)
                  /\ t = ch.consumer => (received <=> To(k) \in ch.received)
  <2>1. ASSUME NEW r, SameObjects(kernel, kernel'), Done(d, t, c, r)
        PROVE  ChannelInv(ch)'
    BY <1>7, <1>9, <1>15, <2>1
  <2> QED
    BY <1>3, <1>4, <1>8, <1>15, <2>1, PlainStep
<1> QED
  BY <1>1, <1>10, <1>11, <1>12, <1>13, <1>14, <1>15 DEF ChannelFits

\* What is on its way: the number in the consumer's hand, those in the queue, the next one.
InHand(received, data) == IF received = 1 THEN << data >> ELSE <<>>
Unsent(posted, next)   == IF posted = 1 THEN <<>> ELSE << next >>
Successive(s, e, M)    == \A i \in DOMAIN s : s[i] = (e + i - 1) % M

LEMMA OnTheWay ==
    ASSUME NEW M \in Nat \ {0}, NEW e \in 0 .. M - 1, NEW r \in {0, 1}, NEW p \in {0, 1},
           NEW items \in Seq(0 .. M - 1), NEW n \in 0 .. M - 1,
           Consecutive(M, e, r, items, n, p)
    PROVE  Successive(InHand(r, e) \o items \o Unsent(p, n), e, M)
<1> DEFINE first == InHand(r, e)
           last == Unsent(p, n)
           k == Len(items)
           S == 0 .. M - 1
           s == first \o items
           all == s \o last
<1>1. \A x \in S : <<x>> \in Seq(S) /\ Len(<<x>>) = 1 /\ <<x>>[1] = x
  OBVIOUS
<1>2. <<>> \in Seq(S) /\ Len(<<>>) = 0
  OBVIOUS
<1>3. k \in Nat /\ r \in Nat /\ 1 - p \in Nat /\ e \in S /\ n \in S /\ items \in Seq(S)
  OBVIOUS
<1> HIDE DEF S
<1>4. first \in Seq(S) /\ Len(first) = r /\ (r = 1 => first[1] = e)
  <2>1. CASE r = 1
    BY <1>1, <1>3, <2>1 DEF InHand
  <2>2. CASE r = 0
    BY <1>2, <2>2 DEF InHand
  <2> QED
    BY <2>1, <2>2
<1>5. last \in Seq(S) /\ Len(last) = 1 - p /\ (p = 0 => last[1] = n)
  <2>1. CASE p = 0
    BY <1>1, <1>3, <2>1 DEF Unsent
  <2>2. CASE p = 1
    BY <1>2, <2>2 DEF Unsent
  <2> QED
    BY <2>1, <2>2
<1>6. /\ s \in Seq(S) /\ Len(s) = r + k
      /\ \A i \in 1 .. r + k : s[i] = IF i <= r THEN first[i] ELSE items[i - r]
  <2> HIDE DEF first
  <2>1. /\ s \in Seq(S) /\ Len(s) = Len(first) + k
        /\ \A i \in 1 .. Len(first) + k :
              s[i] = IF i <= Len(first) THEN first[i] ELSE items[i - Len(first)]
    BY ONLY <1>3, <1>4, ConcatProperties
  <2>2. Len(first) = r
    BY ONLY <1>4
  <2> QED
    BY ONLY <2>1, <2>2
<1>7. /\ all \in Seq(S) /\ Len(all) = r + k + (1 - p)
      /\ \A i \in 1 .. r + k + (1 - p) :
            all[i] = IF i <= r + k THEN s[i] ELSE last[i - (r + k)]
  <2> HIDE DEF k, s, last
  <2>1. /\ all \in Seq(S) /\ Len(all) = Len(s) + Len(last)
        /\ \A i \in 1 .. Len(s) + Len(last) :
              all[i] = IF i <= Len(s) THEN s[i] ELSE last[i - Len(s)]
    BY ONLY <1>5, <1>6, ConcatProperties
  <2>2. Len(s) = r + k /\ Len(last) = 1 - p
    BY ONLY <1>5, <1>6
  <2> QED
    BY ONLY <2>1, <2>2
<1>8. DOMAIN all = 1 .. r + k + (1 - p)
  <2> HIDE DEF all
  <2> QED
    BY <1>7, LenProperties
<1> HIDE DEF k, s, all, first, last
<1>9. ASSUME NEW i \in 1 .. r + k + (1 - p)
      PROVE  all[i] = (e + i - 1) % M
  <2>1. CASE i <= r
    <3>1. r = 1 /\ i = 1 /\ i <= r + k
      BY <1>3, <2>1
    <3>2. all[i] = e
      BY <1>3, <1>4, <1>6, <1>7, <3>1
    <3>3. e + 1 - 1 = e /\ e % M = e
      BY ModSmall
    <3> QED
      BY <3>1, <3>2, <3>3
  <2>2. CASE r < i /\ i <= r + k
    <3>1. i - r \in 1 .. k /\ i \in 1 .. r + k /\ ~(i <= r)
      BY <1>3, <2>2
    <3>2. all[i] = items[i - r]
      BY <1>3, <1>6, <1>7, <2>2, <3>1
    <3>3. items[i - r] = (e + r + (i - r - 1)) % M
      BY <3>1 DEF Consecutive, k
    <3>4. e + r + (i - r - 1) = e + i - 1
      BY <1>3
    <3> QED
      BY <3>2, <3>3, <3>4
  <2>3. CASE r + k < i
    <3>1. p = 0 /\ i = r + k + 1 /\ ~(i <= r + k) /\ i - (r + k) = 1
      BY <1>3, <2>3
    <3>2. all[i] = n
      BY <1>3, <1>5, <1>7, <3>1
    <3>3. n = (e + r + k) % M
      <4>1. n + 0 = n /\ n % M = n
        BY ModSmall
      <4> QED
        BY <3>1, <4>1 DEF Consecutive, k
    <3>4. e + i - 1 = e + r + k
      BY <1>3, <3>1
    <3> QED
      BY <3>2, <3>3, <3>4
  <2> QED
    BY <1>3, <2>1, <2>2, <2>3
<1> QED
  BY <1>8, <1>9 DEF all, s, first, last, Successive

ChannelsInv == \A ch \in Channels : D = ch.program => ChannelInv(ch)

LEMMA ChannelsInductive ==
    ASSUME ChannelsFit
    PROVE  /\ Init => ChannelsInv
           /\ ChannelsInv /\ [Next]_vars => ChannelsInv'
<1>1. Init => ChannelsInv
  BY ChannelInit DEF Init, ChannelsInv, ChannelsFit
<1>2. ASSUME ChannelsInv, [Next]_vars
      PROVE  ChannelsInv'
  <2> SUFFICES ASSUME NEW ch \in Channels, D' = ch.program
               PROVE  ChannelInv(ch)'
    BY DEF ChannelsInv
  <2>1. demo' = demo
    BY <1>2 DEF Next, vars, Elapse, Step, StepOf
  <2>2. D = ch.program
    BY <2>1 DEF D
  <2>3. ChannelInv(ch) /\ ChannelOutline(ch)
    BY <1>2, <2>2 DEF ChannelsInv, ChannelsFit
  <2>4. ASSUME NEW t \in Tasks, Step(D, t)
        PROVE  ChannelInv(ch)'
    BY <2>2, <2>3, <2>4, ChannelStep DEF Step, Tasks
  <2>5. CASE Elapse(D)
    <3>1. /\ "obj" \in DOMAIN kernel /\ ch.o \in DOMAIN kernel.obj
          /\ kernel.obj[ch.o].kind # "timer"
          /\ SharedBy(ch) \subseteq DOMAIN mem \ ch.program.stamps
      BY <2>3, QueueFields DEF ChannelInv, ChannelState, ChannelOutline
    <3>2. /\ "obj" \in DOMAIN kernel' /\ DOMAIN kernel'.obj = DOMAIN kernel.obj
          /\ kernel'.obj[ch.o] = kernel.obj[ch.o]
          /\ DOMAIN mem' = DOMAIN mem
          /\ \A v \in DOMAIN mem \ ch.program.stamps : mem'[v] = mem[v]
          /\ UNCHANGED pc
      BY <2>2, <2>5, <3>1, ElapseEffect
    <3>3. \A v \in SharedBy(ch) : v \in DOMAIN mem' /\ mem'[v] = mem[v]
      BY <3>1, <3>2
    <3> QED
      BY <2>3, <3>1, <3>2, <3>3, ChannelIdle
  <2>6. CASE UNCHANGED vars
    <3>1. UNCHANGED <<pc, kernel, mem>>
      BY <2>6 DEF vars
    <3>2. \A v \in SharedBy(ch) : v \in DOMAIN mem' /\ mem'[v] = mem[v]
      BY <2>3, <3>1 DEF ChannelInv, ChannelState
    <3> QED
      BY <2>3, <3>1, <3>2, ChannelIdle DEF ChannelInv, ChannelState
  <2> QED
    BY <1>2, <2>4, <2>5, <2>6 DEF Next
<1> QED
  BY <1>1, <1>2

\* BlockQ.c: the numbers between producer and consumer are consecutive, for a queue of any
\* length, any priorities and any way in which sends and receives are refused or time out.
THEOREM ChannelsInOrder ==
    ASSUME ChannelsFit
    PROVE  Spec => []InOrder
<1>1. ChannelsInv => InOrder
  <2> SUFFICES ASSUME ChannelsInv, NEW ch \in Channels, D = ch.program
               PROVE  LET first == IF pc[ch.consumer] \in ch.received THEN << mem[ch.data] >>
                                   ELSE <<>>
                          last  == IF pc[ch.producer] \in ch.posted THEN <<>>
                                   ELSE << mem[ch.next] >>
                          all   == first \o kernel.obj[ch.o].items \o last
                      IN  \A i \in DOMAIN all : all[i] = (mem[ch.expected] + i - 1) % ch.modulus
    BY DEF InOrder
  <2> DEFINE M     == ch.modulus
             e     == mem[ch.expected]
             n     == mem[ch.next]
             items == kernel.obj[ch.o].items
             r     == Received(ch, pc[ch.consumer])
             p     == Posted(ch, pc[ch.producer])
             first == IF pc[ch.consumer] \in ch.received THEN << mem[ch.data] >> ELSE <<>>
             last  == IF pc[ch.producer] \in ch.posted THEN <<>> ELSE << mem[ch.next] >>
  <2>1. ChannelState(ch) /\ ChannelClaim(ch) /\ ChannelOutline(ch)
    BY DEF ChannelsFit, ChannelsInv, ChannelInv
  <2>2. /\ M \in Nat \ {0} /\ e \in 0 .. M - 1 /\ n \in 0 .. M - 1 /\ items \in Seq(0 .. M - 1)
        /\ r \in {0, 1} /\ p \in {0, 1}
        /\ Consecutive(M, e, r, items, n, p)
    BY <2>1 DEF ChannelOutline, ChannelState, ChannelClaim, Numbers, Received, Posted
  <2>3. first = InHand(r, e)
    BY <2>1 DEF ChannelClaim, Received, InHand
  <2>4. last = Unsent(p, n)
    BY DEF Posted, Unsent
  <2>5. \A i \in DOMAIN (first \o items \o last) : (first \o items \o last)[i] = (e + i - 1) % M
    <3> HIDE DEF M, e, n, items, r, p, first, last
    <3>1. Successive(InHand(r, e) \o items \o Unsent(p, n), e, M)
      BY <2>2, OnTheWay
    <3> QED
      BY <2>3, <2>4, <3>1 DEF Successive
  <2> QED
    BY <2>5
<1> QED
  BY <1>1, ChannelsInductive, PTL DEF Spec

\* BlockQ.c: the consumer never gets to where it has found a number other than expected.
ConsumersOnCourse ==
    \A ch \in Channels : D = ch.program => pc[ch.consumer] \in ch.live[ch.consumer]

THEOREM ChannelsOnCourse ==
    ASSUME ChannelsFit
    PROVE  Spec => []ConsumersOnCourse
<1>1. ChannelsInv => ConsumersOnCourse
  BY DEF ChannelsFit, ChannelsInv, ChannelInv, ChannelState, ChannelOutline, ConsumersOnCourse
<1> QED
  BY <1>1, ChannelsInductive, PTL DEF Spec
-----------------------------------------------------------------------------
(* Who is suspended, and who does not exist *)

Kernel(K) ==
    /\ "task" \in DOMAIN K /\ "obj" \in DOMAIN K
    /\ \A u \in DOMAIN K.task : "run" \in DOMAIN K.task[u]

\* The task u of K has not been created, or has been deleted.
Away(K, u) == K.task[u].run \in {Absent, "deleted"}

\* K2 has the tasks of K, and no other one of them is suspended or away.
Rouses(K, K2) ==
    /\ Kernel(K2) /\ DOMAIN K2.task = DOMAIN K.task
    /\ \A u \in DOMAIN K.task :
          /\ K2.task[u].run = "suspended" => K.task[u].run = "suspended"
          /\ Away(K2, u) => Away(K, u)

LEMMA RousesAgain ==
    ASSUME NEW K, NEW K1, NEW K2, Rouses(K, K1), Rouses(K1, K2)
    PROVE  Rouses(K, K2)
  BY DEF Rouses

LEMMA SameRouses ==
    ASSUME NEW K, Kernel(K), NEW K2, Kernel(K2), K2.task = K.task
    PROVE  Rouses(K, K2)
  BY DEF Rouses, Away

LEMMA UnblockRouses ==
    ASSUME NEW K, Kernel(K), NEW t
    PROVE  Rouses(K, Unblock(K, t))
  BY DEF Unblock, Rouses, Away, Absent, Kernel

LEMMA BlockRouses ==
    ASSUME NEW K, Kernel(K), NEW t, NEW where, NEW ticks
    PROVE  Rouses(K, Block(K, t, where, ticks))
  BY DEF Block, Rouses, Away, Absent, Kernel

LEMMA WakeRouses ==
    ASSUME NEW K, Kernel(K), NEW where
    PROVE  Rouses(K, Wake(K, where))
  BY UnblockRouses, SameRouses DEF Wake

LEMMA RestedRouses ==
    ASSUME NEW K, Kernel(K), NEW t
    PROVE  Rouses(K, Rested(K, t))
  BY DEF Rested, Rouses, Away, Kernel

LEMMA TasksAfterRouses ==
    ASSUME NEW K, Kernel(K), NEW ticks
    PROVE  Rouses(K, TasksAfter(K, ticks))
  BY DEF TasksAfter, Rouses, Away, Absent, Kernel

LEMMA ReapRouses ==
    ASSUME NEW K, Kernel(K)
    PROVE  Rouses(K, Reap(K))
  BY DEF Reap, Rouses, Away, Kernel, Gone, NewTask, Absent

LEMMA TimersAfterRouses ==
    ASSUME NEW K, Kernel(K), NEW ticks
    PROVE  Rouses(K, TimersAfter(K, ticks))
  BY DEF TimersAfter, Rouses, Away, Kernel

LEMMA PriorityRouses ==
    ASSUME NEW K, Kernel(K), NEW t, NEW held, NEW base, NEW prio
    PROVE  /\ Rouses(K, [K EXCEPT !.task[t] = [@ EXCEPT !.base = base, !.prio = prio]])
           /\ Rouses(K, [K EXCEPT !.task[t] = [@ EXCEPT !.held = held, !.prio = prio]])
           /\ Rouses(K, [K EXCEPT !.task[t].prio = prio])
  BY DEF Rouses, Away, Kernel

LEMMA InheritRouses ==
    ASSUME NEW K, Kernel(K), NEW t, NEW o
    PROVE  /\ Rouses(K, Inherit(K, t, o)) /\ SameObjects(K, Inherit(K, t, o))
           /\ Rouses(K, DisinheritAfterTimeout(K, t, o))
           /\ SameObjects(K, DisinheritAfterTimeout(K, t, o))
           /\ Rouses(K, Disinherit(K, t)) /\ SameObjects(K, Disinherit(K, t))
<1>1. Rouses(K, Inherit(K, t, o)) /\ SameObjects(K, Inherit(K, t, o))
  BY PriorityRouses, SameRouses DEF Inherit, SameObjects, Kernel
<1>2. /\ Rouses(K, DisinheritAfterTimeout(K, t, o))
      /\ SameObjects(K, DisinheritAfterTimeout(K, t, o))
  BY PriorityRouses, SameRouses DEF DisinheritAfterTimeout, SameObjects, Kernel
<1>3. Rouses(K, Disinherit(K, t)) /\ SameObjects(K, Disinherit(K, t))
  BY DEF Disinherit, SameObjects, Kernel, Rouses, Away
<1> QED
  BY <1>1, <1>2, <1>3

\* A task that begins to wait for a mutex only lends its priority to the holder.
LEMMA WaitRouses ==
    ASSUME NEW K, Kernel(K), NEW t, NEW o, NEW where, NEW ticks
    PROVE  /\ SameObjects(K, Block(Inherit(K, t, o), t, where, ticks))
           /\ Rouses(K, Block(Inherit(K, t, o), t, where, ticks))
<1> DEFINE K1 == Inherit(K, t, o)
           K2 == Block(K1, t, where, ticks)
<1>1. SameObjects(K, K1) /\ Rouses(K, K1)
  BY InheritRouses
<1> HIDE DEF K1
<1>2. SameObjects(K1, K2) /\ Rouses(K1, K2)
  BY <1>1, BlockObjects, BlockRouses DEF SameObjects, Rouses
<1> HIDE DEF K2
<1>3. SameObjects(K, K2) /\ Rouses(K, K2)
  BY <1>1, <1>2, RousesAgain DEF SameObjects
<1> QED
  BY <1>3 DEF K1, K2

LEMMA ElapseRouses ==
    ASSUME NEW d, Elapse(d), Kernel(kernel)
    PROVE  Rouses(kernel, kernel')
<1>1. PICK ticks, K : /\ K \in {Reap(TasksAfter(kernel, ticks)), TasksAfter(kernel, ticks)}
                      /\ kernel' = TimersAfter(K, ticks)
  BY DEF Elapse, IdleTurn
<1>2. Rouses(kernel, TasksAfter(kernel, ticks))
  BY TasksAfterRouses
<1>3. Rouses(TasksAfter(kernel, ticks), K)
  BY <1>1, <1>2, ReapRouses, SameRouses DEF Rouses
<1>4. Rouses(K, kernel')
  BY <1>1, <1>3, TimersAfterRouses DEF Rouses
<1> QED
  BY <1>2, <1>3, <1>4, RousesAgain
-----------------------------------------------------------------------------
(* What the calls of a sleeper's outline do *)

LEMMA ActionOfTaskOp ==
    ASSUME NEW d, NEW t, NEW c, StepOf(d, t, c)
    PROVE  /\ c.op \in Takes \cup Gives \cup {"Holder"} => MutexCall(d, t, c)
           /\ c.op = "Resume" => ResumeCall(d, t, c)
           /\ c.op = "AbortDelay" => AbortDelayCall(d, t, c)
           /\ c.op \in {"PrioritySet", "PriorityGet"} => PriorityCall(d, t, c)
           /\ c.op = "GetState" => GetStateCall(d, t, c)
           /\ c.op = "Jump" => ReadCall(d, t, c)
           /\ c.op = "Suspend" => SuspendCall(d, t, c)
  BY OpsOfActions
     DEF StepOf, QueueCalls, Receives, MutexCalls, NoteCalls, WaitCalls, GroupCalls,
         TimerCalls, BufferCalls, Takes, Gives

\* A call that leaves the mutexes alone ends with some result, or goes on; it suspends nobody.
LEMMA PlainRouses ==
    ASSUME NEW d, NEW t, NEW c, StepOf(d, t, c), c.op \in PlainCalls, Kernel(kernel)
    PROVE  Rouses(kernel, kernel')
<1>1. CASE c.op \in {"Read", "Compare"}
  BY <1>1, ActionOfOp, SameRouses DEF ReadCall
<1>2. CASE c.op \in {"Set", "Add"}
  BY <1>2, ActionOfOp, SameRouses DEF WriteCall
<1>3. CASE c.op = "Delay"
  <2>1. DelayCall(d, t, c)
    BY <1>3, ActionOfOp
  <2>2. \/ kernel' = Rested(kernel, t)
        \/ \E ticks : kernel' = Block(kernel, t, Nowhere, ticks)
    BY <2>1 DEF DelayCall
  <2> QED
    BY <2>2, RestedRouses, BlockRouses
<1>4. CASE c.op \in {"EnterCritical", "ExitCritical"}
  BY <1>4, ActionOfOp, SameRouses DEF LockCall, Kernel
<1> QED
  BY <1>1, <1>2, <1>3, <1>4 DEF PlainCalls

LEMMA TaskStep ==
    ASSUME NEW d, NEW t, NEW c, StepOf(d, t, c), c.op \in PlainCalls \cup TaskCalls,
           Kernel(kernel)
    PROVE  /\ SameObjects(kernel, kernel') /\ Rouses(kernel, kernel')
           /\ \/ UNCHANGED <<pc, mem, error>>
              \/ \E r : Done(d, t, c, r)
<1>0. "obj" \in DOMAIN kernel
  BY DEF Kernel
<1>1. CASE c.op \in PlainCalls
  BY <1>0, <1>1, PlainStep, PlainRouses
<1>2. CASE c.op = "Resume"
  <2>1. ResumeCall(d, t, c)
    BY <1>2, ActionOfTaskOp
  <2>2. (kernel' = kernel \/ kernel' = Unblock(kernel, c.o)) /\ Done(d, t, c, Pass)
    BY <2>1 DEF ResumeCall
  <2> QED
    BY <1>0, <2>2, UnblockObjects, UnblockRouses, SameRouses DEF SameObjects
<1>3. CASE c.op = "AbortDelay"
  <2>1. AbortDelayCall(d, t, c)
    BY <1>3, ActionOfTaskOp
  <2> DEFINE K1 == Unblock(kernel, c.o)
  <2>2. /\ kernel' = kernel \/ kernel' = [K1 EXCEPT !.task[c.o].left = 0]
        /\ \E r : Done(d, t, c, r)
    BY <2>1 DEF AbortDelayCall
  <2>3. SameObjects(kernel, K1) /\ Rouses(kernel, K1)
    BY <1>0, UnblockObjects, UnblockRouses
  <2> HIDE DEF K1
  <2>4. /\ SameObjects(K1, [K1 EXCEPT !.task[c.o].left = 0])
        /\ Rouses(K1, [K1 EXCEPT !.task[c.o].left = 0])
    BY <2>3 DEF SameObjects, Rouses, Away, Kernel
  <2>5. SameObjects(kernel, kernel) /\ Rouses(kernel, kernel)
    BY <1>0, SameRouses DEF SameObjects
  <2> QED
    BY <2>2, <2>3, <2>4, <2>5, RousesAgain DEF SameObjects
<1>4. CASE c.op \in {"PrioritySet", "PriorityGet"}
  <2>1. PriorityCall(d, t, c)
    BY <1>4, ActionOfTaskOp
  <2> DEFINE u == Target(t, c)
             r == kernel.task[u]
             P(base, prio) == [kernel EXCEPT !.task[u] = [@ EXCEPT !.base = base, !.prio = prio]]
             prio1 == IF r.base = r.prio \/ c.v > r.prio THEN c.v ELSE r.prio
  <2>2. kernel' \in {kernel, P(c.v, prio1)} /\ \E x : Done(d, t, c, x)
    BY <2>1 DEF PriorityCall
  <2> HIDE DEF u, prio1
  <2>3. Rouses(kernel, P(c.v, prio1)) /\ SameObjects(kernel, P(c.v, prio1))
    BY <1>0, PriorityRouses DEF SameObjects
  <2>4. SameObjects(kernel, kernel) /\ Rouses(kernel, kernel)
    BY <1>0, SameRouses DEF SameObjects
  <2> QED
    BY <2>2, <2>3, <2>4
<1>5. CASE c.op = "GetState"
  BY <1>0, <1>5, ActionOfTaskOp, SameRouses DEF GetStateCall, SameObjects
<1>6. CASE c.op = "Holder"
  <2>1. MutexCall(d, t, c) /\ MutexAble(kernel, t, c)
    BY <1>6, ActionOfTaskOp DEF MutexAble
  <2>2. kernel' = Rested(MutexAfter(kernel, t, c), t) /\ Done(d, t, c, MutexReturned(kernel, c))
    BY <2>1 DEF MutexCall
  <2>3. MutexAfter(kernel, t, c) = kernel
    BY <1>6 DEF MutexAfter
  <2> QED
    BY <1>0, <2>2, <2>3, RestedObjects, RestedRouses
<1>7. CASE c.op = "Jump"
  BY <1>0, <1>7, ActionOfTaskOp, SameRouses DEF ReadCall, SameObjects
<1> QED
  BY <1>1, <1>2, <1>3, <1>4, <1>5, <1>6, <1>7 DEF TaskCalls

\* K2 differs from K at most in the tasks, and the object o of K2 is m.
NewObject(K, K2, o, m) == "obj" \in DOMAIN K2 /\ K2.obj = [K.obj EXCEPT ![o] = m]

LEMMA RestedObject ==
    ASSUME NEW K, NEW K1, NEW t, NEW o, NEW m, NewObject(K, K1, o, m), Rouses(K, K1)
    PROVE  NewObject(K, Rested(K1, t), o, m) /\ Rouses(K, Rested(K1, t))
<1>1. SameObjects(K1, Rested(K1, t)) /\ Rouses(K1, Rested(K1, t))
  BY RestedObjects, RestedRouses DEF Rouses, NewObject
<1> QED
  BY <1>1, RousesAgain DEF NewObject, SameObjects

\* A take makes t the holder, if the mutex was free or t holds it already; or it is refused,
\* or t blocks.
LEMMA TakeStep ==
    ASSUME NEW d, NEW t, NEW c, StepOf(d, t, c), c.op \in Takes, Kernel(kernel),
           c.o \in DOMAIN kernel.obj
    PROVE  LET m == kernel.obj[c.o]
           IN  /\ Rouses(kernel, kernel')
               /\ \/ /\ m.free \/ m.holder = t
                     /\ NewObject(kernel, kernel', c.o, Taken(m, t)) /\ Done(d, t, c, Pass)
                  \/ SameObjects(kernel, kernel') /\ Done(d, t, c, Fail)
                  \/ SameObjects(kernel, kernel') /\ UNCHANGED <<pc, mem, error>>
<1> DEFINE m == kernel.obj[c.o]
<1>0. "obj" \in DOMAIN kernel
  BY DEF Kernel
<1>1. MutexCall(d, t, c)
  BY ActionOfTaskOp
<1>2. CASE /\ MutexAble(kernel, t, c)
           /\ kernel' = Rested(MutexAfter(kernel, t, c), t)
           /\ Done(d, t, c, MutexReturned(kernel, c))
  <2>1. m.free \/ m.holder = t
    BY <1>2 DEF MutexAble, Takes
  <2>2. MutexReturned(kernel, c) = Pass
    BY DEF MutexReturned, Takes
  <2>3. NewObject(kernel, MutexAfter(kernel, t, c), c.o, Taken(m, t))
    BY <1>0 DEF MutexAfter, Takes, NewObject, Taken
  <2>4. Rouses(kernel, MutexAfter(kernel, t, c))
    BY DEF MutexAfter, Takes, Rouses, Away, Kernel
  <2> QED
    BY <1>2, <2>1, <2>2, <2>3, <2>4, RestedObject
<1>3. CASE /\ kernel' = Rested(DisinheritAfterTimeout(kernel, t, c.o), t)
           /\ Done(d, t, c, Fail)
  <2> DEFINE K1 == DisinheritAfterTimeout(kernel, t, c.o)
  <2>1. SameObjects(kernel, K1) /\ Rouses(kernel, K1)
    BY InheritRouses
  <2> HIDE DEF K1
  <2>2. SameObjects(K1, Rested(K1, t)) /\ Rouses(K1, Rested(K1, t))
    BY <2>1, RestedObjects, RestedRouses DEF SameObjects, Rouses
  <2> QED
    BY <1>3, <2>1, <2>2, RousesAgain DEF SameObjects, K1
<1>4. CASE /\ \E ticks : kernel' = Block(Inherit(kernel, t, c.o), t, Filled(c.o), ticks)
           /\ UNCHANGED <<pc, mem, error>>
  BY <1>4, WaitRouses
<1> QED
  BY <1>1, <1>2, <1>3, <1>4 DEF MutexCall

\* A give by the holder of a mutex that is in no queue set takes one take back; any other is
\* refused, or blocks.
LEMMA GiveStep ==
    ASSUME NEW d, NEW t, NEW c, StepOf(d, t, c), c.op \in Gives, Kernel(kernel),
           c.o \in DOMAIN kernel.obj, kernel.obj[c.o].set = "", kernel.obj[c.o].depth \in Nat
    PROVE  LET m == kernel.obj[c.o]
           IN  /\ Rouses(kernel, kernel')
               /\ \/ /\ m.holder = t /\ Done(d, t, c, Pass)
                     /\ NewObject(kernel, kernel', c.o,
                                  IF m.depth > 1 THEN [m EXCEPT !.depth = @ - 1] ELSE Released(m))
                  \/ SameObjects(kernel, kernel') /\ m.holder # t /\ Done(d, t, c, Fail)
                  \/ SameObjects(kernel, kernel') /\ UNCHANGED <<pc, mem, error>>
<1> DEFINE m == kernel.obj[c.o]
<1>0. "obj" \in DOMAIN kernel
  BY DEF Kernel
<1>1. MutexCall(d, t, c)
  BY ActionOfTaskOp
<1>2. MutexAble(kernel, t, c) <=> m.holder = t
  BY DEF MutexAble, Gives
<1>3. CASE /\ MutexAble(kernel, t, c)
           /\ kernel' = Rested(MutexAfter(kernel, t, c), t)
           /\ Done(d, t, c, MutexReturned(kernel, c))
  <2>1. MutexReturned(kernel, c) = Pass
    BY DEF MutexReturned, Gives
  <2>2. CASE m.depth > 1
    <3>1. MutexAfter(kernel, t, c) = [kernel EXCEPT !.obj[c.o].depth = m.depth - 1]
      BY <2>2 DEF MutexAfter, Gives
    <3>2. NewObject(kernel, MutexAfter(kernel, t, c), c.o, [m EXCEPT !.depth = @ - 1])
      BY <1>0, <3>1 DEF NewObject
    <3>3. Rouses(kernel, MutexAfter(kernel, t, c))
      BY <3>1, SameRouses DEF Kernel
    <3> QED
      BY <1>2, <1>3, <2>1, <2>2, <3>2, <3>3, RestedObject
  <2>3. CASE ~(m.depth > 1)
    <3> DEFINE K1 == [kernel EXCEPT !.obj[c.o] = Released(m)]
               K2 == Disinherit(K1, t)
               K3 == Wake(K2, Filled(c.o))
    <3>1. MutexAfter(kernel, t, c) = K3
      BY <2>3 DEF MutexAfter, Gives
    <3>2. NewObject(kernel, K1, c.o, Released(m)) /\ Rouses(kernel, K1)
      BY <1>0, SameRouses DEF NewObject, Kernel
    <3> HIDE DEF K1
    <3>3. SameObjects(K1, K2) /\ Rouses(K1, K2)
      BY <3>2, InheritRouses DEF Rouses
    <3> HIDE DEF K2
    <3>4. SameObjects(K2, K3) /\ Rouses(K2, K3)
      BY <3>3, WakeObjects, WakeRouses DEF Rouses, SameObjects
    <3> HIDE DEF K3
    <3>5. NewObject(kernel, K3, c.o, Released(m)) /\ Rouses(kernel, K3)
      BY <3>2, <3>3, <3>4, RousesAgain DEF NewObject, SameObjects
    <3> QED
      BY <1>2, <1>3, <2>1, <2>3, <3>1, <3>5, RestedObject
  <2> QED
    BY <2>2, <2>3
<1>4. CASE /\ ~MutexAble(kernel, t, c)
           /\ kernel' = Rested(DisinheritAfterTimeout(kernel, t, c.o), t)
           /\ Done(d, t, c, Fail)
  <2> DEFINE K1 == DisinheritAfterTimeout(kernel, t, c.o)
  <2>1. SameObjects(kernel, K1) /\ Rouses(kernel, K1)
    BY InheritRouses
  <2> HIDE DEF K1
  <2>2. SameObjects(K1, Rested(K1, t)) /\ Rouses(K1, Rested(K1, t))
    BY <2>1, RestedObjects, RestedRouses DEF SameObjects, Rouses
  <2> QED
    BY <1>2, <1>4, <2>1, <2>2, RousesAgain DEF SameObjects, K1
<1>5. CASE /\ \E ticks : kernel' = Block(Inherit(kernel, t, c.o), t, Filled(c.o), ticks)
           /\ UNCHANGED <<pc, mem, error>>
  BY <1>5, WaitRouses
<1> QED
  BY <1>1, <1>3, <1>4, <1>5 DEF MutexCall

\* A task suspends itself.
LEMMA SuspendStep ==
    ASSUME NEW d, NEW t, NEW c, StepOf(d, t, c), c.op = "Suspend", c.o = Self, Kernel(kernel)
    PROVE  /\ SameObjects(kernel, kernel') /\ Kernel(kernel')
           /\ DOMAIN kernel'.task = DOMAIN kernel.task
           /\ \A u \in DOMAIN kernel.task \ {t} :
                 kernel'.task[u].run = "suspended" => kernel.task[u].run = "suspended"
           /\ Done(d, t, c, Pass)
<1> DEFINE K1 == Unblock(kernel, t)
<1>1. kernel' = [K1 EXCEPT !.task[t].run = "suspended"] /\ Done(d, t, c, Pass)
  BY ActionOfTaskOp DEF SuspendCall, Target
<1>2. SameObjects(kernel, K1) /\ Rouses(kernel, K1)
  BY UnblockObjects, UnblockRouses DEF Kernel
<1> HIDE DEF K1
<1> QED
  BY <1>1, <1>2 DEF SameObjects, Rouses, Kernel
-----------------------------------------------------------------------------
(* Sleepers: the inductive invariant *)

Holders(s)   == DOMAIN s.program.tasks \cup {Nobody}
MutexesOf(s) ==
    [kind : {"mutex"}, holder : Holders(s), depth : Nat, free : BOOLEAN, set : {""}]

\* Who holds a mutex has taken it at least once.
Sound(m) ==
    /\ m.free => m.depth = 0
    /\ m.holder # Nobody => m.depth > 0

MutexOf(s, m) == m \in MutexesOf(s) /\ Sound(m)

LEMMA MutexFields ==
    ASSUME NEW s, NEW m \in MutexesOf(s)
    PROVE  /\ m.kind = "mutex" /\ m.holder \in Holders(s) /\ m.depth \in Nat
           /\ m.free \in BOOLEAN /\ m.set = ""
<1>1. m.kind \in {"mutex"} /\ m.set \in {""}
  BY DEF MutexesOf
<1> QED
  BY <1>1 DEF MutexesOf

Held(m, t, n) == [m EXCEPT !.holder = t, !.depth = n, !.free = FALSE]
Deep(m, n)    == [m EXCEPT !.depth = n]

LEMMA HeldMutex ==
    ASSUME NEW s, NEW m \in MutexesOf(s), NEW t \in Holders(s), NEW n \in Nat, n > 0
    PROVE  /\ Held(m, t, n) \in MutexesOf(s) /\ Held(m, t, n).holder = t
           /\ Held(m, t, n).depth = n /\ Sound(Held(m, t, n))
  BY DEF MutexesOf, Held, Sound

LEMMA ReleasedMutex ==
    ASSUME NEW s, NEW m \in MutexesOf(s)
    PROVE  /\ Released(m) \in MutexesOf(s) /\ Released(m).holder = Nobody
           /\ Sound(Released(m))
  BY DEF MutexesOf, Released, Sound, Holders

LEMMA DeepMutex ==
    ASSUME NEW s, NEW m \in MutexesOf(s), NEW n \in Nat, n > 0, Sound(m), m.depth # 0
    PROVE  /\ Deep(m, n) \in MutexesOf(s) /\ Deep(m, n).holder = m.holder
           /\ Deep(m, n).depth = n /\ Sound(Deep(m, n))
  BY DEF MutexesOf, Deep, Sound

MutexState(s) ==
    /\ Kernel(kernel)
    /\ DOMAIN kernel.obj = DOMAIN s.program.obj
    /\ \A o \in DOMAIN kernel.obj : MutexOf(s, kernel.obj[o])
    /\ DOMAIN kernel.task = DOMAIN pc
    /\ DOMAIN pc = DOMAIN s.program.tasks
    /\ \A t \in DOMAIN pc : pc[t] \in DOMAIN s.program.tasks[t].program

Depth(s, t, n, o) == s.depth[t][n][o]

\* If m, the mutex o, is held by t, which is at n, it has been taken no more often than s says.
TakenWithin(s, t, n, o, m) == m.holder = t => m.depth <= Depth(s, t, n, o)

HoldsNone(s, t, n) ==
    t \in DOMAIN s.depth /\ \A o \in DOMAIN s.program.obj : Depth(s, t, n, o) = 0

Suspended(K, t) == K.task[t].run = "suspended"

MutexClaim(s) ==
    /\ \A t \in DOMAIN s.depth : \A o \in DOMAIN kernel.obj :
          TakenWithin(s, t, pc[t], o, kernel.obj[o])
    /\ \A t \in DOMAIN pc : Suspended(kernel, t) => HoldsNone(s, t, pc[t])

SleeperInv(s) == MutexState(s) /\ (~error => MutexClaim(s))

LEMMA SleeperInit ==
    ASSUME NEW s, SleeperOutline(s), InitOf(s.program)
    PROVE  SleeperInv(s)
<1> DEFINE d == s.program
<1>1. /\ kernel.obj = d.obj /\ "obj" \in DOMAIN kernel /\ "task" \in DOMAIN kernel
      /\ kernel.task = [t \in DOMAIN d.tasks |->
                           IF d.tasks[t].priority < 0 THEN Gone
                           ELSE NewTask(d.tasks[t].priority, d.tasks[t].notes)]
      /\ pc = [t \in DOMAIN d.tasks |-> 1]
  BY DEF InitOf
<1>2. MutexOf(s, Mutex) /\ Mutex.holder = Nobody
  BY DEF Mutex, MutexOf, MutexesOf, Sound, Holders
<1>3. \A t \in DOMAIN d.tasks : "run" \in DOMAIN kernel.task[t] /\ ~Suspended(kernel, t)
  BY <1>1 DEF Gone, NewTask, Suspended, Absent
<1>4. Nobody \notin DOMAIN s.depth
  BY DEF SleeperOutline
<1>5. MutexState(s)
  BY <1>1, <1>2, <1>3 DEF MutexState, Kernel, SleeperOutline
<1>6. MutexClaim(s)
  <2>1. ASSUME NEW t \in DOMAIN s.depth, NEW o \in DOMAIN kernel.obj
        PROVE  TakenWithin(s, t, pc[t], o, kernel.obj[o])
    <3>1. kernel.obj[o] = Mutex
      BY <1>1 DEF SleeperOutline
    <3> QED
      BY <1>2, <1>4, <3>1 DEF TakenWithin
  <2>2. \A t \in DOMAIN pc : ~Suspended(kernel, t)
    BY <1>1, <1>3
  <2> QED
    BY <2>1, <2>2 DEF MutexClaim
<1> QED
  BY <1>5, <1>6 DEF SleeperInv

\* Task t goes to n: nobody else takes a mutex or falls asleep.
LEMMA SleeperMoves ==
    ASSUME NEW s, SleeperOutline(s), SleeperInv(s),
           NEW t \in DOMAIN pc, NEW n \in DOMAIN s.program.tasks[t].program,
           DOMAIN pc' = DOMAIN pc, pc'[t] = n, \A u \in DOMAIN pc \ {t} : pc'[u] = pc[u],
           error => error',
           Kernel(kernel'), DOMAIN kernel'.task = DOMAIN kernel.task,
           DOMAIN kernel'.obj = DOMAIN kernel.obj,
           \A o \in DOMAIN kernel.obj :
              /\ MutexOf(s, kernel'.obj[o])
              /\ kernel'.obj[o] = kernel.obj[o] \/ kernel'.obj[o].holder \in {t, Nobody},
           \A u \in DOMAIN kernel.task \ {t} : Suspended(kernel', u) => Suspended(kernel, u),
           ~error' => \A o \in DOMAIN kernel.obj :
              t \in DOMAIN s.depth => TakenWithin(s, t, n, o, kernel'.obj[o]),
           ~error' => (Suspended(kernel', t) => HoldsNone(s, t, n))
    PROVE  SleeperInv(s)'
<1>1. MutexState(s) /\ (~error => MutexClaim(s))
  BY DEF SleeperInv
<1>2. MutexState(s)'
  BY <1>1 DEF MutexState
<1>3. ASSUME ~error' PROVE MutexClaim(s)'
  <2>1. ASSUME NEW u \in DOMAIN s.depth, NEW o \in DOMAIN kernel.obj
        PROVE  TakenWithin(s, u, pc'[u], o, kernel'.obj[o])
    <3>1. u \in DOMAIN pc /\ u # Nobody
      BY <1>1 DEF MutexState, SleeperOutline
    <3>2. CASE u = t
      BY <1>3, <3>2
    <3>3. CASE u # t
      BY <1>1, <1>3, <3>1, <3>3 DEF MutexClaim, TakenWithin
    <3> QED
      BY <3>2, <3>3
  <2>2. ASSUME NEW u \in DOMAIN pc, Suspended(kernel', u)
        PROVE  HoldsNone(s, u, pc'[u])
    <3>1. CASE u = t
      BY <1>3, <2>2, <3>1
    <3>2. CASE u # t
      BY <1>1, <1>3, <2>2, <3>2 DEF MutexClaim, MutexState
    <3> QED
      BY <3>1, <3>2
  <2> QED
    BY <2>1, <2>2 DEF MutexClaim, Suspended
<1> QED
  BY <1>2, <1>3 DEF SleeperInv

LEMMA SleeperIdle ==
    ASSUME NEW s, SleeperInv(s), SameObjects(kernel, kernel'), Rouses(kernel, kernel'),
           UNCHANGED <<pc, error>>
    PROVE  SleeperInv(s)'
<1>1. MutexState(s) => MutexState(s)'
  BY DEF MutexState, SameObjects, Rouses
<1>2. MutexState(s) /\ MutexClaim(s) => MutexClaim(s)'
  BY DEF MutexState, MutexClaim, SameObjects, Rouses, Suspended
<1> QED
  BY <1>1, <1>2 DEF SleeperInv

LEMMA DoneError ==
    ASSUME NEW d, NEW t, NEW c, NEW r, Done(d, t, c, r)
    PROVE  (error => error') /\ (~error' => Accepts(c, r))
  BY DEF Done, DoneAt, Accepts

\* At the place to, t may have taken o so many times more than at n.
Gains(s, t, n, to, o, i) ==
    /\ Depth(s, t, n, o) \in Nat /\ Depth(s, t, to, o) \in Nat
    /\ Depth(s, t, to, o) >= Depth(s, t, n, o) + i

LEMMA OutlineGains ==
    ASSUME NEW s, SleeperOutline(s), NEW t \in DOMAIN s.depth,
           NEW n \in DOMAIN s.program.tasks[t].program, NEW o \in DOMAIN s.program.obj, NEW r
    PROVE  LET c  == s.program.tasks[t].program[n]
               to == Place(s.program.tasks[t], n + Ahead(c, r))
           IN  /\ c.op \in Takes /\ Accepts(c, r) /\ r = Pass =>
                     Gains(s, t, n, to, o, IF o = c.o THEN 1 ELSE 0)
               /\ c.op \in Takes /\ Accepts(c, r) /\ r = Fail => Gains(s, t, n, to, o, 0)
               /\ c.op \in Gives => Gains(s, t, n, to, o, IF o = c.o THEN -1 ELSE 0)
               /\ c.op \notin Takes \cup Gives /\ Accepts(c, r) => Gains(s, t, n, to, o, 0)
               /\ c.op = "Suspend" => Depth(s, t, to, o) = 0
<1> DEFINE task == s.program.tasks[t]
           c    == task.program[n]
           to   == Place(task, n + Ahead(c, r))
<1>1. t \in DOMAIN s.program.tasks /\ SleeperFits(s, t, n)
  BY DEF SleeperOutline
<1>2. Ahead(c, r) \in Branches(c) /\ (Accepts(c, r) => Ahead(c, r) \in Expected(c))
  BY DEF Ahead, Branches, Accepts, Expected
<1>3. to \in DOMAIN task.program
  BY <1>1, <1>2 DEF SleeperFits
<1>4. Depth(s, t, n, o) \in Nat /\ Depth(s, t, to, o) \in Nat
  BY <1>1, <1>3 DEF SleeperOutline, Depth
<1>5. c.op \in Takes /\ Accepts(c, r) /\ r = Pass =>
         Gains(s, t, n, to, o, IF o = c.o THEN 1 ELSE 0)
  BY <1>1, <1>4 DEF SleeperFits, Gains, Depth
<1>6. c.op \in Takes /\ Accepts(c, r) /\ r = Fail => Gains(s, t, n, to, o, 0)
  BY <1>1, <1>4 DEF SleeperFits, Gains, Depth
<1>7. c.op \in Gives => Gains(s, t, n, to, o, IF o = c.o THEN -1 ELSE 0)
  BY <1>1, <1>2, <1>4 DEF SleeperFits, Gains, Depth
<1>8. c.op \notin Takes \cup Gives /\ Accepts(c, r) => Gains(s, t, n, to, o, 0)
  BY <1>1, <1>2, <1>4 DEF SleeperFits, Gains, Depth
<1>9. c.op = "Suspend" => Depth(s, t, to, o) = 0
  BY <1>1, <1>2 DEF SleeperFits, Depth
<1> QED
  BY <1>5, <1>6, <1>7, <1>8, <1>9

LEMMA MutexKept ==
    ASSUME NEW s, NEW m, MutexOf(s, m), NEW t, NEW n, NEW to, NEW o,
           TakenWithin(s, t, n, o, m), Gains(s, t, n, to, o, 0)
    PROVE  TakenWithin(s, t, to, o, m)
<1>1. m.depth \in Nat
  BY MutexFields DEF MutexOf
<1> QED
  BY <1>1 DEF TakenWithin, Gains

LEMMA MutexTaken ==
    ASSUME NEW s, NEW m, MutexOf(s, m), NEW t \in DOMAIN s.program.tasks, m.free \/ m.holder = t
    PROVE  /\ Taken(m, t).holder = t /\ MutexOf(s, Taken(m, t))
           /\ \A n, to, o : TakenWithin(s, t, n, o, m) /\ Gains(s, t, n, to, o, 1)
                 => TakenWithin(s, t, to, o, Taken(m, t))
<1> DEFINE more  == m.depth + 1
           taken == Taken(m, t)
<1>1. m \in MutexesOf(s) /\ m.depth \in Nat /\ (m.holder # t => m.depth = 0)
  BY MutexFields DEF MutexOf, Sound
<1>2. more \in Nat /\ more > 0 /\ t \in Holders(s)
  BY <1>1 DEF Holders
<1>3. taken = Held(m, t, more)
  BY DEF Taken, Held
<1> HIDE DEF more, taken
<1>4. MutexOf(s, taken) /\ taken.holder = t /\ taken.depth = more
  BY <1>1, <1>2, <1>3, HeldMutex DEF MutexOf
<1>5. ASSUME NEW n, NEW to, NEW o, TakenWithin(s, t, n, o, m), Gains(s, t, n, to, o, 1)
      PROVE  TakenWithin(s, t, to, o, taken)
  BY <1>1, <1>4, <1>5 DEF TakenWithin, Gains, more
<1> QED
  BY <1>4, <1>5 DEF taken

LEMMA MutexGiven ==
    ASSUME NEW s, NEW m, MutexOf(s, m), NEW t, m.holder = t, t # Nobody,
           NEW given, given = IF m.depth > 1 THEN [m EXCEPT !.depth = @ - 1] ELSE Released(m)
    PROVE  /\ MutexOf(s, given) /\ given.holder \in {t, Nobody}
           /\ \A n, to, o : TakenWithin(s, t, n, o, m) /\ Gains(s, t, n, to, o, -1)
                 => TakenWithin(s, t, to, o, given)
<1>1. m \in MutexesOf(s) /\ m.depth \in Nat /\ Sound(m)
  BY MutexFields DEF MutexOf
<1>2. CASE m.depth > 1
  <2> DEFINE less == m.depth - 1
  <2>1. less \in Nat /\ less > 0 /\ m.depth # 0
    BY <1>1, <1>2
  <2>2. given = Deep(m, less)
    BY <1>2 DEF Deep
  <2> HIDE DEF less
  <2>3. MutexOf(s, given) /\ given.holder = t /\ given.depth = less
    <3>1. /\ Deep(m, less) \in MutexesOf(s) /\ Deep(m, less).holder = m.holder
          /\ Deep(m, less).depth = less /\ Sound(Deep(m, less))
      BY ONLY <1>1, <2>1, DeepMutex
    <3> QED
      BY <2>2, <3>1 DEF MutexOf
  <2>4. ASSUME NEW n, NEW to, NEW o, TakenWithin(s, t, n, o, m), Gains(s, t, n, to, o, -1)
        PROVE  TakenWithin(s, t, to, o, given)
    BY <1>1, <2>3, <2>4 DEF TakenWithin, Gains, less
  <2> QED
    BY <2>3, <2>4
<1>3. CASE ~(m.depth > 1)
  <2>1. given = Released(m)
    BY <1>3
  <2>2. MutexOf(s, given) /\ given.holder = Nobody
    BY <1>1, <2>1, ReleasedMutex DEF MutexOf
  <2> QED
    BY <2>2 DEF TakenWithin
<1> QED
  BY <1>2, <1>3

\* Where there are no timers, time changes no object.
LEMMA ElapseObjects ==
    ASSUME NEW d, Elapse(d), "obj" \in DOMAIN kernel, Timers(kernel) = {}
    PROVE  SameObjects(kernel, kernel') /\ UNCHANGED <<pc, error>>
<1>1. PICK ticks, K : /\ K \in {Reap(TasksAfter(kernel, ticks)), TasksAfter(kernel, ticks)}
                      /\ kernel' = TimersAfter(K, ticks)
  BY DEF Elapse, IdleTurn
<1>2. SameObjects(kernel, TasksAfter(kernel, ticks))
  BY TasksAfterObjects
<1>3. SameObjects(kernel, K)
  BY <1>1, <1>2, ReapObjects DEF SameObjects
<1>4. TimersAfter(K, ticks) = K
  BY <1>3 DEF TimersAfter, Active, Timers, SameObjects
<1> QED
  BY <1>1, <1>3, <1>4 DEF Elapse

\* A step of a task keeps what the outline says.
LEMMA SleeperStep ==
    ASSUME NEW s, SleeperOutline(s), SleeperInv(s), NEW t \in DOMAIN pc,
           Dispatchable(kernel, t), \E c \in {CallOf(s.program, t)} : StepOf(s.program, t, c)
    PROVE  SleeperInv(s)'
<1> DEFINE d     == s.program
           n     == pc[t]
           task  == d.tasks[t]
           c     == task.program[n]
           To(k) == Place(task, n + k)
<1>1. /\ SleeperFits(s, t, n) /\ MutexState(s) /\ n \in DOMAIN task.program
      /\ t \in DOMAIN d.tasks
  BY DEF SleeperOutline, SleeperInv, MutexState
<1>2. CallOf(d, t) = c
  BY <1>1 DEF SleeperFits, CallOf
<1>3. StepOf(d, t, c)
  BY <1>2
<1>4. Kernel(kernel) /\ t \in DOMAIN kernel.task /\ ~Suspended(kernel, t)
  BY <1>1 DEF MutexState, Dispatchable, Eligible, ReadyTasks, Suspended
<1>5. ASSUME SameObjects(kernel, kernel'), Rouses(kernel, kernel'), UNCHANGED <<pc, mem, error>>
      PROVE  SleeperInv(s)'
  BY <1>5, SleeperIdle
<1>6. \A r : To(Ahead(c, r)) \in DOMAIN task.program
  BY <1>1 DEF SleeperFits, Branches, Ahead
<1>7. ASSUME NEW r, Done(d, t, c, r), Rouses(kernel, kernel'),
             DOMAIN kernel'.obj = DOMAIN kernel.obj,
             \A o \in DOMAIN kernel.obj :
                /\ MutexOf(s, kernel'.obj[o])
                /\ kernel'.obj[o] = kernel.obj[o] \/ kernel'.obj[o].holder \in {t, Nobody},
             MutexClaim(s) /\ Accepts(c, r) /\ t \in DOMAIN s.depth =>
                \A o \in DOMAIN kernel.obj : TakenWithin(s, t, To(Ahead(c, r)), o, kernel'.obj[o])
      PROVE  SleeperInv(s)'
  <2>1. /\ DOMAIN pc' = DOMAIN pc /\ pc'[t] = To(Ahead(c, r))
        /\ \A u \in DOMAIN pc \ {t} : pc'[u] = pc[u]
    BY <1>7, DonePlace
  <2>2. (error => error') /\ (~error' => Accepts(c, r) /\ MutexClaim(s))
    BY <1>7, DoneError DEF SleeperInv
  <2>3. /\ Kernel(kernel') /\ DOMAIN kernel'.task = DOMAIN kernel.task
        /\ \A u \in DOMAIN kernel.task : Suspended(kernel', u) => Suspended(kernel, u)
    BY <1>7 DEF Rouses, Suspended
  <2> QED
    BY <1>4, <1>6, <1>7, <2>1, <2>2, <2>3, SleeperMoves
<1>8. \A o \in DOMAIN kernel.obj : o \in DOMAIN d.obj /\ MutexOf(s, kernel.obj[o])
  BY <1>1 DEF MutexState
<1>9. ASSUME MutexClaim(s), t \in DOMAIN s.depth, NEW o \in DOMAIN kernel.obj
      PROVE  TakenWithin(s, t, n, o, kernel.obj[o])
  BY <1>9 DEF MutexClaim
<1>10. ASSUME NEW r, Done(d, t, c, r), Rouses(kernel, kernel'), SameObjects(kernel, kernel'),
              t \in DOMAIN s.depth /\ Accepts(c, r) => \A o \in DOMAIN kernel.obj :
                 kernel.obj[o].holder = t => Gains(s, t, n, To(Ahead(c, r)), o, 0)
       PROVE  SleeperInv(s)'
  <2>1. /\ DOMAIN kernel'.obj = DOMAIN kernel.obj
        /\ \A o \in DOMAIN kernel.obj : kernel'.obj[o] = kernel.obj[o]
    BY <1>10 DEF SameObjects
  <2>2. \A o \in DOMAIN kernel.obj :
           /\ MutexOf(s, kernel'.obj[o])
           /\ kernel'.obj[o] = kernel.obj[o] \/ kernel'.obj[o].holder \in {t, Nobody}
    BY <1>8, <2>1
  <2>3. ASSUME MutexClaim(s), Accepts(c, r), t \in DOMAIN s.depth, NEW o \in DOMAIN kernel.obj
        PROVE  TakenWithin(s, t, To(Ahead(c, r)), o, kernel'.obj[o])
    <3>1. CASE kernel.obj[o].holder # t
      BY <2>1, <2>3, <3>1 DEF TakenWithin
    <3>2. CASE kernel.obj[o].holder = t
      BY <1>8, <1>9, <1>10, <2>1, <2>3, <3>2, MutexKept
    <3> QED
      BY <3>1, <3>2
  <2>4. MutexClaim(s) /\ Accepts(c, r) /\ t \in DOMAIN s.depth =>
           \A o \in DOMAIN kernel.obj : TakenWithin(s, t, To(Ahead(c, r)), o, kernel'.obj[o])
    BY <2>3
  <2>5. Done(d, t, c, r) /\ Rouses(kernel, kernel')
    BY <1>10
  <2> QED
    BY ONLY <1>7, <2>1, <2>2, <2>4, <2>5
<1>11. CASE c.op \in PlainCalls \cup TaskCalls
  <2>1. /\ SameObjects(kernel, kernel') /\ Rouses(kernel, kernel')
        /\ (UNCHANGED <<pc, mem, error>>) \/ \E r : Done(d, t, c, r)
    BY <1>3, <1>4, <1>11, TaskStep
  <2>2. c.op \notin Takes \cup Gives
    BY <1>11 DEF PlainCalls, TaskCalls, Takes, Gives
  <2>3. ASSUME NEW r, Done(d, t, c, r)
        PROVE  SleeperInv(s)'
    <3>1. t \in DOMAIN s.depth /\ Accepts(c, r) => \A o \in DOMAIN kernel.obj :
             kernel.obj[o].holder = t => Gains(s, t, n, To(Ahead(c, r)), o, 0)
      BY <1>1, <1>8, <2>2, OutlineGains
    <3> QED
      BY ONLY <1>10, <2>1, <2>3, <3>1
  <2> QED
    BY <1>5, <2>1, <2>3
<1>12. CASE c.op = "Suspend"
  <2>1. c.o = Self /\ t \in DOMAIN s.depth
    BY <1>1, <1>12 DEF SleeperFits
  <2>2. /\ SameObjects(kernel, kernel') /\ Kernel(kernel')
        /\ DOMAIN kernel'.task = DOMAIN kernel.task
        /\ \A u \in DOMAIN kernel.task \ {t} : Suspended(kernel', u) => Suspended(kernel, u)
        /\ Done(d, t, c, Pass)
    BY <1>3, <1>4, <1>12, <2>1, SuspendStep DEF Suspended
  <2>3. c.op \notin Takes \cup Gives
    BY <1>12 DEF Takes, Gives
  <2>4. \A o \in DOMAIN d.obj : Depth(s, t, To(Ahead(c, Pass)), o) = 0
    BY <1>1, <1>12, <2>1, OutlineGains
  <2>5. HoldsNone(s, t, To(Ahead(c, Pass)))
    BY <2>1, <2>4 DEF HoldsNone
  <2>6. /\ DOMAIN pc' = DOMAIN pc /\ pc'[t] = To(Ahead(c, Pass))
        /\ \A u \in DOMAIN pc \ {t} : pc'[u] = pc[u]
    BY <2>2, DonePlace
  <2>7. (error => error') /\ (~error' => Accepts(c, Pass) /\ MutexClaim(s))
    BY <2>2, DoneError DEF SleeperInv
  <2>8. /\ DOMAIN kernel'.obj = DOMAIN kernel.obj
        /\ \A o \in DOMAIN kernel.obj : kernel'.obj[o] = kernel.obj[o]
    BY <2>2 DEF SameObjects
  <2>9. ASSUME ~error', NEW o \in DOMAIN kernel.obj
        PROVE  TakenWithin(s, t, To(Ahead(c, Pass)), o, kernel'.obj[o])
    <3>1. Gains(s, t, n, To(Ahead(c, Pass)), o, 0)
      BY <1>1, <1>8, <2>1, <2>3, <2>7, <2>9, OutlineGains
    <3> QED
      BY <1>8, <1>9, <2>1, <2>7, <2>8, <2>9, <3>1, MutexKept
  <2>10. /\ \A o \in DOMAIN kernel.obj :
               /\ MutexOf(s, kernel'.obj[o])
               /\ kernel'.obj[o] = kernel.obj[o] \/ kernel'.obj[o].holder \in {t, Nobody}
         /\ ~error' => \A o \in DOMAIN kernel.obj :
               t \in DOMAIN s.depth => TakenWithin(s, t, To(Ahead(c, Pass)), o, kernel'.obj[o])
    BY <1>8, <2>8, <2>9
  <2>11. To(Ahead(c, Pass)) \in DOMAIN s.program.tasks[t].program
    BY <1>6
  <2> HIDE DEF To, c
  <2> QED
    BY <2>2, <2>5, <2>6, <2>7, <2>8, <2>10, <2>11, SleeperMoves
<1>13. CASE c.op \in Takes
  <2> DEFINE m == kernel.obj[c.o]
  <2>1. c.o \in DOMAIN kernel.obj /\ MutexOf(s, m) /\ "obj" \in DOMAIN kernel
    BY <1>1, <1>8, <1>13 DEF SleeperFits, MutexState, Kernel
  <2>2. ASSUME m.free \/ m.holder = t, NewObject(kernel, kernel', c.o, Taken(m, t)),
               Done(d, t, c, Pass), Rouses(kernel, kernel')
        PROVE  SleeperInv(s)'
    <3>1. /\ DOMAIN kernel'.obj = DOMAIN kernel.obj /\ kernel'.obj[c.o] = Taken(m, t)
          /\ \A o \in DOMAIN kernel.obj \ {c.o} : kernel'.obj[o] = kernel.obj[o]
      BY <2>1, <2>2 DEF NewObject
    <3>2. /\ Taken(m, t).holder = t /\ MutexOf(s, Taken(m, t))
          /\ \A to, o : TakenWithin(s, t, n, o, m) /\ Gains(s, t, n, to, o, 1)
                => TakenWithin(s, t, to, o, Taken(m, t))
      <4> HIDE DEF m, n
      <4> QED
        BY <1>1, <2>1, <2>2, MutexTaken
    <3>3. \A o \in DOMAIN kernel.obj :
             /\ MutexOf(s, kernel'.obj[o])
             /\ kernel'.obj[o] = kernel.obj[o] \/ kernel'.obj[o].holder \in {t, Nobody}
      BY <1>8, <3>1, <3>2
    <3>4. ASSUME MutexClaim(s), Accepts(c, Pass), t \in DOMAIN s.depth, NEW o \in DOMAIN kernel.obj
          PROVE  TakenWithin(s, t, To(Ahead(c, Pass)), o, kernel'.obj[o])
      <4>1. Gains(s, t, n, To(Ahead(c, Pass)), o, IF o = c.o THEN 1 ELSE 0)
        BY <1>1, <1>8, <1>13, <3>4, OutlineGains
      <4>2. CASE o = c.o
        BY <1>9, <3>1, <3>2, <3>4, <4>1, <4>2
      <4>3. CASE o # c.o
        BY <1>8, <1>9, <3>1, <3>4, <4>1, <4>3, MutexKept
      <4> QED
        BY <4>2, <4>3
    <3>5. MutexClaim(s) /\ Accepts(c, Pass) /\ t \in DOMAIN s.depth =>
             \A o \in DOMAIN kernel.obj : TakenWithin(s, t, To(Ahead(c, Pass)), o, kernel'.obj[o])
      BY <3>4
    <3> QED
      BY ONLY <1>7, <2>2, <3>1, <3>3, <3>5
  <2>3. ASSUME Done(d, t, c, Fail), SameObjects(kernel, kernel'), Rouses(kernel, kernel')
        PROVE  SleeperInv(s)'
    <3>1. t \in DOMAIN s.depth /\ Accepts(c, Fail) => \A o \in DOMAIN kernel.obj :
             kernel.obj[o].holder = t => Gains(s, t, n, To(Ahead(c, Fail)), o, 0)
      BY <1>1, <1>8, <1>13, OutlineGains
    <3> QED
      BY ONLY <1>10, <2>3, <3>1
  <2>4. /\ Rouses(kernel, kernel')
        /\ \/ /\ m.free \/ m.holder = t
              /\ NewObject(kernel, kernel', c.o, Taken(m, t)) /\ Done(d, t, c, Pass)
           \/ SameObjects(kernel, kernel') /\ Done(d, t, c, Fail)
           \/ SameObjects(kernel, kernel') /\ UNCHANGED <<pc, mem, error>>
    <3> HIDE DEF c
    <3> QED
      BY <1>3, <1>4, <1>13, <2>1, TakeStep
  <2> QED
    BY <1>5, <2>2, <2>3, <2>4
<1>14. CASE c.op \in Gives
  <2> DEFINE m     == kernel.obj[c.o]
             given == IF m.depth > 1 THEN [m EXCEPT !.depth = @ - 1] ELSE Released(m)
  <2>1. /\ c.o \in DOMAIN kernel.obj /\ MutexOf(s, m) /\ "obj" \in DOMAIN kernel
        /\ t # Nobody
    BY <1>1, <1>8, <1>14 DEF SleeperFits, MutexState, Kernel, SleeperOutline
  <2>2. \A r : \A o \in DOMAIN kernel.obj : t \in DOMAIN s.depth =>
           Gains(s, t, n, To(Ahead(c, r)), o, IF o = c.o THEN -1 ELSE 0)
    BY <1>1, <1>8, <1>14, OutlineGains
  <2>3. ASSUME m.holder = t, NewObject(kernel, kernel', c.o, given),
               Done(d, t, c, Pass), Rouses(kernel, kernel')
        PROVE  SleeperInv(s)'
    <3>1. /\ DOMAIN kernel'.obj = DOMAIN kernel.obj /\ kernel'.obj[c.o] = given
          /\ \A o \in DOMAIN kernel.obj \ {c.o} : kernel'.obj[o] = kernel.obj[o]
      <4> HIDE DEF given
      <4> QED
        BY <2>1, <2>3 DEF NewObject
    <3>2. /\ MutexOf(s, given) /\ given.holder \in {t, Nobody}
          /\ \A to, o : TakenWithin(s, t, n, o, m) /\ Gains(s, t, n, to, o, -1)
                => TakenWithin(s, t, to, o, given)
      <4>1. given = IF m.depth > 1 THEN [m EXCEPT !.depth = @ - 1] ELSE Released(m)
        OBVIOUS
      <4> HIDE DEF given, m, n
      <4> QED
        BY <2>1, <2>3, <4>1, MutexGiven
    <3> HIDE DEF given
    <3>3. \A o \in DOMAIN kernel.obj :
             /\ MutexOf(s, kernel'.obj[o])
             /\ kernel'.obj[o] = kernel.obj[o] \/ kernel'.obj[o].holder \in {t, Nobody}
      BY <1>8, <3>1, <3>2
    <3>4. ASSUME MutexClaim(s), t \in DOMAIN s.depth, NEW o \in DOMAIN kernel.obj
          PROVE  TakenWithin(s, t, To(Ahead(c, Pass)), o, kernel'.obj[o])
      <4>1. CASE o = c.o
        BY <1>9, <2>2, <3>1, <3>2, <3>4, <4>1
      <4>2. CASE o # c.o
        BY <1>8, <1>9, <2>2, <3>1, <3>4, <4>2, MutexKept
      <4> QED
        BY <4>1, <4>2
    <3>5. MutexClaim(s) /\ Accepts(c, Pass) /\ t \in DOMAIN s.depth =>
             \A o \in DOMAIN kernel.obj : TakenWithin(s, t, To(Ahead(c, Pass)), o, kernel'.obj[o])
      BY <3>4
    <3> QED
      BY ONLY <1>7, <2>3, <3>1, <3>3, <3>5
  <2>4. ASSUME m.holder # t, Done(d, t, c, Fail), SameObjects(kernel, kernel'),
               Rouses(kernel, kernel')
        PROVE  SleeperInv(s)'
    <3>1. ASSUME t \in DOMAIN s.depth, NEW o \in DOMAIN kernel.obj, kernel.obj[o].holder = t
          PROVE  Gains(s, t, n, To(Ahead(c, Fail)), o, 0)
      <4>1. o # c.o
        BY <2>4, <3>1
      <4> QED
        BY <2>2, <3>1, <4>1
    <3>2. t \in DOMAIN s.depth /\ Accepts(c, Fail) => \A o \in DOMAIN kernel.obj :
             kernel.obj[o].holder = t => Gains(s, t, n, To(Ahead(c, Fail)), o, 0)
      BY <3>1
    <3> QED
      BY ONLY <1>10, <2>4, <3>2
  <2>5. m.set = "" /\ m.depth \in Nat
    BY <2>1, MutexFields DEF MutexOf
  <2>6. /\ Rouses(kernel, kernel')
        /\ \/ m.holder = t /\ Done(d, t, c, Pass) /\ NewObject(kernel, kernel', c.o, given)
           \/ SameObjects(kernel, kernel') /\ m.holder # t /\ Done(d, t, c, Fail)
           \/ SameObjects(kernel, kernel') /\ UNCHANGED <<pc, mem, error>>
    <3> HIDE DEF c
    <3> QED
      BY <1>3, <1>4, <1>14, <2>1, <2>5, GiveStep
  <2> QED
    BY <1>5, <2>3, <2>4, <2>6
<1> QED
  BY <1>1, <1>11, <1>12, <1>13, <1>14 DEF SleeperFits

SleepersInv == \A s \in Sleepers : D = s.program => SleeperInv(s)

LEMMA SleepersInductive ==
    ASSUME SleepersFit
    PROVE  /\ Init => SleepersInv
           /\ SleepersInv /\ [Next]_vars => SleepersInv'
<1>1. Init => SleepersInv
  BY SleeperInit DEF Init, SleepersInv, SleepersFit
<1>2. ASSUME SleepersInv, [Next]_vars
      PROVE  SleepersInv'
  <2> SUFFICES ASSUME NEW s \in Sleepers, D' = s.program
               PROVE  SleeperInv(s)'
    BY DEF SleepersInv
  <2>1. demo' = demo
    BY <1>2 DEF Next, vars, Elapse, Step, StepOf
  <2>2. D = s.program
    BY <2>1 DEF D
  <2>3. SleeperInv(s) /\ SleeperOutline(s)
    BY <1>2, <2>2 DEF SleepersInv, SleepersFit
  <2>4. ASSUME NEW t \in Tasks, Step(D, t)
        PROVE  SleeperInv(s)'
    BY <2>2, <2>3, <2>4, SleeperStep DEF Step, Tasks
  <2>5. CASE Elapse(D)
    <3>1. Kernel(kernel) /\ "obj" \in DOMAIN kernel /\ Timers(kernel) = {}
      <4>1. \A o \in DOMAIN kernel.obj : kernel.obj[o].kind = "mutex"
        BY <2>3, MutexFields DEF SleeperInv, MutexState, MutexOf
      <4> QED
        BY <2>3, <4>1 DEF SleeperInv, MutexState, Kernel, Timers
    <3>2. SameObjects(kernel, kernel') /\ UNCHANGED <<pc, error>>
      BY <2>5, <3>1, ElapseObjects
    <3>3. Rouses(kernel, kernel')
      BY <2>5, <3>1, ElapseRouses
    <3> QED
      BY <2>3, <3>2, <3>3, SleeperIdle
  <2>6. CASE UNCHANGED vars
    <3>1. UNCHANGED <<pc, kernel, error>> /\ Kernel(kernel)
      BY <2>3, <2>6 DEF vars, SleeperInv, MutexState
    <3>2. SameObjects(kernel, kernel') /\ Rouses(kernel, kernel')
      BY <3>1, SameRouses DEF SameObjects, Kernel
    <3> QED
      BY <2>3, <3>1, <3>2, SleeperIdle
  <2> QED
    BY <1>2, <2>4, <2>5, <2>6 DEF Next
<1> QED
  BY <1>1, <1>2

\* recmutex.c, GenQTest.c: until such a program finds an error, a task that has suspended
\* itself holds no mutex, however often it had taken one, for any number of tasks and mutexes,
\* any priorities and any way in which takes are refused or time out.  A program that has
\* found an error may go on with a mutex that it could not give back.
THEOREM SleepersHoldNothing ==
    ASSUME SleepersFit
    PROVE  Spec => [](NoErrorDetected /\ (\E s \in Sleepers : D = s.program)
                      => SuspendedHoldNothing)
<1>1. ASSUME SleepersInv, NoErrorDetected, NEW s \in Sleepers, D = s.program
      PROVE  SuspendedHoldNothing
  <2>1. SleeperOutline(s) /\ MutexState(s) /\ MutexClaim(s)
    BY <1>1 DEF SleepersFit, SleepersInv, SleeperInv, NoErrorDetected
  <2>2. ASSUME NEW o \in DOMAIN kernel.obj, kernel.obj[o].holder # Nobody,
               Suspended(kernel, kernel.obj[o].holder)
        PROVE  FALSE
    <3> DEFINE m == kernel.obj[o]
               t == m.holder
    <3>1. MutexOf(s, m) /\ o \in DOMAIN s.program.obj
      BY <2>1 DEF MutexState
    <3>2. t \in DOMAIN pc /\ m.depth > 0 /\ m.depth \in Nat
      BY <2>1, <2>2, <3>1, MutexFields DEF MutexState, MutexOf, Sound, Holders
    <3>3. t \in DOMAIN s.depth /\ Depth(s, t, pc[t], o) = 0
      BY <2>1, <2>2, <3>1, <3>2 DEF MutexClaim, HoldsNone
    <3>4. m.depth <= Depth(s, t, pc[t], o)
      BY <2>1, <3>3 DEF MutexClaim, TakenWithin
    <3> QED
      BY <3>2, <3>3, <3>4
  <2> QED
    BY <2>2 DEF SuspendedHoldNothing, Suspended
<1>2. SleepersInv => (NoErrorDetected /\ (\E s \in Sleepers : D = s.program)
                      => SuspendedHoldNothing)
  BY <1>1
<1> QED
  BY <1>2, SleepersInductive, PTL DEF Spec
=============================================================================
