---------------------------- MODULE RtosKernel ----------------------------
(***************************************************************************)
(* The FreeRTOS kernel as the demonstration programs see it: tasks and     *)
(* time; queues, semaphores, mutexes and queue sets; notifications, event  *)
(* groups and timers; stream and message buffers.  The kernel is not in the*)
(* repository; these operators say what its calls do for the programs of   *)
(* demo-common, as inc/FreeRTOSConfig.h configures it.                     *)
(*                                                                         *)
(* The state K of the kernel is a record:                                  *)
(*   task   for each task, by number, its run state, where it waits,       *)
(*          the ticks left of its block time, its base and present         *)
(*          priority, how many mutexes it holds and its notifications;     *)
(*   obj    the objects: queues, mutexes, event groups, buffers, timers;   *)
(*   line   the blocked tasks, in the order in which they blocked;         *)
(*   lock   who has suspended the scheduler, or 0, nest how often, and     *)
(*          mask whether by a critical section.                            *)
(*                                                                         *)
(* A call c is a record (module Program); of each call these operators say *)
(* when it can be done at once (Able), what it does then (After) and what  *)
(* it returns (Returned).                                                  *)
(***************************************************************************)
EXTENDS Integers, Sequences, SequencesExt, FiniteSetsExt

(* Tasks *)

Forever == 1000000      \* portMAX_DELAY
NoBlock == 0
Fresh == -1             \* no block time is running

Fail == -1              \* pdFAIL, errQUEUE_FULL, errQUEUE_EMPTY: any refusal
Pass == 1
Asserted == -2          \* an assertion of the kernel would stop the program

Nobody == 0            \* tasks have the numbers from 1 on
Nowhere == <<"", "">>

NewTask(priority, notes) ==
    [run |-> "ready", on |-> Nowhere, left |-> Fresh, base |-> priority,
     prio |-> priority, held |-> 0, note |-> notes, got |-> {}]

Absent == "absent"      \* the task does not exist
Gone == [NewTask(0, <<>>) EXCEPT !.run = Absent]

Interrupt == 100        \* the priority that stands for interrupt handlers

ReadyTasks(K) == {t \in DOMAIN K.task : K.task[t].run = "ready"}

\* Who has suspended the scheduler is only interrupted, and who is in a critical
\* section (mask) not even that.
Eligible(K) ==
    IF K.lock = Nobody THEN ReadyTasks(K)
    ELSE {t \in ReadyTasks(K) : t = K.lock \/ (K.task[t].prio = Interrupt /\ ~K.mask)}

\* The processor is given to a ready task of the highest priority; which one of
\* several, and for how long, is left open.
Dispatchable(K, t) ==
    /\ t \in Eligible(K)
    /\ \A u \in Eligible(K) : K.task[u].prio <= K.task[t].prio

Block(K, t, where, ticks) ==
    [K EXCEPT !.task[t] = [@ EXCEPT !.run = "blocked", !.on = where, !.left = ticks],
              !.line = Append(SelectSeq(@, LAMBDA u : u # t), t)]

Unblock(K, t) ==
    [K EXCEPT !.task[t] = [@ EXCEPT !.run = "ready", !.on = Nowhere],
              !.line = SelectSeq(@, LAMBDA u : u # t)]

WaitingAt(K, where) ==
    {t \in DOMAIN K.task : K.task[t].run = "blocked" /\ K.task[t].on = where}

\* An event wakes one waiting task: of the highest priority, the longest waiting.
Wake(K, where) ==
    LET waiting == WaitingAt(K, where)
        top     == {t \in waiting : \A u \in waiting : K.task[u].prio <= K.task[t].prio}
    IN  IF waiting = {} THEN K
        ELSE Unblock(K, SelectSeq(K.line, LAMBDA t : t \in top)[1])

\* The tasks whose block time is running; it is over for those that have no more than
\* these ticks left.
Timed(K) == {t \in DOMAIN K.task : K.task[t].run = "blocked" /\ K.task[t].left < Forever}

TasksAfter(K, ticks) ==
    LET over == {t \in Timed(K) : K.task[t].left <= ticks}
    IN  [K EXCEPT
          !.task = [t \in DOMAIN @ |->
              IF t \in over THEN [@[t] EXCEPT !.run = "ready", !.on = Nowhere, !.left = 0]
              ELSE IF t \in Timed(K) THEN [@[t] EXCEPT !.left = K.task[t].left - ticks]
              ELSE @[t]],
          !.line = SelectSeq(@, LAMBDA t : t \notin over)]

\* The idle task removes the tasks that have deleted themselves.
Reap(K) ==
    IF \A t \in DOMAIN K.task : K.task[t].run # "deleted" THEN K
    ELSE [K EXCEPT !.task = [t \in DOMAIN @ |-> IF @[t].run = "deleted" THEN Gone ELSE @[t]]]
-----------------------------------------------------------------------------
(* Queues, semaphores and queue sets.  A semaphore is a queue of items Pass. *)

Queue(length) == [kind |-> "queue", len |-> length, items |-> <<>>, set |-> ""]
Semaphore(max, count) == [Queue(max) EXCEPT !.items = [i \in 1 .. count |-> Pass]]
Mutex == [kind |-> "mutex", holder |-> Nobody, depth |-> 0, free |-> TRUE, set |-> ""]

Emptied(o) == <<o, "in">>      \* where senders wait
Filled(o)  == <<o, "out">>     \* where receivers wait

\* An item arrives in o: a queue set that o is in is told, else a receiver.
Arrive(K, o, items) ==
    LET K1 == [K EXCEPT !.obj[o].items = items]
        s  == K.obj[o].set
    IN  IF s = "" THEN Wake(K1, Filled(o))
        ELSE IF Len(items) = Len(K.obj[o].items) THEN K1
        ELSE Wake([K1 EXCEPT !.obj[s].items = Append(@, o)], Filled(s))

Leave(K, o, items) == Wake([K EXCEPT !.obj[o].items = items], Emptied(o))

Receives == {"Receive", "Peek", "Select"}
QueueCalls == Receives \cup {"SendToBack", "SendToFront", "Overwrite", "Messages",
                             "ResetQueue", "AddToSet", "RemoveFromSet"}

QueueAble(K, c) ==
    LET q == K.obj[c.o]
    IN  /\ c.op \in {"SendToBack", "SendToFront"} => Len(q.items) < q.len
        /\ c.op \in Receives => q.items # <<>>
        /\ c.op = "AddToSet" => q.set = "" /\ q.items = <<>>
        /\ c.op = "RemoveFromSet" => q.set = c.to /\ q.items = <<>>

QueueAfter(K, c, value) ==
    LET q == K.obj[c.o]
    IN  CASE c.op = "SendToBack"  -> Arrive(K, c.o, Append(q.items, value))
          [] c.op = "SendToFront" -> Arrive(K, c.o, <<value>> \o q.items)
          [] c.op = "Overwrite"   -> Arrive(K, c.o, <<value>>)
          [] c.op \in {"Receive", "Select"} -> Leave(K, c.o, Tail(q.items))
          [] c.op = "Peek"        -> Wake(K, Filled(c.o))
          [] c.op = "Messages"    -> K
          [] c.op = "ResetQueue"  -> Leave(K, c.o, <<>>)
          [] c.op = "AddToSet"      -> [K EXCEPT !.obj[c.o].set = c.to]
          [] c.op = "RemoveFromSet" -> [K EXCEPT !.obj[c.o].set = ""]

QueueReturned(K, c) ==
    CASE c.op \in Receives -> Head(K.obj[c.o].items)
      [] c.op = "Messages"            -> Len(K.obj[c.o].items)
      [] OTHER                        -> Pass

\* A queue set hands out members, which are named, and else NULL.
Refused(c) == IF c.op = "Select" \/ c.to = "handle" THEN "" ELSE Fail
-----------------------------------------------------------------------------
(* Mutexes, recursive or not, with priority inheritance *)

MutexCalls == {"TakeMutex", "GiveMutex", "TakeRecursive", "GiveRecursive", "Holder",
               "GiveMutexFromISR", "ResetMutex"}

MutexAble(K, t, c) ==
    LET m == K.obj[c.o]
    IN  /\ c.op = "TakeMutex"     => m.free
        /\ c.op = "TakeRecursive" => m.free \/ m.holder = t
        /\ c.op \in {"GiveMutex", "GiveRecursive"} => m.holder = t
        /\ c.op = "GiveMutexFromISR" => ~m.free

\* The priority that t has inherited is returned with the last mutex it holds.
Disinherit(K, t) ==
    [K EXCEPT !.task[t] = [@ EXCEPT
        !.held = K.task[t].held - 1,
        !.prio = IF K.task[t].held = 1 THEN K.task[t].base ELSE K.task[t].prio]]

Taken(m, t) == [m EXCEPT !.holder = t, !.depth = @ + 1, !.free = FALSE]
Released(m) == [m EXCEPT !.holder = Nobody, !.depth = 0, !.free = TRUE]

MutexAfter(K, t, c) ==
    LET m == K.obj[c.o]
    IN  CASE c.op \in {"TakeMutex", "TakeRecursive"} ->
               [K EXCEPT !.obj[c.o] = Taken(m, t),
                         !.task[t].held = IF m.holder = Nobody THEN @ + 1 ELSE @]
          [] c.op \in {"GiveMutex", "GiveRecursive"} ->
               LET K1 == Disinherit([K EXCEPT !.obj[c.o] = Released(m)], t)
               IN  IF m.depth > 1 THEN [K EXCEPT !.obj[c.o].depth = m.depth - 1]
                   ELSE IF m.set = "" THEN Wake(K1, Filled(c.o))
                   ELSE Wake([K1 EXCEPT !.obj[m.set].items = Append(@, c.o)], Filled(m.set))
          [] c.op = "GiveMutexFromISR" -> Wake([K EXCEPT !.obj[c.o].free = TRUE], Filled(c.o))
          [] c.op = "ResetMutex" -> [K EXCEPT !.obj[c.o].free = FALSE]
          [] c.op = "Holder" -> K

\* An interrupt must not give a mutex that a task holds.
MutexReturned(K, c) ==
    CASE c.op = "Holder" -> K.obj[c.o].holder
      [] c.op = "GiveMutexFromISR" /\ K.obj[c.o].holder # Nobody -> Asserted
      [] OTHER -> Pass

\* A task that blocks on a mutex lends its priority to the holder.
Inherit(K, t, o) ==
    LET h == K.obj[o].holder
    IN  IF h = Nobody THEN K
        ELSE IF K.task[h].prio < K.task[t].prio
        THEN [K EXCEPT !.task[h].prio = K.task[t].prio] ELSE K

\* Task t no longer waits for the mutex o: a holder of this mutex only falls
\* back to the highest priority of those that still wait.
DisinheritAfterTimeout(K, t, o) ==
    LET h      == K.obj[o].holder
        others == {K.task[u].prio : u \in WaitingAt(K, Filled(o)) \ {t}}
    IN  IF h # Nobody /\ K.task[h].held = 1
        THEN [K EXCEPT !.task[h].prio = Max({K.task[h].base} \cup others)] ELSE K
-----------------------------------------------------------------------------
(* Direct-to-task notifications: a task has an array of [received, value] *)

NoNote == [received |-> FALSE, value |-> 0]
Notes(n) == [ix \in 1 .. n |-> NoNote]
NoteWait(ix) == <<"note", ix>>

\* A value as the set of its bits, and the other way round.
BitsOf(value) == {i \in 0 .. 30 : (value \div 2^i) % 2 = 1}
OfBits(bits)  == MapThenSumSet(LAMBDA i : 2^i, bits)

\* The bits of value that are not in bits.
Without(value, bits) == OfBits(BitsOf(value) \ BitsOf(bits))

Notified(n, action, v) ==
    [received |-> TRUE,
     value |-> CASE action = "eNoAction"                 -> n.value
                 [] action = "eSetBits"                  -> OfBits(BitsOf(n.value) \cup BitsOf(v))
                 [] action = "eIncrement"                -> n.value + 1
                 [] action = "eSetValueWithOverwrite"    -> v
                 [] action = "eSetValueWithoutOverwrite" -> IF n.received THEN n.value ELSE v]

\* A value that has not been read may be protected from being overwritten.
NotifyAccepted(n, action) == ~(action = "eSetValueWithoutOverwrite" /\ n.received)

AfterNotify(K, u, ix, action, v) ==
    LET K1 == [K EXCEPT !.task[u].note[ix] = Notified(@, action, v)]
    IN  IF K.task[u].run = "blocked" /\ K.task[u].on = NoteWait(ix) THEN Unblock(K1, u) ELSE K1

NoteCalls == {"Notify", "NotifyStateClear", "NotifyValueClear"}

AfterNoteCall(K, u, c, v) ==
    CASE c.op = "Notify"           -> AfterNotify(K, u, c.ix, c.to, v)
      [] c.op = "NotifyStateClear" -> [K EXCEPT !.task[u].note[c.ix].received = FALSE]
      [] c.op = "NotifyValueClear" -> [K EXCEPT !.task[u].note[c.ix].value = Without(@, v)]

NoteReturned(K, u, c) ==
    LET n == K.task[u].note[c.ix]
    IN  CASE c.op = "Notify"           -> IF NotifyAccepted(n, c.to) THEN Pass ELSE Fail
          [] c.op = "NotifyStateClear" -> IF n.received THEN Pass ELSE 0
          [] c.op = "NotifyValueClear" -> n.value

\* xTaskNotifyWait clears the bits c.v[1] before it waits and c.v[2] when it has been
\* notified; ulTaskNotifyTake clears the value (c.v = 1) or takes one from it.
WaitCalls == {"NotifyWait", "NotifyTake"}

NoteWanted(n, c) == IF c.op = "NotifyWait" THEN n.received ELSE n.value # 0

OnEntry(n, c) ==
    IF c.op = "NotifyWait" /\ ~n.received
    THEN [n EXCEPT !.value = Without(@, c.v[1])] ELSE n

OnExit(n, c) ==
    [received |-> FALSE,
     value |-> IF c.op = "NotifyWait"
               THEN IF n.received THEN Without(n.value, c.v[2]) ELSE n.value
               ELSE IF n.value = 0 \/ c.v = 1 THEN 0 ELSE n.value - 1]

WaitReturned(n, c) ==
    IF c.op = "NotifyTake" THEN n.value ELSE IF n.received THEN Pass ELSE Fail
-----------------------------------------------------------------------------
(* Event groups: sets of bits.  A waiting task gets the bits as they were when it was *)
(* woken. *)

EventGroup == [kind |-> "group", bits |-> {}]

NotGot == {}
Got(bits) == {bits}

GroupWait(o, bits, all, clear) == <<o, "bits", bits, all, clear>>

Satisfied(have, bits, all) == IF all THEN bits \subseteq have ELSE bits \cap have # {}

GroupWaiters(K, o) ==
    {t \in DOMAIN K.task : K.task[t].run = "blocked" /\ Len(K.task[t].on) = 5
                           /\ K.task[t].on[1] = o}

\* The tasks ts, which wait for bits, are woken and find the bits have.
WakeAll(K, ts, have) ==
    [K EXCEPT !.task = [t \in DOMAIN @ |->
                  IF t \in ts THEN [@[t] EXCEPT !.run = "ready", !.on = Nowhere, !.got = Got(have)]
                  ELSE @[t]],
              !.line = SelectSeq(@, LAMBDA t : t \notin ts)]

GroupSet(K, o, bits) ==
    LET have  == K.obj[o].bits \cup bits
        woken == {t \in GroupWaiters(K, o) : Satisfied(have, K.task[t].on[3], K.task[t].on[4])}
        clear == UNION {K.task[t].on[3] : t \in {u \in woken : K.task[u].on[5]}}
    IN  WakeAll([K EXCEPT !.obj[o].bits = have \ clear], woken, have)

GroupClear(K, o, bits) == [K EXCEPT !.obj[o].bits = @ \ bits]

GroupCalls == {"SetBits", "ClearBits", "GetBits", "DeleteGroup"}

AfterGroupCall(K, c) ==
    CASE c.op = "SetBits"     -> GroupSet(K, c.o, c.v)
      [] c.op = "ClearBits"   -> GroupClear(K, c.o, c.v)
      [] c.op = "GetBits"     -> K
      [] c.op = "DeleteGroup" -> [WakeAll(K, GroupWaiters(K, c.o), {}) EXCEPT !.obj[c.o].bits = {}]

GroupReturned(K, c) ==
    CASE c.op = "SetBits"     -> GroupSet(K, c.o, c.v).obj[c.o].bits
      [] c.op \in {"ClearBits", "GetBits"} -> K.obj[c.o].bits
      [] c.op = "DeleteGroup" -> Pass

\* xEventGroupWaitBits waits for c.v; xEventGroupSync sets the bits c.v[1] first and
\* waits for all of c.v[2], which it clears.
Rendezvous(c) == c.op = "Sync"
Awaited(c)  == IF Rendezvous(c) THEN c.v[2] ELSE c.v
NeedsAll(c) == Rendezvous(c) \/ c.all
Clears(c)   == Rendezvous(c) \/ c.clear
-----------------------------------------------------------------------------
(* Software timers.  A timer's callback is run by the timer task (daemon), *)
(* which also executes the commands that other tasks send to its queue;    *)
(* commands go before timers.                                              *)

configTIMER_TASK_PRIORITY  == 4
configTIMER_QUEUE_LENGTH   == 5
TimerQueue == "xTimerQueue"
Commands   == Queue(configTIMER_QUEUE_LENGTH)

\* entry: which of the callbacks of the daemon.
Timer(period, auto, entry) ==
    [kind |-> "timer", period |-> period, left |-> 0, auto |-> auto,
     active |-> FALSE, entry |-> entry]

Timers(K) == {o \in DOMAIN K.obj : K.obj[o].kind = "timer"}
Active(K) == {o \in Timers(K) : K.obj[o].active}
Expired(K) == {o \in Active(K) : K.obj[o].left <= 0}

\* The next timer of those that have expired: of the earliest expiry time.
NextExpired(K) ==
    {o \in Expired(K) : \A p \in Expired(K) : K.obj[o].left <= K.obj[p].left}

UntilNext(K) ==
    IF Active(K) = {} THEN Forever ELSE Min({K.obj[o].left : o \in Active(K)})

Expire(K, o) ==
    [K EXCEPT !.obj[o] = IF K.obj[o].auto THEN [@ EXCEPT !.left = K.obj[o].left + K.obj[o].period]
                         ELSE [@ EXCEPT !.active = FALSE, !.left = 0]]

Executed(K, x) ==
    CASE x.cmd = "Start" -> [K EXCEPT !.obj[x.o] = [@ EXCEPT !.active = TRUE, !.left = K.obj[x.o].period]]
      [] x.cmd = "ChangePeriod" ->
            [K EXCEPT !.obj[x.o] = [@ EXCEPT !.active = TRUE, !.left = x.v, !.period = x.v]]
      [] x.cmd = "Stop" -> [K EXCEPT !.obj[x.o] = [@ EXCEPT !.active = FALSE, !.left = 0]]
      [] x.cmd = "SetBits"   -> GroupSet(K, x.o, x.v)
      [] x.cmd = "ClearBits" -> GroupClear(K, x.o, x.v)

TimerCalls == {"IsActive", "SetReloadMode", "GetReloadMode"}

AfterTimerCall(K, c) ==
    IF c.op = "SetReloadMode" THEN [K EXCEPT !.obj[c.o].auto = c.v] ELSE K

TimerReturned(K, c) ==
    CASE c.op = "IsActive"      -> IF K.obj[c.o].active THEN 1 ELSE 0
      [] c.op = "SetReloadMode" -> Pass
      [] c.op = "GetReloadMode" -> IF K.obj[c.o].auto THEN 1 ELSE 0

\* Every timer that is active comes nearer to its end by this time; how long a timer
\* that does not reload has been over does not matter.
Advance(o, ticks) ==
    [o EXCEPT !.left = IF o.auto \/ @ > ticks THEN @ - ticks ELSE 0]

TimersAfter(K, ticks) ==
    IF Active(K) = {} THEN K
    ELSE [K EXCEPT !.obj = [o \in DOMAIN @ |-> IF o \in Active(K) THEN Advance(@[o], ticks)
                                              ELSE @[o]]]
-----------------------------------------------------------------------------
(* Stream buffers and message buffers.  A stream holds bytes; a message    *)
(* buffer holds messages, each with the bytes of its length before it.     *)
(* One task writes and one task reads.                                     *)

sbBYTES_TO_STORE_MESSAGE_LENGTH == 4

StreamBuffer(size, trigger) ==
    [kind |-> "stream", size |-> size, trigger |-> trigger, items |-> <<>>, msg |-> FALSE]
MessageBuffer(size) == [StreamBuffer(size, 1) EXCEPT !.msg = TRUE]

Stored(b) ==
    IF b.msg THEN FoldSeq(LAMBDA m, n : Len(m) + sbBYTES_TO_STORE_MESSAGE_LENGTH + n, 0, b.items)
    ELSE Len(b.items)

Space(b) == b.size - Stored(b)

\* The space that a writer waits for: no more than there can ever be.
Required(b, data) ==
    IF b.msg THEN Len(data) + sbBYTES_TO_STORE_MESSAGE_LENGTH
    ELSE Min({Len(data), b.size})

\* A message is written as a whole or not at all; of a stream, what fits.
Written(b, data) ==
    IF ~b.msg THEN Min({Len(data), Space(b)})
    ELSE IF Space(b) >= Required(b, data) THEN Len(data) ELSE 0

AfterSend(K, o, data) ==
    LET b     == K.obj[o]
        n     == Written(b, data)
        items == IF n = 0 THEN b.items
                 ELSE IF b.msg THEN Append(b.items, data) ELSE b.items \o SubSeq(data, 1, n)
        K1    == [K EXCEPT !.obj[o].items = items]
    IN  IF n > 0 /\ Stored(K1.obj[o]) >= b.trigger THEN Wake(K1, Filled(o)) ELSE K1

\* What a reader of at most max bytes gets.
Readable(b, max) ==
    IF ~b.msg THEN SubSeq(b.items, 1, Min({max, Len(b.items)}))
    ELSE IF b.items # <<>> /\ Len(Head(b.items)) <= max THEN Head(b.items) ELSE <<>>

AfterReceive(K, o, max) ==
    LET b == K.obj[o]
        n == Len(Readable(b, max))
    IN  IF n = 0 THEN K
        ELSE Wake([K EXCEPT !.obj[o].items = IF b.msg THEN Tail(@) ELSE SubSeq(@, n + 1, Len(@))],
                  Emptied(o))

BufferCalls == {"Spaces", "Bytes", "IsEmpty", "IsFull", "NextLength", "ResetBuffer", "CreateBuffer"}

\* A buffer is not reset while a task waits for it.
Waited(K, o) == WaitingAt(K, Filled(o)) \cup WaitingAt(K, Emptied(o)) # {}

AfterBufferCall(K, c) ==
    CASE c.op = "ResetBuffer"  -> IF Waited(K, c.o) THEN K ELSE [K EXCEPT !.obj[c.o].items = <<>>]
      [] c.op = "CreateBuffer" -> [K EXCEPT !.obj[c.o] = c.v]
      [] OTHER -> K

Truth(p) == IF p THEN 1 ELSE 0

BufferReturned(K, c) ==
    LET b == K.obj[c.o]
    IN  CASE c.op = "Spaces"  -> Space(b)
          [] c.op = "Bytes"   -> Stored(b)
          [] c.op = "IsEmpty" -> Truth(b.items = <<>>)
          [] c.op = "IsFull"  -> Truth(Space(b) <= IF b.msg THEN sbBYTES_TO_STORE_MESSAGE_LENGTH ELSE 0)
          [] c.op = "NextLength" -> IF b.items = <<>> THEN 0 ELSE Len(Head(b.items))
          [] c.op = "ResetBuffer"  -> IF Waited(K, c.o) THEN Fail ELSE Pass
          [] c.op = "CreateBuffer" -> Pass
=============================================================================
