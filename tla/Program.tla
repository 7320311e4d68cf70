------------------------------ MODULE Program ------------------------------
(***************************************************************************)
(* A C function of the demonstrations as a value: the sequence of the      *)
(* calls it makes.  A call names what is called (op), the object (o, or    *)
(* the variable "of" that names it), a second object (to), a value (v, to  *)
(* which the variable "from" is added), the block time, where the result   *)
(* is kept (into), and what the code then does with the result:            *)
(* it may compare it with what it expects (a result outside expect is an   *)
(* error of the demonstration when the call is strict), and the next call  *)
(* is ok calls further when the result is as expected, no calls when not.  *)
(* Loops with a constant count are unrolled.                               *)
(***************************************************************************)
EXTENDS RtosKernel

Call(op, o) ==
    [op |-> op, o |-> o, of |-> "", to |-> "", v |-> 0, from |-> "", mod |-> 0,
     block |-> NoBlock, into |-> "", out |-> "", ix |-> 1, cmd |-> "",
     all |-> FALSE, clear |-> FALSE, expect |-> {}, strict |-> FALSE, ok |-> 1, no |-> 1]

\* What the code does with the result of call c: demand it, or keep it in var.
Expect(c, results) == [c EXCEPT !.expect = results, !.strict = TRUE]
Into(c, var)       == [c EXCEPT !.into = var]
Within(c, ticks)   == [c EXCEPT !.block = ticks]
From(c, var)       == [c EXCEPT !.from = var]
At(c, var)         == [c EXCEPT !.of = var]
Passes(c)          == Expect(c, {Pass})
Fails(c)           == Expect(c, {Fail})

\* Queues, semaphores and mutexes.
SendToBack(o, v)  == [Call("SendToBack", o) EXCEPT !.v = v]
SendToFront(o, v) == [Call("SendToFront", o) EXCEPT !.v = v]
Overwrite(o, v)   == [Call("Overwrite", o) EXCEPT !.v = v]
Receive(o)        == Call("Receive", o)
Peek(o)           == Call("Peek", o)
Messages(o, n)    == Expect(Call("Messages", o), {n})
Select(set)            == Call("Select", set)
PeekSet(set)           == [Peek(set) EXCEPT !.to = "handle"]
AddToSet(o, set)       == [Call("AddToSet", o) EXCEPT !.to = set]
RemoveFromSet(o, set)  == [Call("RemoveFromSet", o) EXCEPT !.to = set]
Give(o)           == SendToBack(o, Pass)
Take(o)           == Call("Receive", o)
TakeMutex(o)      == Call("TakeMutex", o)
GiveMutexFromISR(o) == Call("GiveMutexFromISR", o)
ResetMutex(o)     == Call("ResetMutex", o)
GiveMutex(o)      == Call("GiveMutex", o)
TakeRecursive(o)  == Call("TakeRecursive", o)
GiveRecursive(o)  == Call("GiveRecursive", o)
HolderIs(o, t)    == Expect(Call("Holder", o), {t})

\* Tasks.
Self == 0
Delay(n)          == [Call("Delay", Self) EXCEPT !.block = n]
DelayUntil(var, n) == [Call("DelayUntil", var) EXCEPT !.v = n]
CatchUpTicks(n)   == [Call("CatchUpTicks", Self) EXCEPT !.v = n]
Suspend(t)        == Call("Suspend", t)
Resume(t)         == Call("Resume", t)
AbortDelay(t)     == Call("AbortDelay", t)
PrioritySet(t, n) == [Call("PrioritySet", t) EXCEPT !.v = n]
PriorityGet(t)    == Call("PriorityGet", t)
PriorityIs(t, n)  == Expect(PriorityGet(t), {n})
StateIs(t, s)     == Expect(Call("GetState", t), {s})
EnterCritical     == Call("EnterCritical", Self)
ExitCritical      == Call("ExitCritical", Self)
SuspendAll        == Call("SuspendAll", Self)
ResumeAll         == Call("ResumeAll", Self)
Create(ts, n)     == [Call("Create", ts) EXCEPT !.v = n]     \* any of ts, at priority n
Delete(t)         == Call("Delete", t)

\* Notifications of the task itself or of another one, at index 1 or At another one.
Notify(t, v, action) == [Call("Notify", t) EXCEPT !.v = v, !.to = action]
NotifyGive(t)        == Notify(t, 0, "eIncrement")
NotifyWait(entry, exit, ticks) == [Call("NotifyWait", Self) EXCEPT !.v = <<entry, exit>>, !.block = ticks]
NotifyTake(clear, ticks) == [Call("NotifyTake", Self) EXCEPT !.v = clear, !.block = ticks]
NotifyStateClear(t)  == Call("NotifyStateClear", t)
NotifyValueClear(t, bits) == [Call("NotifyValueClear", t) EXCEPT !.v = bits]
Index(c, ix)         == [c EXCEPT !.ix = ix]
Out(c, var)          == [c EXCEPT !.out = var]

\* Event groups.
SetBits(o, bits)     == [Call("SetBits", o) EXCEPT !.v = bits]
ClearBits(o, bits)   == [Call("ClearBits", o) EXCEPT !.v = bits]
GetBits(o)           == Call("GetBits", o)
DeleteGroup(o)       == Call("DeleteGroup", o)
WaitBits(o, bits, clear, all, ticks) ==
    [Call("WaitBits", o) EXCEPT !.v = bits, !.clear = clear, !.all = all, !.block = ticks]
Sync(o, set, wait, ticks) == [Call("Sync", o) EXCEPT !.v = <<set, wait>>, !.block = ticks]

\* Timers, and what the timer task is asked to do.
Command(cmd, o, v)   == [Call("SendToBack", "xTimerQueue") EXCEPT !.cmd = cmd, !.to = o, !.v = v]
TimerStart(o)        == Command("Start", o, 0)
TimerReset(o)        == TimerStart(o)
TimerStop(o)         == Command("Stop", o, 0)
TimerDelete(o)       == TimerStop(o)
TimerChangePeriod(o, n) == Command("ChangePeriod", o, n)
TimerIsActive(o, n)  == Expect(Call("IsActive", o), {n})
TimerSetReloadMode(o, auto) == [Call("SetReloadMode", o) EXCEPT !.v = auto]
TimerReloads(o, n)  == Expect(Call("GetReloadMode", o), {n})

\* Stream and message buffers.  The data that is sent is data, or what a variable holds, or
\* a part of a string: n bytes of it, or what there are, from an index on.
Send(o, data)        == [Call("Send", o) EXCEPT !.v = data]
SendVar(o, var)      == From(Send(o, <<>>), var)
SendPart(o, string, index, n) == [From(Send(o, string), index) EXCEPT !.mod = n]
SendRest(o, string, index)    == SendPart(o, string, index, Len(string))
Fetch(o, max, var)   == [Call("Fetch", o) EXCEPT !.v = max, !.out = var]
\* At most max bytes, and no more than there are from the index to the end of a string.
FetchRest(o, max, var, index, string) == [From(Fetch(o, max, var), index) EXCEPT !.mod = Len(string)]
Spaces(o, n)         == Expect(Call("Spaces", o), {n})
Bytes(o, n)          == Expect(Call("Bytes", o), {n})
IsEmpty(o, n)        == Expect(Call("IsEmpty", o), {n})
IsFull(o, n)         == Expect(Call("IsFull", o), {n})
NextLength(o, n)     == Expect(Call("NextLength", o), {n})
ResetBuffer(o)       == Call("ResetBuffer", o)
CreateBuffer(o, b)   == [Call("CreateBuffer", o) EXCEPT !.v = b]
\* The data in var is the string, read in a circle, from its start or from the index on.
Matches(var, string) == Expect([Call("Matches", var) EXCEPT !.v = string], {1})
MatchesAt(var, string, index) == From(Matches(var, string), index)
\* sprintf of a number; whether two variables hold the same data.
Format(var, number)  == From(Call("Format", var), number)
SameData(var, other) == Expect(From(Call("SameData", var), other), {1})

\* Variables of the program.
Set(var, n)    == [Call("Set", var) EXCEPT !.v = n, !.into = var]
Add(var, n)    == [Call("Add", var) EXCEPT !.v = n, !.into = var]
Modulo(c, m)   == [c EXCEPT !.mod = m]
Read(var)      == Call("Read", var)
Is(var, n)     == Expect(Read(var), {n})
Same(var, o)   == Expect([Call("Compare", var) EXCEPT !.from = o], {0})

\* The time at which a variable is stamped, as the time that has passed since then.
Unset          == -Forever
Stamp(var)     == Set(var, 0)
Elapsed(var)   == Call("Elapsed", var)
InTime(var, from, to) == Expect(Elapsed(var), from .. to)

\* Any of several values, for a pseudo-random number.
Choose(values) == [Call("Choose", "") EXCEPT !.v = values]

\* if (the result of c is one of results) A else B.  While(c, results, A) loops.
Jump(n)  == [Call("Jump", "") EXCEPT !.ok = n]
Test(c, results, ok, no) == [c EXCEPT !.expect = results, !.ok = ok, !.no = no]
IfElse(c, results, A, B) ==
    <<Test(c, results, 1, Len(A) + 2)>> \o A \o <<Jump(Len(B) + 1)>> \o B
If(c, results, A) == <<Test(c, results, 1, Len(A) + 1)>> \o A
While(c, results, A) ==
    <<Test(c, results, 1, Len(A) + 2)>> \o A \o <<Jump(-(Len(A) + 1))>>
Repeat(range, A(_)) == FlattenSeq([i \in 1 .. Len(range) |-> A(range[i])])

\* A task: its priority, what it does once, and what it then does for ever.
TaskOf(priority, first, loop) ==
    [priority |-> priority, program |-> first \o loop,
     again |-> Len(first) + 1, notes |-> <<>>, locals |-> {}, entry |-> <<>>]
Task(priority, loop) == TaskOf(priority, <<>>, loop)

\* The timer task: it waits at its first call, and goes on there after each callback.
Daemon(callbacks) ==
    LET Start(i) == 2 + FoldFunctionOnSet(LAMBDA p, n : Len(p) + 1 + n, 0, callbacks, 1 .. i - 1)
        Body(i)  == callbacks[i] \o << Jump(1 - Start(i) - Len(callbacks[i])) >>
    IN  [Task(4, << Call("Daemon", "xTimerQueue") >>
                 \o FlattenSeq([i \in 1 .. Len(callbacks) |-> Body(i)]))
         EXCEPT !.entry = [i \in 1 .. Len(callbacks) |-> Start(i)]]

\* A task that does not exist at the start.
Later(program) == Task(-1, program)

Locals(task, vars) == [task EXCEPT !.locals = vars]

\* A program: its tasks and interrupt handlers, its objects, its variables, those that
\* the check function watches, and how time passes in it (module Rtos).
Demo(tasks, objects, variables, watched) ==
    [tasks |-> tasks, obj |-> objects, mem |-> variables, watched |-> watched,
     prompt |-> {0, 5}, paced |-> {}, stamps |-> {}, unreaped |-> 0, backlog |-> Forever]
Prompt(d, levels) == [d EXCEPT !.prompt = levels]
Paced(d, ts)      == [d EXCEPT !.paced = ts, !.prompt = {0}]
Unreaped(d, n)    == [d EXCEPT !.unreaped = n]
Backlog(d, n)     == [d EXCEPT !.backlog = n]
Stamped(d, vars)  == [d EXCEPT !.stamps = vars,
                               !.mem = [v \in DOMAIN @ \cup vars |->
                                           IF v \in vars THEN Unset ELSE @[v]]]
Zero(vars)        == [v \in vars |-> 0]
=============================================================================
