------------------------------ MODULE Outlines ------------------------------
(***************************************************************************)
(* Outlines of programs that share data: what is known of the data before  *)
(* each call of each task.  An outline fits a program if every call, with  *)
(* every result that it may have, leads from what is known before it to    *)
(* what is known before the next.  That is a question about one task at a  *)
(* time; RtosProofs shows that it is enough: whatever the other tasks do   *)
(* and whenever the kernel switches between them, what an outline says is  *)
(* true.  The programs of the outlines are those of the source, with its   *)
(* own constants.                                                          *)
(***************************************************************************)
EXTENDS Rtos

CONSTANTS
    Guards,     \* outlines of programs with a variable that a semaphore guards
    Channels,   \* outlines of programs in which a task sends numbers to another one
    Sleepers,   \* outlines of programs with mutexes whose tasks suspend themselves
    QueueSets,  \* outlines of programs with a queue set
    Streams     \* outlines of programs that send a string through a buffer
-----------------------------------------------------------------------------
\* Calls that touch no kernel object, and of the variables only c.into.
PlainCalls == {"Read", "Compare", "Add", "Set", "Delay", "EnterCritical", "ExitCritical"}

\* Where the program may go on after call c, whatever its result.
Branches(c) == IF c.expect = {} THEN {c.ok} ELSE {c.ok, c.no}

\* Call c expects the result r, or does not insist.
Accepts(c, r) == c.strict => r \in c.expect

-----------------------------------------------------------------------------
(* Guards: the tasks are at the places inside[t] while they have the       *)
(* semaphore o.  Who is inside knows what the variable holds; when it is   *)
(* free, the variable holds value.                                         *)

GuardFits(g, t, n) ==
    LET task    == g.program.tasks[t]
        c       == task.program[n]
        next(k) == Place(task, n + k)
        inside  == g.inside[t]
        keeps(k) == /\ n \in inside <=> next(k) \in inside
                    /\ n \in inside => g.holds[t][next(k)] = g.holds[t][n]
    IN  /\ c.of = ""
        /\ \A k \in Branches(c) : next(k) \in DOMAIN task.program
        /\ \/ /\ c.op = "Receive" /\ c.o = g.o /\ c.to = "" /\ c.into # g.variable
              /\ n \notin inside
              /\ next(Ahead(c, Pass)) \in inside /\ g.holds[t][next(Ahead(c, Pass))] = g.value
              /\ next(Ahead(c, Fail)) \notin inside
              /\ Accepts(c, Pass) /\ Accepts(c, Fail)
           \/ /\ c.op = "SendToBack" /\ c.o = g.o /\ c.v = Pass /\ c.to = "" /\ c.from = "" /\ c.cmd = ""
              /\ c.into # g.variable
              /\ n \in inside /\ g.holds[t][n] = g.value
              /\ next(Ahead(c, Pass)) \notin inside
              /\ Accepts(c, Pass)
           \/ /\ c.op = "Read" /\ c.o = g.variable /\ c.into # g.variable
              /\ n \in inside
              /\ keeps(Ahead(c, g.holds[t][n])) /\ Accepts(c, g.holds[t][n])
           \/ /\ c.op = "Set" /\ c.o = g.variable /\ c.into = g.variable
              /\ c.mod = 0 /\ c.from = ""
              /\ n \in inside
              /\ next(Ahead(c, c.v)) \in inside /\ g.holds[t][next(Ahead(c, c.v))] = c.v
              /\ Accepts(c, c.v)
           \/ /\ c.op \in PlainCalls /\ c.into # g.variable /\ ~c.strict
              /\ \A k \in Branches(c) : keeps(k)

GuardOutline(g) ==
    LET d == g.program
    IN  /\ g.o \in DOMAIN d.obj /\ d.obj[g.o] = Semaphore(1, 1)
        /\ g.variable # "" /\ g.variable \in DOMAIN d.mem /\ d.mem[g.variable] = g.value
        /\ g.variable \notin d.stamps
        /\ \A t \in DOMAIN d.tasks :
              /\ g.variable \notin d.tasks[t].locals
              /\ 1 \in DOMAIN d.tasks[t].program \ g.inside[t]
              /\ \A n \in DOMAIN d.tasks[t].program : GuardFits(g, t, n)

\* Whenever a semaphore is free the variable that it guards is as its next holder expects
\* it, however the holders before were interrupted or timed out.
WholeWhenFree ==
    \A g \in Guards :
        D = g.program /\ kernel.obj[g.o].items # <<>> => mem[g.variable] = g.value
-----------------------------------------------------------------------------
(* Channels: the producer sends the numbers of the variable next through   *)
(* the queue o, modulo modulus; the consumer receives them in the variable *)
(* data and expects the number of the variable expected.  At the places    *)
(* posted the producer has sent its number and not counted on, at the      *)
(* places received the consumer has received one and not counted on.  The  *)
(* tasks are only at the places live: the consumer finds no number wrong.  *)

SharedBy(ch) == {ch.next, ch.data, ch.expected}

\* Adds one to the variable, modulo the modulus of the channel.
CountsOn(ch, c, var) ==
    c.op = "Add" /\ c.o = var /\ c.into = var /\ c.v = 1 /\ c.from = "" /\ c.mod = ch.modulus

ChannelFits(ch, t, n) ==
    LET task     == ch.program.tasks[t]
        c        == task.program[n]
        next(k)  == Place(task, n + k)
        live     == ch.live[t]
        posted   == t = ch.producer /\ n \in ch.posted
        received == t = ch.consumer /\ n \in ch.received
    IN  /\ c.of = ""
        /\ \/ /\ t = ch.producer /\ ~posted
              /\ c.op = "SendToBack" /\ c.o = ch.o /\ c.from = ch.next /\ c.v = 0 /\ c.cmd = ""
              /\ c.to = ""
              /\ c.into \notin SharedBy(ch)
              /\ next(Ahead(c, Pass)) \in live \cap ch.posted
              /\ next(Ahead(c, Fail)) \in live \ ch.posted
           \/ /\ t = ch.producer /\ posted
              /\ CountsOn(ch, c, ch.next)
              /\ \A k \in Branches(c) : next(k) \in live \ ch.posted
           \/ /\ t = ch.consumer /\ ~received
              /\ c.op = "Receive" /\ c.o = ch.o /\ c.into = ch.data /\ c.to = ""
              /\ 0 .. ch.modulus - 1 \subseteq c.expect /\ Fail \notin c.expect
              /\ next(c.ok) \in live \cap ch.received
              /\ next(c.no) \in live \ ch.received
           \/ /\ t = ch.consumer /\ received
              /\ c.op = "Compare" /\ c.o = ch.data /\ c.from = ch.expected /\ c.v = 0
              /\ c.into \notin SharedBy(ch)
              /\ next(Ahead(c, 0)) \in live \cap ch.received
           \/ /\ t = ch.consumer /\ received
              /\ CountsOn(ch, c, ch.expected)
              /\ \A k \in Branches(c) : next(k) \in live \ ch.received
           \/ /\ c.op \in PlainCalls /\ c.into \notin SharedBy(ch)
              /\ \A k \in Branches(c) :
                    /\ next(k) \in live
                    /\ t = ch.producer => (posted <=> next(k) \in ch.posted)
                    /\ t = ch.consumer => (received <=> next(k) \in ch.received)

ChannelOutline(ch) ==
    LET d == ch.program
    IN  /\ ch.modulus \in Nat \ {0}
        /\ ch.o \in DOMAIN d.obj /\ d.obj[ch.o] = Queue(d.obj[ch.o].len)
        /\ d.obj[ch.o].len \in Nat
        /\ SharedBy(ch) \subseteq DOMAIN d.mem \ {""}
        /\ ch.next # ch.data /\ ch.next # ch.expected /\ ch.data # ch.expected
        /\ \A var \in {ch.next, ch.expected} : d.mem[var] = 0
        /\ SharedBy(ch) \cap d.stamps = {}
        /\ {ch.producer, ch.consumer} \subseteq DOMAIN d.tasks /\ ch.producer # ch.consumer
        /\ 1 \notin ch.posted \cup ch.received
        /\ \A t \in DOMAIN d.tasks :
              /\ SharedBy(ch) \cap d.tasks[t].locals = {}
              /\ 1 \in ch.live[t] /\ ch.live[t] \subseteq DOMAIN d.tasks[t].program
              /\ \A n \in ch.live[t] : ChannelFits(ch, t, n)

\* BlockQ.c: no value is lost, doubled or overtaken between the producer and the consumer,
\* also when a send is refused or times out and is tried again: the values between the two
\* are consecutive, from the one that the consumer expects to the last one posted.
InOrder ==
    \A ch \in Channels : D = ch.program =>
        LET received  == pc[ch.consumer] \in ch.received
            posted    == pc[ch.producer] \in ch.posted
            inTransit == (IF received THEN << mem[ch.data] >> ELSE <<>>)
                         \o kernel.obj[ch.o].items
                         \o (IF posted THEN <<>> ELSE << mem[ch.next] >>)
        IN  \A i \in DOMAIN inTransit :
                inTransit[i] = (mem[ch.expected] + i - 1) % ch.modulus
-----------------------------------------------------------------------------
(* Sleepers: at its place n a task t of DOMAIN s.depth has taken the mutex *)
(* o at most s.depth[t][n][o] times more than given.  Other tasks do not   *)
(* suspend themselves, and nobody suspends another task.  The outline      *)
(* holds until the program has found an error.                             *)

Takes == {"TakeMutex", "TakeRecursive"}
Gives == {"GiveMutex", "GiveRecursive"}

\* Calls that leave every mutex as it is and suspend nobody.
TaskCalls == {"Resume", "AbortDelay", "PrioritySet", "PriorityGet", "GetState", "Holder", "Jump"}

\* Where the program goes on after call c without finding an error.
Expected(c) == IF c.strict THEN {c.ok} ELSE Branches(c)

SleeperFits(s, t, n) ==
    LET task           == s.program.tasks[t]
        c              == task.program[n]
        next(k)        == Place(task, n + k)
        gains(k, o, i) == s.depth[t][next(k)][o] >= s.depth[t][n][o] + i
    IN  /\ c.of = ""
        /\ c.op \in PlainCalls \cup TaskCalls \cup Takes \cup Gives \cup {"Suspend"}
        /\ c.op \in Takes \cup Gives => c.o \in DOMAIN s.program.obj
        /\ c.op = "Suspend" => c.o = Self /\ t \in DOMAIN s.depth
        /\ \A k \in Branches(c) : next(k) \in DOMAIN task.program
        /\ t \in DOMAIN s.depth => \A o \in DOMAIN s.program.obj :
              /\ c.op \in Takes /\ Accepts(c, Pass) => gains(Ahead(c, Pass), o, IF o = c.o THEN 1 ELSE 0)
              /\ c.op \in Takes /\ Accepts(c, Fail) => gains(Ahead(c, Fail), o, 0)
              /\ c.op \in Gives => \A k \in Branches(c) : gains(k, o, IF o = c.o THEN -1 ELSE 0)
              /\ c.op \notin Takes \cup Gives => \A k \in Expected(c) : gains(k, o, 0)
              /\ c.op = "Suspend" => \A k \in Branches(c) : s.depth[t][next(k)][o] = 0

SleeperOutline(s) ==
    LET d == s.program
    IN  /\ \A o \in DOMAIN d.obj : d.obj[o] = Mutex
        /\ \A t \in DOMAIN d.tasks :
              /\ 1 \in DOMAIN d.tasks[t].program
              /\ \A n \in DOMAIN d.tasks[t].program : SleeperFits(s, t, n)
        /\ Nobody \notin DOMAIN d.tasks
        /\ DOMAIN s.depth \subseteq DOMAIN d.tasks
        /\ \A t \in DOMAIN s.depth : \A n \in DOMAIN d.tasks[t].program :
              s.depth[t][n] \in [DOMAIN d.obj -> Nat]

\* A task that has suspended itself, and that only another task can wake, holds no mutex: not
\* even one that it has taken several times.
SuspendedHoldNothing ==
    \A o \in DOMAIN kernel.obj :
        kernel.obj[o].kind = "mutex" /\ kernel.obj[o].holder # Nobody
        => kernel.task[kernel.obj[o].holder].run # "suspended"
-----------------------------------------------------------------------------
(* Sets: a queue set and the queues that are its members.  A task t of     *)
(* DOMAIN st.hand keeps the member that it has selected in the variable    *)
(* st.hand[t], and receives from it next: there it holds a handle.  Only   *)
(* the manager adds and removes members; at its place n those of           *)
(* st.outside[n] are not in the set.  The variables st.always always name  *)
(* a queue; a queue that another variable names is used right after the    *)
(* variable has been written.  The outline holds until the program has     *)
(* found an error.                                                         *)

\* Everything that may be in the set.
Queued(st) == DOMAIN st.program.obj \ {st.set}

\* The variable that names the object of the call at n; the variables that t so uses alone.
NameAt(st, t, n)    == st.program.tasks[t].program[n].of
PrivateNames(st, t) ==
    {NameAt(st, t, n) : n \in DOMAIN st.program.tasks[t].program} \ ({""} \cup st.always)

HoldsHandle(st, t, n) == t \in DOMAIN st.hand /\ NameAt(st, t, n) = st.hand[t]

\* Call c keeps the name of a queue.
NamesQueue(st, c) ==
    \/ c.op = "Choose" /\ c.v \subseteq Queued(st)
    \/ c.op = "Set" /\ c.mod = 0 /\ c.from = "" /\ c.v \in Queued(st)

\* What the manager knows to be outside at n, and calls that take a member out, or leave it
\* there, or else find an error.
OutsideAt(st, t, n) == IF t = st.manager THEN st.outside[n] ELSE {}
TakesOut(c)     == c.op = "RemoveFromSet" /\ c.strict /\ Refused(c) \notin c.expect
LeavesOut(c)    == c.op = "AddToSet" /\ c.strict /\ Pass \notin c.expect

SetFits(st, t, n) ==
    LET task    == st.program.tasks[t]
        c       == task.program[n]
        next(k) == Place(task, n + k)
        stays(k, v) == ~(AtEnd(task, n + k) /\ v \in task.locals)
        unnamed(k)  == NameAt(st, t, next(k)) \in {""} \cup st.always
        named(k)    == LET v == NameAt(st, t, next(k))
                       IN  unnamed(k) \/ (v = c.into /\ NamesQueue(st, c) /\ stays(k, v)
                                          /\ ~HoldsHandle(st, t, next(k)))
        selected(k) == NameAt(st, t, next(k)) = c.into /\ stays(k, c.into)
    IN  /\ DOMAIN c = DOMAIN Call("", "")
        /\ \A k \in Branches(c) :
              /\ next(k) \in DOMAIN task.program
              /\ OutsideAt(st, t, next(k))
                    \subseteq OutsideAt(st, t, n) \cup (IF TakesOut(c) THEN {c.o} ELSE {})
        /\ c.into \in st.always => NamesQueue(st, c)
        /\ \A u \in DOMAIN st.program.tasks \ {t} : c.into \notin PrivateNames(st, u)
        /\ \/ /\ c.op \in {"SendToBack", "SendToFront"} /\ (c.of = "" => c.o \in Queued(st))
              /\ ~HoldsHandle(st, t, n)
              /\ \A k \in Branches(c) : named(k)
           \/ /\ c.op = "Receive"
              /\ IF c.of = "" THEN c.o \in Queued(st) /\ (c.o \in st.members => c.o \in OutsideAt(st, t, n))
                 ELSE HoldsHandle(st, t, n)
              /\ \A k \in Branches(c) : named(k)
           \/ /\ c.op = "Select" /\ c.of = "" /\ c.o = st.set
              /\ t \in DOMAIN st.hand /\ c.into = st.hand[t]
              /\ unnamed(Ahead(c, ""))
              /\ \A q \in st.members : selected(Ahead(c, q))
              /\ \A q \in Queued(st) : selected(Ahead(c, q)) \/ unnamed(Ahead(c, q))
           \/ /\ c.op = "Select" /\ c.of = "" /\ c.o = st.set
              /\ c.strict /\ c.expect \cap st.members = {}
              /\ \A k \in Branches(c) : unnamed(k)
           \/ /\ c.op = "Overwrite" /\ c.of = "" /\ c.o \in Queued(st) \ st.members
              /\ \A k \in Branches(c) : named(k)
           \/ /\ c.op \in {"Peek", "Messages"} /\ c.of = "" /\ c.o \in DOMAIN st.program.obj
              /\ \A k \in Branches(c) : named(k)
           \/ /\ c.op = "AddToSet" /\ c.of = "" /\ c.o \in Queued(st) /\ c.to = st.set
              /\ t = st.manager /\ \A k \in Branches(c) : named(k) /\ (LeavesOut(c) \/ c.o \notin OutsideAt(st, t, next(k)))
           \/ /\ c.op = "RemoveFromSet" /\ c.of = "" /\ c.o \in Queued(st)
              /\ \A k \in Branches(c) : named(k)
           \/ /\ c.op \in PlainCalls \cup TaskCalls \cup {"Choose", "Suspend"} /\ c.of = ""
              /\ c.op = "Suspend" => c.o = Self
              /\ \A k \in Branches(c) : named(k)

SetOutline(st) ==
    LET d == st.program
    IN  /\ st.set \in DOMAIN d.obj /\ "" \notin DOMAIN d.obj /\ st.members \subseteq Queued(st)
        /\ \A o \in DOMAIN d.obj :
              /\ d.obj[o] = [Queue(d.obj[o].len) EXCEPT !.set = d.obj[o].set]
              /\ d.obj[o].set \in {"", st.set}
        /\ d.obj[st.set].set = ""
        /\ IsFiniteSet(DOMAIN st.hand) /\ DOMAIN st.hand \subseteq DOMAIN d.tasks
        /\ \A t \in DOMAIN st.hand : st.hand[t] \in PrivateNames(st, t) \cap DOMAIN d.mem
        /\ "" \notin st.always /\ st.always \subseteq DOMAIN d.mem \ d.stamps
        /\ \A v \in st.always : d.mem[v] \in Queued(st)
        /\ \A t \in DOMAIN d.tasks :
              /\ 1 \in DOMAIN d.tasks[t].program /\ NameAt(st, t, 1) \in {""} \cup st.always
              /\ \A q \in OutsideAt(st, t, 1) : d.obj[q].set = ""
              /\ PrivateNames(st, t) \subseteq DOMAIN d.mem \ d.stamps
              /\ d.tasks[t].locals \cap st.always = {}
              /\ \A u \in DOMAIN d.tasks \ {t} : d.tasks[t].locals \cap PrivateNames(st, u) = {}
              /\ \A n \in DOMAIN d.tasks[t].program :
                    OutsideAt(st, t, n) \subseteq st.members /\ SetFits(st, t, n)

\* The handles of q in the set, and the tasks that hold one.
HandlesOf(st, q) ==
    LET handles == kernel.obj[st.set].items IN {i \in DOMAIN handles : handles[i] = q}
HoldersOf(st, q) ==
    {t \in DOMAIN st.hand : HoldsHandle(st, t, pc[t]) /\ mem[st.hand[t]] = q}

\* QueueSet.c: a queue in the set has as many items as the set has handles of it and tasks, or
\* the interrupt, have selected it and not received yet: no item is without a handle, and
\* what is selected is there.
SetMirrorsQueues ==
    \A st \in QueueSets : D = st.program => \A q \in st.members :
        kernel.obj[q].set = st.set
        => Len(kernel.obj[q].items) = Cardinality(HandlesOf(st, q)) + Cardinality(HoldersOf(st, q))
-----------------------------------------------------------------------------
(* Streams: the sender sends the characters of string, around and around,  *)
(* to the buffer o.  It has sent those before the index next, and at the   *)
(* places posted as many more as sent says; the receiver has received      *)
(* those before the index expected, and at the places received as many     *)
(* more as got says.  At the places setup of the sender no other task      *)
(* exists, and the buffer holds anything.                                  *)

IndexesOf(sm) == {sm.next, sm.sent, sm.expected, sm.got}

\* Counts the index var on by the number in by.
CountsOnBy(sm, c, var, by) ==
    c.op = "Add" /\ c.o = var /\ c.into = var /\ c.v = 0 /\ c.from = by /\ c.mod = Len(sm.string)

\* Calls that only look at a buffer.
LooksAt == {"Spaces", "Bytes", "IsEmpty", "IsFull", "NextLength"}

StreamFits(sm, t, n) ==
    LET task     == sm.program.tasks[t]
        c        == task.program[n]
        next(k)  == Place(task, n + k)
        after    == {next(k) : k \in Branches(c)}
        posted   == t = sm.sender /\ n \in sm.posted
        received == t = sm.receiver /\ n \in sm.received
        setup    == t = sm.sender /\ n \in sm.setup
        keeps    == \A p \in after :
                       /\ t = sm.sender => (p \in sm.posted <=> posted) /\ (p \in sm.setup <=> setup)
                       /\ t = sm.receiver => (p \in sm.received <=> received)
        free     == c.into \notin IndexesOf(sm)
    IN  /\ c.of = "" /\ after \subseteq DOMAIN task.program
        /\ \/ /\ t = sm.sender /\ ~posted /\ ~setup
              /\ c.op = "Send" /\ c.o = sm.o /\ c.into = sm.sent
              /\ c.v = sm.string /\ c.from = sm.next /\ c.mod = Len(sm.string)
              /\ after \subseteq sm.posted
           \/ /\ posted /\ CountsOnBy(sm, c, sm.next, sm.sent)
              /\ after \cap (sm.posted \cup sm.setup) = {}
           \/ /\ t = sm.receiver /\ ~received
              /\ c.op = "Fetch" /\ c.o = sm.o /\ c.into = sm.got /\ c.out \notin IndexesOf(sm)
              /\ c.v \in Nat \ {0}
              /\ c.from = "" \/ (c.from = sm.expected /\ c.mod = Len(sm.string))
              /\ 1 .. c.v \subseteq c.expect /\ 0 \notin c.expect
              /\ next(c.ok) \in sm.received /\ next(c.no) \notin sm.received
           \/ /\ received /\ CountsOnBy(sm, c, sm.expected, sm.got)
              /\ after \cap sm.received = {}
           \/ /\ setup /\ c.op \in {"Send", "Fetch"}
              /\ free /\ c.out \notin IndexesOf(sm) /\ keeps
           \/ /\ setup /\ c.op = "ResetBuffer" /\ c.o = sm.o
              /\ free /\ after \cap (sm.posted \cup sm.setup) = {}
           \/ /\ c.op \in LooksAt /\ free /\ keeps
           \/ /\ c.op \in {"CreateBuffer", "ResetBuffer"} /\ c.o # sm.o /\ free /\ keeps
           \/ /\ c.op \in {"Matches", "PrioritySet"} /\ free /\ keeps
           \/ /\ c.op = "Elapsed" /\ c.o \notin IndexesOf(sm) /\ free /\ keeps
           \/ /\ c.op = "Create" /\ c.o = {sm.receiver} /\ ~setup /\ free /\ keeps
           \/ /\ c.op \in PlainCalls /\ keeps
              /\ \/ free
                 \/ t = sm.sender /\ ~posted /\ c.into = sm.sent
                 \/ t = sm.receiver /\ ~received /\ c.into = sm.got

StreamOutline(sm) ==
    LET d == sm.program
        b == d.obj[sm.o]
    IN  /\ sm.o \in DOMAIN d.obj /\ b = StreamBuffer(b.size, b.trigger) /\ b.size \in Nat
        /\ sm.string \in Seq(Int) /\ sm.string # <<>>
        /\ IndexesOf(sm) \subseteq DOMAIN d.mem \ {""} /\ IndexesOf(sm) \cap d.stamps = {}
        /\ sm.next \notin {sm.sent, sm.expected, sm.got}
        /\ sm.expected \notin {sm.sent, sm.got} /\ sm.sent # sm.got
        /\ d.mem[sm.next] = 0 /\ d.mem[sm.expected] = 0
        /\ {sm.sender, sm.receiver} \subseteq Nat \cap DOMAIN d.tasks /\ sm.sender # sm.receiver
        /\ 1 \notin sm.posted \cup sm.received /\ sm.posted \cap sm.setup = {}
        /\ \A t \in DOMAIN d.tasks :
              /\ 1 \in DOMAIN d.tasks[t].program
              /\ 1 \in sm.setup /\ t # sm.sender => d.tasks[t].priority < 0
              /\ IndexesOf(sm) \cap d.tasks[t].locals = {}
              /\ \A n \in DOMAIN d.tasks[t].program : StreamFits(sm, t, n)

\* StreamBufferDemo.c: while the two tasks that share a buffer have both taken note of what
\* they have sent and received, it holds the string from the receiver's index to the
\* sender's: nothing is lost, doubled or out of order, however much of it fits at a time.
NothingLost ==
    \A sm \in Streams :
        D = sm.program /\ pc[sm.sender] \notin sm.setup /\ mem[sm.sent] = 0 /\ mem[sm.got] = 0 =>
        LET items  == kernel.obj[sm.o].items
            length == Len(sm.string)
        IN  /\ mem[sm.next] = (mem[sm.expected] + Len(items)) % length
            /\ \A i \in DOMAIN items :
                  items[i] = sm.string[((mem[sm.expected] + i - 1) % length) + 1]
-----------------------------------------------------------------------------
\* The outlines fit the programs.
GuardsFit   == \A g \in Guards : GuardOutline(g)
ChannelsFit == \A ch \in Channels : ChannelOutline(ch)
SleepersFit == \A s \in Sleepers : SleeperOutline(s)
SetsFit     == \A st \in QueueSets : SetOutline(st)
StreamsFit  == \A sm \in Streams : StreamOutline(sm)
=============================================================================
