-------------------------- MODULE MessageBufferAMP --------------------------
(***************************************************************************)
(* demo-common/minimal/MessageBufferAMP.c: one task sends each value as a  *)
(* string to two others, each through a message buffer of its own.  As the *)
(* program is configured, sbSEND_COMPLETED is the kernel's own and wakes   *)
(* the receiver; the messages to another core and its interrupt are not    *)
(* used.                                                                   *)
(***************************************************************************)
EXTENDS RtosKernel, Program

CONSTANT ValueMod               \* bound: the values wrap, more than one digit long

mbaTASK_MESSAGE_BUFFER_SIZE == 60
mbaNUMBER_OF_CORE_B_TASKS   == 2
xDelay                      == 250
SizeOfString                == 15       \* sizeof( cReceivedString )

xCoreBMessageBuffers == << "xCoreBMessageBuffer0", "xCoreBMessageBuffer1" >>
ulCycleCounters      == << "ulCycleCounter0", "ulCycleCounter1" >>
CoreB == 1 .. mbaNUMBER_OF_CORE_B_TASKS

\* The local variables of the tasks, one for each.
ulNextValue     == << "ulNextValueB1", "ulNextValueB2" >>
cExpectedString == << "cExpectedString1", "cExpectedString2" >>
cReceivedString == << "cReceivedString1", "cReceivedString2" >>

prvCoreATask == Task(0,
    << Format("cString", "ulNextValueA") >>
    \o Repeat([x \in CoreB |-> x], LAMBDA x : << SendVar(xCoreBMessageBuffers[x], "cString") >>)
    \o << Delay(xDelay), Modulo(Add("ulNextValueA", 1), ValueMod) >>)

\* A string that is as expected has the expected length.
prvCoreBTasks(x) == Task(1,
    << Format(cExpectedString[x], ulNextValue[x]), Set(cReceivedString[x], <<>>),
       Within(Fetch(xCoreBMessageBuffers[x], SizeOfString, cReceivedString[x]), Forever),
       SameData(cReceivedString[x], cExpectedString[x]), Add(ulCycleCounters[x], 1),
       Modulo(Add(ulNextValue[x], 1), ValueMod) >>)

xAreMessageBufferAMPTasksStillRunning == ulCycleCounters

\* The buffers hold a dozen messages: the receivers are not kept waiting for so long.
vStartMessageBufferAMPTasks ==
    LET Each(vars) == {vars[x] : x \in CoreB}
    IN  Prompt(Demo(<< prvCoreATask, prvCoreBTasks(1), prvCoreBTasks(2) >>,
                    [o \in Each(xCoreBMessageBuffers) |-> MessageBuffer(mbaTASK_MESSAGE_BUFFER_SIZE)],
                    [v \in {"cString"} \cup Each(cExpectedString) \cup Each(cReceivedString) |-> <<>>]
                    @@ Zero({"ulNextValueA"} \cup Each(ulNextValue) \cup Each(ulCycleCounters)),
                    xAreMessageBufferAMPTasksStillRunning), {0, 1})
=============================================================================
