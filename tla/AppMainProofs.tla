--------------------------- MODULE AppMainProofs ---------------------------
(***************************************************************************)
(* The start-up of AppMain, for every size of the heap and of the objects  *)
(* and for every width of the random numbers.                              *)
(*                                                                         *)
(* The argument is about one allocation after the other (Malloc): what     *)
(* exists and what is free is always the whole heap, and what has failed   *)
(* does not fit into what is free, now or later, as that only shrinks.     *)
(***************************************************************************)
EXTENDS AppMain, FiniteSetTheorems, TLAPS

Logs == {"xStreamBuffer", "xLoggingSemaphore", "Logger"}
Net  == IF APP_PROGRAM_NETWORK = 1 THEN {"IP"} ELSE {}

\* The objects that main() has asked for when it is about to make this call.
Asked ==
    LET queue == Logs \cup Net \cup {"xQueue"}
        tasks == queue \cup {"Rx", "Tx"}
        all   == tasks \cup {"Idle", "Timer"}
    IN  [hardware |-> {}, random32 |-> {}, srand |-> {}, logging |-> {},
         network |-> Logs, blinkyQueue |-> Logs \cup Net,
         blinkyTasks |-> queue, halted |-> queue,
         full |-> tasks, mqtt |-> tasks, scheduler |-> tasks,
         running |-> all, stopped |-> all, reading |-> all \cup {"ucRxData"}]

Heaps == [free : Nat, created : SUBSET Objects, failed : SUBSET Objects]

\* The heap h after the allocations of the objects in asked.
HeapOK(h, asked) ==
    /\ h \in Heaps
    /\ h.created \cup h.failed = asked /\ h.created \cap h.failed = {}
    /\ h.free + Units(h.created) = heap
    /\ \A o \in h.failed : h.free < Size[o]

NumbersOK ==
    /\ {ulSeed, ulInitialSeed, hwNextRand, ulNextRand} \subseteq 0 .. Period - 1
    /\ calls \in 0 .. Period /\ tally \in [Outputs -> 0 .. calls]

BootOK ==
    /\ pc \in DOMAIN Asked /\ heap \in 0 .. MaxHeap
    /\ HeapOK(Heap, Asked[pc])
    /\ "Rx" \in Asked[pc] \/ pc = "blinkyTasks" => "xQueue" \in created
    /\ pc = "halted" => "xQueue" \notin created
    /\ Running => {"Idle", "Timer", "Rx", "Tx"} \subseteq created
    /\ pc = "stopped" => ~({"Idle", "Timer"} \subseteq created)

IInv == BootOK /\ NumbersOK
-----------------------------------------------------------------------------
(* Units *)

LEMMA UnitsOfFinite ==
    ASSUME NEW o \in Objects
    PROVE  IsFiniteSet(UnitsOf(o)) /\ Cardinality(UnitsOf(o)) = Size[o]
<1>1. Size[o] \in Nat \ {0}
  BY SizeAssumption
<1>2. IsFiniteSet(1 .. Size[o]) /\ Cardinality(1 .. Size[o]) = Size[o]
  BY <1>1, FS_Interval
<1>3. IsFiniteSet({o}) /\ Cardinality({o}) = 1
  BY FS_Singleton
<1>4. IsFiniteSet({o} \X (1 .. Size[o]))
      /\ Cardinality({o} \X (1 .. Size[o])) = Cardinality({o}) * Cardinality(1 .. Size[o])
  BY <1>2, <1>3, FS_Product
<1> QED
  BY <1>1, <1>2, <1>3, <1>4 DEF UnitsOf

LEMMA UnitsFinite ==
    ASSUME NEW S \in SUBSET Objects
    PROVE  IsFiniteSet(UNION {UnitsOf(o) : o \in S})
<1> DEFINE A == UnitsOf("xStreamBuffer") \cup UnitsOf("xLoggingSemaphore") \cup UnitsOf("Logger")
           B == UnitsOf("IP") \cup UnitsOf("xQueue") \cup UnitsOf("Rx")
           C == UnitsOf("Tx") \cup UnitsOf("Idle") \cup UnitsOf("Timer")
           D == UnitsOf("ucRxData")
<1>1. \A o \in Objects : IsFiniteSet(UnitsOf(o))
  BY UnitsOfFinite
<1>2. IsFiniteSet(A)
  BY <1>1, FS_Union DEF Objects
<1>3. IsFiniteSet(B)
  BY <1>1, FS_Union DEF Objects
<1>4. IsFiniteSet(C)
  BY <1>1, FS_Union DEF Objects
<1>5. IsFiniteSet(A \cup B \cup C \cup D)
  BY <1>1, <1>2, <1>3, <1>4, FS_Union DEF Objects
<1>6. UNION {UnitsOf(o) : o \in S} \subseteq A \cup B \cup C \cup D
  BY DEF Objects
<1> QED
  BY <1>5, <1>6, FS_Subset

LEMMA UnitsNone == Units({}) = 0
  BY FS_EmptySet DEF Units

LEMMA UnitsAdd ==
    ASSUME NEW S \in SUBSET Objects, NEW o \in Objects \ S
    PROVE  Units(S) \in Nat /\ Units(S \cup {o}) = Units(S) + Size[o]
<1> DEFINE U == UNION {UnitsOf(p) : p \in S}
<1>1. IsFiniteSet(U)
  BY UnitsFinite
<1>2. IsFiniteSet(UnitsOf(o)) /\ Cardinality(UnitsOf(o)) = Size[o]
  BY UnitsOfFinite
<1>3. UNION {UnitsOf(p) : p \in S \cup {o}} = U \cup UnitsOf(o)
  OBVIOUS
<1>4. U \cap UnitsOf(o) = {}
  BY DEF UnitsOf
<1>5. Cardinality(U) \in Nat
  BY <1>1, FS_CardinalityType
<1>6. Size[o] \in Nat
  BY SizeAssumption
<1>7. Cardinality(U \cup UnitsOf(o)) = Cardinality(U) + Cardinality(UnitsOf(o)) - Cardinality(U \cap UnitsOf(o))
  BY <1>1, <1>2, FS_Union
<1>8. Cardinality({}) = 0
  BY FS_EmptySet
<1> HIDE DEF U
<1>9. Cardinality(U \cup UnitsOf(o)) = Cardinality(U) + Size[o]
  <2>1. \A a, b \in Nat : a + b - 0 = a + b
    OBVIOUS
  <2>2. Cardinality(U \cup UnitsOf(o)) = Cardinality(U) + Size[o] - 0
    BY <1>2, <1>4, <1>7, <1>8
  <2> QED
    BY <1>5, <1>6, <2>1, <2>2
<1> QED
  BY <1>3, <1>5, <1>9 DEF Units, U

LEMMA UnitsMonotone ==
    ASSUME NEW T \in SUBSET Objects, NEW S \in SUBSET T
    PROVE  Units(S) \in Nat /\ Units(T) \in Nat /\ Units(S) <= Units(T)
<1> DEFINE US == UNION {UnitsOf(o) : o \in S}
           UT == UNION {UnitsOf(o) : o \in T}
<1>1. IsFiniteSet(US) /\ IsFiniteSet(UT)
  BY UnitsFinite
<1>2. US \in SUBSET UT
  OBVIOUS
<1> HIDE DEF US, UT
<1>3. Cardinality(US) <= Cardinality(UT) /\ Cardinality(US) \in Nat /\ Cardinality(UT) \in Nat
  BY <1>1, <1>2, FS_Subset, FS_CardinalityType
<1> QED
  BY <1>3 DEF Units, US, UT
-----------------------------------------------------------------------------
(* One allocation *)

LEMMA MallocOK ==
    ASSUME NEW h, NEW asked, NEW o \in Objects \ asked, HeapOK(h, asked), heap \in Nat
    PROVE  /\ HeapOK(Malloc(h, o), asked \cup {o})
           /\ h.created \subseteq Malloc(h, o).created
           /\ Malloc(h, o).created \subseteq h.created \cup {o}
<1> DEFINE m == Malloc(h, o)
<1>1. h \in Heaps /\ o \notin h.created /\ o \notin h.failed /\ Size[o] \in Nat \ {0}
      /\ h.free \in Nat
  BY SizeAssumption DEF HeapOK, Heaps
<1>2. Units(h.created) \in Nat /\ Units(h.created \cup {o}) = Units(h.created) + Size[o]
  BY <1>1, UnitsAdd DEF Heaps
<1>3. CASE Size[o] <= h.free
  <2>1. m = [h EXCEPT !.free = @ - Size[o], !.created = @ \cup {o}]
    BY <1>3 DEF Malloc
  <2>2. m.free = h.free - Size[o] /\ m.created = h.created \cup {o} /\ m.failed = h.failed
    BY <1>1, <2>1 DEF Heaps
  <2>3. m \in Heaps
    <3>1. h.free - Size[o] \in Nat
      BY <1>1, <1>3
    <3> QED
      BY <1>1, <2>1, <3>1 DEF Heaps
  <2>4. m.free + Units(m.created) = heap
    BY <1>1, <1>2, <2>2 DEF HeapOK
  <2>5. \A p \in m.failed : m.free < Size[p]
    BY <1>1, <2>2, SizeAssumption DEF HeapOK, Heaps
  <2> QED
    BY <1>1, <2>2, <2>3, <2>4, <2>5 DEF HeapOK
<1>4. CASE ~(Size[o] <= h.free)
  <2>1. m = [h EXCEPT !.failed = @ \cup {o}]
    BY <1>4 DEF Malloc
  <2>2. m.free = h.free /\ m.created = h.created /\ m.failed = h.failed \cup {o} /\ m \in Heaps
    BY <1>1, <2>1 DEF Heaps
  <2>3. \A p \in m.failed : m.free < Size[p]
    BY <1>1, <1>4, <2>2 DEF HeapOK
  <2> QED
    BY <1>1, <2>2, <2>3 DEF HeapOK
<1> QED
  BY <1>3, <1>4

\* What an allocation that succeeds takes.
LEMMA MallocTakes ==
    ASSUME NEW h \in Heaps, NEW o \in Objects \ h.created, o \in Malloc(h, o).created
    PROVE  Size[o] <= h.free /\ Malloc(h, o).free = h.free - Size[o]
  BY DEF Malloc, Heaps

\* A task as small as the idle and the timer task together has not failed if these two
\* succeed afterwards.
LEMMA BothFit ==
    ASSUME NEW h, NEW asked, HeapOK(h, asked), asked \cap {"Idle", "Timer"} = {}, heap \in Nat,
           {"Idle", "Timer"} \subseteq Malloc(Malloc(h, "Idle"), "Timer").created,
           NEW o \in asked, o \in Objects, Size[o] <= Size["Idle"] + Size["Timer"]
    PROVE  o \in h.created
<1> DEFINE h1 == Malloc(h, "Idle")
           h2 == Malloc(h1, "Timer")
<1>1. HeapOK(h1, asked \cup {"Idle"})
  BY MallocOK DEF Objects
<1>2. h2.created \subseteq h1.created \cup {"Timer"}
  BY <1>1, MallocOK DEF Objects
<1>3. h \in Heaps /\ "Idle" \notin h.created /\ h1 \in Heaps /\ "Timer" \notin h1.created
  BY <1>1 DEF HeapOK
<1>4. Size["Idle"] <= h.free /\ h1.free = h.free - Size["Idle"]
  BY <1>2, <1>3, MallocTakes DEF Objects
<1>5. Size["Timer"] <= h1.free
  BY <1>3, MallocTakes DEF Objects
<1>6. h.free \in Nat /\ Size["Idle"] \in Nat /\ Size["Timer"] \in Nat /\ Size[o] \in Nat
  BY <1>3, SizeAssumption DEF Heaps, Objects
<1>7. ~(h.free < Size[o])
  BY <1>4, <1>5, <1>6
<1> QED
  BY <1>7 DEF HeapOK

\* Nothing fails while there is room for all objects.
LEMMA NoRoom ==
    ASSUME NEW h, NEW asked \in SUBSET Used, HeapOK(h, asked), NEW o \in h.failed
    PROVE  heap < Units(Used)
<1>1. h \in Heaps /\ Used \subseteq Objects
  BY DEF HeapOK, Used
<1>2. o \in Used /\ o \in Objects \ h.created /\ h.created \cup {o} \subseteq Used /\ h.free < Size[o]
  BY <1>1 DEF HeapOK, Heaps
<1>3. Units(h.created) \in Nat /\ Units(h.created \cup {o}) = Units(h.created) + Size[o]
  BY <1>1, <1>2, UnitsAdd DEF Heaps
<1>4. Units(h.created \cup {o}) <= Units(Used) /\ Units(Used) \in Nat
  BY <1>1, <1>2, UnitsMonotone
<1>5. Size[o] \in Nat /\ h.free \in Nat /\ h.free + Units(h.created) = heap
  BY <1>1, <1>2, SizeAssumption DEF HeapOK, Heaps
<1> QED
  BY <1>2, <1>3, <1>4, <1>5

\* If there is room for all objects, all exist when all have been asked for.
LEMMA RoomForAll ==
    ASSUME NEW h, HeapOK(h, Used), heap \in Nat
    PROVE  heap >= Units(Used) <=> h.created = Used
<1>1. h \in Heaps /\ Used \subseteq Objects
  BY DEF HeapOK, Used
<1>2. Units(Used) \in Nat
  BY <1>1, UnitsMonotone
<1>3. CASE h.failed = {}
  BY <1>1, <1>2, <1>3 DEF HeapOK, Heaps
<1>4. CASE h.failed # {}
  <2>1. h.created # Used
    BY <1>4 DEF HeapOK
  <2>2. heap < Units(Used)
    BY <1>4, NoRoom
  <2> QED
    BY <1>2, <2>1, <2>2
<1> QED
  BY <1>3, <1>4
-----------------------------------------------------------------------------
(* The steps of main() *)

LEMMA InitOK == Init => IInv
<1> SUFFICES ASSUME Init PROVE IInv
  OBVIOUS
<1>1. Period \in Nat \ {0} /\ MaxHeap \in Nat
  BY PowerAssumption, SizeAssumption DEF Period
<1>2. HeapOK(Heap, {})
  <2>1. heap \in Nat /\ heap + 0 = heap
    BY <1>1 DEF Init
  <2> QED
    BY <2>1, UnitsNone DEF HeapOK, Heaps, Heap, Init
<1>3. BootOK
  BY <1>2 DEF BootOK, Init, Asked, Logs, Running
<1>4. NumbersOK
  BY <1>1 DEF NumbersOK, Init, Zeroed
<1> QED
  BY <1>3, <1>4 DEF IInv

\* A step that leaves the heap alone, or ends with the heap h.
LEMMA Unchanged ==
    ASSUME UNCHANGED heap, Heap' = Heap, NEW asked, HeapOK(Heap, asked)
    PROVE  HeapOK(Heap, asked)'
  BY DEF HeapOK

LEMMA Changed ==
    ASSUME NEW h, NEW asked, HeapOK(h, asked), Becomes(h)
    PROVE  HeapOK(Heap, asked)' /\ created' = h.created
<1>1. Heap' = h
  BY DEF Becomes, Heap, HeapOK, Heaps
<1> QED
  BY <1>1 DEF HeapOK, Becomes

\* What a draw of a number does to the numbers.
LEMMA StoreOK == IInv /\ Store => NumbersOK'
  BY WidthAssumption, PowerAssumption DEF IInv, NumbersOK, Store, Period

LEMMA uxRandOK ==
    ASSUME NumbersOK, uxRand
    PROVE  NumbersOK'
<1>1. Period \in Nat \ {0} /\ 2^Shift \in Nat \ {0} /\ 2^OutBits \in Nat \ {0}
  BY PowerAssumption DEF Period
<1>2. ulMultiplier \in Nat /\ ulIncrement \in Nat
  BY <1>1 DEF ulMultiplier, ulIncrement
<1>3. ulNextRand \in Nat
  BY <1>1 DEF NumbersOK
<1>4. ulMultiplier * ulNextRand + ulIncrement \in Nat
  BY <1>2, <1>3
<1>5. ulNextRand' \in 0 .. Period - 1
  <2> DEFINE x == ulMultiplier * ulNextRand + ulIncrement
  <2>1. ulNextRand' = x % Period /\ x \in Nat
    BY <1>4 DEF uxRand
  <2> HIDE DEF x
  <2> QED
    BY <1>1, <2>1
<1>6. Result(ulNextRand') \in Outputs
  <2>1. ulNextRand' \in Nat
    BY <1>1, <1>5
  <2>2. ulNextRand' \div 2^Shift \in Nat
    BY <1>1, <2>1
  <2> DEFINE y == ulNextRand' \div 2^Shift
  <2> HIDE DEF y
  <2>3. y % 2^OutBits \in 0 .. 2^OutBits - 1
    BY <1>1, <2>2 DEF y
  <2> QED
    BY <2>3 DEF Result, Outputs, y
<1>7. calls' = calls + 1 /\ calls \in Nat /\ calls' \in 0 .. Period
  BY <1>1 DEF NumbersOK, uxRand
<1>8. tally' \in [Outputs -> 0 .. calls']
  BY <1>6, <1>7 DEF NumbersOK, uxRand
<1> QED
  BY <1>5, <1>7, <1>8 DEF NumbersOK, uxRand, seedVars

LEMMA StepOK == IInv /\ [Next]_vars => IInv'
<1> SUFFICES ASSUME IInv, [Next]_vars PROVE IInv'
  OBVIOUS
<1> USE DEF IInv, Running
<1>0. heap \in Nat /\ MaxHeap \in Nat /\ HeapOK(Heap, Asked[pc])
  BY SizeAssumption DEF BootOK
<1>m. \A h, a : \A o \in Objects \ a :
          HeapOK(h, a) => HeapOK(Malloc(h, o), a \cup {o}) /\ h.created \subseteq Malloc(h, o).created
  BY <1>0, MallocOK
<1>1. CASE GenerateRandomNumber \/ xRandom32
  <2>1. NumbersOK'
    BY <1>1, StoreOK DEF GenerateRandomNumber, xRandom32
  <2>2. HeapOK(Heap, {})' /\ Asked[pc] = {} /\ Asked[pc'] = {}
    <3>1. Asked[pc] = {} /\ Asked[pc'] = {}
      BY <1>1 DEF GenerateRandomNumber, xRandom32, Go, Asked
    <3>2. UNCHANGED heap /\ Heap' = Heap
      BY <1>1 DEF GenerateRandomNumber, xRandom32, heapVars, Heap
    <3> QED
      BY <1>0, <3>1, <3>2, Unchanged
  <2> QED
    BY <1>1, <2>1, <2>2 DEF BootOK, GenerateRandomNumber, xRandom32, Go, Asked, heapVars
<1>2. CASE SeedGenerator
  <2>1. NumbersOK'
    BY <1>2 DEF NumbersOK, SeedGenerator, prvSRand
  <2>2. HeapOK(Heap, {})' /\ Asked[pc] = {} /\ Asked[pc'] = {}
    BY <1>0, <1>2, Unchanged DEF SeedGenerator, Go, Asked, heapVars, Heap
  <2> QED
    BY <1>2, <2>1, <2>2 DEF BootOK, SeedGenerator, Go, Asked, heapVars
<1>3. ASSUME NEW h, Becomes(h)
      PROVE  NumbersOK' /\ heap' = heap
  BY <1>3 DEF Becomes, NumbersOK, randomVars, seedVars
<1>4. CASE vSetupLoggingTask
  <2> DEFINE h1 == Malloc(Heap, "xStreamBuffer")
             h2 == Malloc(h1, "xLoggingSemaphore")
             h3 == Malloc(h2, "Logger")
  <2>1. HeapOK(Heap, {}) /\ Becomes(h3) /\ pc' = "network"
    BY <1>0, <1>4 DEF vSetupLoggingTask, Go, Asked
  <2>2. HeapOK(h1, {"xStreamBuffer"})
    BY <1>0, <2>1, MallocOK DEF Objects
  <2>3. HeapOK(h2, {"xStreamBuffer"} \cup {"xLoggingSemaphore"})
    BY <1>0, <2>2, MallocOK DEF Objects
  <2>4. HeapOK(h3, {"xStreamBuffer"} \cup {"xLoggingSemaphore"} \cup {"Logger"})
    BY <1>0, <2>3, MallocOK DEF Objects
  <2>5. HeapOK(Heap, Logs)'
    <3>1. {"xStreamBuffer"} \cup {"xLoggingSemaphore"} \cup {"Logger"} = Logs
      BY DEF Logs
    <3> QED
      BY <2>1, <2>4, <3>1, Changed
  <2> QED
    BY <1>3, <2>1, <2>5 DEF BootOK, Asked, Logs
<1>5. CASE vSetupNetwork
  <2> DEFINE h == IF APP_PROGRAM_NETWORK = 1 THEN Malloc(Heap, "IP") ELSE Heap
  <2>1. HeapOK(Heap, Logs) /\ Becomes(h) /\ pc' = "blinkyQueue"
    BY <1>0, <1>5 DEF vSetupNetwork, Go, Asked
  <2>2. HeapOK(h, Logs \cup Net)
    <3>1. CASE APP_PROGRAM_NETWORK = 1
      BY <1>0, <2>1, <3>1, MallocOK DEF Objects, Logs, Net
    <3>2. CASE APP_PROGRAM_NETWORK # 1
      BY <2>1, <3>2 DEF Net
    <3> QED
      BY <3>1, <3>2
  <2>3. HeapOK(Heap, Logs \cup Net)'
    BY <2>1, <2>2, Changed
  <2> QED
    BY <1>3, <2>1, <2>3 DEF BootOK, Asked, Logs, Net
<1>6. CASE CreateQueue
  <2> DEFINE h == Malloc(Heap, "xQueue")
             asked == Logs \cup Net \cup {"xQueue"}
  <2>1. HeapOK(Heap, Logs \cup Net) /\ Becomes(h)
        /\ pc' = IF "xQueue" \in created' THEN "blinkyTasks" ELSE "halted"
    BY <1>0, <1>6 DEF CreateQueue, Asked
  <2>2. HeapOK(h, asked)
    BY <1>0, <2>1, MallocOK DEF Objects, Logs, Net
  <2>3. HeapOK(Heap, asked)'
    BY <2>1, <2>2, Changed
  <2>4. Asked[pc'] = asked /\ "Rx" \notin asked
    BY <2>1 DEF Asked, Logs, Net
  <2> QED
    BY <1>3, <2>1, <2>3, <2>4 DEF BootOK, Asked
<1>7. CASE CreateTasks
  <2> DEFINE h1 == Malloc(Heap, "Rx")
             h2 == Malloc(h1, "Tx")
             asked == Logs \cup Net \cup {"xQueue"}
  <2>1. HeapOK(Heap, asked) /\ Becomes(h2) /\ pc' = "full" /\ "xQueue" \in created
    BY <1>0, <1>7 DEF CreateTasks, Go, Asked, BootOK
  <2>2. HeapOK(h1, asked \cup {"Rx"}) /\ created \subseteq h1.created
    <3>1. "Rx" \in Objects \ asked
      BY DEF Objects, Logs, Net
    <3> QED
      <4>1. HeapOK(h1, asked \cup {"Rx"}) /\ Heap.created \subseteq h1.created
        BY <2>1, <3>1, <1>m
      <4> QED
        BY <4>1 DEF Heap
  <2>3. HeapOK(h2, asked \cup {"Rx"} \cup {"Tx"}) /\ h1.created \subseteq h2.created
    <3>1. "Tx" \in Objects \ (asked \cup {"Rx"})
      BY DEF Objects, Logs, Net
    <3> QED
      BY <2>2, <3>1, <1>m
  <2>4. HeapOK(Heap, asked \cup {"Rx", "Tx"})' /\ created' = h2.created
    <3>1. asked \cup {"Rx"} \cup {"Tx"} = asked \cup {"Rx", "Tx"}
      OBVIOUS
    <3> QED
      BY <2>1, <2>3, <3>1, Changed
  <2> QED
    BY <1>3, <2>1, <2>2, <2>3, <2>4 DEF BootOK, Asked
<1>8. CASE vSetupFullTask \/ vSetupMqttTask
  <2>1. Becomes(Heap) /\ Asked[pc'] = Asked[pc] /\ pc' \in {"mqtt", "scheduler"}
        /\ pc \in {"full", "mqtt"}
    BY <1>8 DEF vSetupFullTask, vSetupMqttTask, Go, Asked
  <2>2. HeapOK(Heap, Asked[pc])' /\ created' = created
    BY <1>0, <2>1, Changed DEF Heap
  <2> QED
    BY <1>3, <2>1, <2>2 DEF BootOK, Asked
<1>9. CASE vTaskStartScheduler
  <2> DEFINE h1 == Malloc(Heap, "Idle")
             h2 == Malloc(h1, "Timer")
             asked == Logs \cup Net \cup {"xQueue"} \cup {"Rx", "Tx"}
  <2>1. HeapOK(Heap, asked) /\ Becomes(h2) /\ "xQueue" \in created
        /\ pc' = IF {"Idle", "Timer"} \subseteq created' THEN "running" ELSE "stopped"
    BY <1>0, <1>9 DEF vTaskStartScheduler, Asked, BootOK
  <2>2. HeapOK(h1, asked \cup {"Idle"}) /\ created \subseteq h1.created
    <3>1. "Idle" \in Objects \ asked
      BY DEF Objects, Logs, Net
    <3> QED
      <4>1. HeapOK(h1, asked \cup {"Idle"}) /\ Heap.created \subseteq h1.created
        BY <2>1, <3>1, <1>m
      <4> QED
        BY <4>1 DEF Heap
  <2>3. HeapOK(h2, asked \cup {"Idle"} \cup {"Timer"}) /\ h1.created \subseteq h2.created
    <3>1. "Timer" \in Objects \ (asked \cup {"Idle"})
      BY DEF Objects, Logs, Net
    <3> QED
      BY <2>2, <3>1, <1>m
  <2>4. HeapOK(Heap, asked \cup {"Idle", "Timer"})' /\ created' = h2.created
    <3>1. asked \cup {"Idle"} \cup {"Timer"} = asked \cup {"Idle", "Timer"}
      OBVIOUS
    <3> QED
      BY <2>1, <2>3, <3>1, Changed
  <2>5. {"Idle", "Timer"} \subseteq created' => {"Rx", "Tx"} \subseteq created'
    <3>1. SUFFICES ASSUME {"Idle", "Timer"} \subseteq h2.created
                   PROVE  {"Rx", "Tx"} \subseteq Heap.created
      BY <2>2, <2>3, <2>4 DEF Heap
    <3>2. asked \cap {"Idle", "Timer"} = {} /\ {"Rx", "Tx"} \subseteq asked
      BY DEF Logs, Net
    <3>3. \A o \in {"Rx", "Tx"} : o \in Objects /\ Size[o] <= Size["Idle"] + Size["Timer"]
      BY SizeAssumption DEF Objects
    <3> HIDE DEF asked
    <3> QED
      BY <1>0, <2>1, <3>1, <3>2, <3>3, BothFit
  <2> QED
    BY <1>3, <2>1, <2>2, <2>3, <2>4, <2>5 DEF BootOK, Asked
<1>12. CASE vLoggingTask
  <2> DEFINE h == Malloc(Heap, "ucRxData")
  <2>1. HeapOK(Heap, Asked["running"]) /\ Becomes(h) /\ pc = "running" /\ pc' = "reading"
    BY <1>0, <1>12 DEF vLoggingTask, Go
  <2>2. "ucRxData" \in Objects \ Asked["running"]
        /\ Asked["reading"] = Asked["running"] \cup {"ucRxData"}
    BY DEF Asked, Objects, Logs, Net
  <2>3. HeapOK(h, Asked["reading"]) /\ created \subseteq h.created
    BY <1>0, <2>1, <2>2, MallocOK DEF Heap
  <2>4. HeapOK(Heap, Asked["reading"])' /\ created' = h.created
    <3>1. \A asked : HeapOK(h, asked) => HeapOK(Heap, asked)' /\ created' = h.created
      BY <2>1, Changed
    <3> QED
      BY <2>3, <3>1
  <2> QED
    BY <1>3, <2>1, <2>3, <2>4 DEF BootOK, Asked
<1>10. CASE NumberForNetwork
  <2>1. NumbersOK'
    BY <1>10, uxRandOK DEF NumberForNetwork
  <2>2. HeapOK(Heap, Asked[pc])'
    BY <1>0, <1>10, Unchanged DEF NumberForNetwork, Heap, heapVars
  <2> QED
    BY <1>10, <2>1, <2>2 DEF NumberForNetwork, BootOK, heapVars
<1>11. CASE UNCHANGED vars
  <2>1. HeapOK(Heap, Asked[pc])'
    BY <1>0, <1>11, Unchanged DEF vars, heapVars, Heap
  <2>2. NumbersOK'
    BY <1>11 DEF vars, randomVars, seedVars, NumbersOK
  <2> QED
    BY <1>11, <2>1, <2>2 DEF vars, heapVars, BootOK
<1> QED
  BY <1>1, <1>2, <1>4, <1>5, <1>6, <1>7, <1>8, <1>9, <1>10, <1>11, <1>12 DEF Next, Main
-----------------------------------------------------------------------------
THEOREM Inductive == Spec => []IInv
<1> QED
  BY InitOK, StepOK, PTL DEF Spec

\* The variables keep their ranges, and what is free and what exists are together the
\* whole heap: no unit is given out twice, and a failed allocation loses none.
THEOREM TypeCorrect == Spec => []TypeOK
<1>1. IInv => TypeOK
  <2> SUFFICES ASSUME IInv PROVE TypeOK
    OBVIOUS
  <2>1. HeapOK(Heap, Asked[pc]) /\ heap \in 0 .. MaxHeap /\ MaxHeap \in Nat
    BY SizeAssumption DEF IInv, BootOK
  <2>2. free \in Nat /\ created \subseteq Asked[pc] /\ failed \subseteq Asked[pc]
        /\ free + Units(created) = heap /\ created \subseteq Objects
    BY <2>1 DEF HeapOK, Heaps, Heap
  <2>3. Asked[pc] \subseteq Used
    BY DEF IInv, BootOK, Asked, Used, Objects, Logs, Net
  <2>4. Units(created) \in Nat
    BY <2>2, UnitsMonotone
  <2>5. free \in 0 .. heap
    BY <2>1, <2>2, <2>4
  <2>6. pc \in {"hardware", "random32", "srand", "logging", "network",
                "blinkyQueue", "blinkyTasks", "full", "mqtt", "scheduler",
                "halted", "running", "reading", "stopped"}
    BY DEF IInv, BootOK, Asked
  <2> QED
    BY <2>1, <2>2, <2>3, <2>5, <2>6 DEF TypeOK, IInv, NumbersOK
<1> QED
  BY <1>1, Inductive, PTL

\* The scheduler never runs with a part of app-task-blinky.c only: a heap that had no room
\* for Rx or for Tx has none for the idle and the timer task, for these two take as much.
THEOREM BlinkyIsComplete == Spec => []BlinkyComplete
<1>1. IInv => BlinkyComplete
  <2> SUFFICES ASSUME IInv PROVE BlinkyComplete
    OBVIOUS
  <2>1. Running => "Rx" \in Asked[pc]
    BY DEF Running, Asked
  <2> QED
    BY <2>1 DEF IInv, BootOK, BlinkyComplete
<1> QED
  BY <1>1, Inductive, PTL

\* How the start ends depends on the total only, not on which allocations come first: with
\* room for all objects the scheduler runs with all of them, with less something is missing.
THEOREM TotalDecides == Spec => [](Ended => RoomDecides)
<1>1. IInv => (Ended => RoomDecides)
  <2> SUFFICES ASSUME IInv, Ended PROVE RoomDecides
    OBVIOUS
  <2>1. HeapOK(Heap, Asked[pc]) /\ heap \in Nat /\ created \subseteq Asked[pc]
    BY SizeAssumption DEF IInv, BootOK, HeapOK, Heap
  <2>2. CASE pc = "halted"
    <3>1. "xQueue" \in Asked[pc] \ created /\ Asked[pc] \subseteq Used
      BY <2>2 DEF IInv, BootOK, Asked, Used, Objects, Logs, Net
    <3>2. "xQueue" \in failed
      BY <2>1, <3>1 DEF HeapOK, Heap
    <3>3. heap < Units(Used)
      BY <2>1, <3>1, <3>2, NoRoom DEF Heap
    <3>4. Units(Used) \in Nat
      BY UnitsMonotone DEF Used
    <3> QED
      BY <2>1, <2>2, <3>3, <3>4 DEF RoomDecides, Running
  <2>3. CASE pc = "stopped"
    <3>1. Asked[pc] \subseteq Used /\ {"Idle", "Timer"} \subseteq Asked[pc]
      BY <2>3 DEF Asked, Used, Objects, Logs, Net
    <3>2. PICK o \in {"Idle", "Timer"} : o \notin created
      BY <2>3 DEF IInv, BootOK
    <3>3. o \in failed
      BY <2>1, <3>1, <3>2 DEF HeapOK, Heap
    <3>4. heap < Units(Used) /\ Units(Used) \in Nat
      <4>1. heap < Units(Used)
        BY <2>1, <3>1, <3>3, NoRoom DEF Heap
      <4> QED
        BY <4>1, UnitsMonotone DEF Used
    <3> QED
      BY <2>1, <2>3, <3>4 DEF RoomDecides, Running
  <2>4. CASE pc = "running" /\ "Logger" \notin created
    <3>1. Asked[pc] \subseteq Used /\ "Logger" \in Asked[pc] /\ "Logger" \in Used
      BY <2>4 DEF Asked, Used, Objects, Logs, Net
    <3>2. "Logger" \in failed
      BY <2>1, <2>4, <3>1 DEF HeapOK, Heap
    <3>3. heap < Units(Used) /\ Units(Used) \in Nat
      <4>1. heap < Units(Used)
        BY <2>1, <3>1, <3>2, NoRoom DEF Heap
      <4> QED
        BY <4>1, UnitsMonotone DEF Used
    <3> QED
      BY <2>1, <2>4, <3>1, <3>3 DEF RoomDecides
  <2>5. CASE pc = "reading"
    <3>1. Asked[pc] = Used
      BY <2>5, SizeAssumption DEF Asked, Used, Objects, Logs, Net
    <3>2. heap >= Units(Used) <=> created = Used
      BY <2>1, <3>1, RoomForAll DEF Heap
    <3> QED
      BY <2>5, <3>2 DEF RoomDecides, Running
  <2> QED
    BY <2>2, <2>3, <2>4, <2>5 DEF Ended
<1> QED
  BY <1>1, Inductive, PTL
=============================================================================
