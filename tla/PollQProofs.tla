---------------------------- MODULE PollQProofs ----------------------------
(***************************************************************************)
(* Theorems about PollQ: for all delays and latenesses that satisfy the    *)
(* two inequalities of DelaysAssumption, the queue is never found full, no *)
(* value is lost and the check function gives no false alarm.              *)
(***************************************************************************)
EXTENDS PollQ, SequenceTheorems, TLAPS

P == pollqPRODUCER_DELAY
C == pollqCONSUMER_DELAY
V == pollqVALUES_TO_PRODUCE

TypeOK ==
    /\ pcProducer \in {"produce", "delay"}
    /\ pcConsumer \in {"consume", "compare", "foundEmpty", "delay"}
    /\ producerTicks \in Nat /\ consumerTicks \in Nat
    /\ xPolledQueue \in Seq(0 .. ValueMod - 1)
    /\ Len(xPolledQueue) <= pollqQUEUE_SIZE
    /\ xLoop \in 0 .. V
    /\ usValue \in 0 .. ValueMod - 1 /\ usData \in 0 .. ValueMod - 1
    /\ usExpectedValue \in 0 .. ValueMod - 1
    /\ xError \in [producer : BOOLEAN, consumer : BOOLEAN]
    /\ xPollingProducerCount \in BOOLEAN /\ xPollingConsumerCount \in BOOLEAN
    /\ sinceCheck \in 0 .. CheckPeriod
    /\ xReturn \in BOOLEAN

\* A task that is awake is late by MaxLate at most, and one that sleeps has posted all.
Timely ==
    /\ pcProducer = "produce" => producerTicks <= MaxLate
    /\ pcProducer = "delay" => producerTicks \in 1 .. P /\ xLoop = 0
    /\ pcConsumer # "delay" => consumerTicks <= MaxLate
    /\ pcConsumer = "delay" => consumerTicks \in 1 .. C

\* The time since the producer went to sleep.
Asleep == IF pcProducer = "delay" THEN P - producerTicks ELSE P + producerTicks

\* The most time that can have passed since the consumer found the queue empty.
Unseen == IF pcConsumer = "foundEmpty" THEN consumerTicks
          ELSE IF pcConsumer = "delay" THEN MaxLate + C - consumerTicks
          ELSE MaxLate + C + consumerTicks

\* What is in the queue has been posted since then, in so many turns of the producer, and
\* between two turns it has slept.
Backlog ==
    \/ Len(xPolledQueue) <= xLoop
    \/ Len(xPolledQueue) <= V + xLoop     /\ Asleep <= Unseen
    \/ Len(xPolledQueue) <= 2 * V + xLoop /\ P + Asleep <= Unseen
    \/ Len(xPolledQueue) <= 3 * V + xLoop /\ 2 * P + Asleep <= Unseen

\* k values on from e.
Ahead(e, k) == IF e + k < ValueMod THEN e + k ELSE e + k - ValueMod

Held == IF pcConsumer = "compare" THEN 1 ELSE 0

\* The value in the consumer's hand, those in the queue and the next one are consecutive.
Consecutive ==
    /\ pcConsumer = "compare" => usData = usExpectedValue
    /\ \A i \in 1 .. Len(xPolledQueue) :
          xPolledQueue[i] = Ahead(usExpectedValue, Held + (i - 1))
    /\ usValue = Ahead(usExpectedValue, Held + Len(xPolledQueue))

\* A task whose check variable has not changed since the check has had no turn since
\* then; what the consumer has not taken may still be on its way to it.
Turns ==
    /\ ~xPollingProducerCount =>
          sinceCheck <= IF pcProducer = "delay" THEN MaxLate + P - producerTicks
                        ELSE IF xLoop = V THEN producerTicks
                        ELSE MaxLate + P + producerTicks
    /\ ~xPollingConsumerCount =>
          IF xPolledQueue # <<>> \/ pcConsumer = "compare"
          THEN sinceCheck <= 2 * MaxLate + P + Unseen
          ELSE ~xPollingProducerCount
    /\ xReturn

NoErrors == ~xError["producer"] /\ ~xError["consumer"]

IInv == TypeOK /\ Timely /\ Backlog /\ Consecutive /\ Turns /\ NoErrors
-----------------------------------------------------------------------------
LEMMA Modulus ==
    ASSUME NEW M \in Nat \ {0}, NEW x \in 0 .. 2 * M - 1
    PROVE  x % M = IF x < M THEN x ELSE x - M
<1>1. CASE x < M
    BY <1>1
<1>2. CASE ~(x < M)
    BY <1>2
<1> QED
    BY <1>1, <1>2

\* Counting on by one from the k-th value after e, and from the value after e.
LEMMA AheadStep ==
    ASSUME NEW e \in 0 .. ValueMod - 1, NEW k \in 0 .. ValueMod - 1
    PROVE  /\ Next1(e) \in 0 .. ValueMod - 1
           /\ Ahead(e, k) \in 0 .. ValueMod - 1
           /\ Next1(Ahead(e, k)) = Ahead(e, k + 1)
           /\ Ahead(Next1(e), k) = Ahead(e, k + 1)
<1>1. ValueMod \in Nat \ {0}
    BY ParametersAssumption
<1>2. \A x \in 0 .. 2 * ValueMod - 1 : x % ValueMod = IF x < ValueMod THEN x ELSE x - ValueMod
    BY <1>1, Modulus
<1>3. Ahead(e, k) \in 0 .. ValueMod - 1
    BY <1>1 DEF Ahead
<1>4. /\ Next1(e) = IF e + 1 < ValueMod THEN e + 1 ELSE e + 1 - ValueMod
      /\ Next1(Ahead(e, k)) = IF Ahead(e, k) + 1 < ValueMod THEN Ahead(e, k) + 1
                              ELSE Ahead(e, k) + 1 - ValueMod
    BY <1>1, <1>2, <1>3 DEF Next1
<1> QED
    BY <1>1, <1>3, <1>4 DEF Ahead

\* Counting on is addition modulo ValueMod.
LEMMA AheadWraps ==
    ASSUME NEW e \in 0 .. ValueMod - 1, NEW k \in 0 .. ValueMod
    PROVE  Ahead(e, k) = (e + k) % ValueMod
<1> DEFINE s == e + k
<1>1. ValueMod \in Nat \ {0}
    BY ParametersAssumption
<1>2. s \in 0 .. 2 * ValueMod - 1
    BY <1>1
<1>3. s % ValueMod = IF s < ValueMod THEN s ELSE s - ValueMod
  <2> HIDE DEF s
  <2> QED
      BY <1>1, <1>2, Modulus
<1>4. Ahead(e, k) = IF s < ValueMod THEN s ELSE s - ValueMod
    BY <1>1 DEF Ahead
<1>5. Ahead(e, k) = s % ValueMod
  <2> HIDE DEF s
  <2> QED
      BY <1>3, <1>4
<1> QED
    BY <1>5

\* The parameters as numbers, with the inequalities of DelaysAssumption.
LEMMA Parameters ==
    /\ P \in Nat \ {0} /\ C \in Nat \ {0} /\ V \in Nat \ {0} /\ MaxLate \in Nat \ {0}
    /\ pollqQUEUE_SIZE \in Nat \ {0} /\ CheckPeriod \in Nat \ {0} /\ ValueMod \in Nat \ {0}
    /\ pollqQUEUE_SIZE < ValueMod
    /\ C + 2 * MaxLate < 3 * P
    /\ 3 * V <= pollqQUEUE_SIZE
    /\ P + C + 4 * MaxLate < CheckPeriod
BY ParametersAssumption, DelaysAssumption DEF P, C, V

LEMMA Initially == Init => IInv
<1> SUFFICES ASSUME Init PROVE IInv
    OBVIOUS
<1> USE Parameters DEF Init
<1>1. xPolledQueue \in Seq(0 .. ValueMod - 1) /\ Len(xPolledQueue) = 0
    OBVIOUS
<1>2. TypeOK
  <2>1. xError \in [producer : BOOLEAN, consumer : BOOLEAN]
      OBVIOUS
  <2>2. /\ xLoop \in 0 .. V /\ sinceCheck \in 0 .. CheckPeriod
        /\ usValue \in 0 .. ValueMod - 1 /\ usData \in 0 .. ValueMod - 1
        /\ usExpectedValue \in 0 .. ValueMod - 1 /\ Len(xPolledQueue) <= pollqQUEUE_SIZE
        /\ producerTicks \in Nat /\ consumerTicks \in Nat
      BY <1>1
  <2> QED
      BY <1>1, <2>1, <2>2 DEF TypeOK
<1>3. Timely /\ Backlog /\ Turns /\ NoErrors
    BY <1>1 DEF Timely, Backlog, Turns, NoErrors
<1>4. Consecutive
    BY <1>1 DEF Consecutive, Ahead, Held
<1> QED
    BY <1>2, <1>3, <1>4 DEF IInv

\* When the producer posts, there is room: its backlog is that of less than three turns.
LEMMA RoomAtSend ==
    ASSUME IInv, pcProducer = "produce", xLoop < V
    PROVE  Len(xPolledQueue) < pollqQUEUE_SIZE
<1>1. Len(xPolledQueue) \in Nat
    BY DEF IInv, TypeOK
<1>2. Asleep >= P /\ Unseen <= C + 2 * MaxLate /\ Asleep \in Nat /\ Unseen \in Nat
    BY Parameters DEF IInv, TypeOK, Timely, Asleep, Unseen
<1> QED
    BY <1>1, <1>2, Parameters DEF IInv, TypeOK, Backlog

LEMMA Producing == ASSUME IInv, Produce PROVE IInv'
<1> USE Parameters DEF IInv
<1>1. Len(xPolledQueue) < pollqQUEUE_SIZE
    BY RoomAtSend DEF Produce, V
<1>2. /\ pcProducer = "produce" /\ xLoop < V /\ xLoop' = xLoop + 1
      /\ xPolledQueue' = Append(xPolledQueue, usValue) /\ usValue' = Next1(usValue)
      /\ xPollingProducerCount' = TRUE /\ xError' = xError
      /\ UNCHANGED <<pcProducer, producerTicks, pcConsumer, consumerTicks, usData,
                     usExpectedValue, xPollingConsumerCount, sinceCheck, xReturn>>
    BY <1>1 DEF Produce, Send, V, NoErrors, TypeOK, consumer, check
<1>3. /\ xPolledQueue' \in Seq(0 .. ValueMod - 1)
      /\ Len(xPolledQueue') = Len(xPolledQueue) + 1
      /\ \A i \in 1 .. Len(xPolledQueue) : xPolledQueue'[i] = xPolledQueue[i]
      /\ xPolledQueue'[Len(xPolledQueue) + 1] = usValue
      /\ Len(xPolledQueue) \in Nat /\ xPolledQueue' # <<>>
    BY <1>2 DEF TypeOK
<1>4. TypeOK'
  <2>1. usValue' \in 0 .. ValueMod - 1
      BY <1>2, AheadStep DEF TypeOK
  <2> QED
      BY <1>1, <1>2, <1>3, <2>1 DEF TypeOK
<1>5. Timely'
    BY <1>2 DEF Timely
<1>6. Backlog'
  <2>1. Asleep' = Asleep /\ Unseen' = Unseen
      BY <1>2 DEF Asleep, Unseen
  <2> QED
      BY <1>2, <1>3, <2>1 DEF Backlog, TypeOK
<1>7. Consecutive'
  <2> DEFINE n == Len(xPolledQueue)
  <2>1. Held' = Held /\ Held \in 0 .. 1 /\ usExpectedValue' = usExpectedValue
      BY <1>2 DEF Held
  <2>2. Held + n \in 0 .. ValueMod - 1 \/ Held + n = ValueMod
      BY <1>1, <1>3, <2>1
  <2>3. Held + n \in 0 .. ValueMod - 1
      BY <1>1, <1>3, <2>1
  <2>4. usValue' = Ahead(usExpectedValue, Held + n + 1)
      BY <1>2, <2>3, AheadStep DEF TypeOK, Consecutive
  <2>5. \A i \in 1 .. n + 1 : xPolledQueue'[i] = Ahead(usExpectedValue, Held + (i - 1))
    <3> TAKE i \in 1 .. n + 1
    <3>1. CASE i \in 1 .. n
        BY <1>3, <3>1 DEF Consecutive
    <3>2. CASE i = n + 1
      <4>1. i - 1 = n
          BY <1>3, <3>2
      <4> QED
          BY <1>3, <3>2, <4>1 DEF Consecutive
    <3> QED
        BY <1>3, <3>1, <3>2
  <2>6. Held + n + 1 = Held' + Len(xPolledQueue')
      BY <1>3, <2>1
  <2>7. pcConsumer' = "compare" => usData' = usExpectedValue'
      BY <1>2 DEF Consecutive
  <2> QED
      BY <1>3, <2>1, <2>4, <2>5, <2>6, <2>7 DEF Consecutive
<1>8. Turns'
  <2>1. Unseen' = Unseen /\ Unseen \in Nat
      BY <1>2 DEF Unseen, Timely, TypeOK
  <2>2. ~xPollingProducerCount => sinceCheck <= MaxLate + P + producerTicks
      BY <1>2 DEF Turns
  <2>3. ~xPollingConsumerCount => sinceCheck <= 2 * MaxLate + P + Unseen
      BY <1>2, <2>1, <2>2 DEF Turns, Timely, TypeOK
  <2> QED
      BY <1>2, <1>3, <2>1, <2>3 DEF Turns
<1>9. NoErrors'
    BY <1>2 DEF NoErrors
<1> QED
    BY <1>4, <1>5, <1>6, <1>7, <1>8, <1>9

LEMMA Sleeping == ASSUME IInv, ProducerSleeps \/ ConsumerSleeps \/ FoundEmpty PROVE IInv'
<1> USE Parameters DEF IInv
<1>0. Len(xPolledQueue) \in Nat
    BY DEF TypeOK
<1>1. CASE ProducerSleeps
  <2>1. /\ pcProducer = "produce" /\ xLoop = V /\ pcProducer' = "delay"
        /\ producerTicks' = P /\ xLoop' = 0
        /\ UNCHANGED <<usValue, pcConsumer, consumerTicks, usData, usExpectedValue,
                       xPolledQueue, xError, xPollingProducerCount, xPollingConsumerCount,
                       sinceCheck, xReturn>>
      BY <1>1 DEF ProducerSleeps, P, V, consumer, counts, check
  <2>2. TypeOK' /\ Timely' /\ NoErrors'
      BY <2>1 DEF TypeOK, Timely, NoErrors
  <2>3. Backlog'
    <3>1. Asleep' = 0 /\ Unseen' = Unseen /\ Asleep = P + producerTicks
        BY <2>1 DEF Asleep, Unseen
    <3>2. Unseen \in Nat /\ Unseen <= C + 2 * MaxLate
        BY DEF Unseen, Timely, TypeOK
    <3> QED
        BY <1>0, <2>1, <3>1, <3>2 DEF Backlog, TypeOK
  <2>4. Consecutive'
      BY <2>1 DEF Consecutive, Held
  <2>5. Turns'
      BY <2>1 DEF Turns, Timely, TypeOK, Unseen
  <2> QED
      BY <2>2, <2>3, <2>4, <2>5
<1>2. CASE ConsumerSleeps
  <2>1. /\ pcConsumer = "foundEmpty" /\ pcConsumer' = "delay" /\ consumerTicks' = C
        /\ UNCHANGED <<pcProducer, producerTicks, xLoop, usValue, usData, usExpectedValue,
                       xPolledQueue, xError, xPollingProducerCount, xPollingConsumerCount,
                       sinceCheck, xReturn>>
      BY <1>2 DEF ConsumerSleeps, C, producer, counts, check
  <2>2. TypeOK' /\ Timely' /\ NoErrors'
      BY <2>1 DEF TypeOK, Timely, NoErrors
  <2>3. Asleep' = Asleep /\ Unseen' >= Unseen /\ Unseen \in Nat /\ Unseen' \in Nat
      BY <2>1 DEF Asleep, Unseen, Timely, TypeOK
  <2>4. Asleep \in Nat
      BY DEF Asleep, Timely, TypeOK
  <2>5. Backlog'
      BY <1>0, <2>1, <2>3, <2>4 DEF Backlog, TypeOK
  <2>6. Consecutive'
      BY <2>1 DEF Consecutive, Held
  <2>7. Turns'
    <3>1. sinceCheck \in Nat
        BY DEF TypeOK
    <3>2. \A s, u, v \in Nat :
            s <= 2 * MaxLate + P + u /\ u <= v => s <= 2 * MaxLate + P + v
        OBVIOUS
    <3>3. ~xPollingConsumerCount =>
            IF xPolledQueue # <<>> THEN sinceCheck <= 2 * MaxLate + P + Unseen'
            ELSE ~xPollingProducerCount
        BY <2>1, <2>3, <3>1, <3>2 DEF Turns
    <3>4. /\ xReturn
          /\ ~xPollingProducerCount =>
               sinceCheck <= IF pcProducer = "delay" THEN MaxLate + P - producerTicks
                             ELSE IF xLoop = V THEN producerTicks
                             ELSE MaxLate + P + producerTicks
        BY DEF Turns
    <3> QED
        BY <2>1, <3>3, <3>4 DEF Turns
  <2> QED
      BY <2>2, <2>5, <2>6, <2>7
<1>3. CASE FoundEmpty
  <2>1. /\ pcConsumer = "consume" /\ xPolledQueue = <<>> /\ pcConsumer' = "foundEmpty"
        /\ UNCHANGED <<pcProducer, producerTicks, xLoop, usValue, consumerTicks, usData,
                       usExpectedValue, xPolledQueue, xError, xPollingProducerCount,
                       xPollingConsumerCount, sinceCheck, xReturn>>
      BY <1>3 DEF FoundEmpty, producer, counts, check
  <2>2. TypeOK' /\ Timely' /\ NoErrors'
      BY <2>1 DEF TypeOK, Timely, NoErrors
  <2>3. Backlog'
      BY <2>1 DEF Backlog, TypeOK
  <2>4. Consecutive'
      BY <2>1 DEF Consecutive, Held
  <2>5. Turns'
      BY <2>1 DEF Turns
  <2> QED
      BY <2>2, <2>3, <2>4, <2>5
<1> QED
    BY <1>1, <1>2, <1>3

LEMMA Receiving == ASSUME IInv, Receive PROVE IInv'
<1> USE Parameters DEF IInv
<1> DEFINE n == Len(xPolledQueue)
<1>1. /\ pcConsumer = "consume" /\ xPolledQueue # <<>> /\ pcConsumer' = "compare"
      /\ usData' = Head(xPolledQueue) /\ xPolledQueue' = Tail(xPolledQueue)
      /\ UNCHANGED <<pcProducer, producerTicks, xLoop, usValue, consumerTicks,
                     usExpectedValue, xError, xPollingProducerCount,
                     xPollingConsumerCount, sinceCheck, xReturn>>
    BY DEF Receive, producer, counts, check
<1>2. /\ n \in Nat \ {0} /\ Len(xPolledQueue') = n - 1
      /\ xPolledQueue' \in Seq(0 .. ValueMod - 1)
      /\ usData' = xPolledQueue[1] /\ usData' \in 0 .. ValueMod - 1
      /\ \A i \in 1 .. n - 1 : xPolledQueue'[i] = xPolledQueue[i + 1]
    BY <1>1 DEF TypeOK
<1>3. TypeOK' /\ Timely' /\ NoErrors'
    BY <1>1, <1>2 DEF TypeOK, Timely, NoErrors
<1>4. Asleep' = Asleep /\ Unseen' = Unseen
    BY <1>1 DEF Asleep, Unseen
<1>5. Backlog'
    BY <1>1, <1>2, <1>4 DEF Backlog, TypeOK
<1>6. Consecutive'
  <2>1. Held = 0 /\ Held' = 1
      BY <1>1 DEF Held
  <2>2. usData' = usExpectedValue'
    <3>1. usData' = Ahead(usExpectedValue, 0)
        BY <1>2, <2>1 DEF Consecutive
    <3> QED
        BY <1>1, <3>1 DEF Ahead, TypeOK
  <2>3. \A i \in 1 .. n - 1 : xPolledQueue'[i] = Ahead(usExpectedValue, 1 + (i - 1))
    <3> TAKE i \in 1 .. n - 1
    <3>1. i + 1 \in 1 .. n /\ Held + ((i + 1) - 1) = 1 + (i - 1)
        BY <1>2, <2>1
    <3>2. xPolledQueue[i + 1] = Ahead(usExpectedValue, Held + ((i + 1) - 1))
        BY <3>1 DEF Consecutive
    <3> QED
        BY <1>2, <3>1, <3>2
  <2>4. 1 + (n - 1) = Held + n
      BY <1>2, <2>1
  <2> QED
      BY <1>1, <1>2, <2>1, <2>2, <2>3, <2>4 DEF Consecutive
<1>7. Turns'
    BY <1>1, <1>4 DEF Turns
<1> QED
    BY <1>3, <1>5, <1>6, <1>7

LEMMA Comparing == ASSUME IInv, Compare PROVE IInv'
<1> USE Parameters DEF IInv
<1> DEFINE n == Len(xPolledQueue)
<1>1. /\ pcConsumer = "compare" /\ pcConsumer' = "consume"
      /\ usExpectedValue' = Next1(usExpectedValue)
      /\ xPollingConsumerCount' = TRUE /\ xError' = xError
      /\ UNCHANGED <<pcProducer, producerTicks, xLoop, usValue, consumerTicks, usData,
                     xPolledQueue, xPollingProducerCount, sinceCheck, xReturn>>
    BY DEF Compare, Consecutive, NoErrors, TypeOK, producer, check
<1>2. n \in Nat /\ n <= pollqQUEUE_SIZE
    BY DEF TypeOK
<1>3. TypeOK'
  <2>1. usExpectedValue' \in 0 .. ValueMod - 1
      BY <1>1, AheadStep DEF TypeOK
  <2> QED
      BY <1>1, <2>1 DEF TypeOK
<1>4. Timely' /\ NoErrors'
    BY <1>1 DEF Timely, NoErrors
<1>5. Backlog'
  <2>1. Asleep' = Asleep /\ Unseen' = Unseen
      BY <1>1 DEF Asleep, Unseen
  <2> QED
      BY <1>1, <2>1 DEF Backlog
<1>6. Consecutive'
  <2>1. Held = 1 /\ Held' = 0
      BY <1>1 DEF Held
  <2>2. \A k \in 0 .. n : Ahead(usExpectedValue', k) = Ahead(usExpectedValue, k + 1)
    <3> TAKE k \in 0 .. n
    <3>1. k \in 0 .. ValueMod - 1
        BY <1>2
    <3> QED
        BY <1>1, <3>1, AheadStep DEF TypeOK
  <2>3. \A i \in 1 .. n : xPolledQueue[i] = Ahead(usExpectedValue', 0 + (i - 1))
    <3> TAKE i \in 1 .. n
    <3>1. i - 1 \in 0 .. n /\ (i - 1) + 1 = Held + (i - 1) /\ 0 + (i - 1) = i - 1
        BY <1>2, <2>1
    <3> QED
        BY <2>2, <3>1 DEF Consecutive
  <2>4. usValue = Ahead(usExpectedValue', 0 + n)
    <3>1. n \in 0 .. n /\ n + 1 = Held + n /\ 0 + n = n
        BY <1>2, <2>1
    <3> QED
        BY <2>2, <3>1 DEF Consecutive
  <2> QED
      BY <1>1, <2>1, <2>3, <2>4 DEF Consecutive
<1>7. Turns'
  <2>1. Unseen' = Unseen
      BY <1>1 DEF Unseen
  <2> QED
      BY <1>1, <2>1 DEF Turns
<1> QED
    BY <1>3, <1>4, <1>5, <1>6, <1>7

\* A tick lengthens every time by one, and a sleep that ends is not a moment too long.
LEMMA Ticking == ASSUME IInv, Tick PROVE IInv'
<1> USE Parameters DEF IInv
<1>1. /\ UNCHANGED <<xLoop, usValue, usData, usExpectedValue, xPolledQueue, xError,
                     xPollingProducerCount, xPollingConsumerCount, xReturn>>
      /\ sinceCheck' = sinceCheck + 1 /\ sinceCheck < CheckPeriod
    BY DEF Tick, counts
<1>2. \/ /\ pcProducer = "delay" /\ producerTicks' = producerTicks - 1
         /\ pcProducer' = IF producerTicks = 1 THEN "produce" ELSE "delay"
      \/ /\ pcProducer = "produce" /\ producerTicks < MaxLate
         /\ producerTicks' = producerTicks + 1 /\ pcProducer' = "produce"
    BY DEF Tick, TickOf, Woken, TypeOK
<1>3. \/ /\ pcConsumer = "delay" /\ consumerTicks' = consumerTicks - 1
         /\ pcConsumer' = IF consumerTicks = 1 THEN "consume" ELSE "delay"
      \/ /\ pcConsumer # "delay" /\ consumerTicks < MaxLate
         /\ consumerTicks' = consumerTicks + 1 /\ pcConsumer' = pcConsumer
    BY DEF Tick, TickOf, Woken, TypeOK
<1>4. TypeOK' /\ NoErrors'
    BY <1>1, <1>2, <1>3 DEF TypeOK, Timely, NoErrors
<1>5. Timely'
    BY <1>1, <1>2, <1>3 DEF Timely, TypeOK
<1>6. /\ Asleep' = Asleep + 1 /\ Asleep \in Nat
  <2>1. producerTicks \in Nat
      BY DEF TypeOK
  <2>2. CASE pcProducer = "delay"
      BY <1>2, <2>1, <2>2 DEF Asleep, Timely
  <2>3. CASE pcProducer # "delay"
      BY <1>2, <2>1, <2>3 DEF Asleep
  <2> QED
      BY <2>2, <2>3
<1>7. /\ Unseen' = Unseen + 1 /\ Unseen \in Nat
  <2>1. consumerTicks \in Nat
      BY DEF TypeOK
  <2>2. CASE pcConsumer = "delay"
      BY <1>3, <2>1, <2>2 DEF Unseen, Timely
  <2>3. CASE pcConsumer # "delay"
      BY <1>3, <2>1, <2>3 DEF Unseen
  <2> QED
      BY <2>2, <2>3
<1>8. Backlog'
  <2>1. Len(xPolledQueue) \in Nat
      BY DEF TypeOK
  <2> QED
      BY <1>1, <1>6, <1>7, <2>1 DEF Backlog, TypeOK
<1>9. Consecutive'
    BY <1>1, <1>3 DEF Consecutive, Held
<1>10. Turns'
  <2>1. ~xPollingProducerCount' =>
          sinceCheck' <= IF pcProducer' = "delay" THEN MaxLate + P - producerTicks'
                         ELSE IF xLoop' = V THEN producerTicks'
                         ELSE MaxLate + P + producerTicks'
      BY <1>1, <1>2 DEF Turns, Timely, TypeOK
  <2>2. ~xPollingConsumerCount' =>
          IF xPolledQueue' # <<>> \/ pcConsumer' = "compare"
          THEN sinceCheck' <= 2 * MaxLate + P + Unseen' ELSE ~xPollingProducerCount'
      BY <1>1, <1>3, <1>7 DEF Turns, TypeOK
  <2> QED
      BY <1>1, <2>1, <2>2 DEF Turns
<1> QED
    BY <1>4, <1>5, <1>8, <1>9, <1>10

\* When the check comes, both tasks have had a turn since the last one.
LEMMA Checking == ASSUME IInv, xArePollingQueuesStillRunning PROVE IInv'
<1> USE Parameters DEF IInv
<1>1. xPollingProducerCount
  <2>1. producerTicks \in Nat /\ sinceCheck = CheckPeriod
      BY DEF TypeOK, xArePollingQueuesStillRunning
  <2> QED
      BY <2>1 DEF Turns, Timely, TypeOK
<1>2. xPollingConsumerCount
  <2>1. Unseen <= C + 2 * MaxLate /\ Unseen \in Nat /\ sinceCheck = CheckPeriod
      BY DEF Unseen, Timely, TypeOK, xArePollingQueuesStillRunning
  <2> QED
      BY <1>1, <2>1 DEF Turns
<1>3. /\ xReturn' = TRUE /\ sinceCheck' = 0
      /\ xPollingProducerCount' = FALSE /\ xPollingConsumerCount' = FALSE
      /\ UNCHANGED <<pcProducer, producerTicks, xLoop, usValue, pcConsumer, consumerTicks,
                     usData, usExpectedValue, xPolledQueue, xError>>
    BY <1>1, <1>2 DEF xArePollingQueuesStillRunning, producer, consumer, TypeOK
<1>4. TypeOK' /\ Timely' /\ NoErrors'
  <2>1. sinceCheck' \in 0 .. CheckPeriod
      BY <1>3
  <2>2. TypeOK'
      BY <1>3, <2>1 DEF TypeOK
  <2> QED
      BY <1>3, <2>2 DEF Timely, NoErrors
<1>5. Backlog' /\ Consecutive'
    BY <1>3 DEF Backlog, Asleep, Unseen, Consecutive, Held
<1>6. Turns'
  <2>1. 0 <= 2 * MaxLate + P + Unseen'
    <3>1. Unseen' \in Nat
        BY <1>3 DEF Unseen, Timely, TypeOK
    <3>2. \A u \in Nat : 0 <= 2 * MaxLate + P + u
        OBVIOUS
    <3> QED
        BY <3>1, <3>2
  <2>2. producerTicks' \in Nat /\ (pcProducer' = "delay" => producerTicks' <= P)
      BY <1>3 DEF Timely, TypeOK
  <2>3. ~xPollingProducerCount' =>
          sinceCheck' <= IF pcProducer' = "delay" THEN MaxLate + P - producerTicks'
                         ELSE IF xLoop' = V THEN producerTicks'
                         ELSE MaxLate + P + producerTicks'
      BY <1>3, <2>2
  <2>4. ~xPollingConsumerCount' =>
          IF xPolledQueue' # <<>> \/ pcConsumer' = "compare"
          THEN sinceCheck' <= 2 * MaxLate + P + Unseen' ELSE ~xPollingProducerCount'
      BY <1>3, <2>1
  <2>5. xReturn'
      BY <1>3
  <2> QED
      BY <2>3, <2>4, <2>5 DEF Turns
<1> QED
    BY <1>4, <1>5, <1>6

THEOREM Invariance == Spec => []IInv
<1>1. IInv /\ [Next]_vars => IInv'
  <2> SUFFICES ASSUME IInv, [Next]_vars PROVE IInv'
      OBVIOUS
  <2>1. CASE Producer
      BY <2>1, Producing, Sleeping DEF Producer
  <2>2. CASE Consumer
      BY <2>2, Receiving, Comparing, Sleeping DEF Consumer
  <2>3. CASE Tick \/ xArePollingQueuesStillRunning
      BY <2>3, Ticking, Checking
  <2>4. CASE UNCHANGED vars
      BY <2>4 DEF vars, producer, consumer, counts, check, IInv, TypeOK, Timely, Backlog,
         Asleep, Unseen, Consecutive, Held, Turns, NoErrors
  <2> QED
      BY <2>1, <2>2, <2>3, <2>4 DEF Next
<1> QED
    BY Initially, <1>1, PTL DEF Spec

\* "We should never find the queue full": whatever the delays, as long as the consumer's
\* delay and twice the lateness are less than three of the producer's delays.
THEOREM NeverFull == Spec => []ProducerNeverFindsFull
<1>1. IInv => ProducerNeverFindsFull
    BY DEF IInv, NoErrors, ProducerNeverFindsFull
<1> QED
    BY Invariance, <1>1, PTL

\* Every value posted is received once and in order, with numbers that wrap.
THEOREM EveryValueArrives == Spec => []NothingLost
<1>1. ASSUME IInv PROVE NothingLost
  <2> USE <1>1, Parameters DEF IInv
  <2>1. Len(xPolledQueue) \in Nat /\ Len(xPolledQueue) <= pollqQUEUE_SIZE /\ Held \in 0 .. 1
      BY DEF TypeOK, Held
  <2> DEFINE n == Len(xPolledQueue)
  <2>2. Held + n \in 0 .. ValueMod /\ usExpectedValue \in 0 .. ValueMod - 1
      BY <2>1 DEF TypeOK
  <2>3. usValue = (usExpectedValue + (Held + n)) % ValueMod
      BY <2>2, AheadWraps DEF Consecutive
  <2>4. usExpectedValue + (Held + n) = usExpectedValue + n + Held
      BY <2>1, <2>2
  <2> QED
      BY <2>3, <2>4 DEF NothingLost, NoErrors, Held
<1> QED
    BY Invariance, <1>1, PTL

\* The check function never reports a stall while the tasks keep their time.
THEOREM NoFalseAlarm == Spec => []CheckSucceeds
<1>1. IInv => CheckSucceeds
    BY DEF IInv, Turns, CheckSucceeds
<1> QED
    BY Invariance, <1>1, PTL
=============================================================================
