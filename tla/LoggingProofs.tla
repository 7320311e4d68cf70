---------------------------- MODULE LoggingProofs ----------------------------
(***************************************************************************)
(* Proofs about Logging.tla, for any set of writers, any sizes that keep   *)
(* the order relations of SizesAssumption and any bound on the calls.      *)
(***************************************************************************)
EXTENDS Logging, TLAPS, SequenceTheorems

\* An item is a sequence of bytes; the longest fits the empty stream buffer,
\* the shortest reaches the trigger level.
LEMMA ItemBytesProperties ==
    ASSUME NEW t \in Callers, NEW item \in Item
    PROVE  /\ ItemLength(item.body) \in Nat
           /\ ItemLength(item.body) <= LOGGING_STREAM_BUFFER_SIZE
           /\ ItemLength(item.body) >= LOGGING_SEGMENT_SIZE
           /\ ItemBytes(t, item) \in Seq(Byte)
           /\ Len(ItemBytes(t, item)) = ItemLength(item.body)
<1>1. item.body \in Nat /\ item.number \in 0 .. NumberMod - 1
    BY SizesAssumption DEF Item
<1>2. /\ ItemLength(item.body) \in Nat
      /\ ItemLength(item.body) <= LOGGING_STREAM_BUFFER_SIZE
      /\ ItemLength(item.body) >= LOGGING_SEGMENT_SIZE
    BY <1>1, SizesAssumption DEF ItemLength, Least
<1>3. ItemBytes(t, item) \in [1 .. ItemLength(item.body) -> Byte]
    BY <1>1, <1>2 DEF ItemBytes, Byte
<1>4. ItemBytes(t, item) \in Seq(Byte)
    BY <1>2, <1>3
<1>5. Len(ItemBytes(t, item)) = ItemLength(item.body)
    BY <1>2, <1>3, <1>4, LenProperties
<1> QED
    BY <1>2, <1>4, <1>5

\* Splitting a sequence in two and appending the first part elsewhere loses and
\* duplicates nothing: what a read of n bytes does to the stream.
LEMMA ReadSplits ==
    ASSUME NEW S, NEW r \in Seq(S), NEW b \in Seq(S), NEW n \in 0 .. Len(b)
    PROVE  /\ SubSeq(b, 1, n) \in Seq(S)
           /\ Len(SubSeq(b, 1, n)) = n
           /\ SubSeq(b, n + 1, Len(b)) \in Seq(S)
           /\ Len(SubSeq(b, n + 1, Len(b))) = Len(b) - n
           /\ r \o SubSeq(b, 1, n) \in Seq(S)
           /\ SubSeq(b, 1, n) \o SubSeq(b, n + 1, Len(b)) = b
           /\ r \o SubSeq(b, 1, n) = SubSeq(r \o b, 1, Len(r) + n)
<1>0. Len(b) \in Nat /\ Len(r) \in Nat /\ n \in Nat /\ n <= Len(b)
    BY LenProperties
<1>1. /\ SubSeq(b, 1, n) \in Seq(S)
      /\ Len(SubSeq(b, 1, n)) = n
      /\ \A i \in 1 .. n : SubSeq(b, 1, n)[i] = b[i]
  <2>1. \A i \in 1 .. n : b[i] \in S
      BY <1>0, ElementOfSeq
  <2> QED
      BY <1>0, <2>1, SubSeqProperties
<1>2. /\ SubSeq(b, n + 1, Len(b)) \in Seq(S)
      /\ Len(SubSeq(b, n + 1, Len(b))) = Len(b) - n
  <2>1. \A i \in n + 1 .. Len(b) : b[i] \in S
      BY <1>0, ElementOfSeq
  <2> QED
      BY <1>0, <2>1, SubSeqProperties
<1>3. SubSeq(b, 1, n) \o SubSeq(b, n + 1, Len(b)) = b
  <2>1. SubSeq(b, 1, n) \o SubSeq(b, n + 1, Len(b)) = SubSeq(b, 1, Len(b))
    <3>1. /\ 1 \in 1 .. Len(b) + 1
          /\ n \in 1 - 1 .. Len(b)
          /\ Len(b) \in n .. Len(b)
        BY <1>0
    <3> QED
        BY <3>1, ConcatAdjacentSubSeq
  <2> QED
      BY <2>1, SubSeqFull
<1>4. r \o SubSeq(b, 1, n) \in Seq(S)
    BY <1>1, ConcatProperties
<1>5. r \o SubSeq(b, 1, n) = SubSeq(r \o b, 1, Len(r) + n)
  <2> DEFINE left == r \o SubSeq(b, 1, n)
             right == SubSeq(r \o b, 1, Len(r) + n)
  <2>1. /\ r \o b \in Seq(S) /\ Len(r \o b) = Len(r) + Len(b)
        /\ \A i \in 1 .. Len(r) + Len(b) :
              (r \o b)[i] = IF i <= Len(r) THEN r[i] ELSE b[i - Len(r)]
      BY ConcatProperties
  <2>2. \A i \in 1 .. Len(r) + n : (r \o b)[i] \in S
    <3>1. \A i \in 1 .. Len(r \o b) : (r \o b)[i] \in S
        BY <2>1, ElementOfSeq
    <3> QED
        BY <3>1, <2>1, <1>0
  <2>3. /\ right \in Seq(S) /\ Len(right) = Len(r) + n
        /\ \A i \in 1 .. Len(r) + n : right[i] = (r \o b)[i]
      BY <2>2, <1>0, SubSeqProperties
  <2>4. /\ left \in Seq(S) /\ Len(left) = Len(r) + n
        /\ \A i \in 1 .. Len(r) + n :
              left[i] = IF i <= Len(r) THEN r[i] ELSE SubSeq(b, 1, n)[i - Len(r)]
      BY <1>1, ConcatProperties
  <2>5. \A i \in 1 .. Len(r) + n : left[i] = right[i]
    <3> SUFFICES ASSUME NEW i \in 1 .. Len(r) + n PROVE left[i] = right[i]
        OBVIOUS
    <3> HIDE DEF left, right
    <3>1. CASE i <= Len(r)
        BY <3>1, <2>1, <2>3, <2>4, <1>0
    <3>2. CASE ~(i <= Len(r))
      <4>1. i - Len(r) \in 1 .. n
          BY <3>2, <1>0
      <4> QED
          BY <3>2, <4>1, <2>1, <2>3, <2>4, <1>0, <1>1
    <3> QED BY <3>1, <3>2
  <2>6. left \in [1 .. Len(r) + n -> S] /\ right \in [1 .. Len(r) + n -> S]
      BY <2>3, <2>4, LenProperties
  <2> HIDE DEF left, right
  <2>7. left = right
      BY <2>5, <2>6
  <2> QED BY <2>7 DEF left, right
<1> QED
    BY <1>1, <1>2, <1>3, <1>4, <1>5
------------------------------------------------------------------------------
\* Before the scheduler runs only main() acts, and main() stops when it starts.
BootOrder ==
    /\ scheduler = "not_started" => /\ reader = "receive"
                                    /\ \A t \in Writer : pc[t] = "idle"
    /\ scheduler = "running" => pc[Main] = "idle"
    /\ pc[Main] \in {"idle", "load", "store", "uart"}
    /\ \A t \in Callers : pc[t] = "uart" => t = Main

Fill == Len(xStreamBuffer) <= LOGGING_STREAM_BUFFER_SIZE

WokenToRead == notified => reader = "blocked" /\ xStreamBuffer # <<>>

IInv == /\ TypeOK /\ Fill /\ BootOrder /\ WokenToRead
        /\ HolderOnly /\ SendFits /\ StreamIntact /\ NoLostWakeup
LEMMA InitIInv == Init => IInv
<1> SUFFICES ASSUME Init PROVE IInv
    OBVIOUS
<1>1. TypeOK
  <2>1. [number |-> 0, body |-> CHOOSE b \in BodyLengths : TRUE] \in Item
      BY SizesAssumption, NumbersAssumption DEF Item
  <2>2. cLogitem \in [Callers -> Item]
      BY <2>1 DEF Init
  <2>3. <<>> \in Seq(Byte)
      OBVIOUS
  <2>4. ucRxData \in [1 .. LOGGING_SEGMENT_SIZE -> Byte \cup {Nul, Junk}]
      BY DEF Init
  <2>5. xMessageNumber \in 0 .. NumberMod - 1
      BY NumbersAssumption DEF Init
  <2> HIDE DEF Byte
  <2> QED
      BY <2>2, <2>3, <2>4, <2>5 DEF Init, TypeOK
<1>2. Fill
    BY SizesAssumption DEF Init, Fill
<1>3. HolderOnly
    BY CallersAssumption DEF Init, HolderOnly, Critical
<1>4. BootOrder /\ WokenToRead /\ SendFits /\ NoLostWakeup
    BY CallersAssumption DEF Init, BootOrder, WokenToRead, SendFits,
       NoLostWakeup, Callers
<1>5. StreamIntact
    BY DEF Init, StreamIntact
<1> QED
    BY <1>1, <1>2, <1>3, <1>4, <1>5 DEF IInv

\* The steps of a caller that leave the stream buffer and the mutex alone.
LEMMA QuietSteps ==
    ASSUME IInv, NEW t \in Callers,
           \/ Call(t) \/ LoadNumber(t) \/ StoreNumber(t) \/ DirectWrite(t)
           \/ TakeTimeout(t) \/ DelayOver(t) \/ TestSpace(t)
    PROVE  IInv'
<1> USE DEF Goto, Critical, readerVars
<1>1. TypeOK'
  <2>1. CASE Call(t)
    <3>1. PICK body \in BodyLengths :
              cLogitem' = [cLogitem EXCEPT ![t].body = body]
        BY <2>1 DEF Call
    <3>2. cLogitem' \in [Callers -> Item]
        BY <3>1 DEF IInv, TypeOK, Item
    <3> QED
        BY <2>1, <3>2 DEF IInv, Call, TypeOK
  <2>2. CASE LoadNumber(t)
      BY <2>2 DEF IInv, LoadNumber, TypeOK, Item
  <2>3. CASE StoreNumber(t)
    <3>1. cLogitem[t].number \in Nat
        BY NumbersAssumption DEF IInv, TypeOK, Item
    <3>2. (cLogitem[t].number + 1) % NumberMod \in 0 .. NumberMod - 1
        BY <3>1, NumbersAssumption
    <3> QED
        BY <2>3, <3>2 DEF IInv, StoreNumber, TypeOK, Route
  <2>4. CASE DirectWrite(t) \/ TakeTimeout(t) \/ DelayOver(t) \/ TestSpace(t)
      BY <2>4 DEF IInv, DirectWrite, TakeTimeout, DelayOver, TestSpace, TypeOK
  <2> QED
      BY <2>1, <2>2, <2>3, <2>4
<1>2. /\ UNCHANGED <<scheduler, mutex, sent, xStreamBuffer, reader, notified,
                     received>>
      /\ \A u \in Callers \ {t} : pc'[u] = pc[u] /\ cLogitem'[u] = cLogitem[u]
    BY DEF IInv, TypeOK, Call, LoadNumber, StoreNumber, DirectWrite, TakeTimeout,
       DelayOver, TestSpace
<1>3. Fill' /\ WokenToRead' /\ StreamIntact' /\ NoLostWakeup'
    BY <1>2 DEF IInv, Fill, WokenToRead, StreamIntact, NoLostWakeup
<1>4. HolderOnly'
  <2>1. pc'[t] \in Critical <=> pc[t] \in Critical
      BY DEF IInv, TypeOK, Call, LoadNumber, StoreNumber, DirectWrite,
         TakeTimeout, DelayOver, TestSpace, Route
  <2> QED
      BY <1>2, <2>1 DEF IInv, HolderOnly
<1>5. SendFits'
  <2>1. pc'[t] = "send" => Fits(t) /\ cLogitem' = cLogitem
      BY DEF IInv, TypeOK, Call, LoadNumber, StoreNumber, DirectWrite,
         TakeTimeout, DelayOver, TestSpace, Route
  <2> QED
      BY <1>2, <2>1 DEF IInv, SendFits, Fits, SpacesAvailable
<1>6. BootOrder'
  <2>1. scheduler = "not_started" => t = Main
    <3>1. scheduler = "not_started" /\ t # Main => pc[t] = "idle" /\ ~Running(t)
        BY DEF IInv, BootOrder, Callers, Running
    <3> QED
        BY <3>1 DEF Call, LoadNumber, StoreNumber, DirectWrite, TakeTimeout,
           DelayOver, TestSpace
  <2>2. scheduler = "running" => t # Main
    <3>1. scheduler = "running" /\ t = Main => pc[t] = "idle" /\ ~Running(t)
        BY DEF IInv, BootOrder, Running
    <3> QED
        BY <3>1 DEF Call, LoadNumber, StoreNumber, DirectWrite, TakeTimeout,
           DelayOver, TestSpace
  <2>3. pc'[t] = "uart" => scheduler = "not_started"
      BY DEF IInv, TypeOK, Call, LoadNumber, StoreNumber, DirectWrite,
         TakeTimeout, DelayOver, TestSpace, Route
  <2>4. t = Main => pc'[Main] \in {"idle", "load", "store", "uart"}
      BY <2>1, <2>2 DEF IInv, BootOrder, TypeOK, Call, LoadNumber, StoreNumber,
         DirectWrite, TakeTimeout, DelayOver, TestSpace, Route
  <2> QED
      BY <1>2, <2>1, <2>2, <2>3, <2>4, CallersAssumption
      DEF IInv, BootOrder, Callers, TypeOK
<1> QED
    BY <1>1, <1>3, <1>4, <1>5, <1>6 DEF IInv

LEMMA MutexSteps ==
    ASSUME IInv, NEW t \in Callers, TakeMutex(t) \/ GiveMutex(t)
    PROVE  IInv'
<1> USE DEF Goto, Critical, readerVars
<1>1. TypeOK'
    BY DEF IInv, TypeOK, TakeMutex, GiveMutex
<1>2. /\ UNCHANGED <<scheduler, cLogitem, sent, xStreamBuffer, reader, notified,
                     received>>
      /\ \A u \in Callers \ {t} : pc'[u] = pc[u]
      /\ pc'[t] \in {"space", "idle"} /\ pc[t] \in {"take", "give"}
    BY DEF IInv, TypeOK, TakeMutex, GiveMutex
<1>3. Fill' /\ WokenToRead' /\ StreamIntact' /\ NoLostWakeup'
    BY <1>2 DEF IInv, Fill, WokenToRead, StreamIntact, NoLostWakeup
<1>4. HolderOnly'
  <2>1. CASE TakeMutex(t)
    <3>1. \A u \in Callers : pc[u] \notin Critical
        BY <2>1, CallersAssumption DEF IInv, HolderOnly, TakeMutex
    <3>2. mutex' = t /\ pc'[t] = "space"
        BY <2>1 DEF IInv, TypeOK, TakeMutex
    <3> QED
        BY <3>1, <3>2, <1>2 DEF HolderOnly
  <2>2. CASE GiveMutex(t)
    <3>1. \A u \in Callers : pc[u] \in Critical => u = t
        BY <2>2 DEF IInv, HolderOnly, GiveMutex
    <3>2. mutex' = NoTask /\ pc'[t] = "idle"
        BY <2>2 DEF IInv, TypeOK, GiveMutex
    <3> QED
        BY <3>1, <3>2, <1>2, CallersAssumption DEF HolderOnly
  <2> QED
      BY <2>1, <2>2
<1>5. SendFits'
    BY <1>2 DEF IInv, SendFits, Fits, SpacesAvailable
<1>6. BootOrder'
  <2>1. scheduler = "running" /\ t # Main
      BY <1>2, CallersAssumption DEF IInv, BootOrder, Callers, TypeOK, HolderOnly,
         TakeMutex, GiveMutex
  <2> QED
      BY <1>2, <2>1 DEF IInv, BootOrder, Callers
<1> QED
    BY <1>1, <1>3, <1>4, <1>5, <1>6 DEF IInv

LEMMA SendStep ==
    ASSUME IInv, NEW t \in Callers, Send(t)
    PROVE  /\ IInv'
           /\ sent' = sent \o ItemBytes(t, cLogitem[t])
           /\ UNCHANGED received
<1> DEFINE item == ItemBytes(t, cLogitem[t])
<1>1. /\ pc[t] = "send" /\ pc' = [pc EXCEPT ![t] = "give"]
      /\ sent' = sent \o item
      /\ UNCHANGED <<scheduler, xMessageNumber, cLogitem, calls, mutex,
                     reader, ucRxData, rxLength, received>>
    BY DEF Send, Goto
<1>2. /\ item \in Seq(Byte)
      /\ Len(item) = ItemLength(cLogitem[t].body)
      /\ Len(item) \in Nat /\ Len(item) >= LOGGING_SEGMENT_SIZE
  <2>1. cLogitem[t] \in Item
      BY DEF IInv, TypeOK
  <2> QED
      BY <2>1, ItemBytesProperties
<1>3. /\ xStreamBuffer \in Seq(Byte) /\ Len(xStreamBuffer) \in Nat
      /\ sent \in Seq(Byte) /\ received \in Seq(Byte)
    BY LenProperties DEF IInv, TypeOK
<1>4. Len(item) <= LOGGING_STREAM_BUFFER_SIZE - Len(xStreamBuffer)
    BY <1>1, <1>2 DEF IInv, SendFits, Fits, SpacesAvailable
<1>5. /\ xStreamBuffer' = xStreamBuffer \o item
      /\ notified' = (notified \/ (/\ reader = "blocked"
                                   /\ Len(item) > 0
                                   /\ Len(xStreamBuffer') >= LOGGING_SEGMENT_SIZE))
  <2> DEFINE n == Least(Len(item), SpacesAvailable)
  <2>1. n = Len(item)
      BY <1>2, <1>3, <1>4, SizesAssumption DEF Least, SpacesAvailable
  <2>2. SubSeq(item, 1, n) = item
      BY <1>2, <2>1, SubSeqFull
  <2>3. /\ xStreamBuffer' = xStreamBuffer \o SubSeq(item, 1, n)
        /\ notified' = (notified \/ (/\ reader = "blocked"
                                     /\ n > 0
                                     /\ Len(xStreamBuffer') >= TriggerLevel))
      BY DEF Send
  <2> HIDE DEF n, item
  <2> QED
      BY <2>1, <2>2, <2>3 DEF TriggerLevel
<1> HIDE DEF item
<1>6. /\ xStreamBuffer' \in Seq(Byte)
      /\ Len(xStreamBuffer') = Len(xStreamBuffer) + Len(item)
      /\ sent' \in Seq(Byte)
    BY <1>1, <1>2, <1>3, <1>5, ConcatProperties
<1>7. TypeOK'
  <2>1. pc' \in [Callers -> {"idle", "load", "store", "uart", "take", "backoff"}
                            \cup Critical]
      BY <1>1 DEF IInv, TypeOK, Critical
  <2>2. notified' \in BOOLEAN
      BY <1>5 DEF IInv, TypeOK
  <2> QED
      BY <1>1, <1>3, <1>6, <2>1, <2>2 DEF IInv, TypeOK
<1>8. Fill'
    BY <1>2, <1>3, <1>4, <1>6, SizesAssumption DEF Fill
<1>9. HolderOnly' /\ BootOrder'
    BY <1>1 DEF IInv, TypeOK, HolderOnly, BootOrder, Critical, Callers
<1>10. SendFits'
  <2>1. \A u \in Callers : pc'[u] # "send"
      BY <1>1 DEF IInv, TypeOK, HolderOnly, Critical
  <2> QED
      BY <2>1 DEF SendFits
<1>11. StreamIntact'
  <2>1. (received \o xStreamBuffer) \o item = received \o (xStreamBuffer \o item)
      BY <1>2, <1>3, ConcatAssociative
  <2> QED
      BY <2>1, <1>1, <1>5 DEF IInv, StreamIntact
<1>12. WokenToRead' /\ NoLostWakeup'
  <2>1. xStreamBuffer # <<>> => Len(xStreamBuffer) > 0
      BY <1>3, EmptySeq
  <2>2. xStreamBuffer' # <<>> => Len(xStreamBuffer') > 0
      BY <1>6, <1>2, <1>3, EmptySeq
  <2>3. Len(xStreamBuffer') > 0 => xStreamBuffer' # <<>>
      BY <1>6, EmptySeq
  <2>4. xStreamBuffer = <<>> => Len(xStreamBuffer) = 0
      BY EmptySeq
  <2>5. Len(xStreamBuffer') = Len(xStreamBuffer) + Len(item)
      BY <1>6
  <2>6. WokenToRead'
    <3>1. notified' => notified \/ (reader = "blocked" /\ Len(item) > 0)
        BY <1>5
    <3>2. notified => reader = "blocked" /\ Len(xStreamBuffer) > 0
        BY <2>1 DEF IInv, WokenToRead
    <3> QED
        BY <3>1, <3>2, <2>3, <2>5, <1>1, <1>2, <1>3 DEF WokenToRead
  <2>7. NoLostWakeup'
    <3>1. notified => notified'
        BY <1>5 DEF IInv, TypeOK
    <3>2. reader = "blocked" /\ Len(item) > 0
             /\ Len(xStreamBuffer') >= LOGGING_SEGMENT_SIZE => notified'
        BY <1>5 DEF IInv, TypeOK
    <3>3. reader = "blocked" /\ xStreamBuffer # <<>> => notified
        BY DEF IInv, NoLostWakeup
    <3> QED
        BY <3>1, <3>2, <3>3, <2>2, <2>4, <2>5, <1>1, <1>2, <1>3, SizesAssumption
        DEF NoLostWakeup
  <2> QED
      BY <2>6, <2>7
<1> QED
    BY <1>1, <1>7, <1>8, <1>9, <1>10, <1>11, <1>12 DEF IInv, item

\* One read of vLoggingTask, whichever of its three ways led to it.
LEMMA ReadStep ==
    ASSUME IInv, ReadBytes, UNCHANGED callerVars, scheduler = "running"
    PROVE  /\ IInv'
           /\ UNCHANGED sent
           /\ \/ UNCHANGED received
              \/ \E n \in 1 .. (Len(sent) - Len(received)) :
                    received' = SubSeq(sent, 1, Len(received) + n)
<1> DEFINE n == Least(RxSize, Len(xStreamBuffer))
<1>1. /\ xStreamBuffer \in Seq(Byte) /\ Len(xStreamBuffer) \in Nat
      /\ received \in Seq(Byte) /\ Len(received) \in Nat
      /\ sent = received \o xStreamBuffer
    BY LenProperties DEF IInv, TypeOK, StreamIntact
<1>2. /\ n \in 0 .. Len(xStreamBuffer)
      /\ n <= LOGGING_SEGMENT_SIZE
    BY <1>1, SizesAssumption DEF Least
<1>3. /\ ucRxData' = [i \in DOMAIN ucRxData \cup 1 .. n |->
                          IF i <= n THEN xStreamBuffer[i] ELSE ucRxData[i]]
      /\ rxLength' = n
      /\ received' = received \o SubSeq(xStreamBuffer, 1, n)
      /\ xStreamBuffer' = SubSeq(xStreamBuffer, n + 1, Len(xStreamBuffer))
      /\ reader' = "write"
      /\ notified' = FALSE
    BY DEF ReadBytes
<1> HIDE DEF n
<1>4. /\ received' \in Seq(Byte) /\ xStreamBuffer' \in Seq(Byte)
      /\ Len(xStreamBuffer') = Len(xStreamBuffer) - n
      /\ received' \o xStreamBuffer' = received \o xStreamBuffer
      /\ received' = SubSeq(received \o xStreamBuffer, 1, Len(received) + n)
  <2> DEFINE head == SubSeq(xStreamBuffer, 1, n)
             tail == SubSeq(xStreamBuffer, n + 1, Len(xStreamBuffer))
  <2>0. received \in Seq(Byte) /\ xStreamBuffer \in Seq(Byte)
      BY <1>1
  <2>1. /\ head \in Seq(Byte) /\ tail \in Seq(Byte)
        /\ Len(tail) = Len(xStreamBuffer) - n
      BY <2>0, <1>2, ReadSplits
  <2>2. head \o tail = xStreamBuffer
      BY <2>0, <1>2, ReadSplits
  <2>3. /\ received \o head \in Seq(Byte)
        /\ received \o head
              = SubSeq(received \o xStreamBuffer, 1, Len(received) + n)
      BY <2>0, <1>2, ReadSplits
  <2>4. received' = received \o head /\ xStreamBuffer' = tail
      BY <1>3
  <2> HIDE DEF head, tail
  <2>5. head \in Seq(Byte) /\ tail \in Seq(Byte)
      BY <2>1
  <2>6. (received \o head) \o tail = received \o (head \o tail)
      BY <2>0, <2>5, ConcatAssociative
  <2> QED
      BY <2>1, <2>2, <2>3, <2>4, <2>6
<1>5. TypeOK'
  <2>1. ucRxData' \in [1 .. LOGGING_SEGMENT_SIZE -> Byte \cup {Nul, Junk}]
    <3>1. /\ ucRxData \in [1 .. LOGGING_SEGMENT_SIZE -> Byte \cup {Nul, Junk}]
          /\ DOMAIN ucRxData \cup 1 .. n = 1 .. LOGGING_SEGMENT_SIZE
        BY <1>2, SizesAssumption DEF IInv, TypeOK
    <3>2. \A i \in 1 .. n : xStreamBuffer[i] \in Byte
        BY <1>1, <1>2, ElementOfSeq
    <3>3. ASSUME NEW i \in 1 .. LOGGING_SEGMENT_SIZE
          PROVE  (IF i <= n THEN xStreamBuffer[i] ELSE ucRxData[i])
                    \in Byte \cup {Nul, Junk}
        BY <3>1, <3>2, <1>2
    <3> QED
        BY <3>1, <3>3, <1>3
  <2>2. n \in Nat
      BY <1>2
  <2> QED
      BY <1>3, <1>4, <2>1, <2>2 DEF IInv, TypeOK, callerVars
<1>6. Fill'
    BY <1>1, <1>2, <1>4, SizesAssumption DEF IInv, Fill
<1>7. BootOrder' /\ WokenToRead' /\ HolderOnly' /\ NoLostWakeup'
    BY <1>3 DEF IInv, TypeOK, BootOrder, WokenToRead, HolderOnly, NoLostWakeup,
       callerVars
<1>8. SendFits'
  <2>1. pc' = pc /\ cLogitem' = cLogitem
      BY <1>4 DEF callerVars
  <2>2. /\ Len(xStreamBuffer) \in Nat /\ Len(xStreamBuffer') \in Nat
        /\ Len(xStreamBuffer') <= Len(xStreamBuffer)
      BY <1>1, <1>2, <1>4
  <2>3. ASSUME NEW t \in Callers, pc'[t] = "send"
        PROVE  Fits(t)'
    <3>1. Fits(t)
        BY <2>1, <2>3 DEF IInv, SendFits
    <3>2. ItemLength(cLogitem[t].body) \in Nat
        BY <2>3, ItemBytesProperties DEF IInv, TypeOK
    <3>3. ItemLength(cLogitem[t].body)' = ItemLength(cLogitem[t].body)
        BY <2>1
    <3> QED
        BY <2>2, <3>1, <3>2, <3>3, SizesAssumption DEF Fits, SpacesAvailable
  <2> QED
      BY <2>1, <2>3 DEF SendFits
<1>9. StreamIntact' /\ UNCHANGED sent
    BY <1>1, <1>4 DEF StreamIntact, callerVars
<1>10. CASE n = 0
  <2>1. received' = received \o <<>>
      BY <1>3, <1>10, <1>1
  <2> QED
      BY <2>1, <1>1, <1>5, <1>6, <1>7, <1>8, <1>9, ConcatEmptySeq DEF IInv
<1>11. CASE n # 0
  <2>1. Len(sent) = Len(received) + Len(xStreamBuffer)
      BY <1>1, ConcatProperties
  <2>2. n \in 1 .. (Len(sent) - Len(received))
      BY <2>1, <1>1, <1>2, <1>11
  <2> QED
      BY <2>2, <1>1, <1>4, <1>5, <1>6, <1>7, <1>8, <1>9 DEF IInv
<1> QED
    BY <1>10, <1>11

\* The steps of vLoggingTask that read nothing, and the start of the scheduler.
LEMMA OtherSteps ==
    ASSUME IInv,
           \/ StartScheduler \/ ReceiveBlocks \/ WriteUart
           \/ ReceiveTimeout /\ ~ReadBytes
    PROVE  IInv' /\ UNCHANGED <<sent, received>>
<1>1. CASE StartScheduler
    BY <1>1 DEF IInv, StartScheduler, readerVars, TypeOK, Fill, BootOrder,
       WokenToRead, HolderOnly, SendFits, Fits, SpacesAvailable, StreamIntact,
       NoLostWakeup
<1>2. CASE ReceiveBlocks
    BY <1>2 DEF IInv, ReceiveBlocks, callerVars, TypeOK, Fill, BootOrder,
       WokenToRead, HolderOnly, SendFits, Fits, SpacesAvailable, StreamIntact,
       NoLostWakeup
<1>3. CASE WriteUart
    BY <1>3 DEF IInv, WriteUart, callerVars, TypeOK, Fill, BootOrder,
       WokenToRead, HolderOnly, SendFits, Fits, SpacesAvailable, StreamIntact,
       NoLostWakeup
<1>4. CASE ReceiveTimeout /\ ~ReadBytes
    BY <1>4 DEF IInv, ReceiveTimeout, callerVars, TypeOK, Fill, BootOrder,
       WokenToRead, HolderOnly, SendFits, Fits, SpacesAvailable, StreamIntact,
       NoLostWakeup
<1> QED
    BY <1>1, <1>2, <1>3, <1>4

LEMMA StutterStep ==
    ASSUME IInv, UNCHANGED vars
    PROVE  IInv' /\ UNCHANGED <<sent, received>>
BY DEF IInv, vars, TypeOK, Fill, BootOrder, WokenToRead, HolderOnly, SendFits,
   Fits, SpacesAvailable, StreamIntact, NoLostWakeup

\* Every step keeps the invariant, and changes the two histories only as the
\* abstract pipe does: nothing, a whole item accepted, or the next bytes read.
LEMMA StepProperties ==
    ASSUME IInv, [Next]_vars
    PROVE  /\ IInv'
           /\ \/ UNCHANGED <<sent, received>>
              \/ \E t \in Callers : /\ sent' = sent \o ItemBytes(t, cLogitem[t])
                                    /\ UNCHANGED received
              \/ /\ \E n \in 1 .. (Len(sent) - Len(received)) :
                       received' = SubSeq(sent, 1, Len(received) + n)
                 /\ UNCHANGED sent
<1>1. ASSUME NEW t \in Callers, Call(t) \/ Continue(t), ~Send(t)
      PROVE  IInv' /\ UNCHANGED <<sent, received>>
  <2>1. CASE TakeMutex(t) \/ GiveMutex(t)
      BY <2>1, MutexSteps DEF TakeMutex, GiveMutex, readerVars
  <2>2. CASE ~(TakeMutex(t) \/ GiveMutex(t))
    <3>1. \/ Call(t) \/ LoadNumber(t) \/ StoreNumber(t) \/ DirectWrite(t)
          \/ TakeTimeout(t) \/ DelayOver(t) \/ TestSpace(t)
        BY <1>1, <2>2 DEF Continue
    <3>2. UNCHANGED <<sent, received>>
        BY <3>1 DEF Call, LoadNumber, StoreNumber, DirectWrite, TakeTimeout,
           DelayOver, TestSpace, readerVars
    <3> QED
        BY <3>1, <3>2, QuietSteps
  <2> QED
      BY <2>1, <2>2
<1>2. ASSUME NEW t \in Callers, Send(t)
      PROVE  /\ IInv'
             /\ sent' = sent \o ItemBytes(t, cLogitem[t]) /\ UNCHANGED received
    BY <1>2, SendStep
<1>3. CASE LoggingTask /\ ReadBytes
  <2>1. UNCHANGED callerVars
      BY <1>3 DEF LoggingTask, Receive, ReceiveBlocks, ReceiveNotified,
         ReceiveTimeout, WriteUart
  <2>2. scheduler = "running"
      BY <1>3 DEF IInv, TypeOK, BootOrder, LoggingTask, Receive, ReceiveBlocks,
         ReceiveNotified, ReceiveTimeout, WriteUart
  <2> QED
      BY <1>3, <2>1, <2>2, ReadStep
<1>4. CASE StartScheduler \/ (LoggingTask /\ ~ReadBytes)
    BY <1>4, OtherSteps DEF LoggingTask, Receive, ReceiveNotified
<1>5. CASE UNCHANGED vars
    BY <1>5, StutterStep
<1> QED
    BY <1>1, <1>2, <1>3, <1>4, <1>5 DEF Next

LEMMA Invariance == Spec => []IInv
<1>1. IInv /\ [Next]_vars => IInv'
    BY StepProperties
<1> QED
    BY <1>1, InitIInv, PTL DEF Spec
------------------------------------------------------------------------------
\* Type correctness: the counters stay in their range and no read overruns the
\* ten bytes of ucRxData (vLoggingTask, line 48).
THEOREM TypeCorrect == Spec => []TypeOK
<1>1. IInv => TypeOK
    BY DEF IInv
<1> QED
    BY <1>1, Invariance, PTL

\* xLoggingSemaphore keeps the writers of the stream buffer apart, whoever
\* times out and retries (lines 115-128).
THEOREM MutexProtectsBuffer == Spec => []HolderOnly
<1>1. IInv => HolderOnly
    BY DEF IInv
<1> QED
    BY <1>1, Invariance, PTL

\* The space that the loop of line 121 has seen cannot disappear before line 127:
\* xStreamBufferSend, whose result nobody looks at, never cuts an item.
THEOREM SendNeverCuts == Spec => []SendFits
<1>1. IInv => SendFits
    BY DEF IInv
<1> QED
    BY <1>1, Invariance, PTL

\* Nothing is lost, duplicated, interleaved or reordered between the callers and
\* the logging task's reads.
THEOREM StreamIsIntact == Spec => []StreamIntact
<1>1. IInv => StreamIntact
    BY DEF IInv
<1> QED
    BY <1>1, Invariance, PTL

\* The two ways to the UART, main's direct write (line 111) and the logging
\* task's (line 57), never overlap: the claim of the comment at line 110.
THEOREM UartHasOneWriter == Spec => []OneUartWriter
<1>1. IInv => OneUartWriter
  <2> SUFFICES ASSUME IInv PROVE OneUartWriter
      OBVIOUS
  <2>1. \A t \in Callers : pc[t] = "uart" => t = Main
      BY DEF IInv, BootOrder
  <2>2. pc[Main] = "uart" => reader = "receive"
      BY DEF IInv, BootOrder, TypeOK
  <2> QED
      BY <2>1, <2>2 DEF OneUartWriter
<1> QED
    BY <1>1, Invariance, PTL

\* vLoggingTask does not sleep on a buffer with an item in it: with a trigger
\* level no larger than the shortest item, every send wakes it.
THEOREM WakeupIsNeverLost == Spec => []NoLostWakeup
<1>1. IInv => NoLostWakeup
    BY DEF IInv
<1> QED
    BY <1>1, Invariance, PTL

\* The safety part of the promise: mutex, bounded buffer, polling and segmented
\* reads together behave as one ordered pipe of whole items.
THEOREM LoggingRefinesPipe == Spec => Pipe!Spec
<1>1. Init => Pipe!Init
    BY DEF Init, Pipe!Init
<1>2. IInv /\ [Next]_vars => [Pipe!Next]_Pipe!vars
  <2> SUFFICES ASSUME IInv, [Next]_vars PROVE [Pipe!Next]_Pipe!vars
      OBVIOUS
  <2>1. CASE UNCHANGED <<sent, received>>
      BY <2>1 DEF Pipe!vars
  <2>2. ASSUME NEW t \in Callers, sent' = sent \o ItemBytes(t, cLogitem[t]),
               UNCHANGED received
        PROVE  Pipe!Next
    <3>1. cLogitem[t] \in Item
        BY DEF IInv, TypeOK
    <3> QED
        BY <2>2, <3>1 DEF Pipe!Next, Pipe!Accept
  <2>3. ASSUME NEW n \in 1 .. (Len(sent) - Len(received)),
               received' = SubSeq(sent, 1, Len(received) + n), UNCHANGED sent
        PROVE  Pipe!Next
      BY <2>3 DEF Pipe!Next, Pipe!Deliver
  <2> QED
      BY <2>1, <2>2, <2>3, StepProperties
<1> QED
    BY <1>1, <1>2, Invariance, PTL DEF Spec, Pipe!Spec
==============================================================================
