--------------------------- MODULE TransferProofs ---------------------------
(***************************************************************************)
(* Programs with a queue set, and programs that send a string through a    *)
(* buffer, whose outlines fit (Outlines.tla).  For every such program the  *)
(* handles in the set match the items in its members; and what is in the   *)
(* buffer is the string from where the receiver is to where the sender is. *)
(*                                                                         *)
(* Sets: per queue three numbers are related, the items in it, its handles *)
(* in the set and the tasks that hold one.  The lemmas say first what a    *)
(* call does to the items and handles (the objects of the kernel K), then  *)
(* what it does to the holders (the places p and variables m of the        *)
(* tasks), and then put the two together.                                  *)
(*                                                                         *)
(* Streams: the lemmas say first what is a part of a string that goes      *)
(* around, then which tasks there are while the sender is still alone, and *)
(* what each call does to the buffer.                                      *)
(***************************************************************************)
EXTENDS RtosProofs, FiniteSetTheorems

(* Sequences and sets of which only the size matters *)

Line(x) == \E S : x \in Seq(S)

LEMMA LineOne ==
    ASSUME NEW v
    PROVE  Line(<<v>>) /\ Len(<<v>>) = 1
<1>1. <<v>> \in Seq({v})
  OBVIOUS
<1> QED
  BY <1>1 DEF Line

LEMMA LineAppend ==
    ASSUME NEW x, Line(x), NEW v
    PROVE  Line(Append(x, v)) /\ Len(x) \in Nat /\ Len(Append(x, v)) = Len(x) + 1
<1>1. PICK S : x \in Seq(S)
  BY DEF Line
<1>2. x \in Seq(S \cup {v})
  BY <1>1
<1>3. Append(x, v) \in Seq(S \cup {v}) /\ Len(x) \in Nat /\ Len(Append(x, v)) = Len(x) + 1
  BY <1>2
<1> QED
  BY <1>3 DEF Line

LEMMA LineFront ==
    ASSUME NEW x, Line(x), NEW v
    PROVE  Line(<<v>> \o x) /\ Len(x) \in Nat /\ Len(<<v>> \o x) = Len(x) + 1
<1>1. PICK S : x \in Seq(S)
  BY DEF Line
<1>2. x \in Seq(S \cup {v}) /\ <<v>> \in Seq(S \cup {v}) /\ Len(<<v>>) = 1
  BY <1>1
<1>3. <<v>> \o x \in Seq(S \cup {v}) /\ Len(x) \in Nat /\ Len(<<v>> \o x) = 1 + Len(x)
  BY <1>2, ConcatProperties
<1> QED
  BY <1>3 DEF Line

LEMMA LineTail ==
    ASSUME NEW x, Line(x)
    PROVE  /\ Len(x) \in Nat /\ (x = <<>> <=> Len(x) = 0)
           /\ x # <<>> => Line(Tail(x)) /\ Len(Tail(x)) \in Nat /\ Len(x) = Len(Tail(x)) + 1
<1>1. PICK S : x \in Seq(S)
  BY DEF Line
<1>2. Len(x) \in Nat /\ (x = <<>> <=> Len(x) = 0)
  BY <1>1, EmptySeq
<1>3. ASSUME x # <<>>
      PROVE  Line(Tail(x)) /\ Len(Tail(x)) \in Nat /\ Len(x) = Len(Tail(x)) + 1
  <2>1. Tail(x) \in Seq(S) /\ Len(Tail(x)) = Len(x) - 1
    BY <1>1, <1>3
  <2> QED
    BY <1>2, <2>1 DEF Line
<1> QED
  BY <1>2, <1>3

One(b) == IF b THEN 1 ELSE 0

\* How often q is in the sequence.
Places(items, q) == {i \in DOMAIN items : items[i] = q}
Count(items, q) == Cardinality(Places(items, q))

LEMMA CountNone ==
    ASSUME NEW q
    PROVE  Count(<<>>, q) = 0
<1>1. Places(<<>>, q) = {}
  BY DEF Places
<1> QED
  BY <1>1, FS_EmptySet DEF Count

LEMMA PlacesFinite ==
    ASSUME NEW S, NEW items \in Seq(S), NEW q
    PROVE  IsFiniteSet(Places(items, q)) /\ Count(items, q) \in Nat
<1>1. Places(items, q) \subseteq 1 .. Len(items) /\ Len(items) \in Nat
  BY DEF Places
<1>2. IsFiniteSet(1 .. Len(items))
  BY <1>1, FS_Interval
<1> QED
  BY <1>1, <1>2, FS_Subset, FS_CardinalityType DEF Count

LEMMA CountAppend ==
    ASSUME NEW S, NEW items \in Seq(S), NEW x \in S, NEW q
    PROVE  Count(Append(items, x), q) = Count(items, q) + One(x = q)
<1> DEFINE n == Len(items)
<1>1. /\ n \in Nat /\ DOMAIN items = 1 .. n /\ DOMAIN Append(items, x) = 1 .. n + 1
      /\ \A i \in 1 .. n : Append(items, x)[i] = items[i]
      /\ Append(items, x)[n + 1] = x
  OBVIOUS
<1>2. Places(Append(items, x), q) = Places(items, q) \cup (IF x = q THEN {n + 1} ELSE {})
  BY <1>1 DEF Places
<1>3. n + 1 \notin Places(items, q)
  BY <1>1 DEF Places
<1>4. IsFiniteSet(Places(items, q)) /\ Count(items, q) \in Nat
  BY PlacesFinite
<1>5. CASE x = q
  BY <1>2, <1>3, <1>4, <1>5, FS_AddElement DEF Count, One
<1>6. CASE x # q
  BY <1>2, <1>4, <1>6 DEF Count, One
<1> QED
  BY <1>5, <1>6

LEMMA CountTail ==
    ASSUME NEW S, NEW items \in Seq(S), items # <<>>, NEW q
    PROVE  Count(items, q) = Count(Tail(items), q) + One(Head(items) = q)
<1> DEFINE n == Len(items)
           A == Places(items, q) \ {1}
           B == Places(Tail(items), q)
           f == [i \in B |-> i + 1]
<1>1. /\ n \in Nat \ {0} /\ DOMAIN items = 1 .. n
      /\ Tail(items) \in Seq(S) /\ DOMAIN Tail(items) = 1 .. n - 1
      /\ \A i \in 1 .. n - 1 : Tail(items)[i] = items[i + 1]
      /\ Head(items) = items[1]
  BY EmptySeq
<1>2. IsFiniteSet(B) /\ Count(Tail(items), q) \in Nat
  BY <1>1, PlacesFinite
<1>3. B \subseteq 1 .. n - 1 /\ A \subseteq 2 .. n
  BY <1>1 DEF Places
<1>4. \A i \in B : i + 1 \in A
  BY <1>1 DEF Places
<1>5. \A j \in A : j - 1 \in B /\ j = (j - 1) + 1
  BY <1>1 DEF Places
<1> HIDE DEF A, B
<1>6. f \in Bijection(B, A)
  <2>1. f \in [B -> A]
    BY <1>4
  <2>2. \A i, j \in B : f[i] = f[j] => i = j
    BY <1>3
  <2>3. \A j \in A : \E i \in B : f[i] = j
    BY <1>5
  <2> QED
    BY <2>1, <2>2, <2>3 DEF Bijection, Injection, Surjection, IsInjective
<1>7. IsFiniteSet(A) /\ Cardinality(A) = Count(Tail(items), q)
  <2>1. ExistsBijection(B, A)
    BY <1>6 DEF ExistsBijection
  <2>2. IsFiniteSet(A) /\ Cardinality(A) = Cardinality(B)
    BY <1>2, <2>1, FS_Bijection
  <2> QED
    BY <2>2 DEF Count, B
<1>8. CASE Head(items) = q
  <2>1. Places(items, q) = A \cup {1} /\ 1 \notin A
    BY <1>1, <1>8 DEF Places, A
  <2> QED
    BY <1>2, <1>7, <1>8, <2>1, FS_AddElement DEF Count, One
<1>9. CASE Head(items) # q
  <2>1. Places(items, q) = A
    BY <1>1, <1>9 DEF Places, A
  <2> QED
    BY <1>2, <1>7, <1>9, <2>1 DEF Count, One
<1> QED
  BY <1>8, <1>9

LEMMA SizeAfter ==
    ASSUME NEW A, IsFiniteSet(A), NEW t, NEW b \in BOOLEAN
    PROVE  LET B == (A \ {t}) \cup (IF b THEN {t} ELSE {})
           IN  /\ Cardinality(A) \in Nat /\ Cardinality(B) \in Nat
               /\ Cardinality(B) + One(t \in A) = Cardinality(A) + One(b)
               /\ Cardinality(A) = 0 <=> A = {}
<1> DEFINE C == A \ {t}
<1>1. IsFiniteSet(C) /\ t \notin C /\ Cardinality(C) \in Nat /\ Cardinality(A) \in Nat
  BY FS_Subset, FS_CardinalityType
<1>2. Cardinality(A) = Cardinality(C) + One(t \in A)
  <2>1. CASE t \in A
    <3>1. A = C \cup {t}
      BY <2>1
    <3> QED
      BY <1>1, <2>1, <3>1, FS_AddElement DEF One
  <2>2. CASE t \notin A
    <3>1. A = C
      BY <2>2
    <3> QED
      BY <1>1, <2>2, <3>1 DEF One
  <2> QED
    BY <2>1, <2>2
<1>3. Cardinality(C \cup (IF b THEN {t} ELSE {})) = Cardinality(C) + One(b)
  <2>1. CASE b
    BY <1>1, <2>1, FS_AddElement DEF One
  <2>2. CASE ~b
    <3>1. C \cup (IF b THEN {t} ELSE {}) = C
      BY <2>2
    <3> QED
      BY <1>1, <2>2, <3>1 DEF One
  <2> QED
    BY <2>1, <2>2
<1>4. Cardinality(A) = 0 <=> A = {}
  BY FS_EmptySet
<1> QED
  BY <1>1, <1>2, <1>3, <1>4 DEF One
-----------------------------------------------------------------------------
(* What the calls on queues do to the objects *)

IsQueue(m) ==
    {"kind", "items", "set"} \subseteq DOMAIN m /\ m.kind = "queue" /\ Line(m.items)

With(m, items) == [m EXCEPT !.items = items]
Joining(m, s)  == [m EXCEPT !.set = s]

LEMMA QueueWith ==
    ASSUME NEW m, IsQueue(m), NEW items, Line(items)
    PROVE  /\ IsQueue(With(m, items)) /\ With(m, items).items = items
           /\ With(m, items).set = m.set /\ m.kind = "queue"
  BY DEF IsQueue, With

LEMMA QueueJoining ==
    ASSUME NEW m, IsQueue(m), NEW s
    PROVE  IsQueue(Joining(m, s)) /\ Joining(m, s).items = m.items /\ Joining(m, s).set = s
  BY DEF IsQueue, Joining

NewQueue(n, x) == [Queue(n) EXCEPT !.set = x]

LEMMA QueueOf ==
    ASSUME NEW n, NEW x
    PROVE  IsQueue(NewQueue(n, x)) /\ NewQueue(n, x).items = <<>>
<1>1. Line(<<>>)
  BY DEF Line
<1> QED
  BY <1>1 DEF Queue, IsQueue, NewQueue

\* The objects of an outline: queues, of which some are in the set.
SetObjects(st, K) ==
    /\ "obj" \in DOMAIN K /\ DOMAIN K.obj = DOMAIN st.program.obj
    /\ \A o \in DOMAIN K.obj : IsQueue(K.obj[o]) /\ K.obj[o].set \in {"", st.set}
    /\ K.obj[st.set].set = "" /\ K.obj[st.set].items \in Seq(Queued(st))

Handles(st, K, q) == Count(K.obj[st.set].items, q)
InSet(st, K, q)   == K.obj[q].set = st.set
Length(K, q)      == Len(K.obj[q].items)

\* From K to K2 the items and handles of q stay or grow together.
Together(st, K, K2, q) ==
    /\ InSet(st, K2, q) <=> InSet(st, K, q)
    /\ IF InSet(st, K, q)
       THEN Length(K2, q) + Handles(st, K, q) = Length(K, q) + Handles(st, K2, q)
       ELSE Handles(st, K2, q) = Handles(st, K, q)

LEMMA CountsAreNumbers ==
    ASSUME NEW st, NEW K, SetObjects(st, K), NEW q \in DOMAIN K.obj
    PROVE  Length(K, q) \in Nat /\ Handles(st, K, q) \in Nat
  BY LineTail, PlacesFinite DEF SetObjects, IsQueue, Length, Handles

LEMMA ArriveInSet ==
    ASSUME NEW K, NEW o, NEW items, NEW s, "obj" \in DOMAIN K, o \in DOMAIN K.obj,
           s \in DOMAIN K.obj, s # o, Named(s), K.obj[o].set = s,
           Len(items) # Len(K.obj[o].items)
    PROVE  LET K2 == Arrive(K, o, items)
           IN  /\ "obj" \in DOMAIN K2 /\ DOMAIN K2.obj = DOMAIN K.obj
               /\ K2.obj[o] = With(K.obj[o], items)
               /\ K2.obj[s] = With(K.obj[s], Append(K.obj[s].items, o))
               /\ \A u \in DOMAIN K.obj \ {o, s} : K2.obj[u] = K.obj[u]
<1> DEFINE K1 == [K EXCEPT !.obj[o].items = items]
           K3 == [K1 EXCEPT !.obj[s].items = Append(@, o)]
<1>1. /\ "obj" \in DOMAIN K1 /\ DOMAIN K1.obj = DOMAIN K.obj
      /\ K1.obj[o] = With(K.obj[o], items)
      /\ \A u \in DOMAIN K.obj \ {o} : K1.obj[u] = K.obj[u]
  BY DEF With
<1>2. /\ "obj" \in DOMAIN K3 /\ DOMAIN K3.obj = DOMAIN K1.obj
      /\ K3.obj[s] = With(K1.obj[s], Append(K1.obj[s].items, o))
      /\ \A u \in DOMAIN K1.obj \ {s} : K3.obj[u] = K1.obj[u]
  <2> HIDE DEF K1
  <2> QED
    BY <1>1 DEF With
<1>3. Arrive(K, o, items) = Wake(K3, Filled(s))
  BY DEF Arrive, Named
<1> HIDE DEF K1, K3
<1>4. SameObjects(K3, Wake(K3, Filled(s)))
  BY <1>2, WakeObjects
<1> QED
  BY <1>1, <1>2, <1>3, <1>4 DEF SameObjects

LEMMA ArriveAgain ==
    ASSUME NEW K, NEW o, NEW items, "obj" \in DOMAIN K, o \in DOMAIN K.obj,
           Named(K.obj[o].set), Len(items) = Len(K.obj[o].items)
    PROVE  NewItems(K, Arrive(K, o, items), o, items)
  BY DEF Arrive, Named, NewItems

\* An object has new items, and the set has the same handles.
LEMMA NewItemsOf ==
    ASSUME NEW st, NEW K, NEW K2, NEW o \in Queued(st), NEW items, SetObjects(st, K),
           st.set \in DOMAIN st.program.obj, NewItems(K, K2, o, items), Line(items)
    PROVE  /\ SetObjects(st, K2)
           /\ \A q \in Queued(st) \ {o} : Together(st, K, K2, q)
           /\ InSet(st, K2, o) <=> InSet(st, K, o)
           /\ \A q \in Queued(st) : Handles(st, K2, q) = Handles(st, K, q)
           /\ Length(K2, o) = Len(items)
<1>1. /\ "obj" \in DOMAIN K2 /\ DOMAIN K2.obj = DOMAIN K.obj
      /\ K2.obj[o] = With(K.obj[o], items)
      /\ \A u \in DOMAIN K.obj \ {o} : K2.obj[u] = K.obj[u]
      /\ o # st.set /\ o \in DOMAIN K.obj
  BY DEF NewItems, With, Queued, SetObjects
<1>2. IsQueue(K2.obj[o]) /\ K2.obj[o].set = K.obj[o].set /\ K2.obj[o].items = items
  <2>1. IsQueue(K.obj[o])
    BY <1>1 DEF SetObjects
  <2> QED
    BY ONLY Line(items), <1>1, <2>1, QueueWith
<1>3. SetObjects(st, K2)
  BY <1>1, <1>2 DEF SetObjects
<1>4. K2.obj[st.set] = K.obj[st.set]
  BY <1>1 DEF SetObjects
<1>5. \A q \in Queued(st) \ {o} : Together(st, K, K2, q)
  BY <1>1, <1>4 DEF Together, InSet, Length, Handles, Queued, SetObjects
<1> QED
  BY <1>2, <1>3, <1>4, <1>5 DEF InSet, Length, Handles

LEMMA SendObjects ==
    ASSUME NEW st, NEW K, NEW o \in Queued(st), NEW items, SetObjects(st, K),
           st.set \in DOMAIN st.program.obj, Named(st.set), Line(items)
    PROVE  LET K2 == Arrive(K, o, items)
           IN  /\ SetObjects(st, K2)
               /\ \A q \in Queued(st) \ {o} : Together(st, K, K2, q)
               /\ InSet(st, K2, o) <=> InSet(st, K, o)
               /\ Len(items) = Length(K, o) + 1 => Together(st, K, K2, o)
<1> DEFINE K2 == Arrive(K, o, items)
<1>1. /\ o \in DOMAIN K.obj /\ o # st.set /\ st.set \in DOMAIN K.obj /\ "obj" \in DOMAIN K
      /\ IsQueue(K.obj[o]) /\ IsQueue(K.obj[st.set]) /\ Length(K, o) \in Nat
  BY CountsAreNumbers DEF Queued, SetObjects
<1>0. K.obj[o].set \in {"", st.set}
  BY <1>1 DEF SetObjects
<1>2. CASE K.obj[o].set = ""
  <2>1. NewItems(K, K2, o, items)
    BY <1>1, <1>2, ArriveObjects
  <2>2. ~InSet(st, K, o)
    BY <1>2 DEF InSet, Named
  <2> HIDE DEF K2
  <2>3. /\ SetObjects(st, K2)
        /\ \A q \in Queued(st) \ {o} : Together(st, K, K2, q)
        /\ InSet(st, K2, o) <=> InSet(st, K, o)
        /\ Handles(st, K2, o) = Handles(st, K, o)
    BY <2>1, NewItemsOf
  <2> QED
    BY <2>2, <2>3 DEF Together, K2
<1>3. CASE K.obj[o].set = st.set /\ Len(items) = Len(K.obj[o].items)
  <2>1. NewItems(K, K2, o, items)
    BY <1>1, <1>3, ArriveAgain
  <2>2. Len(items) # Length(K, o) + 1
    BY <1>1, <1>3 DEF Length
  <2> HIDE DEF K2
  <2>3. /\ SetObjects(st, K2) /\ \A q \in Queued(st) \ {o} : Together(st, K, K2, q)
        /\ InSet(st, K2, o) <=> InSet(st, K, o)
    BY <2>1, NewItemsOf
  <2> QED
    BY <2>2, <2>3 DEF K2
<1>4. CASE K.obj[o].set = st.set /\ Len(items) # Len(K.obj[o].items)
  <2> DEFINE handles == K.obj[st.set].items
  <2>1. /\ "obj" \in DOMAIN K2 /\ DOMAIN K2.obj = DOMAIN K.obj
        /\ K2.obj[o] = With(K.obj[o], items)
        /\ K2.obj[st.set] = With(K.obj[st.set], Append(handles, o))
        /\ \A u \in DOMAIN K.obj \ {o, st.set} : K2.obj[u] = K.obj[u]
    BY <1>1, <1>4, ArriveInSet
  <2>5. handles \in Seq(Queued(st))
    BY DEF SetObjects
  <2>2. handles \in Seq(Queued(st)) /\ Append(handles, o) \in Seq(Queued(st))
    <3> HIDE DEF handles
    <3> QED
      BY ONLY <2>5, o \in Queued(st)
  <2> HIDE DEF K2, handles
  <2>0. Line(Append(handles, o))
    BY ONLY <2>2 DEF Line
  <2>3. IsQueue(K2.obj[o]) /\ K2.obj[o].set = K.obj[o].set /\ K2.obj[o].items = items
    BY ONLY Line(items), <1>1, <2>1, QueueWith
  <2>4. /\ IsQueue(K2.obj[st.set]) /\ K2.obj[st.set].set = K.obj[st.set].set
        /\ K2.obj[st.set].items = Append(handles, o)
    <3> DEFINE more == Append(handles, o)
    <3>1. /\ IsQueue(K.obj[st.set]) /\ Line(more) /\ K2.obj[st.set] = With(K.obj[st.set], more)
      BY <1>1, <2>0, <2>1
    <3> HIDE DEF more
    <3>2. /\ IsQueue(K2.obj[st.set]) /\ K2.obj[st.set].set = K.obj[st.set].set
          /\ K2.obj[st.set].items = more
      BY ONLY <3>1, QueueWith
    <3> QED
      BY <3>2 DEF more
  <2>6. SetObjects(st, K2)
    BY <2>1, <2>2, <2>3, <2>4 DEF SetObjects
  <2>7. \A q : Handles(st, K2, q) = Handles(st, K, q) + One(o = q)
    BY <2>2, <2>4, CountAppend DEF Handles, handles
  <2>8. ASSUME NEW q \in Queued(st) \ {o}
        PROVE  Together(st, K, K2, q)
    <3>1. K2.obj[q] = K.obj[q] /\ q \in DOMAIN K.obj
      BY <2>1 DEF Queued, SetObjects
    <3>2. Handles(st, K2, q) = Handles(st, K, q)
      BY <2>7, <3>1, CountsAreNumbers DEF One
    <3> QED
      BY <3>1, <3>2 DEF Together, InSet, Length
  <2>9. ASSUME Len(items) = Length(K, o) + 1
        PROVE  Together(st, K, K2, o)
    <3>1. Handles(st, K2, o) = Handles(st, K, o) + 1 /\ Handles(st, K, o) \in Nat
      BY <1>1, <2>7, CountsAreNumbers DEF One
    <3>2. Length(K2, o) = Length(K, o) + 1 /\ (InSet(st, K2, o) <=> InSet(st, K, o))
      BY <2>3, <2>9 DEF InSet, Length
    <3>3. InSet(st, K, o)
      BY <1>4 DEF InSet
    <3> QED
      BY <1>1, <3>1, <3>2, <3>3 DEF Together
  <2>10. InSet(st, K2, o) <=> InSet(st, K, o)
    BY <2>3 DEF InSet
  <2> QED
    BY <2>6, <2>8, <2>9, <2>10 DEF K2
<1> QED
  BY <1>0, <1>2, <1>3, <1>4

\* An item is taken from o.
LEMMA ReceiveObjects ==
    ASSUME NEW st, NEW K, NEW o \in Queued(st), SetObjects(st, K),
           st.set \in DOMAIN st.program.obj, K.obj[o].items # <<>>
    PROVE  LET K2 == Leave(K, o, Tail(K.obj[o].items))
           IN  /\ SetObjects(st, K2)
               /\ \A q \in Queued(st) \ {o} : Together(st, K, K2, q)
               /\ InSet(st, K2, o) <=> InSet(st, K, o)
               /\ Handles(st, K2, o) = Handles(st, K, o) /\ Length(K, o) = Length(K2, o) + 1
<1> DEFINE items == K.obj[o].items
           K2    == Leave(K, o, Tail(items))
<1>1. o \in DOMAIN K.obj /\ "obj" \in DOMAIN K /\ Line(items)
  BY DEF Queued, SetObjects, IsQueue
<1>2. Line(Tail(items)) /\ Len(items) = Len(Tail(items)) + 1
  BY <1>1, LineTail
<1>3. NewItems(K, K2, o, Tail(items))
  BY <1>1, LeaveObjects
<1> DEFINE rest == Tail(items)
<1> HIDE DEF K2, rest
<1>4. /\ SetObjects(st, K2)
      /\ \A q \in Queued(st) \ {o} : Together(st, K, K2, q)
      /\ InSet(st, K2, o) <=> InSet(st, K, o)
      /\ Handles(st, K2, o) = Handles(st, K, o) /\ Length(K2, o) = Len(rest)
  <2>1. NewItems(K, K2, o, rest) /\ Line(rest)
    BY <1>2, <1>3 DEF rest
  <2> QED
    BY <2>1, NewItemsOf
<1> QED
  BY <1>2, <1>4 DEF Length, K2, rest

\* A handle is taken from the set.
LEMMA SelectObjects ==
    ASSUME NEW st, NEW K, SetObjects(st, K), st.set \in DOMAIN st.program.obj,
           K.obj[st.set].items # <<>>
    PROVE  LET handles == K.obj[st.set].items
               K2      == Leave(K, st.set, Tail(handles))
           IN  /\ SetObjects(st, K2) /\ Head(handles) \in Queued(st)
               /\ \A q \in Queued(st) :
                     /\ InSet(st, K2, q) <=> InSet(st, K, q)
                     /\ Length(K2, q) = Length(K, q)
                     /\ Handles(st, K, q) = Handles(st, K2, q) + One(Head(handles) = q)
<1> DEFINE handles == K.obj[st.set].items
           K2      == Leave(K, st.set, Tail(handles))
<1>1. /\ st.set \in DOMAIN K.obj /\ "obj" \in DOMAIN K /\ IsQueue(K.obj[st.set])
      /\ handles \in Seq(Queued(st))
  BY DEF SetObjects
<1>2. Head(handles) \in Queued(st) /\ Tail(handles) \in Seq(Queued(st)) /\ Line(Tail(handles))
  BY <1>1 DEF Line
<1>3. NewItems(K, K2, st.set, Tail(handles))
  BY <1>1, LeaveObjects
<1> HIDE DEF K2
<1>4. /\ "obj" \in DOMAIN K2 /\ DOMAIN K2.obj = DOMAIN K.obj
      /\ K2.obj[st.set] = With(K.obj[st.set], Tail(handles))
      /\ \A u \in DOMAIN K.obj \ {st.set} : K2.obj[u] = K.obj[u]
  BY <1>1, <1>3 DEF NewItems, With
<1>5. /\ IsQueue(K2.obj[st.set]) /\ K2.obj[st.set].set = K.obj[st.set].set
      /\ K2.obj[st.set].items = Tail(handles)
  BY <1>1, <1>2, <1>4, QueueWith
<1>6. SetObjects(st, K2)
  BY <1>2, <1>4, <1>5 DEF SetObjects
<1>7. \A q : Handles(st, K, q) = Handles(st, K2, q) + One(Head(handles) = q)
  BY <1>1, <1>5, CountTail DEF Handles
<1>8. \A q \in Queued(st) : K2.obj[q] = K.obj[q]
  BY <1>4 DEF Queued, SetObjects
<1> QED
  BY <1>2, <1>6, <1>7, <1>8 DEF InSet, Length, K2

\* o joins the set s, or leaves it.
Joins(K, o, s) == [K EXCEPT !.obj[o].set = s]

LEMMA JoiningObjects ==
    ASSUME NEW st, NEW K, NEW o \in Queued(st), SetObjects(st, K),
           st.set \in DOMAIN st.program.obj, NEW s, ~Named(s) \/ s = st.set
    PROVE  LET K2 == Joins(K, o, s)
           IN  /\ SetObjects(st, K2)
               /\ \A q \in Queued(st) : Handles(st, K2, q) = Handles(st, K, q) /\ Length(K2, q) = Length(K, q)
               /\ \A q \in Queued(st) \ {o} : K2.obj[q].set = K.obj[q].set
               /\ K2.obj[o].set = s
<1> DEFINE K2 == Joins(K, o, s)
<1>1. /\ "obj" \in DOMAIN K2 /\ DOMAIN K2.obj = DOMAIN K.obj
      /\ K2.obj[o] = Joining(K.obj[o], s)
      /\ \A u \in DOMAIN K.obj \ {o} : K2.obj[u] = K.obj[u]
      /\ o # st.set /\ o \in DOMAIN K.obj /\ IsQueue(K.obj[o])
  BY DEF Joins, Joining, Queued, SetObjects
<1> HIDE DEF K2
<1>2. IsQueue(K2.obj[o]) /\ K2.obj[o].items = K.obj[o].items /\ K2.obj[o].set = s
  BY ONLY <1>1, QueueJoining
<1>3. SetObjects(st, K2)
  <2>1. s \in {"", st.set}
    BY DEF Named
  <2> QED
    BY <1>1, <1>2, <2>1 DEF SetObjects
<1>4. \A q \in Queued(st) : K2.obj[q].items = K.obj[q].items
  BY <1>1, <1>2 DEF Queued, SetObjects
<1>5. K2.obj[st.set] = K.obj[st.set]
  BY <1>1 DEF SetObjects
<1>6. \A q \in Queued(st) \ {o} : K2.obj[q].set = K.obj[q].set
  BY <1>1 DEF Queued, SetObjects
<1> QED
  BY <1>2, <1>3, <1>4, <1>5, <1>6 DEF Handles, Length, K2
-----------------------------------------------------------------------------
(* Who holds a handle *)

\* What t uses next names an object.
NamesAnObject(st, t, n, m) == Named(NameAt(st, t, n)) => m[NameAt(st, t, n)] \in Queued(st)

SetPlaces(st, p, m) ==
    /\ DOMAIN p = DOMAIN st.program.tasks /\ DOMAIN m = DOMAIN st.program.mem
    /\ \A v \in st.always : m[v] \in Queued(st)
    /\ \A t \in DOMAIN p :
          p[t] \in DOMAIN st.program.tasks[t].program /\ NamesAnObject(st, t, p[t], m)

Holding(st, p, m, q) == {t \in DOMAIN st.hand : HoldsHandle(st, t, p[t]) /\ m[st.hand[t]] = q}

LEMMA PrivateIsNamed ==
    ASSUME NEW st, NEW t, NEW v
    PROVE  /\ v \in PrivateNames(st, t) => Named(v) /\ v \notin st.always
           /\ \A n \in DOMAIN st.program.tasks[t].program :
                 v = NameAt(st, t, n) /\ Named(v) => v \in st.always \/ v \in PrivateNames(st, t)
           /\ v \in {""} \cup st.always <=> ~Named(v) \/ v \in st.always
  BY DEF PrivateNames, Named

LEMMA HandsOf ==
    ASSUME NEW st, SetOutline(st), NEW t \in DOMAIN st.hand
    PROVE  /\ st.hand[t] \in PrivateNames(st, t) /\ Named(st.hand[t]) /\ st.hand[t] \notin st.always
           /\ st.hand[t] \in DOMAIN st.program.mem /\ t \in DOMAIN st.program.tasks
  BY PrivateIsNamed DEF SetOutline

\* The variable v after the call of t.
LEMMA DoneKeeps ==
    ASSUME NEW d, NEW t, NEW c, NEW r, Done(d, t, c, r), NEW v \in DOMAIN mem, Named(v),
           ~(AtEnd(d.tasks[t], pc[t] + Ahead(c, r)) /\ v \in d.tasks[t].locals)
    PROVE  mem'[v] = IF c.into = v THEN r ELSE mem[v]
  BY DEF Done, DoneAt, Named

LEMMA DoneNames ==
    ASSUME NEW d, NEW t, NEW c, NEW r, Done(d, t, c, r)
    PROVE  DOMAIN mem' = DOMAIN mem
  BY DEF Done, DoneAt

\* With the result r the outline allows the call c of t at n.
Allows(st, t, n, c, r) ==
    LET task == st.program.tasks[t]
        to   == Place(task, n + Ahead(c, r))
        v    == NameAt(st, t, to)
    IN  /\ to \in DOMAIN task.program
        /\ Named(v) => \/ v \in st.always
                       \/ /\ v = c.into /\ r \in Queued(st)
                          /\ ~(AtEnd(task, n + Ahead(c, r)) /\ v \in task.locals)
        /\ c.into \in st.always => r \in Queued(st)
        /\ \A u \in DOMAIN st.program.tasks \ {t} : c.into \notin PrivateNames(st, u)

LEMMA SetLands ==
    ASSUME NEW st, SetOutline(st), SetPlaces(st, pc, mem), NEW t \in DOMAIN pc, NEW c, NEW r,
           Done(st.program, t, c, r), Allows(st, t, pc[t], c, r)
    PROVE  /\ SetPlaces(st, pc', mem')
           /\ \A q : Holding(st, pc', mem', q) =
                        (Holding(st, pc, mem, q) \ {t})
                        \cup (IF HoldsHandle(st, t, pc'[t]) /\ r = q THEN {t} ELSE {})
<1> DEFINE d    == st.program
           task == d.tasks[t]
           to   == Place(task, pc[t] + Ahead(c, r))
<1>1. /\ DOMAIN pc' = DOMAIN pc /\ pc'[t] = to
      /\ \A u \in DOMAIN pc \ {t} : pc'[u] = pc[u]
  BY DonePlace
<1>2. DOMAIN mem' = DOMAIN mem /\ DOMAIN mem = DOMAIN d.mem /\ DOMAIN pc = DOMAIN d.tasks
  BY DoneNames DEF SetPlaces
<1>3. ASSUME NEW v \in st.always
      PROVE  mem'[v] \in Queued(st)
  <2>1. v \in DOMAIN mem /\ Named(v) /\ v \notin task.locals /\ mem[v] \in Queued(st)
    BY <1>2 DEF SetOutline, SetPlaces, Named
  <2>2. mem'[v] = IF c.into = v THEN r ELSE mem[v]
    BY <2>1, DoneKeeps
  <2> QED
    BY <2>1, <2>2 DEF Allows
<1>4. ASSUME NEW u \in DOMAIN pc \ {t}, NEW v \in PrivateNames(st, u)
      PROVE  mem'[v] = mem[v] /\ Named(v)
  <2>1. v \in DOMAIN mem /\ v \notin task.locals
    BY <1>2 DEF SetOutline
  <2>2. Named(v)
    BY PrivateIsNamed
  <2>3. c.into # v
    BY <1>2 DEF Allows
  <2> QED
    BY <2>1, <2>2, <2>3, DoneKeeps
<1>5. ASSUME Named(NameAt(st, t, to)), NameAt(st, t, to) \notin st.always
      PROVE  mem'[NameAt(st, t, to)] = r /\ r \in Queued(st)
  <2> DEFINE v == NameAt(st, t, to)
  <2>1. /\ v = c.into /\ r \in Queued(st)
        /\ ~(AtEnd(task, pc[t] + Ahead(c, r)) /\ v \in task.locals)
    BY <1>5 DEF Allows
  <2>2. v \in DOMAIN mem
    <3>1. to \in DOMAIN task.program
      BY DEF Allows
    <3>2. v \in PrivateNames(st, t)
      BY <1>5, <3>1, PrivateIsNamed
    <3> QED
      BY <1>2, <3>2 DEF SetOutline
  <2>3. mem'[v] = IF c.into = v THEN r ELSE mem[v]
    BY <1>5, <2>1, <2>2, DoneKeeps
  <2> QED
    BY <2>1, <2>3
<1>6. ASSUME NEW u \in DOMAIN pc
      PROVE  pc'[u] \in DOMAIN d.tasks[u].program /\ NamesAnObject(st, u, pc'[u], mem')
  <2>1. CASE u = t
    <3>1. to \in DOMAIN task.program
      BY DEF Allows
    <3> QED
      BY <1>1, <1>3, <1>5, <2>1, <3>1 DEF NamesAnObject
  <2>2. CASE u # t
    <3>1. /\ pc'[u] = pc[u] /\ pc[u] \in DOMAIN d.tasks[u].program
          /\ NamesAnObject(st, u, pc[u], mem)
      BY <1>1, <2>2 DEF SetPlaces
    <3>2. ASSUME Named(NameAt(st, u, pc[u]))
          PROVE  mem'[NameAt(st, u, pc[u])] \in Queued(st)
      <4>1. CASE NameAt(st, u, pc[u]) \in st.always
        BY <1>3, <4>1
      <4>2. CASE NameAt(st, u, pc[u]) \in PrivateNames(st, u)
        BY <1>4, <2>2, <3>1, <3>2, <4>2 DEF NamesAnObject
      <4> QED
        BY <3>1, <3>2, <4>1, <4>2, PrivateIsNamed
    <3> QED
      BY <3>1, <3>2 DEF NamesAnObject
  <2> QED
    BY <2>1, <2>2
<1>7. SetPlaces(st, pc', mem')
  BY <1>1, <1>2, <1>3, <1>6 DEF SetPlaces
<1>8. ASSUME NEW q, NEW u \in DOMAIN st.hand \ {t}
      PROVE  HoldsHandle(st, u, pc'[u]) /\ mem'[st.hand[u]] = q
             <=> HoldsHandle(st, u, pc[u]) /\ mem[st.hand[u]] = q
  <2>1. st.hand[u] \in PrivateNames(st, u) /\ u \in DOMAIN pc
    BY <1>2, HandsOf
  <2> QED
    BY <1>1, <1>4, <2>1
<1>9. ASSUME t \in DOMAIN st.hand, HoldsHandle(st, t, to)
      PROVE  mem'[st.hand[t]] = r
  <2>1. NameAt(st, t, to) = st.hand[t]
    BY <1>9 DEF HoldsHandle
  <2> QED
    BY <1>5, <1>9, <2>1, HandsOf
<1>10. ASSUME NEW q
       PROVE  Holding(st, pc', mem', q) =
                (Holding(st, pc, mem, q) \ {t})
                \cup (IF HoldsHandle(st, t, pc'[t]) /\ r = q THEN {t} ELSE {})
  <2>1. HoldsHandle(st, t, to) => t \in DOMAIN st.hand
    BY DEF HoldsHandle
  <2> HIDE DEF to
  <2> QED
    BY <1>1, <1>8, <1>9, <2>1 DEF Holding
<1> QED
  BY <1>7, <1>10
-----------------------------------------------------------------------------
(* Items, handles and holders *)

\* A queue in the set has as many items as handles, of which tasks hold w; another queue has
\* no handle.
Balanced(st, K, q, w) ==
    IF InSet(st, K, q) THEN Length(K, q) = Handles(st, K, q) + w ELSE Handles(st, K, q) + w = 0

\* From K to K2 the balance of q is kept, if one task no longer holds a handle (lost), or one
\* more does (gained).
Settles(st, K, K2, q, lost, gained) ==
    \A w, w2 \in Nat :
        Balanced(st, K, q, w) /\ w2 + One(lost) = w + One(gained) => Balanced(st, K2, q, w2)

LEMMA TogetherSettles ==
    ASSUME NEW st, NEW K, NEW K2, NEW q, SetObjects(st, K), SetObjects(st, K2),
           q \in Queued(st), Together(st, K, K2, q)
    PROVE  Settles(st, K, K2, q, FALSE, FALSE)
<1>1. /\ Length(K, q) \in Nat /\ Handles(st, K, q) \in Nat
      /\ Length(K2, q) \in Nat /\ Handles(st, K2, q) \in Nat
  BY CountsAreNumbers DEF SetObjects, Queued
<1> QED
  BY <1>1 DEF Settles, Together, Balanced, One

LEMMA ReceiveSettles ==
    ASSUME NEW st, NEW K, NEW K2, NEW q, SetObjects(st, K), SetObjects(st, K2), q \in Queued(st),
           InSet(st, K2, q) <=> InSet(st, K, q),
           Handles(st, K2, q) = Handles(st, K, q), Length(K, q) = Length(K2, q) + 1
    PROVE  Settles(st, K, K2, q, TRUE, FALSE)
<1>1. Length(K2, q) \in Nat /\ Handles(st, K, q) \in Nat
  BY CountsAreNumbers DEF SetObjects, Queued
<1> QED
  BY <1>1 DEF Settles, Balanced, One

LEMMA SelectSettles ==
    ASSUME NEW st, NEW K, NEW K2, NEW q, NEW h, SetObjects(st, K), SetObjects(st, K2),
           q \in Queued(st), InSet(st, K2, q) <=> InSet(st, K, q), Length(K2, q) = Length(K, q),
           Handles(st, K, q) = Handles(st, K2, q) + One(h = q)
    PROVE  Settles(st, K, K2, q, FALSE, h = q)
<1>1. Length(K, q) \in Nat /\ Handles(st, K2, q) \in Nat
  BY CountsAreNumbers DEF SetObjects, Queued
<1> QED
  BY <1>1 DEF Settles, Balanced, One

LEMMA JoiningSettles ==
    ASSUME NEW st, NEW K, NEW K2, NEW q, SetObjects(st, K), q \in Queued(st),
           Length(K, q) = 0, Length(K2, q) = Length(K, q), Handles(st, K2, q) = Handles(st, K, q)
    PROVE  Settles(st, K, K2, q, FALSE, FALSE)
<1>1. Handles(st, K, q) \in Nat
  BY CountsAreNumbers DEF SetObjects, Queued
<1> QED
  BY <1>1 DEF Settles, Balanced, One

SetClaim(st, K, p, m) ==
    /\ \A q \in st.members : Balanced(st, K, q, Cardinality(Holding(st, p, m, q)))
    /\ \A t \in DOMAIN p : \A q \in OutsideAt(st, t, p[t]) : ~InSet(st, K, q)

SetInv(st) ==
    /\ SetObjects(st, kernel) /\ SetPlaces(st, pc, mem)
    /\ ~error => SetClaim(st, kernel, pc, mem)

LEMMA HoldingFinite ==
    ASSUME NEW st, SetOutline(st), NEW p, NEW m, NEW q
    PROVE  IsFiniteSet(Holding(st, p, m, q)) /\ Cardinality(Holding(st, p, m, q)) \in Nat
<1>1. IsFiniteSet(DOMAIN st.hand) /\ Holding(st, p, m, q) \subseteq DOMAIN st.hand
  BY DEF SetOutline, Holding
<1> QED
  BY <1>1, FS_Subset, FS_CardinalityType

LEMMA SetInit ==
    ASSUME NEW st, SetOutline(st), InitOf(st.program)
    PROVE  SetInv(st)
<1> DEFINE d == st.program
<1>1. /\ kernel.obj = d.obj /\ "obj" \in DOMAIN kernel /\ mem = d.mem
      /\ pc = [t \in DOMAIN d.tasks |-> 1]
  BY DEF InitOf
<1>2. ASSUME NEW o \in DOMAIN d.obj
      PROVE  IsQueue(d.obj[o]) /\ d.obj[o].items = <<>>
  <2>1. PICK n, x : d.obj[o] = NewQueue(n, x)
    BY DEF SetOutline, NewQueue
  <2> QED
    BY ONLY <2>1, QueueOf
<1>3. SetObjects(st, kernel)
  <2>1. /\ st.set \in DOMAIN d.obj /\ d.obj[st.set].set = ""
        /\ \A o \in DOMAIN d.obj : d.obj[o].set \in {"", st.set}
    BY DEF SetOutline
  <2>2. d.obj[st.set].items \in Seq(Queued(st))
    <3>1. <<>> \in Seq(Queued(st))
      OBVIOUS
    <3> QED
      BY ONLY <1>2, <2>1, <3>1
  <2> QED
    BY <1>1, <1>2, <2>1, <2>2 DEF SetObjects
<1>4. SetPlaces(st, pc, mem)
  <2>1. \A v \in st.always : mem[v] \in Queued(st)
    BY <1>1 DEF SetOutline
  <2>2. ASSUME NEW t \in DOMAIN pc
        PROVE  1 \in DOMAIN d.tasks[t].program /\ NamesAnObject(st, t, 1, mem)
    <3>1. 1 \in DOMAIN d.tasks[t].program /\ NameAt(st, t, 1) \in {""} \cup st.always
      BY <1>1 DEF SetOutline
    <3> QED
      BY <2>1, <3>1, PrivateIsNamed DEF NamesAnObject
  <2> QED
    BY <1>1, <2>1, <2>2 DEF SetPlaces
<1>5. ASSUME NEW q \in st.members
      PROVE  Balanced(st, kernel, q, Cardinality(Holding(st, pc, mem, q)))
  <2>1. q \in Queued(st) /\ q \in DOMAIN d.obj /\ st.set \in DOMAIN d.obj
    BY DEF SetOutline, Queued
  <2>2. Handles(st, kernel, q) = 0 /\ Length(kernel, q) = 0
    BY <1>1, <1>2, <2>1, CountNone DEF Handles, Length
  <2>3. ASSUME NEW t \in DOMAIN st.hand
        PROVE  ~HoldsHandle(st, t, pc[t])
    <3>1. t \in DOMAIN d.tasks /\ pc[t] = 1 /\ NameAt(st, t, 1) \in {""} \cup st.always
      BY <1>1, HandsOf DEF SetOutline
    <3>2. NameAt(st, t, 1) # st.hand[t]
      BY <3>1, HandsOf, PrivateIsNamed
    <3> QED
      BY <3>1, <3>2 DEF HoldsHandle
  <2>4. Cardinality(Holding(st, pc, mem, q)) = 0
    <3>1. Holding(st, pc, mem, q) = {}
      BY <2>3 DEF Holding
    <3> QED
      BY <3>1, FS_EmptySet
  <2> QED
    BY <2>2, <2>4 DEF Balanced
<1>6. ASSUME NEW t \in DOMAIN pc, NEW q \in OutsideAt(st, t, pc[t])
      PROVE  ~InSet(st, kernel, q)
  <2>1. d.obj[q].set = ""
    BY <1>1, <1>6 DEF SetOutline
  <2>2. "" # st.set
    BY DEF SetOutline
  <2> QED
    BY <1>1, <2>1, <2>2 DEF InSet
<1> QED
  BY <1>3, <1>4, <1>5, <1>6 DEF SetInv, SetClaim

\* Task t ends a call: the balance of each member is kept, and nothing joins the set that a
\* task knows to be outside.
LEMMA SetMoves ==
    ASSUME NEW st, SetOutline(st), SetInv(st), NEW t \in DOMAIN pc, NEW c, NEW r,
           Done(st.program, t, c, r), Allows(st, t, pc[t], c, r), SetObjects(st, kernel'),
           ~error' => \A q \in st.members :
              Settles(st, kernel, kernel', q, t \in Holding(st, pc, mem, q),
                      HoldsHandle(st, t, pc'[t]) /\ r = q),
           ~error' => \A q \in OutsideAt(st, t, pc'[t]) : ~InSet(st, kernel', q),
           \A u \in DOMAIN pc \ {t} : \A q \in OutsideAt(st, u, pc[u]) :
              InSet(st, kernel', q) => InSet(st, kernel, q)
    PROVE  SetInv(st)'
<1>1. /\ SetPlaces(st, pc', mem')
      /\ \A q : Holding(st, pc', mem', q) =
                   (Holding(st, pc, mem, q) \ {t})
                   \cup (IF HoldsHandle(st, t, pc'[t]) /\ r = q THEN {t} ELSE {})
  BY SetLands DEF SetInv
<1>2. /\ DOMAIN pc' = DOMAIN pc /\ \A u \in DOMAIN pc \ {t} : pc'[u] = pc[u]
      /\ error => error'
  BY DonePlace, DoneError
<1>3. ASSUME ~error' PROVE SetClaim(st, kernel', pc', mem')
  <2>1. SetClaim(st, kernel, pc, mem)
    BY <1>2, <1>3 DEF SetInv
  <2>2. ASSUME NEW q \in st.members
        PROVE  Balanced(st, kernel', q, Cardinality(Holding(st, pc', mem', q)))
    <3> DEFINE A == Holding(st, pc, mem, q)
               B == Holding(st, pc', mem', q)
               b == HoldsHandle(st, t, pc'[t]) /\ r = q
    <3>1. IsFiniteSet(A) /\ b \in BOOLEAN
      BY HoldingFinite
    <3>2. B = (A \ {t}) \cup (IF b THEN {t} ELSE {})
      BY <1>1
    <3>3. Settles(st, kernel, kernel', q, t \in A, b)
      BY <1>3
    <3>4. Balanced(st, kernel, q, Cardinality(A))
      BY <2>1 DEF SetClaim
    <3> HIDE DEF A, B, b
    <3>5. /\ Cardinality(A) \in Nat /\ Cardinality(B) \in Nat
          /\ Cardinality(B) + One(t \in A) = Cardinality(A) + One(b)
      BY <3>1, <3>2, SizeAfter
    <3>6. Balanced(st, kernel', q, Cardinality(B))
      BY <3>3, <3>4, <3>5 DEF Settles
    <3> QED
      BY <3>6 DEF B
  <2>3. ASSUME NEW u \in DOMAIN pc, NEW q \in OutsideAt(st, u, pc'[u])
        PROVE  ~InSet(st, kernel', q)
    <3>1. CASE u = t
      BY <1>3, <2>3, <3>1
    <3>2. CASE u # t
      BY <1>2, <2>1, <2>3, <3>2 DEF SetClaim
    <3> QED
      BY <3>1, <3>2
  <2> QED
    BY <1>2, <2>2, <2>3 DEF SetClaim
<1> QED
  BY <1>1, <1>3 DEF SetInv

\* No task moves and no object changes.
LEMMA SetIdle ==
    ASSUME NEW st, SetInv(st), SameObjects(kernel, kernel'), UNCHANGED <<pc, error>>,
           SetPlaces(st, pc, mem'), \A q : Holding(st, pc, mem', q) = Holding(st, pc, mem, q)
    PROVE  SetInv(st)'
<1>1. SetObjects(st, kernel')
  BY DEF SetInv, SetObjects, SameObjects
<1>2. ASSUME ~error PROVE SetClaim(st, kernel', pc, mem')
  BY <1>2 DEF SetInv, SetClaim, Balanced, InSet, Length, Handles, SameObjects
<1> QED
  BY <1>1, <1>2 DEF SetInv
-----------------------------------------------------------------------------
(* What the calls of an outline do *)

Objectless == PlainCalls \cup TaskCalls \cup {"Choose", "Suspend"}

\* Which action the call is, of those not known yet.
LEMMA ActionOfSetOp ==
    ASSUME NEW d, NEW t, NEW c, StepOf(d, t, c)
    PROVE  /\ c.op \in QueueCalls => QueueCall(d, t, c)
           /\ c.op = "Choose" => ChooseCall(d, t, c)
  BY OpsOfActions
     DEF StepOf, QueueCalls, Receives, MutexCalls, NoteCalls, WaitCalls, GroupCalls,
         TimerCalls, BufferCalls

\* A call that touches no object ends with some result, which is a queue if the outline wants
\* one kept, or goes on.
LEMMA ObjectlessStep ==
    ASSUME NEW st, NEW d, NEW t, NEW c, StepOf(d, t, c), c.op \in Objectless,
           "obj" \in DOMAIN kernel
    PROVE  /\ SameObjects(kernel, kernel')
           /\ \/ UNCHANGED <<pc, mem, error>>
              \/ \E r : Done(d, t, c, r) /\ (NamesQueue(st, c) => r \in Queued(st))
<1>1. CASE c.op \in PlainCalls \ {"Set"}
  <2>1. ~NamesQueue(st, c)
    BY <1>1 DEF NamesQueue, PlainCalls
  <2> QED
    BY <1>1, <2>1, PlainStep
<1>2. CASE c.op = "Set"
  <2>1. WriteCall(d, t, c)
    BY <1>2, ActionOfOp
  <2>2. kernel' = kernel /\ \E r : Done(d, t, c, r) /\ (c.mod = 0 /\ c.from = "" => r = c.v)
    BY <1>2, <2>1 DEF WriteCall, Value
  <2> QED
    BY <1>2, <2>2 DEF NamesQueue, SameObjects
<1>3. CASE c.op = "Choose"
  <2>1. ChooseCall(d, t, c)
    BY <1>3, ActionOfSetOp
  <2> QED
    BY <1>3, <2>1 DEF ChooseCall, NamesQueue, SameObjects
<1>4. CASE c.op \in TaskCalls \cup {"Suspend"}
  <2>1. ~NamesQueue(st, c)
    BY <1>4 DEF NamesQueue, TaskCalls
  <2>2. SameObjects(kernel, kernel') /\ \E r : Done(d, t, c, r)
    <3>1. CASE c.op = "Resume"
      <4>1. (kernel' = kernel \/ kernel' = Unblock(kernel, c.o)) /\ \E r : Done(d, t, c, r)
        BY <3>1, ActionOfTaskOp DEF ResumeCall
      <4> QED
        BY <4>1, UnblockObjects DEF SameObjects
    <3>2. CASE c.op = "AbortDelay"
      <4> DEFINE K1 == Unblock(kernel, c.o)
      <4>1. /\ kernel' = kernel \/ kernel' = [K1 EXCEPT !.task[c.o].left = 0]
            /\ \E r : Done(d, t, c, r)
        BY <3>2, ActionOfTaskOp DEF AbortDelayCall
      <4>2. SameObjects(kernel, K1)
        BY UnblockObjects
      <4> HIDE DEF K1
      <4> QED
        BY <4>1, <4>2 DEF SameObjects
    <3>3. CASE c.op \in {"PrioritySet", "PriorityGet"}
      BY <3>3, ActionOfTaskOp DEF PriorityCall, SameObjects
    <3>4. CASE c.op = "GetState"
      BY <3>4, ActionOfTaskOp DEF GetStateCall, SameObjects
    <3>5. CASE c.op = "Holder"
      <4>1. MutexCall(d, t, c) /\ MutexAble(kernel, t, c)
        BY <3>5, ActionOfTaskOp DEF MutexAble
      <4>2. kernel' = Rested(MutexAfter(kernel, t, c), t) /\ Done(d, t, c, MutexReturned(kernel, c))
        BY <4>1 DEF MutexCall
      <4>3. MutexAfter(kernel, t, c) = kernel
        BY <3>5 DEF MutexAfter
      <4> QED
        BY <4>2, <4>3, RestedObjects
    <3>6. CASE c.op = "Jump"
      BY <3>6, ActionOfTaskOp DEF ReadCall, SameObjects
    <3>7. CASE c.op = "Suspend"
      <4> DEFINE u  == Target(t, c)
                 K1 == Unblock(kernel, u)
      <4>1. kernel' = [K1 EXCEPT !.task[u].run = "suspended"] /\ Done(d, t, c, Pass)
        BY <3>7, ActionOfTaskOp DEF SuspendCall
      <4>2. SameObjects(kernel, K1)
        BY UnblockObjects
      <4> HIDE DEF K1, u
      <4> QED
        BY <4>1, <4>2 DEF SameObjects
    <3> QED
      BY <1>4, <3>1, <3>2, <3>3, <3>4, <3>5, <3>6, <3>7 DEF TaskCalls
  <2> QED
    BY <2>1, <2>2
<1> QED
  BY <1>1, <1>2, <1>3, <1>4 DEF Objectless

\* A call on a queue is done, or refused, or the task blocks.
LEMMA QueueStep ==
    ASSUME NEW d, NEW t, NEW c, StepOf(d, t, c), c.op \in QueueCalls, "obj" \in DOMAIN kernel
    PROVE  \/ /\ QueueAble(kernel, c)
              /\ kernel' = Rested(QueueAfter(kernel, c, Item(c)), t)
              /\ Done(d, t, c, QueueReturned(kernel, c))
           \/ /\ ~QueueAble(kernel, c)
              /\ SameObjects(kernel, kernel') /\ Done(d, t, c, Refused(c))
           \/ SameObjects(kernel, kernel') /\ UNCHANGED <<pc, mem, error>>
<1>1. QueueCall(d, t, c)
  BY ActionOfSetOp
<1>2. CASE ~QueueAble(kernel, c) /\ kernel' = Rested(kernel, t) /\ Done(d, t, c, Refused(c))
  BY <1>2, RestedObjects
<1>3. CASE /\ \E where, ticks : kernel' = Block(kernel, t, where, ticks)
           /\ UNCHANGED <<pc, mem, error>>
  BY <1>3, BlockObjects
<1> QED
  BY <1>1, <1>2, <1>3 DEF QueueCall

\* What the objects are after the call depends on them alone.
LEMMA SetObjectsOnly ==
    ASSUME NEW st, NEW K, NEW K2, SameObjects(K, K2), SetObjects(st, K)
    PROVE  /\ SetObjects(st, K2)
           /\ \A q : /\ InSet(st, K2, q) <=> InSet(st, K, q)
                     /\ Length(K2, q) = Length(K, q) /\ Handles(st, K2, q) = Handles(st, K, q)
                     /\ Together(st, K, K2, q)
  BY DEF SameObjects, SetObjects, InSet, Length, Handles, Together

\* The calls with which no task gets or loses a handle: of a queue that is not in the set, or
\* nothing but sends.
LEMMA SteadyCalls ==
    ASSUME NEW st, NEW K, NEW c, NEW value, SetOutline(st), SetObjects(st, K), QueueAble(K, c),
           \/ c.op \in {"SendToBack", "SendToFront", "Receive"} /\ c.o \in Queued(st)
           \/ c.op = "Overwrite" /\ c.o \in Queued(st) \ st.members
           \/ c.op \in {"Peek", "Messages"}
    PROVE  LET K2 == QueueAfter(K, c, value)
           IN  /\ SetObjects(st, K2)
               /\ \A q \in Queued(st) : InSet(st, K2, q) <=> InSet(st, K, q)
               /\ \A q \in st.members : (c.op = "Receive" /\ q = c.o => ~InSet(st, K, q))
                                        => Settles(st, K, K2, q, FALSE, FALSE)
<1> DEFINE K2    == QueueAfter(K, c, value)
           items == K.obj[c.o].items
<1>1. /\ st.set \in DOMAIN st.program.obj /\ Named(st.set) /\ st.members \subseteq Queued(st)
      /\ "obj" \in DOMAIN K
  BY DEF SetOutline, SetObjects, Named
<1>2. ASSUME SetObjects(st, K2), NEW q \in Queued(st), Together(st, K, K2, q)
      PROVE  (InSet(st, K2, q) <=> InSet(st, K, q)) /\ Settles(st, K, K2, q, FALSE, FALSE)
  BY <1>2, TogetherSettles DEF Together
<1>3. CASE c.op \in {"SendToBack", "SendToFront"}
  <2>1. c.o \in Queued(st) /\ Line(items)
    BY <1>3 DEF Queued, SetObjects, IsQueue
  <2>2. PICK x : K2 = Arrive(K, c.o, x) /\ Line(x) /\ Len(x) = Length(K, c.o) + 1
    BY <1>3, <2>1, LineAppend, LineFront DEF QueueAfter, Length
  <2>3. /\ SetObjects(st, Arrive(K, c.o, x))
        /\ \A q \in Queued(st) : Together(st, K, Arrive(K, c.o, x), q)
    BY <1>1, <2>1, <2>2, SendObjects
  <2> QED
    BY <1>1, <1>2, <2>2, <2>3
<1>4. CASE c.op = "Overwrite"
  <2>1. c.o \in Queued(st) \ st.members
    BY <1>4
  <2>2. K2 = Arrive(K, c.o, <<value>>) /\ Line(<<value>>)
    BY <1>4, LineOne DEF QueueAfter
  <2>3. /\ SetObjects(st, Arrive(K, c.o, <<value>>))
        /\ \A q \in Queued(st) \ {c.o} : Together(st, K, Arrive(K, c.o, <<value>>), q)
        /\ InSet(st, Arrive(K, c.o, <<value>>), c.o) <=> InSet(st, K, c.o)
    BY <1>1, <2>1, <2>2, SendObjects
  <2> QED
    BY <1>1, <1>2, <2>1, <2>2, <2>3
<1>5. CASE c.op = "Receive"
  <2> DEFINE K3 == Leave(K, c.o, Tail(items))
  <2>1. c.o \in Queued(st) /\ items # <<>> /\ K2 = K3
    BY <1>5 DEF QueueAble, QueueAfter, Receives
  <2>2. /\ SetObjects(st, K3)
        /\ \A q \in Queued(st) \ {c.o} : Together(st, K, K3, q)
        /\ InSet(st, K3, c.o) <=> InSet(st, K, c.o)
        /\ Handles(st, K3, c.o) = Handles(st, K, c.o)
    BY <1>1, <2>1, ReceiveObjects
  <2> HIDE DEF K3
  <2>3. ~InSet(st, K, c.o) => Together(st, K, K3, c.o)
    BY <2>2 DEF Together
  <2> QED
    BY <1>1, <1>2, <1>5, <2>1, <2>2, <2>3
<1>6. CASE c.op = "Messages"
  <2>1. SameObjects(K, K2)
    BY <1>1, <1>6 DEF QueueAfter, SameObjects
  <2> HIDE DEF K2
  <2> QED
    BY <1>1, <1>2, <2>1, SetObjectsOnly DEF K2
<1>7. CASE c.op = "Peek"
  <2>1. SameObjects(K, K2)
    BY <1>1, <1>7, WakeObjects DEF QueueAfter
  <2> HIDE DEF K2
  <2> QED
    BY <1>1, <1>2, <2>1, SetObjectsOnly DEF K2
<1> QED
  BY <1>3, <1>4, <1>5, <1>6, <1>7

LEMMA SettlesAfterwards ==
    ASSUME NEW st, NEW K, NEW K1, NEW K2, NEW q, NEW lost, NEW gained, SameObjects(K1, K2),
           Settles(st, K, K1, q, lost, gained)
    PROVE  Settles(st, K, K2, q, lost, gained)
  BY DEF Settles, Balanced, InSet, Length, Handles, SameObjects

\* The call of the program that t is at, and the one that it makes: on the object that a
\* variable may name.
Calls(st, t) == st.program.tasks[t].program[pc[t]]
Makes(st, t) == CallOf(st.program, t)

LEMMA CallFields ==
    ASSUME NEW st, NEW t, DOMAIN Calls(st, t) = DOMAIN Call("", "")
    PROVE  LET c0 == Calls(st, t)
               c  == Makes(st, t)
           IN  /\ c.op = c0.op /\ c.into = c0.into /\ c.expect = c0.expect /\ c.strict = c0.strict
               /\ c.ok = c0.ok /\ c.no = c0.no /\ c.to = c0.to
               /\ ~Named(c0.of) => c = c0
               /\ Named(c0.of) => c.o = mem[c0.of]
<1> DEFINE c0 == Calls(st, t)
           c  == Makes(st, t)
<1>1. {"op", "o", "of", "to", "into", "expect", "strict", "ok", "no"} \subseteq DOMAIN c0
  BY DEF Call
<1>2. c = IF Named(c0.of) THEN [c0 EXCEPT !.o = mem[c0.of]] ELSE c0
  BY DEF CallOf, Named, Calls, Makes
<1> HIDE DEF c0, c
<1>3. CASE Named(c0.of)
  BY <1>1, <1>2, <1>3 DEF c0, c
<1>4. CASE ~Named(c0.of)
  BY <1>1, <1>2, <1>4 DEF c0, c
<1> QED
  BY <1>3, <1>4

\* The names that t may use after call c at n with its result, as SetFits says it.
NextName(st, t, n, c, k) ==
    LET task == st.program.tasks[t]
        to   == Place(task, n + k)
        v    == NameAt(st, t, to)
    IN  \/ ~Named(v) \/ v \in st.always
        \/ /\ v = c.into /\ NamesQueue(st, c) /\ ~HoldsHandle(st, t, to)
           /\ ~(AtEnd(task, n + k) /\ v \in task.locals)

LEMMA NextAllows ==
    ASSUME NEW st, SetOutline(st), NEW t \in DOMAIN st.program.tasks,
           NEW n \in DOMAIN st.program.tasks[t].program, NEW c, NEW r,
           c.into = st.program.tasks[t].program[n].into,
           LET c0 == st.program.tasks[t].program[n]
           IN  /\ Ahead(c, r) = Ahead(c0, r) /\ NextName(st, t, n, c0, Ahead(c, r))
               /\ NamesQueue(st, c0) => r \in Queued(st)
    PROVE  /\ Allows(st, t, n, c, r)
           /\ ~HoldsHandle(st, t, Place(st.program.tasks[t], n + Ahead(c, r)))
<1> DEFINE task == st.program.tasks[t]
           c0   == task.program[n]
           to   == Place(task, n + Ahead(c, r))
           v    == NameAt(st, t, to)
<1>1. SetFits(st, t, n)
  BY DEF SetOutline
<1>2. /\ to \in DOMAIN task.program
      /\ c0.into \in st.always => NamesQueue(st, c0)
      /\ \A u \in DOMAIN st.program.tasks \ {t} : c0.into \notin PrivateNames(st, u)
  BY <1>1 DEF SetFits, Branches, Ahead
<1>3. ASSUME ~Named(v) \/ v \in st.always
      PROVE  ~HoldsHandle(st, t, to)
  BY <1>3, HandsOf DEF HoldsHandle
<1>4. \/ ~Named(v) \/ v \in st.always
      \/ /\ v = c0.into /\ NamesQueue(st, c0) /\ ~HoldsHandle(st, t, to)
         /\ ~(AtEnd(task, n + Ahead(c, r)) /\ v \in task.locals)
  BY DEF NextName
<1> QED
  BY <1>2, <1>3, <1>4 DEF Allows

\* What the outline says of the call at n, by the function that is called.
OnQueues == {"SendToBack", "SendToFront", "Receive", "Overwrite", "Peek", "Messages"}

LEMMA OutlineOfCall ==
    ASSUME NEW st, SetOutline(st), NEW t \in DOMAIN st.program.tasks,
           NEW n \in DOMAIN st.program.tasks[t].program
    PROVE  LET task == st.program.tasks[t]
               c    == task.program[n]
               to(r) == Place(task, n + Ahead(c, r))
           IN  /\ c.op \in Objectless \cup OnQueues \cup {"Select", "AddToSet", "RemoveFromSet"}
               /\ c.op # "Select" => \A r : NextName(st, t, n, c, Ahead(c, r))
               /\ c.op \notin {"SendToBack", "SendToFront", "Receive"} => ~Named(c.of)
               /\ c.op \in {"SendToBack", "SendToFront"} =>
                     ~HoldsHandle(st, t, n) /\ (~Named(c.of) => c.o \in Queued(st))
               /\ c.op = "Receive" =>
                     IF Named(c.of) THEN HoldsHandle(st, t, n)
                     ELSE c.o \in Queued(st) /\ (c.o \in st.members => c.o \in OutsideAt(st, t, n))
               /\ c.op = "Overwrite" => c.o \in Queued(st) \ st.members
               /\ c.op = "AddToSet" =>
                     /\ c.o \in Queued(st) /\ c.to = st.set /\ t = st.manager
                     /\ \A r : LeavesOut(c) \/ c.o \notin OutsideAt(st, t, to(r))
               /\ c.op = "RemoveFromSet" => c.o \in Queued(st)
<1> DEFINE task  == st.program.tasks[t]
           c     == task.program[n]
           to(r) == Place(task, n + Ahead(c, r))
<1>1. SetFits(st, t, n)
  BY DEF SetOutline
<1>2. \A r : Ahead(c, r) \in Branches(c)
  BY DEF Ahead, Branches
<1>3. c.op \in Objectless \cup OnQueues \cup {"Select", "AddToSet", "RemoveFromSet"}
  BY <1>1 DEF SetFits, Objectless, OnQueues
<1>4. c.op # "Select" => \A k \in Branches(c) : NextName(st, t, n, c, k)
  BY <1>1 DEF SetFits, NextName, Named
<1>5. c.op \notin {"SendToBack", "SendToFront", "Receive"} => ~Named(c.of)
  BY <1>1 DEF SetFits, Named
<1>6. c.op \in {"SendToBack", "SendToFront"} =>
         ~HoldsHandle(st, t, n) /\ (~Named(c.of) => c.o \in Queued(st))
  BY <1>1 DEF SetFits, Named, PlainCalls, TaskCalls
<1>7. c.op = "Receive" =>
         IF Named(c.of) THEN HoldsHandle(st, t, n)
         ELSE c.o \in Queued(st) /\ (c.o \in st.members => c.o \in OutsideAt(st, t, n))
  BY <1>1 DEF SetFits, Named, PlainCalls, TaskCalls
<1>8. c.op = "Overwrite" => c.o \in Queued(st) \ st.members
  BY <1>1 DEF SetFits, PlainCalls, TaskCalls
<1>9. c.op = "AddToSet" =>
         /\ c.o \in Queued(st) /\ c.to = st.set /\ t = st.manager
         /\ \A k \in Branches(c) : LeavesOut(c) \/ c.o \notin OutsideAt(st, t, Place(task, n + k))
  BY <1>1 DEF SetFits, PlainCalls, TaskCalls
<1>10. c.op = "RemoveFromSet" => c.o \in Queued(st)
  BY <1>1 DEF SetFits, PlainCalls, TaskCalls
<1> QED
  BY <1>2, <1>3, <1>4, <1>5, <1>6, <1>7, <1>8, <1>9, <1>10

\* A select either keeps the member that it hands out, and receives from it next, or expects
\* none of the members.
LEMMA OutlineOfSelect ==
    ASSUME NEW st, SetOutline(st), NEW t \in DOMAIN st.program.tasks,
           NEW n \in DOMAIN st.program.tasks[t].program,
           st.program.tasks[t].program[n].op = "Select"
    PROVE  LET task   == st.program.tasks[t]
               c      == task.program[n]
               v(r)   == NameAt(st, t, Place(task, n + Ahead(c, r)))
               kept(r) == v(r) = c.into /\ ~(AtEnd(task, n + Ahead(c, r)) /\ c.into \in task.locals)
               none(r) == ~Named(v(r)) \/ v(r) \in st.always
           IN  /\ c.o = st.set /\ none("")
               /\ \/ /\ t \in DOMAIN st.hand /\ c.into = st.hand[t]
                     /\ \A q \in st.members : kept(q)
                     /\ \A q \in Queued(st) : kept(q) \/ none(q)
                  \/ /\ c.strict /\ c.expect \cap st.members = {}
                     /\ \A r : none(r)
<1> DEFINE task   == st.program.tasks[t]
           c      == task.program[n]
           v(r)   == NameAt(st, t, Place(task, n + Ahead(c, r)))
           kept(r) == v(r) = c.into /\ ~(AtEnd(task, n + Ahead(c, r)) /\ c.into \in task.locals)
           none(r) == ~Named(v(r)) \/ v(r) \in st.always
<1>1. SetFits(st, t, n) /\ c.op = "Select"
  BY DEF SetOutline
<1>2. \A r : Ahead(c, r) \in Branches(c)
  BY DEF Ahead, Branches
<1>3. \/ /\ c.o = st.set /\ t \in DOMAIN st.hand /\ c.into = st.hand[t]
         /\ v("") \in {""} \cup st.always
         /\ \A q \in st.members : kept(q)
         /\ \A q \in Queued(st) : kept(q) \/ v(q) \in {""} \cup st.always
      \/ /\ c.o = st.set /\ c.strict /\ c.expect \cap st.members = {}
         /\ \A k \in Branches(c) : NameAt(st, t, Place(task, n + k)) \in {""} \cup st.always
  BY <1>1 DEF SetFits, PlainCalls, TaskCalls
<1>4. \A x : x \in {""} \cup st.always <=> ~Named(x) \/ x \in st.always
  BY PrivateIsNamed
<1>5. \A r : v(r) \in {""} \cup st.always <=> none(r)
  BY <1>4
<1> HIDE DEF none
<1> QED
  BY <1>2, <1>3, <1>5 DEF none
-----------------------------------------------------------------------------
(* A step keeps the balance *)

\* A call with which nothing joins or leaves the set.
LEMMA SetStays ==
    ASSUME NEW st, SetOutline(st), SetInv(st), NEW t \in DOMAIN pc, NEW c, NEW r,
           Done(st.program, t, c, r), Ahead(c, r) = Ahead(Calls(st, t), r),
           Allows(st, t, pc[t], c, r), Calls(st, t).op # "RemoveFromSet",
           SetObjects(st, kernel'),
           \A q \in Queued(st) : InSet(st, kernel', q) <=> InSet(st, kernel, q),
           ~error' => \A q \in st.members :
              Settles(st, kernel, kernel', q, t \in Holding(st, pc, mem, q),
                      HoldsHandle(st, t, pc'[t]) /\ r = q)
    PROVE  SetInv(st)'
<1> DEFINE d  == st.program
           n  == pc[t]
           c0 == Calls(st, t)
           to == Place(d.tasks[t], n + Ahead(c, r))
<1>1. /\ t \in DOMAIN d.tasks /\ n \in DOMAIN d.tasks[t].program /\ DOMAIN pc = DOMAIN d.tasks
  BY DEF SetInv, SetPlaces
<1>2. pc'[t] = to /\ (error => error')
  BY DonePlace, DoneError
<1>3. OutsideAt(st, t, to) \subseteq OutsideAt(st, t, n)
  <2>1. SetFits(st, t, n) /\ Ahead(c, r) \in Branches(c0)
    BY <1>1 DEF SetOutline, Ahead, Branches
  <2>2. ~TakesOut(c0)
    BY DEF TakesOut
  <2> QED
    BY <2>1, <2>2 DEF SetFits, Calls
<1>4. \A u \in DOMAIN pc : OutsideAt(st, u, pc[u]) \subseteq Queued(st)
  BY <1>1 DEF SetInv, SetPlaces, SetOutline
<1>5. ~error' => \A q \in OutsideAt(st, t, pc'[t]) : ~InSet(st, kernel', q)
  BY <1>2, <1>3, <1>4 DEF SetInv, SetClaim
<1>6. \A u \in DOMAIN pc \ {t} : \A q \in OutsideAt(st, u, pc[u]) :
         InSet(st, kernel', q) => InSet(st, kernel, q)
  BY <1>4
<1> QED
  BY <1>5, <1>6, SetMoves

\* A call with which, besides, no task gets or loses a handle.
LEMMA SetSteady ==
    ASSUME NEW st, SetOutline(st), SetInv(st), NEW t \in DOMAIN pc, NEW c, NEW r,
           Done(st.program, t, c, r), c.into = Calls(st, t).into,
           Ahead(c, r) = Ahead(Calls(st, t), r),
           NextName(st, t, pc[t], Calls(st, t), Ahead(c, r)),
           NamesQueue(st, Calls(st, t)) => r \in Queued(st),
           ~HoldsHandle(st, t, pc[t]), Calls(st, t).op # "RemoveFromSet",
           SetObjects(st, kernel'),
           ~error => \A q \in st.members : Settles(st, kernel, kernel', q, FALSE, FALSE),
           \A q \in Queued(st) : InSet(st, kernel', q) <=> InSet(st, kernel, q)
    PROVE  SetInv(st)'
<1> DEFINE to == Place(st.program.tasks[t], pc[t] + Ahead(c, r))
<1>1. t \in DOMAIN st.program.tasks /\ pc[t] \in DOMAIN st.program.tasks[t].program
  BY DEF SetInv, SetPlaces
<1>2. Allows(st, t, pc[t], c, r) /\ ~HoldsHandle(st, t, to)
  BY <1>1, NextAllows DEF Calls
<1>3. pc'[t] = to /\ (error => error')
  BY DonePlace, DoneError
<1>4. ASSUME ~error', NEW q \in st.members
      PROVE  Settles(st, kernel, kernel', q, t \in Holding(st, pc, mem, q),
                     HoldsHandle(st, t, pc'[t]) /\ r = q)
  <2>1. t \notin Holding(st, pc, mem, q) /\ ~HoldsHandle(st, t, pc'[t])
    BY <1>2, <1>3 DEF Holding
  <2>2. Settles(st, kernel, kernel', q, FALSE, FALSE)
    BY <1>3, <1>4
  <2> QED
    BY <2>1, <2>2 DEF Settles, One
<1> QED
  BY <1>2, <1>4, SetStays

LEMMA SetStepPlain ==
    ASSUME NEW st, SetOutline(st), SetInv(st), NEW t \in DOMAIN pc,
           StepOf(st.program, t, Calls(st, t)), Calls(st, t).op \in Objectless,
           ~Named(Calls(st, t).of)
    PROVE  SetInv(st)'
<1> DEFINE d == st.program
           c == Calls(st, t)
<1>1. /\ t \in DOMAIN d.tasks /\ pc[t] \in DOMAIN d.tasks[t].program
      /\ SetObjects(st, kernel) /\ SetPlaces(st, pc, mem) /\ "obj" \in DOMAIN kernel
  BY DEF SetInv, SetPlaces, SetObjects
<1>2. /\ SameObjects(kernel, kernel')
      /\ \/ UNCHANGED <<pc, mem, error>>
         \/ \E r : Done(d, t, c, r) /\ (NamesQueue(st, c) => r \in Queued(st))
  BY <1>1, ObjectlessStep
<1>3. /\ SetObjects(st, kernel')
      /\ \A q : Together(st, kernel, kernel', q) /\ (InSet(st, kernel', q) <=> InSet(st, kernel, q))
  BY <1>1, <1>2, SetObjectsOnly
<1>4. \A q \in st.members : Settles(st, kernel, kernel', q, FALSE, FALSE)
  BY <1>1, <1>3, TogetherSettles DEF SetOutline
<1>5. ~HoldsHandle(st, t, pc[t])
  BY HandsOf DEF HoldsHandle, NameAt, Calls
<1>6. c.op # "RemoveFromSet" /\ \A r : NextName(st, t, pc[t], c, Ahead(c, r))
  <2>1. c.op \notin {"RemoveFromSet", "Select"}
    BY DEF Objectless, PlainCalls, TaskCalls
  <2> QED
    BY <1>1, <2>1, OutlineOfCall DEF Calls
<1>7. ASSUME NEW r, Done(d, t, c, r), NamesQueue(st, c) => r \in Queued(st)
      PROVE  SetInv(st)'
  BY <1>3, <1>4, <1>5, <1>6, <1>7, SetSteady
<1>8. ASSUME UNCHANGED <<pc, mem, error>>
      PROVE  SetInv(st)'
  BY <1>1, <1>2, <1>8, SetIdle
<1> QED
  BY <1>2, <1>7, <1>8

\* The facts that the lemmas below start from.
LEMMA SetCall ==
    ASSUME NEW st, SetOutline(st), SetInv(st), NEW t \in DOMAIN pc
    PROVE  LET c0 == Calls(st, t)
               c  == Makes(st, t)
           IN  /\ t \in DOMAIN st.program.tasks /\ pc[t] \in DOMAIN st.program.tasks[t].program
               /\ SetObjects(st, kernel) /\ SetPlaces(st, pc, mem) /\ "obj" \in DOMAIN kernel
               /\ c.op = c0.op /\ c.into = c0.into /\ c.to = c0.to
               /\ \A r : Ahead(c, r) = Ahead(c0, r) /\ (Accepts(c, r) <=> Accepts(c0, r))
               /\ ~Named(c0.of) => c = c0 /\ ~HoldsHandle(st, t, pc[t])
               /\ Named(c0.of) => c.o = mem[c0.of] /\ c.o \in Queued(st)
<1> DEFINE c0 == Calls(st, t)
           c  == Makes(st, t)
<1>1. /\ t \in DOMAIN st.program.tasks /\ pc[t] \in DOMAIN st.program.tasks[t].program
      /\ SetObjects(st, kernel) /\ SetPlaces(st, pc, mem) /\ "obj" \in DOMAIN kernel
  BY DEF SetInv, SetPlaces, SetObjects
<1>2. DOMAIN c0 = DOMAIN Call("", "")
  <2>1. SetFits(st, t, pc[t])
    BY <1>1 DEF SetOutline
  <2>2. DOMAIN st.program.tasks[t].program[pc[t]] = DOMAIN Call("", "")
    BY ONLY <2>1 DEF SetFits
  <2> QED
    BY ONLY <2>2 DEF Calls
<1>3. /\ c.op = c0.op /\ c.into = c0.into /\ c.expect = c0.expect /\ c.strict = c0.strict
      /\ c.ok = c0.ok /\ c.no = c0.no /\ c.to = c0.to
      /\ ~Named(c0.of) => c = c0
      /\ Named(c0.of) => c.o = mem[c0.of]
  BY ONLY <1>2, CallFields
<1>4. ~Named(c0.of) => ~HoldsHandle(st, t, pc[t])
  BY HandsOf DEF HoldsHandle, NameAt, Calls
<1>5. Named(c0.of) => mem[c0.of] \in Queued(st)
  BY <1>1 DEF SetPlaces, NamesAnObject, NameAt, Calls
<1> HIDE DEF c, c0
<1>6. \A r : Ahead(c, r) = Ahead(c0, r) /\ (Accepts(c, r) <=> Accepts(c0, r))
  BY <1>3 DEF Ahead, Accepts
<1> QED
  BY <1>1, <1>3, <1>4, <1>5, <1>6 DEF c, c0

\* A call on a queue by a task that holds no handle.
LEMMA SetStepQueue ==
    ASSUME NEW st, SetOutline(st), SetInv(st), NEW t \in DOMAIN pc,
           StepOf(st.program, t, Makes(st, t)), Calls(st, t).op \in OnQueues,
           ~HoldsHandle(st, t, pc[t])
    PROVE  SetInv(st)'
<1> DEFINE d  == st.program
           c0 == Calls(st, t)
           c  == Makes(st, t)
<1>1. /\ t \in DOMAIN d.tasks /\ pc[t] \in DOMAIN d.tasks[t].program
      /\ SetObjects(st, kernel) /\ SetPlaces(st, pc, mem) /\ "obj" \in DOMAIN kernel
      /\ c.op = c0.op /\ c.into = c0.into
      /\ \A r : Ahead(c, r) = Ahead(c0, r)
      /\ ~Named(c0.of) => c = c0
      /\ Named(c0.of) => c.o \in Queued(st)
  BY SetCall
<1>2. /\ c0.op # "Select" => \A r : NextName(st, t, pc[t], c0, Ahead(c0, r))
      /\ c0.op \in {"SendToBack", "SendToFront"} => (~Named(c0.of) => c0.o \in Queued(st))
      /\ c0.op = "Receive" =>
            IF Named(c0.of) THEN HoldsHandle(st, t, pc[t])
            ELSE c0.o \in Queued(st) /\ (c0.o \in st.members => c0.o \in OutsideAt(st, t, pc[t]))
      /\ c0.op = "Overwrite" => c0.o \in Queued(st) \ st.members
      /\ c0.op \notin {"SendToBack", "SendToFront", "Receive"} => ~Named(c0.of)
  BY <1>1, OutlineOfCall DEF Calls
<1> HIDE DEF c, c0
<1>3. c0.op # "RemoveFromSet" /\ c0.op # "Select" /\ c.op \in QueueCalls /\ ~NamesQueue(st, c0)
  BY <1>1 DEF OnQueues, QueueCalls, Receives, NamesQueue, c0
<1>4. \/ c.op \in {"SendToBack", "SendToFront", "Receive"} /\ c.o \in Queued(st)
      \/ c.op = "Overwrite" /\ c.o \in Queued(st) \ st.members
      \/ c.op \in {"Peek", "Messages"}
  <2>1. CASE c0.op \in {"SendToBack", "SendToFront"}
    BY <1>1, <1>2, <2>1
  <2>2. CASE c0.op = "Receive"
    BY <1>1, <1>2, <2>2
  <2>3. CASE c0.op = "Overwrite"
    BY <1>1, <1>2, <2>3
  <2>4. CASE c0.op \in {"Peek", "Messages"}
    BY <1>1, <2>4
  <2> QED
    BY <2>1, <2>2, <2>3, <2>4 DEF OnQueues, c0
<1>5. ASSUME NEW r, Done(d, t, c, r), SetObjects(st, kernel'),
             ~error => \A q \in st.members : Settles(st, kernel, kernel', q, FALSE, FALSE),
             \A q \in Queued(st) : InSet(st, kernel', q) <=> InSet(st, kernel, q)
      PROVE  SetInv(st)'
  <2>1. /\ c.into = Calls(st, t).into /\ Ahead(c, r) = Ahead(Calls(st, t), r)
        /\ NextName(st, t, pc[t], Calls(st, t), Ahead(c, r))
        /\ NamesQueue(st, Calls(st, t)) => r \in Queued(st)
        /\ Calls(st, t).op # "RemoveFromSet"
    BY <1>1, <1>2, <1>3 DEF c0
  <2> QED
    BY <1>5, <2>1, SetSteady
<1>6. ASSUME SameObjects(kernel, kernel')
      PROVE  /\ SetObjects(st, kernel')
             /\ \A q \in st.members : Settles(st, kernel, kernel', q, FALSE, FALSE)
             /\ \A q \in Queued(st) : InSet(st, kernel', q) <=> InSet(st, kernel, q)
  BY <1>1, <1>6, SetObjectsOnly, TogetherSettles DEF SetOutline
<1>7. CASE /\ QueueAble(kernel, c)
           /\ kernel' = Rested(QueueAfter(kernel, c, Item(c)), t)
           /\ Done(d, t, c, QueueReturned(kernel, c))
  <2> DEFINE K1 == QueueAfter(kernel, c, Item(c))
  <2>1. /\ SetObjects(st, K1)
        /\ \A q \in Queued(st) : InSet(st, K1, q) <=> InSet(st, kernel, q)
        /\ \A q \in st.members : (c.op = "Receive" /\ q = c.o => ~InSet(st, kernel, q))
                                 => Settles(st, kernel, K1, q, FALSE, FALSE)
    BY <1>1, <1>4, <1>7, SteadyCalls
  <2> HIDE DEF K1
  <2>2. "obj" \in DOMAIN K1 /\ kernel' = Rested(K1, t)
    BY <1>7, <2>1 DEF K1, SetObjects
  <2>3. SameObjects(K1, kernel')
    BY <2>2, RestedObjects
  <2>4. /\ SetObjects(st, kernel')
        /\ \A q \in Queued(st) : InSet(st, kernel', q) <=> InSet(st, kernel, q)
    BY <2>1, <2>3, SetObjectsOnly
  <2>5. ASSUME ~error, NEW q \in st.members
        PROVE  Settles(st, kernel, kernel', q, FALSE, FALSE)
    <3>1. c.op = "Receive" /\ q = c.o => ~InSet(st, kernel, q)
      <4>1. SetClaim(st, kernel, pc, mem)
        BY <2>5 DEF SetInv
      <4>2. c.op = "Receive" /\ q = c.o => q \in OutsideAt(st, t, pc[t])
        BY <1>1, <1>2
      <4> QED
        BY <4>1, <4>2 DEF SetClaim
    <3>2. Settles(st, kernel, K1, q, FALSE, FALSE)
      BY <2>1, <3>1
    <3> QED
      BY <2>3, <3>2, SettlesAfterwards
  <2> QED
    BY <1>5, <1>7, <2>4, <2>5
<1>8. CASE SameObjects(kernel, kernel') /\ Done(d, t, c, Refused(c))
  BY <1>5, <1>6, <1>8
<1>9. CASE SameObjects(kernel, kernel') /\ UNCHANGED <<pc, mem, error>>
  BY <1>1, <1>9, SetIdle
<1>10. StepOf(d, t, c)
  BY DEF c
<1> QED
  BY <1>1, <1>3, <1>7, <1>8, <1>9, <1>10, QueueStep

\* The task that holds a handle receives the item.
LEMMA SetStepReceive ==
    ASSUME NEW st, SetOutline(st), SetInv(st), NEW t \in DOMAIN pc,
           StepOf(st.program, t, Makes(st, t)), Calls(st, t).op = "Receive",
           HoldsHandle(st, t, pc[t])
    PROVE  SetInv(st)'
<1> DEFINE d  == st.program
           c0 == Calls(st, t)
           c  == Makes(st, t)
           to(r) == Place(d.tasks[t], pc[t] + Ahead(c, r))
<1>1. /\ t \in DOMAIN d.tasks /\ pc[t] \in DOMAIN d.tasks[t].program
      /\ SetObjects(st, kernel) /\ SetPlaces(st, pc, mem) /\ "obj" \in DOMAIN kernel
      /\ c.op = c0.op /\ c.into = c0.into
      /\ \A r : Ahead(c, r) = Ahead(c0, r)
      /\ Named(c0.of) => c.o = mem[c0.of] /\ c.o \in Queued(st)
  BY SetCall
<1>2. \A r : NextName(st, t, pc[t], c0, Ahead(c0, r))
  BY <1>1, OutlineOfCall DEF Calls
<1>3. /\ c.op = "Receive" /\ c.op \in QueueCalls /\ ~NamesQueue(st, c0)
  BY <1>1 DEF QueueCalls, Receives, NamesQueue
<1>4. t \in DOMAIN st.hand /\ c0.of = st.hand[t] /\ Named(c0.of)
  BY HandsOf DEF HoldsHandle, NameAt, Calls
<1>5. c.o \in Queued(st) /\ \A q : t \in Holding(st, pc, mem, q) <=> q = c.o
  BY <1>1, <1>4 DEF Holding
<1>6. ASSUME NEW r, Done(d, t, c, r)
      PROVE  Allows(st, t, pc[t], c, r) /\ ~HoldsHandle(st, t, pc'[t])
  <2>1. pc'[t] = to(r)
    BY <1>6, DonePlace
  <2>2. /\ c.into = d.tasks[t].program[pc[t]].into
        /\ Ahead(c, r) = Ahead(d.tasks[t].program[pc[t]], r)
        /\ NextName(st, t, pc[t], d.tasks[t].program[pc[t]], Ahead(c, r))
        /\ NamesQueue(st, d.tasks[t].program[pc[t]]) => r \in Queued(st)
    BY <1>1, <1>2, <1>3 DEF Calls
  <2>3. /\ Allows(st, t, pc[t], c, r)
        /\ ~HoldsHandle(st, t, Place(d.tasks[t], pc[t] + Ahead(c, r)))
    <3> HIDE DEF c
    <3> QED
      BY <1>1, <2>2, NextAllows
  <2> QED
    BY <2>1, <2>3
<1> HIDE DEF c, c0
<1>7. ASSUME NEW r, Done(d, t, c, r), SetObjects(st, kernel'),
             Settles(st, kernel, kernel', c.o, TRUE, FALSE),
             \A q \in Queued(st) \ {c.o} : Together(st, kernel, kernel', q),
             InSet(st, kernel', c.o) <=> InSet(st, kernel, c.o)
      PROVE  SetInv(st)'
  <2>1. \A q \in Queued(st) : InSet(st, kernel', q) <=> InSet(st, kernel, q)
    BY <1>7 DEF Together
  <2>2. ASSUME NEW q \in st.members
        PROVE  Settles(st, kernel, kernel', q, t \in Holding(st, pc, mem, q),
                       HoldsHandle(st, t, pc'[t]) /\ r = q)
    <3>1. ~HoldsHandle(st, t, pc'[t])
      BY <1>6, <1>7
    <3>2. CASE q = c.o
      BY <1>5, <1>7, <3>1, <3>2 DEF Settles, One
    <3>3. CASE q # c.o
      <4>1. q \in Queued(st) /\ Together(st, kernel, kernel', q)
        BY <1>7, <3>3 DEF SetOutline
      <4>2. Settles(st, kernel, kernel', q, FALSE, FALSE)
        BY <1>1, <1>7, <4>1, TogetherSettles
      <4> QED
        BY <1>5, <3>1, <3>3, <4>2 DEF Settles, One
    <3> QED
      BY <3>2, <3>3
  <2>3. Ahead(c, r) = Ahead(Calls(st, t), r) /\ Allows(st, t, pc[t], c, r)
        /\ Calls(st, t).op # "RemoveFromSet"
    BY <1>1, <1>6, <1>7 DEF c0
  <2> QED
    BY <1>7, <2>1, <2>2, <2>3, SetStays
<1>8. CASE /\ QueueAble(kernel, c)
           /\ kernel' = Rested(QueueAfter(kernel, c, Item(c)), t)
           /\ Done(d, t, c, QueueReturned(kernel, c))
  <2> DEFINE K1 == Leave(kernel, c.o, Tail(kernel.obj[c.o].items))
  <2>1. kernel.obj[c.o].items # <<>> /\ kernel' = Rested(K1, t)
    BY <1>3, <1>8 DEF QueueAble, QueueAfter, Receives
  <2>2. st.set \in DOMAIN st.program.obj /\ st.members \subseteq Queued(st)
    BY DEF SetOutline
  <2>3. /\ SetObjects(st, K1)
        /\ \A q \in Queued(st) \ {c.o} : Together(st, kernel, K1, q)
        /\ InSet(st, K1, c.o) <=> InSet(st, kernel, c.o)
        /\ Handles(st, K1, c.o) = Handles(st, kernel, c.o)
        /\ Length(kernel, c.o) = Length(K1, c.o) + 1
    BY <1>1, <1>5, <2>1, <2>2, ReceiveObjects
  <2> HIDE DEF K1
  <2>4. SameObjects(K1, kernel')
    BY <2>1, <2>3, RestedObjects DEF SetObjects
  <2>5. /\ SetObjects(st, kernel')
        /\ \A q : /\ InSet(st, kernel', q) <=> InSet(st, K1, q)
                  /\ Length(kernel', q) = Length(K1, q)
                  /\ Handles(st, kernel', q) = Handles(st, K1, q)
    BY <2>3, <2>4, SetObjectsOnly
  <2>6. \A q \in Queued(st) \ {c.o} : Together(st, kernel, kernel', q)
    BY <2>3, <2>5 DEF Together
  <2>7. Settles(st, kernel, kernel', c.o, TRUE, FALSE)
    <3>1. /\ InSet(st, kernel', c.o) <=> InSet(st, kernel, c.o)
          /\ Handles(st, kernel', c.o) = Handles(st, kernel, c.o)
          /\ Length(kernel, c.o) = Length(kernel', c.o) + 1
      BY <2>3, <2>5
    <3> QED
      BY <1>1, <1>5, <2>5, <3>1, ReceiveSettles
  <2> QED
    BY <1>7, <1>8, <2>3, <2>5, <2>6, <2>7
<1>9. CASE ~QueueAble(kernel, c) /\ SameObjects(kernel, kernel') /\ Done(d, t, c, Refused(c))
  <2>1. kernel.obj[c.o].items = <<>>
    BY <1>3, <1>9 DEF QueueAble, Receives
  <2>2. Length(kernel, c.o) = 0 /\ Handles(st, kernel, c.o) \in Nat
    BY <1>1, <1>5, <2>1, CountsAreNumbers DEF Length, Queued, SetObjects
  <2>3. Settles(st, kernel, kernel', c.o, TRUE, FALSE)
    BY <2>2 DEF Settles, Balanced, One
  <2>4. /\ SetObjects(st, kernel')
        /\ \A q : Together(st, kernel, kernel', q) /\ (InSet(st, kernel', q) <=> InSet(st, kernel, q))
    BY <1>1, <1>9, SetObjectsOnly
  <2> QED
    BY <1>7, <1>9, <2>3, <2>4
<1>10. CASE SameObjects(kernel, kernel') /\ UNCHANGED <<pc, mem, error>>
  BY <1>1, <1>10, SetIdle
<1>11. StepOf(d, t, c)
  BY DEF c
<1> QED
  BY <1>1, <1>3, <1>8, <1>9, <1>10, <1>11, QueueStep

\* A task selects from the set.
LEMMA SetStepSelect ==
    ASSUME NEW st, SetOutline(st), SetInv(st), NEW t \in DOMAIN pc,
           StepOf(st.program, t, Makes(st, t)), Calls(st, t).op = "Select"
    PROVE  SetInv(st)'
<1> DEFINE d    == st.program
           task == d.tasks[t]
           c    == Makes(st, t)
           to(r) == Place(task, pc[t] + Ahead(c, r))
           v(r)  == NameAt(st, t, to(r))
           kept(r) == v(r) = c.into /\ ~(AtEnd(task, pc[t] + Ahead(c, r)) /\ c.into \in task.locals)
           none(r) == ~Named(v(r)) \/ v(r) \in st.always
<1>1. /\ t \in DOMAIN d.tasks /\ pc[t] \in DOMAIN task.program
      /\ SetObjects(st, kernel) /\ SetPlaces(st, pc, mem) /\ "obj" \in DOMAIN kernel
      /\ ~Named(Calls(st, t).of) => c = Calls(st, t) /\ ~HoldsHandle(st, t, pc[t])
  BY SetCall
<1>2. ~Named(Calls(st, t).of)
  BY <1>1, OutlineOfCall DEF Calls
<1>3. c = task.program[pc[t]] /\ c.op = "Select" /\ c = Calls(st, t) /\ ~HoldsHandle(st, t, pc[t])
  BY <1>1, <1>2 DEF Calls
<1>4. /\ c.o = st.set /\ none("")
      /\ \/ /\ t \in DOMAIN st.hand /\ c.into = st.hand[t]
            /\ \A q \in st.members : kept(q)
            /\ \A q \in Queued(st) : kept(q) \/ none(q)
         \/ /\ c.strict /\ c.expect \cap st.members = {}
            /\ \A r : none(r)
  <2> DEFINE c0 == Calls(st, t)
             v0(r) == NameAt(st, t, Place(task, pc[t] + Ahead(c0, r)))
             kept0(r) == v0(r) = c0.into
                         /\ ~(AtEnd(task, pc[t] + Ahead(c0, r)) /\ c0.into \in task.locals)
             none0(r) == ~Named(v0(r)) \/ v0(r) \in st.always
  <2>1. st.program.tasks[t].program[pc[t]].op = "Select"
    BY DEF Calls
  <2>2. /\ c0.o = st.set /\ none0("")
        /\ \/ /\ t \in DOMAIN st.hand /\ c0.into = st.hand[t]
              /\ \A q \in st.members : kept0(q)
              /\ \A q \in Queued(st) : kept0(q) \/ none0(q)
           \/ /\ c0.strict /\ c0.expect \cap st.members = {}
              /\ \A r : none0(r)
    BY <1>1, <2>1, OutlineOfSelect DEF Calls
  <2>3. c = c0
    BY <1>3
  <2> HIDE DEF c0
  <2> QED
    BY <2>2, <2>3
<1>5. /\ \A r : to(r) \in DOMAIN task.program
      /\ c.into \notin st.always
      /\ \A u \in DOMAIN d.tasks \ {t} : c.into \notin PrivateNames(st, u)
  <2>1. SetFits(st, t, pc[t])
    BY <1>1 DEF SetOutline
  <2>2. ~NamesQueue(st, c) /\ \A r : Ahead(c, r) \in Branches(c)
    BY <1>3 DEF NamesQueue, Ahead, Branches
  <2> HIDE DEF c
  <2> QED
    BY <1>3, <2>1, <2>2 DEF SetFits
<1> HIDE DEF c
<1>6. ASSUME NEW r, r = "" \/ r \in Queued(st)
      PROVE  Allows(st, t, pc[t], c, r)
  <2>1. none(r) \/ (kept(r) /\ r \in Queued(st))
    BY <1>4, <1>6
  <2> QED
    BY <1>5, <2>1 DEF Allows
<1>7. ASSUME NEW r, Done(d, t, c, r), ~error', r \in st.members
      PROVE  HoldsHandle(st, t, pc'[t])
  <2>1. pc'[t] = to(r) /\ Accepts(c, r)
    BY <1>7, DonePlace, DoneError
  <2>2. t \in DOMAIN st.hand /\ v(r) = st.hand[t]
    BY <1>4, <1>7, <2>1 DEF Accepts
  <2> QED
    BY <2>1, <2>2 DEF HoldsHandle
<1>8. ASSUME NEW r, Done(d, t, c, r), r = "" \/ r \in Queued(st), SetObjects(st, kernel'),
             \A q \in Queued(st) : /\ InSet(st, kernel', q) <=> InSet(st, kernel, q)
                                   /\ Settles(st, kernel, kernel', q, FALSE, r = q)
      PROVE  SetInv(st)'
  <2>1. ASSUME ~error', NEW q \in st.members
        PROVE  Settles(st, kernel, kernel', q, t \in Holding(st, pc, mem, q),
                       HoldsHandle(st, t, pc'[t]) /\ r = q)
    <3>1. t \notin Holding(st, pc, mem, q)
      BY <1>3 DEF Holding
    <3>2. HoldsHandle(st, t, pc'[t]) /\ r = q <=> r = q
      BY <1>7, <1>8, <2>1
    <3>3. Settles(st, kernel, kernel', q, FALSE, r = q)
      BY <1>8 DEF SetOutline
    <3> QED
      BY <3>1, <3>2, <3>3 DEF Settles, One
  <2>2. /\ Allows(st, t, pc[t], c, r) /\ Calls(st, t).op # "RemoveFromSet"
        /\ Ahead(c, r) = Ahead(Calls(st, t), r)
    BY <1>3, <1>6, <1>8
  <2> QED
    BY <1>8, <2>1, <2>2, SetStays
<1>9. CASE /\ QueueAble(kernel, c)
           /\ kernel' = Rested(QueueAfter(kernel, c, Item(c)), t)
           /\ Done(d, t, c, QueueReturned(kernel, c))
  <2> DEFINE handles == kernel.obj[st.set].items
             K1      == Leave(kernel, st.set, Tail(handles))
             r       == Head(handles)
  <2>1. handles # <<>> /\ kernel' = Rested(K1, t) /\ Done(d, t, c, r)
    BY <1>3, <1>4, <1>9 DEF QueueAble, QueueAfter, QueueReturned, Receives
  <2>2. st.set \in DOMAIN st.program.obj
    BY DEF SetOutline
  <2>3. /\ SetObjects(st, K1) /\ r \in Queued(st)
        /\ \A q \in Queued(st) :
              /\ InSet(st, K1, q) <=> InSet(st, kernel, q)
              /\ Length(K1, q) = Length(kernel, q)
              /\ Handles(st, kernel, q) = Handles(st, K1, q) + One(r = q)
    BY <1>1, <2>1, <2>2, SelectObjects
  <2> HIDE DEF K1, r, handles
  <2>4. SameObjects(K1, kernel')
    BY <2>1, <2>3, RestedObjects DEF SetObjects
  <2>5. /\ SetObjects(st, kernel')
        /\ \A q : InSet(st, kernel', q) <=> InSet(st, K1, q)
    BY <2>3, <2>4, SetObjectsOnly
  <2>6. ASSUME NEW q \in Queued(st)
        PROVE  Settles(st, kernel, kernel', q, FALSE, r = q)
    <3>1. Settles(st, kernel, K1, q, FALSE, r = q)
      BY <1>1, <2>3, SelectSettles
    <3> QED
      BY <2>4, <3>1, SettlesAfterwards
  <2> QED
    BY <1>8, <2>1, <2>3, <2>5, <2>6
<1>10. CASE SameObjects(kernel, kernel') /\ Done(d, t, c, Refused(c))
  <2>1. Refused(c) = "" /\ "" \notin Queued(st)
    BY <1>3 DEF Refused, SetOutline, Queued
  <2>2. /\ SetObjects(st, kernel')
        /\ \A q : Together(st, kernel, kernel', q) /\ (InSet(st, kernel', q) <=> InSet(st, kernel, q))
    BY <1>1, <1>10, SetObjectsOnly
  <2>3. ASSUME NEW q \in Queued(st)
        PROVE  Settles(st, kernel, kernel', q, FALSE, Refused(c) = q)
    <3>1. Settles(st, kernel, kernel', q, FALSE, FALSE)
      BY <1>1, <2>2, TogetherSettles
    <3>2. ~(Refused(c) = q)
      BY <2>1
    <3> QED
      BY <3>1, <3>2 DEF Settles, One
  <2> QED
    BY <1>8, <1>10, <2>1, <2>2, <2>3
<1>11. CASE SameObjects(kernel, kernel') /\ UNCHANGED <<pc, mem, error>>
  BY <1>1, <1>11, SetIdle
<1>12. StepOf(d, t, c) /\ c.op \in QueueCalls
  BY <1>3 DEF c, QueueCalls, Receives
<1> QED
  BY <1>1, <1>9, <1>10, <1>11, <1>12, QueueStep

\* A queue is added to the set, or removed.
LEMMA SetStepMember ==
    ASSUME NEW st, SetOutline(st), SetInv(st), NEW t \in DOMAIN pc,
           StepOf(st.program, t, Makes(st, t)), Calls(st, t).op \in {"AddToSet", "RemoveFromSet"}
    PROVE  SetInv(st)'
<1> DEFINE d    == st.program
           task == d.tasks[t]
           c    == Makes(st, t)
           to(r) == Place(task, pc[t] + Ahead(c, r))
           s    == IF c.op = "AddToSet" THEN st.set ELSE ""
<1>1. /\ t \in DOMAIN d.tasks /\ pc[t] \in DOMAIN task.program
      /\ SetObjects(st, kernel) /\ SetPlaces(st, pc, mem) /\ "obj" \in DOMAIN kernel
      /\ ~Named(Calls(st, t).of) => c = Calls(st, t) /\ ~HoldsHandle(st, t, pc[t])
  BY SetCall
<1>2. ~Named(Calls(st, t).of)
  BY <1>1, OutlineOfCall DEF Calls
<1>3. /\ c = task.program[pc[t]] /\ c = Calls(st, t) /\ ~HoldsHandle(st, t, pc[t])
      /\ c.op \in {"AddToSet", "RemoveFromSet"} /\ c.op \in QueueCalls /\ ~NamesQueue(st, c)
  BY <1>1, <1>2 DEF Calls, QueueCalls, NamesQueue
<1>4. /\ c.o \in Queued(st)
      /\ \A r : NextName(st, t, pc[t], c, Ahead(c, r))
      /\ c.op = "AddToSet" =>
            /\ c.to = st.set /\ t = st.manager
            /\ \A r : LeavesOut(c) \/ c.o \notin OutsideAt(st, t, to(r))
  <2> DEFINE c0 == Calls(st, t)
  <2>1. c0.op \in {"AddToSet", "RemoveFromSet"} /\ c0 = st.program.tasks[t].program[pc[t]]
    BY DEF Calls
  <2>2. /\ c0.o \in Queued(st)
        /\ \A r : NextName(st, t, pc[t], c0, Ahead(c0, r))
        /\ c0.op = "AddToSet" =>
              /\ c0.to = st.set /\ t = st.manager
              /\ \A r : LeavesOut(c0) \/ c0.o \notin OutsideAt(st, t, Place(task, pc[t] + Ahead(c0, r)))
    <3>1. /\ c0.op # "Select" => \A r : NextName(st, t, pc[t], c0, Ahead(c0, r))
          /\ c0.op = "AddToSet" =>
               /\ c0.o \in Queued(st) /\ c0.to = st.set /\ t = st.manager
               /\ \A r : LeavesOut(c0) \/ c0.o \notin OutsideAt(st, t, Place(task, pc[t] + Ahead(c0, r)))
          /\ c0.op = "RemoveFromSet" => c0.o \in Queued(st)
      BY <1>1, OutlineOfCall DEF Calls
    <3> QED
      BY ONLY <2>1, <3>1
  <2>3. c = c0
    BY <1>3
  <2> HIDE DEF c0
  <2> QED
    BY <2>2, <2>3
<1>5. \A r : OutsideAt(st, t, to(r))
                \subseteq OutsideAt(st, t, pc[t]) \cup (IF TakesOut(c) THEN {c.o} ELSE {})
  <2>1. SetFits(st, t, pc[t])
    BY <1>1 DEF SetOutline
  <2>2. \A r : Ahead(c, r) \in Branches(c)
    BY DEF Ahead, Branches
  <2> HIDE DEF c
  <2> QED
    BY <1>3, <2>1, <2>2 DEF SetFits
<1> HIDE DEF c
<1>6. ASSUME NEW r, Done(d, t, c, r)
      PROVE  /\ Allows(st, t, pc[t], c, r) /\ ~HoldsHandle(st, t, pc'[t])
             /\ pc'[t] = to(r) /\ (error => error') /\ (~error' => Accepts(c, r))
  <2>1. pc'[t] = to(r) /\ (error => error') /\ (~error' => Accepts(c, r))
    BY <1>6, DonePlace, DoneError
  <2>2. /\ Allows(st, t, pc[t], c, r)
        /\ ~HoldsHandle(st, t, Place(st.program.tasks[t], pc[t] + Ahead(c, r)))
    BY <1>1, <1>3, <1>4, NextAllows
  <2> QED
    BY <2>1, <2>2
<1>7. ASSUME NEW r, Done(d, t, c, r), SetObjects(st, kernel'),
             \A q \in Queued(st) : Settles(st, kernel, kernel', q, FALSE, FALSE),
             ~error' => \A q \in OutsideAt(st, t, to(r)) : ~InSet(st, kernel', q),
             \A u \in DOMAIN pc \ {t} : \A q \in OutsideAt(st, u, pc[u]) :
                InSet(st, kernel', q) => InSet(st, kernel, q)
      PROVE  SetInv(st)'
  <2>1. ASSUME NEW q \in st.members
        PROVE  Settles(st, kernel, kernel', q, t \in Holding(st, pc, mem, q),
                       HoldsHandle(st, t, pc'[t]) /\ r = q)
    <3>1. t \notin Holding(st, pc, mem, q) /\ ~HoldsHandle(st, t, pc'[t])
      BY <1>3, <1>6, <1>7 DEF Holding
    <3>2. Settles(st, kernel, kernel', q, FALSE, FALSE)
      BY <1>7 DEF SetOutline
    <3> QED
      BY <3>1, <3>2 DEF Settles, One
  <2>2. Allows(st, t, pc[t], c, r) /\ pc'[t] = to(r)
    BY <1>6, <1>7
  <2> QED
    BY <1>7, <2>1, <2>2, SetMoves
<1>8. \A u \in DOMAIN pc : OutsideAt(st, u, pc[u]) \subseteq Queued(st)
  BY <1>1 DEF SetPlaces, SetOutline
<1>9. ASSUME ~error, NEW q \in OutsideAt(st, t, pc[t])
      PROVE  ~InSet(st, kernel, q)
  BY <1>9 DEF SetInv, SetClaim
<1>10. CASE /\ QueueAble(kernel, c)
            /\ kernel' = Rested(QueueAfter(kernel, c, Item(c)), t)
            /\ Done(d, t, c, QueueReturned(kernel, c))
  <2> DEFINE K1 == Joins(kernel, c.o, s)
  <2>1. kernel.obj[c.o].items = <<>> /\ kernel' = Rested(K1, t) /\ Done(d, t, c, Pass)
    BY <1>3, <1>4, <1>10 DEF QueueAble, QueueAfter, QueueReturned, Receives, Joins
  <2>2. st.set \in DOMAIN st.program.obj /\ Named(st.set) /\ (~Named(s) \/ s = st.set)
    BY DEF SetOutline, Named
  <2>3. /\ SetObjects(st, K1)
        /\ \A q \in Queued(st) : Handles(st, K1, q) = Handles(st, kernel, q) /\ Length(K1, q) = Length(kernel, q)
        /\ \A q \in Queued(st) \ {c.o} : K1.obj[q].set = kernel.obj[q].set
        /\ K1.obj[c.o].set = s
    <3> DEFINE o  == c.o
               s2 == s
               K2 == Joins(kernel, o, s2)
    <3>1. o \in Queued(st) /\ SetObjects(st, kernel) /\ (~Named(s2) \/ s2 = st.set)
      BY <1>1, <1>4, <2>2
    <3>2. st.set \in DOMAIN st.program.obj
      BY <2>2
    <3> HIDE DEF o, s2
    <3>3. SetObjects(st, K2)
      BY <3>1, <3>2, JoiningObjects
    <3>4. \A q \in Queued(st) : Handles(st, K2, q) = Handles(st, kernel, q) /\ Length(K2, q) = Length(kernel, q)
      BY <3>1, <3>2, JoiningObjects
    <3>5. /\ \A q \in Queued(st) \ {o} : K2.obj[q].set = kernel.obj[q].set
          /\ K2.obj[o].set = s2
      BY <3>1, <3>2, JoiningObjects
    <3> QED
      BY <3>3, <3>4, <3>5 DEF o, s2
  <2> HIDE DEF K1
  <2>4. SameObjects(K1, kernel')
    BY <2>1, <2>3, RestedObjects DEF SetObjects
  <2>5. /\ SetObjects(st, kernel')
        /\ \A q \in Queued(st) \ {c.o} : InSet(st, kernel', q) <=> InSet(st, kernel, q)
        /\ InSet(st, kernel', c.o) <=> c.op = "AddToSet"
    <3>1. SetObjects(st, kernel') /\ \A q : InSet(st, kernel', q) <=> InSet(st, K1, q)
      BY <2>3, <2>4, SetObjectsOnly
    <3>2. /\ \A q \in Queued(st) \ {c.o} : InSet(st, K1, q) <=> InSet(st, kernel, q)
          /\ InSet(st, K1, c.o) <=> c.op = "AddToSet"
      BY <2>2, <2>3 DEF InSet, Named
    <3> QED
      BY <3>1, <3>2
  <2>6. ASSUME NEW q \in Queued(st)
        PROVE  Settles(st, kernel, kernel', q, FALSE, FALSE)
    <3>1. CASE q = c.o
      <4>1. Length(kernel, q) = 0
        BY <2>1, <3>1 DEF Length
      <4> QED
        BY <1>1, <2>3, <2>4, <4>1, JoiningSettles, SettlesAfterwards
    <3>2. CASE q # c.o
      <4>1. Together(st, kernel, K1, q)
        BY <2>3, <3>2 DEF Together, InSet
      <4> QED
        BY <1>1, <2>3, <2>4, <4>1, TogetherSettles, SettlesAfterwards
    <3> QED
      BY <3>1, <3>2
  <2>7. ASSUME ~error', NEW q \in OutsideAt(st, t, to(Pass))
        PROVE  ~InSet(st, kernel', q)
    <3>1. ~error /\ Accepts(c, Pass)
      BY <1>6, <2>1, <2>7
    <3>2. CASE q = c.o
      <4>1. c.op # "AddToSet"
        BY <1>4, <2>7, <3>1, <3>2 DEF LeavesOut, Accepts
      <4> QED
        BY <2>5, <3>2, <4>1
    <3>3. CASE q # c.o
      <4>1. q \in OutsideAt(st, t, pc[t])
        BY <1>5, <2>7, <3>3
      <4> QED
        BY <1>1, <1>8, <1>9, <2>5, <3>1, <3>3, <4>1
    <3> QED
      BY <3>2, <3>3
  <2>8. ASSUME NEW u \in DOMAIN pc \ {t}, NEW q \in OutsideAt(st, u, pc[u]), InSet(st, kernel', q)
        PROVE  InSet(st, kernel, q)
    <3>1. c.op # "AddToSet"
      BY <1>4, <2>8 DEF OutsideAt
    <3> QED
      BY <1>8, <2>5, <2>8, <3>1
  <2> QED
    BY <1>7, <2>1, <2>5, <2>6, <2>7, <2>8
<1>11. CASE SameObjects(kernel, kernel') /\ Done(d, t, c, Refused(c))
  <2>1. /\ SetObjects(st, kernel')
        /\ \A q : Together(st, kernel, kernel', q) /\ (InSet(st, kernel', q) <=> InSet(st, kernel, q))
    BY <1>1, <1>11, SetObjectsOnly
  <2>2. \A q \in Queued(st) : Settles(st, kernel, kernel', q, FALSE, FALSE)
    BY <1>1, <2>1, TogetherSettles
  <2>3. ASSUME ~error', NEW q \in OutsideAt(st, t, to(Refused(c)))
        PROVE  ~InSet(st, kernel', q)
    <3>1. ~error /\ Accepts(c, Refused(c))
      BY <1>6, <1>11, <2>3
    <3>2. ~TakesOut(c)
      BY <3>1 DEF TakesOut, Accepts
    <3> QED
      BY <1>5, <1>9, <2>1, <2>3, <3>1, <3>2
  <2> QED
    BY <1>7, <1>11, <2>1, <2>2, <2>3
<1>12. CASE SameObjects(kernel, kernel') /\ UNCHANGED <<pc, mem, error>>
  BY <1>1, <1>12, SetIdle
<1>13. StepOf(d, t, c)
  BY DEF c
<1> QED
  BY <1>1, <1>3, <1>10, <1>11, <1>12, <1>13, QueueStep

LEMMA SetStep ==
    ASSUME NEW st, SetOutline(st), SetInv(st), NEW t \in DOMAIN pc,
           StepOf(st.program, t, CallOf(st.program, t))
    PROVE  SetInv(st)'
<1> DEFINE c0 == Calls(st, t)
<1>1. /\ t \in DOMAIN st.program.tasks /\ pc[t] \in DOMAIN st.program.tasks[t].program
      /\ ~Named(c0.of) => Makes(st, t) = c0 /\ ~HoldsHandle(st, t, pc[t])
  BY SetCall
<1>2. /\ c0.op \in Objectless \cup OnQueues \cup {"Select", "AddToSet", "RemoveFromSet"}
      /\ c0.op \notin {"SendToBack", "SendToFront", "Receive"} => ~Named(c0.of)
      /\ c0.op \in {"SendToBack", "SendToFront"} => ~HoldsHandle(st, t, pc[t])
  BY <1>1, OutlineOfCall DEF Calls
<1>3. StepOf(st.program, t, Makes(st, t))
  BY DEF Makes
<1>4. CASE c0.op \in Objectless
  <2>1. c0.op \notin {"SendToBack", "SendToFront", "Receive"}
    BY <1>4 DEF Objectless, PlainCalls, TaskCalls
  <2>2. ~Named(c0.of) /\ StepOf(st.program, t, c0)
    BY <1>1, <1>2, <1>3, <2>1
  <2> QED
    BY <1>4, <2>2, SetStepPlain
<1>5. CASE c0.op = "Receive" /\ HoldsHandle(st, t, pc[t])
  BY <1>3, <1>5, SetStepReceive
<1>6. CASE c0.op \in OnQueues /\ ~HoldsHandle(st, t, pc[t])
  BY <1>3, <1>6, SetStepQueue
<1>7. CASE c0.op \in OnQueues /\ HoldsHandle(st, t, pc[t]) /\ c0.op # "Receive"
  BY <1>1, <1>2, <1>7
<1>8. CASE c0.op = "Select"
  BY <1>3, <1>8, SetStepSelect
<1>9. CASE c0.op \in {"AddToSet", "RemoveFromSet"}
  BY <1>3, <1>9, SetStepMember
<1> QED
  BY <1>2, <1>4, <1>5, <1>6, <1>7, <1>8, <1>9

\* Time passes: no variable that names a queue is a time.
LEMMA SetElapse ==
    ASSUME NEW st, SetOutline(st), SetInv(st), Elapse(st.program)
    PROVE  SetInv(st)'
<1> DEFINE d == st.program
<1>1. /\ SetObjects(st, kernel) /\ SetPlaces(st, pc, mem) /\ "obj" \in DOMAIN kernel
      /\ st.set \in DOMAIN kernel.obj /\ \A o \in DOMAIN kernel.obj : kernel.obj[o].kind = "queue"
  BY DEF SetInv, SetObjects, SetOutline, IsQueue
<1>2. SameObjects(kernel, kernel') /\ UNCHANGED <<pc, error>>
  <2>1. Timers(kernel) = {}
    BY <1>1 DEF Timers
  <2> QED
    BY <1>1, <2>1, ElapseObjects
<1>3. DOMAIN mem' = DOMAIN mem /\ \A v \in DOMAIN mem \ d.stamps : mem'[v] = mem[v]
  <2>1. kernel.obj[st.set].kind # "timer"
    BY <1>1
  <2> QED
    BY <1>1, <2>1, ElapseEffect
<1>4. /\ DOMAIN mem = DOMAIN d.mem /\ DOMAIN pc = DOMAIN d.tasks
      /\ st.always \subseteq DOMAIN mem \ d.stamps
      /\ \A t \in DOMAIN d.tasks : PrivateNames(st, t) \subseteq DOMAIN mem \ d.stamps
  BY <1>1 DEF SetPlaces, SetOutline
<1>5. ASSUME NEW t \in DOMAIN pc
      PROVE  pc[t] \in DOMAIN d.tasks[t].program /\ NamesAnObject(st, t, pc[t], mem')
  <2> DEFINE v == NameAt(st, t, pc[t])
  <2>1. pc[t] \in DOMAIN d.tasks[t].program /\ NamesAnObject(st, t, pc[t], mem)
    BY <1>1 DEF SetPlaces
  <2>2. Named(v) => v \in st.always \/ v \in PrivateNames(st, t)
    BY <2>1, PrivateIsNamed
  <2>3. Named(v) => mem'[v] = mem[v]
    BY <1>3, <1>4, <2>2
  <2> QED
    BY <2>1, <2>3 DEF NamesAnObject
<1>6. SetPlaces(st, pc, mem')
  BY <1>1, <1>3, <1>4, <1>5 DEF SetPlaces
<1>7. \A t \in DOMAIN st.hand : mem'[st.hand[t]] = mem[st.hand[t]]
  BY <1>3, <1>4, HandsOf
<1>8. \A q : Holding(st, pc, mem', q) = Holding(st, pc, mem, q)
  BY <1>7 DEF Holding
<1> QED
  BY <1>2, <1>6, <1>8, SetIdle

SetsInv == \A st \in QueueSets : D = st.program => SetInv(st)

LEMMA SetsInductive ==
    ASSUME SetsFit
    PROVE  /\ Init => SetsInv
           /\ SetsInv /\ [Next]_vars => SetsInv'
<1>1. Init => SetsInv
  BY SetInit DEF Init, SetsInv, SetsFit
<1>2. ASSUME SetsInv, [Next]_vars
      PROVE  SetsInv'
  <2> SUFFICES ASSUME NEW st \in QueueSets, D' = st.program
               PROVE  SetInv(st)'
    BY DEF SetsInv
  <2>1. demo' = demo
    BY <1>2 DEF Next, vars, Elapse, Step, StepOf
  <2>2. D = st.program
    BY <2>1 DEF D
  <2>3. SetInv(st) /\ SetOutline(st)
    BY <1>2, <2>2 DEF SetsInv, SetsFit
  <2>4. ASSUME NEW t \in Tasks, Step(D, t)
        PROVE  SetInv(st)'
    BY <2>2, <2>3, <2>4, SetStep DEF Step, Tasks
  <2>5. CASE Elapse(D)
    BY <2>2, <2>3, <2>5, SetElapse
  <2>6. CASE UNCHANGED vars
    <3>1. UNCHANGED <<pc, mem, kernel, error>>
      BY <2>6 DEF vars
    <3> QED
      BY <2>3, <3>1 DEF SetInv
  <2> QED
    BY <1>2, <2>4, <2>5, <2>6 DEF Next
<1> QED
  BY <1>1, <1>2

\* QueueSet.c, QueueSetPolling.c: until such a program finds an error, the set has a handle for
\* every item in its members but those whose handle a task or the interrupt has selected and
\* not used yet, for any number of tasks, queues and items, any lengths and priorities,
\* and while members join and leave.
THEOREM SetsMirrorQueues ==
    ASSUME SetsFit
    PROVE  Spec => [](NoErrorDetected => SetMirrorsQueues)
<1>1. ASSUME SetsInv, NoErrorDetected
      PROVE  SetMirrorsQueues
  <2> SUFFICES ASSUME NEW st \in QueueSets, D = st.program, NEW q \in st.members,
                      kernel.obj[q].set = st.set
               PROVE  Len(kernel.obj[q].items)
                        = Cardinality(HandlesOf(st, q)) + Cardinality(HoldersOf(st, q))
    BY DEF SetMirrorsQueues
  <2>1. Balanced(st, kernel, q, Cardinality(Holding(st, pc, mem, q)))
    BY <1>1 DEF SetsInv, SetInv, SetClaim, NoErrorDetected
  <2>2. HandlesOf(st, q) = Places(kernel.obj[st.set].items, q)
    BY DEF HandlesOf, Places
  <2>3. HoldersOf(st, q) = Holding(st, pc, mem, q)
    BY DEF HoldersOf, Holding
  <2> QED
    BY <2>1, <2>2, <2>3 DEF Balanced, InSet, Length, Handles, Count
<1>2. SetsInv => (NoErrorDetected => SetMirrorsQueues)
  BY <1>1
<1> QED
  BY <1>2, SetsInductive, PTL DEF Spec

\* Who is about to receive from the member that it has selected.
SelectedIsThere ==
    \A st \in QueueSets : D = st.program => \A t \in DOMAIN st.hand :
        HoldsHandle(st, t, pc[t]) /\ mem[st.hand[t]] \in st.members
        => LET m == kernel.obj[mem[st.hand[t]]] IN m.set = st.set /\ m.items # <<>>

\* QueueSet.c: until the program finds an error, the member that a task or the interrupt has
\* selected is in the set and holds an item for it to receive, though others send, select and
\* receive in between.
THEOREM SetsHandOutItems ==
    ASSUME SetsFit
    PROVE  Spec => [](NoErrorDetected => SelectedIsThere)
<1>1. ASSUME SetsInv, NoErrorDetected
      PROVE  SelectedIsThere
  <2> SUFFICES ASSUME NEW st \in QueueSets, D = st.program, NEW t \in DOMAIN st.hand,
                      HoldsHandle(st, t, pc[t]), mem[st.hand[t]] \in st.members
               PROVE  /\ kernel.obj[mem[st.hand[t]]].set = st.set
                      /\ kernel.obj[mem[st.hand[t]]].items # <<>>
    BY DEF SelectedIsThere
  <2> DEFINE q == mem[st.hand[t]]
             w == Cardinality(Holding(st, pc, mem, q))
  <2>1. SetOutline(st) /\ SetObjects(st, kernel) /\ Balanced(st, kernel, q, w)
    BY <1>1 DEF SetsFit, SetsInv, SetInv, SetClaim, NoErrorDetected
  <2>2. w \in Nat /\ w # 0
    <3>1. t \in Holding(st, pc, mem, q) /\ IsFiniteSet(Holding(st, pc, mem, q))
      <4>1. t \in Holding(st, pc, mem, q)
        BY DEF Holding
      <4> HIDE DEF q
      <4> QED
        BY <2>1, <4>1, HoldingFinite
    <3> HIDE DEF q
    <3> QED
      BY <2>1, <3>1, HoldingFinite, FS_EmptySet
  <2>3. q \in DOMAIN kernel.obj
    BY <2>1 DEF SetOutline, SetObjects, Queued
  <2>4. Length(kernel, q) \in Nat /\ Handles(st, kernel, q) \in Nat
    BY <2>1, <2>3, CountsAreNumbers
  <2>5. InSet(st, kernel, q) /\ Length(kernel, q) # 0
    BY <2>1, <2>2, <2>4 DEF Balanced
  <2>6. kernel.obj[q].items # <<>>
    <3>1. Line(kernel.obj[q].items)
      BY <2>1, <2>3 DEF SetObjects, IsQueue
    <3> QED
      BY <2>5, <3>1, LineTail DEF Length
  <2> QED
    BY <2>5, <2>6 DEF InSet
<1>2. SetsInv => (NoErrorDetected => SelectedIsThere)
  BY <1>1
<1> QED
  BY <1>2, SetsInductive, PTL DEF Spec
-----------------------------------------------------------------------------
(* Strings that go around: what is between two indexes *)

LEMMA LesserOf ==
    ASSUME NEW a \in Int, NEW b \in Int
    PROVE  Min({a, b}) = IF a <= b THEN a ELSE b
<1>1. \A x, y \in {a, b} : (\A z \in {a, b} : x <= z) /\ (\A z \in {a, b} : y <= z) => x = y
  OBVIOUS
<1>2. (IF a <= b THEN a ELSE b) \in {a, b} /\ \A z \in {a, b} : (IF a <= b THEN a ELSE b) <= z
  OBVIOUS
<1> QED
  BY <1>1, <1>2 DEF Min

LEMMA RestOf ==
    ASSUME NEW s \in Seq(Int), NEW next \in 0 .. Len(s) - 1
    PROVE  /\ Min({next + Len(s), Len(s)}) = Len(s)
           /\ Len(SubSeq(s, next + 1, Len(s))) = Len(s) - next
           /\ Len(SubSeq(s, next + 1, Len(s))) \in Nat
<1>1. /\ Len(SubSeq(s, next + 1, Len(s))) = Len(s) - next
      /\ Len(SubSeq(s, next + 1, Len(s))) \in Nat
  OBVIOUS
<1>2. \A a, b \in Nat : a + b \in Int /\ b \in Int /\ (a + b <= b => a + b = b)
  OBVIOUS
<1>3. next \in Nat /\ Len(s) \in Nat
  OBVIOUS
<1> QED
  BY <1>1, <1>2, <1>3, LesserOf

LEMMA FirstOf ==
    ASSUME NEW items \in Seq(Int), NEW max \in Nat
    PROVE  /\ Len(SubSeq(items, 1, Min({max, Len(items)}))) \in 0 .. Len(items)
           /\ Len(SubSeq(items, 1, Min({max, Len(items)}))) <= max
<1>1. \A n \in 0 .. Len(items) : Len(SubSeq(items, 1, n)) = n
  OBVIOUS
<1>2. Len(items) \in Nat
  OBVIOUS
<1>3. Min({max, Len(items)}) \in 0 .. Len(items) /\ Min({max, Len(items)}) <= max
  BY <1>2, LesserOf
<1> QED
  BY <1>1, <1>3

\* The items are those of the string s from the index first on, up to the index last.
Carries(s, first, items, last) ==
    /\ \A i \in 1 .. Len(items) : items[i] = s[((first + i - 1) % Len(s)) + 1]
    /\ last % Len(s) = (first + Len(items)) % Len(s)

\* The items and n more of the string, from the index next on.
Longer(s, items, next, n) == items \o SubSeq(SubSeq(s, next + 1, Len(s)), 1, n)

LEMMA CarriesMore ==
    ASSUME NEW s \in Seq(Int), s # <<>>, NEW first \in Nat, NEW items \in Seq(Int),
           NEW next \in 0 .. Len(s) - 1, Carries(s, first, items, next),
           NEW n \in 0 .. Len(s) - next
    PROVE  /\ Longer(s, items, next, n) \in Seq(Int)
           /\ Len(Longer(s, items, next, n)) = Len(items) + n
           /\ Carries(s, first, Longer(s, items, next, n), next + n)
<1> DEFINE L    == Len(s)
           data == SubSeq(s, next + 1, L)
           part == SubSeq(data, 1, n)
           more == items \o part
<1>1. /\ L \in Nat \ {0} /\ Len(items) \in Nat /\ first + Len(items) \in Nat
      /\ next \in Nat /\ n \in Nat /\ next + n <= L
  OBVIOUS
<1>2. data \in Seq(Int) /\ Len(data) = L - next /\ \A i \in 1 .. L - next : data[i] = s[next + i]
  OBVIOUS
<1>3. part \in Seq(Int) /\ Len(part) = n /\ \A i \in 1 .. n : part[i] = s[next + i]
  BY <1>2
<1> HIDE DEF part
<1>4. /\ more \in Seq(Int) /\ Len(more) = Len(items) + n
      /\ \A i \in 1 .. Len(items) : more[i] = items[i]
      /\ \A i \in 1 .. n : more[Len(items) + i] = part[i]
  <2>1. more \in Seq(Int) /\ Len(more) = Len(items) + Len(part)
    BY <1>3, ConcatProperties
  <2>2. \A i \in 1 .. Len(items) + Len(part) :
            more[i] = IF i <= Len(items) THEN items[i] ELSE part[i - Len(items)]
    BY <1>3, ConcatProperties
  <2> HIDE DEF more
  <2>3. ASSUME NEW i \in 1 .. Len(items)
        PROVE  more[i] = items[i]
    <3>1. i \in 1 .. Len(items) + Len(part) /\ i <= Len(items)
      BY <1>1, <1>3
    <3> QED
      BY <2>2, <3>1
  <2>4. ASSUME NEW i \in 1 .. n
        PROVE  more[Len(items) + i] = part[i]
    <3>1. /\ Len(items) + i \in 1 .. Len(items) + Len(part) /\ ~(Len(items) + i <= Len(items))
          /\ (Len(items) + i) - Len(items) = i
      BY <1>1, <1>3
    <3> QED
      BY <2>2, <3>1
  <2> QED
    BY <1>3, <2>1, <2>3, <2>4
<1> HIDE DEF L, more
<1>5. next = (first + Len(items)) % L
  BY <1>1, ModSmall DEF Carries, L
<1>6. ASSUME NEW i \in 1 .. n
      PROVE  more[Len(items) + i] = s[((first + (Len(items) + i) - 1) % L) + 1]
  <2>0. i - 1 \in Nat /\ next + (i - 1) \in 0 .. L - 1
    BY <1>1
  <2>1. (((first + Len(items)) % L) + (i - 1)) % L = ((first + Len(items)) + (i - 1)) % L
    BY <1>1, <2>0, ModPlus
  <2>2. (next + (i - 1)) % L = next + (i - 1)
    BY <1>1, <2>0, ModSmall
  <2>3. (first + Len(items)) + (i - 1) = first + (Len(items) + i) - 1
    BY <1>1
  <2>4. ((first + (Len(items) + i) - 1) % L) + 1 = next + i
    <3>1. (first + (Len(items) + i) - 1) % L = next + (i - 1)
      BY <1>5, <2>1, <2>2, <2>3
    <3> QED
      BY <1>1, <2>0, <3>1
  <2> QED
    BY <1>3, <1>4, <2>4
<1>7. \A i \in 1 .. Len(items) : more[i] = s[((first + i - 1) % L) + 1]
  BY <1>4 DEF Carries, L
<1>8. ASSUME NEW j \in 1 .. Len(more)
      PROVE  more[j] = s[((first + j - 1) % L) + 1]
  <2>1. CASE j \in 1 .. Len(items)
    BY <1>7, <2>1
  <2>2. CASE j \notin 1 .. Len(items)
    <3>1. j \in Int /\ j > Len(items) /\ j <= Len(items) + n
      BY <1>1, <1>4, <2>2
    <3>2. j - Len(items) \in 1 .. n /\ Len(items) + (j - Len(items)) = j
      BY <1>1, <3>1
    <3> QED
      BY <1>6, <3>2
  <2> QED
    BY <2>1, <2>2
<1>9. (next + n) % L = (first + Len(more)) % L
  <2>1. (((first + Len(items)) % L) + n) % L = ((first + Len(items)) + n) % L
    BY <1>1, ModPlus
  <2>2. (first + Len(items)) + n = first + Len(more)
    BY <1>1, <1>4
  <2> QED
    BY <1>5, <2>1, <2>2
<1> QED
  BY <1>4, <1>8, <1>9 DEF Carries, Longer, part, more, L

LEMMA CarriesLess ==
    ASSUME NEW s \in Seq(Int), s # <<>>, NEW first \in Nat, NEW items \in Seq(Int),
           NEW last, Carries(s, first, items, last), NEW n \in 0 .. Len(items)
    PROVE  /\ SubSeq(items, n + 1, Len(items)) \in Seq(Int)
           /\ Len(SubSeq(items, n + 1, Len(items))) = Len(items) - n
           /\ Carries(s, first + n, SubSeq(items, n + 1, Len(items)), last)
<1> DEFINE rest == SubSeq(items, n + 1, Len(items))
<1>1. /\ rest \in Seq(Int) /\ Len(rest) = Len(items) - n
      /\ \A i \in 1 .. Len(items) - n : rest[i] = items[n + i]
  OBVIOUS
<1> HIDE DEF rest
<1>2. ASSUME NEW i \in 1 .. Len(rest)
      PROVE  rest[i] = s[(((first + n) + i - 1) % Len(s)) + 1]
  <2>1. n + i \in 1 .. Len(items) /\ first + (n + i) - 1 = (first + n) + i - 1
    BY <1>1
  <2>2. items[n + i] = s[((first + (n + i) - 1) % Len(s)) + 1]
    BY <2>1 DEF Carries
  <2> QED
    BY <1>1, <2>1, <2>2
<1>3. first + Len(items) = (first + n) + Len(rest)
  BY <1>1
<1> QED
  BY <1>1, <1>2, <1>3 DEF Carries, rest

LEMMA CarriesAround ==
    ASSUME NEW s \in Seq(Int), s # <<>>, NEW first \in Nat, NEW items \in Seq(Int),
           NEW last \in Nat, Carries(s, first, items, last)
    PROVE  /\ Carries(s, first % Len(s), items, last)
           /\ Carries(s, first, items, last % Len(s))
<1>1. Len(s) \in Nat \ {0} /\ Len(items) \in Nat
  OBVIOUS
<1>2. Carries(s, first, items, last % Len(s))
  <2>1. ((last % Len(s)) + 0) % Len(s) = (last + 0) % Len(s)
    BY <1>1, ModPlus
  <2>2. (last % Len(s)) + 0 = last % Len(s) /\ last + 0 = last
    BY <1>1
  <2> QED
    BY <2>1, <2>2 DEF Carries
<1>3. ASSUME NEW i \in 1 .. Len(items)
      PROVE  items[i] = s[(((first % Len(s)) + i - 1) % Len(s)) + 1]
  <2>0. i - 1 \in Nat
    BY <1>1
  <2>1. ((first % Len(s)) + (i - 1)) % Len(s) = (first + (i - 1)) % Len(s)
    BY <1>1, <2>0, ModPlus
  <2>2. first % Len(s) \in Nat
    BY <1>1
  <2>3. (first % Len(s)) + (i - 1) = (first % Len(s)) + i - 1 /\ first + (i - 1) = first + i - 1
    BY <2>2
  <2> QED
    BY <2>1, <2>3 DEF Carries
<1>4. ((first % Len(s)) + Len(items)) % Len(s) = (first + Len(items)) % Len(s)
  BY <1>1, ModPlus
<1> QED
  BY <1>2, <1>3, <1>4 DEF Carries

\* The sender's index is next, it has sent as many more as sent says; the receiver's index is
\* expected, it has received as many more as got says.  The items are what is between.
InTransit(s, size, items, next, sent, expected, got) ==
    /\ items \in Seq(Int) /\ Len(items) <= size
    /\ sent \in 0 .. Len(s) - next /\ got \in Nat
    /\ Carries(s, expected + got, items, next + sent)

LEMMA TransitSend ==
    ASSUME NEW s \in Seq(Int), s # <<>>, NEW size, NEW items,
           NEW next \in 0 .. Len(s) - 1, NEW expected \in 0 .. Len(s) - 1, NEW got,
           InTransit(s, size, items, next, 0, expected, got),
           NEW n \in 0 .. Len(s) - next, Len(items) + n <= size,
           NEW data, data = SubSeq(s, next + 1, Len(s)),
           NEW more, more = IF n = 0 THEN items ELSE items \o SubSeq(data, 1, n)
    PROVE  InTransit(s, size, more, next, n, expected, got)
<1>1. /\ items \in Seq(Int) /\ Len(items) \in Nat /\ expected + got \in Nat /\ got \in Nat
      /\ next + 0 = next
  BY DEF InTransit
<1>2. Carries(s, expected + got, items, next)
  BY <1>1 DEF InTransit
<1>3. CASE n = 0
  BY <1>3 DEF InTransit
<1>4. CASE n # 0
  <2> DEFINE first == expected + got
  <2>1. first \in Nat /\ Carries(s, first, items, next)
    BY <1>1, <1>2
  <2> HIDE DEF first
  <2>2. /\ Longer(s, items, next, n) \in Seq(Int)
        /\ Len(Longer(s, items, next, n)) = Len(items) + n
        /\ Carries(s, first, Longer(s, items, next, n), next + n)
    BY <1>1, <2>1, CarriesMore
  <2>3. more = Longer(s, items, next, n)
    BY <1>4 DEF Longer
  <2> QED
    BY <1>1, <2>2, <2>3 DEF InTransit, first
<1> QED
  BY <1>3, <1>4

LEMMA TransitFetch ==
    ASSUME NEW s \in Seq(Int), s # <<>>, NEW size \in Nat, NEW items,
           NEW next, NEW sent, NEW expected \in 0 .. Len(s) - 1,
           InTransit(s, size, items, next, sent, expected, 0), NEW n \in 0 .. Len(items),
           NEW rest, rest = IF n = 0 THEN items ELSE SubSeq(items, n + 1, Len(items))
    PROVE  InTransit(s, size, rest, next, sent, expected, n)
<1>1. items \in Seq(Int) /\ Len(items) \in Nat /\ Len(items) <= size /\ n \in Nat
      /\ expected \in Nat /\ expected + 0 = expected
  BY DEF InTransit
<1>2. Carries(s, expected, items, next + sent)
  BY <1>1 DEF InTransit
<1>3. CASE n = 0
  BY <1>1, <1>3 DEF InTransit
<1>4. CASE n # 0
  <2>1. /\ SubSeq(items, n + 1, Len(items)) \in Seq(Int)
        /\ Len(SubSeq(items, n + 1, Len(items))) = Len(items) - n
        /\ Carries(s, expected + n, SubSeq(items, n + 1, Len(items)), next + sent)
    BY <1>1, <1>2, CarriesLess
  <2> QED
    BY <1>1, <1>4, <2>1 DEF InTransit
<1> QED
  BY <1>3, <1>4

LEMMA TransitCount ==
    ASSUME NEW s \in Seq(Int), s # <<>>, NEW size, NEW items,
           NEW next \in 0 .. Len(s) - 1, NEW sent, NEW expected \in 0 .. Len(s) - 1, NEW got,
           InTransit(s, size, items, next, sent, expected, got)
    PROVE  /\ (sent + next) % Len(s) \in 0 .. Len(s) - 1
           /\ InTransit(s, size, items, (sent + next) % Len(s), 0, expected, got)
           /\ (got + expected) % Len(s) \in 0 .. Len(s) - 1
           /\ InTransit(s, size, items, next, sent, (got + expected) % Len(s), 0)
<1> DEFINE L == Len(s)
           last == next + sent
           first == expected + got
<1>1. /\ L \in Nat \ {0} /\ items \in Seq(Int) /\ first \in Nat /\ last \in Nat
      /\ sent + next = last /\ got + expected = first
  BY DEF InTransit
<1>2. Carries(s, first, items, last)
  BY DEF InTransit
<1>3. Carries(s, first % L, items, last) /\ Carries(s, first, items, last % L)
  BY <1>1, <1>2, CarriesAround
<1>4. last % L \in 0 .. L - 1 /\ first % L \in 0 .. L - 1
  BY <1>1
<1> HIDE DEF L
<1>5. /\ (last % L) + 0 = last % L /\ (first % L) + 0 = first % L
      /\ 0 \in 0 .. L - (last % L) /\ 0 \in Nat
  <2>1. \A a \in Nat \ {0} : \A b \in 0 .. a - 1 : b + 0 = b /\ 0 \in 0 .. a - b
    OBVIOUS
  <2> QED
    BY <1>1, <1>4, <2>1
<1>6. InTransit(s, size, items, last % L, 0, expected, got)
  BY <1>3, <1>5 DEF InTransit, L
<1>7. InTransit(s, size, items, next, sent, first % L, 0)
  BY <1>3, <1>5 DEF InTransit, L
<1> QED
  BY <1>1, <1>4, <1>6, <1>7 DEF L
-----------------------------------------------------------------------------
(* A task that is alone: no other one has been created *)

Alone(K, t) == \A u \in DOMAIN K.task \ {t} : Away(K, u)

\* What a step of a running task t does to the tasks: no other one of them is suspended or
\* away, and none is created if t is alone.
Leads(K, K2, t) ==
    /\ Rouses(K, K2)
    /\ Alone(K, t) /\ K.task[t].run = "ready" => Alone(K2, t)

LEMMA SameLeads ==
    ASSUME NEW K, Kernel(K), NEW K2, Kernel(K2), K2.task = K.task, NEW t
    PROVE  Leads(K, K2, t)
  BY SameRouses DEF Leads, Alone, Away

LEMMA RestedLeads ==
    ASSUME NEW K, NEW K1, NEW t, Leads(K, K1, t)
    PROVE  Leads(K, Rested(K1, t), t)
<1>1. Rouses(K, Rested(K1, t))
  BY RestedRouses, RousesAgain DEF Leads, Rouses
<1>2. ASSUME Alone(K1, t)
      PROVE  Alone(Rested(K1, t), t)
  BY <1>2 DEF Leads, Rouses, Kernel, Alone, Away, Rested
<1> QED
  BY <1>1, <1>2 DEF Leads

LEMMA BlockLeads ==
    ASSUME NEW K, Kernel(K), NEW t, NEW where, NEW ticks
    PROVE  Leads(K, Block(K, t, where, ticks), t)
<1>1. Rouses(K, Block(K, t, where, ticks))
  BY BlockRouses
<1>2. ASSUME Alone(K, t)
      PROVE  Alone(Block(K, t, where, ticks), t)
  BY <1>2 DEF Kernel, Alone, Away, Block
<1> QED
  BY <1>1, <1>2 DEF Leads

LEMMA NobodyWaits ==
    ASSUME NEW K, NEW t, Alone(K, t), K.task[t].run = "ready", NEW where
    PROVE  WaitingAt(K, where) = {} /\ Wake(K, where) = K
<1>1. WaitingAt(K, where) = {}
  BY DEF WaitingAt, Alone, Away, Absent
<1> QED
  BY <1>1 DEF Wake

LEMMA WakeLeads ==
    ASSUME NEW K, Kernel(K), NEW K1, Kernel(K1), K1.task = K.task, NEW t, NEW where
    PROVE  Leads(K, Wake(K1, where), t)
<1>1. Rouses(K, K1) /\ Rouses(K1, Wake(K1, where))
  BY SameRouses, WakeRouses
<1>2. ASSUME Alone(K, t), K.task[t].run = "ready"
      PROVE  Alone(Wake(K1, where), t)
  <2>1. Alone(K1, t) /\ K1.task[t].run = "ready"
    BY <1>2 DEF Alone, Away
  <2> QED
    BY <2>1, NobodyWaits
<1> QED
  BY <1>1, <1>2, RousesAgain DEF Leads

LEMMA ElapseAlone ==
    ASSUME NEW d, Elapse(d), Kernel(kernel), NEW t, Alone(kernel, t)
    PROVE  Alone(kernel', t)
<1>1. PICK ticks, K : /\ K \in {Reap(TasksAfter(kernel, ticks)), TasksAfter(kernel, ticks)}
                      /\ kernel' = TimersAfter(K, ticks)
  BY DEF Elapse, IdleTurn
<1> DEFINE K1 == TasksAfter(kernel, ticks)
<1>2. Kernel(K1) /\ Alone(K1, t)
  BY DEF Kernel, TasksAfter, Alone, Away, Timed, Absent
<1> HIDE DEF K1
<1>3. Kernel(Reap(K1)) /\ Alone(Reap(K1), t)
  BY <1>2 DEF Kernel, Reap, Alone, Away, Gone, NewTask, Absent
<1>4. Kernel(K) /\ Alone(K, t)
  BY <1>1, <1>2, <1>3 DEF K1
<1>5. TimersAfter(K, ticks).task = K.task
  BY <1>4 DEF TimersAfter, Kernel
<1> QED
  BY <1>1, <1>4, <1>5 DEF Alone, Away
-----------------------------------------------------------------------------
(* What the calls of a stream's outline do *)

LEMMA ActionOfStreamOp ==
    ASSUME NEW d, NEW t, NEW c, StepOf(d, t, c)
    PROVE  /\ c.op = "Send" => SendCall(d, t, c)
           /\ c.op = "Fetch" => FetchCall(d, t, c)
           /\ c.op \in BufferCalls => BufferCall(d, t, c)
           /\ c.op = "Matches" => DataCall(d, t, c)
           /\ c.op = "Elapsed" => ElapsedCall(d, t, c)
           /\ c.op = "Create" => CreateCall(d, t, c)
  BY OpsOfActions
     DEF StepOf, QueueCalls, Receives, MutexCalls, NoteCalls, WaitCalls, GroupCalls,
         TimerCalls, BufferCalls

\* What there is in a buffer when n bytes or a message have been written to it, or n read.
WithMore(b, data, n) ==
    IF n = 0 THEN b.items ELSE IF b.msg THEN Append(b.items, data) ELSE b.items \o SubSeq(data, 1, n)
WithLess(b, n) ==
    IF n = 0 THEN b.items ELSE IF b.msg THEN Tail(b.items) ELSE SubSeq(b.items, n + 1, Len(b.items))

\* A send writes what fits, or the task blocks.
LEMMA BufferSendStep ==
    ASSUME NEW d, NEW t, NEW c, StepOf(d, t, c), c.op = "Send", Kernel(kernel)
    PROVE  LET b == kernel.obj[c.o]
               n == Written(b, Data(c))
           IN  /\ Leads(kernel, kernel', t)
               /\ \/ SameObjects(kernel, kernel') /\ UNCHANGED <<pc, mem, error>>
                  \/ /\ NewItems(kernel, kernel', c.o, WithMore(b, Data(c), n))
                     /\ Done(d, t, c, n)
<1> DEFINE b == kernel.obj[c.o]
           data == Data(c)
           n == Written(b, data)
           items == WithMore(b, data, n)
           K1 == [kernel EXCEPT !.obj[c.o].items = items]
<1>1. SendCall(d, t, c)
  BY ActionOfStreamOp
<1>2. CASE /\ \E where, ticks : kernel' = Block(kernel, t, where, ticks)
           /\ UNCHANGED <<pc, mem, error>>
  BY <1>2, BlockObjects, BlockLeads DEF Kernel
<1>3. CASE kernel' = Rested(AfterSend(kernel, c.o, data), t) /\ Done(d, t, c, n)
  <2>1. Kernel(K1) /\ K1.task = kernel.task /\ NewItems(kernel, K1, c.o, items)
    BY DEF Kernel, NewItems
  <2>2. AfterSend(kernel, c.o, data) \in {K1, Wake(K1, Filled(c.o))}
    BY DEF AfterSend, WithMore
  <2> HIDE DEF K1, items
  <2>3. \A K2 \in {K1, Wake(K1, Filled(c.o))} :
            NewItems(kernel, K2, c.o, items) /\ Leads(kernel, K2, t)
    BY <2>1, WakeObjects, WakeLeads, SameLeads DEF NewItems, SameObjects
  <2>4. NewItems(kernel, kernel', c.o, items) /\ Leads(kernel, kernel', t)
    BY <1>3, <2>2, <2>3, RestedItems, RestedLeads
  <2> QED
    BY <1>3, <2>4 DEF items
<1> QED
  BY <1>1, <1>2, <1>3 DEF SendCall

\* A receive takes what there is, or the task blocks.
LEMMA BufferFetchStep ==
    ASSUME NEW d, NEW t, NEW c, StepOf(d, t, c), c.op = "Fetch", Kernel(kernel)
    PROVE  LET b == kernel.obj[c.o]
               data == Readable(b, MaxLength(c))
               n == Len(data)
           IN  /\ Leads(kernel, kernel', t)
               /\ \/ SameObjects(kernel, kernel') /\ UNCHANGED <<pc, mem, error>>
                  \/ /\ IF n = 0 THEN SameObjects(kernel, kernel')
                        ELSE NewItems(kernel, kernel', c.o, WithLess(b, n))
                     /\ DoneOut(d, t, c, n, data)
<1> DEFINE b == kernel.obj[c.o]
           data == Readable(b, MaxLength(c))
           n == Len(data)
           items == WithLess(b, n)
           K1 == [kernel EXCEPT !.obj[c.o].items = items]
           K2 == AfterReceive(kernel, c.o, MaxLength(c))
<1>1. FetchCall(d, t, c)
  BY ActionOfStreamOp
<1>2. CASE /\ \E where, ticks : kernel' = Block(kernel, t, where, ticks)
           /\ UNCHANGED <<pc, mem, error>>
  BY <1>2, BlockObjects, BlockLeads DEF Kernel
<1>3. CASE kernel' = Rested(K2, t) /\ DoneOut(d, t, c, n, data)
  <2>1. CASE n = 0
    <3>1. K2 = kernel
      BY <2>1 DEF AfterReceive
    <3>2. Leads(kernel, kernel, t)
      BY SameLeads
    <3> HIDE DEF K2
    <3>3. SameObjects(kernel, kernel') /\ Leads(kernel, kernel', t)
      BY <1>3, <3>1, <3>2, RestedObjects, RestedLeads DEF Kernel
    <3> QED
      BY <1>3, <2>1, <3>3
  <2>2. CASE n # 0
    <3>1. Kernel(K1) /\ K1.task = kernel.task /\ NewItems(kernel, K1, c.o, items)
      BY DEF Kernel, NewItems
    <3>2. K2 = Wake(K1, Emptied(c.o))
      BY <2>2 DEF AfterReceive, WithLess
    <3> HIDE DEF K1, K2, items
    <3>3. NewItems(kernel, K2, c.o, items) /\ Leads(kernel, K2, t)
      BY <3>1, <3>2, WakeObjects, WakeLeads DEF NewItems, SameObjects
    <3>4. NewItems(kernel, kernel', c.o, items) /\ Leads(kernel, kernel', t)
      BY <1>3, <3>3, RestedItems, RestedLeads
    <3> QED
      BY <1>3, <2>2, <3>4 DEF items
  <2> QED
    BY <2>1, <2>2
<1> QED
  BY <1>1, <1>2, <1>3 DEF FetchCall

\* The other calls on buffers leave the buffer o as it is.
LEMMA BufferStep ==
    ASSUME NEW d, NEW t, NEW c, StepOf(d, t, c), c.op \in BufferCalls, Kernel(kernel),
           NEW o \in DOMAIN kernel.obj, c.op \in LooksAt \/ c.o # o
    PROVE  /\ Leads(kernel, kernel', t)
           /\ DOMAIN kernel'.obj = DOMAIN kernel.obj /\ kernel'.obj[o] = kernel.obj[o]
           /\ \E r : Done(d, t, c, r)
<1>1. kernel' = AfterBufferCall(kernel, c) /\ \E r : Done(d, t, c, r)
  BY ActionOfStreamOp DEF BufferCall
<1> DEFINE K1 == [kernel EXCEPT !.obj[c.o].items = <<>>]
           K2 == [kernel EXCEPT !.obj[c.o] = c.v]
<1>2. kernel' = kernel \/ (c.op \notin LooksAt /\ kernel' \in {K1, K2})
  BY <1>1 DEF AfterBufferCall, LooksAt, BufferCalls
<1>3. CASE kernel' = kernel
  BY <1>1, <1>3, SameLeads
<1>4. CASE c.o # o /\ kernel' \in {K1, K2}
  <2>1. /\ Kernel(kernel') /\ kernel'.task = kernel.task
        /\ DOMAIN kernel'.obj = DOMAIN kernel.obj /\ kernel'.obj[o] = kernel.obj[o]
    BY <1>4 DEF Kernel
  <2> QED
    BY <1>1, <2>1, SameLeads
<1> QED
  BY <1>2, <1>3, <1>4

\* A buffer that no other task can wait for is reset.
LEMMA BufferResetStep ==
    ASSUME NEW d, NEW t, NEW c, StepOf(d, t, c), c.op = "ResetBuffer", Kernel(kernel),
           Alone(kernel, t), kernel.task[t].run = "ready"
    PROVE  /\ Leads(kernel, kernel', t) /\ NewItems(kernel, kernel', c.o, <<>>)
           /\ \E r : Done(d, t, c, r)
<1>1. kernel' = AfterBufferCall(kernel, c) /\ \E r : Done(d, t, c, r)
  BY ActionOfStreamOp DEF BufferCall, BufferCalls
<1>2. ~Waited(kernel, c.o)
  BY NobodyWaits DEF Waited
<1>3. kernel' = [kernel EXCEPT !.obj[c.o].items = <<>>]
  BY <1>1, <1>2 DEF AfterBufferCall
<1>4. Kernel(kernel') /\ kernel'.task = kernel.task /\ NewItems(kernel, kernel', c.o, <<>>)
  BY <1>3 DEF Kernel, NewItems
<1> QED
  BY <1>1, <1>4, SameLeads

LEMMA PlainLeads ==
    ASSUME NEW d, NEW t, NEW c, StepOf(d, t, c), c.op \in PlainCalls \cup {"PrioritySet"},
           Kernel(kernel)
    PROVE  Leads(kernel, kernel', t)
<1>1. CASE c.op \in {"Read", "Compare"}
  BY <1>1, ActionOfOp, SameLeads DEF ReadCall
<1>2. CASE c.op \in {"Set", "Add"}
  BY <1>2, ActionOfOp, SameLeads DEF WriteCall
<1>3. CASE c.op = "Delay"
  <2>1. DelayCall(d, t, c)
    BY <1>3, ActionOfOp
  <2>2. \/ kernel' = Rested(kernel, t)
        \/ \E ticks : kernel' = Block(kernel, t, Nowhere, ticks)
    BY <2>1 DEF DelayCall
  <2>3. Leads(kernel, kernel, t)
    BY SameLeads
  <2> QED
    BY <2>2, <2>3, RestedLeads, BlockLeads
<1>4. CASE c.op \in {"EnterCritical", "ExitCritical"}
  BY <1>4, ActionOfOp, SameLeads DEF LockCall, Kernel
<1>5. CASE c.op = "PrioritySet"
  <2>1. PriorityCall(d, t, c)
    BY <1>5, ActionOfTaskOp
  <2> DEFINE u == Target(t, c)
             r == kernel.task[u]
             P(base, prio) == [kernel EXCEPT !.task[u] = [@ EXCEPT !.base = base, !.prio = prio]]
             prio1 == IF r.base = r.prio \/ c.v > r.prio THEN c.v ELSE r.prio
  <2>2. kernel' = P(c.v, prio1)
    BY <1>5, <2>1 DEF PriorityCall
  <2> HIDE DEF u, prio1
  <2>3. Rouses(kernel, P(c.v, prio1))
    BY PriorityRouses
  <2>4. Alone(kernel, t) => Alone(P(c.v, prio1), t)
    BY DEF Alone, Away, Kernel
  <2> QED
    BY <2>2, <2>3, <2>4 DEF Leads
<1> QED
  BY <1>1, <1>2, <1>3, <1>4, <1>5 DEF PlainCalls

\* A task is created, or was there before.
LEMMA CreateStep ==
    ASSUME NEW d, NEW t, NEW c, StepOf(d, t, c), c.op = "Create", Kernel(kernel),
           NEW u \in Nat, c.o = {u}
    PROVE  /\ Rouses(kernel, kernel') /\ SameObjects(kernel, kernel')
           /\ \/ \E r : Done(d, t, c, r)
              \/ Away(kernel, u) /\ \E r : DoneAt(d, [pc EXCEPT ![u] = 1], mem, t, c, r)
<1> DEFINE free == {x \in c.o : kernel.task[x].run = Absent}
           K1 == [kernel EXCEPT !.task[u] = NewTask(c.v, <<>>)]
<1>1. CreateCall(d, t, c)
  BY ActionOfStreamOp
<1>2. CASE free = {}
  BY <1>1, <1>2, SameRouses DEF CreateCall, SameObjects, Kernel
<1>3. CASE free # {}
  <2>1. free = {u} /\ kernel.task[u].run = Absent
    BY <1>3
  <2>2. Min(free) = u
    BY <2>1, u <= u DEF Min
  <2>3. kernel' = K1 /\ DoneAt(d, [pc EXCEPT ![u] = 1], mem, t, c, u)
    BY <1>1, <1>3, <2>2 DEF CreateCall
  <2>4. Rouses(kernel, K1) /\ SameObjects(kernel, K1)
    BY DEF Kernel, Rouses, Away, Absent, SameObjects, NewTask
  <2> QED
    BY <2>1, <2>3, <2>4 DEF Away
<1> QED
  BY <1>2, <1>3
-----------------------------------------------------------------------------
(* Streams: the inductive invariant *)

SizeOf(sm)  == sm.program.obj[sm.o].size
Indexes(sm) == 0 .. Len(sm.string) - 1

IsStream(sm, m) ==
    /\ {"kind", "size", "msg", "items"} \subseteq DOMAIN m
    /\ m.kind = "stream" /\ m.size = SizeOf(sm) /\ m.msg = FALSE

StreamState(sm) ==
    /\ Kernel(kernel) /\ DOMAIN kernel.task = DOMAIN pc
    /\ sm.o \in DOMAIN kernel.obj /\ IsStream(sm, kernel.obj[sm.o])
    /\ DOMAIN pc = DOMAIN sm.program.tasks
    /\ \A t \in DOMAIN pc : /\ pc[t] \in DOMAIN sm.program.tasks[t].program
                            /\ Away(kernel, t) => pc[t] = 1
    /\ IndexesOf(sm) \subseteq DOMAIN mem
    /\ mem[sm.next] \in Indexes(sm) /\ mem[sm.expected] \in Indexes(sm)

SentMore(sm, n, sent) == IF n \in sm.posted THEN sent ELSE 0
GotMore(sm, n, got)   == IF n \in sm.received THEN got ELSE 0

\* What must be true with the sender and the receiver at the places ns and nr, ...
Claims(sm, ns, nr, K, items, next, sent, expected, got) ==
    IF ns \in sm.setup THEN Alone(K, sm.sender) /\ next = expected
    ELSE InTransit(sm.string, SizeOf(sm), items, next, SentMore(sm, ns, sent),
                   expected, GotMore(sm, nr, got))

\* ... and what so is true now.
StreamClaim(sm) ==
    Claims(sm, pc[sm.sender], pc[sm.receiver], kernel, kernel.obj[sm.o].items,
           mem[sm.next], mem[sm.sent], mem[sm.expected], mem[sm.got])

StreamInv(sm) == StreamState(sm) /\ StreamClaim(sm)

LEMMA StreamInit ==
    ASSUME NEW sm, StreamOutline(sm), InitOf(sm.program)
    PROVE  StreamInv(sm)
<1> DEFINE d == sm.program
           b == d.obj[sm.o]
<1>1. /\ "obj" \in DOMAIN kernel /\ kernel.obj = d.obj
      /\ "task" \in DOMAIN kernel /\ DOMAIN kernel.task = DOMAIN d.tasks
      /\ pc = [t \in DOMAIN d.tasks |-> 1] /\ mem = d.mem
  BY DEF InitOf
<1>2. \A t \in DOMAIN d.tasks :
          /\ "run" \in DOMAIN kernel.task[t]
          /\ d.tasks[t].priority < 0 => Away(kernel, t)
  BY DEF InitOf, Away, Gone, NewTask, Absent
<1>3. Kernel(kernel)
  BY <1>1, <1>2 DEF Kernel
<1>4. /\ b = StreamBuffer(b.size, b.trigger) /\ b.size \in Nat /\ sm.o \in DOMAIN d.obj
      /\ sm.string \in Seq(Int) /\ sm.string # <<>>
      /\ IndexesOf(sm) \subseteq DOMAIN d.mem /\ d.mem[sm.next] = 0 /\ d.mem[sm.expected] = 0
      /\ sm.sender \in DOMAIN d.tasks /\ sm.receiver \in DOMAIN d.tasks
      /\ 1 \notin sm.posted /\ 1 \notin sm.received
  BY DEF StreamOutline
<1>5. \A t \in DOMAIN d.tasks :
          /\ 1 \in DOMAIN d.tasks[t].program
          /\ 1 \in sm.setup /\ t # sm.sender => d.tasks[t].priority < 0
  BY DEF StreamOutline
<1>6. IsStream(sm, b) /\ b.items = <<>>
  <2>1. \A size, trigger :
            /\ {"kind", "size", "msg", "items"} \subseteq DOMAIN StreamBuffer(size, trigger)
            /\ StreamBuffer(size, trigger).kind = "stream"
            /\ StreamBuffer(size, trigger).size = size
            /\ StreamBuffer(size, trigger).msg = FALSE
            /\ StreamBuffer(size, trigger).items = <<>>
    BY DEF StreamBuffer
  <2> QED
    BY <1>4, <2>1 DEF IsStream, SizeOf
<1>7. 0 \in Indexes(sm)
  BY <1>4 DEF Indexes
<1>8. StreamState(sm)
  BY <1>1, <1>2, <1>3, <1>4, <1>5, <1>6, <1>7 DEF StreamState
<1>9. CASE 1 \in sm.setup
  BY <1>1, <1>2, <1>4, <1>5, <1>8, <1>9 DEF StreamInv, StreamClaim, Claims, Alone
<1>10. CASE 1 \notin sm.setup
  <2>1. InTransit(sm.string, SizeOf(sm), <<>>, 0, 0, 0, 0)
    <3>1. /\ <<>> \in Seq(Int) /\ Len(<<>>) = 0 /\ 1 .. 0 = {} /\ 0 + 0 = 0
          /\ 0 \in 0 .. Len(sm.string) - 0 /\ 0 \in Nat /\ 0 <= b.size
      BY <1>4
    <3> QED
      BY <3>1 DEF InTransit, Carries, SizeOf
  <2> QED
    BY <1>1, <1>4, <1>6, <1>8, <1>10, <2>1 DEF StreamInv, StreamClaim, Claims, SentMore, GotMore
<1> QED
  BY <1>9, <1>10

\* The call c of t is over with the result r.
Ends(sm, t, c, r) ==
    /\ DOMAIN pc' = DOMAIN pc
    /\ \A u \in DOMAIN pc : pc'[u] = Lands(sm.program, t, c, r, u)
    /\ \A v \in IndexesOf(sm) : v \in DOMAIN mem' /\ mem'[v] = After(c, r, v)

LEMMA DoneEnds ==
    ASSUME NEW sm, StreamOutline(sm), StreamState(sm), NEW t \in DOMAIN pc, NEW c, NEW r,
           NEW p, DOMAIN p = DOMAIN pc, \A u \in DOMAIN pc \ {t} : p[u] = pc[u],
           NEW m, DOMAIN m = DOMAIN mem, \A v \in IndexesOf(sm) : m[v] = mem[v],
           DoneAt(sm.program, p, m, t, c, r)
    PROVE  Ends(sm, t, c, r)
<1> DEFINE d == sm.program
<1>1. pc' = [p EXCEPT ![t] = Place(d.tasks[t], pc[t] + Ahead(c, r))]
  BY DEF DoneAt
<1>2. DOMAIN pc' = DOMAIN pc /\ \A u \in DOMAIN pc : pc'[u] = Lands(d, t, c, r, u)
  BY <1>1 DEF Lands
<1>3. ASSUME NEW v \in IndexesOf(sm)
      PROVE  v \in DOMAIN mem' /\ mem'[v] = After(c, r, v)
  <2>1. Named(v) /\ v \in DOMAIN m /\ m[v] = mem[v] /\ v \notin d.tasks[t].locals
    BY DEF StreamOutline, StreamState, Named
  <2> QED
    BY <2>1 DEF DoneAt, After, Named
<1> QED
  BY <1>2, <1>3 DEF Ends

\* K2 differs from K at most in the tasks and in other objects than o, which holds the items.
Fills(K, K2, o, items) ==
    /\ DOMAIN K2.obj = DOMAIN K.obj
    /\ \/ K2.obj[o] = K.obj[o] /\ items = K.obj[o].items
       \/ K2.obj[o] = [K.obj[o] EXCEPT !.items = items]

\* What a step must do to keep the invariant.
LEMMA StreamKept ==
    ASSUME NEW sm, StreamOutline(sm), StreamInv(sm), NEW t \in DOMAIN pc, ~Away(kernel, t),
           NEW c, NEW r, Ends(sm, t, c, r), Rouses(kernel, kernel'),
           Lands(sm.program, t, c, r, t) \in DOMAIN sm.program.tasks[t].program,
           NEW items, Fills(kernel, kernel', sm.o, items),
           After(c, r, sm.next) \in Indexes(sm), After(c, r, sm.expected) \in Indexes(sm),
           Claims(sm, Lands(sm.program, t, c, r, sm.sender),
                  Lands(sm.program, t, c, r, sm.receiver), kernel', items,
                  After(c, r, sm.next), After(c, r, sm.sent),
                  After(c, r, sm.expected), After(c, r, sm.got))
    PROVE  StreamInv(sm)'
<1>1. /\ sm.o \in DOMAIN kernel'.obj /\ kernel'.obj[sm.o].items = items
      /\ IsStream(sm, kernel'.obj[sm.o])
  BY DEF StreamInv, StreamState, IsStream, Fills
<1>2. /\ IndexesOf(sm) \subseteq DOMAIN mem'
      /\ mem'[sm.next] = After(c, r, sm.next) /\ mem'[sm.sent] = After(c, r, sm.sent)
      /\ mem'[sm.expected] = After(c, r, sm.expected) /\ mem'[sm.got] = After(c, r, sm.got)
  BY DEF Ends, IndexesOf
<1>3. /\ DOMAIN pc' = DOMAIN pc
      /\ pc'[sm.sender] = Lands(sm.program, t, c, r, sm.sender)
      /\ pc'[sm.receiver] = Lands(sm.program, t, c, r, sm.receiver)
      /\ pc'[t] \in DOMAIN sm.program.tasks[t].program
      /\ \A u \in DOMAIN pc \ {t} : pc'[u] = pc[u]
  BY DEF StreamOutline, StreamInv, StreamState, Ends, Lands
<1>4. /\ Kernel(kernel') /\ DOMAIN kernel'.task = DOMAIN pc
      /\ \A u \in DOMAIN pc : Away(kernel', u) => Away(kernel, u)
  BY DEF StreamInv, StreamState, Rouses
<1>5. \A u \in DOMAIN pc : /\ pc'[u] \in DOMAIN sm.program.tasks[u].program
                           /\ Away(kernel', u) => pc'[u] = 1
  BY <1>3, <1>4 DEF StreamInv, StreamState
<1>6. StreamState(sm)'
  BY <1>1, <1>2, <1>3, <1>4, <1>5 DEF StreamInv, StreamState, Away
<1>7. StreamClaim(sm)'
  BY <1>1, <1>2, <1>3 DEF StreamClaim
<1> QED
  BY <1>6, <1>7 DEF StreamInv

LEMMA StreamIdle ==
    ASSUME NEW sm, StreamOutline(sm), StreamInv(sm), UNCHANGED pc,
           \A v \in IndexesOf(sm) : v \in DOMAIN mem' /\ mem'[v] = mem[v],
           Rouses(kernel, kernel'), Alone(kernel, sm.sender) => Alone(kernel', sm.sender),
           DOMAIN kernel'.obj = DOMAIN kernel.obj, kernel'.obj[sm.o] = kernel.obj[sm.o]
    PROVE  StreamInv(sm)'
<1>1. /\ IndexesOf(sm) \subseteq DOMAIN mem'
      /\ mem'[sm.next] = mem[sm.next] /\ mem'[sm.sent] = mem[sm.sent]
      /\ mem'[sm.expected] = mem[sm.expected] /\ mem'[sm.got] = mem[sm.got]
  BY DEF IndexesOf
<1>2. /\ Kernel(kernel') /\ DOMAIN kernel'.task = DOMAIN pc
      /\ \A u \in DOMAIN pc : Away(kernel', u) => Away(kernel, u)
  BY DEF StreamInv, StreamState, Rouses
<1>3. \A u \in DOMAIN pc : Away(kernel', u) => pc'[u] = 1
  BY <1>2 DEF StreamInv, StreamState
<1>4. StreamState(sm)'
  BY <1>1, <1>2, <1>3 DEF StreamInv, StreamState, Away
<1>5. StreamClaim(sm)'
  BY <1>1 DEF StreamInv, StreamClaim, Claims
<1> QED
  BY <1>4, <1>5 DEF StreamInv

LEMMA StreamStep ==
    ASSUME NEW sm, StreamOutline(sm), StreamInv(sm), NEW t \in DOMAIN pc,
           kernel.task[t].run = "ready", StepOf(sm.program, t, CallOf(sm.program, t))
    PROVE  StreamInv(sm)'
<1> DEFINE d        == sm.program
           here     == pc[t]
           c        == d.tasks[t].program[here]
           b        == kernel.obj[sm.o]
           L        == Len(sm.string)
           To(k)    == Place(d.tasks[t], here + k)
           after    == {To(k) : k \in Branches(c)}
           posted   == t = sm.sender /\ here \in sm.posted
           received == t = sm.receiver /\ here \in sm.received
           setup    == t = sm.sender /\ here \in sm.setup
           free     == c.into \notin IndexesOf(sm)
           Keeps(p) == /\ t = sm.sender => (p \in sm.posted <=> posted) /\ (p \in sm.setup <=> setup)
                       /\ t = sm.receiver => (p \in sm.received <=> received)
           keeps    == \A p \in after : Keeps(p)
           next     == mem[sm.next]
           expected == mem[sm.expected]
           sent     == SentMore(sm, pc[sm.sender], mem[sm.sent])
           got      == GotMore(sm, pc[sm.receiver], mem[sm.got])
           Sender(r)   == Lands(d, t, c, r, sm.sender)
           Receiver(r) == Lands(d, t, c, r, sm.receiver)
<1>1. StreamFits(sm, t, here)
  BY DEF StreamOutline, StreamInv, StreamState
<1>2. CallOf(d, t) = c /\ after \subseteq DOMAIN d.tasks[t].program
  BY <1>1 DEF StreamFits, CallOf
<1>3. StepOf(d, t, c)
  BY <1>2
<1>4. /\ Kernel(kernel) /\ "obj" \in DOMAIN kernel /\ sm.o \in DOMAIN kernel.obj
      /\ DOMAIN kernel.task = DOMAIN pc
      /\ b.msg = FALSE /\ b.size = SizeOf(sm) /\ SizeOf(sm) \in Nat
  BY DEF StreamOutline, StreamInv, StreamState, IsStream, SizeOf, Kernel
<1>5. /\ sm.string \in Seq(Int) /\ sm.string # <<>> /\ L \in Nat \ {0} /\ Indexes(sm) = 0 .. L - 1
      /\ next \in Indexes(sm) /\ expected \in Indexes(sm)
      /\ sm.sender \in DOMAIN pc /\ sm.receiver \in DOMAIN pc /\ sm.receiver \in Nat
      /\ sm.sender # sm.receiver
  <2>1. /\ sm.string \in Seq(Int) /\ sm.string # <<>>
        /\ {sm.sender, sm.receiver} \subseteq Nat \cap DOMAIN pc /\ sm.sender # sm.receiver
        /\ next \in Indexes(sm) /\ expected \in Indexes(sm)
    BY DEF StreamOutline, StreamInv, StreamState
  <2>2. L \in Nat \ {0}
    BY <2>1
  <2> QED
    BY <2>1, <2>2 DEF Indexes
<1>6. /\ sm.next \notin {sm.sent, sm.expected, sm.got}
      /\ sm.expected \notin {sm.sent, sm.got} /\ sm.sent # sm.got
      /\ Named(sm.next) /\ Named(sm.sent) /\ Named(sm.expected) /\ Named(sm.got)
  BY DEF StreamOutline, IndexesOf, Named
<1>7. ~Away(kernel, t)
  BY DEF Away, Absent
<1>8. \A r : /\ To(Ahead(c, r)) \in after
             /\ Lands(d, t, c, r, t) = To(Ahead(c, r))
             /\ t = sm.sender => Sender(r) = To(Ahead(c, r)) /\ Receiver(r) = pc[sm.receiver]
             /\ t = sm.receiver => Receiver(r) = To(Ahead(c, r)) /\ Sender(r) = pc[sm.sender]
             /\ t \notin {sm.sender, sm.receiver}
                   => Sender(r) = pc[sm.sender] /\ Receiver(r) = pc[sm.receiver]
  BY <1>5 DEF Ahead, Branches, Lands
<1>9. Alone(kernel, sm.sender) => t = sm.sender
  BY <1>4, <1>7 DEF Alone
<1>10. IF setup THEN Alone(kernel, t) /\ next = expected
       ELSE /\ pc[sm.sender] \notin sm.setup
            /\ InTransit(sm.string, SizeOf(sm), b.items, next, sent, expected, got)
  <2>1. StreamClaim(sm)
    BY DEF StreamInv
  <2>2. CASE pc[sm.sender] \in sm.setup
    BY <1>9, <2>1, <2>2 DEF StreamClaim, Claims
  <2>3. CASE pc[sm.sender] \notin sm.setup
    BY <2>1, <2>3 DEF StreamClaim, Claims
  <2> QED
    BY <2>2, <2>3
\* The call goes on.
<1>11. ASSUME SameObjects(kernel, kernel'), UNCHANGED <<pc, mem>>, Leads(kernel, kernel', t)
       PROVE  StreamInv(sm)'
  <2>1. \A v \in IndexesOf(sm) : v \in DOMAIN mem' /\ mem'[v] = mem[v]
    BY <1>11 DEF StreamInv, StreamState
  <2>2. Alone(kernel, sm.sender) => Alone(kernel', sm.sender)
    BY <1>9, <1>11 DEF Leads
  <2> QED
    BY <1>11, <2>1, <2>2, StreamIdle DEF Leads, SameObjects
\* A call that leaves the indexes and, but for the setup, the buffer alone.
<1>12. ASSUME NEW r, Ends(sm, t, c, r), Keeps(To(Ahead(c, r))),
              Rouses(kernel, kernel'), setup => Leads(kernel, kernel', t),
              NEW items, Fills(kernel, kernel', sm.o, items), setup \/ items = b.items,
              free \/ (t = sm.sender /\ ~posted /\ c.into = sm.sent)
                   \/ (t = sm.receiver /\ ~received /\ c.into = sm.got)
       PROVE  StreamInv(sm)'
  <2>1. After(c, r, sm.next) = next /\ After(c, r, sm.expected) = expected
    BY <1>6, <1>12 DEF After, IndexesOf
  <2>2. Claims(sm, Sender(r), Receiver(r), kernel', items, next, After(c, r, sm.sent), expected,
               After(c, r, sm.got))
    <3>1. CASE setup
      <4>1. Sender(r) \in sm.setup
        BY <1>8, <1>12, <3>1
      <4>2. Alone(kernel', sm.sender)
        BY <1>10, <1>12, <3>1 DEF Leads
      <4> QED
        BY <1>10, <3>1, <4>1, <4>2 DEF Claims
    <3>2. CASE ~setup
      <4>1. Sender(r) \notin sm.setup
        BY <1>5, <1>8, <1>10, <1>12, <3>2
      <4>2. SentMore(sm, Sender(r), After(c, r, sm.sent)) = sent
        <5>1. Sender(r) \in sm.posted <=> pc[sm.sender] \in sm.posted
          BY <1>5, <1>8, <1>12
        <5>2. pc[sm.sender] \in sm.posted => c.into # sm.sent
          BY <1>6, <1>12 DEF IndexesOf
        <5> QED
          BY <5>1, <5>2 DEF SentMore, After
      <4>3. GotMore(sm, Receiver(r), After(c, r, sm.got)) = got
        <5>1. Receiver(r) \in sm.received <=> pc[sm.receiver] \in sm.received
          BY <1>5, <1>8, <1>12
        <5>2. pc[sm.receiver] \in sm.received => c.into # sm.got
          BY <1>6, <1>12 DEF IndexesOf
        <5> QED
          BY <5>1, <5>2 DEF GotMore, After
      <4> QED
        BY <1>10, <1>12, <3>2, <4>1, <4>2, <4>3 DEF Claims
    <3> QED
      BY <3>1, <3>2
  <2>3. Lands(d, t, c, r, t) \in DOMAIN d.tasks[t].program
    BY <1>2, <1>8
  <2> QED
    BY <1>5, <1>7, <1>12, <2>1, <2>2, <2>3, StreamKept
<1>13. ASSUME NEW items, NewItems(kernel, kernel', sm.o, items)
       PROVE  Fills(kernel, kernel', sm.o, items)
  BY <1>4, <1>13 DEF NewItems, Fills
<1>14. ASSUME SameObjects(kernel, kernel')
       PROVE  Fills(kernel, kernel', sm.o, b.items)
  BY <1>4, <1>14 DEF SameObjects, Fills
<1>15. ASSUME NEW r, Done(d, t, c, r)
       PROVE  Ends(sm, t, c, r)
  BY <1>15, DoneEnds DEF Done, StreamInv
<1>16. CASE /\ t = sm.sender /\ ~posted /\ ~setup
            /\ c.op = "Send" /\ c.o = sm.o /\ c.into = sm.sent
            /\ c.v = sm.string /\ c.from = sm.next /\ c.mod = L
            /\ after \subseteq sm.posted
  <2> DEFINE data == Data(c)
             n == Written(b, data)
             more == WithMore(b, data, n)
  <2>1. data = SubSeq(sm.string, next + 1, L)
    <3>2. Min({next + L, L}) = L
      BY <1>5, RestOf
    <3>3. c.from # "" /\ c.v # <<>>
      BY <1>5, <1>6, <1>16 DEF Named
    <3> QED
      BY <1>16, <3>2, <3>3 DEF Data
  <2>2. InTransit(sm.string, SizeOf(sm), b.items, next, 0, expected, got)
    BY <1>10, <1>16 DEF SentMore
  <2>3. b.items \in Seq(Int) /\ Len(b.items) \in Nat /\ Len(b.items) <= SizeOf(sm)
    BY <2>2 DEF InTransit
  <2>4. n \in 0 .. L - next /\ Len(b.items) + n <= SizeOf(sm)
    <3>1. Len(data) = L - next /\ Len(data) \in Nat
      BY <1>5, <2>1, RestOf
    <3>2. Space(b) = SizeOf(sm) - Len(b.items)
      BY <1>4 DEF Space, Stored
    <3> HIDE DEF data
    <3>3. n = Min({Len(data), Space(b)})
      BY <1>4 DEF Written
    <3>4. Len(data) \in Int /\ Space(b) \in Nat
      BY <1>4, <2>3, <3>1, <3>2
    <3>5. n = IF Len(data) <= Space(b) THEN Len(data) ELSE Space(b)
      BY <3>3, <3>4, LesserOf
    <3> HIDE DEF n
    <3> QED
      BY <1>4, <1>5, <2>3, <3>1, <3>2, <3>4, <3>5
  <2>5. more = IF n = 0 THEN b.items ELSE b.items \o SubSeq(data, 1, n)
    BY <1>4 DEF WithMore
  <2>6. /\ Leads(kernel, kernel', t)
        /\ \/ SameObjects(kernel, kernel') /\ UNCHANGED <<pc, mem, error>>
           \/ NewItems(kernel, kernel', sm.o, more) /\ Done(d, t, c, n)
    BY <1>3, <1>4, <1>16, BufferSendStep
  <2> HIDE DEF data, n, more
  <2>7. ASSUME NewItems(kernel, kernel', sm.o, more), Done(d, t, c, n)
        PROVE  StreamInv(sm)'
    <3>1. InTransit(sm.string, SizeOf(sm), more, next, n, expected, got)
      BY <1>5, <2>1, <2>2, <2>4, <2>5, TransitSend
    <3>2. /\ After(c, n, sm.next) = next /\ After(c, n, sm.sent) = n
          /\ After(c, n, sm.expected) = expected /\ After(c, n, sm.got) = mem[sm.got]
      BY <1>6, <1>16 DEF After
    <3>3. Sender(n) \in sm.posted /\ Sender(n) \notin sm.setup /\ Receiver(n) = pc[sm.receiver]
      <4>1. Sender(n) \in after /\ Receiver(n) = pc[sm.receiver]
        <5>1. To(Ahead(c, n)) \in after
          BY <1>8
        <5>2. Sender(n) = To(Ahead(c, n)) /\ Receiver(n) = pc[sm.receiver]
          BY <1>8, <1>16
        <5> QED
          BY <5>1, <5>2
      <4>2. sm.posted \cap sm.setup = {}
        BY DEF StreamOutline
      <4> QED
        BY <1>16, <4>1, <4>2
    <3>4. Claims(sm, Sender(n), Receiver(n), kernel', more, next, n, expected, mem[sm.got])
      BY <3>1, <3>3 DEF Claims, SentMore
    <3>5. Lands(d, t, c, n, t) \in DOMAIN d.tasks[t].program
      BY <1>2, <1>8
    <3>6. Rouses(kernel, kernel') /\ Fills(kernel, kernel', sm.o, more) /\ Ends(sm, t, c, n)
      BY <1>13, <1>15, <2>6, <2>7 DEF Leads
    <3> QED
      BY <1>5, <1>7, <3>2, <3>4, <3>5, <3>6, StreamKept
  <2> QED
    BY <1>11, <2>6, <2>7
<1>17. CASE /\ posted /\ CountsOnBy(sm, c, sm.next, sm.sent)
            /\ after \cap (sm.posted \cup sm.setup) = {}
  <2> DEFINE r == (sent + next) % L
  <2>1. sm.posted \cap sm.setup = {}
    BY DEF StreamOutline
  <2>2. sent = mem[sm.sent] /\ InTransit(sm.string, SizeOf(sm), b.items, next, sent, expected, got)
    BY <1>10, <1>17, <2>1 DEF SentMore
  <2>3. Done(d, t, c, r) /\ SameObjects(kernel, kernel') /\ Leads(kernel, kernel', t)
    <3>1. /\ c.op = "Add" /\ c.o = sm.next /\ c.v = 0 /\ c.from = sm.sent /\ c.mod = L
          /\ c.from # ""
      BY <1>6, <1>17 DEF CountsOnBy, Named
    <3>2. WriteCall(d, t, c)
      BY <1>3, <3>1, ActionOfOp
    <3>3. Value(c) = sent
      <4>1. sent \in Int /\ 0 + sent = sent
        <5>1. sent \in 0 .. L - next
          BY <2>2 DEF InTransit
        <5> HIDE DEF sent
        <5> QED
          BY <1>5, <5>1
      <4>2. Value(c) = 0 + mem[sm.sent]
        BY <3>1 DEF Value
      <4> QED
        BY <2>2, <4>1, <4>2
    <3>4. Done(d, t, c, (Value(c) + mem[c.o]) % L) /\ kernel' = kernel
      BY <1>5, <3>1, <3>2 DEF WriteCall
    <3> QED
      BY <1>4, <3>1, <3>3, <3>4, SameLeads DEF SameObjects
  <2>4. r \in Indexes(sm) /\ InTransit(sm.string, SizeOf(sm), b.items, r, 0, expected, got)
    BY <1>5, <2>2, TransitCount
  <2> HIDE DEF r
  <2>5. /\ After(c, r, sm.next) = r /\ After(c, r, sm.sent) = mem[sm.sent]
        /\ After(c, r, sm.expected) = expected /\ After(c, r, sm.got) = mem[sm.got]
    BY <1>6, <1>17 DEF After, CountsOnBy
  <2>6. /\ Sender(r) \notin sm.posted /\ Sender(r) \notin sm.setup
        /\ Receiver(r) = pc[sm.receiver] /\ Lands(d, t, c, r, t) \in DOMAIN d.tasks[t].program
    <3>1. To(Ahead(c, r)) \in after /\ Lands(d, t, c, r, t) = To(Ahead(c, r))
      BY <1>8
    <3>2. Sender(r) = To(Ahead(c, r)) /\ Receiver(r) = pc[sm.receiver]
      BY <1>8, <1>17
    <3> QED
      BY <1>2, <1>17, <3>1, <3>2
  <2>7. Claims(sm, Sender(r), Receiver(r), kernel', b.items, r, mem[sm.sent], expected, mem[sm.got])
    BY <2>4, <2>6 DEF Claims, SentMore
  <2>8. Rouses(kernel, kernel') /\ Fills(kernel, kernel', sm.o, b.items) /\ Ends(sm, t, c, r)
    BY <1>14, <1>15, <2>3 DEF Leads
  <2> QED
    BY <1>5, <1>7, <2>4, <2>5, <2>6, <2>7, <2>8, StreamKept
<1>18. CASE /\ received /\ CountsOnBy(sm, c, sm.expected, sm.got)
            /\ after \cap sm.received = {}
  <2> DEFINE r == (got + expected) % L
  <2>1. t # sm.sender
    BY <1>5, <1>18
  <2>2. /\ got = mem[sm.got] /\ pc[sm.sender] \notin sm.setup
        /\ InTransit(sm.string, SizeOf(sm), b.items, next, sent, expected, got)
    BY <1>10, <1>18, <2>1 DEF GotMore
  <2>3. Done(d, t, c, r) /\ SameObjects(kernel, kernel') /\ Leads(kernel, kernel', t)
    <3>1. /\ c.op = "Add" /\ c.o = sm.expected /\ c.v = 0 /\ c.from = sm.got /\ c.mod = L
          /\ c.from # ""
      BY <1>6, <1>18 DEF CountsOnBy, Named
    <3>2. WriteCall(d, t, c)
      BY <1>3, <3>1, ActionOfOp
    <3>3. Value(c) = got
      <4>1. got \in Int /\ 0 + got = got
        <5>1. got \in Nat
          BY <2>2 DEF InTransit
        <5> HIDE DEF got
        <5> QED
          BY <1>5, <5>1
      <4>2. Value(c) = 0 + mem[sm.got]
        BY <3>1 DEF Value
      <4> QED
        BY <2>2, <4>1, <4>2
    <3>4. Done(d, t, c, (Value(c) + mem[c.o]) % L) /\ kernel' = kernel
      BY <1>5, <3>1, <3>2 DEF WriteCall
    <3> QED
      BY <1>4, <3>1, <3>3, <3>4, SameLeads DEF SameObjects
  <2>4. r \in Indexes(sm) /\ InTransit(sm.string, SizeOf(sm), b.items, next, sent, r, 0)
    BY <1>5, <2>2, TransitCount
  <2> HIDE DEF r
  <2>5. /\ After(c, r, sm.next) = next /\ After(c, r, sm.sent) = mem[sm.sent]
        /\ After(c, r, sm.expected) = r /\ After(c, r, sm.got) = mem[sm.got]
    BY <1>6, <1>18 DEF After, CountsOnBy
  <2>6. /\ Receiver(r) \notin sm.received
        /\ Sender(r) = pc[sm.sender] /\ Lands(d, t, c, r, t) \in DOMAIN d.tasks[t].program
    <3>1. To(Ahead(c, r)) \in after /\ Lands(d, t, c, r, t) = To(Ahead(c, r))
      BY <1>8
    <3>2. Receiver(r) = To(Ahead(c, r)) /\ Sender(r) = pc[sm.sender]
      BY <1>8, <1>18
    <3> QED
      BY <1>2, <1>18, <3>1, <3>2
  <2>7. Claims(sm, Sender(r), Receiver(r), kernel', b.items, next, mem[sm.sent], r, mem[sm.got])
    BY <2>2, <2>4, <2>6 DEF Claims, GotMore
  <2>8. Rouses(kernel, kernel') /\ Fills(kernel, kernel', sm.o, b.items) /\ Ends(sm, t, c, r)
    BY <1>14, <1>15, <2>3 DEF Leads
  <2> QED
    BY <1>5, <1>7, <2>4, <2>5, <2>6, <2>7, <2>8, StreamKept
<1>19. CASE /\ t = sm.receiver /\ ~received
            /\ c.op = "Fetch" /\ c.o = sm.o /\ c.into = sm.got /\ c.out \notin IndexesOf(sm)
            /\ c.v \in Nat \ {0}
            /\ c.from = "" \/ (c.from = sm.expected /\ c.mod = L)
            /\ 1 .. c.v \subseteq c.expect /\ 0 \notin c.expect
            /\ To(c.ok) \in sm.received /\ To(c.no) \notin sm.received
  <2> DEFINE max  == MaxLength(c)
             data == Readable(b, max)
             n    == Len(data)
             rest == IF n = 0 THEN b.items ELSE WithLess(b, n)
             m    == IF c.out = "" THEN mem ELSE [mem EXCEPT ![c.out] = data]
  <2> HIDE DEF c
  <2>0. /\ c.v \in Nat /\ c.v <= c.v /\ \A i \in Nat : i # 0 /\ i <= c.v => i \in c.expect
        /\ L - expected \in Nat
    <3>1. c.v \in Nat /\ \A i \in 1 .. c.v : i \in c.expect
      BY <1>19
    <3>2. \A v \in Nat : v <= v /\ \A i \in Nat : i # 0 /\ i <= v => i \in 1 .. v
      OBVIOUS
    <3>3. L \in Nat /\ expected \in 0 .. L - 1
      BY <1>5
    <3> HIDE DEF L, expected
    <3>4. L - expected \in Nat
      BY <3>3
    <3> QED
      BY <3>1, <3>2, <3>4
  <2>1. /\ pc[sm.sender] \notin sm.setup
        /\ InTransit(sm.string, SizeOf(sm), b.items, next, sent, expected, 0)
    BY <1>5, <1>10, <1>19 DEF GotMore
  <2>2. b.items \in Seq(Int)
    BY <2>1 DEF InTransit
  <2>3. max \in Nat /\ max <= c.v
    <3>1. CASE c.from = ""
      BY <2>0, <3>1 DEF MaxLength
    <3>2. CASE c.from # ""
      <4>1. max = Min({c.v, L - expected})
        BY <1>19, <3>2 DEF MaxLength
      <4> HIDE DEF max, L, expected
      <4>2. c.v \in Int /\ L - expected \in Int
        BY <2>0
      <4>3. max = IF c.v <= L - expected THEN c.v ELSE L - expected
        BY <4>1, <4>2, LesserOf
      <4> QED
        BY <2>0, <4>2, <4>3
    <3> QED
      BY <3>1, <3>2
  <2>4. n \in 0 .. Len(b.items) /\ n <= c.v /\ n \in Nat
    <3>1. data = SubSeq(b.items, 1, Min({max, Len(b.items)}))
      BY <1>4 DEF Readable
    <3> HIDE DEF max
    <3>2. Len(data) \in 0 .. Len(b.items) /\ Len(data) <= max
      BY <2>2, <2>3, <3>1, FirstOf
    <3> HIDE DEF data
    <3> QED
      BY <2>0, <2>2, <2>3, <3>2
  <2>5. rest = IF n = 0 THEN b.items ELSE SubSeq(b.items, n + 1, Len(b.items))
    BY <1>4 DEF WithLess
  <2>6. /\ Leads(kernel, kernel', t)
        /\ \/ SameObjects(kernel, kernel') /\ UNCHANGED <<pc, mem, error>>
           \/ /\ IF n = 0 THEN SameObjects(kernel, kernel')
                 ELSE NewItems(kernel, kernel', sm.o, WithLess(b, n))
              /\ DoneOut(d, t, c, n, data)
    BY <1>3, <1>4, <1>19, BufferFetchStep
  <2>7. ASSUME IF n = 0 THEN SameObjects(kernel, kernel')
               ELSE NewItems(kernel, kernel', sm.o, WithLess(b, n))
        PROVE  Fills(kernel, kernel', sm.o, rest)
    BY <1>13, <1>14, <2>7
  <2>8. /\ DOMAIN m = DOMAIN mem /\ \A v \in IndexesOf(sm) : m[v] = mem[v]
        /\ DoneOut(d, t, c, n, data) => DoneAt(d, pc, m, t, c, n)
    <3>1. DOMAIN m = DOMAIN mem /\ \A v \in IndexesOf(sm) : m[v] = mem[v]
      <4> HIDE DEF data
      <4>1. DOMAIN m = DOMAIN mem /\ \A v \in DOMAIN mem : v # c.out => m[v] = mem[v]
        OBVIOUS
      <4>2. c.out \notin IndexesOf(sm) /\ IndexesOf(sm) \subseteq DOMAIN mem
        BY <1>19 DEF StreamInv, StreamState
      <4> QED
        BY <4>1, <4>2
    <3>2. DoneOut(d, t, c, n, data) => DoneAt(d, pc, m, t, c, n)
      BY DEF DoneOut
    <3> QED
      BY <3>1, <3>2
  <2> HIDE DEF max, data, n, rest, m
  <2>9. ASSUME Fills(kernel, kernel', sm.o, rest), DoneAt(d, pc, m, t, c, n)
        PROVE  StreamInv(sm)'
    <3>1. InTransit(sm.string, SizeOf(sm), rest, next, sent, expected, n)
      BY <1>4, <1>5, <2>1, <2>4, <2>5, TransitFetch
    <3>2. /\ After(c, n, sm.next) = next /\ After(c, n, sm.sent) = mem[sm.sent]
          /\ After(c, n, sm.expected) = expected /\ After(c, n, sm.got) = n
      BY <1>6, <1>19 DEF After
    <3>3. Sender(n) = pc[sm.sender] /\ Receiver(n) = To(Ahead(c, n))
      BY <1>8, <1>19
    <3>4. GotMore(sm, Receiver(n), n) = n
      <4>1. CASE n = 0
        BY <4>1 DEF GotMore
      <4>2. CASE n # 0
        <5>1. n \in c.expect
          BY <2>0, <2>4, <4>2
        <5>2. Ahead(c, n) = c.ok
          BY <5>1 DEF Ahead
        <5> QED
          BY <1>19, <3>3, <5>2 DEF GotMore
      <4> QED
        BY <4>1, <4>2
    <3>5. Claims(sm, Sender(n), Receiver(n), kernel', rest, next, mem[sm.sent], expected, n)
      BY <2>1, <3>1, <3>3, <3>4 DEF Claims
    <3>6. Lands(d, t, c, n, t) \in DOMAIN d.tasks[t].program
      BY <1>2, <1>8
    <3>7. Rouses(kernel, kernel') /\ Ends(sm, t, c, n)
      BY <2>6, <2>8, <2>9, DoneEnds DEF Leads, StreamInv
    <3> QED
      BY <1>5, <1>7, <2>9, <3>2, <3>5, <3>6, <3>7, StreamKept
  <2> QED
    BY <1>11, <2>6, <2>7, <2>8, <2>9
<1>20. ASSUME NEW o, NEW items, NewItems(kernel, kernel', o, items)
       PROVE  \E i : Fills(kernel, kernel', sm.o, i)
  <2>1. CASE o = sm.o
    BY <1>13, <1>20, <2>1
  <2>2. CASE o # sm.o
    BY <1>4, <1>20, <2>2 DEF NewItems, Fills
  <2> QED
    BY <2>1, <2>2
<1>21. CASE /\ setup /\ c.op \in {"Send", "Fetch"}
            /\ free /\ c.out \notin IndexesOf(sm) /\ keeps
  <2> HIDE DEF c
  <2>1. ASSUME NEW r, Ends(sm, t, c, r), Leads(kernel, kernel', t),
               \E items : Fills(kernel, kernel', sm.o, items)
        PROVE  StreamInv(sm)'
    <3>1. Rouses(kernel, kernel') /\ Keeps(To(Ahead(c, r)))
      BY <1>8, <1>21, <2>1 DEF Leads
    <3> QED
      BY <1>12, <1>21, <2>1, <3>1
  <2>2. CASE c.op = "Send"
    <3>1. /\ Leads(kernel, kernel', t)
          /\ \/ SameObjects(kernel, kernel') /\ UNCHANGED <<pc, mem, error>>
             \/ \E items, r : NewItems(kernel, kernel', c.o, items) /\ Done(d, t, c, r)
      BY <1>3, <1>4, <2>2, BufferSendStep
    <3> QED
      BY <1>11, <1>15, <1>20, <2>1, <3>1
  <2>3. CASE c.op = "Fetch"
    <3>1. /\ Leads(kernel, kernel', t)
          /\ \/ SameObjects(kernel, kernel') /\ UNCHANGED <<pc, mem, error>>
             \/ /\ SameObjects(kernel, kernel') \/ \E items : NewItems(kernel, kernel', c.o, items)
                /\ \E data, r : DoneOut(d, t, c, r, data)
      BY <1>3, <1>4, <2>3, BufferFetchStep
    <3>2. ASSUME NEW data, NEW r, DoneOut(d, t, c, r, data)
          PROVE  Ends(sm, t, c, r)
      <4> DEFINE m == IF c.out = "" THEN mem ELSE [mem EXCEPT ![c.out] = data]
      <4>1. DOMAIN m = DOMAIN mem /\ \A v \in DOMAIN mem : v # c.out => m[v] = mem[v]
        OBVIOUS
      <4>2. IndexesOf(sm) \subseteq DOMAIN mem
        BY DEF StreamInv, StreamState
      <4>3. DoneAt(d, pc, m, t, c, r)
        BY <3>2 DEF DoneOut
      <4> HIDE DEF m
      <4>4. \A v \in IndexesOf(sm) : m[v] = mem[v]
        BY <1>21, <4>1, <4>2
      <4> QED
        BY <4>1, <4>3, <4>4, DoneEnds DEF StreamInv
    <3> QED
      BY <1>11, <1>14, <1>20, <2>1, <3>1, <3>2
  <2> QED
    BY <1>21, <2>2, <2>3
<1>22. CASE /\ setup /\ c.op = "ResetBuffer" /\ c.o = sm.o
            /\ free /\ after \cap (sm.posted \cup sm.setup) = {}
  <2> HIDE DEF c
  <2>1. Alone(kernel, t) /\ next = expected /\ t = sm.sender
    BY <1>10, <1>22
  <2>2. PICK r : Done(d, t, c, r)
    BY <1>3, <1>4, <1>22, <2>1, BufferResetStep
  <2>3. Leads(kernel, kernel', t) /\ NewItems(kernel, kernel', sm.o, <<>>)
    BY <1>3, <1>4, <1>22, <2>1, BufferResetStep
  <2>4. /\ After(c, r, sm.next) = next /\ After(c, r, sm.expected) = expected
    BY <1>22 DEF After, IndexesOf
  <2>5. /\ Sender(r) \notin sm.posted /\ Sender(r) \notin sm.setup
        /\ Receiver(r) \notin sm.received /\ Lands(d, t, c, r, t) \in DOMAIN d.tasks[t].program
    <3>1. To(Ahead(c, r)) \in after /\ Lands(d, t, c, r, t) = To(Ahead(c, r))
      BY <1>8
    <3>2. Sender(r) = To(Ahead(c, r)) /\ Receiver(r) = pc[sm.receiver]
      BY <1>8, <2>1
    <3>3. pc[sm.receiver] = 1 /\ 1 \notin sm.received
      BY <1>4, <1>5, <2>1 DEF Alone, StreamInv, StreamState, StreamOutline
    <3> QED
      BY <1>2, <1>22, <3>1, <3>2, <3>3
  <2>6. InTransit(sm.string, SizeOf(sm), <<>>, next, 0, expected, 0)
    <3>1. /\ <<>> \in Seq(Int) /\ Len(<<>>) = 0 /\ 1 .. 0 = {} /\ 0 \in Nat /\ 0 <= SizeOf(sm)
          /\ next + 0 = next /\ (next + 0) + 0 = next
      BY <1>4, <1>5
    <3>2. 0 \in 0 .. L - next
      BY <1>5
    <3> QED
      BY <2>1, <3>1, <3>2 DEF InTransit, Carries
  <2>7. Claims(sm, Sender(r), Receiver(r), kernel', <<>>, next, After(c, r, sm.sent), expected,
               After(c, r, sm.got))
    BY <2>5, <2>6 DEF Claims, SentMore, GotMore
  <2>8. Rouses(kernel, kernel') /\ Fills(kernel, kernel', sm.o, <<>>) /\ Ends(sm, t, c, r)
    BY <1>13, <1>15, <2>2, <2>3 DEF Leads
  <2> QED
    BY <1>5, <1>7, <2>4, <2>5, <2>7, <2>8, StreamKept
\* A call that has no effect on the buffer.
<1>23. ASSUME NEW r, Ends(sm, t, c, r), keeps, Rouses(kernel, kernel'),
              setup => Leads(kernel, kernel', t), Fills(kernel, kernel', sm.o, b.items),
              free \/ (t = sm.sender /\ ~posted /\ c.into = sm.sent)
                   \/ (t = sm.receiver /\ ~received /\ c.into = sm.got)
       PROVE  StreamInv(sm)'
  <2> HIDE DEF c
  <2>1. Keeps(To(Ahead(c, r)))
    BY <1>8, <1>23
  <2> QED
    BY <1>12, <1>23, <2>1
<1>24. CASE /\ c.op \in BufferCalls
            /\ c.op \in LooksAt \/ c.o # sm.o
            /\ free /\ keeps
  <2> HIDE DEF c
  <2>1. /\ Leads(kernel, kernel', t) /\ \E r : Done(d, t, c, r)
        /\ DOMAIN kernel'.obj = DOMAIN kernel.obj /\ kernel'.obj[sm.o] = b
    BY <1>3, <1>4, <1>24, BufferStep
  <2>2. Rouses(kernel, kernel') /\ Fills(kernel, kernel', sm.o, b.items)
    BY <2>1 DEF Leads, Fills
  <2> QED
    BY <1>15, <1>23, <1>24, <2>1, <2>2
<1>25. CASE c.op \in {"Matches", "PrioritySet"} /\ free /\ keeps
  <2> HIDE DEF c
  <2>1. /\ Leads(kernel, kernel', t) /\ SameObjects(kernel, kernel')
        /\ UNCHANGED <<pc, mem>> \/ \E r : Done(d, t, c, r)
    <3>1. CASE c.op = "Matches"
      <4>1. DataCall(d, t, c)
        BY <1>3, <3>1, ActionOfStreamOp
      <4>2. kernel' = kernel /\ \E r : Done(d, t, c, r)
        BY <3>1, <4>1 DEF DataCall
      <4> QED
        BY <1>4, <4>2, SameLeads DEF SameObjects
    <3>2. CASE c.op = "PrioritySet"
      BY <1>3, <1>4, <3>2, TaskStep, PlainLeads DEF TaskCalls
    <3> QED
      BY <1>25, <3>1, <3>2
  <2> QED
    BY <1>11, <1>14, <1>15, <1>23, <1>25, <2>1 DEF Leads
<1>26. CASE c.op = "Elapsed" /\ c.o \notin IndexesOf(sm) /\ free /\ keeps
  <2> HIDE DEF c
  <2> DEFINE m == [mem EXCEPT ![c.o] = Unset]
  <2>1. ElapsedCall(d, t, c)
    BY <1>3, <1>26, ActionOfStreamOp
  <2>2. kernel' = kernel /\ \E r : DoneAt(d, pc, m, t, c, r)
    BY <2>1 DEF ElapsedCall
  <2>3. DOMAIN m = DOMAIN mem /\ \A v \in IndexesOf(sm) : m[v] = mem[v]
    BY <1>26 DEF StreamInv, StreamState
  <2> HIDE DEF m
  <2>4. \E r : Ends(sm, t, c, r)
    BY <2>2, <2>3, DoneEnds DEF StreamInv
  <2>5. Leads(kernel, kernel', t) /\ SameObjects(kernel, kernel')
    BY <1>4, <2>2, SameLeads DEF SameObjects
  <2> QED
    BY <1>14, <1>23, <1>26, <2>4, <2>5 DEF Leads
<1>27. CASE c.op = "Create" /\ c.o = {sm.receiver} /\ ~setup /\ free /\ keeps
  <2> HIDE DEF c
  <2> DEFINE p == [pc EXCEPT ![sm.receiver] = 1]
  <2>1. /\ Rouses(kernel, kernel') /\ SameObjects(kernel, kernel')
        /\ \/ \E r : Done(d, t, c, r)
           \/ Away(kernel, sm.receiver) /\ \E r : DoneAt(d, p, mem, t, c, r)
    BY <1>3, <1>4, <1>5, <1>27, CreateStep
  <2>2. ASSUME NEW r, Away(kernel, sm.receiver), DoneAt(d, p, mem, t, c, r)
        PROVE  Ends(sm, t, c, r)
    <3>1. pc[sm.receiver] = 1
      BY <1>5, <2>2 DEF StreamInv, StreamState
    <3>2. DOMAIN p = DOMAIN pc /\ \A u \in DOMAIN pc \ {t} : p[u] = pc[u]
      BY <3>1
    <3> HIDE DEF p
    <3> QED
      BY <2>2, <3>2, DoneEnds DEF StreamInv
  <2> HIDE DEF p
  <2> QED
    BY <1>14, <1>15, <1>23, <1>27, <2>1, <2>2
<1>28. CASE /\ c.op \in PlainCalls /\ keeps
            /\ \/ free
               \/ t = sm.sender /\ ~posted /\ c.into = sm.sent
               \/ t = sm.receiver /\ ~received /\ c.into = sm.got
  <2> HIDE DEF c
  <2>1. /\ Leads(kernel, kernel', t) /\ SameObjects(kernel, kernel')
        /\ UNCHANGED <<pc, mem, error>> \/ \E r : Done(d, t, c, r)
    BY <1>3, <1>4, <1>28, TaskStep, PlainLeads
  <2> QED
    BY <1>11, <1>14, <1>15, <1>23, <1>28, <2>1 DEF Leads
<1>29. LooksAt \subseteq BufferCalls /\ {"CreateBuffer", "ResetBuffer"} \subseteq BufferCalls
  BY DEF LooksAt, BufferCalls
<1> QED
  BY <1>1, <1>16, <1>17, <1>18, <1>19, <1>21, <1>22, <1>24, <1>25, <1>26, <1>27, <1>28, <1>29
     DEF StreamFits
-----------------------------------------------------------------------------
StreamsInv == \A sm \in Streams : D = sm.program => StreamInv(sm)

LEMMA StreamsInductive ==
    ASSUME StreamsFit
    PROVE  /\ Init => StreamsInv
           /\ StreamsInv /\ [Next]_vars => StreamsInv'
<1>1. Init => StreamsInv
  BY StreamInit DEF Init, StreamsInv, StreamsFit
<1>2. ASSUME StreamsInv, [Next]_vars
      PROVE  StreamsInv'
  <2> SUFFICES ASSUME NEW sm \in Streams, D' = sm.program
               PROVE  StreamInv(sm)'
    BY DEF StreamsInv
  <2>1. demo' = demo
    BY <1>2 DEF Next, vars, Elapse, Step, StepOf
  <2>2. D = sm.program
    BY <2>1 DEF D
  <2>3. StreamInv(sm) /\ StreamOutline(sm)
    BY <1>2, <2>2 DEF StreamsInv, StreamsFit
  <2>4. ASSUME NEW t \in Tasks, Step(D, t)
        PROVE  StreamInv(sm)'
    <3>1. kernel.task[t].run = "ready" /\ StepOf(D, t, CallOf(D, t))
      BY <2>4 DEF Step, Dispatchable, Eligible, ReadyTasks
    <3> QED
      BY <2>2, <2>3, <3>1, StreamStep DEF Tasks
  <2>5. CASE Elapse(D)
    <3>1. /\ Kernel(kernel) /\ "obj" \in DOMAIN kernel /\ sm.o \in DOMAIN kernel.obj
          /\ kernel.obj[sm.o].kind # "timer"
          /\ IndexesOf(sm) \subseteq DOMAIN mem \ sm.program.stamps
      BY <2>3 DEF StreamInv, StreamState, StreamOutline, IsStream, Kernel
    <3>2. /\ DOMAIN kernel'.obj = DOMAIN kernel.obj
          /\ kernel'.obj[sm.o] = kernel.obj[sm.o]
          /\ DOMAIN mem' = DOMAIN mem
          /\ \A v \in DOMAIN mem \ sm.program.stamps : mem'[v] = mem[v]
          /\ UNCHANGED pc
      BY <2>2, <2>5, <3>1, ElapseEffect
    <3>3. \A v \in IndexesOf(sm) : v \in DOMAIN mem' /\ mem'[v] = mem[v]
      BY <3>1, <3>2
    <3>4. Rouses(kernel, kernel') /\ (Alone(kernel, sm.sender) => Alone(kernel', sm.sender))
      BY <2>5, <3>1, ElapseRouses, ElapseAlone
    <3> QED
      BY <2>3, <3>2, <3>3, <3>4, StreamIdle
  <2>6. CASE UNCHANGED vars
    <3>1. UNCHANGED <<pc, kernel, mem>>
      BY <2>6 DEF vars
    <3>2. \A v \in IndexesOf(sm) : v \in DOMAIN mem' /\ mem'[v] = mem[v]
      BY <2>3, <3>1 DEF StreamInv, StreamState
    <3>3. Rouses(kernel, kernel')
      BY <2>3, <3>1, SameRouses DEF StreamInv, StreamState
    <3> QED
      BY <2>3, <3>1, <3>2, <3>3, StreamIdle
  <2> QED
    BY <1>2, <2>4, <2>5, <2>6 DEF Next
<1> QED
  BY <1>1, <1>2

\* StreamBufferDemo.c: whatever the length of the string, the size of the buffer, the priorities
\* of the two tasks and the time they wait, and whatever the sender has tried the buffer with
\* before it creates the receiver, no character is lost, doubled or overtaken.
THEOREM StreamsLoseNothing ==
    ASSUME StreamsFit
    PROVE  Spec => []NothingLost
<1>1. StreamsInv => NothingLost
  <2> SUFFICES ASSUME StreamsInv, NEW sm \in Streams, D = sm.program,
                      pc[sm.sender] \notin sm.setup, mem[sm.sent] = 0, mem[sm.got] = 0
               PROVE  LET items  == kernel.obj[sm.o].items
                          length == Len(sm.string)
                      IN  /\ mem[sm.next] = (mem[sm.expected] + Len(items)) % length
                          /\ \A i \in DOMAIN items :
                                items[i] = sm.string[((mem[sm.expected] + i - 1) % length) + 1]
    BY DEF NothingLost
  <2> DEFINE items == kernel.obj[sm.o].items
             L     == Len(sm.string)
             n     == mem[sm.next]
             e     == mem[sm.expected]
  <2>1. StreamState(sm) /\ StreamClaim(sm) /\ StreamOutline(sm)
    BY DEF StreamsFit, StreamsInv, StreamInv
  <2>2. /\ n \in 0 .. L - 1 /\ e \in 0 .. L - 1
        /\ sm.string \in Seq(Int) /\ sm.string # <<>> /\ L \in Nat \ {0}
    <3>1. sm.string \in Seq(Int) /\ sm.string # <<>>
      BY <2>1 DEF StreamOutline
    <3>2. L \in Nat \ {0}
      BY <3>1
    <3> QED
      BY <2>1, <3>1, <3>2 DEF StreamState, Indexes
  <2>3. InTransit(sm.string, SizeOf(sm), items, n, 0, e, 0)
    BY <2>1 DEF StreamClaim, Claims, SentMore, GotMore
  <2> HIDE DEF items, n, e
  <2>4. /\ items \in Seq(Int) /\ n + 0 = n /\ e + 0 = e
        /\ Carries(sm.string, e + 0, items, n + 0)
    BY <2>2, <2>3 DEF InTransit
  <2>5. /\ n % L = (e + Len(items)) % L
        /\ \A i \in 1 .. Len(items) : items[i] = sm.string[((e + i - 1) % L) + 1]
    BY <2>4 DEF Carries
  <2>6. n % L = n
    <3> HIDE DEF L
    <3> QED
      BY <2>2, ModSmall
  <2>7. DOMAIN items = 1 .. Len(items)
    BY <2>4
  <2> QED
    BY <2>5, <2>6, <2>7 DEF items, n, e
<1> QED
  BY <1>1, StreamsInductive, PTL DEF Spec
=============================================================================
