----------------------------- MODULE QueueLemmas -----------------------------
(***************************************************************************)
(* What the command queues of the tasks hold, as they are read and written.*)
(***************************************************************************)
EXTENDS Integers, Sequences, Functions, SequenceTheorems, TLAPS

(* The empty queue is a queue of anything.                                 *)
LEMMA EmptyQueue == ASSUME NEW S PROVE <<>> \in Seq(S)
OBVIOUS

(* A queue that is taken from, or put into.                                *)
LEMMA QueueSteps ==
  ASSUME NEW S, NEW q \in Seq(S)
  PROVE  /\ q # <<>> => Head(q) \in S /\ Tail(q) \in Seq(S)
         /\ \A x \in S : Append(q, x) \in Seq(S)
OBVIOUS

(* A queue holds its head and what its tail holds; a queue appended to     *)
(* holds what it held and the new element.                                 *)
LEMMA QueueElements ==
  ASSUME NEW S, NEW q \in Seq(S)
  PROVE  /\ q # <<>> => Range(q) = {Head(q)} \cup Range(Tail(q))
         /\ \A x \in S : Range(Append(q, x)) = Range(q) \cup {x}
<1>1. ASSUME q # <<>> PROVE Range(q) = {Head(q)} \cup Range(Tail(q))
  <2>1. /\ Len(q) \in Nat \ {0} /\ DOMAIN q = 1..Len(q)
        /\ DOMAIN Tail(q) = 1..(Len(q) - 1)
        /\ \A i \in 1..(Len(q) - 1) : Tail(q)[i] = q[i + 1]
        /\ Head(q) = q[1]
    BY <1>1, HeadTailProperties, LenProperties, EmptySeq
  <2>2. ASSUME NEW i \in 1..Len(q) PROVE q[i] \in {Head(q)} \cup Range(Tail(q))
    <3>1. i = 1 \/ (i - 1 \in 1..(Len(q) - 1) /\ Tail(q)[i - 1] = q[i])
      BY <2>1
    <3> QED
      BY <2>1, <3>1 DEF Range
  <2>3. ASSUME NEW i \in 1..(Len(q) - 1) PROVE Tail(q)[i] \in Range(q)
    <3>1. i + 1 \in 1..Len(q) /\ Tail(q)[i] = q[i + 1]
      BY <2>1
    <3> QED
      BY <2>1, <3>1 DEF Range
  <2>4. 1 \in DOMAIN q
    BY <2>1
  <2> QED
    BY <2>1, <2>2, <2>3, <2>4 DEF Range
<1>2. ASSUME NEW x \in S PROVE Range(Append(q, x)) = Range(q) \cup {x}
  <2>1. /\ Len(q) \in Nat /\ DOMAIN q = 1..Len(q)
        /\ DOMAIN Append(q, x) = 1..(Len(q) + 1)
        /\ \A i \in 1..Len(q) : Append(q, x)[i] = q[i]
        /\ Append(q, x)[Len(q) + 1] = x
    OBVIOUS
  <2>2. 1..(Len(q) + 1) = (1..Len(q)) \cup {Len(q) + 1}
    BY <2>1
  <2> QED
    BY <2>1, <2>2 DEF Range
<1> QED
  BY <1>1, <1>2

(* What a queue holds is of the kind it is a queue of.                     *)
LEMMA QueueKind == ASSUME NEW S, NEW q \in Seq(S) PROVE Range(q) \subseteq S
<1>1. DOMAIN q = 1..Len(q) /\ \A i \in 1..Len(q) : q[i] \in S
  OBVIOUS
<1> QED
  BY <1>1 DEF Range

(* Nothing is held by a queue that is empty.                               *)
LEMMA EmptyElements == Range(<<>>) = {}
BY DEF Range

(* A queue that holds nothing twice no longer holds what is taken from it, *)
(* and goes on to hold nothing twice when it is appended what it has not.  *)
LEMMA QueueApart ==
  ASSUME NEW S, NEW q \in Seq(S), IsInjective(q)
  PROVE  /\ q # <<>> => IsInjective(Tail(q)) /\ Head(q) \notin Range(Tail(q))
         /\ \A x \in S : x \notin Range(q) => IsInjective(Append(q, x))
<1> USE DEF IsInjective
<1>1. ASSUME q # <<>> PROVE IsInjective(Tail(q)) /\ Head(q) \notin Range(Tail(q))
  <2>1. /\ Len(q) \in Nat \ {0} /\ DOMAIN q = 1..Len(q)
        /\ DOMAIN Tail(q) = 1..(Len(q) - 1)
        /\ \A i \in 1..(Len(q) - 1) : Tail(q)[i] = q[i + 1]
        /\ Head(q) = q[1]
    BY <1>1, HeadTailProperties, LenProperties, EmptySeq
  <2>2. \A i \in 1..(Len(q) - 1) : i + 1 \in 1..Len(q) /\ i + 1 # 1
    BY <2>1
  <2>3. \A i, j \in 1..(Len(q) - 1) : Tail(q)[i] = Tail(q)[j] => i + 1 = j + 1
    BY <2>1, <2>2
  <2>4. \A i \in 1..(Len(q) - 1) : Tail(q)[i] # Head(q)
    <3>1. 1 \in DOMAIN q
      BY <2>1
    <3> QED
      BY <2>1, <2>2, <3>1
  <2> QED
    BY <2>1, <2>3, <2>4 DEF Range
<1>2. ASSUME NEW x \in S, x \notin Range(q) PROVE IsInjective(Append(q, x))
  <2>1. /\ Len(q) \in Nat /\ DOMAIN q = 1..Len(q)
        /\ DOMAIN Append(q, x) = 1..(Len(q) + 1)
        /\ \A i \in 1..Len(q) : Append(q, x)[i] = q[i] /\ q[i] # x
        /\ Append(q, x)[Len(q) + 1] = x
    BY <1>2 DEF Range
  <2>2. \A i \in 1..(Len(q) + 1) : i \in 1..Len(q) \/ i = Len(q) + 1
    BY <2>1
  <2> QED
    BY <2>1, <2>2
<1> QED
  BY <1>1, <1>2

(* Whatever a queue holds of D besides x is followed by an x.              *)
Trails(x, q, D) ==
  \A i \in 1..Len(q) : q[i] \in D /\ q[i] # x => \E j \in (i + 1)..Len(q) : q[j] = x

(* What is appended trails, and goes on to trail until another of D comes. *)
LEMMA TrailsAppended ==
  ASSUME NEW S, NEW q \in Seq(S), NEW y \in S, NEW D
  PROVE  /\ Trails(y, Append(q, y), D)
         /\ \A x : y \notin D /\ Trails(x, q, D) => Trails(x, Append(q, y), D)
<1>1. /\ Len(q) \in Nat /\ Len(Append(q, y)) = Len(q) + 1
      /\ \A i \in 1..Len(q) : Append(q, y)[i] = q[i]
      /\ Append(q, y)[Len(q) + 1] = y
  OBVIOUS
<1>2. \A i \in 1..(Len(q) + 1) : i = Len(q) + 1
                                 \/ (i \in 1..Len(q) /\ Len(q) + 1 \in (i + 1)..(Len(q) + 1))
  BY <1>1
<1>3. Trails(y, Append(q, y), D)
  BY <1>1, <1>2 DEF Trails
<1>4. ASSUME NEW x, y \notin D, Trails(x, q, D) PROVE Trails(x, Append(q, y), D)
  <2>1. SUFFICES ASSUME NEW i \in 1..Len(q), q[i] \in D, q[i] # x
                 PROVE  \E j \in (i + 1)..(Len(q) + 1) : Append(q, y)[j] = x
    BY <1>1, <1>2, <1>4 DEF Trails
  <2>2. PICK j \in (i + 1)..Len(q) : q[j] = x
    BY <1>4, <2>1 DEF Trails
  <2>3. j \in 1..Len(q) /\ j \in (i + 1)..(Len(q) + 1)
    BY <1>1, <2>2
  <2> QED
    BY <1>1, <2>2, <2>3
<1> QED
  BY <1>3, <1>4

(* What trails does so as the queue is read, and is still in it when       *)
(* something else of D is read.                                            *)
LEMMA TrailsTaken ==
  ASSUME NEW S, NEW q \in Seq(S), NEW x, NEW D, Trails(x, q, D), q # <<>>
  PROVE  /\ Trails(x, Tail(q), D)
         /\ Head(q) \in D => Head(q) = x \/ x \in Range(Tail(q))
<1>1. /\ Len(q) \in Nat \ {0} /\ Len(Tail(q)) = Len(q) - 1
      /\ DOMAIN Tail(q) = 1..(Len(q) - 1)
      /\ \A i \in 1..(Len(q) - 1) : Tail(q)[i] = q[i + 1]
      /\ Head(q) = q[1]
  BY HeadTailProperties, LenProperties, EmptySeq
<1>2. ASSUME NEW i \in 1..(Len(q) - 1), Tail(q)[i] \in D, Tail(q)[i] # x
      PROVE  \E j \in (i + 1)..(Len(q) - 1) : Tail(q)[j] = x
  <2>1. i + 1 \in 1..Len(q) /\ q[i + 1] = Tail(q)[i]
    BY <1>1
  <2>2. PICK j \in (i + 1 + 1)..Len(q) : q[j] = x
    BY <1>2, <2>1 DEF Trails
  <2>3. j - 1 \in (i + 1)..(Len(q) - 1) /\ j - 1 \in 1..(Len(q) - 1) /\ (j - 1) + 1 = j
    BY <1>1, <2>2
  <2> QED
    BY <1>1, <2>2, <2>3
<1>3. ASSUME Head(q) \in D, Head(q) # x PROVE x \in Range(Tail(q))
  <2>1. 1 \in 1..Len(q) /\ q[1] \in D /\ q[1] # x
    BY <1>1, <1>3
  <2>2. PICK j \in (1 + 1)..Len(q) : q[j] = x
    BY <2>1 DEF Trails
  <2>3. j - 1 \in 1..(Len(q) - 1) /\ (j - 1) + 1 = j
    BY <1>1, <2>2
  <2> QED
    BY <1>1, <2>2, <2>3 DEF Range
<1> QED
  BY <1>1, <1>2, <1>3 DEF Trails

(* Nothing of D is left in a queue where what trails it is not.            *)
LEMMA TrailsAbsent ==
  ASSUME NEW S, NEW q \in Seq(S), NEW x, NEW D, Trails(x, q, D), x \notin Range(q)
  PROVE  Range(q) \cap D = {}
<1>1. Len(q) \in Nat /\ DOMAIN q = 1..Len(q)
  OBVIOUS
<1>2. SUFFICES ASSUME NEW i \in 1..Len(q), q[i] \in D PROVE FALSE
  BY <1>1 DEF Range
<1>3. q[i] # x
  BY <1>1 DEF Range
<1>4. PICK j \in (i + 1)..Len(q) : q[j] = x
  BY <1>2, <1>3 DEF Trails
<1>5. j \in DOMAIN q
  BY <1>1, <1>4
<1> QED
  BY <1>4, <1>5 DEF Range
=============================================================================
