--------------------------- MODULE Framing_proofs ---------------------------
(***************************************************************************)
(* Theorems about Framing, with their proofs: for messages of any length   *)
(* and content, buffers, reads and chunks of any size, and any number of   *)
(* messages.                                                               *)
(*                                                                         *)
(* The argument follows a message byte by byte.  At any moment the session *)
(* has taken the beginning of the frame of the next message, what it has   *)
(* put into its buffers is the part of the message in it, packed without   *)
(* gaps, and what is on its way is the rest of that frame and the frames   *)
(* of the messages after it (Tracks).  Every byte keeps this true          *)
(* (FrameByte), hence every read does (ReadReceived); and a message that   *)
(* becomes ready is shown as the lengths say (SeenOld, SeenNew).           *)
(***************************************************************************)
EXTENDS Framing, SequenceTheorems, WellFoundedInduction, TLAPS

Data == Seq(Byte)

Wall == Seq(Data)       \* sequences of pieces of data

LEMMA Associative ==
    ASSUME NEW a \in Data, NEW b \in Data, NEW c \in Data
    PROVE  (a \o b) \o c = a \o (b \o c)
BY ConcatAssociative DEF Data

-----------------------------------------------------------------------------
(* Induction and recursion up to a number.  The induction theorems of the  *)
(* library take an operator; these take a set or a function.               *)

LEMMA Least ==
    ASSUME NEW S \in SUBSET Nat, S # {}
    PROVE  \E m \in S : \A k \in Nat : k < m => k \notin S
<1>1. \E m \in S : \A k \in Nat : <<k, m>> \in OpToRel(<, Nat) => k \notin S
  BY NatLessThanWellFounded, WFMin
<1> QED
  BY <1>1 DEF OpToRel

LEMMA UpTo ==
    ASSUME NEW n \in Nat, NEW S, 0 \in S, \A i \in 1..n : i - 1 \in S => i \in S
    PROVE  \A i \in 0..n : i \in S
<1> DEFINE Missing == {i \in 0..n : i \notin S}
<1>1. Missing \in SUBSET Nat
  OBVIOUS
<1>2. ASSUME Missing # {} PROVE FALSE
  <2> HIDE DEF Missing
  <2>1. PICK m \in Missing : \A k \in Nat : k < m => k \notin Missing
    BY <1>1, <1>2, Least
  <2>2. m \in 1..n /\ m - 1 \in Nat /\ m - 1 < m /\ m \notin S
    BY <2>1 DEF Missing
  <2>3. m - 1 \notin Missing
    BY <2>1, <2>2
  <2>4. m - 1 \in S
    BY <2>2, <2>3 DEF Missing
  <2> QED
    BY <2>2, <2>4
<1> QED
  BY <1>2

Iterates(n, a, f, r) ==
    /\ r[0] = a
    /\ \A i \in 1..n : r[i] = f[i][r[i - 1]]

LEMMA Recursion ==
    ASSUME NEW n \in Nat, NEW S, NEW a \in S, NEW f \in [1..n -> [S -> S]]
    PROVE  \E r \in [0..n -> S] : Iterates(n, a, f, r)
<1> DEFINE T == {k \in 0..n : \E r \in [0..k -> S] : Iterates(k, a, f, r)}
<1>1. 0 \in T
  <2>1. [i \in 0..0 |-> a] \in [0..0 -> S] /\ Iterates(0, a, f, [i \in 0..0 |-> a])
    BY DEF Iterates
  <2> QED
    BY <2>1
<1>2. ASSUME NEW k \in 1..n, k - 1 \in T PROVE k \in T
  <2>1. PICK r \in [0..(k - 1) -> S] : Iterates(k - 1, a, f, r)
    BY <1>2
  <2> DEFINE s == [i \in 0..k |-> IF i = k THEN f[k][r[k - 1]] ELSE r[i]]
  <2>2. r[k - 1] \in S /\ f[k] \in [S -> S]
    OBVIOUS
  <2>3. f[k][r[k - 1]] \in S
    BY <2>2
  <2>4. s \in [0..k -> S]
    BY <2>3
  <2>5. Iterates(k, a, f, s)
    BY <2>1 DEF Iterates
  <2> QED
    BY <2>4, <2>5
<1> HIDE DEF T
<1>3. \A i \in 0..n : i \in T
  BY <1>1, <1>2, UpTo
<1> QED
  BY <1>3 DEF T

Run(q, r) ==
    /\ r \in [0..Len(q) -> Data]
    /\ r[0] = <<>>
    /\ \A i \in 1..Len(q) : r[i] = r[i - 1] \o q[i]

LEMMA WallType ==
    ASSUME NEW q \in Wall
    PROVE  Len(q) \in Nat /\ \A i \in 1..Len(q) : q[i] \in Data
BY LenProperties, ElementOfSeq DEF Wall

LEMMA RunExists ==
    ASSUME NEW q \in Wall
    PROVE  \E r : Run(q, r)
<1> DEFINE f == [i \in 1..Len(q) |-> [d \in Data |-> d \o q[i]]]
<1>1. Len(q) \in Nat /\ \A i \in 1..Len(q) : q[i] \in Data
  BY WallType
<1>2. \A i \in 1..Len(q) : \A d \in Data : d \o q[i] \in Data
  BY <1>1, ConcatProperties DEF Data
<1>3. f \in [1..Len(q) -> [Data -> Data]]
  BY <1>2
<1>4. <<>> \in Data
  BY EmptySeq DEF Data
<1>5. \A i \in 1..Len(q) : \A d \in Data : f[i][d] = d \o q[i]
  OBVIOUS
<1> HIDE DEF f
<1>6. PICK r \in [0..Len(q) -> Data] : Iterates(Len(q), <<>>, f, r)
  BY <1>1, <1>3, <1>4, Recursion
<1>7. \A i \in 1..Len(q) : i - 1 \in 0..Len(q)
  BY <1>1
<1>8. \A i \in 1..Len(q) : r[i] = r[i - 1] \o q[i]
  BY <1>5, <1>6, <1>7 DEF Iterates
<1> QED
  BY <1>6, <1>8 DEF Run, Iterates

LEMMA FlattenBy ==
    ASSUME NEW q \in Wall, NEW r, Run(q, r)
    PROVE  FlattenSeq(q) = r[Len(q)]
<1>0. Len(q) \in Nat /\ \A i \in 1..Len(q) : q[i] \in Data
  BY WallType
<1>1. CASE Len(q) = 0
  <2>1. q = <<>>
    BY <1>1, EmptySeq DEF Wall
  <2> QED
    BY <1>1, <2>1 DEF FlattenSeq, Run
<1>2. CASE Len(q) # 0
  <2> DEFINE Def(f) == [i \in 1..Len(q) |->
                           IF i = 1 THEN q[i] ELSE f[i - 1] \o q[i]]
             flatten == CHOOSE f : f = Def(f)
             g == [i \in 1..Len(q) |-> r[i]]
  <2>1. FlattenSeq(q) = flatten[Len(q)]
    BY <1>2 DEF FlattenSeq
  <2>2. r[1] = q[1]
    <3>1. 1 \in 1..Len(q) /\ 1 - 1 = 0
      BY <1>0, <1>2
    <3>2. r[1] = <<>> \o q[1] /\ q[1] \in Data
      BY <1>0, <3>1 DEF Run
    <3> QED
      BY <3>2, ConcatEmptySeq DEF Data
  <2>3. g = Def(g)
    <3>1. ASSUME NEW i \in 1..Len(q) PROVE g[i] = Def(g)[i]
      <4>1. r[i] = r[i - 1] \o q[i]
        BY DEF Run
      <4>2. CASE i = 1
        BY <2>2, <4>2
      <4>3. CASE i # 1
        <5>1. i - 1 \in 1..Len(q)
          BY <1>0, <4>3
        <5> QED
          BY <4>1, <4>3, <5>1
      <4> QED
        BY <4>2, <4>3
    <3> QED
      BY <3>1
  <2>4. flatten = Def(flatten)
    <3> HIDE DEF g, Def
    <3> QED
      BY <2>3
  <2>5. \A i \in 1..Len(q) :
           flatten[i] = IF i = 1 THEN q[i] ELSE flatten[i - 1] \o q[i]
    <3> HIDE DEF flatten
    <3> QED
      BY <2>4
  <2> HIDE DEF flatten
  <2> DEFINE S == {i \in 0..Len(q) : i # 0 => flatten[i] = r[i]}
  <2>6. \A i \in 1..Len(q) : i - 1 \in S => i \in S
    <3> TAKE i \in 1..Len(q)
    <3>1. CASE i = 1
      BY <2>2, <2>5, <3>1
    <3>2. CASE i # 1
      <4>1. i - 1 \in S => flatten[i - 1] = r[i - 1]
        BY <1>0, <3>2
      <4>2. flatten[i] = flatten[i - 1] \o q[i] /\ r[i] = r[i - 1] \o q[i]
        BY <2>5, <3>2 DEF Run
      <4>3. i - 1 \in S => flatten[i] = r[i]
        BY <4>1, <4>2
      <4>4. i \in 0..Len(q)
        BY <1>0
      <4> QED
        BY <4>3, <4>4
    <3> QED
      BY <3>1, <3>2
  <2>7. 0 \in S
    BY <1>0
  <2> HIDE DEF S
  <2>8. Len(q) \in S
    <3>1. \A i \in 0..Len(q) : i \in S
      BY <1>0, <2>6, <2>7, UpTo
    <3> QED
      BY <1>0, <3>1
  <2> QED
    BY <1>2, <2>1, <2>8 DEF S
<1> QED
  BY <1>1, <1>2

LEMMA FlattenType ==
    ASSUME NEW q \in Wall
    PROVE  FlattenSeq(q) \in Data
<1>1. PICK r : Run(q, r)
  BY RunExists
<1>2. Len(q) \in 0..Len(q)
  BY WallType
<1> QED
  BY <1>1, <1>2, FlattenBy DEF Run

LEMMA FlattenNone == FlattenSeq(<<>>) = <<>>
BY DEF FlattenSeq

LEMMA FlattenAppend ==
    ASSUME NEW q \in Wall, NEW d \in Data
    PROVE  /\ Append(q, d) \in Wall
           /\ FlattenSeq(Append(q, d)) = FlattenSeq(q) \o d
<1>1. PICK r : Run(q, r)
  BY RunExists
<1>2. /\ Append(q, d) \in Wall /\ Len(q) \in Nat
      /\ Len(Append(q, d)) = Len(q) + 1
      /\ \A i \in 1..Len(q) : Append(q, d)[i] = q[i]
      /\ Append(q, d)[Len(q) + 1] = d
  BY AppendProperties, WallType DEF Wall
<1> DEFINE s == [i \in 0..(Len(q) + 1) |->
                    IF i = Len(q) + 1 THEN r[Len(q)] \o d ELSE r[i]]
           p == Append(q, d)
<1>3. r[Len(q)] \o d \in Data
  <2>1. r[Len(q)] \in Data
    BY <1>1, <1>2 DEF Run
  <2> QED
    BY <2>1, ConcatProperties DEF Data
<1>4. s \in [0..(Len(q) + 1) -> Data]
  <2>1. \A i \in 0..(Len(q) + 1) : i # Len(q) + 1 => r[i] \in Data
    BY <1>1, <1>2 DEF Run
  <2> QED
    BY <2>1, <1>3
<1>5. ASSUME NEW i \in 1..(Len(q) + 1) PROVE s[i] = s[i - 1] \o p[i]
  <2>0. i - 1 \in 0..(Len(q) + 1) /\ i \in 0..(Len(q) + 1) /\ i - 1 # Len(q) + 1
    BY <1>2
  <2>3. s[i - 1] = r[i - 1]
    BY <2>0
  <2>1. CASE i = Len(q) + 1
    <3>1. i - 1 = Len(q) /\ p[i] = d
      BY <1>2, <2>1
    <3>2. s[i] = r[Len(q)] \o d
      BY <2>0, <2>1
    <3> QED
      BY <2>3, <3>1, <3>2
  <2>2. CASE i # Len(q) + 1
    <3>1. i \in 1..Len(q) /\ p[i] = q[i]
      BY <1>2, <2>2
    <3>2. s[i] = r[i]
      BY <2>0, <2>2
    <3>3. r[i] = r[i - 1] \o q[i]
      BY <1>1, <3>1 DEF Run
    <3> QED
      BY <2>3, <3>1, <3>2, <3>3
  <2> QED
    BY <2>1, <2>2
<1>6. s[0] = <<>>
  BY <1>1, <1>2 DEF Run
<1>7. s[Len(q) + 1] = r[Len(q)] \o d
  BY <1>2
<1>8. p \in Wall /\ Len(p) = Len(q) + 1
  BY <1>2
<1> HIDE DEF s, p
<1>9. Run(p, s)
  BY <1>4, <1>5, <1>6, <1>8 DEF Run
<1>10. FlattenSeq(p) = s[Len(q) + 1]
  BY <1>8, <1>9, FlattenBy
<1>11. FlattenSeq(q) = r[Len(q)]
  BY <1>1, FlattenBy
<1> QED
  BY <1>7, <1>8, <1>10, <1>11 DEF p

LEMMA FlattenCons ==
    ASSUME NEW q \in Wall, NEW d \in Data
    PROVE  /\ <<d>> \o q \in Wall
           /\ FlattenSeq(<<d>> \o q) = d \o FlattenSeq(q)
<1>1. PICK r : Run(q, r)
  BY RunExists
<1> DEFINE p == <<d>> \o q
           s == [i \in 0..(Len(q) + 1) |-> IF i = 0 THEN <<>> ELSE d \o r[i - 1]]
<1>2. /\ p \in Wall /\ Len(q) \in Nat /\ Len(p) = Len(q) + 1
      /\ p[1] = d /\ \A i \in 2..Len(p) : p[i] = q[i - 1]
  <2>1. <<d>> \in Wall /\ Len(<<d>>) = 1 /\ <<d>>[1] = d /\ Len(q) \in Nat
    BY WallType DEF Wall
  <2>2. /\ p \in Wall /\ Len(p) = 1 + Len(q)
        /\ \A i \in 1..(1 + Len(q)) : p[i] = IF i <= 1 THEN <<d>>[i] ELSE q[i - 1]
    BY <2>1, ConcatProperties DEF Wall
  <2> HIDE DEF p
  <2> QED
    BY <2>1, <2>2
<1>3. \A i \in 1..Len(q) : q[i] \in Data
  BY WallType
<1> HIDE DEF p
<1>4. s \in [0..(Len(q) + 1) -> Data]
  <2>1. ASSUME NEW i \in 1..(Len(q) + 1) PROVE d \o r[i - 1] \in Data
    <3>1. r[i - 1] \in Data
      BY <1>1, <1>2 DEF Run
    <3> QED
      BY <3>1, ConcatProperties DEF Data
  <2>2. <<>> \in Data
    BY EmptySeq DEF Data
  <2> QED
    BY <1>2, <2>1, <2>2
<1>5. s[1] = s[0] \o p[1]
  <2>1. s[1] = d \o <<>> /\ s[0] = <<>>
    <3>1. 1 \in 0..(Len(q) + 1) /\ 0 \in 0..(Len(q) + 1) /\ 1 - 1 = 0
      BY <1>2
    <3>2. s[1] = d \o r[1 - 1] /\ s[0] = <<>>
      BY <3>1
    <3>3. r[0] = <<>>
      BY <1>1 DEF Run
    <3> QED
      BY <3>1, <3>2, <3>3
  <2>2. d \o <<>> = d /\ <<>> \o d = d
    BY ConcatEmptySeq DEF Data
  <2> QED
    BY <1>2, <2>1, <2>2
<1>6. ASSUME NEW i \in 2..(Len(q) + 1)
      PROVE  s[i] = s[i - 1] \o p[i]
  <2>0. i - 1 \in 1..Len(q) /\ (i - 1) - 1 = i - 2 /\ i - 2 \in 0..Len(q)
    BY <1>2
  <2>1. r[i - 1] = r[i - 2] \o q[i - 1]
    BY <1>1, <2>0 DEF Run
  <2>2. r[i - 2] \in Data
    BY <1>1, <2>0 DEF Run
  <2>3. q[i - 1] \in Data
    BY <1>3, <2>0
  <2>4. (d \o r[i - 2]) \o q[i - 1] = d \o (r[i - 2] \o q[i - 1])
    <3> DEFINE a == r[i - 2]
               b == q[i - 1]
    <3>1. a \in Data /\ b \in Data /\ d \in Data
      BY <2>2, <2>3
    <3> HIDE DEF a, b
    <3>2. (d \o a) \o b = d \o (a \o b)
      BY <3>1, Associative
    <3> QED
      BY <3>2 DEF a, b
  <2>5. s[i] = d \o r[i - 1]
    BY <1>2
  <2>6. s[i - 1] = d \o r[i - 2]
    <3>1. i - 1 \in 0..(Len(q) + 1) /\ i - 1 # 0
      BY <1>2
    <3>2. s[i - 1] = d \o r[(i - 1) - 1]
      BY <3>1
    <3> QED
      BY <2>0, <3>2
  <2>7. p[i] = q[i - 1]
    BY <1>2
  <2> QED
    BY <2>1, <2>4, <2>5, <2>6, <2>7
<1>7. s[0] = <<>> /\ s[Len(q) + 1] = d \o r[Len(q)]
  BY <1>2
<1> HIDE DEF s
<1>8. \A i \in 1..(Len(q) + 1) : s[i] = s[i - 1] \o p[i]
  <2> TAKE i \in 1..(Len(q) + 1)
  <2>1. CASE i = 1
    <3>1. i - 1 = 0
      BY <2>1
    <3> QED
      BY <1>5, <2>1, <3>1
  <2>2. CASE i # 1
    <3>1. i \in 2..(Len(q) + 1)
      BY <1>2, <2>2
    <3> QED
      BY <1>6, <3>1
  <2> QED
    BY <2>1, <2>2
<1>9. Run(p, s)
  BY <1>2, <1>4, <1>7, <1>8 DEF Run
<1>10. FlattenSeq(p) = s[Len(q) + 1]
  BY <1>2, <1>9, FlattenBy
<1>11. FlattenSeq(q) = r[Len(q)]
  BY <1>1, FlattenBy
<1> QED
  BY <1>2, <1>7, <1>10, <1>11 DEF p

-----------------------------------------------------------------------------
(* Sequences, by their first or their last element                         *)

LEMMA Joined ==
    ASSUME NEW a \in Data, NEW b \in Data
    PROVE  /\ a \o b \in Data /\ Len(a) \in Nat /\ Len(b) \in Nat
           /\ Len(a \o b) = Len(a) + Len(b)
           /\ \A i \in 1..Len(a) : (a \o b)[i] = a[i]
           /\ \A i \in 1..Len(b) : (a \o b)[Len(a) + i] = b[i]
<1>1. Len(a) \in Nat /\ Len(b) \in Nat
  BY LenProperties DEF Data
<1>2. /\ a \o b \in Data /\ Len(a \o b) = Len(a) + Len(b)
      /\ \A i \in 1..(Len(a) + Len(b)) :
            (a \o b)[i] = IF i <= Len(a) THEN a[i] ELSE b[i - Len(a)]
  BY ConcatProperties DEF Data
<1>3. \A i \in 1..Len(a) : (a \o b)[i] = a[i]
  BY <1>1, <1>2
<1>4. ASSUME NEW i \in 1..Len(b) PROVE (a \o b)[Len(a) + i] = b[i]
  <2>1. /\ Len(a) + i \in 1..(Len(a) + Len(b)) /\ ~(Len(a) + i <= Len(a))
        /\ (Len(a) + i) - Len(a) = i
    BY <1>1
  <2> QED
    BY <1>2, <2>1
<1> QED
  BY <1>1, <1>2, <1>3, <1>4

(* The bytes from one to another                                           *)
LEMMA Cut ==
    ASSUME NEW a \in Data, NEW i \in Nat \ {0}, NEW j \in Nat, i <= j + 1, j <= Len(a)
    PROVE  /\ SubSeq(a, i, j) \in Data
           /\ Len(SubSeq(a, i, j)) = j - i + 1
           /\ \A k \in 1..(j - i + 1) : SubSeq(a, i, j)[k] = a[i - 1 + k]
<1>1. \A k \in i..j : a[k] \in Byte
  BY ElementOfSeq, LenProperties DEF Data
<1>2. /\ SubSeq(a, i, j) \in Seq(Byte)
      /\ Len(SubSeq(a, i, j)) = IF i <= j THEN j - i + 1 ELSE 0
      /\ \A k \in 1..(j - i + 1) : SubSeq(a, i, j)[k] = a[i + k - 1]
  BY <1>1, SubSeqProperties
<1>3. \A k \in 1..(j - i + 1) : i + k - 1 = i - 1 + k
  OBVIOUS
<1>4. \A k \in 1..(j - i + 1) : SubSeq(a, i, j)[k] = a[i - 1 + k]
  BY <1>2, <1>3
<1>5. Len(SubSeq(a, i, j)) = j - i + 1
  BY <1>2
<1> QED
  BY <1>2, <1>4, <1>5 DEF Data

LEMMA Beginning ==
    ASSUME NEW a \in Data, NEW n \in Nat, n <= Len(a)
    PROVE  /\ SubSeq(a, 1, n) \in Data
           /\ Len(SubSeq(a, 1, n)) = n
           /\ \A k \in 1..n : SubSeq(a, 1, n)[k] = a[k]
<1>1. /\ SubSeq(a, 1, n) \in Data
      /\ Len(SubSeq(a, 1, n)) = n - 1 + 1
      /\ \A k \in 1..(n - 1 + 1) : SubSeq(a, 1, n)[k] = a[1 - 1 + k]
  BY Cut
<1>2. n - 1 + 1 = n /\ \A k \in 1..n : 1 - 1 + k = k
  OBVIOUS
<1> QED
  BY <1>1, <1>2

LEMMA Headed ==
    ASSUME NEW a \in Data, NEW b \in Data, a # <<>>
    PROVE  /\ a \o b # <<>> /\ a \o b \in Data
           /\ Head(a \o b) = a[1]
           /\ Tail(a \o b) = Tail(a) \o b
           /\ a[1] \in Byte /\ Tail(a) \in Data
<1>1. /\ Len(a) \in Nat /\ Len(b) \in Nat /\ Len(a) > 0
      /\ a \o b \in Data /\ Len(a \o b) = Len(a) + Len(b)
      /\ \A i \in 1..(Len(a) + Len(b)) :
            (a \o b)[i] = IF i <= Len(a) THEN a[i] ELSE b[i - Len(a)]
  BY EmptySeq, LenProperties, ConcatProperties DEF Data
<1>2. a \o b # <<>>
  BY <1>1
<1>3. /\ Tail(a) \in Data /\ Len(Tail(a)) = Len(a) - 1
      /\ \A i \in 1..Len(Tail(a)) : Tail(a)[i] = a[i + 1]
  BY HeadTailProperties DEF Data
<1>4. /\ Tail(a \o b) \in Data /\ Len(Tail(a \o b)) = Len(a) + Len(b) - 1
      /\ \A i \in 1..Len(Tail(a \o b)) : Tail(a \o b)[i] = (a \o b)[i + 1]
  BY <1>1, <1>2, HeadTailProperties DEF Data
<1>5. /\ Tail(a) \o b \in Data /\ Len(Tail(a) \o b) = Len(a) - 1 + Len(b)
      /\ \A i \in 1..(Len(a) - 1 + Len(b)) :
            (Tail(a) \o b)[i] = IF i <= Len(a) - 1 THEN Tail(a)[i]
                                ELSE b[i - (Len(a) - 1)]
  BY <1>1, <1>3, ConcatProperties DEF Data
<1> DEFINE x == Tail(a \o b)
           y == Tail(a) \o b
<1>6. ASSUME NEW i \in 1..Len(x) PROVE x[i] = y[i]
  <2>1. i \in 1..(Len(a) + Len(b) - 1) /\ i + 1 \in 1..(Len(a) + Len(b))
    BY <1>1, <1>4
  <2>2. x[i] = IF i + 1 <= Len(a) THEN a[i + 1] ELSE b[(i + 1) - Len(a)]
    BY <1>1, <1>4, <2>1
  <2>3. CASE i <= Len(a) - 1
    BY <1>1, <1>3, <1>5, <2>1, <2>2, <2>3
  <2>4. CASE ~(i <= Len(a) - 1)
    <3>1. x[i] = b[(i + 1) - Len(a)]
      BY <1>1, <2>1, <2>2, <2>4
    <3>2. y[i] = b[i - (Len(a) - 1)]
      BY <1>1, <1>5, <2>1, <2>4
    <3>3. (i + 1) - Len(a) = i - (Len(a) - 1)
      BY <1>1
    <3> QED
      BY <3>1, <3>2, <3>3
  <2> QED
    BY <2>3, <2>4
<1>7. x \in Seq(Byte) /\ y \in Seq(Byte) /\ Len(x) = Len(y)
  BY <1>1, <1>4, <1>5 DEF Data
<1> HIDE DEF x, y
<1>8. x = y
  BY <1>6, <1>7, SeqEqual
<1>9. Head(a \o b) = a[1]
  <2>1. Head(a \o b) = (a \o b)[1]
    OBVIOUS
  <2> QED
    BY <1>1, <2>1
<1>10. a[1] \in Byte
  BY <1>1, ElementOfSeq DEF Data
<1> QED
  BY <1>1, <1>2, <1>3, <1>8, <1>9, <1>10 DEF x, y

LEMMA FirstAndRest ==
    ASSUME NEW a \in Data, a # <<>>
    PROVE  /\ Head(a) \in Byte /\ Tail(a) \in Data /\ Len(Tail(a)) = Len(a) - 1
           /\ Len(a) \in Nat \ {0} /\ a[1] = Head(a)
           /\ a = <<Head(a)>> \o Tail(a)
<1>1. Head(a) \in Byte /\ Tail(a) \in Data /\ Len(Tail(a)) = Len(a) - 1
  BY HeadTailProperties DEF Data
<1>2. Len(a) \in Nat \ {0} /\ a[1] = Head(a)
  BY EmptySeq DEF Data
<1>3. SubSeq(a, 1, Len(a)) = <<a[1]>> \o SubSeq(a, 2, Len(a))
  BY <1>2, SubSeqRecursiveFirst DEF Data
<1>4. SubSeq(a, 1, Len(a)) = a /\ Tail(a) = SubSeq(a, 2, Len(a))
  BY SubSeqFull, TailIsSubSeq DEF Data
<1> QED
  BY <1>1, <1>2, <1>3, <1>4

(* A byte moves from what is left to what is done.                         *)
LEMMA Moved ==
    ASSUME NEW done \in Data, NEW d \in Data, d # <<>>, NEW b \in Data
    PROVE  /\ Append(done, Head(d)) \in Data
           /\ done \o (d \o b) = Append(done, Head(d)) \o (Tail(d) \o b)
<1> DEFINE h == <<Head(d)>>
           t == Tail(d)
<1>0. d = h \o t
  BY FirstAndRest
<1>1. h \in Data /\ t \in Data
  BY FirstAndRest DEF Data
<1>2. Append(done, Head(d)) = done \o h /\ Append(done, Head(d)) \in Data
  BY FirstAndRest, AppendIsConcat, AppendProperties DEF Data
<1> HIDE DEF h, t
<1>3. t \o b \in Data
  BY <1>1, Joined
<1>4. (h \o t) \o b = h \o (t \o b)
  BY <1>1, Associative
<1>5. (done \o h) \o (t \o b) = done \o (h \o (t \o b))
  <2> DEFINE u == t \o b
  <2>1. u \in Data /\ h \in Data
    BY <1>1, <1>3
  <2> HIDE DEF u
  <2>2. (done \o h) \o u = done \o (h \o u)
    BY <2>1, Associative, Zenon
  <2> QED
    BY <2>2 DEF u
<1> QED
  BY <1>0, <1>2, <1>4, <1>5 DEF t

LEMMA FrontLast ==
    ASSUME NEW q \in Wall, q # <<>>
    PROVE  /\ Front(q) \in Wall /\ Last(q) \in Data
           /\ Len(q) \in Nat \ {0} /\ Len(Front(q)) = Len(q) - 1
           /\ \A i \in 1..(Len(q) - 1) : Front(q)[i] = q[i]
           /\ q = Append(Front(q), Last(q))
           /\ FlattenSeq(Front(q)) \in Data
           /\ FlattenSeq(q) = FlattenSeq(Front(q)) \o Last(q)
<1>1. Len(q) \in Nat \ {0}
  BY EmptySeq DEF Wall
<1>2. Last(q) \in Data
  BY <1>1, ElementOfSeq DEF Last, Wall
<1>3. /\ Front(q) \in Wall /\ Len(Front(q)) = Len(q) - 1
      /\ \A i \in 1..(Len(q) - 1) : Front(q)[i] = q[i]
  <2>1. \A i \in 1..(Len(q) - 1) : q[i] \in Data
    BY <1>1, ElementOfSeq DEF Wall
  <2> DEFINE n == Len(q) - 1
  <2>2. n \in Nat
    BY <1>1
  <2> HIDE DEF n
  <2>3. /\ SubSeq(q, 1, n) \in Seq(Data)
        /\ Len(SubSeq(q, 1, n)) = IF 1 <= n THEN n - 1 + 1 ELSE 0
        /\ \A i \in 1..(n - 1 + 1) : SubSeq(q, 1, n)[i] = q[1 + i - 1]
    BY <2>1, <2>2, SubSeqProperties DEF n
  <2>4. \A i \in 1..n : i \in 1..(n - 1 + 1) /\ 1 + i - 1 = i
    BY <2>2
  <2>5. Len(SubSeq(q, 1, n)) = n
    BY <2>2, <2>3
  <2>6. \A i \in 1..n : SubSeq(q, 1, n)[i] = q[i]
    BY <2>3, <2>4
  <2> QED
    BY <2>3, <2>5, <2>6 DEF n, Front, Wall
<1>4. q = Append(Front(q), Last(q))
  <2> DEFINE p == Append(Front(q), Last(q))
             f == Front(q)
             l == Last(q)
  <2>1. /\ p \in Seq(Data) /\ Len(p) = Len(f) + 1
        /\ \A i \in 1..Len(f) : p[i] = f[i]
        /\ p[Len(f) + 1] = l
    BY <1>2, <1>3, AppendProperties DEF Wall
  <2>2. l = q[Len(q)]
    BY DEF Last
  <2> HIDE DEF p, f, l
  <2>3. Len(f) = Len(q) - 1 /\ \A i \in 1..(Len(q) - 1) : f[i] = q[i]
    BY <1>3 DEF f
  <2>4. Len(p) = Len(q)
    BY <1>1, <2>1, <2>3
  <2>5. \A i \in 1..Len(q) : q[i] = p[i]
    BY <1>1, <2>1, <2>2, <2>3
  <2>6. q = p
    BY <2>1, <2>4, <2>5, SeqEqual DEF Wall
  <2> QED
    BY <2>6 DEF p
<1>5. FlattenSeq(Front(q)) \in Data
  BY <1>3, FlattenType
<1>6. FlattenSeq(Append(Front(q), Last(q))) = FlattenSeq(Front(q)) \o Last(q)
  BY <1>2, <1>3, FlattenAppend
<1> QED
  BY <1>1, <1>2, <1>3, <1>4, <1>5, <1>6

LEMMA LastAppended ==
    ASSUME NEW q \in Wall, NEW d \in Data
    PROVE  /\ Append(q, d) \in Wall /\ Append(q, d) # <<>>
           /\ Len(Append(q, d)) = Len(q) + 1 /\ Len(q) \in Nat
           /\ Last(Append(q, d)) = d
           /\ \A i \in 1..Len(q) : Append(q, d)[i] = q[i]
           /\ Append(q, d)[Len(q) + 1] = d
<1>1. /\ Append(q, d) \in Wall /\ Append(q, d) # <<>>
      /\ Len(Append(q, d)) = Len(q) + 1 /\ Len(q) \in Nat
      /\ \A i \in 1..Len(q) : Append(q, d)[i] = q[i]
      /\ Append(q, d)[Len(q) + 1] = d
  BY AppendProperties, LenProperties DEF Wall
<1> QED
  BY <1>1 DEF Last

-----------------------------------------------------------------------------
(* Buffers                                                                 *)

LEMMA Sizes ==
    /\ BuffSize \in Nat /\ BuffSize > 6
    /\ Len(NC_SSH_END) = 6 /\ Len(NC_SSH_END_CHUNKS) = 4
    /\ MaxStartChunk \in Nat /\ MaxStartChunk >= 6
    /\ NC_SSH_END \in Data /\ NC_SSH_END_CHUNKS \in Data
    /\ \A d \in ToSet(Digits) : d \in Byte
<1>1. Len(NC_SSH_END) = 6 /\ Len(NC_SSH_END_CHUNKS) = 4
  BY DEF NC_SSH_END, NC_SSH_END_CHUNKS
<1>2. "]" \in Byte /\ ">" \in Byte /\ "LF" \in Byte /\ "#" \in Byte
  BY DEF Byte
<1>3. NC_SSH_END \in Data /\ NC_SSH_END_CHUNKS \in Data
  BY <1>2 DEF NC_SSH_END, NC_SSH_END_CHUNKS, Data
<1> QED
  BY <1>1, <1>3, SizeAssumption DEF Byte

Packed(q, data) ==
    /\ q \in Wall
    /\ FlattenSeq(q) = data
    /\ q # <<>> => /\ Len(Last(q)) <= BuffSize
                   /\ Len(data) = BuffSize * (Len(q) - 1) + Len(Last(q))

LEMMA RoomFound ==
    ASSUME NEW q, NEW data, Packed(q, data)
    PROVE  /\ Packed(Room(q), data)
           /\ Room(q) # <<>>
           /\ Len(Last(Room(q))) < BuffSize
<1>1. q \in Wall /\ <<>> \in Data /\ Len(<<>>) = 0 /\ Len(q) \in Nat
  BY EmptySeq, WallType DEF Packed, Data
<1>2. CASE q = <<>> \/ Len(Last(q)) = BuffSize
  <2> DEFINE p == Append(q, <<>>)
  <2>1. /\ p \in Wall /\ p # <<>> /\ Len(p) = Len(q) + 1 /\ Last(p) = <<>>
    BY <1>1, LastAppended
  <2>2. FlattenSeq(p) = data /\ FlattenSeq(q) = data
    <3>1. FlattenSeq(p) = FlattenSeq(q) \o <<>> /\ FlattenSeq(q) \in Data
      BY <1>1, FlattenAppend, FlattenType
    <3>2. FlattenSeq(q) \o <<>> = FlattenSeq(q)
      BY <3>1, ConcatEmptySeq DEF Data
    <3> QED
      BY <3>1, <3>2 DEF Packed
  <2>3. Len(data) = BuffSize * Len(q)
    <3>1. CASE q = <<>>
      BY <2>2, <3>1, FlattenNone, Sizes, <1>1
    <3>2. CASE q # <<>>
      <4>1. Len(data) = BuffSize * (Len(q) - 1) + BuffSize
        BY <1>2, <3>2 DEF Packed
      <4> QED
        BY <1>1, <4>1, Sizes
    <3> QED
      BY <3>1, <3>2
  <2>4. Room(q) = p
    BY <1>2 DEF Room
  <2> HIDE DEF p
  <2>5. Len(data) = BuffSize * (Len(p) - 1) + Len(Last(p))
    <3>1. Len(p) - 1 = Len(q) /\ Len(Last(p)) = 0
      BY <1>1, <2>1
    <3>2. BuffSize * (Len(p) - 1) = BuffSize * Len(q)
      BY <3>1
    <3>3. BuffSize * Len(q) \in Int
      BY <1>1, Sizes
    <3> QED
      BY <2>3, <3>1, <3>2, <3>3
  <2>6. Len(Last(p)) < BuffSize /\ Len(Last(p)) <= BuffSize /\ p # <<>> /\ p \in Wall
    BY <1>1, <2>1, Sizes
  <2> QED
    BY <2>2, <2>4, <2>5, <2>6 DEF Packed
<1>3. CASE q # <<>> /\ Len(Last(q)) # BuffSize
  <2>1. Last(q) \in Data
    BY <1>1, <1>3, FrontLast
  <2>2. Len(Last(q)) \in Nat
    BY <2>1 DEF Data
  <2>3. Room(q) = q
    BY <1>3 DEF Room
  <2>4. Len(Last(q)) <= BuffSize
    BY <1>3 DEF Packed
  <2>5. Len(Last(q)) < BuffSize
    BY <1>3, <2>2, <2>4, Sizes
  <2> QED
    BY <1>3, <2>3, <2>5
<1> QED
  BY <1>2, <1>3

LEMMA ByteStored ==
    ASSUME NEW q, NEW data, Packed(q, data), q # <<>>, Len(Last(q)) < BuffSize,
           NEW ch \in Byte
    PROVE  /\ Packed(Stored(q, ch), Append(data, ch))
           /\ Stored(q, ch) # <<>>
           /\ Len(Last(Stored(q, ch))) > 0
<1>1. /\ q \in Wall /\ Front(q) \in Wall /\ Last(q) \in Data
      /\ Len(q) \in Nat \ {0} /\ Len(Front(q)) = Len(q) - 1
      /\ FlattenSeq(Front(q)) \in Data
      /\ FlattenSeq(q) = FlattenSeq(Front(q)) \o Last(q)
  BY FrontLast DEF Packed
<1> DEFINE l == Last(q)
           a == FlattenSeq(Front(q))
           k == Append(l, ch)
           p == Append(Front(q), k)
<1>2. k \in Data /\ Len(k) = Len(l) + 1 /\ Len(l) \in Nat /\ k = l \o <<ch>>
  BY <1>1, AppendProperties, AppendIsConcat, LenProperties DEF Data
<1>3. /\ p \in Wall /\ p # <<>> /\ Len(p) = Len(q) /\ Last(p) = k
  <2>1. /\ p \in Wall /\ p # <<>> /\ Len(p) = Len(Front(q)) + 1 /\ Last(p) = k
    BY <1>1, <1>2, LastAppended
  <2> QED
    BY <1>1, <2>1
<1>4. FlattenSeq(p) = a \o k
  BY <1>1, <1>2, FlattenAppend
<1>5. data = a \o l /\ data \in Data
  BY <1>1, FlattenType DEF Packed
<1>6. Append(data, ch) = data \o <<ch>> /\ Len(Append(data, ch)) = Len(data) + 1
  BY <1>5, AppendIsConcat, AppendProperties DEF Data
<1>7. <<ch>> \in Data /\ a \in Data /\ l \in Data
  BY <1>1 DEF Data
<1>8. Stored(q, ch) = p
  BY DEF Stored
<1>9. Len(data) = BuffSize * (Len(q) - 1) + Len(l) /\ Len(l) < BuffSize
  BY DEF Packed
<1> HIDE DEF a, l, k, p
<1>10. (a \o l) \o <<ch>> = a \o (l \o <<ch>>)
  BY <1>7, Associative
<1>11. FlattenSeq(p) = Append(data, ch)
  BY <1>2, <1>4, <1>5, <1>6, <1>10
<1>12. Len(Append(data, ch)) = BuffSize * (Len(p) - 1) + Len(Last(p))
  <2> DEFINE x == BuffSize * (Len(q) - 1)
  <2>1. x \in Int
    BY <1>1, Sizes
  <2>2. Len(data) = x + Len(l) /\ BuffSize * (Len(p) - 1) = x
    BY <1>3, <1>9
  <2> HIDE DEF x
  <2> QED
    BY <1>2, <1>3, <1>6, <2>1, <2>2
<1>13. Len(Last(p)) <= BuffSize
  BY <1>2, <1>3, <1>9, Sizes
<1>14. Len(Last(p)) > 0
  BY <1>2, <1>3
<1> QED
  BY <1>3, <1>8, <1>11, <1>12, <1>13, <1>14 DEF Packed

LEMMA Remainder ==
    ASSUME NEW B \in Nat, B > 0, NEW a \in Nat, NEW r \in Nat, r < B
    PROVE  (B * a + r) % B = r
<1> DEFINE n == B * a + r
<1>1. n \in Nat
  <2>1. B * a \in Nat
    OBVIOUS
  <2> QED
    BY <2>1
<1>2. n % B \in 0..(B - 1)
  <2> HIDE DEF n
  <2> QED
    BY <1>1
<1>3. n = B * (n \div B) + (n % B) /\ n \div B \in Int
  <2> HIDE DEF n
  <2> QED
    BY <1>1, Z3
<1> DEFINE e == n \div B
           s == n % B
<1>4. B * a + r = B * e + s /\ e \in Int /\ s \in 0..(B - 1)
  BY <1>2, <1>3
<1> HIDE DEF e, s
<1>5. B * (a - e) = s - r /\ B * (e - a) = r - s
  BY <1>4
<1>6. \A x \in Int : x >= 1 => B * x >= B
  OBVIOUS
<1>7. ~(a - e >= 1)
  <2>1. a - e >= 1 => B * (a - e) >= B
    BY <1>4, <1>6
  <2> QED
    BY <1>4, <1>5, <2>1
<1>8. ~(e - a >= 1)
  <2>1. e - a >= 1 => B * (e - a) >= B
    BY <1>4, <1>6
  <2> QED
    BY <1>4, <1>5, <2>1
<1>9. a = e
  BY <1>4, <1>7, <1>8
<1>10. s = r
  BY <1>4, <1>5, <1>9
<1> QED
  BY <1>10 DEF s

-----------------------------------------------------------------------------
(* What the reader sees of a message m that was received whole, in the old *)
(* framing or the new one                                                  *)

Edge(protocol, n) ==
    IF protocol = "1.0" THEN (n + 6) % BuffSize \in 1..6 ELSE n % BuffSize = 0

Shown(m, protocol, d) ==
    IF Edge(protocol, Len(m))
    THEN \E t \in Seq(Byte \cup {Garbage}) : t # <<>> /\ d = m \o t
    ELSE d = m

LEMMA SeenAll ==
    ASSUME NEW q, NEW data, Packed(q, data), q # <<>>, NEW n \in Int,
           n <= Len(Last(q))
    PROVE  /\ data \in Data
           /\ n > 0 => Seen([buffQ |-> q, bufflen |-> n])
                          = SubSeq(data, 1, Len(data) - Len(Last(q)) + n)
           /\ ~(n > 0) => Seen([buffQ |-> q, bufflen |-> n]) = Append(data, Garbage)
<1> DEFINE l == Last(q)
           a == FlattenSeq(Front(q))
<1>1. l \in Data /\ a \in Data /\ data = a \o l
  BY FrontLast DEF Packed
<1>2. Seen([buffQ |-> q, bufflen |-> n])
         = IF n > 0 THEN a \o SubSeq(l, 1, n) ELSE Append(a \o l, Garbage)
  BY DEF Seen
<1>3. n <= Len(l)
  OBVIOUS
<1> HIDE DEF l, a
<1>4. /\ a \o l \in Data /\ Len(a) \in Nat /\ Len(l) \in Nat
      /\ Len(a \o l) = Len(a) + Len(l)
      /\ \A i \in 1..Len(a) : (a \o l)[i] = a[i]
      /\ \A i \in 1..Len(l) : (a \o l)[Len(a) + i] = l[i]
  BY <1>1, Joined
<1>5. CASE n > 0
  <2> DEFINE b == SubSeq(l, 1, n)
             x == a \o b
             y == SubSeq(data, 1, Len(a) + n)
  <2>1. b \in Data /\ Len(b) = n /\ \A k \in 1..n : b[k] = l[k]
    <3>1. n \in Nat
      BY <1>5
    <3> QED
      BY <1>1, <1>3, <3>1, Beginning
  <2> HIDE DEF b
  <2>2. /\ x \in Data /\ Len(x) = Len(a) + n
        /\ \A i \in 1..Len(a) : x[i] = a[i]
        /\ \A i \in 1..n : x[Len(a) + i] = b[i]
    <3>1. /\ x \in Data /\ Len(x) = Len(a) + Len(b)
          /\ \A i \in 1..Len(a) : x[i] = a[i]
          /\ \A i \in 1..Len(b) : x[Len(a) + i] = b[i]
      BY <1>1, <2>1, Joined
    <3> HIDE DEF x
    <3> QED
      BY <2>1, <3>1
  <2>3. /\ y \in Data /\ Len(y) = Len(a) + n
        /\ \A i \in 1..(Len(a) + n) : y[i] = data[i]
    <3> DEFINE k == Len(a) + n
    <3>1. k \in Nat /\ 1 <= k /\ k <= Len(data) /\ data \in Data
      BY <1>1, <1>3, <1>4, <1>5
    <3> HIDE DEF k
    <3>2. /\ SubSeq(data, 1, k) \in Data
          /\ Len(SubSeq(data, 1, k)) = k
          /\ \A i \in 1..k : SubSeq(data, 1, k)[i] = data[i]
      BY <3>1, Beginning
    <3> QED
      BY <3>2 DEF k
  <2> HIDE DEF x, y
  <2>4. ASSUME NEW i \in 1..(Len(a) + n) PROVE x[i] = y[i]
    <3>1. CASE i <= Len(a)
      BY <1>1, <1>4, <2>2, <2>3, <3>1
    <3>2. CASE ~(i <= Len(a))
      <4> DEFINE j == i - Len(a)
      <4>1. j \in 1..n /\ j \in 1..Len(l) /\ i = Len(a) + j
        BY <1>3, <1>4, <3>2
      <4> HIDE DEF j
      <4>2. x[i] = l[j]
        BY <2>1, <2>2, <4>1
      <4>3. data[i] = l[j]
        BY <1>1, <1>4, <4>1
      <4> QED
        BY <2>3, <4>2, <4>3
    <3> QED
      BY <3>1, <3>2
  <2>5. Len(x) = Len(y) /\ \A i \in 1..Len(x) : x[i] = y[i]
    BY <2>2, <2>3, <2>4
  <2>6. x = y
    BY <2>2, <2>3, <2>5, SeqEqual DEF Data
  <2>7. Len(data) - Len(l) + n = Len(a) + n
    BY <1>1, <1>4
  <2>8. Seen([buffQ |-> q, bufflen |-> n]) = SubSeq(data, 1, Len(data) - Len(l) + n)
    <3>1. Seen([buffQ |-> q, bufflen |-> n]) = x
      BY <1>2, <1>5 DEF x, b
    <3> QED
      BY <2>6, <2>7, <3>1 DEF y
  <2> QED
    BY <1>1, <1>4, <1>5, <2>8 DEF l
<1>6. CASE ~(n > 0)
  BY <1>1, <1>2, <1>4, <1>6
<1> QED
  BY <1>5, <1>6

(* The old framing stores the end mark and cuts it off.                    *)
LEMMA SeenOld ==
    ASSUME NEW m \in Data, NEW q, Packed(q, m \o NC_SSH_END), q # <<>>,
           Len(Last(q)) > 0
    PROVE  Shown(m, "1.0", Seen([buffQ |-> q, bufflen |-> Len(Last(q)) - 6]))
<1> DEFINE w == m \o NC_SSH_END
           l == Len(Last(q))
           k == Len(q) - 1
           n == l - 6
           d == Seen([buffQ |-> q, bufflen |-> n])
<1>1. w \in Data /\ Len(w) = Len(m) + 6 /\ Len(m) \in Nat
  <2>1. /\ w \in Data /\ Len(w) = Len(m) + Len(NC_SSH_END) /\ Len(m) \in Nat
    BY Sizes, Joined
  <2> QED
    BY <2>1, Sizes
<1>2. l \in Nat /\ l > 0 /\ l <= BuffSize /\ k \in Nat
  <2>1. Last(q) \in Data /\ Len(q) \in Nat \ {0}
    BY FrontLast DEF Packed
  <2>2. Len(Last(q)) \in Nat
    BY <2>1, LenProperties DEF Data
  <2> QED
    BY <2>1, <2>2 DEF Packed
<1>3. Len(w) = BuffSize * k + l
  BY DEF Packed
<1>4. /\ n > 0 => d = SubSeq(w, 1, Len(w) - l + n)
      /\ ~(n > 0) => d = Append(w, Garbage)
  <2>1. n \in Int /\ n <= l
    BY <1>2
  <2>2. Packed(q, w)
    OBVIOUS
  <2> HIDE DEF n, w
  <2> QED
    BY <2>1, <2>2, SeenAll
<1>0. n = l - 6 /\ n \in Int
  BY <1>2
<1> SUFFICES Shown(m, "1.0", d)
  OBVIOUS
<1> HIDE DEF w, l, k, n, d
<1>5. Edge("1.0", Len(m)) <=> l <= 6
  <2>1. Len(m) + 6 = BuffSize * k + l
    BY <1>1, <1>3
  <2>2. CASE l < BuffSize
    <3>1. (BuffSize * k + l) % BuffSize = l
      BY <1>2, <2>2, Sizes, Remainder
    <3>2. (Len(m) + 6) % BuffSize = l
      BY <2>1, <3>1
    <3> QED
      BY <1>2, <3>2 DEF Edge
  <2>3. CASE l = BuffSize
    <3>1. (BuffSize * (k + 1) + 0) % BuffSize = 0
      BY <1>2, Sizes, Remainder
    <3>2. BuffSize * k + l = BuffSize * (k + 1) + 0
      BY <1>2, <2>3, Sizes
    <3>3. (Len(m) + 6) % BuffSize = 0
      BY <2>1, <3>1, <3>2
    <3>4. ~Edge("1.0", Len(m))
      BY <3>3 DEF Edge
    <3> QED
      BY <2>3, <3>4, Sizes
  <2>4. l < BuffSize \/ l = BuffSize
    BY <1>2, Sizes
  <2> QED
    BY <2>2, <2>3, <2>4
<1>6. CASE l > 6
  <2>1. Len(w) - l + n = Len(m) /\ n > 0
    BY <1>0, <1>1, <1>2, <1>6
  <2>2. d = SubSeq(w, 1, Len(m))
    BY <1>4, <2>1
  <2>3. SubSeq(w, 1, Len(m)) = m
    <3>1. CASE m = <<>>
      <4>1. Len(m) = 0
        BY <3>1
      <4> QED
        BY <3>1, <4>1, SubSeqEmpty
    <3>2. CASE m # <<>>
      <4>1. 1 \in 1..Len(m) /\ Len(m) \in 1..Len(m)
        BY <1>1, <3>2, EmptySeq DEF Data
      <4>2. SubSeq(m \o NC_SSH_END, 1, Len(m)) = SubSeq(m, 1, Len(m))
        BY <4>1, Sizes, SubSeqOfConcat1 DEF Data
      <4> QED
        BY <4>2, SubSeqFull DEF w, Data
    <3> QED
      BY <3>1, <3>2
  <2>4. ~Edge("1.0", Len(m))
    BY <1>2, <1>5, <1>6
  <2> QED
    BY <2>2, <2>3, <2>4 DEF Shown
<1>7. CASE ~(l > 6)
  <2> DEFINE T == Byte \cup {Garbage}
             t == NC_SSH_END \o <<Garbage>>
  <2>1. d = Append(w, Garbage)
    BY <1>0, <1>2, <1>4, <1>7
  <2>2. m \in Seq(T) /\ NC_SSH_END \in Seq(T) /\ <<Garbage>> \in Seq(T) /\ w \in Seq(T)
    <3>1. Byte \subseteq T /\ Garbage \in T
      OBVIOUS
    <3> HIDE DEF T
    <3> QED
      BY <1>1, <3>1, Sizes, SeqMonotonic DEF Data
  <2>3. Append(w, Garbage) = w \o <<Garbage>>
    <3>1. Garbage \in T
      OBVIOUS
    <3> HIDE DEF T
    <3> QED
      BY <2>2, <3>1, AppendIsConcat
  <2> HIDE DEF T
  <2>4. (m \o NC_SSH_END) \o <<Garbage>> = m \o t
    <3> DEFINE a == NC_SSH_END
               b == <<Garbage>>
    <3>1. m \in Seq(T) /\ a \in Seq(T) /\ b \in Seq(T)
      BY <2>2
    <3> HIDE DEF a, b
    <3>2. (m \o a) \o b = m \o (a \o b)
      BY <3>1, ConcatAssociative
    <3> QED
      BY <3>2 DEF a, b
  <2>5. t \in Seq(T) /\ Len(t) = 7
    <3>1. t \in Seq(T) /\ Len(t) = Len(NC_SSH_END) + Len(<<Garbage>>)
      BY <2>2, ConcatProperties
    <3> QED
      BY <3>1, Sizes
  <2>6. t # <<>>
    BY <2>5
  <2>7. d = m \o t
    BY <2>1, <2>3, <2>4 DEF w
  <2> HIDE DEF t
  <2>8. \E u \in Seq(Byte \cup {Garbage}) : u # <<>> /\ d = m \o u
    BY <2>5, <2>6, <2>7 DEF T
  <2>9. Edge("1.0", Len(m))
    BY <1>2, <1>5, <1>7
  <2> QED
    BY <2>8, <2>9 DEF Shown
<1> QED
  BY <1>6, <1>7

(* The new framing does not; its last buffer may be without data.          *)
LEMMA SeenNew ==
    ASSUME NEW m \in Data, NEW q, Packed(q, m), q # <<>>, Len(Last(q)) < BuffSize
    PROVE  Shown(m, "1.1", Seen([buffQ |-> q, bufflen |-> Len(Last(q))]))
<1> DEFINE l == Len(Last(q))
           k == Len(q) - 1
           d == Seen([buffQ |-> q, bufflen |-> l])
<1>1. Len(m) \in Nat
  BY LenProperties DEF Data
<1>2. l \in Nat /\ l < BuffSize /\ k \in Nat
  <2>1. Last(q) \in Data /\ Len(q) \in Nat \ {0}
    BY FrontLast DEF Packed
  <2>2. Len(Last(q)) \in Nat
    BY <2>1, LenProperties DEF Data
  <2> QED
    BY <2>1, <2>2
<1>3. Len(m) = BuffSize * k + l
  BY DEF Packed
<1>4. /\ l > 0 => d = SubSeq(m, 1, Len(m) - l + l)
      /\ ~(l > 0) => d = Append(m, Garbage)
  BY <1>2, SeenAll
<1> SUFFICES Shown(m, "1.1", d)
  OBVIOUS
<1> HIDE DEF l, k, d
<1>5. Edge("1.1", Len(m)) <=> l = 0
  <2>1. (BuffSize * k + l) % BuffSize = l
    BY <1>2, Sizes, Remainder
  <2> QED
    BY <1>3, <2>1 DEF Edge
<1>6. CASE l > 0
  <2>1. Len(m) - l + l = Len(m)
    BY <1>1, <1>2
  <2>2. d = SubSeq(m, 1, Len(m))
    BY <1>4, <1>6, <2>1
  <2>3. SubSeq(m, 1, Len(m)) = m
    BY SubSeqFull DEF Data
  <2>4. ~Edge("1.1", Len(m))
    BY <1>2, <1>5, <1>6
  <2> QED
    BY <2>2, <2>3, <2>4 DEF Shown
<1>7. CASE ~(l > 0)
  <2> DEFINE T == Byte \cup {Garbage}
             t == <<Garbage>>
  <2>1. d = Append(m, Garbage)
    BY <1>4, <1>7
  <2>2. m \in Seq(T) /\ Garbage \in T
    <3>1. Byte \subseteq T /\ Garbage \in T
      OBVIOUS
    <3> HIDE DEF T
    <3> QED
      BY <3>1, SeqMonotonic DEF Data
  <2> HIDE DEF T
  <2>3. Append(m, Garbage) = m \o t
    BY <2>2, AppendIsConcat
  <2>4. t \in Seq(T) /\ t # <<>>
    BY <2>2
  <2> HIDE DEF t
  <2>5. \E u \in Seq(Byte \cup {Garbage}) : u # <<>> /\ d = m \o u
    BY <2>1, <2>3, <2>4 DEF T
  <2> QED
    BY <1>2, <1>5, <1>7, <2>5 DEF Shown
<1> QED
  BY <1>2, <1>6, <1>7

-----------------------------------------------------------------------------
(* Numbers and their digits                                                *)

Digit == ToSet(Digits)

LEMMA DigitFacts ==
    /\ \A d \in Digit : /\ d \in Byte /\ d # "LF" /\ d # "#"
                        /\ DigitValue(d) \in Nat /\ IsDigit(d)
                        /\ d # "0" => IsDigit1(d)
    /\ \A i \in 0..9 : /\ Digits[i + 1] \in Digit
                       /\ DigitValue(Digits[i + 1]) = i
                       /\ i # 0 => Digits[i + 1] # "0"
    /\ \A ch : /\ IsDigit(ch) => ch \in Digit
               /\ IsDigit1(ch) => ch \in Digit
<1>1. /\ DOMAIN Digits = 1..10
      /\ Digits[1] = "0" /\ Digits[2] = "1" /\ Digits[3] = "2" /\ Digits[4] = "3"
      /\ Digits[5] = "4" /\ Digits[6] = "5" /\ Digits[7] = "6" /\ Digits[8] = "7"
      /\ Digits[9] = "8" /\ Digits[10] = "9"
  BY DEF Digits
<1>2. Digit = {Digits[i] : i \in 1..10}
  BY <1>1 DEF Digit, ToSet
<1>3. \A i, j \in 1..10 : Digits[i] = Digits[j] => i = j
  BY <1>1
<1>4. \A i \in 1..10 : DigitValue(Digits[i]) = i - 1
  <2> TAKE i \in 1..10
  <2> DEFINE k == CHOOSE j \in 1..10 : Digits[j] = Digits[i]
  <2>1. k \in 1..10 /\ Digits[k] = Digits[i]
    OBVIOUS
  <2> HIDE DEF k
  <2>2. k = i
    BY <1>3, <2>1
  <2> QED
    BY <2>2 DEF DigitValue, k
<1>5. \A i \in 1..10 : Digits[i] # "LF" /\ Digits[i] # "#" /\ (i # 1 => Digits[i] # "0")
  BY <1>1
<1>6. \A d \in Digit : /\ d \in Byte /\ d # "LF" /\ d # "#"
                       /\ DigitValue(d) \in Nat /\ IsDigit(d)
                       /\ d # "0" => IsDigit1(d)
  <2> TAKE d \in Digit
  <2>1. PICK i \in 1..10 : d = Digits[i]
    BY <1>2
  <2>2. DigitValue(d) \in Nat
    BY <1>4, <2>1
  <2>3. d # "LF" /\ d # "#"
    BY <1>5, <2>1
  <2> QED
    BY <2>2, <2>3 DEF Byte, Digit, IsDigit, IsDigit1
<1>7. ASSUME NEW i \in 0..9
      PROVE  /\ Digits[i + 1] \in Digit
             /\ DigitValue(Digits[i + 1]) = i
             /\ i # 0 => Digits[i + 1] # "0"
  <2>1. i + 1 \in 1..10 /\ (i + 1) - 1 = i /\ (i # 0 => i + 1 # 1)
    OBVIOUS
  <2>2. DigitValue(Digits[i + 1]) = (i + 1) - 1
    BY <1>4, <2>1
  <2> QED
    BY <1>2, <1>5, <2>1, <2>2
<1>8. \A ch : /\ IsDigit(ch) => ch \in Digit
              /\ IsDigit1(ch) => ch \in Digit
  BY DEF IsDigit, IsDigit1, Digit
<1> QED
  BY <1>6, <1>7, <1>8

Tally(s, n) ==
    /\ n \in [0..Len(s) -> Nat]
    /\ n[0] = 0
    /\ \A i \in 1..Len(s) : n[i] = 10 * n[i - 1] + DigitValue(s[i])

LEMMA TallyExists ==
    ASSUME NEW s \in Seq(Digit)
    PROVE  \E n : Tally(s, n)
<1> DEFINE f == [i \in 1..Len(s) |-> [x \in Nat |-> 10 * x + DigitValue(s[i])]]
<1>1. Len(s) \in Nat
  OBVIOUS
<1>2. \A i \in 1..Len(s) : DigitValue(s[i]) \in Nat
  BY DigitFacts, ElementOfSeq
<1>3. f \in [1..Len(s) -> [Nat -> Nat]]
  <2>1. \A i \in 1..Len(s) : \A x \in Nat : 10 * x + DigitValue(s[i]) \in Nat
    BY <1>2
  <2> QED
    BY <2>1
<1>4. \A i \in 1..Len(s) : \A x \in Nat : f[i][x] = 10 * x + DigitValue(s[i])
  OBVIOUS
<1> HIDE DEF f
<1>5. PICK n \in [0..Len(s) -> Nat] : Iterates(Len(s), 0, f, n)
  BY <1>1, <1>3, Recursion
<1>6. \A i \in 1..Len(s) : i - 1 \in 0..Len(s)
  BY <1>1
<1>7. \A i \in 1..Len(s) : n[i] = 10 * n[i - 1] + DigitValue(s[i])
  <2> TAKE i \in 1..Len(s)
  <2>1. n[i - 1] \in Nat
    BY <1>6
  <2> QED
    BY <1>4, <1>5, <2>1 DEF Iterates
<1> QED
  BY <1>5, <1>7 DEF Tally, Iterates

LEMMA NumberBy ==
    ASSUME NEW s \in Seq(Digit), NEW n, Tally(s, n)
    PROVE  Number(s) = n[Len(s)]
<1> DEFINE Def(f) == [i \in 0..Len(s) |->
                         IF i = 0 THEN 0 ELSE 10 * f[i - 1] + DigitValue(s[i])]
           r == CHOOSE f : f = Def(f)
<1>1. Number(s) = r[Len(s)]
  BY DEF Number
<1>2. n = Def(n)
  <2>1. \A i \in 0..Len(s) : n[i] = IF i = 0 THEN 0 ELSE 10 * n[i - 1] + DigitValue(s[i])
    BY DEF Tally
  <2> QED
    BY <2>1 DEF Tally
<1>3. r = Def(r)
  <2> HIDE DEF Def
  <2> QED
    BY <1>2
<1> HIDE DEF r
<1>4. \A i \in 0..Len(s) : r[i] = IF i = 0 THEN 0 ELSE 10 * r[i - 1] + DigitValue(s[i])
  BY <1>3
<1> HIDE DEF Def
<1> DEFINE S == {i \in 0..Len(s) : r[i] = n[i]}
<1>5. Len(s) \in Nat
  OBVIOUS
<1>6. 0 \in S
  BY <1>4, <1>5 DEF Tally
<1>7. ASSUME NEW i \in 1..Len(s), i - 1 \in S PROVE i \in S
  <2>1. r[i - 1] = n[i - 1]
    BY <1>7
  <2>2. r[i] = 10 * r[i - 1] + DigitValue(s[i])
    BY <1>4, <1>5
  <2>3. n[i] = 10 * n[i - 1] + DigitValue(s[i])
    BY DEF Tally
  <2>4. r[i] = n[i]
    BY <2>1, <2>2, <2>3
  <2> QED
    BY <1>5, <2>4
<1> HIDE DEF S
<1>8. \A i \in 0..Len(s) : i \in S
  BY <1>5, <1>6, <1>7, UpTo
<1> QED
  BY <1>1, <1>5, <1>8 DEF S

LEMMA NumberType ==
    ASSUME NEW s \in Seq(Digit)
    PROVE  Number(s) \in Nat
<1>1. PICK n : Tally(s, n)
  BY TallyExists
<1>2. Len(s) \in 0..Len(s)
  OBVIOUS
<1> QED
  BY <1>1, <1>2, NumberBy DEF Tally

LEMMA NumberNone == Number(<<>>) = 0
<1> DEFINE e == <<>>
<1>1. e \in Seq(Digit) /\ Len(e) = 0
  BY EmptySeq
<1> HIDE DEF e
<1>2. PICK n : Tally(e, n)
  BY <1>1, TallyExists
<1>3. Number(e) = n[Len(e)]
  BY <1>1, <1>2, NumberBy
<1> QED
  BY <1>1, <1>2, <1>3 DEF Tally, e

LEMMA NumberAppend ==
    ASSUME NEW s \in Seq(Digit), NEW d \in Digit
    PROVE  Number(Append(s, d)) = 10 * Number(s) + DigitValue(d)
<1>1. PICK n : Tally(s, n)
  BY TallyExists
<1> DEFINE t == Append(s, d)
           m == [i \in 0..(Len(s) + 1) |->
                    IF i = Len(s) + 1 THEN 10 * n[Len(s)] + DigitValue(d) ELSE n[i]]
<1>2. /\ t \in Seq(Digit) /\ Len(t) = Len(s) + 1 /\ Len(s) \in Nat
      /\ \A i \in 1..Len(s) : t[i] = s[i]
      /\ t[Len(s) + 1] = d
  BY AppendProperties
<1>3. 10 * n[Len(s)] + DigitValue(d) \in Nat
  <2>1. n[Len(s)] \in Nat
    BY <1>1, <1>2 DEF Tally
  <2>2. DigitValue(d) \in Nat
    BY DigitFacts
  <2> QED
    BY <2>1, <2>2
<1>4. m \in [0..(Len(s) + 1) -> Nat]
  <2>1. \A i \in 0..(Len(s) + 1) : i # Len(s) + 1 => n[i] \in Nat
    BY <1>1, <1>2 DEF Tally
  <2> QED
    BY <2>1, <1>3
<1> HIDE DEF t
<1>5. ASSUME NEW i \in 1..(Len(s) + 1) PROVE m[i] = 10 * m[i - 1] + DigitValue(t[i])
  <2>0. i - 1 \in 0..(Len(s) + 1) /\ i \in 0..(Len(s) + 1) /\ i - 1 # Len(s) + 1
    BY <1>2
  <2>3. m[i - 1] = n[i - 1]
    BY <2>0
  <2>1. CASE i = Len(s) + 1
    <3>1. i - 1 = Len(s) /\ t[i] = d
      BY <1>2, <2>1
    <3>2. m[i] = 10 * n[Len(s)] + DigitValue(d)
      BY <2>0, <2>1
    <3> QED
      BY <2>3, <3>1, <3>2
  <2>2. CASE i # Len(s) + 1
    <3>1. i \in 1..Len(s) /\ t[i] = s[i]
      BY <1>2, <2>2
    <3>2. m[i] = n[i]
      BY <2>0, <2>2
    <3>3. n[i] = 10 * n[i - 1] + DigitValue(s[i])
      BY <1>1, <3>1 DEF Tally
    <3> QED
      BY <2>3, <3>1, <3>2, <3>3
  <2> QED
    BY <2>1, <2>2
<1>6. m[0] = 0
  BY <1>1, <1>2 DEF Tally
<1>7. m[Len(s) + 1] = 10 * n[Len(s)] + DigitValue(d)
  BY <1>2
<1> HIDE DEF m
<1>8. Tally(t, m)
  BY <1>2, <1>4, <1>5, <1>6 DEF Tally
<1>9. Number(t) = m[Len(s) + 1]
  BY <1>2, <1>8, NumberBy
<1>10. Number(s) = n[Len(s)]
  BY <1>1, NumberBy
<1> QED
  BY <1>7, <1>9, <1>10 DEF t

Spells(n, f) ==
    \A k \in 0..n : f[k] = IF k < 10 THEN <<Digits[k + 1]>>
                           ELSE Append(f[k \div 10], Digits[(k % 10) + 1])

LEMMA Tenth ==
    ASSUME NEW k \in Nat
    PROVE  /\ k % 10 \in 0..9 /\ k \div 10 \in Nat
           /\ k = 10 * (k \div 10) + (k % 10)
           /\ k >= 10 => k \div 10 < k /\ k \div 10 >= 1
<1>1. k % 10 \in 0..9 /\ k = 10 * (k \div 10) + (k % 10) /\ k \div 10 \in Int
  OBVIOUS
<1> QED
  BY <1>1

LEMMA SpellingExists ==
    ASSUME NEW n \in Nat
    PROVE  \E f \in [0..n -> Seq(Digit)] : Spells(n, f)
<1> DEFINE S == {k \in 0..n : \E f \in [0..k -> Seq(Digit)] : Spells(k, f)}
<1>1. 0 \in S
  <2> DEFINE f == [i \in 0..0 |-> <<Digits[1]>>]
  <2>1. Digits[1] \in Digit
    <3>1. Digits[0 + 1] \in Digit
      BY DigitFacts
    <3> QED
      BY <3>1
  <2>2. f \in [0..0 -> Seq(Digit)]
    BY <2>1
  <2>3. Spells(0, f)
    BY DEF Spells
  <2> HIDE DEF f
  <2> QED
    BY <2>2, <2>3
<1>2. ASSUME NEW k \in 1..n, k - 1 \in S PROVE k \in S
  <2>1. PICK f \in [0..(k - 1) -> Seq(Digit)] : Spells(k - 1, f)
    BY <1>2
  <2> DEFINE last == IF k < 10 THEN <<Digits[k + 1]>>
                     ELSE Append(f[k \div 10], Digits[(k % 10) + 1])
             g == [i \in 0..k |-> IF i = k THEN last ELSE f[i]]
  <2>2. last \in Seq(Digit)
    <3>1. CASE k < 10
      <4>0. k \in 0..9
        BY <3>1
      <4>1. Digits[k + 1] \in Digit
        BY <4>0, DigitFacts
      <4> QED
        BY <3>1, <4>1
    <3>2. CASE ~(k < 10)
      <4>1. k \div 10 \in 0..(k - 1) /\ k % 10 \in 0..9
        BY <3>2, Tenth
      <4>2. f[k \div 10] \in Seq(Digit)
        BY <4>1
      <4>3. Digits[(k % 10) + 1] \in Digit
        BY <4>1, DigitFacts
      <4> QED
        BY <3>2, <4>2, <4>3, AppendProperties
    <3> QED
      BY <3>1, <3>2
  <2> HIDE DEF last
  <2>3. g \in [0..k -> Seq(Digit)]
    BY <2>2
  <2>4. \A i \in 0..k : i # k => g[i] = f[i]
    OBVIOUS
  <2>5. g[k] = last
    OBVIOUS
  <2> HIDE DEF g
  <2>6. ASSUME NEW i \in 0..k
        PROVE  g[i] = IF i < 10 THEN <<Digits[i + 1]>>
                      ELSE Append(g[i \div 10], Digits[(i % 10) + 1])
    <3>1. CASE i = k
      <4>1. CASE i < 10
        BY <2>5, <3>1, <4>1 DEF last
      <4>2. CASE ~(i < 10)
        <5>1. i \div 10 \in 0..k /\ i \div 10 # k
          BY <3>1, <4>2, Tenth
        <5>2. g[i \div 10] = f[i \div 10]
          BY <2>4, <5>1
        <5>3. last = Append(f[i \div 10], Digits[(i % 10) + 1])
          BY <3>1, <4>2 DEF last
        <5> QED
          BY <2>5, <3>1, <4>2, <5>2, <5>3
      <4> QED
        BY <4>1, <4>2
    <3>2. CASE i # k
      <4>1. i \in 0..(k - 1) /\ g[i] = f[i]
        BY <2>4, <3>2
      <4>2. f[i] = IF i < 10 THEN <<Digits[i + 1]>>
                   ELSE Append(f[i \div 10], Digits[(i % 10) + 1])
        BY <2>1, <4>1 DEF Spells
      <4>3. CASE i < 10
        BY <4>1, <4>2, <4>3
      <4>4. CASE ~(i < 10)
        <5>1. i \div 10 \in 0..k /\ i \div 10 # k
          BY <4>1, <4>4, Tenth
        <5>2. g[i \div 10] = f[i \div 10]
          BY <2>4, <5>1
        <5> QED
          BY <4>1, <4>2, <4>4, <5>2
      <4> QED
        BY <4>3, <4>4
    <3> QED
      BY <3>1, <3>2
  <2>7. Spells(k, g)
    BY <2>6 DEF Spells
  <2> QED
    BY <2>3, <2>7
<1> HIDE DEF S
<1>3. \A k \in 0..n : k \in S
  BY <1>1, <1>2, UpTo
<1>4. n \in S
  BY <1>3
<1> QED
  BY <1>4 DEF S

LEMMA OneSpelling ==
    ASSUME NEW n \in Nat, NEW f, NEW g, Spells(n, f), Spells(n, g)
    PROVE  f[n] = g[n]
<1> DEFINE S == {i \in 0..n : \A j \in 0..i : f[j] = g[j]}
<1>1. \A k \in 0..n : f[k] = IF k < 10 THEN <<Digits[k + 1]>>
                             ELSE Append(f[k \div 10], Digits[(k % 10) + 1])
  BY DEF Spells
<1>2. \A k \in 0..n : g[k] = IF k < 10 THEN <<Digits[k + 1]>>
                             ELSE Append(g[k \div 10], Digits[(k % 10) + 1])
  BY DEF Spells
<1>3. 0 \in S
  <2>1. f[0] = g[0]
    <3>1. 0 \in 0..n /\ 0 < 10
      OBVIOUS
    <3>2. f[0] = <<Digits[0 + 1]>>
      BY <1>1, <3>1
    <3>3. g[0] = <<Digits[0 + 1]>>
      BY <1>2, <3>1
    <3> QED
      BY <3>2, <3>3
  <2> QED
    BY <2>1
<1>4. ASSUME NEW i \in 1..n, i - 1 \in S PROVE i \in S
  <2>1. \A j \in 0..(i - 1) : f[j] = g[j]
    BY <1>4
  <2>2. f[i] = g[i]
    <3>1. CASE i < 10
      <4>1. i \in 0..n
        OBVIOUS
      <4>2. f[i] = <<Digits[i + 1]>>
        BY <1>1, <3>1, <4>1
      <4>3. g[i] = <<Digits[i + 1]>>
        BY <1>2, <3>1, <4>1
      <4> QED
        BY <4>2, <4>3
    <3>2. CASE ~(i < 10)
      <4>1. i \div 10 \in 0..(i - 1) /\ i \in 0..n
        BY <3>2, Tenth
      <4>2. f[i \div 10] = g[i \div 10]
        BY <2>1, <4>1
      <4>3. f[i] = Append(f[i \div 10], Digits[(i % 10) + 1])
        BY <1>1, <3>2, <4>1
      <4>4. g[i] = Append(g[i \div 10], Digits[(i % 10) + 1])
        BY <1>2, <3>2, <4>1
      <4> QED
        BY <4>2, <4>3, <4>4
    <3> QED
      BY <3>1, <3>2
  <2>3. \A j \in 0..i : f[j] = g[j]
    <3> TAKE j \in 0..i
    <3>1. CASE j = i
      BY <2>2, <3>1
    <3>2. CASE j # i
      <4>1. j \in 0..(i - 1)
        BY <3>2
      <4> QED
        BY <2>1, <4>1
    <3> QED
      BY <3>1, <3>2
  <2> QED
    BY <2>3
<1>5. \A i \in 0..n : i \in S
  <2> HIDE DEF S
  <2> QED
    BY <1>3, <1>4, UpTo
<1> QED
  BY <1>5

LEMMA SpelledLess ==
    ASSUME NEW n \in Nat, NEW k \in 0..n, NEW f, Spells(n, f)
    PROVE  Spells(k, f)
BY DEF Spells

(* The recursive function of Numeral is its equation's solution.           *)
LEMMA NumeralSpelled ==
    \E f : /\ \A n \in Nat : Spells(n, f)
           /\ \A n \in Nat : Numeral(n) = f[n]
<1> DEFINE Def(f) == [k \in Nat |-> IF k < 10 THEN <<Digits[k + 1]>>
                                    ELSE Append(f[k \div 10], Digits[(k % 10) + 1])]
           digits == CHOOSE f : f = Def(f)
           For(k) == CHOOSE f : Spells(k, f)
           F == [k \in Nat |-> For(k)[k]]
<1>1. \A n \in Nat : Numeral(n) = digits[n]
  BY DEF Numeral
<1>2. ASSUME NEW k \in Nat PROVE Spells(k, For(k))
  <2>1. \E f : Spells(k, f)
    BY SpellingExists
  <2> QED
    BY <2>1
<1>3. \A k \in Nat : F[k] = For(k)[k]
  OBVIOUS
<1> HIDE DEF For
<1>4. ASSUME NEW k \in Nat
      PROVE  F[k] = IF k < 10 THEN <<Digits[k + 1]>>
                    ELSE Append(F[k \div 10], Digits[(k % 10) + 1])
  <2> HIDE DEF F
  <2>1. For(k)[k] = IF k < 10 THEN <<Digits[k + 1]>>
                    ELSE Append(For(k)[k \div 10], Digits[(k % 10) + 1])
    BY <1>2 DEF Spells
  <2>2. CASE k < 10
    BY <1>3, <2>1, <2>2
  <2>3. CASE ~(k < 10)
    <3> DEFINE j == k \div 10
    <3>1. j \in Nat /\ j \in 0..k
      BY <2>3, Tenth
    <3> HIDE DEF j
    <3>2. Spells(j, For(k)) /\ Spells(j, For(j))
      BY <1>2, <3>1, SpelledLess
    <3>3. For(k)[j] = For(j)[j]
      BY <3>1, <3>2, OneSpelling
    <3>4. F[j] = For(k)[j]
      BY <1>3, <3>1, <3>3
    <3> QED
      BY <1>3, <2>1, <2>3, <3>4 DEF j
  <2> QED
    BY <2>2, <2>3
<1>5. F = Def(F)
  <2> DEFINE G == Def(F)
  <2>1. \A k \in Nat : F[k] = G[k]
    BY <1>4
  <2>2. DOMAIN F = Nat /\ F = [k \in DOMAIN F |-> F[k]]
    OBVIOUS
  <2>3. DOMAIN G = Nat /\ G = [k \in DOMAIN G |-> G[k]]
    OBVIOUS
  <2> HIDE DEF F, G
  <2>4. F = G
    BY <2>1, <2>2, <2>3
  <2> QED
    BY <2>4 DEF G
<1>6. digits = Def(digits)
  <2> HIDE DEF Def, F
  <2> QED
    BY <1>5
<1> HIDE DEF digits
<1>7. \A k \in Nat : digits[k] = IF k < 10 THEN <<Digits[k + 1]>>
                                 ELSE Append(digits[k \div 10], Digits[(k % 10) + 1])
  BY <1>6
<1>8. \A n \in Nat : Spells(n, digits)
  BY <1>7 DEF Spells
<1> QED
  BY <1>1, <1>8

LEMMA NumeralIs ==
    ASSUME NEW n \in Nat
    PROVE  /\ Numeral(n) \in Seq(Digit)
           /\ n < 10 => Numeral(n) = <<Digits[n + 1]>>
           /\ n >= 10 => Numeral(n) = Append(Numeral(n \div 10), Digits[(n % 10) + 1])
<1>1. PICK f : /\ \A k \in Nat : Spells(k, f)
               /\ \A k \in Nat : Numeral(k) = f[k]
  BY NumeralSpelled
<1>2. PICK g \in [0..n -> Seq(Digit)] : Spells(n, g)
  BY SpellingExists
<1>3. Spells(n, f)
  BY <1>1
<1>4. f[n] = g[n]
  BY <1>2, <1>3, OneSpelling
<1>5. g[n] \in Seq(Digit)
  OBVIOUS
<1>6. f[n] = IF n < 10 THEN <<Digits[n + 1]>>
             ELSE Append(f[n \div 10], Digits[(n % 10) + 1])
  BY <1>3 DEF Spells
<1>7. n \div 10 \in Nat
  BY Tenth
<1>8. Numeral(n) = f[n] /\ Numeral(n \div 10) = f[n \div 10]
  BY <1>1, <1>7
<1>9. Numeral(n) \in Seq(Digit)
  BY <1>4, <1>5, <1>8
<1>10. n < 10 => Numeral(n) = <<Digits[n + 1]>>
  BY <1>6, <1>8
<1>11. n >= 10 => Numeral(n) = Append(Numeral(n \div 10), Digits[(n % 10) + 1])
  <2>1. n >= 10 => ~(n < 10)
    OBVIOUS
  <2> QED
    BY <1>6, <1>8, <2>1
<1> QED
  BY <1>9, <1>10, <1>11

(* A size of a chunk, as the sender writes it: not empty, without a zero   *)
(* in front, and read as the number it stands for.                         *)
LEMMA NumeralRead ==
    ASSUME NEW n \in Nat, n >= 1
    PROVE  /\ Numeral(n) \in Seq(Digit) /\ Len(Numeral(n)) >= 1
           /\ Numeral(n)[1] # "0"
           /\ Number(Numeral(n)) = n
<1> DEFINE Right(k) == k >= 1 => /\ Len(Numeral(k)) >= 1
                                 /\ Numeral(k)[1] # "0"
                                 /\ Number(Numeral(k)) = k
           S == {i \in 0..n : \A j \in 0..i : Right(j)}
<1>1. 0 \in S
  OBVIOUS
<1>2. ASSUME NEW i \in 1..n, i - 1 \in S PROVE i \in S
  <2>1. \A j \in 0..(i - 1) : Right(j)
    BY <1>2
  <2>2. Right(i)
    <3>1. CASE i < 10
      <4> DEFINE d == Digits[i + 1]
                 e == <<>>
      <4>0. i \in Nat /\ i \in 0..9 /\ i # 0
        BY <3>1
      <4>1. Numeral(i) = <<d>>
        BY <3>1, <4>0, NumeralIs
      <4>2. d \in Digit /\ DigitValue(d) = i /\ d # "0"
        BY <4>0, DigitFacts
      <4>3. e \in Seq(Digit) /\ <<d>> = Append(e, d)
        BY EmptySeq
      <4>4. Number(e) = 0
        BY NumberNone
      <4> HIDE DEF d, e
      <4>5. Number(Append(e, d)) = 10 * Number(e) + DigitValue(d)
        BY <4>2, <4>3, NumberAppend
      <4>6. Number(<<d>>) = i
        <5>1. Number(<<d>>) = 10 * 0 + i
          BY <4>2, <4>3, <4>4, <4>5
        <5> QED
          BY <4>0, <5>1
      <4>7. Len(<<d>>) = 1 /\ <<d>>[1] = d
        OBVIOUS
      <4> QED
        BY <4>1, <4>2, <4>6, <4>7
    <3>2. CASE ~(i < 10)
      <4> DEFINE k == i \div 10
                 r == i % 10
                 s == Numeral(k)
                 d == Digits[r + 1]
      <4>1. k \in 0..(i - 1) /\ k >= 1 /\ k \in Nat /\ r \in 0..9 /\ i = 10 * k + r
        BY <3>2, Tenth
      <4>2. Right(k)
        BY <2>1, <4>1
      <4>3. Numeral(i) = Append(s, d)
        <5>1. i \in Nat /\ i >= 10
          BY <3>2
        <5> QED
          BY <5>1, NumeralIs
      <4>4. s \in Seq(Digit)
        BY <4>1, NumeralIs
      <4>5. Len(s) >= 1 /\ s[1] # "0" /\ Number(s) = k
        BY <4>1, <4>2
      <4> HIDE DEF k, s, r
      <4>6. d \in Digit /\ DigitValue(d) = r
        BY <4>1, DigitFacts
      <4> HIDE DEF d
      <4>7. Number(Append(s, d)) = 10 * Number(s) + DigitValue(d)
        BY <4>4, <4>6, NumberAppend
      <4>8. Len(Append(s, d)) = Len(s) + 1 /\ Append(s, d)[1] = s[1] /\ Len(s) \in Nat
        BY <4>4, <4>5, <4>6, AppendProperties
      <4>9. Number(Append(s, d)) = i
        BY <4>1, <4>5, <4>6, <4>7
      <4> QED
        BY <4>3, <4>5, <4>8, <4>9
    <3> QED
      BY <3>1, <3>2
  <2> HIDE DEF Right
  <2>3. \A j \in 0..i : Right(j)
    <3> TAKE j \in 0..i
    <3>1. CASE j = i
      BY <2>2, <3>1
    <3>2. CASE j # i
      <4>1. j \in 0..(i - 1)
        BY <3>2
      <4> QED
        BY <2>1, <4>1
    <3> QED
      BY <3>1, <3>2
  <2> QED
    BY <2>3
<1> HIDE DEF Right
<1>3. \A i \in 0..n : i \in S
  <2> HIDE DEF S
  <2> QED
    BY <1>1, <1>2, UpTo
<1>4. Right(n)
  BY <1>3
<1> QED
  BY <1>4, NumeralIs DEF Right

-----------------------------------------------------------------------------
(* The frames of a message                                                 *)

Header(d) == <<"LF", "#">> \o Numeral(Len(d)) \o <<"LF">>

LEMMA HeaderIs ==
    ASSUME NEW d \in Data, Len(d) >= 1
    PROVE  LET k == Len(Numeral(Len(d)))
           IN  /\ Header(d) \in Data /\ Len(Header(d)) = k + 3 /\ k \in Nat /\ k >= 1
               /\ Header(d)[1] = "LF" /\ Header(d)[2] = "#" /\ Header(d)[k + 3] = "LF"
               /\ \A i \in 1..k : Header(d)[i + 2] = Numeral(Len(d))[i]
<1> DEFINE num == Numeral(Len(d))
           a == <<"LF", "#">>
           z == <<"LF">>
           b == a \o num
<1>1. num \in Seq(Digit) /\ Len(num) >= 1
  BY NumeralRead DEF Data
<1>2. num \in Data
  BY <1>1, SeqMonotonic, DigitFacts DEF Data
<1>3. a \in Data /\ z \in Data /\ Len(a) = 2 /\ Len(z) = 1
      /\ a[1] = "LF" /\ a[2] = "#" /\ z[1] = "LF"
  BY DEF Byte, Data
<1>4. Header(d) = b \o z
  BY DEF Header
<1> HIDE DEF num, a, z
<1>5. /\ b \in Data /\ Len(b) = Len(a) + Len(num) /\ Len(num) \in Nat
      /\ \A i \in 1..Len(a) : b[i] = a[i]
      /\ \A i \in 1..Len(num) : b[Len(a) + i] = num[i]
  BY <1>2, <1>3, Joined
<1> HIDE DEF b
<1>6. /\ b \o z \in Data /\ Len(b \o z) = Len(b) + Len(z)
      /\ \A i \in 1..Len(b) : (b \o z)[i] = b[i]
      /\ \A i \in 1..Len(z) : (b \o z)[Len(b) + i] = z[i]
  BY <1>3, <1>5, Joined
<1>7. Len(b) = Len(num) + 2 /\ Len(b) + 1 = Len(num) + 3
  BY <1>3, <1>5
<1>8. (b \o z)[1] = "LF" /\ (b \o z)[2] = "#"
  BY <1>1, <1>3, <1>5, <1>6, <1>7
<1>9. (b \o z)[Len(num) + 3] = "LF"
  BY <1>3, <1>6, <1>7
<1>10. ASSUME NEW i \in 1..Len(num) PROVE (b \o z)[i + 2] = num[i]
  <2>1. i + 2 \in 1..Len(b) /\ Len(a) + i = i + 2
    BY <1>3, <1>5, <1>7
  <2> QED
    BY <1>5, <1>6, <2>1
<1>11. Len(b \o z) = Len(num) + 3
  BY <1>3, <1>5, <1>6, <1>7
<1> QED
  BY <1>1, <1>4, <1>5, <1>6, <1>8, <1>9, <1>10, <1>11 DEF num

Pieces(cs) == cs \in Wall /\ \A i \in 1..Len(cs) : Len(cs[i]) \in 1..MaxChunk

Framed(cs) == [i \in 1..Len(cs) |-> Chunk(cs[i])]

Body(cs) == FlattenSeq(Framed(cs)) \o NC_SSH_END_CHUNKS

LEMMA ChunkIs ==
    ASSUME NEW d \in Data, Len(d) >= 1
    PROVE  Chunk(d) = Header(d) \o d /\ Chunk(d) \in Data
<1>1. Chunk(d) = Header(d) \o d
  BY DEF Chunk, Header
<1>2. Header(d) \in Data
  BY HeaderIs
<1> QED
  BY <1>1, <1>2, Joined

LEMMA FramedType ==
    ASSUME NEW cs, Pieces(cs)
    PROVE  Framed(cs) \in Wall /\ Len(Framed(cs)) = Len(cs)
<1>1. Len(cs) \in Nat /\ \A i \in 1..Len(cs) : cs[i] \in Data
  BY WallType DEF Pieces
<1>2. \A i \in 1..Len(cs) : Len(cs[i]) >= 1
  BY DEF Pieces
<1>3. \A i \in 1..Len(cs) : Chunk(cs[i]) \in Data
  BY <1>1, <1>2, ChunkIs
<1>4. Framed(cs) \in [1..Len(cs) -> Data]
  BY <1>3 DEF Framed
<1> QED
  BY <1>1, <1>4 DEF Wall

LEMMA BodyType ==
    ASSUME NEW cs, Pieces(cs)
    PROVE  Body(cs) \in Data
BY FramedType, FlattenType, Joined, Sizes DEF Body

LEMMA BodyNone == Pieces(<<>>) /\ Body(<<>>) = NC_SSH_END_CHUNKS
<1>1. Framed(<<>>) = <<>>
  BY DEF Framed
<1>2. <<>> \o NC_SSH_END_CHUNKS = NC_SSH_END_CHUNKS
  BY Sizes, ConcatEmptySeq DEF Data
<1>3. <<>> \in Wall /\ Len(<<>>) = 0
  BY EmptySeq DEF Wall
<1>4. Pieces(<<>>)
  BY <1>3 DEF Pieces
<1>5. Body(<<>>) = NC_SSH_END_CHUNKS
  BY <1>1, <1>2, FlattenNone DEF Body
<1> QED
  BY <1>4, <1>5

LEMMA BodyFirst ==
    ASSUME NEW cs, Pieces(cs), cs # <<>>
    PROVE  /\ Head(cs) \in Data /\ Len(Head(cs)) \in 1..MaxChunk
           /\ Pieces(Tail(cs))
           /\ FlattenSeq(cs) = Head(cs) \o FlattenSeq(Tail(cs))
           /\ Body(cs) = Chunk(Head(cs)) \o Body(Tail(cs))
<1> DEFINE d == Head(cs)
           ds == Tail(cs)
           f == Framed(cs)
           g == Framed(ds)
<1>1. /\ d \in Data /\ ds \in Wall /\ Len(ds) = Len(cs) - 1 /\ Len(cs) \in Nat \ {0}
      /\ \A i \in 1..Len(ds) : ds[i] = cs[i + 1]
      /\ cs[1] = d
  BY HeadTailProperties, EmptySeq DEF Pieces, Wall
<1>2. \A i \in 1..Len(cs) : Len(cs[i]) \in 1..MaxChunk
  BY DEF Pieces
<1>3. Len(d) \in 1..MaxChunk
  BY <1>1, <1>2
<1> HIDE DEF d, ds
<1>4. \A i \in 1..Len(ds) : i + 1 \in 1..Len(cs)
  BY <1>1
<1>5. Pieces(ds)
  BY <1>1, <1>2, <1>4 DEF Pieces
<1>6. f \in Wall /\ Len(f) = Len(cs) /\ g \in Wall /\ Len(g) = Len(ds)
  BY <1>5, FramedType
<1>7. \A i \in 1..Len(cs) : f[i] = Chunk(cs[i])
  BY DEF Framed
<1>8. \A i \in 1..Len(ds) : g[i] = Chunk(ds[i])
  BY DEF Framed
<1> HIDE DEF f, g
<1>9. Chunk(d) \in Data
  BY <1>1, <1>3, ChunkIs
<1> DEFINE p == <<Chunk(d)>> \o g
           q == <<d>> \o ds
<1>10. f = p
  <2>1. <<Chunk(d)>> \in Seq(Data) /\ Len(<<Chunk(d)>>) = 1 /\ <<Chunk(d)>>[1] = Chunk(d)
    BY <1>9
  <2>2. /\ p \in Seq(Data) /\ Len(p) = 1 + Len(g)
        /\ \A i \in 1..(1 + Len(g)) :
              p[i] = IF i <= 1 THEN <<Chunk(d)>>[i] ELSE g[i - 1]
    BY <1>6, <2>1, ConcatProperties DEF Wall
  <2> HIDE DEF p
  <2>3. Len(p) = Len(f)
    BY <1>1, <1>6, <2>2
  <2>4. ASSUME NEW i \in 1..Len(f) PROVE f[i] = p[i]
    <3>1. f[i] = Chunk(cs[i])
      BY <1>6, <1>7
    <3>2. CASE i = 1
      BY <1>1, <1>6, <2>1, <2>2, <3>1, <3>2
    <3>3. CASE i # 1
      <4> DEFINE j == i - 1
      <4>1. j \in 1..Len(ds) /\ i = j + 1 /\ ~(i <= 1) /\ i \in 1..(1 + Len(g))
        BY <1>1, <1>6, <3>3
      <4>2. p[i] = g[j]
        BY <2>2, <4>1
      <4> HIDE DEF j
      <4>3. g[j] = Chunk(cs[i])
        BY <1>1, <1>8, <4>1
      <4> QED
        BY <3>1, <4>2, <4>3
    <3> QED
      BY <3>2, <3>3
  <2> QED
    BY <1>6, <2>2, <2>3, <2>4, SeqEqual DEF Wall
<1>11. cs = q
  <2>1. cs \in Seq(Data) /\ cs # <<>>
    BY DEF Pieces, Wall
  <2>2. SubSeq(cs, 1, Len(cs)) = <<cs[1]>> \o SubSeq(cs, 2, Len(cs))
    BY <1>1, <2>1, SubSeqRecursiveFirst
  <2>3. SubSeq(cs, 1, Len(cs)) = cs /\ ds = SubSeq(cs, 2, Len(cs))
    BY <2>1, SubSeqFull, TailIsSubSeq DEF ds
  <2> QED
    BY <1>1, <2>2, <2>3
<1>12. FlattenSeq(cs) = d \o FlattenSeq(ds)
  <2>1. FlattenSeq(q) = d \o FlattenSeq(ds)
    BY <1>1, FlattenCons
  <2> QED
    BY <1>11, <2>1
<1>13. FlattenSeq(f) = Chunk(d) \o FlattenSeq(g)
  <2>1. FlattenSeq(p) = Chunk(d) \o FlattenSeq(g)
    BY <1>6, <1>9, FlattenCons
  <2> QED
    BY <1>10, <2>1
<1>14. (Chunk(d) \o FlattenSeq(g)) \o NC_SSH_END_CHUNKS
          = Chunk(d) \o (FlattenSeq(g) \o NC_SSH_END_CHUNKS)
  <2> DEFINE x == Chunk(d)
             y == FlattenSeq(g)
             z == NC_SSH_END_CHUNKS
  <2>1. x \in Data /\ y \in Data /\ z \in Data
    BY <1>6, <1>9, FlattenType, Sizes
  <2> HIDE DEF x, y, z
  <2>2. (x \o y) \o z = x \o (y \o z)
    BY <2>1, Associative
  <2> QED
    BY <2>2 DEF x, y, z
<1>15. Body(cs) = Chunk(d) \o Body(ds)
  BY <1>13, <1>14 DEF Body, f, g
<1> QED
  BY <1>1, <1>3, <1>5, <1>12, <1>15 DEF d, ds

(* A message of base:1.1 is cut into pieces that make it up again.         *)
LEMMA ChunksAre ==
    ASSUME NEW m \in Data, Len(m) >= 1, NEW size \in 1..MaxChunk
    PROVE  \E cs : /\ Pieces(cs) /\ cs # <<>>
                   /\ FlattenSeq(cs) = m
                   /\ Chunks(m, size) = Body(cs)
<1> DEFINE last == (Len(m) - 1) \div size
           E(i) == IF i = last + 1 THEN Len(m) ELSE i * size
           cs == [i \in 1..(last + 1) |-> SubSeq(m, E(i - 1) + 1, E(i))]
           r == [i \in 0..(last + 1) |-> SubSeq(m, 1, E(i))]
<1>0. size \in Nat /\ size >= 1 /\ Len(m) \in Nat /\ MaxChunk \in Nat
  BY LenProperties, SizeAssumption DEF Data
<1>1. last \in Nat /\ last * size <= Len(m) - 1 /\ Len(m) - 1 - last * size <= size - 1
  <2> DEFINE n == Len(m) - 1
  <2>1. n \in Nat
    BY <1>0
  <2> HIDE DEF n
  <2>2. n % size \in 0..(size - 1) /\ n \div size \in Int
    BY <1>0, <2>1
  <2>3. n = size * (n \div size) + (n % size)
    BY <1>0, <2>1, Z3
  <2> DEFINE k == n \div size
             x == n % size
  <2>4. k \in Int /\ x \in 0..(size - 1) /\ n = size * k + x
    BY <2>2, <2>3
  <2> HIDE DEF k, x
  <2>5. k >= 0
    <3>1. k <= -1 => size * k <= -size
      BY <1>0, <2>4
    <3>2. size * k \in Int
      BY <1>0, <2>4
    <3> QED
      BY <1>0, <2>1, <2>4, <3>1, <3>2
  <2>6. k * size = size * k /\ k * size \in Int
    BY <1>0, <2>4
  <2>7. k \in Nat /\ k * size <= n /\ n - k * size <= size - 1
    BY <1>0, <2>1, <2>4, <2>5, <2>6
  <2> QED
    BY <2>7 DEF n, k
<1> HIDE DEF last
<1>2. ASSUME NEW i \in 1..(last + 1)
      PROVE  /\ E(i) \in Nat /\ E(i) <= Len(m)
             /\ E(i - 1) \in Nat /\ E(i - 1) < E(i) /\ E(i) - E(i - 1) <= size
             /\ E(i - 1) = (i - 1) * size
  <2>0. i - 1 # last + 1 /\ i - 1 \in Nat /\ i \in Nat
    BY <1>1
  <2>1. E(i - 1) = (i - 1) * size
    BY <2>0
  <2>2. (i - 1) * size \in Nat /\ i * size \in Nat /\ (i - 1) * size = i * size - size
    BY <1>0, <2>0
  <2>3. CASE i = last + 1
    <3>1. E(i) = Len(m)
      BY <2>3
    <3>2. (i - 1) * size = last * size
      BY <1>1, <2>3
    <3>3. last * size \in Nat
      BY <2>2, <3>2
    <3> HIDE DEF E
    <3> QED
      BY <1>0, <1>1, <2>1, <2>2, <3>1, <3>2, <3>3
  <2>4. CASE i # last + 1
    <3>1. E(i) = i * size
      BY <2>4
    <3>2. i * size <= last * size
      <4>1. last - i \in Nat
        BY <1>1, <2>4
      <4>2. (last - i) * size >= 0
        BY <1>0, <4>1
      <4>3. (last - i) * size = last * size - i * size
        BY <1>0, <1>1, <2>0
      <4>4. last * size \in Int
        BY <1>0, <1>1
      <4> QED
        BY <2>2, <4>2, <4>3, <4>4
    <3>3. last * size \in Int
      BY <1>0, <1>1
    <3> HIDE DEF E
    <3> QED
      BY <1>0, <1>1, <2>1, <2>2, <3>1, <3>2, <3>3
  <2> QED
    BY <2>3, <2>4
<1>3. E(0) = 0 /\ E(last + 1) = Len(m)
  BY <1>0, <1>1
<1>4. cs \in Wall /\ Len(cs) = last + 1
      /\ \A i \in 1..(last + 1) : cs[i] = SubSeq(m, E(i - 1) + 1, E(i))
                               /\ Len(cs[i]) \in 1..MaxChunk
  <2>1. ASSUME NEW i \in 1..(last + 1)
        PROVE  /\ SubSeq(m, E(i - 1) + 1, E(i)) \in Data
               /\ Len(SubSeq(m, E(i - 1) + 1, E(i))) \in 1..MaxChunk
    <3> DEFINE x == E(i - 1) + 1
               y == E(i)
    <3>1. x \in Nat \ {0} /\ y \in Nat /\ x <= y /\ y <= Len(m) /\ y - x + 1 <= size
      BY <1>2
    <3> HIDE DEF x, y
    <3>2. SubSeq(m, x, y) \in Data /\ Len(SubSeq(m, x, y)) = y - x + 1
      BY <3>1, Cut
    <3>3. y - x + 1 \in 1..MaxChunk
      BY <1>0, <3>1
    <3> QED
      BY <3>2, <3>3 DEF x, y
  <2> HIDE DEF E
  <2>2. cs \in [1..(last + 1) -> Data]
    BY <2>1
  <2>3. cs \in Wall /\ Len(cs) = last + 1
    BY <1>1, <2>2 DEF Wall
  <2>4. \A i \in 1..(last + 1) : cs[i] = SubSeq(m, E(i - 1) + 1, E(i))
    OBVIOUS
  <2> HIDE DEF cs
  <2> QED
    BY <2>1, <2>3, <2>4
<1>5. Pieces(cs) /\ cs # <<>>
  <2> HIDE DEF cs, r, E
  <2>1. Len(cs) # 0
    BY <1>1, <1>4
  <2>2. cs # <<>>
    BY <2>1
  <2>3. \A i \in 1..Len(cs) : Len(cs[i]) \in 1..MaxChunk
    BY <1>4
  <2> QED
    BY <1>4, <2>2, <2>3 DEF Pieces
<1>6. Run(cs, r)
  <2>1. ASSUME NEW i \in 0..(last + 1) PROVE E(i) \in Nat /\ E(i) <= Len(m)
    <3>1. CASE i = 0
      BY <1>0, <1>3, <3>1
    <3>2. CASE i # 0
      <4>1. i \in 1..(last + 1)
        BY <1>1, <3>2
      <4> QED
        BY <1>2, <4>1
    <3> QED
      BY <3>1, <3>2
  <2> HIDE DEF E, cs
  <2>2. \A i \in 0..(last + 1) : SubSeq(m, 1, E(i)) \in Data
    BY <2>1, Beginning
  <2>3. r \in [0..(last + 1) -> Data]
    BY <2>2
  <2>4. r[0] = <<>>
    <3>1. r[0] = SubSeq(m, 1, 0)
      BY <1>1, <1>3
    <3>2. SubSeq(m, 1, 0) = <<>>
      BY SubSeqEmpty
    <3> QED
      BY <3>1, <3>2
  <2>5. ASSUME NEW i \in 1..(last + 1) PROVE r[i] = r[i - 1] \o cs[i]
    <3> DEFINE x == E(i - 1)
               y == E(i)
    <3>1. x \in Nat /\ y \in Nat /\ x < y /\ y <= Len(m)
      BY <1>2
    <3>2. r[i] = SubSeq(m, 1, y)
      <4>1. i \in 0..(last + 1)
        BY <1>1
      <4> QED
        BY <4>1
    <3>3. r[i - 1] = SubSeq(m, 1, x)
      <4>1. i - 1 \in 0..(last + 1)
        BY <1>1
      <4> QED
        BY <4>1
    <3>4. cs[i] = SubSeq(m, x + 1, y)
      BY <1>4
    <3> HIDE DEF x, y, r
    <3>5. SubSeq(m, 1, x) \o SubSeq(m, x + 1, y) = SubSeq(m, 1, y)
      <4>1. /\ 1 \in 1..(Len(m) + 1) /\ x \in (1 - 1)..Len(m) /\ y \in x..Len(m)
            /\ m \in Seq(Byte)
        BY <1>0, <3>1 DEF Data
      <4> QED
        BY <4>1, ConcatAdjacentSubSeq
    <3> QED
      BY <3>2, <3>3, <3>4, <3>5
  <2> HIDE DEF r
  <2> QED
    BY <1>4, <2>3, <2>4, <2>5 DEF Run
<1>7. FlattenSeq(cs) = m
  <2>1. FlattenSeq(cs) = r[last + 1]
    <3> HIDE DEF cs, r, E
    <3> QED
      BY <1>4, <1>6, FlattenBy
  <2>2. r[last + 1] = SubSeq(m, 1, Len(m))
    <3> HIDE DEF E
    <3> QED
      BY <1>1, <1>3
  <2>3. SubSeq(m, 1, Len(m)) = m
    BY SubSeqFull DEF Data
  <2> QED
    BY <2>1, <2>2, <2>3
<1>8. Chunks(m, size) = Body(cs)
  <2> DEFINE end(i) == IF i = last THEN Len(m) ELSE (i + 1) * size
             chunk == [i \in 1..(last + 1) |-> Chunk(SubSeq(m, (i - 1) * size + 1, end(i - 1)))]
  <2>1. Chunks(m, size) = FlattenSeq(chunk) \o NC_SSH_END_CHUNKS
    BY DEF Chunks, last
  <2>2. \A i \in 1..(last + 1) : end(i - 1) = E(i)
    BY <1>1
  <2>3. \A i \in 1..(last + 1) : (i - 1) * size = E(i - 1)
    BY <1>2
  <2> HIDE DEF E, end
  <2>4. \A i \in 1..(last + 1) : chunk[i] = Chunk(cs[i])
    <3> HIDE DEF cs
    <3> QED
      BY <1>4, <2>2, <2>3
  <2>5. chunk = Framed(cs)
    <3> DEFINE f == Framed(cs)
    <3>1. DOMAIN chunk = 1..(last + 1) /\ chunk = [i \in DOMAIN chunk |-> chunk[i]]
      OBVIOUS
    <3>2. DOMAIN f = 1..(last + 1) /\ f = [i \in DOMAIN f |-> f[i]]
          /\ \A i \in 1..(last + 1) : f[i] = Chunk(cs[i])
      <4> HIDE DEF cs
      <4> QED
        BY <1>4 DEF Framed
    <3> HIDE DEF chunk, cs, f
    <3>3. f = chunk
      BY <2>4, <3>1, <3>2
    <3> QED
      BY <3>3 DEF f
  <2> HIDE DEF chunk, cs
  <2> QED
    BY <2>1, <2>5 DEF Body
<1> HIDE DEF cs
<1> QED
  BY <1>5, <1>7, <1>8

-----------------------------------------------------------------------------
(* Types                                                                   *)

Buffers(q) == q \in Wall /\ \A i \in 1..Len(q) : Len(q[i]) <= BuffSize

LEMMA RoomTyped ==
    ASSUME NEW q, Buffers(q)
    PROVE  Buffers(Room(q)) /\ Room(q) # <<>> /\ Len(Last(Room(q))) < BuffSize
<1>1. q \in Wall /\ <<>> \in Data /\ Len(<<>>) = 0 /\ Len(q) \in Nat
  BY EmptySeq, WallType DEF Buffers, Data
<1>2. CASE q = <<>> \/ Len(Last(q)) = BuffSize
  <2> DEFINE p == Append(q, <<>>)
  <2>1. /\ p \in Wall /\ p # <<>> /\ Len(p) = Len(q) + 1 /\ Last(p) = <<>>
        /\ \A i \in 1..Len(q) : p[i] = q[i]
        /\ p[Len(q) + 1] = <<>>
    BY <1>1, LastAppended
  <2>2. Room(q) = p
    BY <1>2 DEF Room
  <2> HIDE DEF p
  <2>3. ASSUME NEW i \in 1..Len(p) PROVE Len(p[i]) <= BuffSize
    <3>1. CASE i = Len(q) + 1
      <4>1. Len(p[i]) = 0
        BY <1>1, <2>1, <3>1
      <4> QED
        BY <4>1, Sizes
    <3>2. CASE i # Len(q) + 1
      <4>1. i \in 1..Len(q)
        BY <1>1, <2>1, <3>2
      <4> QED
        BY <2>1, <4>1 DEF Buffers
    <3> QED
      BY <3>1, <3>2
  <2>4. Len(Last(p)) < BuffSize
    BY <1>1, <2>1, Sizes
  <2>5. Buffers(p)
    BY <2>1, <2>3 DEF Buffers
  <2> QED
    BY <2>1, <2>2, <2>4, <2>5
<1>3. CASE q # <<>> /\ Len(Last(q)) # BuffSize
  <2>1. Last(q) \in Data /\ Len(q) \in Nat \ {0}
    BY <1>1, <1>3, FrontLast
  <2>2. Len(Last(q)) \in Nat
    BY <2>1 DEF Data
  <2>3. Room(q) = q
    BY <1>3 DEF Room
  <2>4. Len(Last(q)) <= BuffSize
    BY <2>1 DEF Buffers, Last
  <2>5. Len(Last(q)) < BuffSize
    BY <1>3, <2>2, <2>4, Sizes
  <2> QED
    BY <1>3, <2>3, <2>5
<1> QED
  BY <1>2, <1>3

LEMMA StoredTyped ==
    ASSUME NEW q, Buffers(q), q # <<>>, Len(Last(q)) < BuffSize, NEW ch \in Byte
    PROVE  Buffers(Stored(q, ch)) /\ Stored(q, ch) # <<>>
<1> DEFINE f == Front(q)
           l == Append(Last(q), ch)
           p == Append(f, l)
<1>1. /\ f \in Wall /\ Last(q) \in Data /\ Len(q) \in Nat \ {0} /\ Len(f) = Len(q) - 1
      /\ \A i \in 1..(Len(q) - 1) : f[i] = q[i]
  BY FrontLast DEF Buffers
<1>2. l \in Data /\ Len(l) = Len(Last(q)) + 1 /\ Len(Last(q)) \in Nat
  BY <1>1, AppendProperties, LenProperties DEF Data
<1>3. Stored(q, ch) = p
  BY DEF Stored
<1> HIDE DEF f, l
<1>4. /\ p \in Wall /\ p # <<>> /\ Len(p) = Len(f) + 1
      /\ \A i \in 1..Len(f) : p[i] = f[i]
      /\ p[Len(f) + 1] = l
  BY <1>1, <1>2, LastAppended
<1> HIDE DEF p
<1>5. ASSUME NEW i \in 1..Len(p) PROVE Len(p[i]) <= BuffSize
  <2>1. CASE i = Len(f) + 1
    BY <1>2, <1>4, <2>1, Sizes
  <2>2. CASE i # Len(f) + 1
    <3>1. i \in 1..Len(f) /\ i \in 1..(Len(q) - 1) /\ i \in 1..Len(q)
      BY <1>1, <1>4, <2>2
    <3>2. p[i] = q[i]
      BY <1>1, <1>4, <3>1
    <3> QED
      BY <3>1, <3>2 DEF Buffers
  <2> QED
    BY <2>1, <2>2
<1> QED
  BY <1>3, <1>4, <1>5 DEF Buffers

Typed(s) ==
    /\ s \in Session
    /\ Buffers(s.buffQ)
    /\ s.inendpos > 0 => s.instate # "idle"
    /\ s.protocol = "1.0" => s.instate \in {"idle", "inmsg", "inend"}
    /\ s.instate = "inend" => s.inendpos \in 1..5
    /\ s.instate = "inbetween" => s.inendpos <= 2

Ready == {m \in [buffQ : Wall \ {<<>>}, bufflen : Int] : m.bufflen <= Len(Last(m.buffQ))}

(* What a byte makes of a session                                          *)
Taken(s, r) ==
    /\ Typed(r.scb) /\ r.scb.protocol = s.protocol
    /\ r.ready \in Seq(Ready)

LEMMA ContinueTyped ==
    ASSUME NEW s, NEW t, Typed(t), t.protocol = s.protocol
    PROVE  Taken(s, Continue(t))
<1>1. <<>> \in Seq(Ready)
  BY EmptySeq
<1> QED
  BY <1>1 DEF Taken, Continue

LEMMA FailTyped ==
    ASSUME NEW s, NEW t, Typed(t), t.protocol = s.protocol
    PROVE  Taken(s, Fail(t))
<1> DEFINE u == [t EXCEPT !.failed = TRUE]
<1>1. Typed(u) /\ u.protocol = s.protocol
  BY DEF Typed, Session
<1> HIDE DEF u
<1>2. Taken(s, Continue(u))
  BY <1>1, ContinueTyped
<1> QED
  BY <1>2 DEF Fail, u

LEMMA StepTyped ==
    ASSUME NEW s, NEW t, Typed(t), t.protocol = s.protocol,
           t.inendpos < MaxStartChunk,
           t.instate # "idle",
           t.instate = "inend" => t.inendpos < 5,
           t.instate = "inbetween" => t.inendpos < 2
    PROVE  Taken(s, Step(t))
<1> DEFINE u == [t EXCEPT !.inendpos = @ + 1]
<1>0. t \in Session /\ t.inendpos + 1 \in 0..MaxStartChunk
  <2>1. t \in Session /\ t.inendpos \in 0..MaxStartChunk
    BY DEF Typed, Session
  <2>2. MaxStartChunk \in Nat
    BY Sizes
  <2> QED
    BY <2>1, <2>2
<1>1. u \in Session
  BY <1>0 DEF Session
<1>2. /\ u.buffQ = t.buffQ /\ u.inendpos = t.inendpos + 1 /\ u.instate = t.instate
      /\ u.protocol = t.protocol /\ t.inendpos \in Nat
  BY DEF Typed, Session
<1> HIDE DEF u
<1>3. Typed(u) /\ u.protocol = s.protocol
  BY <1>1, <1>2 DEF Typed
<1>4. Taken(s, Continue(u))
  BY <1>3, ContinueTyped
<1> QED
  BY <1>4 DEF Step, u

LEMMA FinishTyped ==
    ASSUME NEW s, NEW t, Typed(t), t.protocol = s.protocol,
           NEW q \in Wall, q # <<>>, NEW n \in Int, n <= Len(Last(q))
    PROVE  Taken(s, Finish(t, q, n))
<1> DEFINE u == [t EXCEPT !.instate = "idle", !.inendpos = 0, !.buffQ = <<>>]
           m == [buffQ |-> q, bufflen |-> n]
<1>0. <<>> \in Wall /\ Len(<<>>) = 0
  BY EmptySeq DEF Wall
<1>1. u \in Session
  <2>1. 0 \in 0..MaxStartChunk
    BY Sizes
  <2>2. t \in Session /\ <<>> \in Seq(Seq(Byte))
    BY <1>0 DEF Typed, Wall, Data
  <2> QED
    BY <2>1, <2>2 DEF Session
<1>2. /\ u.buffQ = <<>> /\ u.inendpos = 0 /\ u.instate = "idle" /\ u.protocol = t.protocol
  BY DEF Typed, Session
<1>3. <<m>> \in Seq(Ready)
  <2>1. m \in Ready
    BY DEF Ready
  <2> HIDE DEF m
  <2> QED
    BY <2>1
<1>4. Finish(t, q, n).scb = u /\ Finish(t, q, n).ready = <<m>>
  BY DEF Finish
<1> HIDE DEF u, m
<1>5. Typed(u) /\ u.protocol = s.protocol
  BY <1>0, <1>1, <1>2 DEF Typed, Buffers
<1> QED
  BY <1>3, <1>4, <1>5 DEF Taken

LEMMA OldTyped ==
    ASSUME NEW s, Typed(s), s.protocol = "1.0", NEW ch \in Byte
    PROVE  Taken(s, accept_buffer_ssh_v10(s, ch))
<1> DEFINE buffers == Stored(Room(s.buffQ), ch)
           t == [s EXCEPT !.buffQ = buffers]
           p == s.inendpos
<1>1. Buffers(buffers) /\ buffers # <<>>
  BY RoomTyped, StoredTyped DEF Typed
<1>2. accept_buffer_ssh_v10(s, ch) =
        CASE s.instate = "inend" /\ ch = NC_SSH_END[p + 1] ->
                IF p + 1 = Len(NC_SSH_END)
                THEN Finish(t, buffers, Len(Last(buffers)) - Len(NC_SSH_END))
                ELSE Continue([t EXCEPT !.inendpos = @ + 1])
          [] s.instate # "inend" /\ ch = NC_SSH_END[1] ->
                Continue([t EXCEPT !.instate = "inend", !.inendpos = 1])
          [] OTHER -> Continue([t EXCEPT !.instate = "inmsg", !.inendpos = 0])
  BY DEF accept_buffer_ssh_v10
<1> HIDE DEF buffers
<1>3. t \in Session /\ t.buffQ = buffers /\ t.inendpos = p /\ t.instate = s.instate
      /\ t.protocol = "1.0"
  BY <1>1 DEF Typed, Session, Buffers, Wall, Data
<1>4. Typed(t)
  BY <1>1, <1>3 DEF Typed
<1> HIDE DEF t, p
<1>5. CASE s.instate = "inend" /\ ch = NC_SSH_END[p + 1]
  <2>1. p \in 1..5
    BY <1>5 DEF Typed, p
  <2>2. CASE p + 1 = Len(NC_SSH_END)
    <3> DEFINE n == Len(Last(buffers)) - Len(NC_SSH_END)
    <3>1. n \in Int /\ buffers \in Wall /\ n <= Len(Last(buffers))
      <4>1. Last(buffers) \in Data
        BY <1>1, FrontLast DEF Buffers
      <4>2. Len(Last(buffers)) \in Nat
        BY <4>1, LenProperties DEF Data
      <4> QED
        BY <1>1, <4>2, Sizes DEF Buffers
    <3> HIDE DEF n
    <3>2. Taken(s, Finish(t, buffers, n))
      BY <1>1, <1>3, <1>4, <3>1, FinishTyped
    <3>3. accept_buffer_ssh_v10(s, ch) = Finish(t, buffers, n)
      BY <1>2, <1>5, <2>2 DEF n
    <3> QED
      BY <3>2, <3>3
  <2>3. CASE p + 1 # Len(NC_SSH_END)
    <3>1. accept_buffer_ssh_v10(s, ch) = Step(t)
      BY <1>2, <1>5, <2>3 DEF Step
    <3>2. Taken(s, Step(t))
      <4>1. t.inendpos < 5 /\ t.inendpos < MaxStartChunk /\ t.instate = "inend"
        BY <1>3, <1>5, <2>1, <2>3, Sizes
      <4> QED
        BY <1>3, <1>4, <4>1, StepTyped
    <3> QED
      BY <3>1, <3>2
  <2> QED
    BY <2>2, <2>3
<1>6. CASE s.instate # "inend" /\ ch = NC_SSH_END[1]
  <2> DEFINE u == [t EXCEPT !.instate = "inend", !.inendpos = 1]
  <2>1. accept_buffer_ssh_v10(s, ch) = Continue(u)
    BY <1>2, <1>6
  <2>2. u \in Session /\ u.buffQ = t.buffQ /\ u.inendpos = 1 /\ u.instate = "inend"
        /\ u.protocol = "1.0"
    <3>1. 0 \in 0..MaxStartChunk /\ 1 \in 0..MaxStartChunk
      BY Sizes
    <3> QED
      BY <1>3, <3>1 DEF Session
  <2> HIDE DEF u
  <2>3. Typed(u)
    BY <1>4, <2>2 DEF Typed
  <2> QED
    BY <2>1, <2>2, <2>3, ContinueTyped
<1>7. CASE /\ ~(s.instate = "inend" /\ ch = NC_SSH_END[p + 1])
           /\ ~(s.instate # "inend" /\ ch = NC_SSH_END[1])
  <2> DEFINE u == [t EXCEPT !.instate = "inmsg", !.inendpos = 0]
  <2>1. accept_buffer_ssh_v10(s, ch) = Continue(u)
    BY <1>2, <1>7
  <2>2. u \in Session /\ u.buffQ = t.buffQ /\ u.inendpos = 0 /\ u.instate = "inmsg"
        /\ u.protocol = "1.0"
    <3>1. 0 \in 0..MaxStartChunk /\ 1 \in 0..MaxStartChunk
      BY Sizes
    <3> QED
      BY <1>3, <3>1 DEF Session
  <2> HIDE DEF u
  <2>3. Typed(u)
    BY <1>4, <2>2 DEF Typed
  <2> QED
    BY <2>1, <2>2, <2>3, ContinueTyped
<1> QED
  BY <1>5, <1>6, <1>7

LEMMA StartTyped ==
    ASSUME NEW s, NEW t, Typed(t), t.protocol = s.protocol, t.protocol = "1.1",
           t.instate = "instart", NEW ch \in Byte
    PROVE  Taken(s, InStart(t, ch))
<1> DEFINE p == t.inendpos
           Fst == [t EXCEPT !.startchunk = <<ch>>]
           Num == [t EXCEPT !.startchunk = Append(@, ch)]
           Msg == [t EXCEPT !.instate = "inmsg", !.inendpos = 0,
                            !.chunkleft = Number(t.startchunk)]
<1>1. InStart(t, ch) =
        CASE p = 1 -> IF ch = "#" THEN Step(t) ELSE Fail(t)
          [] p = 2 -> IF IsDigit1(ch) THEN Step(Fst) ELSE Fail(t)
          [] p = MaxStartChunk -> Fail(t)
          [] OTHER ->
                IF ch = "LF"
                THEN IF Number(t.startchunk) > MaxChunk THEN Fail(t) ELSE Continue(Msg)
                ELSE IF IsDigit(ch) THEN Step(Num) ELSE Fail(t)
  BY DEF InStart
<1>2. /\ t \in Session /\ p \in 0..MaxStartChunk /\ t.startchunk \in Seq(Digit)
      /\ MaxStartChunk \in Nat /\ MaxStartChunk >= 6
  BY Sizes DEF Typed, Session, Digit
<1>3. Taken(s, Fail(t))
  BY FailTyped
<1>4. p < MaxStartChunk => Taken(s, Step(t))
  BY StepTyped
<1>5. ASSUME IsDigit1(ch), p < MaxStartChunk PROVE Taken(s, Step(Fst))
  <2>1. <<ch>> \in Seq(Digit)
    BY <1>5, DigitFacts
  <2>2. Fst \in Session
    BY <1>2, <2>1 DEF Session, Digit
  <2>3. /\ Fst.buffQ = t.buffQ /\ Fst.inendpos = p /\ Fst.instate = t.instate
        /\ Fst.protocol = t.protocol
    BY <1>2 DEF Session
  <2> HIDE DEF Fst
  <2>4. Typed(Fst)
    BY <2>2, <2>3 DEF Typed
  <2> QED
    BY <1>5, <2>3, <2>4, StepTyped
<1>6. ASSUME IsDigit(ch), p < MaxStartChunk PROVE Taken(s, Step(Num))
  <2>1. Append(t.startchunk, ch) \in Seq(Digit)
    <3>1. ch \in Digit
      BY <1>6, DigitFacts
    <3> QED
      BY <1>2, <3>1, AppendProperties
  <2>2. Num \in Session
    BY <1>2, <2>1 DEF Session, Digit
  <2>3. /\ Num.buffQ = t.buffQ /\ Num.inendpos = p /\ Num.instate = t.instate
        /\ Num.protocol = t.protocol
    BY <1>2 DEF Session
  <2> HIDE DEF Num
  <2>4. Typed(Num)
    BY <2>2, <2>3 DEF Typed
  <2> QED
    BY <1>6, <2>3, <2>4, StepTyped
<1>7. Taken(s, Continue(Msg))
  <2>1. Number(t.startchunk) \in Nat
    BY <1>2, NumberType
  <2>2. 0 \in 0..MaxStartChunk
    BY <1>2
  <2>3. Msg \in Session
    BY <1>2, <2>1, <2>2 DEF Session
  <2>4. /\ Msg.buffQ = t.buffQ /\ Msg.inendpos = 0 /\ Msg.instate = "inmsg"
        /\ Msg.protocol = t.protocol
    BY <1>2 DEF Session
  <2> HIDE DEF Msg
  <2>5. Typed(Msg)
    BY <2>3, <2>4 DEF Typed
  <2> QED
    BY <2>4, <2>5, ContinueTyped
<1> HIDE DEF p, Fst, Num, Msg
<1>8. CASE p = 1
  BY <1>1, <1>2, <1>3, <1>4, <1>8
<1>9. CASE p = 2
  BY <1>1, <1>2, <1>3, <1>5, <1>9
<1>10. CASE p = MaxStartChunk
  <2>1. p # 1 /\ p # 2
    BY <1>2, <1>10
  <2> QED
    BY <1>1, <1>3, <1>10, <2>1
<1>11. CASE p # 1 /\ p # 2 /\ p # MaxStartChunk
  <2>1. p < MaxStartChunk
    BY <1>2, <1>11
  <2> QED
    BY <1>1, <1>3, <1>6, <1>7, <1>11, <2>1
<1> QED
  BY <1>8, <1>9, <1>10, <1>11

LEMMA BetweenTyped ==
    ASSUME NEW s, NEW t, Typed(t), t.protocol = s.protocol, t.protocol = "1.1",
           t.instate = "inbetween", NEW ch \in Byte
    PROVE  Taken(s, InBetween(t, ch))
<1> DEFINE p == t.inendpos
           End == [t EXCEPT !.instate = "inend"]
           Beg == [t EXCEPT !.instate = "instart"]
<1>1. InBetween(t, ch) =
        IF p = 0 THEN (IF ch = "LF" THEN Step(t) ELSE Fail(t))
        ELSE IF p = 1 THEN (IF ch = "#" THEN Step(t) ELSE Fail(t))
        ELSE IF ch = "#" THEN Step(End)
        ELSE IF IsDigit1(ch) THEN InStart(Beg, ch)
        ELSE Fail(t)
  BY DEF InBetween
<1>2. /\ t \in Session /\ p \in 0..2
      /\ MaxStartChunk \in Nat /\ MaxStartChunk >= 6
  BY Sizes DEF Typed, Session
<1>3. Taken(s, Fail(t))
  BY FailTyped
<1>4. p < 2 => Taken(s, Step(t))
  <2>1. p < 2 => p < MaxStartChunk
    BY <1>2
  <2> QED
    BY <2>1, StepTyped
<1>5. ASSUME p = 2 PROVE Taken(s, Step(End))
  <2>1. End \in Session
    BY <1>2 DEF Session
  <2>2. /\ End.buffQ = t.buffQ /\ End.inendpos = p /\ End.instate = "inend"
        /\ End.protocol = t.protocol
    BY <1>2 DEF Session
  <2>3. p < MaxStartChunk /\ p < 5 /\ p \in 1..5
    BY <1>2, <1>5
  <2> HIDE DEF End, p
  <2>4. Typed(End)
    BY <2>1, <2>2, <2>3 DEF Typed
  <2> QED
    BY <2>2, <2>3, <2>4, StepTyped
<1>6. Taken(s, InStart(Beg, ch))
  <2>1. Beg \in Session
    BY <1>2 DEF Session
  <2>2. /\ Beg.buffQ = t.buffQ /\ Beg.inendpos = p /\ Beg.instate = "instart"
        /\ Beg.protocol = t.protocol
    BY <1>2 DEF Session
  <2> HIDE DEF Beg, p
  <2>3. Typed(Beg)
    BY <2>1, <2>2 DEF Typed
  <2> QED
    BY <2>2, <2>3, StartTyped
<1> HIDE DEF p, End, Beg
<1>7. p = 0 \/ p = 1 \/ p = 2
  BY <1>2
<1>8. CASE p = 0
  BY <1>1, <1>3, <1>4, <1>8
<1>9. CASE p = 1
  BY <1>1, <1>3, <1>4, <1>9
<1>10. CASE p = 2
  <2>1. CASE ch = "#"
    BY <1>1, <1>5, <1>10, <2>1
  <2>2. CASE ch # "#" /\ IsDigit1(ch)
    BY <1>1, <1>6, <1>10, <2>2
  <2>3. CASE ch # "#" /\ ~IsDigit1(ch)
    BY <1>1, <1>3, <1>10, <2>3
  <2> QED
    BY <2>1, <2>2, <2>3
<1> QED
  BY <1>7, <1>8, <1>9, <1>10

LEMMA EndTyped ==
    ASSUME NEW s, NEW t, Typed(t), t.protocol = s.protocol, t.buffQ # <<>>,
           t.instate = "inend", NEW ch \in Byte
    PROVE  Taken(s, InEnd(t, ch))
<1> DEFINE p == t.inendpos
           n == Len(Last(t.buffQ))
<1>1. InEnd(t, ch) =
        CASE p = 2 -> IF ch = "#" THEN Step(t) ELSE Fail(t)
          [] p = 3 -> IF ch = "LF" THEN Finish(t, t.buffQ, n) ELSE Fail(t)
          [] OTHER -> Fail(t)
  BY DEF InEnd
<1>2. p \in 1..5 /\ MaxStartChunk \in Nat /\ MaxStartChunk >= 6
  BY Sizes DEF Typed
<1>3. Taken(s, Fail(t))
  BY FailTyped
<1>4. p = 2 => Taken(s, Step(t))
  <2>1. p = 2 => p < MaxStartChunk /\ p < 5
    BY <1>2
  <2> QED
    BY <2>1, StepTyped
<1>5. Taken(s, Finish(t, t.buffQ, n))
  <2>1. t.buffQ \in Wall
    BY DEF Typed, Buffers
  <2>2. Last(t.buffQ) \in Data
    BY <2>1, FrontLast
  <2>3. n \in Int /\ n <= Len(Last(t.buffQ))
    BY <2>2, LenProperties DEF Data
  <2> HIDE DEF n
  <2> QED
    BY <2>1, <2>3, FinishTyped
<1> HIDE DEF p, n
<1> QED
  BY <1>1, <1>3, <1>4, <1>5

LEMMA ChunkTyped ==
    ASSUME NEW s, NEW t, Typed(t), t.protocol = s.protocol, t.protocol = "1.1",
           t.buffQ # <<>>, Len(Last(t.buffQ)) < BuffSize,
           t.instate = "inmsg", NEW ch \in Byte
    PROVE  Taken(s, InChunk(t, ch))
<1> DEFINE u == IF t.chunkleft = 0 THEN t
                ELSE [t EXCEPT !.buffQ = Stored(@, ch), !.chunkleft = @ - 1]
           v == IF u.chunkleft = 0 THEN [u EXCEPT !.instate = "inbetween", !.inendpos = 0]
                ELSE u
<1>1. InChunk(t, ch) = Continue(v)
  BY DEF InChunk
<1>2. t \in Session /\ t.chunkleft \in Nat
  BY DEF Typed, Session
<1>3. Buffers(Stored(t.buffQ, ch))
  BY StoredTyped DEF Typed
<1>4. /\ u \in Session /\ u.instate = "inmsg" /\ u.protocol = "1.1" /\ Buffers(u.buffQ)
  <2>1. CASE t.chunkleft = 0
    BY <1>2, <2>1 DEF Typed
  <2>2. CASE t.chunkleft # 0
    <3>1. t.chunkleft - 1 \in Nat
      BY <1>2, <2>2
    <3>2. Stored(t.buffQ, ch) \in Seq(Seq(Byte))
      BY <1>3 DEF Buffers, Wall, Data
    <3>3. u = [t EXCEPT !.buffQ = Stored(t.buffQ, ch), !.chunkleft = t.chunkleft - 1]
      BY <2>2
    <3> HIDE DEF u
    <3>4. u \in Session
      BY <1>2, <3>1, <3>2, <3>3 DEF Session
    <3>5. u.buffQ = Stored(t.buffQ, ch) /\ u.instate = "inmsg" /\ u.protocol = "1.1"
      BY <1>2, <3>3 DEF Session
    <3> QED
      BY <1>3, <3>4, <3>5
  <2> QED
    BY <2>1, <2>2
<1> HIDE DEF u
<1>5. /\ v \in Session /\ v.protocol = "1.1" /\ v.buffQ = u.buffQ
      /\ v.instate = "inmsg" \/ (v.instate = "inbetween" /\ v.inendpos = 0)
  <2>1. 0 \in 0..MaxStartChunk
    BY Sizes
  <2> QED
    BY <1>4, <2>1 DEF Session
<1> HIDE DEF v
<1>6. Typed(v)
  BY <1>4, <1>5 DEF Typed
<1> QED
  BY <1>1, <1>5, <1>6, ContinueTyped

LEMMA NewTyped ==
    ASSUME NEW s, Typed(s), s.protocol = "1.1", NEW ch \in Byte
    PROVE  Taken(s, accept_buffer_ssh_v11(s, ch))
<1> DEFINE t == [s EXCEPT !.buffQ = Room(@)]
           u == [t EXCEPT !.instate = "instart", !.inendpos = 1]
<1>1. accept_buffer_ssh_v11(s, ch) =
        CASE s.instate = "idle" -> IF ch = "LF" THEN Continue(u) ELSE Fail(t)
          [] s.instate = "instart"   -> InStart(t, ch)
          [] s.instate = "inmsg"     -> InChunk(t, ch)
          [] s.instate = "inbetween" -> InBetween(t, ch)
          [] OTHER                   -> InEnd(t, ch)
  BY DEF accept_buffer_ssh_v11
<1>2. Buffers(Room(s.buffQ)) /\ Room(s.buffQ) # <<>> /\ Len(Last(Room(s.buffQ))) < BuffSize
  BY RoomTyped DEF Typed
<1>3. s \in Session /\ s.instate \in {"idle", "instart", "inmsg", "inbetween", "inend"}
  BY DEF Typed, Session
<1>4. t \in Session
  <2>1. Room(s.buffQ) \in Seq(Seq(Byte))
    BY <1>2 DEF Buffers, Wall, Data
  <2> QED
    BY <1>3, <2>1 DEF Session
<1>5. /\ t.buffQ = Room(s.buffQ) /\ t.inendpos = s.inendpos /\ t.instate = s.instate
      /\ t.protocol = "1.1"
  BY <1>3 DEF Session
<1> HIDE DEF t
<1>6. Typed(t)
  BY <1>2, <1>4, <1>5 DEF Typed
<1>7. Taken(s, Fail(t))
  BY <1>5, <1>6, FailTyped
<1>8. Taken(s, Continue(u))
  <2>1. 1 \in 0..MaxStartChunk
    BY Sizes
  <2>2. u \in Session /\ u.buffQ = t.buffQ /\ u.instate = "instart" /\ u.protocol = "1.1"
    BY <1>4, <1>5, <2>1 DEF Session
  <2> HIDE DEF u
  <2>3. Typed(u)
    BY <1>6, <2>2 DEF Typed
  <2> QED
    BY <2>2, <2>3, ContinueTyped
<1>9. s.instate = "instart" => Taken(s, InStart(t, ch))
  BY <1>5, <1>6, StartTyped
<1>10. s.instate = "inmsg" => Taken(s, InChunk(t, ch))
  BY <1>2, <1>5, <1>6, ChunkTyped
<1>11. s.instate = "inbetween" => Taken(s, InBetween(t, ch))
  BY <1>5, <1>6, BetweenTyped
<1>12. s.instate = "inend" => Taken(s, InEnd(t, ch))
  BY <1>2, <1>5, <1>6, EndTyped
<1> HIDE DEF u
<1> QED
  BY <1>1, <1>3, <1>7, <1>8, <1>9, <1>10, <1>11, <1>12

(* The session and the messages that a read completes                      *)
Result == {r \in [scb : Session, ready : Seq(Ready)] : Typed(r.scb)}

LEMMA AcceptTyped ==
    ASSUME NEW r \in Result, NEW ch \in Byte
    PROVE  /\ Accept(r, ch) \in Result
           /\ Accept(r, ch).scb.protocol = r.scb.protocol
<1> DEFINE next == IF r.scb.protocol = "1.0" THEN accept_buffer_ssh_v10(r.scb, ch)
                   ELSE accept_buffer_ssh_v11(r.scb, ch)
           a == [scb |-> next.scb, ready |-> r.ready \o next.ready]
<1>1. Typed(r.scb) /\ r.ready \in Seq(Ready) /\ r.scb.protocol \in {"1.0", "1.1"}
  BY DEF Result, Session
<1>2. Taken(r.scb, next)
  BY <1>1, OldTyped, NewTyped
<1>3. Accept(r, ch) = IF r.scb.failed THEN r ELSE a
  BY DEF Accept
<1> HIDE DEF next
<1>4. r.ready \o next.ready \in Seq(Ready)
  BY <1>1, <1>2, ConcatProperties DEF Taken
<1>5. a \in Result /\ a.scb.protocol = r.scb.protocol
  BY <1>2, <1>4 DEF Taken, Result, Typed
<1> HIDE DEF a
<1> QED
  BY <1>3, <1>5

Reads(s, bytes, r) ==
    /\ r \in [0..Len(bytes) -> Result]
    /\ r[0] = Continue(s)
    /\ \A i \in 1..Len(bytes) : r[i] = Accept(r[i - 1], bytes[i])
    /\ AcceptAll(s, bytes) = r[Len(bytes)]

LEMMA AcceptAllIs ==
    ASSUME NEW s, Typed(s), NEW bytes \in Data
    PROVE  \E r : Reads(s, bytes, r)
<1> DEFINE f == [i \in 1..Len(bytes) |-> [x \in Result |-> Accept(x, bytes[i])]]
           Def(g) == [i \in 0..Len(bytes) |->
                         IF i = 0 THEN Continue(s) ELSE Accept(g[i - 1], bytes[i])]
           c == CHOOSE g : g = Def(g)
<1>1. Len(bytes) \in Nat /\ \A i \in 1..Len(bytes) : bytes[i] \in Byte
  BY ElementOfSeq, LenProperties DEF Data
<1>2. Continue(s) \in Result
  <2>1. <<>> \in Seq(Ready)
    BY EmptySeq
  <2> QED
    BY <2>1 DEF Continue, Result, Typed
<1>3. f \in [1..Len(bytes) -> [Result -> Result]]
  <2>1. \A i \in 1..Len(bytes) : \A x \in Result : Accept(x, bytes[i]) \in Result
    BY <1>1, AcceptTyped
  <2> QED
    BY <2>1
<1>4. \A i \in 1..Len(bytes) : \A x \in Result : f[i][x] = Accept(x, bytes[i])
  OBVIOUS
<1> HIDE DEF f
<1>5. PICK r \in [0..Len(bytes) -> Result] : Iterates(Len(bytes), Continue(s), f, r)
  BY <1>1, <1>2, <1>3, Recursion
<1>6. \A i \in 1..Len(bytes) : r[i] = Accept(r[i - 1], bytes[i])
  <2> TAKE i \in 1..Len(bytes)
  <2>1. i - 1 \in 0..Len(bytes)
    BY <1>1
  <2>2. r[i - 1] \in Result
    BY <2>1
  <2> QED
    BY <1>4, <1>5, <2>2 DEF Iterates
<1>7. r[0] = Continue(s)
  BY <1>5 DEF Iterates
<1>8. r = Def(r)
  <2>1. \A i \in 0..Len(bytes) :
           r[i] = IF i = 0 THEN Continue(s) ELSE Accept(r[i - 1], bytes[i])
    BY <1>1, <1>6, <1>7
  <2> QED
    BY <2>1
<1>9. c = Def(c)
  <2> HIDE DEF Def
  <2> QED
    BY <1>8
<1>10. AcceptAll(s, bytes) = c[Len(bytes)]
  BY DEF AcceptAll
<1> HIDE DEF c
<1>11. \A i \in 0..Len(bytes) :
          c[i] = IF i = 0 THEN Continue(s) ELSE Accept(c[i - 1], bytes[i])
  BY <1>9
<1> DEFINE S == {i \in 0..Len(bytes) : c[i] = r[i]}
<1>12. 0 \in S
  BY <1>1, <1>7, <1>11
<1>13. ASSUME NEW i \in 1..Len(bytes), i - 1 \in S PROVE i \in S
  <2>1. c[i - 1] = r[i - 1]
    BY <1>13
  <2>2. c[i] = Accept(c[i - 1], bytes[i])
    BY <1>1, <1>11
  <2>3. c[i] = r[i]
    BY <1>6, <2>1, <2>2
  <2> QED
    BY <1>1, <2>3
<1>14. \A i \in 0..Len(bytes) : i \in S
  <2> HIDE DEF S
  <2> QED
    BY <1>1, <1>12, <1>13, UpTo
<1>15. c[Len(bytes)] = r[Len(bytes)]
  BY <1>1, <1>14
<1> QED
  BY <1>6, <1>7, <1>10, <1>15 DEF Reads

LEMMA SeenTyped ==
    ASSUME NEW msg \in Ready
    PROVE  Seen(msg) \in Seq(Byte \cup {Garbage})
<1> DEFINE q == msg.buffQ
           n == msg.bufflen
           l == Last(q)
           a == FlattenSeq(Front(q))
           T == Byte \cup {Garbage}
<1>1. q \in Wall /\ q # <<>> /\ n \in Int /\ n <= Len(l)
  BY DEF Ready
<1>2. l \in Data /\ a \in Data
  BY <1>1, FrontLast
<1>3. Seen(msg) = IF n > 0 THEN a \o SubSeq(l, 1, n) ELSE Append(a \o l, Garbage)
  BY DEF Seen
<1> HIDE DEF q, n, l, a
<1>4. Byte \subseteq T /\ Garbage \in T
  OBVIOUS
<1> SUFFICES Seen(msg) \in Seq(T)
  OBVIOUS
<1> HIDE DEF T
<1>5. CASE n > 0
  <2>1. n \in Nat
    BY <1>1, <1>5
  <2>2. SubSeq(l, 1, n) \in Data
    BY <1>1, <1>2, <2>1, Beginning
  <2>3. a \o SubSeq(l, 1, n) \in Data
    BY <1>2, <2>2, Joined
  <2> QED
    BY <1>3, <1>4, <1>5, <2>3, SeqMonotonic DEF Data
<1>6. CASE ~(n > 0)
  <2>1. a \o l \in Data
    BY <1>2, Joined
  <2>2. a \o l \in Seq(T)
    BY <1>4, <2>1, SeqMonotonic DEF Data
  <2> QED
    BY <1>3, <1>4, <1>6, <2>2, AppendProperties
<1> QED
  BY <1>5, <1>6

LEMMA MessageIs ==
    ASSUME NEW m \in Messages
    PROVE  /\ m \in Data /\ Len(m) \in Nat /\ Len(m) > 2
           /\ m[Len(m)] = ">"
           /\ SubSeq(m, Len(m) - 2, Len(m)) # <<"]", "]", ">">>
           /\ \A i \in 1..(Len(m) - 5) : SubSeq(m, i, i + 5) # NC_SSH_END
BY MessageAssumption DEF Data

LEMMA SizesOfChunks == {OwnChunkSize} \cup ChunkSizes \subseteq 1..MaxChunk
BY SizeAssumption DEF OwnChunkSize

TInv ==
    /\ agreed \in {"1.0", "1.1"}
    /\ sent \in Seq(Messages) /\ Len(sent) <= MaxSent
    /\ net \in Data
    /\ Typed(scb)
    /\ msgQ \in Seq(Ready)
    /\ delivered \in Seq(Seq(Byte \cup {Garbage}))
    /\ delivered = <<>> => scb.protocol = "1.0"

LEMMA TInvInit == Init => TInv
<1> SUFFICES ASSUME Init PROVE TInv
  OBVIOUS
<1>1. sent = <<>> /\ net = <<>> /\ msgQ = <<>> /\ delivered = <<>>
      /\ agreed \in {"1.0", "1.1"} /\ scb.protocol = "1.0"
  BY DEF Init
<1>2. sent \in Seq(Messages) /\ Len(sent) <= MaxSent
  BY <1>1, EmptySeq, SizeAssumption
<1>3. net \in Data
  BY <1>1, EmptySeq DEF Data
<1>4. msgQ \in Seq(Ready) /\ delivered \in Seq(Seq(Byte \cup {Garbage}))
  BY <1>1, EmptySeq
<1>5. Typed(scb)
  <2>0. 0 \in 0..MaxStartChunk
    BY Sizes
  <2>1. <<>> \in Seq(ToSet(Digits)) /\ <<>> \in Seq(Seq(Byte))
    BY EmptySeq
  <2>2. scb \in Session
    BY <2>0, <2>1 DEF Init, Session
  <2>3. scb.buffQ = <<>> /\ scb.inendpos = 0 /\ scb.instate = "idle"
    BY DEF Init
  <2>4. Buffers(<<>>)
    BY EmptySeq DEF Buffers, Wall
  <2> QED
    BY <2>2, <2>3, <2>4 DEF Typed
<1> QED
  BY <1>1, <1>2, <1>3, <1>4, <1>5 DEF TInv

LEMMA TInvTransmit ==
    ASSUME TInv, NEW m \in Messages, NEW bytes \in Data, Transmit(m, bytes),
           Len(sent) < MaxSent
    PROVE  TInv'
<1>1. sent' \in Seq(Messages) /\ Len(sent') <= MaxSent
  <2>1. sent \in Seq(Messages) /\ Len(sent) \in Nat /\ MaxSent \in Nat
    BY SizeAssumption DEF TInv
  <2>2. sent' = Append(sent, m)
    BY DEF Transmit
  <2>3. Append(sent, m) \in Seq(Messages) /\ Len(Append(sent, m)) = Len(sent) + 1
    BY <2>1, AppendProperties
  <2> QED
    BY <2>1, <2>2, <2>3
<1>2. net' \in Data
  BY Joined DEF TInv, Transmit
<1> QED
  BY <1>1, <1>2 DEF TInv, Transmit

LEMMA TInvRead ==
    ASSUME TInv, NEW k \in 1..ReadSize, ses_accept_input(k)
    PROVE  TInv'
<1> DEFINE bytes == SubSeq(net, 1, k)
<1>1. k \in Nat /\ k <= Len(net) /\ net \in Data
  BY SizeAssumption DEF TInv, ses_accept_input
<1>2. bytes \in Data /\ Len(bytes) = k
  BY <1>1, Beginning
<1>3. SubSeq(net, k + 1, Len(net)) \in Data
  <2>1. Len(net) \in Nat
    BY <1>1, LenProperties DEF Data
  <2>2. k + 1 \in Nat \ {0} /\ k + 1 <= Len(net) + 1
    BY <1>1, <2>1
  <2> QED
    BY <1>1, <2>1, <2>2, Cut
<1>4. scb' = AcceptAll(scb, bytes).scb /\ msgQ' = msgQ \o AcceptAll(scb, bytes).ready
  BY DEF ses_accept_input
<1> HIDE DEF bytes
<1>5. PICK r : Reads(scb, bytes, r)
  BY <1>2, AcceptAllIs DEF TInv
<1>6. AcceptAll(scb, bytes) \in Result
  BY <1>1, <1>2, <1>5 DEF Reads
<1>7. r[Len(bytes)].scb.protocol = scb.protocol
  <2> DEFINE S == {i \in 0..Len(bytes) : r[i].scb.protocol = scb.protocol}
  <2>1. 0 \in S
    BY <1>1, <1>2, <1>5 DEF Reads, Continue
  <2>2. ASSUME NEW i \in 1..Len(bytes), i - 1 \in S PROVE i \in S
    <3>1. r[i - 1] \in Result /\ bytes[i] \in Byte /\ r[i] = Accept(r[i - 1], bytes[i])
      BY <1>1, <1>2, <1>5, ElementOfSeq DEF Reads, Data
    <3>2. r[i].scb.protocol = r[i - 1].scb.protocol
      BY <3>1, AcceptTyped
    <3> QED
      BY <1>1, <1>2, <2>2, <3>2
  <2>3. \A i \in 0..Len(bytes) : i \in S
    <3> HIDE DEF S
    <3> QED
      BY <1>1, <1>2, <2>1, <2>2, UpTo
  <2> QED
    BY <1>1, <1>2, <2>3
<1>8. Typed(scb') /\ scb'.protocol = scb.protocol
  BY <1>4, <1>5, <1>6, <1>7 DEF Result, Reads
<1>9. msgQ' \in Seq(Ready)
  <2>1. AcceptAll(scb, bytes).ready \in Seq(Ready)
    BY <1>6 DEF Result
  <2> QED
    BY <1>4, <2>1, ConcatProperties DEF TInv
<1> QED
  BY <1>3, <1>8, <1>9 DEF TInv, ses_accept_input

LEMMA TInvProcess ==
    ASSUME TInv, agt_ses_process_first_ready
    PROVE  TInv'
<1>1. /\ msgQ \in Seq(Ready) /\ msgQ # <<>> /\ delivered \in Seq(Seq(Byte \cup {Garbage}))
      /\ Typed(scb) /\ agreed \in {"1.0", "1.1"}
  BY DEF TInv, agt_ses_process_first_ready
<1>2. Head(msgQ) \in Ready /\ Tail(msgQ) \in Seq(Ready)
  BY <1>1, HeadTailProperties
<1>3. Seen(Head(msgQ)) \in Seq(Byte \cup {Garbage})
  BY <1>2, SeenTyped
<1>4. delivered' = Append(delivered, Seen(Head(msgQ)))
  BY DEF agt_ses_process_first_ready
<1>5. delivered' \in Seq(Seq(Byte \cup {Garbage})) /\ delivered' # <<>>
  <2> DEFINE T == Seq(Byte \cup {Garbage})
  <2>1. delivered \in Seq(T) /\ Seen(Head(msgQ)) \in T
    BY <1>1, <1>3
  <2> HIDE DEF T
  <2>2. delivered' \in Seq(T) /\ delivered' # <<>>
    BY <1>4, <2>1, AppendProperties
  <2> QED
    BY <2>2 DEF T
<1>6. Typed(scb')
  <2> DEFINE s == [scb EXCEPT !.protocol = agreed]
  <2>1. CASE delivered = <<>>
    <3>1. scb' = s /\ scb.protocol = "1.0"
      BY <2>1 DEF TInv, agt_ses_process_first_ready
    <3>2. s \in Session
      BY <1>1 DEF Typed, Session
    <3>3. s.buffQ = scb.buffQ /\ s.inendpos = scb.inendpos /\ s.instate = scb.instate
      BY <1>1 DEF Typed, Session
    <3>4. Typed(s)
      <4> HIDE DEF s
      <4> QED
        BY <1>1, <3>1, <3>2, <3>3 DEF Typed
    <3> QED
      BY <3>1, <3>4
  <2>2. CASE delivered # <<>>
    BY <1>1, <2>2 DEF agt_ses_process_first_ready
  <2> QED
    BY <2>1, <2>2
<1> QED
  BY <1>2, <1>5, <1>6 DEF TInv, agt_ses_process_first_ready

LEMMA TInvNext == TInv /\ [Next]_vars => TInv'
<1> SUFFICES ASSUME TInv, [Next]_vars PROVE TInv'
  OBVIOUS
<1>1. ASSUME NEW m \in Messages, SendEOM(m) PROVE TInv'
  <2>1. m \o NC_SSH_END \in Data
    BY MessageIs, Sizes, Joined
  <2> QED
    BY <1>1, <2>1, TInvTransmit DEF SendEOM
<1>2. ASSUME NEW m \in Messages, NEW size \in {OwnChunkSize} \cup ChunkSizes,
             SendChunks(m, size)
      PROVE  TInv'
  <2>1. size \in 1..MaxChunk /\ m \in Data /\ Len(m) >= 1
    BY SizesOfChunks, MessageIs
  <2>2. Chunks(m, size) \in Data
    BY <2>1, ChunksAre, BodyType
  <2> QED
    BY <1>2, <2>2, TInvTransmit DEF SendChunks
<1>3. CASE Read
  BY <1>3, TInvRead DEF Read
<1>4. CASE agt_ses_process_first_ready
  BY <1>4, TInvProcess
<1>5. CASE UNCHANGED vars
  BY <1>5 DEF vars, TInv
<1> QED
  BY <1>1, <1>2, <1>3, <1>4, <1>5 DEF Next

(* Every variable keeps its type, whatever the peer sends in whatever      *)
(* pieces: the buffers stay within their size, the digits of a chunk size  *)
(* within startchunk, and a session that is idle is not inside a mark      *)
(* (accept_buffer_ssh_v10, accept_buffer_ssh_v11, ses_accept_input).       *)
THEOREM TypeCorrect == Spec => []TypeOK
<1>1. TInv => TypeOK
  <2> SUFFICES ASSUME TInv PROVE TypeOK
    OBVIOUS
  <2>1. scb \in Session /\ Buffers(scb.buffQ) /\ (scb.inendpos > 0 => scb.instate # "idle")
    BY DEF TInv, Typed
  <2>2. \A i \in DOMAIN scb.buffQ : Len(scb.buffQ[i]) <= BuffSize
    BY <2>1 DEF Buffers, Wall
  <2>3. \A i \in DOMAIN msgQ : /\ msgQ[i].buffQ \in Seq(Seq(Byte)) \ {<<>>}
                               /\ msgQ[i].bufflen \in Int
    <3>1. \A i \in DOMAIN msgQ : msgQ[i] \in Ready
      BY DEF TInv
    <3> QED
      BY <3>1 DEF Ready, Wall, Data
  <2> QED
    BY <2>1, <2>2, <2>3 DEF TInv, TypeOK, Data
<1> QED
  BY <1>1, TInvInit, TInvNext, PTL DEF Spec

-----------------------------------------------------------------------------
(* The old framing, byte by byte                                           *)

(* What is left of a piece of data after its first bytes                   *)
LEMMA NextByte ==
    ASSUME NEW w \in Data, NEW c \in Nat, c < Len(w)
    PROVE  /\ w[c + 1] \in Byte
           /\ SubSeq(w, c + 1, Len(w)) # <<>>
           /\ Head(SubSeq(w, c + 1, Len(w))) = w[c + 1]
           /\ Tail(SubSeq(w, c + 1, Len(w))) = SubSeq(w, c + 2, Len(w))
           /\ SubSeq(w, c + 1, Len(w)) \in Data
           /\ SubSeq(w, 1, c + 1) = Append(SubSeq(w, 1, c), w[c + 1])
<1>1. /\ Len(w) \in Nat /\ c + 1 \in 1..Len(w) /\ Len(w) \in (c + 1)..Len(w)
      /\ c + 1 \in 1..(c + 1) /\ w \in Seq(Byte)
  BY LenProperties DEF Data
<1>2. w[c + 1] \in Byte
  BY <1>1, ElementOfSeq
<1>3. /\ Head(SubSeq(w, c + 1, Len(w))) = w[c + 1]
      /\ Tail(SubSeq(w, c + 1, Len(w))) = SubSeq(w, (c + 1) + 1, Len(w))
  BY <1>1, HeadTailOfSubSeq
<1>4. (c + 1) + 1 = c + 2
  OBVIOUS
<1>5. SubSeq(w, c + 1, Len(w)) \in Data /\ Len(SubSeq(w, c + 1, Len(w))) = Len(w) - (c + 1) + 1
  <2>1. c + 1 \in Nat \ {0} /\ Len(w) \in Nat /\ c + 1 <= Len(w) + 1 /\ Len(w) <= Len(w)
    BY <1>1
  <2> QED
    BY <2>1, Cut
<1>6. SubSeq(w, c + 1, Len(w)) # <<>>
  <2>1. Len(SubSeq(w, c + 1, Len(w))) # 0
    <3> DEFINE l == Len(SubSeq(w, c + 1, Len(w)))
    <3>1. l = Len(w) - (c + 1) + 1
      BY <1>5
    <3> HIDE DEF l
    <3>2. l # 0
      BY <1>1, <3>1
    <3> QED
      BY <3>2 DEF l
  <2>2. Len(<<>>) = 0
    OBVIOUS
  <2> QED
    BY <2>1, <2>2
<1>7. SubSeq(w, 1, c + 1) = SubSeq(w, 1, (c + 1) - 1) \o <<w[c + 1]>>
  <2>1. 1 \in 1..Len(w) /\ c + 1 \in 1..Len(w)
    BY <1>1
  <2> QED
    BY <1>1, <2>1, SubSeqRecursiveSecond
<1>8. (c + 1) - 1 = c
  OBVIOUS
<1>9. SubSeq(w, 1, c) \in Seq(Byte)
  <2>1. SubSeq(w, 1, c) \in Data
    BY Beginning
  <2> QED
    BY <2>1 DEF Data
<1>10. Append(SubSeq(w, 1, c), w[c + 1]) = SubSeq(w, 1, c) \o <<w[c + 1]>>
  BY <1>2, <1>9, AppendIsConcat
<1> QED
  BY <1>2, <1>3, <1>4, <1>5, <1>6, <1>7, <1>8, <1>10

Idle(s) == s.instate = "idle" /\ s.inendpos = 0 /\ Packed(s.buffQ, <<>>)

(* c bytes of the frame w of m are taken, the last p of them could begin   *)
(* the end mark                                                            *)
Matched(m, w, c, p) ==
    /\ c \in 0..(Len(m) + 5) /\ p \in 0..5 /\ p <= c
    /\ \A j \in 1..p : w[c - p + j] = NC_SSH_END[j]
    /\ c >= Len(m) => p = c - Len(m)

(* The session is in the frame of m, and rem is left of it.                *)
InOldFrame(s, m, rem) ==
    LET w == m \o NC_SSH_END
    IN  \E c \in 0..(Len(m) + 5) :
           /\ Matched(m, w, c, s.inendpos)
           /\ rem = SubSeq(w, c + 1, Len(w))
           /\ Packed(s.buffQ, SubSeq(w, 1, c))
           /\ c = 0 => s.instate = "idle"
           /\ c > 0 => s.instate = IF s.inendpos > 0 THEN "inend" ELSE "inmsg"

LEMMA OldWhole ==
    ASSUME NEW m \in Messages
    PROVE  LET w == m \o NC_SSH_END
           IN  /\ w \in Data /\ Len(w) = Len(m) + 6
               /\ \A i \in 1..Len(m) : w[i] = m[i]
               /\ \A j \in 1..6 : w[Len(m) + j] = NC_SSH_END[j]
<1>1. m \in Data
  BY MessageIs
<1> DEFINE w == m \o NC_SSH_END
<1>2. /\ w \in Data /\ Len(w) = Len(m) + Len(NC_SSH_END)
      /\ \A i \in 1..Len(m) : w[i] = m[i]
      /\ \A j \in 1..Len(NC_SSH_END) : w[Len(m) + j] = NC_SSH_END[j]
  BY <1>1, Sizes, Joined
<1> HIDE DEF w
<1>3. /\ w \in Data /\ Len(w) = Len(m) + 6
      /\ \A i \in 1..Len(m) : w[i] = m[i]
      /\ \A j \in 1..6 : w[Len(m) + j] = NC_SSH_END[j]
  BY <1>2, Sizes
<1> QED
  BY <1>3 DEF w

(* The end mark does not begin in a message and is not found in it.        *)
LEMMA NoFalseEnd ==
    ASSUME NEW m \in Messages, NEW c, NEW p,
           Matched(m, m \o NC_SSH_END, c, p)
    PROVE  LET w == m \o NC_SSH_END
               ch == w[c + 1]
           IN  /\ c < Len(m) /\ p = 5 => ch # NC_SSH_END[6]
               /\ c + 1 = Len(m) /\ p < 5 => ch # NC_SSH_END[p + 1]
               /\ c >= Len(m) => ch = NC_SSH_END[p + 1]
<1> DEFINE w == m \o NC_SSH_END
           n == Len(m)
           E == NC_SSH_END
<1>1. /\ m \in Data /\ n \in Nat /\ n > 2 /\ m[n] = ">"
      /\ SubSeq(m, n - 2, n) # <<"]", "]", ">">>
      /\ \A i \in 1..(n - 5) : SubSeq(m, i, i + 5) # E
  BY MessageIs
<1>2. /\ \A i \in 1..n : w[i] = m[i]
      /\ \A j \in 1..6 : w[n + j] = E[j]
  BY OldWhole
<1>3. /\ c \in 0..(n + 5) /\ p \in 0..5 /\ p <= c
      /\ \A j \in 1..p : w[c - p + j] = E[j]
      /\ c >= n => p = c - n
  BY DEF Matched
<1>4. /\ E = <<"]", "]", ">", "]", "]", ">">>
  BY DEF NC_SSH_END
<1> HIDE DEF w, n, E
<1>5. /\ E[1] = "]" /\ E[2] = "]" /\ E[3] = ">" /\ E[4] = "]" /\ E[5] = "]" /\ E[6] = ">"
      /\ E \in Data /\ Len(E) = 6
  BY <1>4, Sizes DEF E
<1>6. ASSUME c < n, p = 5, w[c + 1] = E[6] PROVE FALSE
  <2> DEFINE i == c - 4
             x == SubSeq(m, i, i + 5)
  <2>1. i \in 1..(n - 5) /\ i + 5 = c + 1 /\ c + 1 \in 1..n /\ i \in Nat \ {0} /\ i + 5 \in Nat
    BY <1>1, <1>3, <1>6
  <2>2. \A k \in 1..6 : m[i - 1 + k] = E[k]
    <3> TAKE k \in 1..6
    <3>1. i - 1 + k \in 1..n /\ i - 1 + k = c - 5 + k
      BY <1>1, <1>3, <1>6
    <3>2. w[i - 1 + k] = m[i - 1 + k]
      BY <1>2, <3>1
    <3>3. CASE k = 6
      <4>1. i - 1 + k = c + 1
        BY <1>3, <3>3
      <4> QED
        BY <1>6, <3>2, <3>3, <4>1
    <3>4. CASE k # 6
      <4>1. k \in 1..p
        BY <1>6, <3>4
      <4>2. w[c - p + k] = E[k]
        BY <1>3, <4>1
      <4>3. c - p + k = i - 1 + k
        BY <1>3, <1>6
      <4> QED
        BY <3>2, <4>2, <4>3
    <3> QED
      BY <3>3, <3>4
  <2> HIDE DEF i
  <2>3. x \in Data /\ Len(x) = 6 /\ \A k \in 1..6 : x[k] = m[i - 1 + k]
    <3> DEFINE e == i + 5
    <3>1. e \in Nat /\ i <= e + 1 /\ e <= Len(m) /\ e - i + 1 = 6
      BY <1>1, <2>1 DEF n
    <3> HIDE DEF e
    <3>2. /\ SubSeq(m, i, e) \in Data /\ Len(SubSeq(m, i, e)) = e - i + 1
          /\ \A k \in 1..(e - i + 1) : SubSeq(m, i, e)[k] = m[i - 1 + k]
      BY <1>1, <2>1, <3>1, Cut
    <3>3. x = SubSeq(m, i, e)
      BY DEF e
    <3> HIDE DEF x
    <3> QED
      BY <3>1, <3>2, <3>3
  <2> HIDE DEF x
  <2>5. Len(x) = Len(E) /\ \A k \in 1..Len(x) : x[k] = E[k]
    BY <1>5, <2>2, <2>3
  <2>6. x = E
    BY <1>5, <2>3, <2>5, SeqEqual DEF Data
  <2> QED
    BY <1>1, <2>1, <2>6 DEF x
<1>7. ASSUME c + 1 = n, p < 5, w[c + 1] = E[p + 1] PROVE FALSE
  <2>1. w[c + 1] = ">"
    BY <1>1, <1>2, <1>7
  <2>2. p = 2
    <3>1. p = 0 \/ p = 1 \/ p = 2 \/ p = 3 \/ p = 4
      BY <1>3, <1>7
    <3>2. E[p + 1] = ">"
      BY <1>7, <2>1
    <3>3. E[0 + 1] # ">" /\ E[1 + 1] # ">" /\ E[3 + 1] # ">" /\ E[4 + 1] # ">"
      BY <1>5
    <3> QED
      BY <3>1, <3>2, <3>3
  <2> DEFINE x == SubSeq(m, n - 2, n)
             y == <<"]", "]", ">">>
             i == n - 2
  <2>3. i \in Nat \ {0} /\ n \in Nat /\ i <= n + 1 /\ n <= Len(m) /\ n - i + 1 = 3
        /\ i - 1 + 1 = n - 2 /\ i - 1 + 2 = n - 1 /\ i - 1 + 3 = n
    BY <1>1 DEF n
  <2>4. w[n - 2] = "]" /\ w[n - 1] = "]"
    <3>1. 1 \in 1..p /\ 2 \in 1..p /\ c - p + 1 = n - 2 /\ c - p + 2 = n - 1
      BY <1>3, <1>7, <2>2
    <3>2. w[c - p + 1] = E[1] /\ w[c - p + 2] = E[2]
      BY <1>3, <3>1
    <3> QED
      BY <1>5, <3>1, <3>2
  <2>5. m[n - 2] = "]" /\ m[n - 1] = "]" /\ m[n] = ">"
    BY <1>1, <1>2, <2>4
  <2> HIDE DEF i
  <2>6. /\ SubSeq(m, i, n) \in Data /\ Len(SubSeq(m, i, n)) = n - i + 1
        /\ \A k \in 1..(n - i + 1) : SubSeq(m, i, n)[k] = m[i - 1 + k]
    BY <1>1, <2>3, Cut
  <2>7. x = SubSeq(m, i, n)
    BY DEF i
  <2>8. y \in Data /\ Len(y) = 3 /\ y[1] = "]" /\ y[2] = "]" /\ y[3] = ">"
    BY DEF Data, Byte
  <2> HIDE DEF x, y
  <2>9. x[1] = "]" /\ x[2] = "]" /\ x[3] = ">" /\ Len(x) = 3 /\ x \in Data
    BY <2>3, <2>5, <2>6, <2>7
  <2>10. x = y
    <3>1. \A k \in 1..Len(x) : x[k] = y[k]
      BY <2>8, <2>9
    <3> QED
      BY <2>8, <2>9, <3>1, SeqEqual DEF Data
  <2> QED
    BY <1>1, <2>10 DEF x, y
<1>8. c >= n => w[c + 1] = E[p + 1]
  <2> SUFFICES ASSUME c >= n PROVE w[c + 1] = E[p + 1]
    OBVIOUS
  <2>1. p + 1 \in 1..6 /\ n + (p + 1) = c + 1
    BY <1>1, <1>3
  <2> QED
    BY <1>2, <2>1
<1> QED
  BY <1>6, <1>7, <1>8 DEF w, n, E

(* A byte of the frame of m: the session is further in the frame, or the   *)
(* message is complete and what the reader will see of it is as it should  *)
(* be.                                                                     *)
Further(m, rem, t, ready, inFrame) ==
    \/ Tail(rem) # <<>> /\ ready = <<>> /\ inFrame
    \/ /\ Tail(rem) = <<>> /\ Idle(t)
       /\ \E msg : ready = <<msg>> /\ Shown(m, t.protocol, Seen(msg))

LEMMA IdleAfter ==
    ASSUME NEW s \in Session, NEW q, NEW n
    PROVE  /\ Idle(Finish(s, q, n).scb)
           /\ Finish(s, q, n).scb.protocol = s.protocol
           /\ Finish(s, q, n).scb.failed = s.failed
           /\ Finish(s, q, n).ready = <<[buffQ |-> q, bufflen |-> n]>>
<1> DEFINE u == [s EXCEPT !.instate = "idle", !.inendpos = 0, !.buffQ = <<>>]
<1>1. Finish(s, q, n).scb = u /\ Finish(s, q, n).ready = <<[buffQ |-> q, bufflen |-> n]>>
  BY DEF Finish
<1>2. /\ u.instate = "idle" /\ u.inendpos = 0 /\ u.buffQ = <<>>
      /\ u.protocol = s.protocol /\ u.failed = s.failed
  BY DEF Session
<1> HIDE DEF u
<1>3. Packed(<<>>, <<>>)
  BY EmptySeq, FlattenNone DEF Packed, Wall
<1> QED
  BY <1>1, <1>2, <1>3 DEF Idle

(* A byte of the frame of a message, in the old framing                    *)
LEMMA OldByte ==
    ASSUME NEW s, Typed(s), s.protocol = "1.0", NEW m \in Messages, NEW rem,
           InOldFrame(s, m, rem)
    PROVE  LET r == accept_buffer_ssh_v10(s, Head(rem))
           IN  /\ rem # <<>> /\ Head(rem) \in Byte
               /\ r.scb.failed = s.failed /\ r.scb.protocol = "1.0"
               /\ Further(m, rem, r.scb, r.ready, InOldFrame(r.scb, m, Tail(rem)))
<1> DEFINE w == m \o NC_SSH_END
           n == Len(m)
           ch == Head(rem)
           p == s.inendpos
           r == accept_buffer_ssh_v10(s, ch)
<1>1. PICK c \in 0..(n + 5) :
           /\ Matched(m, w, c, p)
           /\ rem = SubSeq(w, c + 1, Len(w))
           /\ Packed(s.buffQ, SubSeq(w, 1, c))
           /\ c = 0 => s.instate = "idle"
           /\ c > 0 => s.instate = IF p > 0 THEN "inend" ELSE "inmsg"
  BY DEF InOldFrame
<1>2. /\ w \in Data /\ Len(w) = n + 6 /\ n \in Nat
      /\ \A i \in 1..n : w[i] = m[i]
      /\ \A j \in 1..6 : w[n + j] = NC_SSH_END[j]
  BY OldWhole, MessageIs
<1>3. /\ c \in Nat /\ c < Len(w) /\ p \in 0..5 /\ p <= c
      /\ \A j \in 1..p : w[c - p + j] = NC_SSH_END[j]
      /\ c >= n => p = c - n
  <2> HIDE DEF w
  <2>1. /\ p \in 0..5 /\ p <= c
        /\ \A j \in 1..p : w[c - p + j] = NC_SSH_END[j]
        /\ c >= n => p = c - n
    BY <1>1 DEF Matched
  <2> HIDE DEF n, p
  <2>2. c \in Nat /\ c < Len(w)
    BY <1>2
  <2> QED
    BY <2>1, <2>2
<1>4. /\ c < n /\ p = 5 => w[c + 1] # NC_SSH_END[6]
      /\ c + 1 = n /\ p < 5 => w[c + 1] # NC_SSH_END[p + 1]
      /\ c >= n => w[c + 1] = NC_SSH_END[p + 1]
  BY <1>1, NoFalseEnd
<1>5. /\ rem # <<>> /\ ch = w[c + 1] /\ ch \in Byte
      /\ Tail(rem) = SubSeq(w, c + 2, Len(w))
      /\ SubSeq(w, 1, c + 1) = Append(SubSeq(w, 1, c), ch)
  <2>1. w \in Data /\ c \in Nat /\ c < Len(w)
    BY <1>2, <1>3
  <2> HIDE DEF w
  <2>2. /\ w[c + 1] \in Byte
        /\ SubSeq(w, c + 1, Len(w)) # <<>>
        /\ Head(SubSeq(w, c + 1, Len(w))) = w[c + 1]
        /\ Tail(SubSeq(w, c + 1, Len(w))) = SubSeq(w, c + 2, Len(w))
        /\ SubSeq(w, 1, c + 1) = Append(SubSeq(w, 1, c), w[c + 1])
    BY <2>1, NextByte
  <2>3. rem = SubSeq(w, c + 1, Len(w))
    BY <1>1
  <2> QED
    BY <2>2, <2>3
<1> DEFINE buffers == Stored(Room(s.buffQ), ch)
           t == [s EXCEPT !.buffQ = buffers]
<1>6. Packed(buffers, SubSeq(w, 1, c + 1)) /\ buffers # <<>> /\ Len(Last(buffers)) > 0
  <2> DEFINE q == Room(s.buffQ)
  <2>1. Packed(q, SubSeq(w, 1, c)) /\ q # <<>> /\ Len(Last(q)) < BuffSize
    BY <1>1, RoomFound
  <2> HIDE DEF q
  <2>2. /\ Packed(Stored(q, ch), Append(SubSeq(w, 1, c), ch)) /\ Stored(q, ch) # <<>>
        /\ Len(Last(Stored(q, ch))) > 0
    BY <1>5, <2>1, ByteStored
  <2> QED
    BY <1>5, <2>2 DEF q
<1>7. r = CASE s.instate = "inend" /\ ch = NC_SSH_END[p + 1] ->
                 IF p + 1 = Len(NC_SSH_END)
                 THEN Finish(t, buffers, Len(Last(buffers)) - Len(NC_SSH_END))
                 ELSE Continue([t EXCEPT !.inendpos = @ + 1])
            [] s.instate # "inend" /\ ch = NC_SSH_END[1] ->
                 Continue([t EXCEPT !.instate = "inend", !.inendpos = 1])
            [] OTHER -> Continue([t EXCEPT !.instate = "inmsg", !.inendpos = 0])
  BY DEF accept_buffer_ssh_v10
<1> SUFFICES /\ r.scb.failed = s.failed /\ r.scb.protocol = "1.0"
             /\ Further(m, rem, r.scb, r.ready, InOldFrame(r.scb, m, Tail(rem)))
  BY <1>5
<1>8. Typed(s) /\ s \in Session
  BY DEF Typed
<1>9. /\ t \in Session /\ t.buffQ = buffers /\ t.inendpos = p /\ t.instate = s.instate
      /\ t.protocol = "1.0" /\ t.failed = s.failed
  <2>1. buffers \in Seq(Seq(Byte))
    BY <1>6 DEF Packed, Wall, Data
  <2> HIDE DEF buffers
  <2> QED
    BY <1>8, <2>1 DEF Session
<1>10. s.instate = "inend" <=> p > 0
  BY <1>1, <1>3
<1> HIDE DEF w, n, ch, p, r, buffers, t
(* A further place in the frame                                            *)
<1>11. ASSUME NEW u \in Session, NEW pp \in 0..5, r = Continue(u),
              u.buffQ = buffers, u.inendpos = pp, u.protocol = "1.0", u.failed = s.failed,
              u.instate = IF pp > 0 THEN "inend" ELSE "inmsg",
              c + 1 <= n + 5, pp <= c + 1,
              \A j \in 1..pp : w[c + 1 - pp + j] = NC_SSH_END[j],
              c + 1 >= n => pp = c + 1 - n
       PROVE  /\ r.scb.failed = s.failed /\ r.scb.protocol = "1.0"
              /\ Further(m, rem, r.scb, r.ready, InOldFrame(r.scb, m, Tail(rem)))
  <2> DEFINE d == c + 1
  <2>1. r.scb = u /\ r.ready = <<>>
    BY <1>11 DEF Continue
  <2>2. d \in 0..(n + 5) /\ d > 0 /\ d + 1 = c + 2 /\ d \in Nat /\ d < Len(w)
    BY <1>2, <1>3, <1>11
  <2>3. Matched(m, w, d, pp)
    BY <1>11, <2>2 DEF Matched, n
  <2>4. Tail(rem) = SubSeq(w, d + 1, Len(w))
    BY <1>5, <2>2
  <2>5. Packed(u.buffQ, SubSeq(w, 1, d))
    BY <1>6, <1>11
  <2> HIDE DEF d
  <2>6. InOldFrame(u, m, Tail(rem))
    <3>1. Matched(m, w, d, u.inendpos)
      BY <1>11, <2>3
    <3>2. /\ d = 0 => u.instate = "idle"
          /\ d > 0 => u.instate = IF u.inendpos > 0 THEN "inend" ELSE "inmsg"
      BY <1>11, <2>2
    <3> QED
      BY <2>2, <2>4, <2>5, <3>1, <3>2 DEF InOldFrame, w, n
  <2>7. Tail(rem) # <<>>
    <3>1. w \in Data
      BY <1>2
    <3>2. SubSeq(w, d + 1, Len(w)) # <<>>
      BY <2>2, <3>1, NextByte
    <3> QED
      BY <2>4, <3>2
  <2> QED
    BY <1>11, <2>1, <2>6, <2>7 DEF Further
<1>12. CASE s.instate = "inend" /\ ch = NC_SSH_END[p + 1] /\ p = 5
  <2>1. c = n + 5
    BY <1>1, <1>2, <1>3, <1>4, <1>5, <1>12
  <2> DEFINE l == Len(Last(buffers)) - 6
  <2>2. r = Finish(t, buffers, l)
    BY <1>7, <1>12, Sizes
  <2>3. Tail(rem) = <<>>
    <3>1. Len(w) < c + 2 /\ Len(w) \in Int /\ c + 2 \in Int
      BY <1>2, <2>1
    <3> QED
      BY <1>5, <3>1, SubSeqEmpty
  <2>4. SubSeq(w, 1, c + 1) = w
    <3>1. c + 1 = Len(w)
      BY <1>2, <2>1
    <3> QED
      BY <1>2, <3>1, SubSeqFull DEF Data
  <2>5. Shown(m, "1.0", Seen([buffQ |-> buffers, bufflen |-> l]))
    <3>1. Packed(buffers, m \o NC_SSH_END) /\ m \in Data
      BY <1>6, <2>4, MessageIs DEF w
    <3> QED
      BY <1>6, <3>1, SeenOld
  <2> HIDE DEF l
  <2>6. /\ Idle(r.scb) /\ r.scb.protocol = "1.0" /\ r.scb.failed = s.failed
        /\ r.ready = <<[buffQ |-> buffers, bufflen |-> l]>>
    BY <1>9, <2>2, IdleAfter
  <2> QED
    BY <2>3, <2>5, <2>6 DEF Further
<1>13. CASE s.instate = "inend" /\ ch = NC_SSH_END[p + 1] /\ p # 5
  <2> DEFINE u == [t EXCEPT !.inendpos = p + 1]
  <2>1. p \in 1..4 /\ p + 1 \in 0..5 /\ p + 1 \in 0..MaxStartChunk /\ p + 1 # 6
    BY <1>3, <1>10, <1>13, Sizes
  <2>2. r = Continue(u)
    BY <1>7, <1>9, <1>13, <2>1, Sizes
  <2>3. u \in Session /\ u.buffQ = buffers /\ u.inendpos = p + 1 /\ u.protocol = "1.0"
        /\ u.failed = s.failed /\ u.instate = "inend"
    BY <1>9, <1>13, <2>1 DEF Session
  <2> HIDE DEF u
  <2>4. c + 1 <= n + 5 /\ (c + 1 >= n => p + 1 = c + 1 - n)
    <3>1. c + 1 # n
      BY <1>4, <1>5, <1>13, <2>1
    <3> QED
      BY <1>2, <1>3, <2>1, <3>1
  <2>5. \A j \in 1..(p + 1) : w[c + 1 - (p + 1) + j] = NC_SSH_END[j]
    <3> TAKE j \in 1..(p + 1)
    <3>1. c + 1 - (p + 1) + j = c - p + j
      BY <1>3
    <3>2. CASE j = p + 1
      <4>1. c - p + j = c + 1
        BY <1>3, <3>2
      <4> QED
        BY <1>5, <1>13, <3>1, <3>2, <4>1
    <3>3. CASE j # p + 1
      <4>1. j \in 1..p
        BY <1>3, <3>3
      <4> QED
        BY <1>3, <3>1, <4>1
    <3> QED
      BY <3>2, <3>3
  <2>6. p + 1 <= c + 1 /\ u.instate = IF p + 1 > 0 THEN "inend" ELSE "inmsg"
    BY <1>3, <2>1, <2>3
  <2> DEFINE pp == p + 1
  <2>7. /\ pp \in 0..5 /\ u.inendpos = pp /\ pp <= c + 1
        /\ u.instate = IF pp > 0 THEN "inend" ELSE "inmsg"
        /\ \A j \in 1..pp : w[c + 1 - pp + j] = NC_SSH_END[j]
        /\ c + 1 >= n => pp = c + 1 - n
    BY <2>1, <2>3, <2>4, <2>5, <2>6
  <2> HIDE DEF pp
  <2> QED
    BY <1>11, <2>2, <2>3, <2>4, <2>7
<1>14. CASE s.instate # "inend" /\ ch = NC_SSH_END[1]
  <2> DEFINE u == [t EXCEPT !.instate = "inend", !.inendpos = 1]
  <2>0. p = 0
    BY <1>3, <1>10, <1>14
  <2>1. r = Continue(u)
    BY <1>7, <1>14
  <2>2. u \in Session /\ u.buffQ = buffers /\ u.inendpos = 1 /\ u.protocol = "1.0"
        /\ u.failed = s.failed /\ u.instate = "inend"
    <3>1. 1 \in 0..MaxStartChunk
      BY Sizes
    <3> QED
      BY <1>9, <3>1 DEF Session
  <2> HIDE DEF u
  <2>3. c + 1 <= n + 5 /\ (c + 1 >= n => 1 = c + 1 - n)
    <3>1. c + 1 # n
      BY <1>4, <1>5, <1>14, <2>0
    <3> QED
      BY <1>2, <1>3, <2>0, <3>1
  <2>4. \A j \in 1..1 : w[c + 1 - 1 + j] = NC_SSH_END[j]
    <3>1. c + 1 - 1 + 1 = c + 1
      BY <1>3
    <3>2. w[c + 1 - 1 + 1] = NC_SSH_END[1]
      BY <1>5, <1>14, <3>1
    <3>3. \A j \in 1..1 : j = 1
      OBVIOUS
    <3> QED
      BY <3>2, <3>3
  <2> DEFINE pp == 1
  <2>5. /\ pp \in 0..5 /\ u.inendpos = pp /\ pp <= c + 1
        /\ u.instate = IF pp > 0 THEN "inend" ELSE "inmsg"
        /\ \A j \in 1..pp : w[c + 1 - pp + j] = NC_SSH_END[j]
        /\ c + 1 >= n => pp = c + 1 - n
    BY <1>3, <2>2, <2>3, <2>4
  <2> HIDE DEF pp
  <2> QED
    BY <1>11, <2>1, <2>2, <2>3, <2>5
<1>15. CASE /\ ~(s.instate = "inend" /\ ch = NC_SSH_END[p + 1])
            /\ ~(s.instate # "inend" /\ ch = NC_SSH_END[1])
  <2> DEFINE u == [t EXCEPT !.instate = "inmsg", !.inendpos = 0]
  <2>1. r = Continue(u)
    BY <1>7, <1>15
  <2>2. u \in Session /\ u.buffQ = buffers /\ u.inendpos = 0 /\ u.protocol = "1.0"
        /\ u.failed = s.failed /\ u.instate = "inmsg"
    <3>1. 0 \in 0..MaxStartChunk
      BY Sizes
    <3> QED
      BY <1>9, <3>1 DEF Session
  <2> HIDE DEF u
  <2>3. c < n
    <3> SUFFICES ASSUME c >= n PROVE FALSE
      BY <1>2, <1>3
    <3>1. ch = NC_SSH_END[p + 1]
      BY <1>4, <1>5
    <3>2. p = 0
      BY <1>3, <1>10, <1>15, <3>1
    <3>3. ch = NC_SSH_END[1]
      BY <3>1, <3>2
    <3> QED
      BY <1>3, <1>10, <1>15, <3>2, <3>3
  <2> DEFINE pp == 0
  <2>4. /\ pp \in 0..5 /\ u.inendpos = pp /\ pp <= c + 1
        /\ u.instate = IF pp > 0 THEN "inend" ELSE "inmsg"
        /\ \A j \in 1..pp : w[c + 1 - pp + j] = NC_SSH_END[j]
        /\ c + 1 >= n => pp = c + 1 - n
    BY <1>2, <1>3, <2>2, <2>3
  <2>5. c + 1 <= n + 5
    BY <1>2, <1>3, <2>3
  <2> HIDE DEF pp
  <2> QED
    BY <1>11, <2>1, <2>2, <2>4, <2>5
<1> QED
  BY <1>12, <1>13, <1>14, <1>15

-----------------------------------------------------------------------------
(* The new framing, byte by byte                                           *)

(* The head of the chunk of cs[1] is taken up to its byte c.               *)
InHeader(s, done, cs, c) ==
    /\ Pieces(cs) /\ cs # <<>> /\ c < Len(Header(Head(cs)))
    /\ Packed(s.buffQ, done)
    /\ s.inendpos = c
    /\ c = 0 => s.instate \in {"idle", "inbetween"}
    /\ c \in 1..2 => s.instate \in {"instart", "inbetween"}
    /\ c >= 3 => /\ s.instate = "instart"
                 /\ s.startchunk = SubSeq(Numeral(Len(Head(cs))), 1, c - 2)

(* What is left of the chunks then                                         *)
HeaderLeft(cs, c) ==
    SubSeq(Header(Head(cs)), c + 1, Len(Header(Head(cs)))) \o (Head(cs) \o Body(Tail(cs)))

(* d is left of the data of a chunk.                                       *)
InData(s, done, d) ==
    /\ d \in Data /\ d # <<>>
    /\ Packed(s.buffQ, done)
    /\ s.instate = "inmsg" /\ s.chunkleft = Len(d)

(* All of m is there and c bytes of the mark that ends the chunks.         *)
InTail(s, m, c) ==
    /\ c \in 0..3
    /\ Packed(s.buffQ, m)
    /\ s.inendpos = c
    /\ s.instate = IF c < 3 THEN "inbetween" ELSE "inend"

(* The session is in the frame of m, and rem is left of it.                *)
InNewFrame(s, m, rem) ==
    \/ \E done \in Data, cs \in Wall, c \in Nat :
          /\ InHeader(s, done, cs, c)
          /\ m = done \o FlattenSeq(cs)
          /\ rem = HeaderLeft(cs, c)
    \/ \E done \in Data, d \in Data, cs \in Wall :
          /\ InData(s, done, d) /\ Pieces(cs)
          /\ m = done \o (d \o FlattenSeq(cs))
          /\ rem = d \o Body(cs)
    \/ \E c \in Nat : InTail(s, m, c) /\ rem = SubSeq(NC_SSH_END_CHUNKS, c + 1, 4)

LEMMA BytesLeft ==
    ASSUME NEW a \in Data, NEW c \in Nat, c < Len(a), NEW b \in Data
    PROVE  LET rem == SubSeq(a, c + 1, Len(a)) \o b
           IN  /\ rem # <<>> /\ rem \in Data
               /\ Head(rem) = a[c + 1] /\ a[c + 1] \in Byte
               /\ Tail(rem) = SubSeq(a, c + 2, Len(a)) \o b
<1> DEFINE x == SubSeq(a, c + 1, Len(a))
           y == SubSeq(a, c + 2, Len(a))
<1>1. a[c + 1] \in Byte /\ x # <<>> /\ Head(x) = a[c + 1] /\ Tail(x) = y /\ x \in Data
  BY NextByte
<1> HIDE DEF x, y
<1>2. x[1] = Head(x)
  BY <1>1, FirstAndRest
<1>3. /\ x \o b # <<>> /\ x \o b \in Data /\ Head(x \o b) = x[1] /\ Tail(x \o b) = Tail(x) \o b
  BY <1>1, Headed
<1>4. /\ x \o b # <<>> /\ x \o b \in Data
      /\ Head(x \o b) = a[c + 1] /\ a[c + 1] \in Byte
      /\ Tail(x \o b) = y \o b
  BY <1>1, <1>2, <1>3
<1> QED
  BY <1>4 DEF x, y

(* A chunk of data d, from the first byte of its head                      *)
LEMMA HeadFacts ==
    ASSUME NEW cs \in Wall, Pieces(cs), cs # <<>>
    PROVE  LET d == Head(cs)
               num == Numeral(Len(d))
               k == Len(num)
               h == Header(d)
           IN  /\ d \in Data /\ d # <<>> /\ Len(d) \in 1..MaxChunk
               /\ num \in Seq(Digit) /\ k \in Nat /\ k >= 1 /\ k + 2 < MaxStartChunk
               /\ num[1] # "0" /\ Number(num) = Len(d)
               /\ h \in Data /\ Len(h) = k + 3
               /\ h[1] = "LF" /\ h[2] = "#" /\ h[k + 3] = "LF"
               /\ \A i \in 1..k : h[i + 2] = num[i]
<1> DEFINE d == Head(cs)
           n == Len(d)
           num == Numeral(n)
           k == Len(num)
           h == Header(d)
<1>1. d \in Data /\ n \in 1..MaxChunk
  BY BodyFirst
<1>2. n \in Nat /\ n >= 1
  BY <1>1, SizeAssumption
<1>3. k + 2 < MaxStartChunk
  BY <1>1, SizeAssumption
<1>4. /\ h \in Data /\ Len(h) = k + 3 /\ k \in Nat /\ k >= 1
      /\ h[1] = "LF" /\ h[2] = "#" /\ h[k + 3] = "LF"
      /\ \A i \in 1..k : h[i + 2] = num[i]
  <2>1. Len(d) >= 1
    BY <1>2
  <2> HIDE DEF d
  <2> QED
    BY <1>1, <2>1, HeaderIs
<1>5. d # <<>>
  <2>1. n # 0
    BY <1>2
  <2>2. Len(<<>>) = 0
    OBVIOUS
  <2> HIDE DEF d
  <2> QED
    BY <2>1, <2>2
<1> HIDE DEF n
<1>6. num \in Seq(Digit) /\ num[1] # "0" /\ Number(num) = n
  BY <1>2, NumeralRead
<1> HIDE DEF h, k, num, d
<1>7. /\ d \in Data /\ d # <<>> /\ n \in 1..MaxChunk
      /\ num \in Seq(Digit) /\ k \in Nat /\ k >= 1 /\ k + 2 < MaxStartChunk
      /\ num[1] # "0" /\ Number(num) = n
      /\ h \in Data /\ Len(h) = k + 3
      /\ h[1] = "LF" /\ h[2] = "#" /\ h[k + 3] = "LF"
      /\ \A i \in 1..k : h[i + 2] = num[i]
  BY <1>1, <1>3, <1>4, <1>5, <1>6
<1> QED
  BY <1>7 DEF d, n, num, k, h

LEMMA Lefts ==
    ASSUME NEW cs \in Wall, Pieces(cs), cs # <<>>
    PROVE  LET h == Header(Head(cs))
           IN  /\ HeaderLeft(cs, 0) = Body(cs)
               /\ HeaderLeft(cs, Len(h)) = Head(cs) \o Body(Tail(cs))
               /\ \A c \in Nat : c < Len(h) =>
                     /\ HeaderLeft(cs, c) # <<>>
                     /\ Head(HeaderLeft(cs, c)) = h[c + 1] /\ h[c + 1] \in Byte
                     /\ Tail(HeaderLeft(cs, c)) = HeaderLeft(cs, c + 1)
<1> DEFINE d == Head(cs)
           h == Header(d)
           b == Body(Tail(cs))
           e == d \o b
           l == Len(h)
<1>1. /\ d \in Data /\ h \in Data /\ Len(d) \in 1..MaxChunk
  BY HeadFacts
<1>2. b \in Data /\ Body(cs) = Chunk(d) \o b
  BY BodyFirst, BodyType
<1>3. Chunk(d) = h \o d
  <2>1. Len(d) >= 1
    BY <1>1, SizeAssumption
  <2> HIDE DEF d
  <2> QED
    BY <1>1, <2>1, ChunkIs
<1>4. \A c : HeaderLeft(cs, c) = SubSeq(h, c + 1, l) \o e
  BY DEF HeaderLeft
<1> HIDE DEF b, h, d
<1>5. e \in Data
  BY <1>1, <1>2, Joined
<1>6. (h \o d) \o b = h \o e
  BY <1>1, <1>2, Associative
<1>7. l \in Nat
  BY <1>1, LenProperties DEF Data
<1> HIDE DEF e
<1>8. HeaderLeft(cs, 0) = Body(cs)
  <2>1. SubSeq(h, 0 + 1, l) = h
    <3>1. 0 + 1 = 1
      OBVIOUS
    <3> QED
      BY <1>1, <3>1, SubSeqFull DEF Data
  <2>2. HeaderLeft(cs, 0) = SubSeq(h, 0 + 1, l) \o e
    BY <1>4
  <2> QED
    BY <1>2, <1>3, <1>6, <2>1, <2>2
<1>9. HeaderLeft(cs, l) = e
  <2>1. SubSeq(h, l + 1, l) = <<>>
    <3>1. l < l + 1 /\ l + 1 \in Int /\ l \in Int
      BY <1>7
    <3> HIDE DEF l
    <3> QED
      BY <3>1, SubSeqEmpty
  <2>2. HeaderLeft(cs, l) = SubSeq(h, l + 1, l) \o e
    BY <1>4
  <2> QED
    BY <1>5, <2>1, <2>2, ConcatEmptySeq DEF Data
<1>10. ASSUME NEW c \in Nat, c < l
       PROVE  /\ HeaderLeft(cs, c) # <<>>
              /\ Head(HeaderLeft(cs, c)) = h[c + 1] /\ h[c + 1] \in Byte
              /\ Tail(HeaderLeft(cs, c)) = HeaderLeft(cs, c + 1)
  <2> DEFINE rem == SubSeq(h, c + 1, l) \o e
  <2>1. /\ rem # <<>>
        /\ Head(rem) = h[c + 1] /\ h[c + 1] \in Byte
        /\ Tail(rem) = SubSeq(h, c + 2, l) \o e
    BY <1>1, <1>5, <1>10, BytesLeft
  <2>2. HeaderLeft(cs, c) = rem
    BY <1>4
  <2>3. HeaderLeft(cs, c + 1) = SubSeq(h, c + 2, l) \o e
    <3>1. (c + 1) + 1 = c + 2
      OBVIOUS
    <3>2. HeaderLeft(cs, c + 1) = SubSeq(h, (c + 1) + 1, l) \o e
      BY <1>4
    <3> QED
      BY <3>1, <3>2
  <2> HIDE DEF rem, l
  <2> QED
    BY <2>1, <2>2, <2>3
<1> QED
  BY <1>8, <1>9, <1>10 DEF e, b, d, h

LEMMA HeaderBegins ==
    ASSUME NEW s, NEW done \in Data, NEW cs \in Wall, Pieces(cs), cs # <<>>,
           Packed(s.buffQ, done), s.inendpos = 0, s.instate \in {"idle", "inbetween"}
    PROVE  InNewFrame(s, done \o FlattenSeq(cs), Body(cs))
<1> DEFINE h == Header(Head(cs))
<1>1. h \in Data /\ h[1] = "LF" /\ Len(h) = Len(Numeral(Len(Head(cs)))) + 3
      /\ Len(Numeral(Len(Head(cs)))) \in Nat
  BY HeadFacts
<1>2. 0 < Len(h)
  <2> DEFINE k == Len(Numeral(Len(Head(cs))))
  <2>1. k \in Nat /\ Len(h) = k + 3
    BY <1>1
  <2> HIDE DEF k, h
  <2> QED
    BY <2>1
<1>3. InHeader(s, done, cs, 0)
  <2>1. /\ ~(0 \in 1..2) /\ ~(0 >= 3)
    OBVIOUS
  <2> QED
    BY <1>2, <2>1 DEF InHeader
<1>4. HeaderLeft(cs, 0) = Body(cs)
  BY Lefts
<1>5. 0 \in Nat
  OBVIOUS
<1> QED
  BY <1>3, <1>4, <1>5 DEF InNewFrame

(* What a byte in the frame of m makes of the session: it is further in    *)
(* the frame.                                                              *)
Moves(s, m, rem, r) ==
    \E u : /\ r = Continue(u) /\ u.failed = s.failed /\ u.protocol = s.protocol
           /\ InNewFrame(u, m, Tail(rem)) /\ Tail(rem) # <<>>

LEMMA HeaderMoves ==
    ASSUME NEW s, NEW u, NEW done \in Data, NEW cs \in Wall, NEW c \in Nat,
           InHeader(u, done, cs, c + 1),
           u.failed = s.failed, u.protocol = s.protocol
    PROVE  Moves(s, done \o FlattenSeq(cs), HeaderLeft(cs, c), Continue(u))
<1> DEFINE h == Header(Head(cs))
           e == c + 1
<1>1. Pieces(cs) /\ cs # <<>> /\ e < Len(h)
  BY DEF InHeader
<1>2. h \in Data
  BY <1>1, HeadFacts
<1> HIDE DEF h
<1>3. Len(h) \in Nat
  BY <1>2, LenProperties DEF Data
<1>4. c < Len(h) /\ e \in Nat
  BY <1>1, <1>3
<1> HIDE DEF e
<1>5. Tail(HeaderLeft(cs, c)) = HeaderLeft(cs, e) /\ HeaderLeft(cs, e) # <<>>
  BY <1>1, <1>4, Lefts DEF h, e
<1>6. InNewFrame(u, done \o FlattenSeq(cs), HeaderLeft(cs, e))
  BY <1>4 DEF InNewFrame, e
<1> QED
  BY <1>5, <1>6 DEF Moves

LEMMA HeaderEnds ==
    ASSUME NEW s, NEW u, NEW done \in Data, NEW cs \in Wall, NEW c \in Nat,
           Pieces(cs), cs # <<>>, Len(Header(Head(cs))) = c + 1,
           Packed(u.buffQ, done), u.instate = "inmsg", u.chunkleft = Len(Head(cs)),
           u.failed = s.failed, u.protocol = s.protocol
    PROVE  Moves(s, done \o FlattenSeq(cs), HeaderLeft(cs, c), Continue(u))
<1> DEFINE d == Head(cs)
           b == Body(Tail(cs))
           f == FlattenSeq(Tail(cs))
<1>1. d \in Data /\ d # <<>> /\ Pieces(Tail(cs)) /\ Tail(cs) \in Wall /\ FlattenSeq(cs) = d \o f
  BY HeadFacts, BodyFirst DEF Pieces
<1>2. Tail(HeaderLeft(cs, c)) = d \o b
  <2>1. c < c + 1
    OBVIOUS
  <2> QED
    BY <2>1, Lefts
<1>3. d \o b # <<>>
  <2>1. b \in Data
    BY <1>1, BodyType
  <2> HIDE DEF d, b
  <2> QED
    BY <1>1, <2>1, Headed
<1>4. InData(u, done, d)
  BY <1>1 DEF InData
<1>5. InNewFrame(u, done \o (d \o f), d \o b)
  BY <1>1, <1>4 DEF InNewFrame
<1> QED
  BY <1>1, <1>2, <1>3, <1>5 DEF Moves

(* The head of a chunk from its first digit on                             *)
LEMMA StartByte ==
    ASSUME NEW s, NEW t \in Session, t.failed = s.failed, t.protocol = s.protocol,
           t.instate = "instart",
           NEW done \in Data, NEW cs \in Wall, NEW c \in Nat, c >= 1,
           InHeader(t, done, cs, c)
    PROVE  Moves(s, done \o FlattenSeq(cs), HeaderLeft(cs, c),
                 InStart(t, Head(HeaderLeft(cs, c))))
<1> DEFINE d == Head(cs)
           num == Numeral(Len(d))
           k == Len(num)
           h == Header(d)
           ch == Head(HeaderLeft(cs, c))
           Fst == [t EXCEPT !.startchunk = <<ch>>]
           Num == [t EXCEPT !.startchunk = Append(@, ch)]
           Msg == [t EXCEPT !.instate = "inmsg", !.inendpos = 0,
                            !.chunkleft = Number(t.startchunk)]
           M == done \o FlattenSeq(cs)
           L == HeaderLeft(cs, c)
<1>1. /\ Pieces(cs) /\ cs # <<>> /\ c < Len(h)
      /\ Packed(t.buffQ, done) /\ t.inendpos = c
      /\ c >= 3 => t.startchunk = SubSeq(num, 1, c - 2)
  BY DEF InHeader
<1>2. /\ d \in Data /\ d # <<>> /\ Len(d) \in 1..MaxChunk
      /\ num \in Seq(Digit) /\ k \in Nat /\ k >= 1 /\ k + 2 < MaxStartChunk
      /\ num[1] # "0" /\ Number(num) = Len(d)
      /\ h \in Data /\ Len(h) = k + 3
      /\ h[1] = "LF" /\ h[2] = "#" /\ h[k + 3] = "LF"
      /\ \A i \in 1..k : h[i + 2] = num[i]
  BY <1>1, HeadFacts
<1>3. ch = h[c + 1] /\ ch \in Byte
  BY <1>1, Lefts
<1>4. InStart(t, ch) =
        CASE c = 1 -> IF ch = "#" THEN Step(t) ELSE Fail(t)
          [] c = 2 -> IF IsDigit1(ch) THEN Step(Fst) ELSE Fail(t)
          [] c = MaxStartChunk -> Fail(t)
          [] OTHER ->
                IF ch = "LF"
                THEN IF Number(t.startchunk) > MaxChunk THEN Fail(t) ELSE Continue(Msg)
                ELSE IF IsDigit(ch) THEN Step(Num) ELSE Fail(t)
  BY <1>1 DEF InStart
<1>5. MaxStartChunk \in Nat /\ MaxStartChunk >= 6
  BY Sizes
<1> HIDE DEF num, h, k, ch, d
<1>6. c \in 1..(k + 2) /\ c < MaxStartChunk /\ c + 1 \in 0..MaxStartChunk
  BY <1>1, <1>2, <1>5
(* One step on                                                             *)
<1>7. ASSUME NEW v \in Session, v.buffQ = t.buffQ, v.inendpos = c, v.instate = "instart",
             v.failed = t.failed, v.protocol = t.protocol, c + 1 < Len(h),
             c + 1 >= 3 => v.startchunk = SubSeq(num, 1, c - 1)
      PROVE  Moves(s, M, L, Step(v))
  <2> DEFINE u == [v EXCEPT !.inendpos = @ + 1]
             e == c + 1
  <2>1. Step(v) = Continue(u)
    BY DEF Step
  <2>2. u.buffQ = t.buffQ /\ u.inendpos = e /\ u.instate = "instart"
        /\ u.failed = s.failed /\ u.protocol = s.protocol /\ u.startchunk = v.startchunk
    BY <1>7 DEF Session
  <2>3. /\ e < Len(h) /\ e # 0 /\ c - 1 = e - 2 /\ e >= 2
        /\ e >= 3 => v.startchunk = SubSeq(num, 1, e - 2)
    BY <1>7
  <2> HIDE DEF u, e
  <2>4. InHeader(u, done, cs, e)
    BY <1>1, <2>2, <2>3 DEF InHeader, h, num, d
  <2> QED
    BY <2>1, <2>2, <2>4, HeaderMoves DEF e
<1>8. CASE c = 1
  <2>1. ch = "#" /\ c + 1 < Len(h) /\ ~(c + 1 >= 3)
    BY <1>2, <1>3, <1>8
  <2>2. InStart(t, ch) = Step(t)
    <3>1. c # MaxStartChunk
      BY <1>5, <1>8
    <3> HIDE DEF Fst, Num, Msg
    <3> QED
      BY <1>4, <1>8, <2>1, <3>1
  <2>3. Moves(s, M, L, Step(t))
    BY <1>1, <1>7, <2>1
  <2> QED
    BY <2>2, <2>3 DEF ch
<1>9. CASE c = 2
  <2>1. ch = num[1]
    <3>1. 1 \in 1..k /\ 1 + 2 = c + 1
      BY <1>2, <1>9
    <3> QED
      BY <1>2, <1>3, <3>1
  <2>2. ch \in Digit /\ IsDigit1(ch)
    <3>1. num[1] \in Digit
      BY <1>2, ElementOfSeq DEF k
    <3> QED
      BY <1>2, <2>1, <3>1, DigitFacts
  <2>3. InStart(t, ch) = Step(Fst)
    <3>1. c # MaxStartChunk /\ c # 1
      BY <1>5, <1>9
    <3> HIDE DEF Fst, Num, Msg
    <3> QED
      BY <1>4, <1>9, <2>2, <3>1
  <2>4. Fst \in Session /\ Fst.startchunk = <<ch>> /\ Fst.buffQ = t.buffQ
        /\ Fst.inendpos = t.inendpos /\ Fst.instate = t.instate /\ Fst.failed = t.failed
        /\ Fst.protocol = t.protocol
    <3>1. <<ch>> \in Seq(Digit)
      BY <2>2
    <3> QED
      BY <3>1 DEF Session, Digit
  <2> HIDE DEF Fst
  <2>5. <<ch>> = SubSeq(num, 1, c - 1)
    <3>1. Len(num) >= 1 /\ c - 1 = 1 /\ 1 \in 1..Len(num)
      BY <1>2, <1>9 DEF k
    <3>2. SubSeq(num, 1, 1) = <<num[1]>>
      <4>1. SubSeq(num, 1, 1) = SubSeq(num, 1, 1 - 1) \o <<num[1]>>
        BY <1>2, <3>1, SubSeqRecursiveSecond
      <4>2. SubSeq(num, 1, 1 - 1) = <<>>
        BY <1>2, SubSeqEmpty
      <4>3. <<>> \o <<num[1]>> = <<num[1]>>
        BY ConcatEmptySeq
      <4> QED
        BY <4>1, <4>2, <4>3
    <3> QED
      BY <2>1, <3>1, <3>2
  <2>6. c + 1 < Len(h)
    BY <1>2, <1>9
  <2>7. Moves(s, M, L, Step(Fst))
    BY <1>1, <1>7, <2>4, <2>5, <2>6
  <2> QED
    BY <2>3, <2>7 DEF ch
<1>10. CASE c >= 3 /\ c < k + 2
  <2> DEFINE i == c - 1
  <2>1. i \in 1..k /\ i + 2 = c + 1 /\ i - 1 = c - 2 /\ c + 1 < Len(h)
    BY <1>2, <1>6, <1>10
  <2>2. ch = num[i]
    BY <1>2, <1>3, <2>1
  <2>3. ch \in Digit /\ IsDigit(ch) /\ ch # "LF"
    <3>1. num[i] \in Digit
      BY <1>2, <2>1, ElementOfSeq DEF k
    <3> QED
      BY <2>2, <3>1, DigitFacts
  <2>4. c # 1 /\ c # 2 /\ c # MaxStartChunk
    BY <1>5, <1>6, <1>10
  <2>5. InStart(t, ch) = Step(Num)
    BY <1>4, <2>3, <2>4
  <2>6. t.startchunk \in Seq(Digit)
    BY DEF Session, Digit
  <2>7. Num \in Session /\ Num.startchunk = Append(t.startchunk, ch) /\ Num.buffQ = t.buffQ
        /\ Num.inendpos = t.inendpos /\ Num.instate = t.instate /\ Num.failed = t.failed
        /\ Num.protocol = t.protocol
    <3>1. Append(t.startchunk, ch) \in Seq(Digit)
      BY <2>3, <2>6, AppendProperties
    <3> QED
      BY <3>1 DEF Session, Digit
  <2> HIDE DEF Num
  <2>8. Append(t.startchunk, ch) = SubSeq(num, 1, i)
    <3>1. t.startchunk = SubSeq(num, 1, i - 1)
      BY <1>1, <1>10, <2>1
    <3>2. 1 \in 1..Len(num) /\ i \in 1..Len(num)
      BY <1>2, <2>1 DEF k
    <3>3. SubSeq(num, 1, i) = SubSeq(num, 1, i - 1) \o <<num[i]>>
      BY <1>2, <3>2, SubSeqRecursiveSecond
    <3>4. Append(t.startchunk, ch) = t.startchunk \o <<ch>>
      BY <2>3, <2>6, AppendIsConcat
    <3> QED
      BY <2>2, <3>1, <3>3, <3>4
  <2>9. Moves(s, M, L, Step(Num))
    BY <1>1, <1>7, <2>1, <2>7, <2>8
  <2> QED
    BY <2>5, <2>9 DEF ch
<1>11. CASE c >= 3 /\ c = k + 2
  <2>1. c + 1 = k + 3 /\ Len(h) = c + 1 /\ c - 2 = k
    BY <1>2, <1>11
  <2>2. ch = "LF"
    BY <1>2, <1>3, <2>1
  <2>3. t.startchunk = num
    <3>1. SubSeq(num, 1, Len(num)) = num
      BY <1>2, SubSeqFull
    <3> QED
      BY <1>1, <1>11, <2>1, <3>1 DEF k
  <2>4. Number(t.startchunk) = Len(d)
    BY <1>2, <2>3
  <2>5. ~(Number(t.startchunk) > MaxChunk)
    BY <1>2, <2>4, SizeAssumption
  <2>6. c # 1 /\ c # 2 /\ c # MaxStartChunk
    BY <1>5, <1>6, <1>11
  <2>7. InStart(t, ch) = Continue(Msg)
    BY <1>4, <2>2, <2>5, <2>6
  <2>8. Msg.buffQ = t.buffQ /\ Msg.instate = "inmsg" /\ Msg.failed = t.failed
        /\ Msg.protocol = t.protocol /\ Msg.chunkleft = Len(d)
    BY <2>4 DEF Session
  <2> HIDE DEF Msg
  <2>9. Moves(s, M, L, Continue(Msg))
    BY <1>1, <2>1, <2>8, HeaderEnds DEF h, d
  <2> QED
    BY <2>7, <2>9 DEF ch
<1>12. c = 1 \/ c = 2 \/ (c >= 3 /\ c < k + 2) \/ (c >= 3 /\ c = k + 2)
  BY <1>2, <1>6
<1> QED
  BY <1>8, <1>9, <1>10, <1>11, <1>12

(* A byte of the head of a chunk                                           *)
LEMMA HeaderByte ==
    ASSUME NEW s, Typed(s), s.protocol = "1.1",
           NEW done \in Data, NEW cs \in Wall, NEW c \in Nat,
           InHeader(s, done, cs, c)
    PROVE  Moves(s, done \o FlattenSeq(cs), HeaderLeft(cs, c),
                 accept_buffer_ssh_v11(s, Head(HeaderLeft(cs, c))))
<1> DEFINE d == Head(cs)
           h == Header(d)
           ch == Head(HeaderLeft(cs, c))
           t == [s EXCEPT !.buffQ = Room(@)]
           Beg == [t EXCEPT !.instate = "instart", !.inendpos = 1]
           Str == [t EXCEPT !.instate = "instart"]
           r == accept_buffer_ssh_v11(s, ch)
           M == done \o FlattenSeq(cs)
           L == HeaderLeft(cs, c)
<1>1. /\ Pieces(cs) /\ cs # <<>> /\ c < Len(h)
      /\ Packed(s.buffQ, done) /\ s.inendpos = c
      /\ c = 0 => s.instate \in {"idle", "inbetween"}
      /\ c \in 1..2 => s.instate \in {"instart", "inbetween"}
      /\ c >= 3 => /\ s.instate = "instart"
                   /\ s.startchunk = SubSeq(Numeral(Len(d)), 1, c - 2)
  BY DEF InHeader
<1>2. s \in Session /\ (s.instate = "inbetween" => c <= 2)
  BY <1>1 DEF Typed
<1>3. /\ t \in Session /\ t.inendpos = c /\ t.instate = s.instate
      /\ t.startchunk = s.startchunk /\ t.failed = s.failed /\ t.protocol = "1.1"
      /\ Packed(t.buffQ, done)
  <2> DEFINE q == Room(s.buffQ)
  <2>1. Packed(q, done)
    BY <1>1, RoomFound
  <2>2. q \in Seq(Seq(Byte))
    BY <2>1 DEF Packed, Wall, Data
  <2>3. t = [s EXCEPT !.buffQ = q]
    OBVIOUS
  <2> HIDE DEF q, t
  <2> QED
    BY <1>1, <1>2, <2>1, <2>2, <2>3 DEF Session
<1>4. r = CASE s.instate = "idle" -> IF ch = "LF" THEN Continue(Beg) ELSE Fail(t)
            [] s.instate = "instart"   -> InStart(t, ch)
            [] s.instate = "inmsg"     -> InChunk(t, ch)
            [] s.instate = "inbetween" -> InBetween(t, ch)
            [] OTHER                   -> InEnd(t, ch)
  <2>1. t.instate = s.instate
    BY <1>3
  <2> QED
    BY DEF accept_buffer_ssh_v11
<1>5. /\ h[1] = "LF" /\ h[2] = "#" /\ h[3] \in Digit /\ h[3] # "0"
      /\ Len(h) > 3 /\ Len(h) \in Nat
  <2> DEFINE num == Numeral(Len(d))
             k == Len(num)
  <2>1. /\ num \in Seq(Digit) /\ k \in Nat /\ k >= 1
        /\ num[1] # "0" /\ Len(h) = k + 3
        /\ h[1] = "LF" /\ h[2] = "#"
        /\ \A i \in 1..k : h[i + 2] = num[i]
    BY <1>1, HeadFacts
  <2> HIDE DEF num, h
  <2>2. 1 \in 1..k /\ 1 + 2 = 3
    BY <2>1
  <2>3. num[1] \in Digit
    BY <2>1, <2>2, ElementOfSeq
  <2>4. h[3] = num[1]
    BY <2>1, <2>2
  <2> HIDE DEF k
  <2> QED
    BY <2>1, <2>3, <2>4
<1>6. ch = h[c + 1]
  BY <1>1, Lefts
<1> HIDE DEF t, h, d, ch, r
<1>7. ASSUME NEW v \in Session, v.buffQ = t.buffQ, v.inendpos = c, c < 2,
             v.instate \in {"instart", "inbetween"},
             v.failed = t.failed, v.protocol = t.protocol
      PROVE  Moves(s, M, L, Step(v))
  <2> DEFINE u == [v EXCEPT !.inendpos = @ + 1]
             e == c + 1
  <2>1. Step(v) = Continue(u)
    BY DEF Step
  <2>2. u.buffQ = t.buffQ /\ u.inendpos = e /\ u.instate = v.instate
        /\ u.failed = s.failed /\ u.protocol = s.protocol
    BY <1>3, <1>7 DEF Session
  <2>3. e < Len(h) /\ e # 0 /\ ~(e >= 3)
    BY <1>5, <1>7
  <2> HIDE DEF u, e
  <2>4. InHeader(u, done, cs, e)
    BY <1>1, <1>3, <1>7, <2>2, <2>3 DEF InHeader, h, d
  <2> QED
    BY <2>1, <2>2, <2>4, HeaderMoves DEF e
<1>8. CASE s.instate = "idle"
  <2>1. c = 0
    <3>1. c = 0 \/ c \in 1..2 \/ c >= 3
      OBVIOUS
    <3> QED
      BY <1>1, <1>8, <3>1
  <2>2. ch = "LF"
    BY <1>5, <1>6, <2>1
  <2>3. r = Continue(Beg)
    BY <1>4, <1>8, <2>2
  <2>4. Beg.buffQ = t.buffQ /\ Beg.inendpos = 1 /\ Beg.instate = "instart"
        /\ Beg.failed = s.failed /\ Beg.protocol = s.protocol
    BY <1>3 DEF Session
  <2> HIDE DEF Beg
  <2>5. InHeader(Beg, done, cs, 1)
    <3>1. 1 < Len(h) /\ ~(1 >= 3) /\ 1 # 0
      BY <1>5
    <3> QED
      BY <1>1, <1>3, <2>4, <3>1 DEF InHeader, h, d
  <2>6. c + 1 = 1
    BY <2>1
  <2>7. Moves(s, M, L, Continue(Beg))
    BY <2>4, <2>5, <2>6, HeaderMoves
  <2> QED
    BY <2>3, <2>7 DEF r, ch
<1>9. CASE s.instate = "instart"
  <2>1. r = InStart(t, ch)
    BY <1>4, <1>9
  <2>2. c >= 1
    <3>1. c # 0
      BY <1>1, <1>9
    <3> QED
      BY <3>1
  <2>3. InHeader(t, done, cs, c)
    BY <1>1, <1>3, <1>9 DEF InHeader, h, d
  <2>4. Moves(s, M, L, InStart(t, ch))
    BY <1>3, <1>9, <2>2, <2>3, StartByte DEF ch
  <2> QED
    BY <2>1, <2>4 DEF r, ch
<1>10. CASE s.instate = "inbetween"
  <2>1. r = InBetween(t, ch)
    BY <1>4, <1>10
  <2>2. c = 0 \/ c = 1 \/ c = 2
    BY <1>2, <1>10
  <2>3. InBetween(t, ch) =
          IF c = 0 THEN (IF ch = "LF" THEN Step(t) ELSE Fail(t))
          ELSE IF c = 1 THEN (IF ch = "#" THEN Step(t) ELSE Fail(t))
          ELSE IF ch = "#" THEN Step([t EXCEPT !.instate = "inend"])
          ELSE IF IsDigit1(ch) THEN InStart(Str, ch)
          ELSE Fail(t)
    BY <1>3 DEF InBetween
  <2>4. CASE c = 0
    <3>1. ch = "LF" /\ c < 2
      BY <1>5, <1>6, <2>4
    <3>2. Moves(s, M, L, Step(t))
      BY <1>3, <1>7, <1>10, <3>1
    <3> QED
      BY <2>1, <2>3, <2>4, <3>1, <3>2 DEF r, ch
  <2>5. CASE c = 1
    <3>1. ch = "#" /\ c < 2 /\ c # 0
      BY <1>5, <1>6, <2>5
    <3>2. Moves(s, M, L, Step(t))
      BY <1>3, <1>7, <1>10, <3>1
    <3> QED
      BY <2>1, <2>3, <2>5, <3>1, <3>2 DEF r, ch
  <2>6. CASE c = 2
    <3>1. ch = h[3]
      BY <1>6, <2>6
    <3>2. IsDigit1(ch) /\ ch # "#"
      BY <1>5, <3>1, DigitFacts
    <3>3. InBetween(t, ch) = InStart(Str, ch)
      BY <2>3, <2>6, <3>2
    <3>4. Str \in Session /\ Str.buffQ = t.buffQ /\ Str.inendpos = c
          /\ Str.instate = "instart" /\ Str.failed = s.failed /\ Str.protocol = s.protocol
      BY <1>3 DEF Session
    <3> HIDE DEF Str
    <3>5. InHeader(Str, done, cs, c)
      <4>1. ~(c >= 3) /\ c # 0
        BY <2>6
      <4> QED
        BY <1>1, <1>3, <3>4, <4>1 DEF InHeader, h, d
    <3>6. c >= 1
      BY <2>6
    <3>7. Moves(s, M, L, InStart(Str, ch))
      BY <3>4, <3>5, <3>6, StartByte DEF ch
    <3> QED
      BY <2>1, <3>3, <3>7 DEF r, ch
  <2> QED
    BY <2>2, <2>4, <2>5, <2>6
<1>11. s.instate \in {"idle", "instart", "inbetween"}
  <2>1. c = 0 \/ c \in 1..2 \/ c >= 3
    OBVIOUS
  <2> QED
    BY <1>1, <2>1
<1> QED
  BY <1>8, <1>9, <1>10, <1>11

(* After the last byte of a chunk the next one begins, or the mark that    *)
(* ends the chunks.                                                        *)
LEMMA ChunkEnds ==
    ASSUME NEW u, NEW done \in Data, NEW cs \in Wall, Pieces(cs),
           Packed(u.buffQ, done), u.instate = "inbetween", u.inendpos = 0
    PROVE  InNewFrame(u, done \o FlattenSeq(cs), Body(cs))
<1>1. CASE cs = <<>>
  <2>1. FlattenSeq(cs) = <<>> /\ Body(cs) = NC_SSH_END_CHUNKS
    BY <1>1, FlattenNone, BodyNone
  <2>2. done \o <<>> = done
    BY ConcatEmptySeq DEF Data
  <2>3. SubSeq(NC_SSH_END_CHUNKS, 0 + 1, 4) = NC_SSH_END_CHUNKS
    <3>1. 0 + 1 = 1
      OBVIOUS
    <3> QED
      BY <3>1, Sizes, SubSeqFull DEF Data
  <2>4. InTail(u, done, 0)
    BY DEF InTail
  <2>5. 0 \in Nat
    OBVIOUS
  <2> QED
    BY <2>1, <2>2, <2>3, <2>4, <2>5 DEF InNewFrame
<1>2. CASE cs # <<>>
  BY <1>2, HeaderBegins
<1> QED
  BY <1>1, <1>2

(* A byte of the data of a chunk                                           *)
LEMMA DataByte ==
    ASSUME NEW s, Typed(s), s.protocol = "1.1",
           NEW done \in Data, NEW d \in Data, NEW cs \in Wall, Pieces(cs),
           InData(s, done, d)
    PROVE  Moves(s, done \o (d \o FlattenSeq(cs)), d \o Body(cs),
                 accept_buffer_ssh_v11(s, Head(d \o Body(cs))))
<1> DEFINE b == Body(cs)
           f == FlattenSeq(cs)
           rem == d \o b
           ch == Head(rem)
           q == Room(s.buffQ)
           z == Stored(q, ch)
           e == Append(done, Head(d))
           t == [s EXCEPT !.buffQ = q]
           u == [t EXCEPT !.buffQ = z, !.chunkleft = @ - 1]
           v == [u EXCEPT !.instate = "inbetween", !.inendpos = 0]
           r == accept_buffer_ssh_v11(s, ch)
           m == done \o (d \o f)
<1>1. /\ d # <<>> /\ Packed(s.buffQ, done)
      /\ s.instate = "inmsg" /\ s.chunkleft = Len(d) /\ s \in Session
  BY DEF InData, Typed
<1>2. b \in Data /\ f \in Data
  BY BodyType, FlattenType
<1>3. Head(d) \in Byte /\ Tail(d) \in Data /\ Len(Tail(d)) = Len(d) - 1 /\ Len(d) \in Nat \ {0}
      /\ d[1] = Head(d)
  BY <1>1, FirstAndRest
<1> HIDE DEF b, f
<1>4. ch = Head(d) /\ Tail(rem) = Tail(d) \o b
  BY <1>1, <1>2, <1>3, Headed
<1>5. m = e \o (Tail(d) \o f) /\ e \in Data
  <2>1. d # <<>> /\ f \in Data
    BY <1>1, <1>2
  <2> QED
    BY <2>1, Moved
<1> HIDE DEF rem, ch
<1>6. Packed(z, e) /\ z \in Seq(Seq(Byte))
  <2>1. Packed(q, done) /\ q # <<>> /\ Len(Last(q)) < BuffSize
    BY <1>1, RoomFound
  <2> HIDE DEF q
  <2>2. ch \in Byte
    BY <1>3, <1>4
  <2>3. Packed(z, Append(done, ch))
    BY <2>1, <2>2, ByteStored
  <2> HIDE DEF z
  <2> QED
    BY <1>4, <2>3 DEF Packed, Wall, Data
<1>7. r = IF u.chunkleft = 0 THEN Continue(v) ELSE Continue(u)
  <2>1. t.chunkleft # 0 /\ t.buffQ = q /\ t.instate = "inmsg"
    BY <1>1, <1>3 DEF Session
  <2>2. r = InChunk(t, ch)
    BY <2>1 DEF accept_buffer_ssh_v11
  <2>3. InChunk(t, ch) = LET y == [t EXCEPT !.buffQ = Stored(@, ch), !.chunkleft = @ - 1]
                        IN Continue(IF y.chunkleft = 0
                                    THEN [y EXCEPT !.instate = "inbetween", !.inendpos = 0]
                                    ELSE y)
    BY <2>1 DEF InChunk
  <2>4. [t EXCEPT !.buffQ = Stored(@, ch), !.chunkleft = @ - 1] = u
    BY <2>1
  <2> HIDE DEF u, t, q, r
  <2>5. InChunk(t, ch) = Continue(IF u.chunkleft = 0 THEN v ELSE u)
    BY <2>3, <2>4
  <2> QED
    BY <2>2, <2>5
<1>8. /\ u.buffQ = z /\ u.chunkleft = Len(d) - 1 /\ u.instate = "inmsg"
      /\ u.failed = s.failed /\ u.protocol = s.protocol
      /\ v.buffQ = z /\ v.inendpos = 0 /\ v.instate = "inbetween"
      /\ v.failed = s.failed /\ v.protocol = s.protocol
  <2> HIDE DEF z, q
  <2> QED
    BY <1>1, <1>3 DEF Session
<1> HIDE DEF u, v, z, r, m, e
<1>9. CASE Tail(d) = <<>>
  <2>1. Len(<<>>) = 0
    OBVIOUS
  <2>2. u.chunkleft = 0
    BY <1>3, <1>8, <1>9, <2>1
  <2>3. r = Continue(v)
    BY <1>7, <2>2
  <2>4. <<>> \o b = b /\ <<>> \o f = f
    BY <1>2, ConcatEmptySeq DEF Data
  <2>5. Tail(rem) = b /\ m = e \o f
    BY <1>4, <1>5, <1>9, <2>4
  <2>6. InNewFrame(v, m, Tail(rem))
    BY <1>5, <1>6, <1>8, <2>5, ChunkEnds DEF b, f
  <2>7. b # <<>>
    <3>1. NC_SSH_END_CHUNKS \in Data /\ Len(NC_SSH_END_CHUNKS) = 4
      BY Sizes
    <3>2. FlattenSeq(Framed(cs)) \in Data
      BY FramedType, FlattenType
    <3> DEFINE x == FlattenSeq(Framed(cs))
               y == NC_SSH_END_CHUNKS
    <3>3. b = x \o y
      BY DEF b, Body
    <3> HIDE DEF x, y
    <3>4. Len(x \o y) = Len(x) + Len(y) /\ Len(x) \in Nat
      BY <3>1, <3>2, Joined DEF x, y
    <3>5. Len(b) # 0
      BY <3>1, <3>3, <3>4 DEF y
    <3> QED
      BY <2>1, <3>5
  <2>8. Moves(s, m, rem, r)
    BY <1>8, <2>3, <2>5, <2>6, <2>7 DEF Moves
  <2> QED
    BY <2>8 DEF m, rem, r, ch, b, f
<1>10. CASE Tail(d) # <<>>
  <2>1. Len(Tail(d)) # 0
    BY <1>3, <1>10, EmptySeq DEF Data
  <2>2. u.chunkleft = Len(Tail(d)) /\ u.chunkleft # 0
    BY <1>3, <1>8, <2>1
  <2>3. r = Continue(u)
    BY <1>7, <2>2
  <2>4. InData(u, e, Tail(d))
    BY <1>3, <1>6, <1>8, <1>10, <2>2 DEF InData
  <2>5. InNewFrame(u, m, Tail(rem))
    BY <1>3, <1>4, <1>5, <2>4 DEF InNewFrame, b, f
  <2>6. Tail(rem) # <<>>
    BY <1>2, <1>3, <1>4, <1>10, Headed
  <2>7. Moves(s, m, rem, r)
    BY <1>8, <2>3, <2>5, <2>6 DEF Moves
  <2> QED
    BY <2>7 DEF m, rem, r, ch, b, f
<1> QED
  BY <1>9, <1>10

(* A byte of the mark that ends the chunks                                 *)
LEMMA TailByte ==
    ASSUME NEW s, Typed(s), s.protocol = "1.1", NEW m \in Messages, NEW c \in Nat,
           InTail(s, m, c)
    PROVE  LET rem == SubSeq(NC_SSH_END_CHUNKS, c + 1, 4)
               r == accept_buffer_ssh_v11(s, Head(rem))
           IN  \/ Moves(s, m, rem, r)
               \/ /\ Tail(rem) = <<>> /\ Idle(r.scb)
                  /\ r.scb.failed = s.failed /\ r.scb.protocol = s.protocol
                  /\ \E msg : r.ready = <<msg>> /\ Shown(m, "1.1", Seen(msg))
<1> DEFINE E == NC_SSH_END_CHUNKS
           rem == SubSeq(E, c + 1, 4)
           ch == Head(rem)
           q == Room(s.buffQ)
           t == [s EXCEPT !.buffQ = q]
           r == accept_buffer_ssh_v11(s, ch)
<1>1. /\ c \in 0..3 /\ Packed(s.buffQ, m) /\ s.inendpos = c
      /\ s.instate = (IF c < 3 THEN "inbetween" ELSE "inend") /\ s \in Session
  BY DEF InTail, Typed
<1>2. /\ E \in Data /\ Len(E) = 4 /\ E[1] = "LF" /\ E[2] = "#" /\ E[3] = "#" /\ E[4] = "LF"
  BY Sizes DEF NC_SSH_END_CHUNKS
<1> HIDE DEF E
<1>3. ch = E[c + 1] /\ Tail(rem) = SubSeq(E, c + 2, 4) /\ c < 4
  <2>1. c < Len(E)
    BY <1>1, <1>2
  <2> QED
    BY <1>2, <2>1, NextByte
<1>4. Packed(q, m) /\ q # <<>> /\ Len(Last(q)) < BuffSize /\ q \in Seq(Seq(Byte))
  <2>1. Packed(q, m) /\ q # <<>> /\ Len(Last(q)) < BuffSize
    BY <1>1, RoomFound
  <2> HIDE DEF q
  <2> QED
    BY <2>1 DEF Packed, Wall, Data
<1> HIDE DEF q, rem, ch
<1>5. /\ t \in Session /\ t.buffQ = q /\ t.inendpos = c /\ t.instate = s.instate
      /\ t.failed = s.failed /\ t.protocol = "1.1"
  BY <1>1, <1>4 DEF Session
<1>6. /\ s.instate = "inbetween" => r = InBetween(t, ch)
      /\ s.instate = "inend" => r = InEnd(t, ch)
  <2>1. r = LET x == t
           IN CASE s.instate = "idle" ->
                IF ch = "LF"
                THEN Continue([x EXCEPT !.instate = "instart", !.inendpos = 1])
                ELSE Fail(x)
          [] s.instate = "instart"   -> InStart(x, ch)
          [] s.instate = "inmsg"     -> InChunk(x, ch)
          [] s.instate = "inbetween" -> InBetween(x, ch)
          [] OTHER                   -> InEnd(x, ch)
    BY <1>5 DEF accept_buffer_ssh_v11, q
  <2> HIDE DEF t, r
  <2> QED
    BY <2>1
<1> HIDE DEF r, t
<1>7. ASSUME NEW v \in Session, v.buffQ = q, v.inendpos = c, c < 3,
             v.instate = IF c = 2 THEN "inend" ELSE "inbetween",
             v.failed = s.failed, v.protocol = s.protocol, r = Step(v)
      PROVE  Moves(s, m, rem, r)
  <2> DEFINE u == [v EXCEPT !.inendpos = @ + 1]
             e == c + 1
  <2>1. r = Continue(u)
    BY <1>7 DEF Step
  <2>2. u.buffQ = q /\ u.inendpos = e /\ u.instate = v.instate
        /\ u.failed = s.failed /\ u.protocol = s.protocol
    BY <1>7 DEF Session
  <2>3. e \in 0..3 /\ e + 1 = c + 2 /\ (e < 3 <=> c # 2) /\ e \in Nat /\ e < Len(E)
    BY <1>1, <1>2, <1>7
  <2> HIDE DEF u, e
  <2>4. InTail(u, m, e)
    BY <1>4, <1>7, <2>2, <2>3 DEF InTail
  <2>5. Tail(rem) = SubSeq(E, e + 1, 4)
    BY <1>3, <2>3
  <2>6. Tail(rem) # <<>>
    BY <1>2, <2>3, <2>5, NextByte
  <2>7. InNewFrame(u, m, Tail(rem))
    BY <2>3, <2>4, <2>5 DEF InNewFrame, E
  <2> QED
    BY <2>1, <2>2, <2>6, <2>7 DEF Moves
<1>8. ASSUME c = 0 \/ c = 1 PROVE Moves(s, m, rem, r)
  <2>1. r = InBetween(t, ch)
    BY <1>1, <1>6, <1>8
  <2>2. InBetween(t, ch) = Step(t)
    <3>1. CASE c = 0
      <4>1. ch = "LF"
        BY <1>2, <1>3, <3>1
      <4> QED
        BY <1>5, <3>1, <4>1 DEF InBetween
    <3>2. CASE c = 1
      <4>1. ch = "#"
        BY <1>2, <1>3, <3>2
      <4> QED
        BY <1>5, <3>2, <4>1 DEF InBetween
    <3> QED
      BY <1>8, <3>1, <3>2
  <2>3. c < 3 /\ t.instate = IF c = 2 THEN "inend" ELSE "inbetween"
    BY <1>1, <1>5, <1>8
  <2> QED
    BY <1>5, <1>7, <2>1, <2>2, <2>3
<1>9. ASSUME c = 2 PROVE Moves(s, m, rem, r)
  <2> DEFINE x == [t EXCEPT !.instate = "inend"]
  <2>1. ch = "#"
    BY <1>2, <1>3, <1>9
  <2>2. r = InBetween(t, ch)
    BY <1>1, <1>6, <1>9
  <2>3. InBetween(t, ch) = Step(x)
    BY <1>5, <1>9, <2>1 DEF InBetween
  <2>4. x \in Session /\ x.buffQ = q /\ x.inendpos = c /\ x.instate = "inend"
        /\ x.failed = s.failed /\ x.protocol = s.protocol
    BY <1>5 DEF Session
  <2> HIDE DEF x
  <2>5. c < 3 /\ x.instate = IF c = 2 THEN "inend" ELSE "inbetween"
    BY <1>9, <2>4
  <2> QED
    BY <1>7, <2>2, <2>3, <2>4, <2>5
<1>10. ASSUME c = 3
       PROVE  /\ Tail(rem) = <<>> /\ Idle(r.scb)
              /\ r.scb.failed = s.failed /\ r.scb.protocol = s.protocol
              /\ \E msg : r.ready = <<msg>> /\ Shown(m, "1.1", Seen(msg))
  <2> DEFINE l == Len(Last(q))
  <2>1. ch = "LF"
    BY <1>2, <1>3, <1>10
  <2>2. r = InEnd(t, ch)
    BY <1>1, <1>6, <1>10
  <2>3. InEnd(t, ch) = Finish(t, q, l)
    BY <1>5, <1>10, <2>1 DEF InEnd
  <2>4. Tail(rem) = <<>>
    <3>1. 4 < c + 2 /\ c + 2 \in Int
      BY <1>10
    <3> QED
      BY <1>3, <3>1, SubSeqEmpty
  <2>5. Shown(m, "1.1", Seen([buffQ |-> q, bufflen |-> l]))
    BY <1>4, MessageIs, SeenNew
  <2> HIDE DEF l
  <2>6. /\ Idle(r.scb) /\ r.scb.protocol = t.protocol /\ r.scb.failed = t.failed
        /\ r.ready = <<[buffQ |-> q, bufflen |-> l]>>
    BY <1>5, <2>2, <2>3, IdleAfter
  <2> QED
    BY <1>5, <2>4, <2>5, <2>6
<1>11. c = 0 \/ c = 1 \/ c = 2 \/ c = 3
  BY <1>1
<1> QED
  BY <1>8, <1>9, <1>10, <1>11 DEF E, rem, ch, r

(* A byte of the frame of a message, in the new framing                    *)
LEMMA NewByte ==
    ASSUME NEW s, Typed(s), s.protocol = "1.1", NEW m \in Messages, NEW rem,
           InNewFrame(s, m, rem)
    PROVE  LET r == accept_buffer_ssh_v11(s, Head(rem))
           IN  /\ rem # <<>> /\ Head(rem) \in Byte
               /\ r.scb.failed = s.failed /\ r.scb.protocol = "1.1"
               /\ Further(m, rem, r.scb, r.ready, InNewFrame(r.scb, m, Tail(rem)))
<1> DEFINE r == accept_buffer_ssh_v11(s, Head(rem))
<1>1. ASSUME Moves(s, m, rem, r)
      PROVE  /\ r.scb.failed = s.failed /\ r.scb.protocol = "1.1"
             /\ Further(m, rem, r.scb, r.ready, InNewFrame(r.scb, m, Tail(rem)))
  <2>1. PICK u : /\ r = Continue(u) /\ u.failed = s.failed /\ u.protocol = s.protocol
                 /\ InNewFrame(u, m, Tail(rem)) /\ Tail(rem) # <<>>
    BY <1>1 DEF Moves
  <2> HIDE DEF r
  <2>2. r.scb = u /\ r.ready = <<>>
    BY <2>1 DEF Continue
  <2> QED
    BY <2>1, <2>2 DEF Further
<1>2. ASSUME NEW done \in Data, NEW cs \in Wall, NEW c \in Nat,
             InHeader(s, done, cs, c), m = done \o FlattenSeq(cs),
             rem = HeaderLeft(cs, c)
      PROVE  rem # <<>> /\ Head(rem) \in Byte /\ Moves(s, m, rem, r)
  <2>1. Pieces(cs) /\ cs # <<>> /\ c < Len(Header(Head(cs)))
    BY <1>2 DEF InHeader
  <2>2. rem # <<>> /\ Head(rem) \in Byte
    BY <1>2, <2>1, Lefts
  <2>3. Moves(s, m, rem, r)
    BY <1>2, HeaderByte
  <2> QED
    BY <2>2, <2>3
<1>3. ASSUME NEW done \in Data, NEW d \in Data, NEW cs \in Wall,
             InData(s, done, d), Pieces(cs),
             m = done \o (d \o FlattenSeq(cs)), rem = d \o Body(cs)
      PROVE  rem # <<>> /\ Head(rem) \in Byte /\ Moves(s, m, rem, r)
  <2>1. d # <<>> /\ Body(cs) \in Data
    BY <1>3, BodyType DEF InData
  <2>2. rem # <<>> /\ Head(rem) \in Byte
    BY <1>3, <2>1, Headed
  <2>3. Moves(s, m, rem, r)
    BY <1>3, DataByte
  <2> QED
    BY <2>2, <2>3
<1>4. ASSUME NEW c \in Nat, InTail(s, m, c), rem = SubSeq(NC_SSH_END_CHUNKS, c + 1, 4)
      PROVE  /\ rem # <<>> /\ Head(rem) \in Byte
             /\ \/ Moves(s, m, rem, r)
                \/ /\ Tail(rem) = <<>> /\ Idle(r.scb)
                   /\ r.scb.failed = s.failed /\ r.scb.protocol = s.protocol
                   /\ \E msg : r.ready = <<msg>> /\ Shown(m, "1.1", Seen(msg))
  <2>1. c < Len(NC_SSH_END_CHUNKS) /\ NC_SSH_END_CHUNKS \in Data
    BY <1>4, Sizes DEF InTail
  <2>2. SubSeq(NC_SSH_END_CHUNKS, c + 1, Len(NC_SSH_END_CHUNKS)) = rem
    BY <1>4, Sizes
  <2>3. rem # <<>> /\ Head(rem) \in Byte
    BY <2>1, <2>2, NextByte
  <2>4. \/ Moves(s, m, rem, r)
        \/ /\ Tail(rem) = <<>> /\ Idle(r.scb)
           /\ r.scb.failed = s.failed /\ r.scb.protocol = s.protocol
           /\ \E msg : r.ready = <<msg>> /\ Shown(m, "1.1", Seen(msg))
    BY <1>4, TailByte
  <2> QED
    BY <2>3, <2>4
<1> HIDE DEF r
<1>5. ASSUME Tail(rem) = <<>>, Idle(r.scb),
             r.scb.failed = s.failed, r.scb.protocol = s.protocol,
             \E msg : r.ready = <<msg>> /\ Shown(m, "1.1", Seen(msg))
      PROVE  /\ r.scb.failed = s.failed /\ r.scb.protocol = "1.1"
             /\ Further(m, rem, r.scb, r.ready, InNewFrame(r.scb, m, Tail(rem)))
  BY <1>5 DEF Further
<1>6. /\ rem # <<>> /\ Head(rem) \in Byte
      /\ r.scb.failed = s.failed /\ r.scb.protocol = "1.1"
      /\ Further(m, rem, r.scb, r.ready, InNewFrame(r.scb, m, Tail(rem)))
  BY <1>1, <1>2, <1>3, <1>4, <1>5 DEF InNewFrame
<1> QED
  BY <1>6 DEF r

-----------------------------------------------------------------------------
(* The session and the bytes on their way                                  *)

(* f is a frame of m.                                                      *)
IsFrame(protocol, m, f) ==
    IF protocol = "1.0" THEN f = m \o NC_SSH_END
    ELSE \E cs \in Wall : Pieces(cs) /\ cs # <<>> /\ FlattenSeq(cs) = m /\ f = Body(cs)

InFrame(s, m, rem) ==
    IF s.protocol = "1.0" THEN InOldFrame(s, m, rem) ELSE InNewFrame(s, m, rem)

(* fs are frames of the messages after the k-th.                           *)
Frames(protocol, ms, k, fs) ==
    /\ fs \in Wall /\ Len(ms) = k + Len(fs)
    /\ \A j \in 1..Len(fs) : IsFrame(protocol, ms[k + j], fs[j])

(* The session has completed k of the messages ms, and rest is what is     *)
(* left of the others.                                                     *)
Tracks(s, ms, k, rest) ==
    \/ k = Len(ms) /\ Idle(s) /\ rest = <<>>
    \/ /\ k < Len(ms)
       /\ \E rem \in Data, fs \in Wall :
             /\ InFrame(s, ms[k + 1], rem)
             /\ Frames(s.protocol, ms, k + 1, fs)
             /\ rest = rem \o FlattenSeq(fs)

LEMMA FrameType ==
    ASSUME NEW protocol, NEW m \in Messages, NEW f, IsFrame(protocol, m, f)
    PROVE  f \in Data
<1>1. CASE protocol = "1.0"
  BY <1>1, MessageIs, Sizes, Joined DEF IsFrame
<1>2. CASE protocol # "1.0"
  BY <1>2, BodyType DEF IsFrame
<1> QED
  BY <1>1, <1>2

LEMMA FrameBegins ==
    ASSUME NEW s, Idle(s), NEW m \in Messages, NEW f, IsFrame(s.protocol, m, f)
    PROVE  InFrame(s, m, f)
<1>1. s.instate = "idle" /\ s.inendpos = 0 /\ Packed(s.buffQ, <<>>)
  BY DEF Idle
<1>2. CASE s.protocol = "1.0"
  <2> DEFINE w == m \o NC_SSH_END
  <2>1. f = w
    BY <1>2 DEF IsFrame
  <2>2. w \in Data /\ Len(m) \in Nat /\ Len(m) > 2
    BY OldWhole, MessageIs
  <2>3. SubSeq(w, 0 + 1, Len(w)) = w
    <3>1. 0 + 1 = 1
      OBVIOUS
    <3> HIDE DEF w
    <3> QED
      BY <2>2, <3>1, SubSeqFull DEF Data
  <2>4. SubSeq(w, 1, 0) = <<>>
    BY SubSeqEmpty
  <2> HIDE DEF w
  <2>5. Matched(m, w, 0, 0)
    BY <2>2 DEF Matched
  <2>6. 0 \in 0..(Len(m) + 5) /\ ~(0 > 0)
    BY <2>2
  <2>7. InOldFrame(s, m, w)
    BY <1>1, <2>3, <2>4, <2>5, <2>6 DEF InOldFrame, w
  <2> QED
    BY <1>2, <2>1, <2>7 DEF InFrame
<1>3. CASE s.protocol # "1.0"
  <2>1. PICK cs \in Wall : Pieces(cs) /\ cs # <<>> /\ FlattenSeq(cs) = m /\ f = Body(cs)
    BY <1>3 DEF IsFrame
  <2>2. <<>> \in Data
    BY EmptySeq DEF Data
  <2>3. <<>> \o FlattenSeq(cs) = FlattenSeq(cs)
    BY FlattenType, ConcatEmptySeq DEF Data
  <2>4. InNewFrame(s, <<>> \o FlattenSeq(cs), Body(cs))
    BY <1>1, <2>1, <2>2, HeaderBegins
  <2>5. InNewFrame(s, m, f)
    BY <2>1, <2>3, <2>4
  <2> QED
    BY <1>3, <2>5 DEF InFrame
<1> QED
  BY <1>2, <1>3

(* A byte of the frame                                                     *)
LEMMA FrameByte ==
    ASSUME NEW s, Typed(s), ~s.failed, NEW m \in Messages, NEW rem \in Data,
           InFrame(s, m, rem), NEW done \in Seq(Ready)
    PROVE  LET r == Accept([scb |-> s, ready |-> done], Head(rem))
           IN  /\ rem # <<>> /\ Head(rem) \in Byte
               /\ ~r.scb.failed /\ r.scb.protocol = s.protocol
               /\ \E new : /\ r.ready = done \o new
                           /\ Further(m, rem, r.scb, new, InFrame(r.scb, m, Tail(rem)))
<1> DEFINE ch == Head(rem)
           x == [scb |-> s, ready |-> done]
           n == IF s.protocol = "1.0" THEN accept_buffer_ssh_v10(s, ch)
                ELSE accept_buffer_ssh_v11(s, ch)
           r == Accept(x, ch)
<1>1. r.scb = n.scb /\ r.ready = done \o n.ready
  BY DEF Accept
<1> HIDE DEF r
<1>2. s.protocol \in {"1.0", "1.1"} /\ s.failed \in BOOLEAN
  BY DEF Typed, Session
<1>3. /\ rem # <<>> /\ ch \in Byte
      /\ n.scb.failed = s.failed /\ n.scb.protocol = s.protocol
      /\ Further(m, rem, n.scb, n.ready, InFrame(n.scb, m, Tail(rem)))
  <2>1. CASE s.protocol = "1.0"
    <3> DEFINE a == accept_buffer_ssh_v10(s, ch)
    <3>1. InOldFrame(s, m, rem)
      BY <2>1 DEF InFrame
    <3>2. /\ rem # <<>> /\ ch \in Byte
          /\ a.scb.failed = s.failed /\ a.scb.protocol = "1.0"
          /\ Further(m, rem, a.scb, a.ready, InOldFrame(a.scb, m, Tail(rem)))
      BY <2>1, <3>1, OldByte
    <3>3. n = a
      BY <2>1
    <3> HIDE DEF n, a, ch
    <3>4. InFrame(a.scb, m, Tail(rem)) <=> InOldFrame(a.scb, m, Tail(rem))
      BY <3>2 DEF InFrame
    <3>5. Further(m, rem, a.scb, a.ready, InFrame(a.scb, m, Tail(rem)))
      BY <3>2, <3>4 DEF Further
    <3> QED
      BY <2>1, <3>2, <3>3, <3>5
  <2>2. CASE s.protocol = "1.1"
    <3> DEFINE a == accept_buffer_ssh_v11(s, ch)
    <3>1. InNewFrame(s, m, rem)
      BY <2>2 DEF InFrame
    <3>2. /\ rem # <<>> /\ ch \in Byte
          /\ a.scb.failed = s.failed /\ a.scb.protocol = "1.1"
          /\ Further(m, rem, a.scb, a.ready, InNewFrame(a.scb, m, Tail(rem)))
      BY <2>2, <3>1, NewByte
    <3>3. n = a
      BY <2>2
    <3> HIDE DEF n, a, ch
    <3>4. InFrame(a.scb, m, Tail(rem)) <=> InNewFrame(a.scb, m, Tail(rem))
      BY <3>2 DEF InFrame
    <3>5. Further(m, rem, a.scb, a.ready, InFrame(a.scb, m, Tail(rem)))
      BY <3>2, <3>4 DEF Further
    <3> QED
      BY <2>2, <3>2, <3>3, <3>5
  <2> QED
    BY <1>2, <2>1, <2>2
<1> HIDE DEF n, ch
<1>4. /\ rem # <<>> /\ ch \in Byte
      /\ ~r.scb.failed /\ r.scb.protocol = s.protocol
      /\ \E new : /\ r.ready = done \o new
                  /\ Further(m, rem, r.scb, new, InFrame(r.scb, m, Tail(rem)))
  BY <1>1, <1>3
<1> QED
  BY <1>4 DEF r, x, ch

(* A message that is complete, and the session waits for the next one      *)
LEMMA NextFrame ==
    ASSUME NEW s, Idle(s), NEW ms \in Seq(Messages), NEW k \in Nat, NEW fs \in Wall,
           Frames(s.protocol, ms, k, fs)
    PROVE  Tracks(s, ms, k, FlattenSeq(fs))
<1>1. Len(ms) = k + Len(fs) /\ Len(fs) \in Nat
  BY WallType DEF Frames
<1>2. CASE fs = <<>>
  <2>1. k = Len(ms)
    <3>1. Len(fs) = 0
      BY <1>2
    <3> QED
      BY <1>1, <3>1
  <2> QED
    BY <1>2, <2>1, FlattenNone DEF Tracks
<1>3. CASE fs # <<>>
  <2> DEFINE f == Head(fs)
             gs == Tail(fs)
  <2>1. /\ f \in Data /\ gs \in Wall /\ Len(gs) = Len(fs) - 1 /\ Len(fs) \in Nat \ {0}
        /\ f = fs[1] /\ \A j \in 1..Len(gs) : gs[j] = fs[j + 1]
    BY <1>3, HeadTailProperties, EmptySeq DEF Wall
  <2>2. fs = <<f>> \o gs
    <3>1. 1 \in 1..Len(fs) /\ Len(fs) \in 1..Len(fs)
      BY <2>1
    <3>2. SubSeq(fs, 1, Len(fs)) = <<fs[1]>> \o SubSeq(fs, 1 + 1, Len(fs))
      BY <3>1, SubSeqRecursiveFirst DEF Wall
    <3>3. SubSeq(fs, 1, Len(fs)) = fs
      BY SubSeqFull DEF Wall
    <3>4. gs = SubSeq(fs, 2, Len(fs)) /\ 1 + 1 = 2
      BY <1>3, TailIsSubSeq DEF Wall
    <3> HIDE DEF gs, f
    <3> QED
      BY <2>1, <3>2, <3>3, <3>4
  <2> HIDE DEF f, gs
  <2>3. FlattenSeq(fs) = f \o FlattenSeq(gs)
    BY <2>1, <2>2, FlattenCons
  <2>4. \A j \in 1..Len(fs) : IsFrame(s.protocol, ms[k + j], fs[j])
    BY DEF Frames
  <2>5. k < Len(ms) /\ k + 1 \in 1..Len(ms) /\ 1 \in 1..Len(fs)
    BY <1>1, <2>1
  <2>6. IsFrame(s.protocol, ms[k + 1], f)
    BY <2>1, <2>4, <2>5
  <2>7. InFrame(s, ms[k + 1], f)
    <3>1. ms[k + 1] \in Messages
      BY <2>5, ElementOfSeq
    <3> QED
      BY <2>6, <3>1, FrameBegins
  <2>8. Frames(s.protocol, ms, k + 1, gs)
    <3>1. Len(ms) = (k + 1) + Len(gs)
      BY <1>1, <2>1
    <3>2. ASSUME NEW j \in 1..Len(gs)
          PROVE  IsFrame(s.protocol, ms[(k + 1) + j], gs[j])
      <4>1. j + 1 \in 1..Len(fs) /\ k + (j + 1) = (k + 1) + j
        BY <2>1
      <4>2. IsFrame(s.protocol, ms[k + (j + 1)], fs[j + 1])
        BY <2>4, <4>1
      <4> QED
        BY <2>1, <4>1, <4>2
    <3> QED
      BY <2>1, <3>1, <3>2 DEF Frames
  <2> QED
    BY <2>1, <2>3, <2>5, <2>7, <2>8 DEF Tracks
<1> QED
  BY <1>2, <1>3

(* The peer sends another message.                                         *)
LEMMA FrameSent ==
    ASSUME NEW s, NEW ms \in Seq(Messages), NEW k \in Nat, NEW rest,
           Tracks(s, ms, k, rest),
           NEW m \in Messages, NEW f, IsFrame(s.protocol, m, f)
    PROVE  Tracks(s, Append(ms, m), k, rest \o f)
<1> DEFINE n == Len(ms)
           ns == Append(ms, m)
<1>1. /\ n \in Nat /\ ns \in Seq(Messages) /\ Len(ns) = n + 1
      /\ \A i \in 1..n : ns[i] = ms[i]
      /\ ns[n + 1] = m
  BY LenProperties, AppendProperties
<1>2. f \in Data
  BY FrameType
<1> HIDE DEF ns, n
<1>3. CASE k = n /\ Idle(s) /\ rest = <<>>
  <2>1. <<f>> \in Wall /\ Len(<<f>>) = 1 /\ <<f>>[1] = f
    BY <1>2 DEF Wall
  <2>2. FlattenSeq(<<f>>) = f
    <3>1. <<>> \in Wall /\ <<>> \in Data
      BY EmptySeq DEF Wall, Data
    <3>2. FlattenSeq(Append(<<>>, f)) = <<>> \o f
      BY <1>2, <3>1, FlattenAppend, FlattenNone
    <3>3. Append(<<>>, f) = <<f>>
      OBVIOUS
    <3> QED
      BY <1>2, <3>2, <3>3, ConcatEmptySeq DEF Data
  <2>3. Frames(s.protocol, ns, k, <<f>>)
    <3>1. Len(ns) = k + Len(<<f>>)
      BY <1>1, <1>3, <2>1
    <3>2. ASSUME NEW j \in 1..Len(<<f>>) PROVE IsFrame(s.protocol, ns[k + j], <<f>>[j])
      <4>1. j = 1 /\ k + j = n + 1
        BY <1>1, <1>3, <2>1
      <4> QED
        BY <1>1, <2>1, <4>1
    <3> QED
      BY <2>1, <3>1, <3>2 DEF Frames
  <2>4. Tracks(s, ns, k, f)
    BY <1>1, <1>3, <2>1, <2>2, <2>3, NextFrame
  <2>5. rest \o f = f
    BY <1>2, <1>3, ConcatEmptySeq DEF Data
  <2> QED
    BY <2>4, <2>5 DEF ns
<1>4. CASE k < n
  <2>1. PICK rem \in Data, fs \in Wall :
             /\ InFrame(s, ms[k + 1], rem)
             /\ Frames(s.protocol, ms, k + 1, fs)
             /\ rest = rem \o FlattenSeq(fs)
    BY <1>1, <1>4 DEF Tracks, n
  <2> DEFINE gs == Append(fs, f)
             l == Len(fs)
  <2>2. l \in Nat /\ n = (k + 1) + l
    BY <2>1, WallType DEF Frames, n
  <2>3. /\ gs \in Wall /\ Len(gs) = l + 1
        /\ \A i \in 1..l : gs[i] = fs[i]
        /\ gs[l + 1] = f
    BY <1>2, LastAppended
  <2>4. FlattenSeq(gs) = FlattenSeq(fs) \o f /\ FlattenSeq(fs) \in Data
    BY <1>2, FlattenAppend, FlattenType
  <2> HIDE DEF gs
  <2>5. rest \o f = rem \o FlattenSeq(gs)
    <3> DEFINE g == FlattenSeq(fs)
    <3>1. g \in Data /\ rest = rem \o g /\ FlattenSeq(gs) = g \o f
      BY <2>1, <2>4
    <3> HIDE DEF g
    <3> QED
      BY <1>2, <3>1, Associative
  <2>6. \A j \in 1..l : IsFrame(s.protocol, ms[(k + 1) + j], fs[j])
    BY <2>1 DEF Frames
  <2> HIDE DEF l
  <2>7. ASSUME NEW j \in 1..Len(gs) PROVE IsFrame(s.protocol, ns[(k + 1) + j], gs[j])
    <3>1. CASE j = l + 1
      <4>1. (k + 1) + j = n + 1
        BY <2>2, <3>1
      <4> QED
        BY <1>1, <2>3, <3>1, <4>1
    <3>2. CASE j # l + 1
      <4>1. j \in 1..l /\ (k + 1) + j \in 1..n
        BY <2>2, <2>3, <3>2
      <4>2. ns[(k + 1) + j] = ms[(k + 1) + j] /\ gs[j] = fs[j]
        BY <1>1, <2>3, <4>1
      <4> QED
        BY <2>6, <4>1, <4>2
    <3> QED
      BY <3>1, <3>2
  <2>8. Frames(s.protocol, ns, k + 1, gs)
    <3>1. Len(ns) = (k + 1) + Len(gs)
      BY <1>1, <2>2, <2>3
    <3> QED
      BY <2>3, <2>7, <3>1 DEF Frames
  <2>9. ns[k + 1] = ms[k + 1] /\ k < Len(ns)
    <3>1. k + 1 \in 1..n
      BY <1>1, <1>4
    <3> QED
      BY <1>1, <1>4, <3>1
  <2>10. Tracks(s, ns, k, rest \o f)
    BY <2>1, <2>3, <2>5, <2>8, <2>9 DEF Tracks
  <2> QED
    BY <2>10 DEF ns
<1> QED
  BY <1>3, <1>4 DEF Tracks, n

(* What a part of a read has come to: the session has gone on from the     *)
(* k-th message without an error, and the reader will see the messages     *)
(* that became ready as it should.                                         *)
GoneOn(protocol, ms, k, rest, x) ==
    /\ ~x.scb.failed /\ x.scb.protocol = protocol
    /\ \A j \in 1..Len(x.ready) : Shown(ms[k + j], protocol, Seen(x.ready[j]))
    /\ Tracks(x.scb, ms, k + Len(x.ready), rest)

(* A byte of a read                                                        *)
LEMMA ByteReceived ==
    ASSUME NEW protocol, NEW ms \in Seq(Messages), NEW k \in Nat,
           NEW rest \in Data, rest # <<>>, NEW x \in Result,
           GoneOn(protocol, ms, k, rest, x)
    PROVE  GoneOn(protocol, ms, k, Tail(rest), Accept(x, Head(rest)))
<1> DEFINE s == x.scb
           done == x.ready
           l == Len(done)
           r == Accept(x, Head(rest))
<1>1. /\ Typed(s) /\ ~s.failed /\ s.protocol = protocol /\ done \in Seq(Ready)
      /\ x = [scb |-> s, ready |-> done]
  BY DEF Result, GoneOn
<1>2. l \in Nat
  BY <1>1, LenProperties
<1>3. /\ \A j \in 1..l : Shown(ms[k + j], protocol, Seen(done[j]))
      /\ Tracks(s, ms, k + l, rest)
  BY DEF GoneOn
<1> HIDE DEF s, done, l
<1>4. /\ k + l < Len(ms)
      /\ \E rem \in Data, fs \in Wall :
            /\ InFrame(s, ms[(k + l) + 1], rem)
            /\ Frames(s.protocol, ms, (k + l) + 1, fs)
            /\ rest = rem \o FlattenSeq(fs)
  BY <1>3 DEF Tracks
<1>5. PICK rem \in Data, fs \in Wall :
            /\ InFrame(s, ms[(k + l) + 1], rem)
            /\ Frames(s.protocol, ms, (k + l) + 1, fs)
            /\ rest = rem \o FlattenSeq(fs)
  BY <1>4
<1> DEFINE m == ms[(k + l) + 1]
           F == FlattenSeq(fs)
           y == Accept([scb |-> s, ready |-> done], Head(rem))
<1>6. m \in Messages
  <2>1. (k + l) + 1 \in 1..Len(ms)
    BY <1>2, <1>4, LenProperties
  <2> QED
    BY <2>1, ElementOfSeq
<1>7. F \in Data
  BY FlattenType
<1>8. /\ rem # <<>> /\ Head(rem) \in Byte
      /\ ~y.scb.failed /\ y.scb.protocol = s.protocol
      /\ \E new : /\ y.ready = done \o new
                  /\ Further(m, rem, y.scb, new, InFrame(y.scb, m, Tail(rem)))
  BY <1>1, <1>5, <1>6, FrameByte
<1>9. Head(rest) = Head(rem) /\ Tail(rest) = Tail(rem) \o F /\ Tail(rem) \in Data
  <2>1. rem[1] = Head(rem)
    BY <1>8, FirstAndRest
  <2> HIDE DEF F
  <2>2. rest = rem \o F
    BY <1>5 DEF F
  <2> QED
    BY <1>7, <1>8, <2>1, <2>2, Headed
<1>10. y = r
  BY <1>1, <1>9
<1>11. PICK new : /\ r.ready = done \o new
                  /\ Further(m, rem, r.scb, new, InFrame(r.scb, m, Tail(rem)))
  <2> HIDE DEF y, r, m
  <2> QED
    BY <1>8, <1>10
<1>12. ~r.scb.failed /\ r.scb.protocol = protocol
  <2> HIDE DEF y, r
  <2> QED
    BY <1>1, <1>8, <1>10
<1> HIDE DEF r, y, m, F
<1>13. CASE Tail(rem) # <<>> /\ new = <<>> /\ InFrame(r.scb, m, Tail(rem))
  <2>1. r.ready = done
    BY <1>1, <1>11, <1>13, ConcatEmptySeq
  <2>2. Tracks(r.scb, ms, k + l, Tail(rest))
    BY <1>1, <1>4, <1>5, <1>9, <1>12, <1>13 DEF Tracks, m, F
  <2>3. Len(r.ready) = l
    BY <2>1 DEF l
  <2> QED
    BY <1>3, <1>12, <2>1, <2>2, <2>3 DEF GoneOn, r
<1>14. CASE /\ Tail(rem) = <<>> /\ Idle(r.scb)
            /\ \E msg : new = <<msg>> /\ Shown(m, r.scb.protocol, Seen(msg))
  <2>1. PICK msg : new = <<msg>> /\ Shown(m, protocol, Seen(msg))
    BY <1>12, <1>14
  <2>2. /\ Len(r.ready) = l + 1
        /\ \A j \in 1..l : r.ready[j] = done[j]
        /\ r.ready[l + 1] = msg
    <3> DEFINE S == Ready \cup {msg}
               z == <<msg>>
    <3>1. done \in Seq(S) /\ z \in Seq(S) /\ Len(z) = 1 /\ z[1] = msg
      BY <1>1, SeqMonotonic
    <3>2. r.ready = done \o z
      BY <1>11, <2>1
    <3> HIDE DEF S, z
    <3>3. /\ Len(done \o z) = Len(done) + Len(z)
          /\ \A i \in 1..(Len(done) + Len(z)) :
               (done \o z)[i] = IF i <= Len(done) THEN done[i] ELSE z[i - Len(done)]
      BY <3>1, ConcatProperties
    <3>4. Len(r.ready) = l + 1
      BY <3>1, <3>2, <3>3 DEF l
    <3>5. ASSUME NEW j \in 1..l PROVE r.ready[j] = done[j]
      <4>1. j \in 1..(Len(done) + Len(z)) /\ j <= Len(done)
        BY <1>2, <3>1 DEF l
      <4> QED
        BY <3>2, <3>3, <4>1
    <3>6. r.ready[l + 1] = msg
      <4>1. l + 1 \in 1..(Len(done) + Len(z)) /\ ~(l + 1 <= Len(done)) /\ l + 1 - Len(done) = 1
        BY <1>2, <3>1 DEF l
      <4> QED
        BY <3>1, <3>2, <3>3, <4>1
    <3> QED
      BY <3>4, <3>5, <3>6
  <2>3. \A j \in 1..(l + 1) : Shown(ms[k + j], protocol, Seen(r.ready[j]))
    <3> TAKE j \in 1..(l + 1)
    <3>1. CASE j = l + 1
      <4>1. k + j = (k + l) + 1
        BY <1>2, <3>1
      <4> QED
        BY <2>1, <2>2, <3>1, <4>1 DEF m
    <3>2. CASE j # l + 1
      <4>1. j \in 1..l
        BY <1>2, <3>2
      <4> QED
        BY <1>3, <2>2, <4>1
    <3> QED
      BY <3>1, <3>2
  <2>4. Tail(rest) = F
    BY <1>7, <1>9, <1>14, ConcatEmptySeq DEF Data
  <2>5. (k + l) + 1 \in Nat /\ k + (l + 1) = (k + l) + 1
    BY <1>2
  <2>6. Frames(r.scb.protocol, ms, (k + l) + 1, fs)
    BY <1>1, <1>5, <1>12
  <2>7. Tracks(r.scb, ms, (k + l) + 1, Tail(rest))
    BY <1>14, <2>4, <2>5, <2>6, NextFrame DEF F
  <2>8. Tracks(r.scb, ms, k + Len(r.ready), Tail(rest))
    BY <2>2, <2>5, <2>7
  <2>9. \A j \in 1..Len(r.ready) : Shown(ms[k + j], protocol, Seen(r.ready[j]))
    BY <2>2, <2>3
  <2> QED
    BY <1>12, <2>8, <2>9 DEF GoneOn, r
<1> QED
  BY <1>11, <1>13, <1>14 DEF Further

(* All bytes of a read                                                     *)
LEMMA ReadReceived ==
    ASSUME NEW s, Typed(s), ~s.failed, NEW ms \in Seq(Messages), NEW k \in Nat,
           NEW rest \in Data, Tracks(s, ms, k, rest), NEW n \in Nat, n <= Len(rest)
    PROVE  GoneOn(s.protocol, ms, k, SubSeq(rest, n + 1, Len(rest)),
                     AcceptAll(s, SubSeq(rest, 1, n)))
<1> DEFINE bytes == SubSeq(rest, 1, n)
           left(i) == SubSeq(rest, i + 1, Len(rest))
<1>1. /\ bytes \in Data /\ Len(bytes) = n
      /\ \A i \in 1..n : bytes[i] = rest[i]
  BY Beginning
<1>2. Len(rest) \in Nat
  BY LenProperties DEF Data
<1> HIDE DEF bytes
<1>3. PICK r : Reads(s, bytes, r)
  BY <1>1, AcceptAllIs
<1>4. /\ r \in [0..n -> Result] /\ r[0] = Continue(s)
      /\ \A i \in 1..n : r[i] = Accept(r[i - 1], bytes[i])
      /\ AcceptAll(s, bytes) = r[n]
  BY <1>1, <1>3 DEF Reads
<1> DEFINE S == {i \in 0..n : GoneOn(s.protocol, ms, k, left(i), r[i])}
<1>5. 0 \in S
  <2>1. left(0) = rest
    <3>1. 0 + 1 = 1
      OBVIOUS
    <3> QED
      BY <3>1, SubSeqFull DEF Data
  <2> HIDE DEF left
  <2>2. r[0].scb = s /\ r[0].ready = <<>>
    BY <1>4 DEF Continue
  <2>3. Len(r[0].ready) = 0 /\ k + 0 = k
    BY <2>2
  <2>4. Tracks(r[0].scb, ms, k + Len(r[0].ready), rest)
    BY <2>2, <2>3
  <2>5. \A j \in 1..Len(r[0].ready) : FALSE
    BY <2>3
  <2>6. GoneOn(s.protocol, ms, k, left(0), r[0])
    BY <2>1, <2>2, <2>4, <2>5 DEF GoneOn
  <2>7. 0 \in 0..n
    OBVIOUS
  <2> QED
    BY <2>6, <2>7
<1>6. ASSUME NEW i \in 1..n, i - 1 \in S PROVE i \in S
  <2> DEFINE c == i - 1
  <2>1. c \in Nat /\ c < Len(rest) /\ c + 1 = i /\ c \in 0..n /\ i \in 0..n /\ c + 2 = i + 1
    BY <1>2
  <2>2. r[c] \in Result /\ r[i] = Accept(r[c], rest[i])
    BY <1>1, <1>4, <2>1
  <2>3. GoneOn(s.protocol, ms, k, left(c), r[c])
    BY <1>6
  <2> HIDE DEF c, S
  <2>4. /\ left(c) # <<>> /\ left(c) \in Data /\ Head(left(c)) = rest[i]
        /\ Tail(left(c)) = left(i)
    <3>1. /\ SubSeq(rest, c + 1, Len(rest)) # <<>> /\ SubSeq(rest, c + 1, Len(rest)) \in Data
          /\ Head(SubSeq(rest, c + 1, Len(rest))) = rest[c + 1]
          /\ Tail(SubSeq(rest, c + 1, Len(rest))) = SubSeq(rest, c + 2, Len(rest))
      BY <2>1, NextByte
    <3> QED
      BY <2>1, <3>1
  <2> HIDE DEF left
  <2>5. GoneOn(s.protocol, ms, k, Tail(left(c)), Accept(r[c], Head(left(c))))
    BY <2>2, <2>3, <2>4, ByteReceived
  <2>6. GoneOn(s.protocol, ms, k, left(i), r[i])
    BY <2>2, <2>4, <2>5
  <2> QED
    BY <2>1, <2>6 DEF S
<1>7. \A i \in 0..n : i \in S
  <2> HIDE DEF S
  <2> QED
    BY <1>5, <1>6, UpTo
<1>8. n \in 0..n
  OBVIOUS
<1>9. GoneOn(s.protocol, ms, k, left(n), r[n])
  BY <1>7, <1>8
<1> QED
  BY <1>4, <1>9 DEF bytes

-----------------------------------------------------------------------------
(* The inductive invariant                                                 *)

(* The messages that the session has completed                             *)
Completed == Len(delivered) + Len(msgQ)

(* The framing of a message                                                *)
Proto(i) == IF i = 1 THEN "1.0" ELSE agreed

FInv ==
    /\ TInv
    /\ ~scb.failed
    /\ scb.protocol = IF delivered = <<>> THEN "1.0" ELSE agreed
    /\ agreed = "1.1" /\ Len(sent) > 1 => delivered # <<>>
    /\ Tracks(scb, sent, Completed, net)
    /\ \A i \in 1..Len(delivered) : Shown(sent[i], Proto(i), delivered[i])
    /\ \A i \in 1..Len(msgQ) :
          Shown(sent[Len(delivered) + i], Proto(Len(delivered) + i), Seen(msgQ[i]))

LEMMA Lengths ==
    ASSUME TInv
    PROVE  /\ Len(delivered) \in Nat /\ Len(msgQ) \in Nat /\ Len(sent) \in Nat
           /\ Completed \in Nat
           /\ delivered = <<>> <=> Len(delivered) = 0
           /\ msgQ = <<>> <=> Len(msgQ) = 0
           /\ sent = <<>> <=> Len(sent) = 0
<1>1. /\ Len(delivered) \in Nat /\ Len(msgQ) \in Nat /\ Len(sent) \in Nat
      /\ delivered = <<>> <=> Len(delivered) = 0
      /\ msgQ = <<>> <=> Len(msgQ) = 0
      /\ sent = <<>> <=> Len(sent) = 0
  <2> DEFINE T == Seq(Byte \cup {Garbage})
  <2>1. delivered \in Seq(T) /\ msgQ \in Seq(Ready) /\ sent \in Seq(Messages)
    BY DEF TInv
  <2> HIDE DEF T
  <2> QED
    BY <2>1, LenProperties, EmptySeq
<1>2. Completed \in Nat
  BY <1>1 DEF Completed
<1> QED
  BY <1>1, <1>2

LEMMA FInvInit == Init => FInv
<1> SUFFICES ASSUME Init PROVE FInv
  OBVIOUS
<1>1. TInv
  BY TInvInit
<1>2. /\ sent = <<>> /\ net = <<>> /\ msgQ = <<>> /\ delivered = <<>>
      /\ scb.protocol = "1.0" /\ scb.instate = "idle" /\ scb.inendpos = 0
      /\ scb.buffQ = <<>> /\ ~scb.failed
  BY DEF Init
<1>3. Len(sent) = 0 /\ Len(delivered) = 0 /\ Len(msgQ) = 0 /\ Completed = 0
  BY <1>1, <1>2, Lengths DEF Completed
<1>4. Packed(<<>>, <<>>)
  BY EmptySeq, FlattenNone DEF Packed, Wall
<1>5. Tracks(scb, sent, Completed, net)
  BY <1>2, <1>3, <1>4 DEF Tracks, Idle
<1> QED
  BY <1>1, <1>2, <1>3, <1>5 DEF FInv

LEMMA CompletedSent ==
    ASSUME FInv
    PROVE  Completed <= Len(sent)
<1>1. Completed \in Nat /\ Len(sent) \in Nat
  BY Lengths DEF FInv
<1> QED
  BY <1>1 DEF FInv, Tracks

LEMMA FInvTransmit ==
    ASSUME FInv, NEW m \in Messages, NEW f, IsFrame(scb.protocol, m, f),
           Transmit(m, f), Len(sent) < MaxSent,
           agreed = "1.1" /\ sent # <<>> => delivered # <<>>
    PROVE  FInv'
<1>1. TInv'
  BY FrameType, TInvTransmit DEF FInv
<1>2. /\ TInv /\ sent' = Append(sent, m) /\ net' = net \o f /\ scb' = scb /\ agreed' = agreed
      /\ msgQ' = msgQ /\ delivered' = delivered /\ sent \in Seq(Messages)
  BY DEF FInv, Transmit, TInv
<1>3. /\ Len(sent') = Len(sent) + 1
      /\ \A i \in 1..Len(sent) : sent'[i] = sent[i]
  BY <1>2, AppendProperties
<1>4. Completed' = Completed /\ \A i : Proto(i)' = Proto(i)
  BY <1>2 DEF Completed, Proto
<1>5. /\ Len(delivered) \in Nat /\ Len(msgQ) \in Nat /\ Len(sent) \in Nat /\ Completed \in Nat
      /\ sent = <<>> <=> Len(sent) = 0
  BY <1>2, Lengths
<1>6. Completed <= Len(sent)
  BY CompletedSent
<1>7. Tracks(scb, sent', Completed, net')
  BY <1>2, <1>5, FrameSent DEF FInv
<1>8. ASSUME NEW i \in 1..Len(delivered) PROVE Shown(sent'[i], Proto(i), delivered[i])
  <2>1. i \in 1..Len(sent)
    BY <1>5, <1>6 DEF Completed
  <2> QED
    BY <1>3, <2>1 DEF FInv
<1>9. ASSUME NEW i \in 1..Len(msgQ)
      PROVE  Shown(sent'[Len(delivered) + i], Proto(Len(delivered) + i), Seen(msgQ[i]))
  <2>1. Len(delivered) + i \in 1..Len(sent)
    BY <1>5, <1>6 DEF Completed
  <2> QED
    BY <1>3, <2>1 DEF FInv
<1>10. agreed = "1.1" /\ Len(sent') > 1 => delivered # <<>>
  BY <1>3, <1>5
<1>11. ~scb.failed /\ scb.protocol = IF delivered = <<>> THEN "1.0" ELSE agreed
  BY DEF FInv
<1> QED
  BY <1>1, <1>2, <1>4, <1>7, <1>8, <1>9, <1>10, <1>11 DEF FInv

LEMMA FInvRead ==
    ASSUME FInv, NEW n \in 1..ReadSize, ses_accept_input(n)
    PROVE  FInv'
<1> DEFINE r == AcceptAll(scb, SubSeq(net, 1, n))
<1>1. TInv' /\ TInv
  BY TInvRead DEF FInv
<1>2. /\ scb' = r.scb /\ msgQ' = msgQ \o r.ready /\ n <= Len(net) /\ n \in Nat
      /\ net' = SubSeq(net, n + 1, Len(net))
      /\ agreed' = agreed /\ sent' = sent /\ delivered' = delivered
  BY SizeAssumption DEF ses_accept_input
<1>3. /\ Typed(scb) /\ ~scb.failed /\ sent \in Seq(Messages) /\ net \in Data
      /\ Tracks(scb, sent, Completed, net)
      /\ scb.protocol = IF delivered = <<>> THEN "1.0" ELSE agreed
      /\ agreed = "1.1" /\ Len(sent) > 1 => delivered # <<>>
      /\ agreed \in {"1.0", "1.1"} /\ msgQ \in Seq(Ready)
  BY DEF FInv, TInv
<1>4. /\ Len(delivered) \in Nat /\ Len(msgQ) \in Nat /\ Len(sent) \in Nat /\ Completed \in Nat
      /\ delivered = <<>> <=> Len(delivered) = 0
  BY <1>1, Lengths
<1>5. GoneOn(scb.protocol, sent, Completed, net', r)
  BY <1>2, <1>3, <1>4, ReadReceived
<1>6. r.ready \in Seq(Ready)
  <2> DEFINE bytes == SubSeq(net, 1, n)
  <2>1. bytes \in Data
    BY <1>2, <1>3, Beginning
  <2> HIDE DEF bytes
  <2>2. PICK w : Reads(scb, bytes, w)
    BY <1>3, <2>1, AcceptAllIs
  <2>3. Len(bytes) \in Nat
    BY <2>1, LenProperties DEF Data
  <2>4. AcceptAll(scb, bytes) \in Result
    BY <2>2, <2>3 DEF Reads
  <2>5. AcceptAll(scb, bytes).ready \in Seq(Ready)
    BY <2>4 DEF Result
  <2> QED
    BY <2>5 DEF bytes
<1> HIDE DEF r
<1>7. /\ ~r.scb.failed /\ r.scb.protocol = scb.protocol
      /\ \A j \in 1..Len(r.ready) : Shown(sent[Completed + j], scb.protocol, Seen(r.ready[j]))
      /\ Tracks(r.scb, sent, Completed + Len(r.ready), net')
  BY <1>5 DEF GoneOn
<1> DEFINE a == Len(msgQ)
           b == Len(r.ready)
<1>8. b \in Nat /\ Completed + b <= Len(sent)
  <2>1. b \in Nat
    BY <1>6, LenProperties
  <2>2. Completed + b = Len(sent) \/ Completed + b < Len(sent)
    BY <1>7 DEF Tracks
  <2> HIDE DEF b
  <2> QED
    BY <1>4, <2>1, <2>2
<1>9. /\ Len(msgQ') = a + b
      /\ \A i \in 1..(a + b) : msgQ'[i] = IF i <= a THEN msgQ[i] ELSE r.ready[i - a]
  BY <1>2, <1>3, <1>6, ConcatProperties
<1>10. Completed' = Completed + b
  <2>1. Completed' = Len(delivered) + (a + b)
    BY <1>2, <1>9 DEF Completed
  <2>2. Completed = Len(delivered) + a
    BY DEF Completed
  <2> HIDE DEF a, b
  <2> QED
    BY <1>4, <1>8, <2>1, <2>2 DEF a
<1>11. \A i : Proto(i)' = Proto(i)
  BY <1>2 DEF Proto
<1> HIDE DEF a, b
<1>12. ASSUME NEW j \in 1..b PROVE Proto(Completed + j) = scb.protocol
  <2>1. Completed + j \in 1..Len(sent) /\ Completed + j >= Len(delivered) + 1
    BY <1>4, <1>8 DEF Completed
  <2>2. CASE delivered = <<>>
    <3>1. CASE agreed = "1.0"
      BY <1>3, <2>2, <3>1 DEF Proto
    <3>2. CASE agreed = "1.1"
      <4>1. ~(Len(sent) > 1)
        BY <1>3, <2>2, <3>2
      <4>2. Completed + j = 1
        BY <1>4, <2>1, <4>1
      <4> QED
        BY <1>3, <2>2, <4>2 DEF Proto
    <3> QED
      BY <1>3, <3>1, <3>2
  <2>3. CASE delivered # <<>>
    <3>1. Completed + j # 1
      BY <1>4, <2>1, <2>3
    <3> QED
      BY <1>3, <2>3, <3>1 DEF Proto
  <2> QED
    BY <2>2, <2>3
<1>13. ASSUME NEW i \in 1..(a + b)
       PROVE  Shown(sent[Len(delivered) + i], Proto(Len(delivered) + i), Seen(msgQ'[i]))
  <2>1. CASE i <= a
    <3>1. i \in 1..Len(msgQ) /\ msgQ'[i] = msgQ[i]
      BY <1>4, <1>8, <1>9, <2>1 DEF a
    <3>2. Shown(sent[Len(delivered) + i], Proto(Len(delivered) + i), Seen(msgQ[i]))
      BY <3>1 DEF FInv
    <3> QED
      BY <3>1, <3>2
  <2>2. CASE ~(i <= a)
    <3> DEFINE j == i - a
    <3>1. j \in 1..b /\ Len(delivered) + i = Completed + j
      BY <1>4, <1>8, <2>2 DEF a, Completed
    <3>2. msgQ'[i] = r.ready[j]
      BY <1>9, <2>2
    <3> HIDE DEF j
    <3>3. Shown(sent[Completed + j], scb.protocol, Seen(r.ready[j]))
      BY <1>7, <3>1 DEF b
    <3>4. Proto(Completed + j) = scb.protocol
      BY <1>12, <3>1
    <3> QED
      BY <3>1, <3>2, <3>3, <3>4
  <2> QED
    BY <2>1, <2>2
<1>14. Tracks(scb', sent', Completed', net')
  BY <1>2, <1>7, <1>10 DEF b
<1>15. ~scb'.failed /\ scb'.protocol = scb.protocol
  BY <1>2, <1>7
<1>16. \A i \in 1..Len(delivered) : Shown(sent[i], Proto(i), delivered[i])
  BY DEF FInv
<1> QED
  BY <1>1, <1>2, <1>3, <1>9, <1>11, <1>13, <1>14, <1>15, <1>16 DEF FInv, a, b

LEMMA FInvProcess ==
    ASSUME FInv, agt_ses_process_first_ready
    PROVE  FInv'
<1> DEFINE d == Len(delivered)
           seen == Seen(Head(msgQ))
<1>1. TInv' /\ TInv
  BY TInvProcess DEF FInv
<1>2. /\ msgQ # <<>> /\ delivered' = Append(delivered, seen) /\ msgQ' = Tail(msgQ)
      /\ scb' = (IF delivered = <<>> THEN [scb EXCEPT !.protocol = agreed] ELSE scb)
      /\ agreed' = agreed /\ sent' = sent /\ net' = net
  BY DEF agt_ses_process_first_ready
<1>3. /\ Typed(scb) /\ scb \in Session /\ ~scb.failed
      /\ Tracks(scb, sent, Completed, net)
      /\ scb.protocol = IF delivered = <<>> THEN "1.0" ELSE agreed
      /\ agreed = "1.1" /\ Len(sent) > 1 => delivered # <<>>
      /\ agreed \in {"1.0", "1.1"} /\ msgQ \in Seq(Ready)
      /\ delivered \in Seq(Seq(Byte \cup {Garbage}))
  BY DEF FInv, TInv, Typed
<1>4. /\ d \in Nat /\ Len(msgQ) \in Nat /\ Len(sent) \in Nat /\ Completed \in Nat
      /\ delivered = <<>> <=> d = 0
      /\ msgQ = <<>> <=> Len(msgQ) = 0
  BY <1>1, Lengths
<1>5. Head(msgQ) = msgQ[1] /\ Len(msgQ') = Len(msgQ) - 1
      /\ \A i \in 1..Len(msgQ') : msgQ'[i] = msgQ[i + 1]
  BY <1>2, <1>3, HeadTailProperties
<1>6. /\ Len(delivered') = d + 1
      /\ \A i \in 1..d : delivered'[i] = delivered[i]
      /\ delivered'[d + 1] = seen
  <2> DEFINE T == Seq(Byte \cup {Garbage}) \cup {seen}
  <2>1. delivered \in Seq(T) /\ seen \in T
    BY <1>3, SeqMonotonic
  <2> HIDE DEF T, seen
  <2> QED
    BY <1>2, <2>1, AppendProperties
<1> HIDE DEF d, seen
<1>7. Completed' = Completed
  BY <1>4, <1>5, <1>6 DEF Completed, d
<1>8. \A i : Proto(i)' = Proto(i)
  BY <1>2 DEF Proto
<1>9. ASSUME NEW i \in 1..(d + 1) PROVE Shown(sent[i], Proto(i), delivered'[i])
  <2>1. CASE i = d + 1
    <3>1. 1 \in 1..Len(msgQ)
      BY <1>2, <1>4
    <3>2. Shown(sent[Len(delivered) + 1], Proto(Len(delivered) + 1), Seen(msgQ[1]))
      BY <3>1 DEF FInv
    <3> QED
      BY <1>5, <1>6, <2>1, <3>2 DEF d, seen
  <2>2. CASE i # d + 1
    <3>1. i \in 1..d
      BY <1>4, <2>2
    <3>2. Shown(sent[i], Proto(i), delivered[i])
      BY <3>1 DEF FInv, d
    <3> QED
      BY <1>6, <3>1, <3>2
  <2> QED
    BY <2>1, <2>2
<1>10. ASSUME NEW i \in 1..Len(msgQ')
       PROVE  Shown(sent[Len(delivered') + i], Proto(Len(delivered') + i), Seen(msgQ'[i]))
  <2>1. i + 1 \in 1..Len(msgQ) /\ Len(delivered') + i = Len(delivered) + (i + 1)
    BY <1>4, <1>5, <1>6 DEF d
  <2>2. Shown(sent[Len(delivered) + (i + 1)], Proto(Len(delivered) + (i + 1)), Seen(msgQ[i + 1]))
    BY <2>1 DEF FInv
  <2> QED
    BY <1>5, <2>1, <2>2
<1>11. delivered' # <<>>
  <2>1. Len(<<>>) = 0 /\ d + 1 # 0
    BY <1>4
  <2> QED
    BY <1>6, <2>1
<1>12. /\ ~scb'.failed /\ scb'.protocol = agreed
       /\ Tracks(scb', sent, Completed, net)
  <2>1. CASE delivered # <<>>
    BY <1>2, <1>3, <2>1
  <2>2. CASE delivered = <<>> /\ agreed = "1.0"
    <3>1. scb' = scb
      BY <1>2, <1>3, <2>2 DEF Session
    <3> QED
      BY <1>3, <2>2, <3>1
  <2>3. CASE delivered = <<>> /\ agreed = "1.1"
    <3>1. Completed >= 1 /\ ~(Len(sent) > 1)
      BY <1>2, <1>3, <1>4, <2>3 DEF Completed, d
    <3>2. Completed = Len(sent) /\ Idle(scb) /\ net = <<>>
      BY <1>3, <1>4, <3>1 DEF Tracks
    <3>3. /\ scb'.instate = scb.instate /\ scb'.inendpos = scb.inendpos
          /\ scb'.buffQ = scb.buffQ /\ scb'.failed = scb.failed /\ scb'.protocol = agreed
      BY <1>2, <1>3, <2>3 DEF Session
    <3>4. Idle(scb')
      BY <3>2, <3>3 DEF Idle
    <3> QED
      BY <1>3, <3>2, <3>3, <3>4 DEF Tracks
  <2> QED
    BY <1>3, <2>1, <2>2, <2>3
<1> QED
  BY <1>1, <1>2, <1>6, <1>7, <1>8, <1>9, <1>10, <1>11, <1>12 DEF FInv

(* A peer that waits for the server's <hello> before it sends a request    *)
LEMMA FInvNext ==
    ASSUME ~Pipelined
    PROVE  FInv /\ [Next]_vars => FInv'
<1> SUFFICES ASSUME FInv, [Next]_vars PROVE FInv'
  OBVIOUS
<1>1. /\ TInv /\ agreed \in {"1.0", "1.1"}
      /\ scb.protocol = IF delivered = <<>> THEN "1.0" ELSE agreed
  BY DEF FInv, TInv
<1>2. ASSUME NEW m \in Messages, SendEOM(m) PROVE FInv'
  <2>1. scb.protocol = "1.0" /\ ~(agreed = "1.1" /\ sent # <<>>)
    <3>1. CASE sent = <<>>
      <4>1. Completed <= 0 /\ Completed \in Nat /\ Len(delivered) \in Nat /\ Len(msgQ) \in Nat
        BY <1>1, <3>1, CompletedSent, Lengths
      <4>2. delivered = <<>>
        BY <1>1, <4>1, Lengths DEF Completed
      <4> QED
        BY <1>1, <3>1, <4>2
    <3>2. CASE sent # <<>>
      BY <1>1, <1>2, <3>2 DEF SendEOM
    <3> QED
      BY <3>1, <3>2
  <2>2. IsFrame(scb.protocol, m, m \o NC_SSH_END)
    BY <2>1 DEF IsFrame
  <2> QED
    BY <1>2, <2>1, <2>2, FInvTransmit DEF SendEOM
<1>3. ASSUME NEW m \in Messages, NEW size \in {OwnChunkSize} \cup ChunkSizes,
             SendChunks(m, size)
      PROVE  FInv'
  <2>1. size \in 1..MaxChunk /\ m \in Data /\ Len(m) >= 1
    BY SizesOfChunks, MessageIs
  <2>2. scb.protocol = "1.1"
    BY <1>3 DEF SendChunks
  <2>3. delivered # <<>>
    BY <1>1, <2>2
  <2>4. PICK cs : /\ Pieces(cs) /\ cs # <<>>
                  /\ FlattenSeq(cs) = m
                  /\ Chunks(m, size) = Body(cs)
    BY <2>1, ChunksAre
  <2>5. IsFrame(scb.protocol, m, Chunks(m, size))
    BY <2>2, <2>4 DEF IsFrame, Pieces
  <2> QED
    BY <1>3, <2>3, <2>5, FInvTransmit DEF SendChunks
<1>4. CASE Read
  BY <1>4, FInvRead DEF Read
<1>5. CASE agt_ses_process_first_ready
  BY <1>5, FInvProcess
<1>6. CASE UNCHANGED vars
  <2>1. TInv'
    BY <1>1, TInvNext
  <2> QED
    BY <1>6, <2>1 DEF vars, FInv, Completed, Proto
<1> QED
  BY <1>2, <1>3, <1>4, <1>5, <1>6 DEF Next

(* What a peer sends that waits for the server's <hello> is never taken    *)
(* for a framing error, for messages of any length and content, chunks and *)
(* reads of any size, and any boundaries between them                      *)
(* (accept_buffer_ssh_v11's errors, which close the session).              *)
THEOREM NoFramingError ==
    ASSUME ~Pipelined
    PROVE  Spec => []FramesAccepted
<1>1. FInv => FramesAccepted
  BY DEF FInv, FramesAccepted
<1> QED
  BY <1>1, FInvInit, FInvNext, PTL DEF Spec

LEMMA ShownOnEdge ==
    ASSUME NEW m \in Data, NEW protocol, NEW d, Shown(m, protocol, d)
    PROVE  /\ d # m <=> Edge(protocol, Len(m))
           /\ d # m => \E t \in Seq(Byte \cup {Garbage}) : t # <<>> /\ d = m \o t
<1>1. CASE Edge(protocol, Len(m))
  <2>1. PICK t \in Seq(Byte \cup {Garbage}) : t # <<>> /\ d = m \o t
    BY <1>1 DEF Shown
  <2>2. m \in Seq(Byte \cup {Garbage})
    BY SeqMonotonic DEF Data
  <2>3. m \o t # m
    <3> DEFINE S == Byte \cup {Garbage}
    <3>1. m \in Seq(S) /\ t \in Seq(S) /\ t # <<>>
      BY <2>1, <2>2
    <3> HIDE DEF S
    <3>2. Len(m \o t) = Len(m) + Len(t) /\ Len(m) \in Nat /\ Len(t) \in Nat
      BY <3>1, ConcatProperties, LenProperties
    <3>3. Len(t) # 0
      BY <3>1, EmptySeq
    <3> QED
      BY <3>2, <3>3
  <2> QED
    BY <1>1, <2>1, <2>3
<1>2. CASE ~Edge(protocol, Len(m))
  BY <1>2 DEF Shown
<1> QED
  BY <1>1, <1>2

(* The reader sees bytes that do not belong to a message just after those  *)
(* that end at the boundary of a buffer (ses_read_cb on what               *)
(* accept_buffer_ssh_v10 cut off, or on an empty last buffer): this is     *)
(* what the lengths and the sizes make of it, not an accident of a few.    *)
THEOREM GarbageJustAtBoundary ==
    ASSUME ~Pipelined
    PROVE  Spec => []GarbageAtBoundary
<1>1. FInv => GarbageAtBoundary
  <2> SUFFICES ASSUME FInv, NEW i \in DOMAIN delivered, i \in DOMAIN sent
               PROVE  delivered[i] # sent[i] <=> OnBoundary(i)
    BY DEF GarbageAtBoundary
  <2>1. TInv /\ sent \in Seq(Messages) /\ delivered \in Seq(Seq(Byte \cup {Garbage}))
        /\ agreed \in {"1.0", "1.1"}
    BY DEF FInv, TInv
  <2>2. i \in 1..Len(delivered) /\ i \in 1..Len(sent)
    BY <2>1
  <2>3. sent[i] \in Messages
    BY <2>1, <2>2
  <2>4. Shown(sent[i], Proto(i), delivered[i])
    BY <2>2 DEF FInv
  <2>5. delivered[i] # sent[i] <=> Edge(Proto(i), Len(sent[i]))
    BY <2>3, <2>4, MessageIs, ShownOnEdge
  <2>6. Edge(Proto(i), Len(sent[i])) <=> OnBoundary(i)
    BY <2>1, Sizes DEF Edge, Proto, OnBoundary
  <2> QED
    BY <2>5, <2>6
<1> QED
  BY <1>1, FInvInit, FInvNext, PTL DEF Spec

-----------------------------------------------------------------------------
(* The channel                                                             *)

LEMMA ShownWhole ==
    ASSUME NEW m \in Data, NEW protocol, NEW d, Shown(m, protocol, d)
    PROVE  IsPrefix(m, d)
<1>1. CASE d = m
  <2>1. Len(m) <= Len(m)
    BY LenProperties DEF Data
  <2> QED
    BY <1>1, <2>1 DEF IsPrefix
<1>2. CASE d # m
  <2>1. PICK t \in Seq(Byte \cup {Garbage}) : t # <<>> /\ d = m \o t
    BY <1>2, ShownOnEdge
  <2> DEFINE S == Byte \cup {Garbage}
  <2>2. m \in Seq(S) /\ t \in Seq(S)
    BY <2>1, SeqMonotonic DEF Data
  <2> HIDE DEF S
  <2>3. Len(d) = Len(m) + Len(t) /\ Len(m) \in Nat /\ Len(t) \in Nat
    BY <2>1, <2>2, ConcatProperties, LenProperties
  <2>4. SubSeq(m, 1, Len(m)) = m
    BY <2>2, SubSeqFull
  <2>5. SubSeq(d, 1, Len(m)) = m
    <3>1. \A i \in 1..Len(m) : d[i] = m[i] /\ d[i] \in S
      <4> TAKE i \in 1..Len(m)
      <4>1. i \in 1..(Len(m) + Len(t)) /\ i <= Len(m)
        BY <2>3
      <4>2. (m \o t)[i] = m[i]
        BY <2>2, <4>1, ConcatProperties
      <4> QED
        BY <2>1, <2>2, <4>2, ElementOfSeq
    <3> DEFINE l == Len(m)
               x == SubSeq(d, 1, l)
    <3>2. 1 \in Int /\ l \in Int
      BY <2>3
    <3>3. /\ x \in Seq(S) /\ Len(x) = IF 1 <= l THEN l - 1 + 1 ELSE 0
          /\ \A i \in 1..(l - 1 + 1) : x[i] = d[1 + i - 1]
      BY <3>1, <3>2, SubSeqProperties
    <3>4. Len(x) = l
      <4> HIDE DEF l, x
      <4>1. l \in Nat
        BY <2>3 DEF l
      <4> QED
        BY <3>3, <4>1
    <3>5. ASSUME NEW i \in 1..l PROVE x[i] = m[i]
      <4>1. i \in 1..(l - 1 + 1) /\ 1 + i - 1 = i
        BY <2>3
      <4> HIDE DEF x
      <4> QED
        BY <3>1, <3>3, <4>1
    <3> HIDE DEF x
    <3> QED
      BY <2>2, <3>3, <3>4, <3>5, SeqEqual DEF x
  <2>6. Len(m) <= Len(d)
    BY <2>3
  <2> QED
    BY <2>4, <2>5, <2>6 DEF IsPrefix
<1> QED
  BY <1>1, <1>2

(* What the channel delivers is what was sent.                             *)
ReceivedRight ==
    /\ Len(Received) = Len(delivered) /\ Len(delivered) <= Len(sent)
    /\ DOMAIN Received = 1..Len(delivered)
    /\ \A i \in 1..Len(delivered) :
          Received[i] = [msg |-> sent[i], clean |-> delivered[i] = sent[i]]

LEMMA ReceivedIs == FInv => ReceivedRight
<1> SUFFICES ASSUME FInv PROVE ReceivedRight
  OBVIOUS
<1>1. /\ TInv /\ sent \in Seq(Messages) /\ delivered \in Seq(Seq(Byte \cup {Garbage}))
  BY DEF FInv, TInv
<1>2. Len(delivered) \in Nat /\ Len(sent) \in Nat /\ Len(delivered) <= Len(sent)
  <2>1. Len(delivered) \in Nat /\ Len(sent) \in Nat /\ Len(msgQ) \in Nat
    BY <1>1, Lengths
  <2> QED
    BY <2>1, CompletedSent DEF Completed
<1>3. DOMAIN delivered = 1..Len(delivered)
  BY <1>1
<1>4. ASSUME NEW i \in 1..Len(delivered)
      PROVE  i \in DOMAIN sent /\ IsPrefix(sent[i], delivered[i])
  <2>1. i \in 1..Len(sent) /\ sent[i] \in Messages
    BY <1>1, <1>2, ElementOfSeq
  <2>2. Shown(sent[i], Proto(i), delivered[i])
    BY DEF FInv
  <2>3. IsPrefix(sent[i], delivered[i])
    BY <2>1, <2>2, MessageIs, ShownWhole
  <2> QED
    BY <1>1, <2>1, <2>3
<1>5. ASSUME NEW i \in 1..Len(delivered)
      PROVE  Received[i] = [msg |-> sent[i], clean |-> delivered[i] = sent[i]]
  BY <1>3, <1>4 DEF Received
<1>6. DOMAIN Received = 1..Len(delivered)
  BY <1>3 DEF Received
<1>7. Len(Received) = Len(delivered)
  BY <1>2, <1>6
<1> QED
  BY <1>2, <1>5, <1>6, <1>7 DEF ReceivedRight

LEMMA SameReceived ==
    ASSUME FInv, FInv', delivered' = delivered,
           \A i \in 1..Len(sent) : sent'[i] = sent[i]
    PROVE  Received' = Received
<1>1. /\ DOMAIN Received = 1..Len(delivered) /\ Len(delivered) <= Len(sent)
      /\ \A i \in 1..Len(delivered) :
            Received[i] = [msg |-> sent[i], clean |-> delivered[i] = sent[i]]
  BY ReceivedIs DEF ReceivedRight
<1>2. /\ DOMAIN Received' = 1..Len(delivered)
      /\ \A i \in 1..Len(delivered) :
            Received'[i] = [msg |-> sent'[i], clean |-> delivered[i] = sent'[i]]
  <2>1. ReceivedRight'
    BY ReceivedIs, PTL
  <2> QED
    BY <2>1 DEF ReceivedRight
<1>3. Len(delivered) \in Nat /\ Len(sent) \in Nat
  BY Lengths DEF FInv
<1>4. ASSUME NEW i \in 1..Len(delivered) PROVE Received'[i] = Received[i]
  <2>1. i \in 1..Len(sent)
    BY <1>1, <1>3
  <2> QED
    BY <1>1, <1>2, <2>1
<1>5. Received = [i \in 1..Len(delivered) |-> Received[i]]
      /\ Received' = [i \in 1..Len(delivered) |-> Received'[i]]
  BY <1>1, <1>2 DEF Received
<1> QED
  BY <1>4, <1>5

LEMMA ChannelStep ==
    ASSUME ~Pipelined, FInv, [Next]_vars
    PROVE  [Channel!Next]_(Channel!vars)
<1>1. FInv'
  BY FInvNext
<1>2. TInv /\ TInv' /\ sent \in Seq(Messages)
  BY <1>1 DEF FInv, TInv
<1>3. ASSUME NEW m \in Messages, NEW bytes, Len(sent) < MaxSent, Transmit(m, bytes)
      PROVE  Channel!Next
  <2>1. sent' = Append(sent, m) /\ delivered' = delivered
    BY <1>3 DEF Transmit
  <2>2. \A i \in 1..Len(sent) : sent'[i] = sent[i]
    BY <1>2, <2>1, AppendProperties
  <2>3. Received' = Received
    BY <1>1, <2>1, <2>2, SameReceived
  <2> QED
    BY <1>3, <2>1, <2>3 DEF Channel!Next, Channel!Send
<1>4. ASSUME UNCHANGED <<sent, delivered>> PROVE UNCHANGED Channel!vars
  <2>1. Received' = Received
    BY <1>1, <1>4, SameReceived
  <2> QED
    BY <1>4, <2>1 DEF Channel!vars
<1>5. CASE agt_ses_process_first_ready
  <2> DEFINE d == Len(delivered)
             clean == delivered'[d + 1] = sent[d + 1]
             new == [msg |-> sent[d + 1], clean |-> clean]
  <2>1. /\ delivered' = Append(delivered, Seen(Head(msgQ))) /\ sent' = sent
    BY <1>5 DEF agt_ses_process_first_ready
  <2>2. /\ Len(Received) = d /\ d <= Len(sent) /\ DOMAIN Received = 1..d
        /\ \A i \in 1..d :
              Received[i] = [msg |-> sent[i], clean |-> delivered[i] = sent[i]]
    BY ReceivedIs DEF ReceivedRight
  <2>3. /\ Len(delivered') <= Len(sent) /\ DOMAIN Received' = 1..Len(delivered')
        /\ \A i \in 1..Len(delivered') :
              Received'[i] = [msg |-> sent[i], clean |-> delivered'[i] = sent[i]]
    <3>1. ReceivedRight'
      BY <1>1, ReceivedIs, PTL
    <3> QED
      BY <2>1, <3>1 DEF ReceivedRight
  <2>4. d \in Nat /\ Len(sent) \in Nat
    BY <1>2, Lengths
  <2>5. Len(delivered') = d + 1 /\ \A i \in 1..d : delivered'[i] = delivered[i]
    <3> DEFINE T == Seq(Byte \cup {Garbage}) \cup {Seen(Head(msgQ))}
    <3>1. delivered \in Seq(T) /\ Seen(Head(msgQ)) \in T
      BY <1>2, SeqMonotonic DEF TInv
    <3> HIDE DEF T
    <3> QED
      BY <2>1, <3>1, AppendProperties
  <2> HIDE DEF d
  <2>6. Received \in Seq({Received[i] : i \in 1..d})
    <3>1. Received = [i \in 1..d |-> Received[i]]
      BY <2>2 DEF Received
    <3> QED
      BY <2>4, <3>1
  <2>7. Received' = Append(Received, new)
    <3> DEFINE S == {Received[i] : i \in 1..d} \cup {new}
               app == Append(Received, new)
    <3>1. Received \in Seq(S) /\ new \in S
      BY <2>6, SeqMonotonic
    <3> HIDE DEF S, new
    <3>2. /\ app \in Seq(S) /\ Len(app) = d + 1
          /\ \A i \in 1..d : app[i] = Received[i]
          /\ app[d + 1] = new
      BY <2>2, <3>1, AppendProperties
    <3> HIDE DEF app
    <3>3. app = [i \in 1..(d + 1) |-> app[i]]
      BY <2>4, <3>2
    <3>4. ASSUME NEW i \in 1..(d + 1) PROVE Received'[i] = app[i]
      <4>1. CASE i = d + 1
        BY <2>3, <2>5, <3>2, <4>1 DEF new
      <4>2. CASE i # d + 1
        <5>1. i \in 1..d /\ i \in 1..Len(delivered')
          BY <2>4, <2>5, <4>2
        <5>2. Received'[i] = [msg |-> sent[i], clean |-> delivered'[i] = sent[i]]
          BY <2>3, <5>1
        <5>3. Received[i] = [msg |-> sent[i], clean |-> delivered[i] = sent[i]]
          BY <2>2, <5>1
        <5>4. delivered'[i] = delivered[i] /\ app[i] = Received[i]
          BY <2>5, <3>2, <5>1
        <5> QED
          BY <5>2, <5>3, <5>4
      <4> QED
        BY <4>1, <4>2
    <3>5. Received' = [i \in 1..(d + 1) |-> Received'[i]]
      BY <2>3, <2>5 DEF Received
    <3> QED
      BY <3>3, <3>4, <3>5 DEF app
  <2>8. Len(Received) < Len(sent)
    BY <2>2, <2>3, <2>4, <2>5
  <2>9. clean \in BOOLEAN
    OBVIOUS
  <2> HIDE DEF clean
  <2>10. Channel!Receive(clean)
    BY <2>1, <2>2, <2>7, <2>8 DEF Channel!Receive
  <2> QED
    BY <2>9, <2>10 DEF Channel!Next
<1>6. ASSUME NEW m \in Messages, SendEOM(m) PROVE Channel!Next
  BY <1>3, <1>6 DEF SendEOM
<1>7. ASSUME NEW m \in Messages, NEW size \in {OwnChunkSize} \cup ChunkSizes,
             SendChunks(m, size)
      PROVE  Channel!Next
  BY <1>3, <1>7 DEF SendChunks
<1>8. CASE Read
  BY <1>4, <1>8 DEF Read, ses_accept_input
<1>9. CASE UNCHANGED vars
  BY <1>4, <1>9 DEF vars
<1> QED
  BY <1>5, <1>6, <1>7, <1>8, <1>9 DEF Next

(* The safety part of ImplementsChannel: each step of the framing is a     *)
(* step of the channel or none, so that the messages reach the reader one  *)
(* by one, whole and in the order in which they were sent.                 *)
THEOREM MessagesInOrder ==
    ASSUME ~Pipelined
    PROVE  Spec => Channel!Init /\ [][Channel!Next]_(Channel!vars)
<1>1. Init => Channel!Init
  <2> SUFFICES ASSUME Init PROVE Channel!Init
    OBVIOUS
  <2>1. sent = <<>> /\ delivered = <<>>
    BY DEF Init
  <2>2. Received = <<>>
    BY <2>1 DEF Received
  <2> QED
    BY <2>1, <2>2 DEF Channel!Init
<1>2. FInv /\ [Next]_vars => [Channel!Next]_(Channel!vars)
  BY ChannelStep
<1> QED
  BY <1>1, <1>2, FInvInit, FInvNext, PTL DEF Spec
=============================================================================
