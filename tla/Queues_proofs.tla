----------------------------- MODULE Queues_proofs -----------------------------
(* Lemmas about Queues.                                                          *)
EXTENDS Queues, SequenceTheorems, TLAPS

\* A sequence without its p-th element: those before it stay, those after it move up.
LEMMA RemoveAtFacts ==
  ASSUME NEW S, NEW q \in Seq(S), NEW p \in 1..Len(q)
  PROVE  /\ RemoveAt(q, p) \in Seq(S) /\ Len(RemoveAt(q, p)) = Len(q) - 1
         /\ \A i \in 1..(p - 1) : RemoveAt(q, p)[i] = q[i]
         /\ \A i \in p..(Len(q) - 1) : RemoveAt(q, p)[i] = q[i + 1]
<1> DEFINE front == SubSeq(q, 1, p - 1)
           back == SubSeq(q, p + 1, Len(q))
<1>0. Len(q) \in Nat /\ p \in Nat /\ 1 <= p /\ p <= Len(q)
  OBVIOUS
<1>1. /\ front \in Seq(S) /\ Len(front) = p - 1
      /\ \A i \in 1..(p - 1) : front[i] = q[i]
  BY <1>0
<1>2. /\ back \in Seq(S) /\ Len(back) = Len(q) - p
      /\ \A i \in 1..(Len(q) - p) : back[i] = q[i + p]
  BY <1>0
<1>3. RemoveAt(q, p) = front \o back
  BY DEF RemoveAt
<1> HIDE DEF front, back
<1>4. /\ front \o back \in Seq(S) /\ Len(front \o back) = Len(q) - 1
      /\ \A i \in 1..Len(front) + Len(back) : (front \o back)[i] =
           IF i <= Len(front) THEN front[i] ELSE back[i - Len(front)]
  <2>1. Len(front \o back) = Len(front) + Len(back)
    BY <1>1, <1>2, ConcatProperties
  <2> QED BY <1>0, <1>1, <1>2, <2>1, ConcatProperties
<1>5. ASSUME NEW i \in 1..(p - 1) PROVE (front \o back)[i] = q[i]
  <2>1. i \in 1..Len(front) + Len(back) /\ i <= Len(front)
    BY <1>0, <1>1, <1>2
  <2> QED BY <1>1, <1>4, <2>1
<1>6. ASSUME NEW i \in p..(Len(q) - 1) PROVE (front \o back)[i] = q[i + 1]
  <2>1. i \in 1..Len(front) + Len(back) /\ ~(i <= Len(front)) /\ i - Len(front) \in 1..(Len(q) - p)
        /\ (i - Len(front)) + p = i + 1
    BY <1>0, <1>1, <1>2
  <2> QED BY <1>2, <1>4, <2>1
<1> QED BY <1>3, <1>4, <1>5, <1>6

\* Every member but the one that leaves stays, and a head that stays is the head.
LEMMA WithoutOneFacts ==
  ASSUME NEW S, NEW q \in Seq(S), NEW places \in SUBSET DOMAIN q
  PROVE  /\ WithoutOneAt(q, places) \in Seq(S)
         /\ \A i \in DOMAIN q \ places :
              /\ \E j \in DOMAIN WithoutOneAt(q, places) : WithoutOneAt(q, places)[j] = q[i]
              /\ i = 1 => WithoutOneAt(q, places) # <<>> /\ WithoutOneAt(q, places)[1] = q[1]
<1>0. DOMAIN q = 1..Len(q) /\ Len(q) \in Nat
  OBVIOUS
<1>1. CASE places = {}
  <2>1. WithoutOneAt(q, places) = q
    BY <1>1 DEF WithoutOneAt
  <2> QED BY <1>0, <2>1
<1>2. CASE places # {}
  <2>1. PICK p \in places : WithoutOneAt(q, places) = RemoveAt(q, p)
    BY <1>2 DEF WithoutOneAt
  <2> DEFINE rest == RemoveAt(q, p)
  <2>2. p \in 1..Len(q)
    BY <1>0, <2>1
  <2>3. /\ rest \in Seq(S) /\ Len(rest) = Len(q) - 1
        /\ \A i \in 1..(p - 1) : rest[i] = q[i]
        /\ \A i \in p..(Len(q) - 1) : rest[i] = q[i + 1]
    BY <2>2, RemoveAtFacts
  <2> HIDE DEF rest
  <2>4. ASSUME NEW i \in DOMAIN q \ places
        PROVE  /\ \E j \in DOMAIN rest : rest[j] = q[i]
               /\ i = 1 => rest # <<>> /\ rest[1] = q[1]
    <3>0. DOMAIN rest = 1..Len(rest) /\ i # p /\ i \in 1..Len(q)
      BY <1>0, <2>1, <2>3, <2>4
    <3>1. CASE i < p
      <4>1. i \in DOMAIN rest /\ rest[i] = q[i] /\ Len(rest) # 0
        BY <1>0, <2>2, <2>3, <3>0, <3>1
      <4> QED BY <2>3, <4>1
    <3>2. CASE i > p
      <4>1. i - 1 \in DOMAIN rest /\ rest[i - 1] = q[i] /\ i # 1
        BY <1>0, <2>2, <2>3, <3>0, <3>2
      <4> QED BY <4>1
    <3> QED BY <2>2, <3>0, <3>1, <3>2
  <2> QED BY <2>1, <2>3, <2>4 DEF rest
<1> QED BY <1>1, <1>2

LEMMA LeftType ==
  ASSUME NEW S, NEW q \in Seq(S), NEW s PROVE Left(q, s) \in Seq(S)
BY WithoutOneFacts DEF Left

LEMMA LeftStays ==
  ASSUME NEW S, NEW q \in Seq(S), NEW s \in S, NEW t \in S \ {s}, NEW i \in DOMAIN q, q[i] = t
  PROVE  \E j \in DOMAIN Left(q, s) : Left(q, s)[j] = t
<1> DEFINE places == {k \in DOMAIN q : q[k] = s}
<1>1. places \in SUBSET DOMAIN q /\ i \in DOMAIN q \ places
  OBVIOUS
<1>2. \E j \in DOMAIN WithoutOneAt(q, places) : WithoutOneAt(q, places)[j] = q[i]
  <2> HIDE DEF places
  <2> QED BY <1>1, WithoutOneFacts
<1> QED BY <1>2 DEF Left

LEMMA LeftHead ==
  ASSUME NEW S, NEW q \in Seq(S), NEW s \in S, q # <<>>, q[1] # s
  PROVE  Left(q, s) # <<>> /\ Left(q, s)[1] = q[1]
<1> DEFINE places == {k \in DOMAIN q : q[k] = s}
<1>1. places \in SUBSET DOMAIN q /\ 1 \in DOMAIN q \ places
  OBVIOUS
<1>2. WithoutOneAt(q, places) # <<>> /\ WithoutOneAt(q, places)[1] = q[1]
  <2> HIDE DEF places
  <2> QED BY <1>1, WithoutOneFacts
<1> QED BY <1>2 DEF Left

\* The queue without its head.
LEMMA TailStays ==
  ASSUME NEW S, NEW q \in Seq(S), q # <<>>, NEW i \in DOMAIN q, q[i] # q[1]
  PROVE  \E j \in DOMAIN Tail(q) : Tail(q)[j] = q[i]
<1>0. Len(q) \in Nat /\ DOMAIN q = 1..Len(q) /\ i # 1
  OBVIOUS
<1>1. Tail(q) \in Seq(S) /\ Len(Tail(q)) = Len(q) - 1
      /\ \A k \in 1..(Len(q) - 1) : Tail(q)[k] = q[k + 1]
  BY <1>0
<1>2. i - 1 \in 1..(Len(q) - 1) /\ DOMAIN Tail(q) = 1..Len(Tail(q)) /\ (i - 1) + 1 = i
  BY <1>0, <1>1
<1> QED BY <1>1, <1>2

\* The queue with one more member at its end.
LEMMA AppendFacts ==
  ASSUME NEW S, NEW q \in Seq(S), NEW s \in S
  PROVE  /\ Append(q, s) \in Seq(S) /\ Append(q, s) # <<>>
         /\ Append(q, s)[Len(q) + 1] = s /\ Len(q) + 1 \in DOMAIN Append(q, s)
         /\ \A i \in DOMAIN q : i \in DOMAIN Append(q, s) /\ Append(q, s)[i] = q[i]
         /\ q # <<>> => Append(q, s)[1] = q[1]
<1>0. Len(q) \in Nat /\ DOMAIN q = 1..Len(q)
  OBVIOUS
<1>1. /\ Append(q, s) \in Seq(S) /\ Len(Append(q, s)) = Len(q) + 1
      /\ DOMAIN Append(q, s) = 1..(Len(q) + 1)
      /\ Append(q, s)[Len(q) + 1] = s
      /\ \A i \in 1..Len(q) : Append(q, s)[i] = q[i]
  BY <1>0
<1>2. q # <<>> => 1 \in 1..Len(q)
  BY <1>0
<1>3. Append(q, s) # <<>>
  BY <1>0, <1>1
<1> QED BY <1>0, <1>1, <1>2, <1>3

\* The queue after x has left, if it was in it.
LEMMA LeftFacts ==
  ASSUME NEW S, NEW q \in Seq(S), IsInjective(q), NEW x \in S
  PROVE  /\ Left(q, x) \in Seq(S) /\ IsInjective(Left(q, x))
         /\ \A i \in DOMAIN Left(q, x) :
              Left(q, x)[i] # x /\ \E j \in DOMAIN q : q[j] = Left(q, x)[i]
         /\ \A i \in DOMAIN q : q[i] # x => \E j \in DOMAIN Left(q, x) : Left(q, x)[j] = q[i]
         /\ Len(Left(q, x)) = IF \E i \in DOMAIN q : q[i] = x THEN Len(q) - 1 ELSE Len(q)
<1> DEFINE places == {k \in DOMAIN q : q[k] = x}
           rest == Left(q, x)
<1>0. DOMAIN q = 1..Len(q) /\ Len(q) \in Nat
  OBVIOUS
<1>1. rest \in Seq(S)
  BY LeftType
<1>2. /\ \A i, j \in DOMAIN rest : rest[i] = rest[j] => i = j
      /\ \A i \in DOMAIN rest : rest[i] # x /\ \E k \in DOMAIN q : q[k] = rest[i]
      /\ Len(rest) = IF places = {} THEN Len(q) ELSE Len(q) - 1
  <2>1. CASE places = {}
    <3>1. rest = q /\ \A i \in DOMAIN q : q[i] # x
      BY <2>1 DEF Left, WithoutOneAt
    <3>2. Len(rest) = IF places = {} THEN Len(q) ELSE Len(q) - 1
      BY <2>1, <3>1
    <3> HIDE DEF rest, places
    <3> QED BY <3>1, <3>2 DEF IsInjective
  <2>2. CASE places # {}
    <3>1. PICK p \in places : rest = RemoveAt(q, p)
      BY <2>2 DEF Left, WithoutOneAt
    <3>2. p \in 1..Len(q) /\ q[p] = x
      BY <1>0, <3>1
    <3>r. /\ Len(RemoveAt(q, p)) = Len(q) - 1
          /\ \A i \in 1..(p - 1) : RemoveAt(q, p)[i] = q[i]
          /\ \A i \in p..(Len(q) - 1) : RemoveAt(q, p)[i] = q[i + 1]
      BY <3>2, RemoveAtFacts
    <3> HIDE DEF places, rest
    <3>3. /\ Len(rest) = Len(q) - 1 /\ DOMAIN rest = 1..Len(rest)
          /\ \A i \in 1..(p - 1) : rest[i] = q[i]
          /\ \A i \in p..(Len(q) - 1) : rest[i] = q[i + 1]
      BY <1>1, <3>1, <3>r
    <3>4. ASSUME NEW i \in DOMAIN rest
          PROVE  \E k \in 1..Len(q) : /\ rest[i] = q[k] /\ k # p
                                      /\ k = IF i < p THEN i ELSE i + 1
      <4>1. i \in 1..(Len(q) - 1)
        BY <3>3
      <4>2. CASE i < p
        BY <1>0, <3>2, <3>3, <4>1, <4>2
      <4>3. CASE ~(i < p)
        <5>1. i \in p..(Len(q) - 1) /\ i + 1 \in 1..Len(q) /\ i + 1 # p
          BY <1>0, <3>2, <4>1, <4>3
        <5> QED BY <3>3, <4>3, <5>1
      <4> QED BY <4>2, <4>3
    <3>5. ASSUME NEW i \in DOMAIN rest, NEW j \in DOMAIN rest, rest[i] = rest[j] PROVE i = j
      <4>1. PICK k \in 1..Len(q) : rest[i] = q[k] /\ k = IF i < p THEN i ELSE i + 1
        BY <3>4
      <4>2. PICK l \in 1..Len(q) : rest[j] = q[l] /\ l = IF j < p THEN j ELSE j + 1
        BY <3>4
      <4>3. k = l
        BY <1>0, <3>5, <4>1, <4>2 DEF IsInjective
      <4>4. i \in Nat /\ j \in Nat /\ p \in Nat
        BY <1>0, <3>2, <3>3
      <4> QED BY <4>1, <4>2, <4>3, <4>4
    <3>6. ASSUME NEW i \in DOMAIN rest PROVE rest[i] # x /\ \E k \in DOMAIN q : q[k] = rest[i]
      BY <1>0, <3>2, <3>4 DEF IsInjective
    <3> QED BY <2>2, <3>3, <3>5, <3>6
  <2> QED BY <2>1, <2>2
<1>3. (places = {}) <=> ~\E i \in DOMAIN q : q[i] = x
  OBVIOUS
<1>4. \A i \in DOMAIN q : q[i] # x => \E j \in DOMAIN rest : rest[j] = q[i]
  BY LeftStays
<1> HIDE DEF places, rest
<1>5. /\ rest \in Seq(S) /\ IsInjective(rest)
      /\ \A i \in DOMAIN rest : rest[i] # x /\ \E j \in DOMAIN q : q[j] = rest[i]
      /\ \A i \in DOMAIN q : q[i] # x => \E j \in DOMAIN rest : rest[j] = q[i]
      /\ Len(rest) = IF \E i \in DOMAIN q : q[i] = x THEN Len(q) - 1 ELSE Len(q)
  BY <1>1, <1>2, <1>3, <1>4 DEF IsInjective
<1> QED BY <1>5 DEF rest

\* A new member at the end.
LEMMA AppendNew ==
  ASSUME NEW S, NEW rest \in Seq(S), IsInjective(rest), NEW x \in S,
         \A i \in DOMAIN rest : rest[i] # x
  PROVE  /\ Append(rest, x) \in Seq(S) /\ IsInjective(Append(rest, x))
         /\ Len(Append(rest, x)) = Len(rest) + 1
         /\ \A y \in S : (\E i \in DOMAIN Append(rest, x) : Append(rest, x)[i] = y) <=>
                         y = x \/ \E i \in DOMAIN rest : rest[i] = y
<1>3. /\ Append(rest, x) \in Seq(S) /\ Len(Append(rest, x)) = Len(rest) + 1
      /\ Append(rest, x)[Len(rest) + 1] = x
      /\ \A i \in 1..Len(rest) : Append(rest, x)[i] = rest[i]
  BY AppendProperties
<1>4. DOMAIN Append(rest, x) = 1..(Len(rest) + 1) /\ DOMAIN rest = 1..Len(rest) /\ Len(rest) \in Nat
  BY <1>3
<1>5. ASSUME NEW i \in 1..(Len(rest) + 1), NEW j \in 1..(Len(rest) + 1),
             Append(rest, x)[i] = Append(rest, x)[j]
      PROVE  i = j
  <2>1. i = Len(rest) + 1 \/ i \in 1..Len(rest)
    BY <1>4
  <2>2. j = Len(rest) + 1 \/ j \in 1..Len(rest)
    BY <1>4
  <2> QED BY <1>3, <1>4, <1>5, <2>1, <2>2 DEF IsInjective
<1>6. \A i \in 1..(Len(rest) + 1) : i = Len(rest) + 1 \/ i \in 1..Len(rest)
  BY <1>4
<1>7. \A i \in 1..Len(rest) : i \in 1..(Len(rest) + 1)
  BY <1>4
<1>8. Len(rest) + 1 \in 1..(Len(rest) + 1)
  BY <1>4
<1> QED BY <1>3, <1>4, <1>5, <1>6, <1>7, <1>8 DEF IsInjective

\* A member that leaves and comes back at the end is in the queue once.
LEMMA MovedToEnd ==
  ASSUME NEW S, NEW q \in Seq(S), IsInjective(q), NEW x \in S
  PROVE  /\ Append(Left(q, x), x) \in Seq(S) /\ IsInjective(Append(Left(q, x), x))
BY LeftFacts, AppendNew

\* What is a function on 1..n is a sequence.
LEMMA FunctionIsSequence ==
  ASSUME NEW S, NEW n \in Nat, NEW g \in [1..n -> S]
  PROVE  g \in Seq(S) /\ Len(g) = n
BY SeqDef

\* A sequence that is given its next element as a function.
LEMMA JoinedIsAppend ==
  ASSUME NEW S, NEW q \in Seq(S), NEW b \in S
  PROVE  [i \in DOMAIN q \cup {Len(q) + 1} |-> IF i = Len(q) + 1 THEN b ELSE q[i]] = Append(q, b)
<1> DEFINE g == [i \in DOMAIN q \cup {Len(q) + 1} |-> IF i = Len(q) + 1 THEN b ELSE q[i]]
<1>1. DOMAIN q \cup {Len(q) + 1} = 1..(Len(q) + 1) /\ Len(q) + 1 \in Nat
  OBVIOUS
<1>2. g \in [1..(Len(q) + 1) -> S]
  BY <1>1
<1>3. g \in Seq(S) /\ Len(g) = Len(q) + 1
  BY <1>1, <1>2, FunctionIsSequence
<1>4. /\ Append(q, b) \in Seq(S) /\ Len(Append(q, b)) = Len(q) + 1
      /\ \A i \in 1..(Len(q) + 1) : Append(q, b)[i] = IF i = Len(q) + 1 THEN b ELSE q[i]
  OBVIOUS
<1>5. \A i \in 1..(Len(q) + 1) : g[i] = Append(q, b)[i]
  BY <1>1, <1>4
<1> QED BY <1>1, <1>3, <1>4, <1>5, SeqEqual

LEMMA OneIsSequence == ASSUME NEW S, NEW b \in S PROVE [i \in {1} |-> b] = <<b>>
<1>1. {1} = 1..1
  OBVIOUS
<1>2. [i \in {1} |-> b] \in [1..1 -> S] /\ 1 \in Nat
  BY <1>1
<1>3. [i \in {1} |-> b] \in Seq(S) /\ Len([i \in {1} |-> b]) = 1
  BY <1>2, FunctionIsSequence
<1> QED BY <1>3, SeqEqual
\* The queue after its first n, of which none is further back.
LEMMA BehindFacts ==
  ASSUME NEW S, NEW s \in Seq(S), IsInjective(s), NEW n \in 1..Len(s)
  PROVE  /\ SubSeq(s, n + 1, Len(s)) \in Seq(S) /\ IsInjective(SubSeq(s, n + 1, Len(s)))
         /\ Len(SubSeq(s, n + 1, Len(s))) = Len(s) - n
         /\ \A i \in 1..(Len(s) - n) : SubSeq(s, n + 1, Len(s))[i] = s[n + i]
<1> DEFINE t == SubSeq(s, n + 1, Len(s))
<1>0. Len(s) \in Nat /\ DOMAIN s = 1..Len(s) /\ n \in Nat /\ 1 <= n /\ n <= Len(s)
  OBVIOUS
<1>1. t \in Seq(S) /\ Len(t) = Len(s) - n /\ \A i \in 1..(Len(s) - n) : t[i] = s[n + i]
  <2>1. /\ t \in Seq(S) /\ Len(t) = Len(s) - n
        /\ \A i \in 1..(Len(s) - n) : t[i] = s[i + n]
    BY <1>0
  <2>2. \A i \in 1..(Len(s) - n) : i + n = n + i
    BY <1>0
  <2> HIDE DEF t
  <2> QED BY <2>1, <2>2
<1> HIDE DEF t
<1>2. DOMAIN t = 1..(Len(s) - n)
  BY <1>1
<1>3. \A i \in DOMAIN t : n + i \in DOMAIN s /\ t[i] = s[n + i]
  <2> SUFFICES ASSUME NEW i \in DOMAIN t PROVE n + i \in DOMAIN s /\ t[i] = s[n + i]
    OBVIOUS
  <2>1. i \in 1..(Len(s) - n)
    BY <1>2
  <2>2. n + i \in 1..Len(s)
    BY <1>0, <2>1
  <2> QED BY <1>0, <1>1, <2>1, <2>2
<1>4. \A i \in DOMAIN s : \A j \in DOMAIN s : s[i] = s[j] => i = j
  BY DEF IsInjective
<1>5. IsInjective(t)
  <2> SUFFICES ASSUME NEW i \in DOMAIN t, NEW j \in DOMAIN t, t[i] = t[j] PROVE i = j
    BY DEF IsInjective
  <2>1. n + i = n + j
    BY <1>3, <1>4
  <2>2. i \in Nat /\ j \in Nat
    BY <1>0, <1>2
  <2> QED BY <1>0, <2>1, <2>2
<1> QED BY <1>1, <1>5 DEF t

Among(q, y) == \E i \in DOMAIN q : q[i] = y

\* What is still there is what was not among them.
LEMMA BehindHas ==
  ASSUME NEW S, NEW s \in Seq(S), IsInjective(s), NEW n \in 1..Len(s), NEW y \in S
  PROVE  Among(SubSeq(s, n + 1, Len(s)), y) <=> ~Among(SubSeq(s, 1, n), y) /\ Among(s, y)
<1> DEFINE t == SubSeq(s, n + 1, Len(s))
           u == SubSeq(s, 1, n)
<1>0. Len(s) \in Nat /\ DOMAIN s = 1..Len(s) /\ n \in Nat /\ 1 <= n /\ n <= Len(s)
  OBVIOUS
<1>1. DOMAIN u = 1..n /\ \A i \in 1..n : u[i] = s[i]
  BY <1>0
<1> HIDE DEF u
<1>2. t \in Seq(S) /\ Len(t) = Len(s) - n /\ \A i \in 1..(Len(s) - n) : t[i] = s[n + i]
  BY BehindFacts
<1> HIDE DEF t
<1>3. DOMAIN t = 1..(Len(s) - n)
  BY <1>2
<1>4. \A i \in DOMAIN s : \A j \in DOMAIN s : s[i] = s[j] => i = j
  BY DEF IsInjective
<1>5. ASSUME NEW i \in DOMAIN t, t[i] = y PROVE ~Among(u, y) /\ Among(s, y)
  <2>1. n + i \in DOMAIN s /\ s[n + i] = y /\ n + i > n
    BY <1>0, <1>2, <1>3, <1>5
  <2>2. ASSUME NEW m \in 1..n PROVE s[m] # y
    <3>1. m \in DOMAIN s /\ m # n + i
      BY <1>0, <2>1
    <3> QED BY <1>4, <2>1, <3>1
  <2> QED BY <1>1, <2>1, <2>2 DEF Among
<1>6. ASSUME ~Among(u, y), NEW j \in DOMAIN s, s[j] = y PROVE Among(t, y)
  <2>1. j \notin 1..n
    BY <1>1, <1>6 DEF Among
  <2>2. j - n \in 1..(Len(s) - n) /\ n + (j - n) = j
    BY <1>0, <2>1
  <2>3. t[j - n] = s[j]
    BY <1>2, <2>2
  <2> QED BY <1>3, <1>6, <2>2, <2>3 DEF Among
<1> QED BY <1>5, <1>6 DEF t, u, Among

===============================================================================
