------------------------------ MODULE Counting ------------------------------
(***************************************************************************)
(* How many entries of a queue are in a set, as entries come and go.        *)
(***************************************************************************)
EXTENDS Integers, Sequences, FiniteSets, FiniteSetTheorems, SequenceTheorems,
        TLAPS

Places(s, M) == {k \in DOMAIN s : s[k] \in M}

Count(s, M) == Cardinality(Places(s, M))

(* The places of a finite sequence are finitely many.                       *)
LEMMA CountType ==
    ASSUME NEW T, NEW s \in Seq(T), NEW M
    PROVE  /\ IsFiniteSet(Places(s, M))
           /\ Count(s, M) \in Nat
           /\ Count(s, M) = 0 <=> \A k \in DOMAIN s : s[k] \notin M
  <1>1. IsFiniteSet(1..Len(s)) BY FS_Interval
  <1>2. Places(s, M) \subseteq 1..Len(s) BY DEF Places
  <1>3. IsFiniteSet(Places(s, M)) BY <1>1, <1>2, FS_Subset
  <1>4. Count(s, M) \in Nat BY <1>3, FS_CardinalityType DEF Count
  <1>5. Count(s, M) = 0 <=> Places(s, M) = {} BY <1>3, FS_EmptySet DEF Count
  <1> QED BY <1>3, <1>4, <1>5 DEF Places

LEMMA CountEmpty == ASSUME NEW M PROVE Count(<< >>, M) = 0
  <1>1. Places(<< >>, M) = {} BY DEF Places
  <1> QED BY <1>1, FS_EmptySet DEF Count

(* Sending adds one message to the end.                                     *)
LEMMA CountAppend ==
    ASSUME NEW T, NEW s \in Seq(T), NEW x \in T, NEW M
    PROVE  Count(Append(s, x), M) = Count(s, M) + (IF x \in M THEN 1 ELSE 0)
  <1> DEFINE q == Append(s, x)
  <1>1. /\ q \in Seq(T) /\ Len(q) = Len(s) + 1 /\ q[Len(s) + 1] = x
        /\ \A k \in 1..Len(s) : q[k] = s[k]
    OBVIOUS
  <1>2. IsFiniteSet(Places(s, M)) /\ Count(s, M) \in Nat BY CountType
  <1>3. CASE x \in M
    <2>1. Places(q, M) = Places(s, M) \cup {Len(s) + 1}
      BY <1>1, <1>3 DEF Places
    <2>2. Len(s) + 1 \notin Places(s, M) BY DEF Places
    <2> QED BY <1>2, <1>3, <2>1, <2>2, FS_AddElement DEF Count
  <1>4. CASE x \notin M
    <2>1. Places(q, M) = Places(s, M) BY <1>1, <1>4 DEF Places
    <2> QED BY <1>2, <1>4, <2>1 DEF Count
  <1> QED BY <1>3, <1>4

(* Two queues one after the other.                                          *)
LEMMA CountConcat ==
    ASSUME NEW T, NEW s \in Seq(T), NEW U, NEW t \in Seq(U), NEW M
    PROVE  Count(s \o t, M) = Count(s, M) + Count(t, M)
  <1> DEFINE q == s \o t
             right == {k \in (Len(s) + 1)..(Len(s) + Len(t)) : q[k] \in M}
             f == [k \in Places(t, M) |-> k + Len(s)]
  <1>1. /\ DOMAIN q = 1..(Len(s) + Len(t))
        /\ \A k \in 1..Len(s) : q[k] = s[k]
        /\ \A k \in (Len(s) + 1)..(Len(s) + Len(t)) : q[k] = t[k - Len(s)]
    OBVIOUS
  <1>2. Len(s) \in Nat /\ Len(t) \in Nat /\ DOMAIN s = 1..Len(s) /\ DOMAIN t = 1..Len(t)
    OBVIOUS
  <1>3. IsFiniteSet(Places(s, M)) /\ IsFiniteSet(Places(t, M)) BY CountType
  <1>4. f \in Bijection(Places(t, M), right)
    <2>1. f \in [Places(t, M) -> right] BY <1>1, <1>2 DEF Places
    <2>2. \A a, b \in Places(t, M) : f[a] = f[b] => a = b BY <1>2 DEF Places
    <2>3. ASSUME NEW k \in right PROVE \E a \in Places(t, M) : f[a] = k
      <3>1. k - Len(s) \in Places(t, M) BY <1>1, <1>2 DEF Places
      <3> QED BY <3>1, <1>2
    <2> QED BY <2>1, <2>2, <2>3 DEF Bijection, Injection, Surjection, IsInjective
  <1>5. IsFiniteSet(right) /\ Cardinality(right) = Count(t, M)
    BY <1>3, <1>4, FS_Bijection DEF ExistsBijection, Count
  <1>6. Places(q, M) = Places(s, M) \cup right BY <1>1, <1>2 DEF Places
  <1>7. Places(s, M) \cap right = {} BY <1>1, <1>2 DEF Places
  <1>8. Cardinality(Places(s, M) \cup right) = Cardinality(Places(s, M)) + Cardinality(right)
    <2>1. Cardinality(Places(s, M)) \in Nat /\ Cardinality(right) \in Nat
      BY <1>3, <1>5, FS_CardinalityType
    <2>2. ASSUME NEW A, NEW B, IsFiniteSet(A), IsFiniteSet(B), A \cap B = {}
          PROVE  Cardinality(A \cup B) = Cardinality(A) + Cardinality(B)
      <3>1. Cardinality(A) \in Nat /\ Cardinality(B) \in Nat /\ Cardinality({}) = 0
        BY <2>2, FS_CardinalityType, FS_EmptySet
      <3>2. Cardinality(A \cup B)
              = Cardinality(A) + Cardinality(B) - Cardinality(A \cap B)
        BY <2>2, FS_Union
      <3>3. Cardinality(A \cap B) = 0 BY <2>2, <3>1
      <3> QED BY <3>1, <3>2, <3>3
    <2> HIDE DEF right
    <2> QED BY <1>3, <1>5, <1>7, <2>2
  <1> QED BY <1>5, <1>6, <1>8 DEF Count

(* Receiving takes the first message.                                       *)
LEMMA CountTail ==
    ASSUME NEW T, NEW s \in Seq(T), s # << >>, NEW M
    PROVE  Count(Tail(s), M) = Count(s, M) - (IF Head(s) \in M THEN 1 ELSE 0)
  <1>1. s = <<Head(s)>> \o Tail(s) /\ Head(s) \in T /\ Tail(s) \in Seq(T)
    OBVIOUS
  <1>2. <<Head(s)>> = Append(<< >>, Head(s)) OBVIOUS
  <1>3. Count(<<Head(s)>>, M) = IF Head(s) \in M THEN 1 ELSE 0
    <2>1. << >> \in Seq(T) OBVIOUS
    <2>2. Count(Append(<< >>, Head(s)), M)
            = Count(<< >>, M) + (IF Head(s) \in M THEN 1 ELSE 0)
      BY <1>1, <2>1, CountAppend
    <2> QED BY <1>2, <2>2, CountEmpty
  <1>4. <<Head(s)>> \in Seq(T) BY <1>1
  <1>5. Count(s, M) = Count(<<Head(s)>>, M) + Count(Tail(s), M)
    BY <1>1, <1>4, CountConcat
  <1>6. Count(Tail(s), M) \in Nat BY <1>1, CountType
  <1> QED BY <1>3, <1>5, <1>6

(* Some other message is taken.                                             *)
LEMMA CountRemove ==
    ASSUME NEW T, NEW s \in Seq(T), NEW i \in DOMAIN s, NEW M
    PROVE  Count(SubSeq(s, 1, i - 1) \o SubSeq(s, i + 1, Len(s)), M)
             = Count(s, M) - (IF s[i] \in M THEN 1 ELSE 0)
  <1> DEFINE a == SubSeq(s, 1, i - 1)
             b == SubSeq(s, i, Len(s))
             c == SubSeq(s, i + 1, Len(s))
  <1>1. /\ Len(s) \in Nat /\ i \in Nat /\ 1 <= i /\ i <= Len(s) /\ i - 1 \in Nat
        /\ i \in 1..Len(s) /\ (i - 1) + 1 = i
    OBVIOUS
  <1>2. a \in Seq(T) /\ b \in Seq(T) /\ c \in Seq(T) /\ Len(b) = (Len(s) - i) + 1
    BY <1>1
  <1>3. b # << >> /\ Tail(b) = c /\ Head(b) = s[i]
    <2>1. i \in 1..Len(s) /\ Len(s) \in i..Len(s) BY <1>1
    <2>2. Tail(b) = c /\ Head(b) = s[i] BY <2>1, HeadTailOfSubSeq
    <2>3. b # << >>
      <3>1. Len(b) # 0 /\ Len(<< >>) = 0 BY <1>1, <1>2
      <3> HIDE DEF b
      <3> QED BY <3>1, Zenon
    <2> QED BY <2>2, <2>3
  <1>4. s = a \o b
    <2>1. 1 \in 1..(Len(s) + 1) /\ i - 1 \in (1 - 1)..Len(s) /\ Len(s) \in (i - 1)..Len(s)
      BY <1>1
    <2>2. a \o SubSeq(s, (i - 1) + 1, Len(s)) = SubSeq(s, 1, Len(s))
      BY <2>1, ConcatAdjacentSubSeq
    <2> QED BY <1>1, <2>2, SubSeqFull
  <1>5. Count(a, M) \in Nat /\ Count(b, M) \in Nat BY <1>2, CountType
  <1> HIDE DEF a, b, c
  <1>6. Count(s, M) = Count(a, M) + Count(b, M) BY <1>2, <1>4, CountConcat
  <1>7. Count(Tail(b), M) = Count(b, M) - (IF Head(b) \in M THEN 1 ELSE 0)
    BY <1>2, <1>3, CountTail
  <1>8. Count(c, M) = Count(b, M) - (IF s[i] \in M THEN 1 ELSE 0) BY <1>3, <1>7, Zenon
  <1>9. Count(a \o c, M) = Count(a, M) + Count(c, M) BY <1>2, CountConcat
  <1>10. Count(a \o c, M) = Count(s, M) - (IF s[i] \in M THEN 1 ELSE 0)
    BY <1>5, <1>6, <1>8, <1>9
  <1> QED BY <1>10 DEF a, c

(* A call is pushed on a stack.                                             *)
LEMMA CountPush ==
    ASSUME NEW T, NEW s \in Seq(T), NEW x \in T, NEW M
    PROVE  Count(<<x>> \o s, M) = Count(s, M) + (IF x \in M THEN 1 ELSE 0)
  <1> DEFINE q == <<x>> \o s
  <1>1. q \in Seq(T) /\ q # << >> /\ Head(q) = x /\ Tail(q) = s OBVIOUS
  <1>2. Count(q, M) \in Nat BY <1>1, CountType
  <1> HIDE DEF q
  <1>3. Count(Tail(q), M) = Count(q, M) - (IF Head(q) \in M THEN 1 ELSE 0)
    BY <1>1, CountTail
  <1>4. Count(s, M) = Count(q, M) - (IF x \in M THEN 1 ELSE 0) BY <1>1, <1>3
  <1>5. Count(q, M) = Count(s, M) + (IF x \in M THEN 1 ELSE 0) BY <1>2, <1>4
  <1> QED BY <1>5 DEF q

(* One entry is overwritten.                                                *)
LEMMA CountUpdate ==
    ASSUME NEW T, NEW s \in Seq(T), NEW i \in DOMAIN s, NEW x \in T, NEW M,
           s[i] \notin M
    PROVE  Count([s EXCEPT ![i] = x], M) = Count(s, M) + (IF x \in M THEN 1 ELSE 0)
  <1> DEFINE q == [s EXCEPT ![i] = x]
  <1>1. /\ DOMAIN q = DOMAIN s /\ q[i] = x
        /\ \A k \in DOMAIN s : k # i => q[k] = s[k]
    OBVIOUS
  <1>2. IsFiniteSet(Places(s, M)) /\ Count(s, M) \in Nat BY CountType
  <1>3. i \notin Places(s, M) BY DEF Places
  <1> HIDE DEF q
  <1>4. CASE x \in M
    <2>1. Places(q, M) = Places(s, M) \cup {i} BY <1>1, <1>4 DEF Places
    <2>2. Count(q, M) = Count(s, M) + 1
      BY <1>2, <1>3, <2>1, FS_AddElement DEF Count
    <2> QED BY <1>4, <2>2 DEF q
  <1>5. CASE x \notin M
    <2>1. Places(q, M) = Places(s, M) BY <1>1, <1>5 DEF Places
    <2>2. Count(q, M) = Count(s, M) BY <2>1 DEF Count
    <2> QED BY <1>2, <1>5, <2>2 DEF q
  <1> QED BY <1>4, <1>5

(* The first n entries are sent, and one is lost.                           *)
LEMMA CountCut ==
    ASSUME NEW T, NEW s \in Seq(T), NEW n \in 0..Len(s), NEW M
    PROVE  Count(SubSeq(s, 1, n), M)
             + Count(IF n = Len(s) THEN << >> ELSE SubSeq(s, n + 2, Len(s)), M)
             <= Count(s, M)
  <1> DEFINE a == SubSeq(s, 1, n)
             b == SubSeq(s, n + 1, Len(s))
             c == SubSeq(s, n + 2, Len(s))
  <1>1. Len(s) \in Nat /\ n \in Nat /\ n <= Len(s) OBVIOUS
  <1>2. a \in Seq(T) /\ Count(a, M) \in Nat
    <2>1. a \in Seq(T) BY <1>1
    <2> QED BY <2>1, CountType
  <1>3. CASE n = Len(s)
    <2>1. a = s BY <1>3, SubSeqFull
    <2>2. Count(s, M) \in Nat /\ Count(<< >>, M) = 0 BY CountType, CountEmpty
    <2>3. Count(s, M) + Count(<< >>, M) <= Count(s, M) BY <2>2
    <2>4. Count(a, M) + Count(<< >>, M) <= Count(s, M) BY <2>1, <2>3, Zenon
    <2> HIDE DEF a
    <2>5. (IF n = Len(s) THEN << >> ELSE SubSeq(s, n + 2, Len(s))) = << >> BY <1>3
    <2>6. Count(a, M) + Count(IF n = Len(s) THEN << >> ELSE SubSeq(s, n + 2, Len(s)), M)
            <= Count(s, M)
      BY <2>4, <2>5, Zenon
    <2> QED BY <2>6 DEF a
  <1>4. CASE n # Len(s)
    <2>1. n + 1 \in Nat /\ n + 2 \in Nat /\ n + 1 <= Len(s) BY <1>1, <1>4
    <2>2. b \in Seq(T) /\ c \in Seq(T) /\ Len(b) = Len(s) - n BY <1>1, <2>1
    <2>3. b # << >> /\ Tail(b) = c
      <3>1. n + 1 \in 1..Len(s) /\ Len(s) \in (n + 1)..Len(s) /\ (n + 1) + 1 = n + 2
        BY <1>1, <2>1
      <3>2. Tail(b) = SubSeq(s, (n + 1) + 1, Len(s)) BY <3>1, HeadTailOfSubSeq
      <3>3. b # << >>
        <4>1. Len(b) # 0 /\ Len(<< >>) = 0 BY <1>1, <1>4, <2>2
        <4> HIDE DEF b
        <4> QED BY <4>1, Zenon
      <3> QED BY <3>1, <3>2, <3>3
    <2>4. s = a \o b
      <3>1. 1 \in 1..(Len(s) + 1) /\ n \in (1 - 1)..Len(s) /\ Len(s) \in n..Len(s)
        BY <1>1
      <3>2. a \o b = SubSeq(s, 1, Len(s)) BY <3>1, ConcatAdjacentSubSeq
      <3> QED BY <3>2, SubSeqFull
    <2>5. /\ Count(a, M) \in Nat /\ Count(b, M) \in Nat /\ Count(c, M) \in Nat
      BY <1>2, <2>2, CountType
    <2> HIDE DEF a, b, c
    <2>6. Count(s, M) = Count(a, M) + Count(b, M) BY <1>2, <2>2, <2>4, CountConcat
    <2>7. Count(Tail(b), M) = Count(b, M) - (IF Head(b) \in M THEN 1 ELSE 0)
      BY <2>2, <2>3, CountTail
    <2>71. Count(c, M) = Count(b, M) - (IF Head(b) \in M THEN 1 ELSE 0) BY <2>3, <2>7, Zenon
    <2>8. Count(c, M) <= Count(b, M) BY <2>5, <2>71
    <2>9. Count(a, M) + Count(c, M) <= Count(s, M) BY <2>5, <2>6, <2>8
    <2> QED BY <1>4, <2>9 DEF a, c
  <1> QED BY <1>3, <1>4
=============================================================================
