-------------------------- MODULE NodeListTheorems --------------------------
(* What the operators of NodeList preserve and return.                       *)
EXTENDS NodeList, Sequences, FiniteSetTheorems, WellFoundedInduction, TLAPS

(* First(S) is the least element of a set of naturals that has one.          *)
LEMMA FirstIsLeast ==
  ASSUME NEW S \in SUBSET Nat, S # {}
  PROVE  First(S) \in S /\ \A j \in S : First(S) <= j
<1> DEFINE Less == {ss \in Nat \X Nat : ss[1] < ss[2]}
<1>1. IsWellFoundedOn(Less, Nat)
  BY NatLessThanWellFounded DEF OpToRel
<1>2. PICK k \in S : \A j \in S : ~(<<j, k>> \in Less)
  <2> HIDE DEF Less
  <2> QED BY <1>1, WFMin
<1>3. \A j \in S : k <= j
  <2>1. TAKE j \in S
  <2>2. <<j, k>> \in Nat \X Nat /\ ~(<<j, k>> \in Less)
    BY <1>2
  <2>3. ~(j < k)
    BY <2>2
  <2> QED BY <2>3
<1> QED BY <1>3 DEF First

(* A finite set of naturals has a greatest element.                          *)
LEMMA FiniteSetHasLatest ==
  ASSUME NEW S \in SUBSET Nat, IsFiniteSet(S), S # {}
  PROVE  \E k \in S : \A j \in S : j <= k
<1> DEFINE Unbounded(T) == T # {} /\ \A k \in T : \E j \in T : ~(j <= k)
           Sizes == {n \in Nat : \E T \in SUBSET Nat :
                       IsFiniteSet(T) /\ Cardinality(T) = n /\ Unbounded(T)}
<1>1. SUFFICES Sizes = {}
  <2>1. Cardinality(S) \in Nat BY FS_CardinalityType
  <2>2. ~Unbounded(S) BY <1>1, <2>1
  <2> QED BY <2>2
<1>2. SUFFICES ASSUME Sizes # {} PROVE FALSE
  OBVIOUS
<1>3. PICK n \in Sizes : \A m \in Sizes : n <= m
  BY <1>2, FirstIsLeast
<1>4. PICK T \in SUBSET Nat : IsFiniteSet(T) /\ Cardinality(T) = n /\ Unbounded(T)
  OBVIOUS
<1>5. PICK x \in T : TRUE
  BY <1>4
<1>6. IsFiniteSet(T \ {x}) /\ Cardinality(T \ {x}) = n - 1
  BY <1>4, <1>5, FS_RemoveElement
<1>7. n - 1 \in Nat
  BY <1>6, FS_CardinalityType
<1>8. ~Unbounded(T \ {x})
  <2>1. n - 1 \notin Sizes BY <1>3, <1>7
  <2> QED BY <2>1, <1>6, <1>7
<1>9. T \ {x} # {}
  BY <1>4, <1>5
<1>10. PICK k \in T \ {x} : \A j \in T \ {x} : j <= k
  BY <1>8, <1>9
<1>11. CASE x <= k
  BY <1>4, <1>5, <1>10, <1>11
<1>12. CASE ~(x <= k)
  <2>1. \A j \in T : j <= x
    BY <1>10, <1>12, <1>5
  <2> QED BY <2>1, <1>4, <1>5
<1> QED BY <1>11, <1>12

LEMMA LatestIsGreatest ==
  ASSUME NEW S \in SUBSET Nat, IsFiniteSet(S), S # {}
  PROVE  Latest(S) \in S /\ \A j \in S : j <= Latest(S)
BY FiniteSetHasLatest DEF Latest

LEMMA EmptyIsNodeList ==
  ASSUME NEW V
  PROVE  IsNodeList(Empty, V) /\ Values(Empty) = {} /\ IsEmpty(Empty)
BY FS_EmptySet DEF IsNodeList, Empty, Values, IsEmpty

(* The value pushed is added, at a node after all the others.                *)
LEMMA PushBackValues ==
  ASSUME NEW V, NEW q, IsNodeList(q, V), NEW v \in V
  PROVE  /\ IsNodeList(PushBack(q, v), V)
         /\ Values(PushBack(q, v)) = Values(q) \cup {v}
<1> DEFINE k == IF IsEmpty(q) THEN 1 ELSE Latest(DOMAIN q) + 1
           p == PushBack(q, v)
<1>1. k \in Nat \ {0} /\ k \notin DOMAIN q
  <2>1. CASE IsEmpty(q)
    BY <2>1 DEF IsEmpty
  <2>2. CASE ~IsEmpty(q)
    <3>1. Latest(DOMAIN q) \in DOMAIN q /\ \A j \in DOMAIN q : j <= Latest(DOMAIN q)
      BY <2>2, LatestIsGreatest DEF IsNodeList, IsEmpty
    <3> QED BY <2>2, <3>1 DEF IsNodeList
  <2> QED BY <2>1, <2>2
<1>2. p = [j \in DOMAIN q \cup {k} |-> IF j \in DOMAIN q THEN q[j] ELSE v]
  BY DEF PushBack
<1>3. DOMAIN p = DOMAIN q \cup {k}
  BY <1>2
<1>4. IsFiniteSet(DOMAIN p)
  BY <1>3, FS_AddElement DEF IsNodeList
<1>5. \A j \in DOMAIN q : p[j] = q[j]
  BY <1>2
<1>6. p[k] = v
  BY <1>1, <1>2
<1>7. IsNodeList(p, V)
  <2> HIDE DEF k
  <2> QED BY <1>1, <1>2, <1>3, <1>4, <1>5, <1>6 DEF IsNodeList
<1>8. Values(p) = Values(q) \cup {v}
  <2> HIDE DEF k, p
  <2> QED BY <1>3, <1>5, <1>6 DEF Values
<1> QED BY <1>7, <1>8

(* Every node with the value goes and no other.                              *)
LEMMA RemoveEqualValues ==
  ASSUME NEW V, NEW q, IsNodeList(q, V), NEW v
  PROVE  /\ IsNodeList(RemoveEqual(q, v), V)
         /\ Values(RemoveEqual(q, v)) = Values(q) \ {v}
<1> DEFINE p == RemoveEqual(q, v)
<1>1. DOMAIN p = {j \in DOMAIN q : q[j] # v} /\ \A j \in DOMAIN p : p[j] = q[j]
  BY DEF RemoveEqual
<1>2. IsFiniteSet(DOMAIN p)
  BY <1>1, FS_Subset DEF IsNodeList
<1>3. IsNodeList(p, V)
  BY <1>1, <1>2 DEF IsNodeList, RemoveEqual
<1>4. Values(p) = Values(q) \ {v}
  <2> HIDE DEF p
  <2> QED BY <1>1 DEF Values
<1> QED BY <1>3, <1>4

LEMMA EraseIsNodeList ==
  ASSUME NEW V, NEW q, IsNodeList(q, V), NEW k
  PROVE  IsNodeList(Erase(q, k), V)
<1>1. IsFiniteSet(DOMAIN q \ {k})
  BY FS_Subset DEF IsNodeList
<1> QED BY <1>1 DEF IsNodeList, Erase

(* The front of a list that is not empty is one of its values.               *)
LEMMA FrontIsValue ==
  ASSUME NEW V, NEW q, IsNodeList(q, V), ~IsEmpty(q)
  PROVE  Front(q) \in Values(q) /\ Front(q) \in V
<1>1. First(DOMAIN q) \in DOMAIN q
  BY FirstIsLeast DEF IsNodeList, IsEmpty
<1> QED BY <1>1 DEF Front, Values, IsNodeList
-----------------------------------------------------------------------------
(* How many nodes hold a value of a set.                                     *)
In(q, C) == {k \in DOMAIN q : q[k] \in C}
Count(q, C) == Cardinality(In(q, C))
One(v, C) == IF v \in C THEN 1 ELSE 0

LEMMA CountType ==
  ASSUME NEW V, NEW q, IsNodeList(q, V), NEW C
  PROVE  IsFiniteSet(In(q, C)) /\ Count(q, C) \in Nat
<1>1. IsFiniteSet(In(q, C))
  BY FS_Subset DEF IsNodeList, In
<1> QED BY <1>1, FS_CardinalityType DEF Count

LEMMA CountEmpty == ASSUME NEW C PROVE Count(Empty, C) = 0
<1>1. In(Empty, C) = {}
  BY DEF In, Empty
<1> QED BY <1>1, FS_EmptySet DEF Count

LEMMA PushBackCount ==
  ASSUME NEW V, NEW q, IsNodeList(q, V), NEW v, NEW C
  PROVE  Count(PushBack(q, v), C) = Count(q, C) + One(v, C)
<1>1. PICK k : /\ k \notin DOMAIN q
               /\ PushBack(q, v) = [j \in DOMAIN q \cup {k} |-> IF j \in DOMAIN q THEN q[j] ELSE v]
  <2> DEFINE k == IF IsEmpty(q) THEN 1 ELSE Latest(DOMAIN q) + 1
  <2>1. CASE IsEmpty(q)
    BY <2>1 DEF IsEmpty, PushBack
  <2>2. CASE ~IsEmpty(q)
    <3>1. Latest(DOMAIN q) \in DOMAIN q /\ \A j \in DOMAIN q : j <= Latest(DOMAIN q)
      BY <2>2, LatestIsGreatest DEF IsNodeList, IsEmpty
    <3>2. k \notin DOMAIN q
      BY <2>2, <3>1 DEF IsNodeList
    <3> QED BY <3>2 DEF PushBack
  <2> QED BY <2>1, <2>2
<1>2. IsFiniteSet(In(q, C)) /\ k \notin In(q, C) /\ Count(q, C) \in Nat
  BY <1>1, CountType DEF In
<1>3. In(PushBack(q, v), C) = IF v \in C THEN In(q, C) \cup {k} ELSE In(q, C)
  BY <1>1 DEF In
<1> QED BY <1>2, <1>3, FS_AddElement DEF Count, One

(* Removing what a list holds takes at least one node from its set.          *)
LEMMA RemoveEqualCount ==
  ASSUME NEW V, NEW q, IsNodeList(q, V), NEW v \in Values(q), NEW C
  PROVE  Count(RemoveEqual(q, v), C) + One(v, C) <= Count(q, C)
<1>1. PICK k \in DOMAIN q : q[k] = v
  BY DEF Values
<1>2. In(RemoveEqual(q, v), C) \subseteq In(q, C) \ {k}
  BY <1>1 DEF In, RemoveEqual
<1>3. IsFiniteSet(In(q, C)) /\ Count(q, C) \in Nat
  BY CountType
<1>4. /\ IsFiniteSet(In(q, C) \ {k})
      /\ Cardinality(In(q, C) \ {k}) = Count(q, C) - One(v, C)
  BY <1>1, <1>3, FS_RemoveElement DEF Count, One, In
<1>5. Count(RemoveEqual(q, v), C) <= Count(q, C) - One(v, C)
  BY <1>2, <1>4, FS_Subset DEF Count
<1>6. Count(RemoveEqual(q, v), C) \in Nat
  BY RemoveEqualValues, CountType
<1> QED BY <1>3, <1>5, <1>6 DEF One

LEMMA EraseCount ==
  ASSUME NEW V, NEW q, IsNodeList(q, V), NEW k \in DOMAIN q, NEW C
  PROVE  Count(Erase(q, k), C) + One(q[k], C) = Count(q, C)
<1>1. In(Erase(q, k), C) = In(q, C) \ {k}
  BY DEF In, Erase
<1>2. IsFiniteSet(In(q, C)) /\ Count(q, C) \in Nat
  BY CountType
<1>3. Cardinality(In(q, C) \ {k}) = Count(q, C) - One(q[k], C)
  <2>1. k \in In(q, C) <=> q[k] \in C
    BY DEF In
  <2>2. Cardinality(In(q, C) \ {k}) =
          IF k \in In(q, C) THEN Cardinality(In(q, C)) - 1 ELSE Cardinality(In(q, C))
    BY <1>2, FS_RemoveElement
  <2> QED BY <1>2, <2>1, <2>2 DEF Count, One
<1> QED BY <1>1, <1>2, <1>3 DEF Count, One

(* The same of a sequence: what waits on a line.                             *)
LEMMA LineCountType ==
  ASSUME NEW V, NEW s \in Seq(V), NEW C
  PROVE  IsFiniteSet(In(s, C)) /\ Count(s, C) \in Nat
<1>1. DOMAIN s = 1..Len(s) /\ Len(s) \in Nat
  OBVIOUS
<1>2. IsFiniteSet(In(s, C))
  <2>1. IsFiniteSet(1..Len(s))
    BY <1>1, FS_Interval
  <2>2. In(s, C) \in SUBSET (1..Len(s))
    BY <1>1 DEF In
  <2> QED BY <2>1, <2>2, FS_Subset
<1> QED BY <1>2, FS_CardinalityType DEF Count

LEMMA AppendCount ==
  ASSUME NEW V, NEW s \in Seq(V), NEW v \in V, NEW C
  PROVE  Count(Append(s, v), C) = Count(s, C) + One(v, C)
<1> DEFINE k == Len(s) + 1
<1>1. /\ Len(s) \in Nat /\ DOMAIN s = 1..Len(s) /\ DOMAIN Append(s, v) = 1..k
      /\ Append(s, v)[k] = v /\ \A j \in 1..Len(s) : Append(s, v)[j] = s[j]
  OBVIOUS
<1>2. k \notin DOMAIN s /\ DOMAIN Append(s, v) = DOMAIN s \cup {k}
  BY <1>1
<1>3. IsFiniteSet(In(s, C)) /\ k \notin In(s, C) /\ Count(s, C) \in Nat
  BY <1>2, LineCountType DEF In
<1>4. In(Append(s, v), C) = IF v \in C THEN In(s, C) \cup {k} ELSE In(s, C)
  <2> HIDE DEF k
  <2> QED BY <1>1, <1>2 DEF In
<1>5. Cardinality(In(s, C) \cup {k}) = Count(s, C) + 1
  <2> HIDE DEF k
  <2> QED BY <1>3, FS_AddElement DEF Count
<1> QED BY <1>3, <1>4, <1>5 DEF Count, One

LEMMA TailCount ==
  ASSUME NEW V, NEW s \in Seq(V), s # <<>>, NEW C
  PROVE  Count(Tail(s), C) + One(Head(s), C) = Count(s, C)
<1> DEFINE Rest == In(s, C) \ {1}
           f == [k \in In(Tail(s), C) |-> k + 1]
<1>1. /\ Len(s) \in Nat \ {0} /\ DOMAIN s = 1..Len(s) /\ DOMAIN Tail(s) = 1..(Len(s) - 1)
      /\ Head(s) = s[1] /\ \A k \in 1..(Len(s) - 1) : Tail(s)[k] = s[k + 1]
      /\ Tail(s) \in Seq(V)
  OBVIOUS
<1>2. /\ IsFiniteSet(In(s, C)) /\ Count(s, C) \in Nat
      /\ IsFiniteSet(In(Tail(s), C)) /\ Count(Tail(s), C) \in Nat
  BY <1>1, LineCountType
<1>3. IsFiniteSet(Rest) /\ Cardinality(Rest) = Count(s, C) - One(Head(s), C)
  <2>1. 1 \in In(s, C) <=> Head(s) \in C
    BY <1>1 DEF In
  <2>2. /\ IsFiniteSet(Rest)
        /\ Cardinality(Rest) =
             IF 1 \in In(s, C) THEN Cardinality(In(s, C)) - 1 ELSE Cardinality(In(s, C))
    BY <1>2, FS_RemoveElement
  <2> QED BY <1>2, <2>1, <2>2 DEF Count, One
<1>4. f \in Bijection(In(Tail(s), C), Rest)
  <2>1. f \in [In(Tail(s), C) -> Rest]
    BY <1>1 DEF In
  <2>2. \A a, b \in In(Tail(s), C) : f[a] = f[b] => a = b
    BY <1>1 DEF In
  <2>3. \A t \in Rest : \E a \in In(Tail(s), C) : f[a] = t
    <3>1. TAKE t \in Rest
    <3>2. t - 1 \in In(Tail(s), C) /\ (t - 1) + 1 = t
      BY <1>1 DEF In
    <3> QED BY <3>2
  <2> HIDE DEF f, Rest
  <2> QED BY <2>1, <2>2, <2>3 DEF Bijection, Injection, Surjection, IsInjective
<1>5. Cardinality(Rest) = Count(Tail(s), C)
  <2> HIDE DEF f, Rest
  <2> QED BY <1>2, <1>4, FS_Bijection DEF ExistsBijection, Count
<1> QED BY <1>2, <1>3, <1>5 DEF One
=============================================================================
