------------------------------ MODULE ListLemmas ------------------------------
(* What the sequence operators that model the cache's two intrusive lists      *)
(* (evictableEntries and filledEntries of GpuDataCache) do to the members of   *)
(* a duplicate-free sequence: removing an entry, appending it at the tail and  *)
(* prepending it at the head keep the list duplicate-free and change its set   *)
(* of members by exactly that entry.                                           *)
EXTENDS Integers, SequencesExt, SequenceTheorems, TLAPS

(* Removing position i shortens the list by one and shifts what follows it.   *)
LEMMA RemoveAtFacts ==
  ASSUME NEW S, NEW s \in Seq(S), NEW i \in 1..Len(s)
  PROVE  /\ RemoveAt(s, i) \in Seq(S)
         /\ Len(RemoveAt(s, i)) = Len(s) - 1
         /\ \A j \in 1..(Len(s)-1) : RemoveAt(s,i)[j] = IF j < i THEN s[j] ELSE s[j+1]
<1> DEFINE l == SubSeq(s,1,i-1)
           r == SubSeq(s,i+1,Len(s))
<1>1. /\ l \in Seq(S)
      /\ Len(l) = i-1
      /\ \A j \in 1..(i-1) : l[j] = s[j]
  BY SubSeqProperties, SMT
<1>2. /\ r \in Seq(S)
      /\ Len(r) = Len(s)-i
      /\ \A j \in 1..(Len(s)-i) : r[j] = s[i+j]
  BY SubSeqProperties, SMT
<1>3. RemoveAt(s, i) = l \o r
  BY DEF RemoveAt
<1> HIDE DEF l, r
<1>4. /\ l \o r \in Seq(S)
      /\ Len(l \o r) = Len(l) + Len(r)
      /\ \A j \in 1..(Len(l)+Len(r)) : (l \o r)[j] = IF j <= Len(l) THEN l[j] ELSE r[j-Len(l)]
  BY <1>1, <1>2, ConcatProperties
<1>5. Len(s) \in Nat
  OBVIOUS
<1> QED BY <1>1, <1>2, <1>3, <1>4, <1>5, SMT

(* In a duplicate-free list, removing the element s[i] removes position i.     *)
LEMMA RemoveFirstIsRemoveAt ==
  ASSUME NEW S, NEW s \in Seq(S), IsInjective(s), NEW i \in 1..Len(s)
  PROVE  RemoveFirst(s, s[i]) = RemoveAt(s, i)
<1>1. {j \in 1..Len(s) : s[j] = s[i]} = {i}
  BY DEF IsInjective
<1>2. SelectInSeq(s, LAMBDA v : v = s[i]) = i
  BY <1>1 DEF SelectInSeq, Min
<1> QED BY <1>2 DEF RemoveFirst

(* remove*Entry: the list stays duplicate-free and loses exactly e; removing  *)
(* an entry that is not linked changes nothing.                                *)
LEMMA RemoveFirstFacts ==
  ASSUME NEW S, NEW s \in Seq(S), IsInjective(s), NEW e
  PROVE  /\ RemoveFirst(s, e) \in Seq(S)
         /\ IsInjective(RemoveFirst(s,e))
         /\ Range(RemoveFirst(s, e)) = Range(s) \ {e}
<1>1. CASE e \notin Range(s)
  <2>1. ~ \E i \in 1..Len(s) : s[i] = e
    BY <1>1 DEF Range
  <2>2. RemoveFirst(s, e) = s
    BY <2>1, Zenon DEF RemoveFirst
  <2> QED BY <1>1, <2>2
<1>2. CASE e \in Range(s)
  <2>1. PICK i \in 1..Len(s) : s[i] = e
    BY <1>2 DEF Range
  <2>2. RemoveFirst(s, e) = RemoveAt(s, i)
    BY <2>1, RemoveFirstIsRemoveAt
  <2>3. /\ RemoveAt(s, i) \in Seq(S)
        /\ Len(RemoveAt(s, i)) = Len(s) - 1
        /\ \A j \in 1..(Len(s)-1) : RemoveAt(s,i)[j] = IF j < i THEN s[j] ELSE s[j+1]
    BY RemoveAtFacts
  <2> DEFINE t == RemoveAt(s, i)
  <2> HIDE DEF t
  <2>4. IsInjective(t)
    <3> DEFINE at(j) == IF j < i THEN j ELSE j + 1
    <3>1. DOMAIN t = 1..(Len(s)-1) /\ Len(s) \in Nat
      BY <2>3 DEF t
    <3>2. \A j \in 1..(Len(s)-1) : at(j) \in 1..Len(s) /\ t[j] = s[at(j)]
      BY <2>3, <3>1 DEF t
    <3>3. \A j, k \in 1..(Len(s)-1) : at(j) = at(k) => j = k
      BY <3>1
    <3> HIDE DEF at
    <3> QED BY <3>1, <3>2, <3>3 DEF IsInjective
  <2>5. Range(t) \subseteq Range(s) \ {e}
    BY <2>1, <2>3 DEF IsInjective, Range, t
  <2>6. ASSUME NEW x \in Range(s) \ {e} PROVE x \in Range(t)
    <3>1. PICK j \in 1..Len(s) : s[j] = x
      BY DEF Range
    <3>2. CASE j < i
      BY <2>3, <3>1, <3>2 DEF Range, t
    <3>3. CASE j > i
      <4>1. j-1 \in 1..(Len(s)-1) /\ t[j-1] = s[j]
        BY <2>3, <3>3 DEF t
      <4> QED BY <4>1, <2>3, <3>1 DEF Range, t
    <3> QED BY <2>1, <3>1, <3>2, <3>3
  <2> QED BY <2>2, <2>3, <2>4, <2>5, <2>6 DEF t
<1> QED BY <1>1, <1>2

(* add*Entry: the list gains exactly e, and stays duplicate-free if e was not *)
(* linked.                                                                     *)
LEMMA AppendFacts ==
  ASSUME NEW S, NEW s \in Seq(S), NEW e \in S
  PROVE  /\ Append(s, e) \in Seq(S)
         /\ Range(Append(s, e)) = Range(s) \cup {e}
         /\ IsInjective(s) /\ e \notin Range(s) => IsInjective(Append(s, e))
<1> DEFINE t == Append(s, e)
<1>1. /\ t \in Seq(S)
      /\ Len(t) = Len(s) + 1
      /\ \A j \in 1..Len(s) : t[j] = s[j]
      /\ t[Len(s)+1] = e
  BY AppendProperties
<1> HIDE DEF t
<1>2. Range(t) = Range(s) \cup {e}
  <2>1. Len(s) \in Nat /\ DOMAIN s = 1..Len(s) /\ DOMAIN t = 1..(Len(s)+1)
    BY <1>1
  <2> QED BY <1>1, <2>1 DEF Range
<1>3. IsInjective(s) /\ e \notin Range(s) => IsInjective(t)
  BY <1>1 DEF IsInjective, Range
<1> QED BY <1>1, <1>2, <1>3 DEF t

(* Taking the last element off a duplicate-free list leaves the others.       *)
LEMMA FrontFacts ==
  ASSUME NEW S, NEW s \in Seq(S), IsInjective(s), s # <<>>
  PROVE  /\ Front(s) \in Seq(S)
         /\ IsInjective(Front(s))
         /\ Last(s) \in S
         /\ Last(s) \in Range(s)
         /\ Range(Front(s)) = Range(s) \ {Last(s)}
         /\ Len(Front(s)) = Len(s) - 1
<1> DEFINE t == Front(s)
<1>1. /\ Len(s) \in Nat \ {0}
      /\ DOMAIN s = 1..Len(s)
      /\ Last(s) = s[Len(s)]
  BY DEF Last
<1>2. /\ t \in Seq(S)
      /\ Len(t) = Len(s) - 1
      /\ \A j \in 1..(Len(s)-1) : t[j] = s[j]
  BY <1>1, SubSeqProperties DEF Front
<1> HIDE DEF t
<1>3. IsInjective(t)
  BY <1>1, <1>2 DEF IsInjective
<1>4. Range(t) = Range(s) \ {s[Len(s)]}
  BY <1>1, <1>2 DEF IsInjective, Range
<1>5. s[Len(s)] \in S /\ s[Len(s)] \in Range(s)
  BY <1>1 DEF Range
<1> QED BY <1>1, <1>2, <1>3, <1>4, <1>5 DEF t

(* Taking the first element off a duplicate-free queue leaves the others.     *)
LEMMA TailFacts ==
  ASSUME NEW S, NEW s \in Seq(S), IsInjective(s), s # <<>>
  PROVE  /\ Tail(s) \in Seq(S)
         /\ IsInjective(Tail(s))
         /\ Head(s) \in S
         /\ Head(s) \in ToSet(s)
         /\ ToSet(Tail(s)) = ToSet(s) \ {Head(s)}
         /\ Len(Tail(s)) = Len(s) - 1
<1> DEFINE t == Tail(s)
<1>1. /\ Len(s) \in Nat \ {0}
      /\ DOMAIN s = 1..Len(s)
      /\ Head(s) = s[1]
  OBVIOUS
<1>2. /\ t \in Seq(S)
      /\ Len(t) = Len(s) - 1
      /\ \A j \in 1..(Len(s)-1) : t[j] = s[j+1]
  BY <1>1
<1> HIDE DEF t
<1>3. IsInjective(t)
  <2> SUFFICES ASSUME NEW a \in 1..(Len(s)-1), NEW b \in 1..(Len(s)-1), t[a] = t[b]
               PROVE  a = b
    BY <1>2 DEF IsInjective
  <2>1. a + 1 \in DOMAIN s /\ b + 1 \in DOMAIN s /\ s[a + 1] = s[b + 1]
    BY <1>1, <1>2
  <2> QED BY <2>1 DEF IsInjective
<1>4. ToSet(t) = ToSet(s) \ {s[1]}
  <2>1. ToSet(t) \subseteq ToSet(s) \ {s[1]}
    BY <1>1, <1>2 DEF IsInjective, ToSet
  <2>2. ASSUME NEW x \in ToSet(s) \ {s[1]} PROVE x \in ToSet(t)
    <3>1. PICK j \in 1..Len(s) : s[j] = x /\ j # 1
      BY <1>1 DEF ToSet
    <3>2. j - 1 \in 1..Len(t) /\ t[j - 1] = x
      BY <1>1, <1>2, <3>1
    <3> QED BY <1>2, <3>2 DEF ToSet
  <2> QED BY <2>1, <2>2
<1> QED BY <1>1, <1>2, <1>3, <1>4 DEF t, ToSet

(* A queue of n consecutive numbers holds each of them once.                  *)
LEMMA CountingQueue ==
  ASSUME NEW k \in Nat, NEW n \in Nat
  PROVE  LET s == [i \in 1..n |-> k + i]
         IN  /\ s \in Seq((k+1)..(k+n)) /\ Len(s) = n
             /\ IsInjective(s)
             /\ ToSet(s) = (k+1)..(k+n)
<1> DEFINE s == [i \in 1..n |-> k + i]
<1>1. s \in Seq((k+1)..(k+n)) /\ Len(s) = n /\ DOMAIN s = 1..n
  OBVIOUS
<1>2. IsInjective(s)
  BY DEF IsInjective
<1>3. ASSUME NEW x \in (k+1)..(k+n) PROVE x \in ToSet(s)
  <2>1. x - k \in 1..n /\ s[x - k] = x
    OBVIOUS
  <2> QED BY <1>1, <2>1 DEF ToSet
<1>4. ToSet(s) \subseteq (k+1)..(k+n)
  BY <1>1 DEF ToSet
<1> QED BY <1>1, <1>2, <1>3, <1>4

(* A sequence is empty if it has no element, and a pair of brackets around    *)
(* its element if it has one.                                                 *)
LEMMA ShortSequences ==
  ASSUME NEW S, NEW s \in Seq(S)
  PROVE  /\ Len(s) \in Nat /\ DOMAIN s = 1..Len(s)
         /\ s = <<>> <=> Len(s) = 0
         /\ Len(s) = 1 => s = <<s[1]>>
<1>1. s = <<>> <=> Len(s) = 0
  BY EmptySeq
<1>2. Len(s) = 1 => s = <<s[1]>>
  OBVIOUS
<1> QED BY <1>1, <1>2
===============================================================================
