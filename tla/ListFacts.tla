------------------------------- MODULE ListFacts -------------------------------
(***************************************************************************)
(* What splicing, inserting and unlinking do to the lists of the library,  *)
(* as sequences: which elements are left, in which order, and that none is *)
(* on a list twice.  The proofs about the storage, the pools and the queue *)
(* rest on these lemmas.                                                   *)
(***************************************************************************)
EXTENDS Subsequences, SequenceTheorems, FunctionTheorems, WellFoundedInduction, TLAPS

\* Moving the head of a list elsewhere leaves the rest of the list.
LEMMA HeadTailRange ==
    ASSUME NEW S, NEW s \in Seq(S), s # <<>>, IsInjective(s)
    PROVE  /\ Head(s) \in S
           /\ Tail(s) \in Seq(S)
           /\ Range(s) = {Head(s)} \cup Range(Tail(s))
           /\ Head(s) \notin Range(Tail(s))
           /\ IsInjective(Tail(s))
<1> DEFINE t == Tail(s)
<1>1. /\ Len(s) \in Nat \ {0} /\ DOMAIN s = 1..Len(s)
      /\ t \in Seq(S) /\ Len(t) = Len(s) - 1 /\ DOMAIN t = 1..Len(t)
      /\ \A i \in 1..Len(t) : t[i] = s[i + 1]
      /\ Head(s) = s[1] /\ s[1] \in S
  BY HeadTailProperties, LenProperties, EmptySeq
<1> HIDE DEF t
<1>2. Range(s) = {s[1]} \cup Range(t)
  <2>1. ASSUME NEW x \in Range(s) PROVE x \in {s[1]} \cup Range(t)
    <3>1. PICK i \in 1..Len(s) : x = s[i]
      BY <1>1 DEF Range
    <3>2. CASE i = 1
      BY <3>1, <3>2
    <3>3. CASE i # 1
      <4>1. i - 1 \in 1..Len(t) /\ t[i - 1] = s[i]
        BY <1>1, <3>3
      <4> QED BY <4>1, <3>1, <1>1 DEF Range
    <3> QED BY <3>2, <3>3
  <2>2. ASSUME NEW x \in Range(t) PROVE x \in Range(s)
    <3>1. PICK i \in 1..Len(t) : x = t[i]
      BY <1>1 DEF Range
    <3>2. i + 1 \in 1..Len(s) /\ s[i + 1] = x
      BY <1>1, <3>1
    <3> QED BY <3>2, <1>1 DEF Range
  <2>3. s[1] \in Range(s)
    BY <1>1 DEF Range
  <2> QED BY <2>1, <2>2, <2>3
<1>3. s[1] \notin Range(t)
  <2> SUFFICES ASSUME NEW i \in 1..Len(t), t[i] = s[1] PROVE FALSE
    BY <1>1 DEF Range
  <2> QED BY <1>1 DEF IsInjective
<1>4. IsInjective(t)
  BY <1>1 DEF IsInjective
<1> QED BY <1>1, <1>2, <1>3, <1>4 DEF t

\* push_back of a cell that is not on the list.
LEMMA AppendRange ==
    ASSUME NEW S, NEW s \in Seq(S), NEW e \in S
    PROVE  /\ Append(s, e) \in Seq(S)
           /\ Range(Append(s, e)) = Range(s) \cup {e}
           /\ IsInjective(s) /\ e \notin Range(s) => IsInjective(Append(s, e))
<1> DEFINE a == Append(s, e)
<1>1. /\ Len(s) \in Nat /\ DOMAIN s = 1..Len(s)
      /\ a \in Seq(S) /\ Len(a) = Len(s) + 1 /\ DOMAIN a = 1..Len(a)
      /\ \A i \in 1..Len(s) : a[i] = s[i]
      /\ a[Len(s) + 1] = e
  BY AppendProperties, LenProperties
<1> HIDE DEF a
<1>2. Range(a) = Range(s) \cup {e}
  BY <1>1 DEF Range
<1>3. IsInjective(s) /\ e \notin Range(s) => IsInjective(a)
  BY <1>1 DEF IsInjective, Range
<1> QED BY <1>1, <1>2, <1>3 DEF a

\* Splicing one list to the end of another that shares no cell with it.
LEMMA ConcatRange ==
    ASSUME NEW S, NEW s \in Seq(S), NEW t \in Seq(S)
    PROVE  /\ s \o t \in Seq(S)
           /\ Range(s \o t) = Range(s) \cup Range(t)
           /\ IsInjective(s) /\ IsInjective(t) /\ Range(s) \cap Range(t) = {}
                => IsInjective(s \o t)
<1> DEFINE a == s \o t
<1>1. /\ Len(s) \in Nat /\ DOMAIN s = 1..Len(s)
      /\ Len(t) \in Nat /\ DOMAIN t = 1..Len(t)
      /\ a \in Seq(S) /\ Len(a) = Len(s) + Len(t) /\ DOMAIN a = 1..Len(a)
      /\ \A i \in 1..Len(s) + Len(t) : a[i] = IF i <= Len(s) THEN s[i] ELSE t[i - Len(s)]
  BY ConcatProperties, LenProperties
<1>2. Range(a) = Range(s) \cup Range(t)
  BY RangeConcatenation
<1> HIDE DEF a
<1>3. ASSUME IsInjective(s), IsInjective(t), Range(s) \cap Range(t) = {}
      PROVE  IsInjective(a)
  <2> SUFFICES ASSUME NEW i \in 1..Len(a), NEW j \in 1..Len(a), a[i] = a[j]
               PROVE  i = j
    BY <1>1 DEF IsInjective
  <2>1. CASE i <= Len(s) /\ j <= Len(s)
    BY <1>1, <1>3, <2>1 DEF IsInjective
  <2>2. CASE i > Len(s) /\ j > Len(s)
    <3>1. i - Len(s) \in DOMAIN t /\ j - Len(s) \in DOMAIN t /\ t[i - Len(s)] = t[j - Len(s)]
      BY <1>1, <2>2
    <3>2. i - Len(s) = j - Len(s)
      BY <3>1, <1>3 DEF IsInjective
    <3> QED BY <3>2, <1>1
  <2>3. CASE i <= Len(s) /\ j > Len(s)
    <3>1. i \in DOMAIN s /\ j - Len(s) \in DOMAIN t /\ s[i] = t[j - Len(s)]
      BY <1>1, <2>3
    <3> QED BY <3>1, <1>3 DEF Range
  <2>4. CASE i > Len(s) /\ j <= Len(s)
    <3>1. j \in DOMAIN s /\ i - Len(s) \in DOMAIN t /\ s[j] = t[i - Len(s)]
      BY <1>1, <2>4
    <3> QED BY <3>1, <1>3 DEF Range
  <2> QED BY <2>1, <2>2, <2>3, <2>4, <1>1
<1> QED BY <1>1, <1>2, <1>3 DEF a

\* Cutting a list at one of its cells: what is before it, the cell, the rest.
LEMMA CutRange ==
    ASSUME NEW S, NEW s \in Seq(S), IsInjective(s), NEW k \in 0..(Len(s) - 1)
    PROVE  LET front == SubSeq(s, 1, k)
               x     == s[k + 1]
               back  == SubSeq(s, k + 2, Len(s))
           IN  /\ x \in S /\ front \in Seq(S) /\ back \in Seq(S)
               /\ Range(front) = {s[i] : i \in 1..k}
               /\ Range(s) = Range(front) \cup {x} \cup Range(back)
               /\ x \notin Range(front) /\ x \notin Range(back)
               /\ Range(front) \cap Range(back) = {}
               /\ IsInjective(front) /\ IsInjective(back)
<1> DEFINE front == SubSeq(s, 1, k)
           x     == s[k + 1]
           back  == SubSeq(s, k + 2, Len(s))
<1>0. Len(s) \in Nat /\ DOMAIN s = 1..Len(s) /\ \A i \in 1..Len(s) : s[i] \in S
  BY LenProperties, ElementOfSeq
<1>1. /\ front \in Seq(S) /\ Len(front) = k /\ DOMAIN front = 1..k
      /\ \A i \in 1..k : front[i] = s[i]
  <2>1. \A i \in 1..k : s[i] \in S
    BY <1>0
  <2>2. /\ front \in Seq(S) /\ Len(front) = IF 1 <= k THEN k - 1 + 1 ELSE 0
        /\ \A i \in 1..k - 1 + 1 : front[i] = s[1 + i - 1]
    BY <2>1, SubSeqProperties
  <2>3. Len(front) = k
    BY <2>2, <1>0
  <2>4. \A i \in 1..k : i \in 1..k-1+1 /\ 1 + i - 1 = i
    BY <1>0
  <2> QED BY <2>2, <2>3, <2>4, LenProperties
<1>2. /\ back \in Seq(S) /\ Len(back) = Len(s) - k - 1 /\ DOMAIN back = 1..Len(back)
      /\ \A i \in 1..Len(back) : back[i] = s[k + 1 + i]
  <2> DEFINE m == k + 2
             n == Len(s)
  <2>1. m \in Int /\ n \in Int /\ m <= n + 1 /\ m >= 2
    BY <1>0
  <2>2. \A i \in m..n : s[i] \in S
    BY <1>0, <2>1
  <2>3. back = SubSeq(s, m, n)
    OBVIOUS
  <2> HIDE DEF m, n, back
  <2>4. /\ back \in Seq(S)
        /\ Len(back) = IF m <= n THEN n - m + 1 ELSE 0
        /\ \A i \in 1..n - m + 1 : back[i] = s[m + i - 1]
    BY <2>1, <2>2, <2>3, SubSeqProperties
  <2>5. Len(back) = n - m + 1
    BY <2>4, <2>1
  <2>6. Len(back) = Len(s) - k - 1
    BY <2>5, <1>0 DEF m, n
  <2>7. \A i \in 1..Len(back) : m + i - 1 = k + 1 + i
    BY <1>0 DEF m
  <2>8. \A i \in 1..Len(back) : back[i] = s[k + 1 + i]
    BY <2>4, <2>5, <2>7
  <2> QED BY <2>4, <2>6, <2>8, LenProperties
<1> HIDE DEF front, back
<1>3. Range(front) = {s[i] : i \in 1..k}
  BY <1>1 DEF Range
<1>4. Range(s) = Range(front) \cup {x} \cup Range(back)
  <2>1. ASSUME NEW y \in Range(s) PROVE y \in Range(front) \cup {x} \cup Range(back)
    <3>1. PICK i \in 1..Len(s) : y = s[i]
      BY <1>0 DEF Range
    <3>2. CASE i <= k
      BY <3>1, <3>2, <1>3, <1>0
    <3>3. CASE i = k + 1
      BY <3>1, <3>3
    <3>4. CASE i > k + 1
      <4>1. i - k - 1 \in 1..Len(back) /\ k + 1 + (i - k - 1) = i
        BY <3>4, <1>2, <1>0
      <4>2. back[i - k - 1] = y
        BY <4>1, <1>2, <3>1
      <4> QED BY <4>1, <4>2, <1>2 DEF Range
    <3> QED BY <3>2, <3>3, <3>4, <1>0
  <2>2. x \in Range(s)
    BY <1>0 DEF Range
  <2>3. Range(front) \subseteq Range(s)
    BY <1>0, <1>3 DEF Range
  <2>4. ASSUME NEW i \in 1..Len(back) PROVE back[i] \in Range(s)
    <3>1. k + 1 + i \in DOMAIN s
      BY <1>0, <1>2
    <3> QED BY <3>1, <1>2 DEF Range
  <2>5. Range(back) \subseteq Range(s)
    BY <2>4, <1>2 DEF Range
  <2> QED BY <2>1, <2>2, <2>3, <2>5
<1>5. x \notin Range(front)
  <2>1. k + 1 \in DOMAIN s /\ \A i \in 1..k : i \in DOMAIN s /\ i # k + 1
    BY <1>0
  <2> QED BY <2>1, <1>3 DEF IsInjective
<1>6. ASSUME NEW i \in 1..Len(back), NEW j \in 1..(k + 1) PROVE back[i] # s[j]
  <2>1. k + 1 + i \in DOMAIN s /\ j \in DOMAIN s /\ k + 1 + i # j /\ back[i] = s[k + 1 + i]
    BY <1>0, <1>2
  <2> QED BY <2>1 DEF IsInjective
<1>7. x \notin Range(back)
  <2>1. k + 1 \in 1..(k + 1)
    BY <1>0
  <2> QED BY <1>6, <1>2, <2>1 DEF Range
<1>8. Range(front) \cap Range(back) = {}
  <2>1. \A j \in 1..k : j \in 1..(k + 1)
    BY <1>0
  <2>2. ASSUME NEW y \in Range(front) PROVE y \notin Range(back)
    <3>1. PICK j \in 1..k : y = s[j]
      BY <1>3
    <3> QED BY <3>1, <2>1, <1>6, <1>2 DEF Range
  <2> QED BY <2>2
<1>9. IsInjective(front)
  <2> SUFFICES ASSUME NEW i \in 1..k, NEW j \in 1..k, front[i] = front[j] PROVE i = j
    BY <1>1 DEF IsInjective
  <2>1. i \in DOMAIN s /\ j \in DOMAIN s /\ s[i] = s[j]
    BY <1>0, <1>1
  <2> QED BY <2>1 DEF IsInjective
<1>10. IsInjective(back)
  <2> SUFFICES ASSUME NEW i \in 1..Len(back), NEW j \in 1..Len(back), back[i] = back[j] PROVE i = j
    BY <1>2 DEF IsInjective
  <2>1. k + 1 + i \in DOMAIN s /\ k + 1 + j \in DOMAIN s /\ s[k + 1 + i] = s[k + 1 + j]
    BY <1>0, <1>2
  <2>2. k + 1 + i = k + 1 + j
    BY <2>1 DEF IsInjective
  <2> QED BY <2>2, <1>0
<1>11. x \in S
  BY <1>0
<1> QED
  BY <1>1, <1>2, <1>3, <1>4, <1>5, <1>7, <1>8, <1>9, <1>10, <1>11 DEF front, back

--------------------------------------------------------------------------------
(* Unlinking from anywhere. *)

\* What is left after unlinking: the elements at the other positions, in
\* their old order.
LEMMA RemainingProperties ==
    ASSUME NEW S, NEW s \in Seq(S), NEW K \in SUBSET (1..Len(s)), NEW t \in Remaining(s, K)
    PROVE  /\ t \in Seq(S)
           /\ Len(t) <= Len(s)
           /\ Range(t) = {s[i] : i \in K}
           /\ IsInjective(s) => IsInjective(t)
           /\ \E f \in [1..Len(t) -> K] :
                  /\ f \in Enumerations(s, K)
                  /\ Range(f) = K
                  /\ \A i, j \in 1..Len(t) : i < j => f[i] < f[j]
                  /\ \A i \in 1..Len(t) : t[i] = s[f[i]]
<1>1. PICK f \in Enumerations(s, K) : t = [i \in DOMAIN f |-> s[f[i]]]
  BY DEF Remaining
<1>2. PICK n \in 0..Len(s) : f \in [1..n -> K]
  BY DEF Enumerations
<1>3. Range(f) = K /\ \A i, j \in 1..n : i < j => f[i] < f[j]
  BY <1>2 DEF Enumerations
<1>4. Len(s) \in Nat /\ n \in Nat /\ \A i \in 1..Len(s) : s[i] \in S
  BY LenProperties, ElementOfSeq
<1>5. t = [i \in 1..n |-> s[f[i]]] /\ \A i \in 1..n : f[i] \in K /\ s[f[i]] \in S
  BY <1>1, <1>2, <1>4
<1>6. t \in Seq(S)
  BY <1>4, <1>5, SeqDef
<1>7. Len(t) = n /\ \A i \in 1..n : t[i] = s[f[i]]
  BY <1>4, <1>5, <1>6, LenProperties
<1>8. Range(t) = {s[i] : i \in K}
  BY <1>2, <1>3, <1>5 DEF Range
<1>9. ASSUME IsInjective(s) PROVE IsInjective(t)
  <2> SUFFICES ASSUME NEW i \in 1..n, NEW j \in 1..n, t[i] = t[j] PROVE i = j
    BY <1>5 DEF IsInjective
  <2>1. f[i] = f[j]
    BY <1>5, <1>7, <1>9, LenProperties DEF IsInjective
  <2>2. f[i] \in Int /\ f[j] \in Int
    <3>1. f[i] \in 1..Len(s) /\ f[j] \in 1..Len(s)
      BY <1>5
    <3> QED BY <3>1
  <2> QED
    BY <2>1, <2>2, <1>3, <1>4
<1>10. /\ f \in [1..Len(t) -> K] /\ f \in Enumerations(s, K) /\ Range(f) = K
       /\ \A i, j \in 1..Len(t) : i < j => f[i] < f[j]
       /\ \A i \in 1..Len(t) : t[i] = s[f[i]]
  BY <1>1, <1>2, <1>3, <1>7
<1>11. Len(t) <= Len(s)
  BY <1>4, <1>7
<1> QED
  BY <1>6, <1>8, <1>9, <1>10, <1>11

\* Unlinking nothing leaves the list as it is.
LEMMA RemainingAll ==
    ASSUME NEW S, NEW s \in Seq(S), NEW t \in Remaining(s, 1..Len(s))
    PROVE  t = s
<1> DEFINE K == 1..Len(s)
<1>0. Len(s) \in Nat /\ t \in Seq(S) /\ Len(t) \in Nat /\ Len(t) <= Len(s)
  BY RemainingProperties, LenProperties
<1>1. PICK f \in [1..Len(t) -> K] :
          /\ Range(f) = K
          /\ \A i, j \in 1..Len(t) : i < j => f[i] < f[j]
          /\ \A i \in 1..Len(t) : t[i] = s[f[i]]
  BY RemainingProperties
<1> DEFINE Moved == {i \in 1..Len(t) : f[i] # i}
<1>2. Moved = {}
  <2> SUFFICES ASSUME Moved # {} PROVE FALSE
    OBVIOUS
  <2> DEFINE Less == {ss \in Nat \X Nat : ss[1] < ss[2]}
  <2>0. Moved \subseteq Nat
    BY <1>0
  <2>1. PICK i \in Moved : \A j \in Moved : ~(<<j, i>> \in Less)
    <3>1. IsWellFoundedOn(Less, Nat)
      BY NatLessThanWellFounded DEF OpToRel
    <3> HIDE DEF Less, Moved
    <3> QED BY <2>0, <3>1, WFMin
  <2>2. \A j \in Moved : ~(j < i)
    BY <2>0, <2>1
  <2>3. \A j \in 1..Len(t) : j < i => f[j] = j
    BY <2>2
  <2>4. i \in 1..Len(t) /\ f[i] \in K /\ f[i] # i /\ f[i] \in Nat /\ i \in Nat
    BY <1>0
  <2>5. f[i] > i
    <3>1. CASE i = 1
      BY <2>4, <3>1
    <3>2. CASE i # 1
      <4>1. i - 1 \in 1..Len(t) /\ i - 1 < i
        BY <2>4, <3>2, <1>0
      <4>2. f[i - 1] = i - 1 /\ f[i - 1] < f[i]
        BY <4>1, <2>3, <2>4, <1>1
      <4> QED BY <4>2, <2>4
    <3> QED BY <3>1, <3>2
  <2>6. i \in K
    BY <2>4, <2>5, <1>0
  <2>7. PICK j \in 1..Len(t) : f[j] = i
    BY <2>6, <1>1 DEF Range
  <2>8. j \in Nat
    BY <1>0
  <2>9. CASE j < i
    BY <2>9, <2>3, <2>7, <2>8, <2>4
  <2>10. CASE i < j
    BY <2>10, <1>1, <2>4, <2>5, <2>7, <2>8
  <2>11. CASE i = j
    BY <2>11, <2>7, <2>4
  <2> QED BY <2>4, <2>8, <2>9, <2>10, <2>11
<1>3. \A i \in 1..Len(t) : f[i] = i
  BY <1>2
<1>4. Len(t) = Len(s)
  <2>1. CASE Len(s) = 0
    BY <2>1, <1>0
  <2>2. CASE Len(s) # 0
    <3>1. Len(s) \in K
      BY <2>2, <1>0
    <3>2. PICK j \in 1..Len(t) : f[j] = Len(s)
      BY <3>1, <1>1 DEF Range
    <3> QED BY <3>2, <1>3, <1>0
  <2> QED BY <2>1, <2>2
<1> QED
  BY <1>0, <1>1, <1>3, <1>4, SeqEqual

--------------------------------------------------------------------------------
(* Lists in general. *)

\* A list of elements of a set is one of any larger set.
LEMMA SeqWiden ==
    ASSUME NEW S, NEW T, S \subseteq T, NEW s \in Seq(S)
    PROVE  s \in Seq(T)
<1>1. s \in [1..Len(s) -> T] /\ Len(s) \in Nat
  BY LenProperties, ElementOfSeq
<1> QED BY <1>1, SeqDef

WithInserted(t, S, s, k, e) ==
    /\ t \in Seq(S)
    /\ Len(t) = Len(s) + 1
    /\ \A i \in 1..k : t[i] = s[i]
    /\ t[k + 1] = e
    /\ \A i \in (k + 1)..Len(s) : t[i + 1] = s[i]

\* Inserting an element after the first k.
LEMMA InsertProperties ==
    ASSUME NEW S, NEW s \in Seq(S), NEW e \in S, NEW k \in 0..Len(s)
    PROVE  WithInserted(Append(SubSeq(s, 1, k), e) \o SubSeq(s, k + 1, Len(s)), S, s, k, e)
<1> DEFINE n     == Len(s)
           m     == k + 1
           front == SubSeq(s, 1, k)
           whole == Append(front, e)
           back  == SubSeq(s, m, n)
<1>0. n \in Nat /\ k \in Nat /\ k <= n /\ m \in Nat /\ m >= 1 /\ \A i \in 1..n : s[i] \in S
  BY LenProperties, ElementOfSeq
<1>2. /\ front \in Seq(S) /\ Len(front) = k
      /\ \A i \in 1..k : front[i] = s[i]
  <2>1. \A i \in 1..k : s[i] \in S
    BY <1>0
  <2>2. /\ front \in Seq(S) /\ Len(front) = IF 1 <= k THEN k - 1 + 1 ELSE 0
        /\ \A i \in 1..k - 1 + 1 : front[i] = s[1 + i - 1]
    BY <2>1, <1>0, SubSeqProperties
  <2>3. \A i \in 1..k : i \in 1..k-1+1 /\ 1 + i - 1 = i
    BY <1>0
  <2> QED BY <2>2, <2>3, <1>0
<1>3. /\ whole \in Seq(S) /\ Len(whole) = m
      /\ \A i \in 1..k : whole[i] = s[i]
      /\ whole[m] = e
  <2> HIDE DEF front
  <2> QED BY <1>2, AppendProperties
<1>4. /\ back \in Seq(S) /\ Len(back) = n - k
      /\ \A i \in 1..(n - k) : back[i] = s[k + i]
  <2> HIDE DEF m, n
  <2>1. \A i \in m..n : s[i] \in S
    BY <1>0
  <2>2. /\ back \in Seq(S)
        /\ Len(back) = IF m <= n THEN n - m + 1 ELSE 0
        /\ \A i \in 1..n - m + 1 : back[i] = s[m + i - 1]
    BY <1>0, <2>1, SubSeqProperties
  <2>3. m = k + 1
    BY DEF m
  <2>4. Len(back) = n - k
    BY <2>2, <2>3, <1>0
  <2>5. \A i \in 1..(n - k) : i \in 1..n - m + 1 /\ m + i - 1 = k + i
    BY <2>3, <1>0
  <2> QED BY <2>2, <2>4, <2>5
<1>5. m = k + 1 /\ n = Len(s)
  OBVIOUS
<1> HIDE DEF m, n, front, whole, back
<1> DEFINE u == whole \o back
<1>6. Append(SubSeq(s, 1, k), e) \o SubSeq(s, k + 1, Len(s)) = u
  BY DEF m, n, front, whole, back
<1>7. /\ u \in Seq(S) /\ Len(u) = n + 1
      /\ \A i \in 1..(n + 1) : u[i] = IF i <= m THEN whole[i] ELSE back[i - m]
  <2>1. /\ u \in Seq(S) /\ Len(u) = Len(whole) + Len(back)
        /\ \A i \in 1..(Len(whole) + Len(back)) :
              u[i] = IF i <= Len(whole) THEN whole[i] ELSE back[i - Len(whole)]
    BY <1>3, <1>4, ConcatProperties
  <2>2. Len(whole) = m /\ Len(whole) + Len(back) = n + 1
    BY <1>0, <1>3, <1>4, <1>5
  <2> QED BY <2>1, <2>2
<1> HIDE DEF u
<1>8. \A i \in 1..k : u[i] = s[i]
  <2>1. \A i \in 1..k : i \in 1..(n + 1) /\ i <= m
    BY <1>0, <1>5
  <2> QED BY <2>1, <1>3, <1>7
<1>9. u[k + 1] = e
  <2>1. m \in 1..(n + 1) /\ m <= m
    BY <1>0, <1>5
  <2>2. u[m] = e
    BY <2>1, <1>3, <1>7
  <2> QED BY <2>2, <1>5
<1>10. ASSUME NEW i \in (k + 1)..Len(s) PROVE u[i + 1] = s[i]
  <2>1. /\ i + 1 \in 1..(n + 1) /\ ~(i + 1 <= m)
        /\ i + 1 - m = i - k /\ i - k \in 1..(n - k) /\ k + (i - k) = i
    BY <1>0, <1>5
  <2>2. u[i + 1] = back[i + 1 - m]
    <3> DEFINE j == i + 1
    <3>1. j \in 1..(n + 1) /\ ~(j <= m)
      BY <2>1
    <3> HIDE DEF j
    <3>2. u[j] = back[j - m]
      BY <3>1, <1>7
    <3> QED BY <3>2, <1>0 DEF j
  <2>3. back[i - k] = s[k + (i - k)]
    BY <2>1, <1>4
  <2> QED BY <2>1, <2>2, <2>3
<1>11. WithInserted(u, S, s, k, e)
  BY <1>5, <1>7, <1>8, <1>9, <1>10 DEF WithInserted
<1> QED BY <1>6, <1>11

\* Dropping the first k elements.
LEMMA DropProperties ==
    ASSUME NEW S, NEW s \in Seq(S), NEW k \in 0..Len(s), NEW t, t = SubSeq(s, k + 1, Len(s))
    PROVE  /\ t \in Seq(S)
           /\ Len(t) = Len(s) - k
           /\ \A i \in 1..Len(t) : t[i] = s[k + i]
<1> DEFINE n == Len(s)
           m == k + 1
<1>0. n \in Nat /\ k \in Nat /\ k <= n /\ m \in Nat /\ m >= 1 /\ \A i \in 1..n : s[i] \in S
  BY LenProperties, ElementOfSeq
<1>1. t = SubSeq(s, m, n) /\ m = k + 1
  OBVIOUS
<1> HIDE DEF m, n
<1>2. \A i \in m..n : s[i] \in S
  BY <1>0
<1>3. /\ t \in Seq(S)
      /\ Len(t) = IF m <= n THEN n - m + 1 ELSE 0
      /\ \A i \in 1..n - m + 1 : t[i] = s[m + i - 1]
  BY <1>0, <1>1, <1>2, SubSeqProperties
<1>4. Len(t) = n - k
  BY <1>0, <1>1, <1>3
<1>5. \A i \in 1..Len(t) : i \in 1..n - m + 1 /\ m + i - 1 = k + i
  BY <1>0, <1>1, <1>4
<1> QED BY <1>3, <1>4, <1>5 DEF n

Lists(f, m, S) ==
    /\ f \in [1..m -> S]
    /\ \A i, j \in 1..m : f[i] = f[j] => i = j
    /\ \A x \in S : \E i \in 1..m : f[i] = x

\* Two lists of the same elements, each once, are equally long.
LEMMA SameLength ==
    ASSUME NEW m \in Nat, NEW n \in Nat, NEW S,
           NEW f, Lists(f, m, S), NEW g, Lists(g, n, S)
    PROVE  m = n
<1>1. f \in Bijection(1..m, S) /\ g \in Bijection(1..n, S)
  BY Fun_IsBij DEF Lists
<1>2. ExistsBijection(1..m, S) /\ ExistsBijection(1..n, S)
  BY <1>1, Fun_ExistsBij
<1> QED BY <1>2, Fun_NatBijSame
================================================================================
