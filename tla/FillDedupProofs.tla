-------------------------- MODULE FillDedupProofs --------------------------
(* The dedup window, for every set of keys and every window size.           *)
EXTENDS FillDedup, TLAPS

-----------------------------------------------------------------------------
(* What trimming returns.                                                   *)

\* Trimming returns the last max entries of the list, or all of them.
LEMMA KeepLastIndex ==
    ASSUME NEW s \in Seq(Keys), NEW max \in Nat \ {0}
    PROVE  /\ KeepLast(s, max) \in Seq(Keys)
           /\ Len(KeepLast(s, max)) = IF Len(s) > max THEN max ELSE Len(s)
           /\ \A i \in 1..Len(KeepLast(s, max)) :
                KeepLast(s, max)[i]
                  = s[i + (IF Len(s) > max THEN Len(s) - max ELSE 0)]
<1>1. CASE Len(s) > max
  BY <1>1 DEF KeepLast
<1>2. CASE ~(Len(s) > max)
  BY <1>2 DEF KeepLast
<1>q. QED  BY <1>1, <1>2

LEMMA AppendIndex ==
    ASSUME NEW s \in Seq(Keys), NEW k \in Keys
    PROVE  /\ Append(s, k) \in Seq(Keys)
           /\ Len(Append(s, k)) = Len(s) + 1
           /\ \A i \in 1..Len(s) : Append(s, k)[i] = s[i]
           /\ Append(s, k)[Len(s) + 1] = k
OBVIOUS

\* Adding to the window and trimming it gives the window of the longer history.
LEMMA KeepLastAppend ==
    ASSUME NEW s \in Seq(Keys), NEW max \in Nat \ {0}, NEW k \in Keys,
           NEW w, w = KeepLast(s, max)
    PROVE  KeepLast(Append(w, k), max) = KeepLast(Append(s, k), max)
<1>1. /\ w \in Seq(Keys)
      /\ Len(w) = IF Len(s) > max THEN max ELSE Len(s)
      /\ \A i \in 1..Len(w) : w[i] = s[i + (IF Len(s) > max THEN Len(s) - max ELSE 0)]
  BY KeepLastIndex
<1>2. PICK aw \in Seq(Keys) :
         /\ aw = Append(w, k)
         /\ Len(aw) = Len(w) + 1
         /\ \A i \in 1..Len(w) : aw[i] = w[i]
         /\ aw[Len(w) + 1] = k
  BY <1>1, AppendIndex
<1>3. PICK as \in Seq(Keys) :
         /\ as = Append(s, k)
         /\ Len(as) = Len(s) + 1
         /\ \A i \in 1..Len(s) : as[i] = s[i]
         /\ as[Len(s) + 1] = k
  BY AppendIndex
<1>4. PICK l \in Seq(Keys) :
         /\ l = KeepLast(aw, max)
         /\ Len(l) = IF Len(aw) > max THEN max ELSE Len(aw)
         /\ \A i \in 1..Len(l) :
               l[i] = aw[i + (IF Len(aw) > max THEN Len(aw) - max ELSE 0)]
  BY KeepLastIndex
<1>5. PICK r \in Seq(Keys) :
         /\ r = KeepLast(as, max)
         /\ Len(r) = IF Len(as) > max THEN max ELSE Len(as)
         /\ \A i \in 1..Len(r) :
               r[i] = as[i + (IF Len(as) > max THEN Len(as) - max ELSE 0)]
  BY KeepLastIndex
<1>6. Len(l) = Len(r)
  BY <1>1, <1>2, <1>3, <1>4, <1>5
<1>7. ASSUME NEW i \in 1..Len(l)  PROVE  l[i] = r[i]
  <2>1. CASE Len(s) < max
    BY <2>1, <1>1, <1>2, <1>3, <1>4, <1>5
  <2>2. CASE Len(s) = max
    BY <2>2, <1>1, <1>2, <1>3, <1>4, <1>5
  <2>3. CASE Len(s) > max
    <3>a. Len(w) = max /\ Len(l) = max /\ Len(aw) - max = 1 /\ Len(aw) > max
      BY <2>3, <1>1, <1>2, <1>4
    <3>b. Len(as) - max = Len(s) + 1 - max /\ Len(as) > max
      BY <2>3, <1>3
    <3>1. l[i] = aw[i + 1] /\ r[i] = as[i + (Len(s) + 1 - max)]
      <4>1. l[i] = aw[i + 1]
        BY <3>a, <1>4
      <4>2. r[i] = as[i + (Len(s) + 1 - max)]
        BY <3>b, <1>5, <1>6
      <4>q. QED  BY <4>1, <4>2
    <3>2. CASE i = max
      <4>1. i + 1 = Len(w) + 1 /\ i + (Len(s) + 1 - max) = Len(s) + 1
        BY <3>2, <3>a
      <4>q. QED  BY <4>1, <3>1, <1>2, <1>3
    <3>3. CASE i < max
      BY <2>3, <3>1, <3>3, <1>1, <1>2, <1>3
    <3>q. QED  BY <2>3, <3>2, <3>3, <1>1, <1>2, <1>4
  <2>q. QED  BY <2>1, <2>2, <2>3
<1>8. l = r
  BY <1>6, <1>7
<1>q. QED  BY <1>2, <1>3, <1>4, <1>5, <1>8

-----------------------------------------------------------------------------
(* The inductive invariant: the three properties, and the same facts of the  *)
(* saved state, from which a restart takes up.                               *)

\* A history of accepted keys in which a key comes back only from outside the
\* window.
WellSpaced(h) ==
    \A i, j \in DOMAIN h : (i < j /\ h[i] = h[j]) => j - i > MaxKeys

\* WindowExact in terms of the operator that trims.
WindowInv == fill_dedup_keys = KeepLast(accepted, MaxKeys)

SavedInv ==
    /\ saved.keys = KeepLast(saved.accepted, MaxKeys)
    /\ WellSpaced(saved.accepted)

IInv == TypeOK /\ ListSetAgree /\ WindowInv /\ NoRecount /\ SavedInv

\* The entries of a well-spaced history's window are all different.
LEMMA WindowDistinct ==
    ASSUME NEW h \in Seq(Keys), WellSpaced(h), MaxKeysAssumption,
           NEW i \in 1..Len(KeepLast(h, MaxKeys)),
           NEW j \in 1..Len(KeepLast(h, MaxKeys)),
           KeepLast(h, MaxKeys)[i] = KeepLast(h, MaxKeys)[j]
    PROVE  i = j
<1> DEFINE off == IF Len(h) > MaxKeys THEN Len(h) - MaxKeys ELSE 0
<1> DEFINE w == KeepLast(h, MaxKeys)
<1>0. MaxKeys \in Nat \ {0}
  BY DEF MaxKeysAssumption
<1>1. /\ w \in Seq(Keys)
      /\ Len(w) = IF Len(h) > MaxKeys THEN MaxKeys ELSE Len(h)
      /\ \A n \in 1..Len(w) : w[n] = h[n + off]
  BY <1>0, KeepLastIndex
<1>2. h[i + off] = h[j + off]
  BY <1>1
<1>3. i + off \in DOMAIN h /\ j + off \in DOMAIN h
  BY <1>0, <1>1
<1>4. \A a, b \in DOMAIN h : (a < b /\ h[a] = h[b]) => b - a > MaxKeys
  BY DEF WellSpaced
<1>5. i \in Int /\ j \in Int /\ off \in Int
  BY <1>0, <1>1
<1>6. i <= MaxKeys /\ j <= MaxKeys
  BY <1>0, <1>1
<1>q. QED
  <2>1. ~(i < j)
    BY <1>0, <1>2, <1>3, <1>4, <1>5, <1>6
  <2>2. ~(j < i)
    BY <1>0, <1>2, <1>3, <1>4, <1>5, <1>6
  <2>q. QED  BY <2>1, <2>2, <1>5

-----------------------------------------------------------------------------

LEMMA InitIInv == Init => IInv
BY MaxKeysAssumption
   DEF Init, IInv, TypeOK, ListSetAgree, WindowInv, NoRecount, SavedInv, WellSpaced,
       KeepLast, ToSet, MaxKeysAssumption

\* Accepting a fill keeps the invariant: the key is none of the last MaxKeys.
LEMMA AcceptIInv ==
    ASSUME IInv, NEW k \in Keys, Accept(k)
    PROVE  IInv'
<1> DEFINE w == fill_dedup_keys
<1> DEFINE added == Append(w, k)
<1> USE DEF IInv
<1>0. MaxKeys \in Nat \ {0}
  BY MaxKeysAssumption DEF MaxKeysAssumption
<1>1. /\ w \in Seq(Keys) /\ accepted \in Seq(Keys)
      /\ added \in Seq(Keys) /\ accepted' = Append(accepted, k)
      /\ Len(added) = Len(w) + 1
      /\ fill_dedup_keys' = KeepLast(added, MaxKeys)
      /\ saved' = saved
  BY DEF TypeOK, Accept
<1>2. WindowInv'
  BY <1>0, <1>1, KeepLastAppend DEF WindowInv
<1>3. /\ Len(w) = IF Len(accepted) > MaxKeys THEN MaxKeys ELSE Len(accepted)
      /\ \A i \in 1..Len(w) : w[i] = accepted[i + (IF Len(accepted) > MaxKeys THEN Len(accepted) - MaxKeys ELSE 0)]
  BY <1>0, <1>1, KeepLastIndex DEF WindowInv
<1>4. \A i \in 1..Len(w) : w[i] # k
  BY <1>1 DEF Accept, ListSetAgree, ToSet
<1>5. \A i, j \in DOMAIN accepted : (i < j /\ accepted[i] = accepted[j]) => j - i > MaxKeys
  BY DEF NoRecount
<1>6. NoRecount'
  <2> SUFFICES ASSUME NEW i \in 1..(Len(accepted) + 1), NEW j \in 1..(Len(accepted) + 1),
                      i < j, Append(accepted, k)[i] = Append(accepted, k)[j]
               PROVE  j - i > MaxKeys
    BY <1>1 DEF NoRecount
  <2>1. CASE j <= Len(accepted)
    <3>1. i \in DOMAIN accepted /\ j \in DOMAIN accepted
      BY <2>1, <1>1
    <3>2. accepted[i] = accepted[j]
      BY <2>1, <1>1, AppendIndex
    <3>q. QED  BY <3>1, <3>2, <1>5
  <2>2. CASE j = Len(accepted) + 1
    <3>1. accepted[i] = k /\ i \in 1..Len(accepted)
      BY <2>2, <1>1
    <3>2. ~(i > Len(accepted) - MaxKeys)
      <4>1. CASE Len(accepted) > MaxKeys
        <5> SUFFICES ASSUME i > Len(accepted) - MaxKeys  PROVE FALSE
          OBVIOUS
        <5>1. i - (Len(accepted) - MaxKeys) \in 1..Len(w)
          BY <4>1, <3>1, <1>0, <1>1, <1>3
        <5>2. w[i - (Len(accepted) - MaxKeys)] = accepted[i]
          BY <4>1, <5>1, <3>1, <1>0, <1>1, <1>3
        <5>q. QED  BY <5>1, <5>2, <3>1, <1>4
      <4>2. CASE ~(Len(accepted) > MaxKeys)
        BY <4>2, <3>1, <1>0, <1>1, <1>3, <1>4
      <4>q. QED  BY <4>1, <4>2
    <3>q. QED  BY <2>2, <3>1, <3>2, <1>0, <1>1
  <2>q. QED  BY <2>1, <2>2, <1>1
<1>7. ListSetAgree'
  <2>1. fill_dedup_set = {w[i] : i \in 1..Len(w)}
    BY <1>1 DEF ListSetAgree, ToSet
  <2>2. fill_dedup_set' = (fill_dedup_set \cup {k}) \ Overflow(added, MaxKeys)
    BY DEF Accept
  <2>3. Len(w) <= MaxKeys
    BY <1>0, <1>1, <1>3
  <2>4. CASE Len(w) < MaxKeys
    <3>1. Overflow(added, MaxKeys) = {} /\ fill_dedup_keys' = added
      BY <2>4, <1>0, <1>1 DEF Overflow, KeepLast
    <3>2. ToSet(added) = {added[i] : i \in 1..(Len(w) + 1)}
      BY <1>1 DEF ToSet
    <3>3. \A x : x \in ToSet(added) <=> (x = k \/ \E i \in 1..Len(w) : x = w[i])
      BY <3>2, <1>1
    <3>q. QED  BY <3>1, <3>3, <2>1, <2>2 DEF ListSetAgree
  <2>5. CASE Len(w) = MaxKeys
    <3>1. Overflow(added, MaxKeys) = ToSet(SubSeq(added, 1, 1))
      BY <2>5, <1>0, <1>1 DEF Overflow
    <3>2. /\ SubSeq(added, 1, 1) \in Seq(Keys) /\ Len(SubSeq(added, 1, 1)) = 1
          /\ SubSeq(added, 1, 1)[1] = w[1]
      BY <2>5, <1>0, <1>1
    <3>3. Overflow(added, MaxKeys) = {w[1]}
      BY <3>1, <3>2 DEF ToSet
    <3>4. fill_dedup_keys' = SubSeq(added, 2, MaxKeys + 1)
      BY <2>5, <1>0, <1>1 DEF KeepLast
    <3>5. /\ Len(fill_dedup_keys') = MaxKeys
          /\ fill_dedup_keys' \in Seq(Keys)
          /\ \A i \in 1..MaxKeys : fill_dedup_keys'[i] = added[i + 1]
      BY <3>4, <2>5, <1>0, <1>1
    <3>6. \A x : x \in ToSet(fill_dedup_keys')
                   <=> \E i \in 1..MaxKeys : x = fill_dedup_keys'[i]
      BY <3>5 DEF ToSet
    <3>7. \A i, j \in 1..Len(w) : w[i] = w[j] => i = j
      <4>1. WellSpaced(accepted)
        BY <1>5 DEF WellSpaced
      <4>2. w = KeepLast(accepted, MaxKeys)
        BY DEF WindowInv
      <4>q. QED  BY <4>1, <4>2, <1>1, MaxKeysAssumption, WindowDistinct
    <3>8. ASSUME NEW x
          PROVE  x \in fill_dedup_set' <=> x \in ToSet(fill_dedup_keys')
      <4>1. x \in fill_dedup_set' <=> x # w[1] /\ (x = k \/ \E i \in 1..Len(w) : x = w[i])
        BY <2>1, <2>2, <3>3
      <4>2. x \in ToSet(fill_dedup_keys') <=> \E i \in 1..MaxKeys : x = added[i + 1]
        <5>1. \A i \in 1..MaxKeys : fill_dedup_keys'[i] = added[i + 1]
          BY ONLY <3>5
        <5> HIDE DEF added
        <5>2. (\E i \in 1..MaxKeys : x = fill_dedup_keys'[i])
                 <=> \E i \in 1..MaxKeys : x = added[i + 1]
          BY ONLY <5>1
        <5> QED BY ONLY <3>6, <5>2
      <4>3. (\E i \in 1..MaxKeys : x = added[i + 1])
               <=> (x = k \/ \E i \in 2..Len(w) : x = w[i])
        <5>1. added[MaxKeys + 1] = k /\ \A i \in 1..MaxKeys : added[i] = w[i]
          BY <2>5, <1>1, AppendIndex
        <5>2. ASSUME NEW i \in 1..MaxKeys, x = added[i + 1]
              PROVE  x = k \/ \E n \in 2..Len(w) : x = w[n]
          <6>1. CASE i = MaxKeys
            BY <6>1, <5>1, <5>2
          <6>2. CASE i < MaxKeys
            <7>1. i + 1 \in 2..Len(w) /\ x = w[i + 1]
              BY <6>2, <5>1, <5>2, <2>5, <1>0
            <7>q. QED  BY <7>1
          <6>q. QED  BY <6>1, <6>2, <1>0
        <5>3. ASSUME x = k  PROVE  \E i \in 1..MaxKeys : x = added[i + 1]
          <6>1. MaxKeys \in 1..MaxKeys
            BY <1>0
          <6>q. QED  BY <6>1, <5>1, <5>3
        <5>4. ASSUME NEW n \in 2..Len(w), x = w[n]
              PROVE  \E i \in 1..MaxKeys : x = added[i + 1]
          <6>1. n - 1 \in 1..MaxKeys /\ x = added[(n - 1) + 1]
            BY <5>1, <5>4, <2>5, <1>0
          <6>q. QED  BY <6>1
        <5>q. QED  BY <5>2, <5>3, <5>4
      <4>4. k # w[1]
        BY <2>5, <1>0, <1>4
      <4>5. (\E i \in 2..Len(w) : x = w[i])
               <=> (x # w[1] /\ \E i \in 1..Len(w) : x = w[i])
        BY <3>7, <2>5, <1>0, <1>1
      <4>q. QED  BY <4>1, <4>2, <4>3, <4>4, <4>5
    <3>q. QED  BY <3>8 DEF ListSetAgree, ToSet
  <2>q. QED  BY <2>3, <2>4, <2>5, <1>0, <1>1
<1>8. TypeOK'
  <2>1. fill_dedup_keys' \in Seq(Keys)
    BY <1>0, <1>1, KeepLastIndex
  <2>3. Len(fill_dedup_keys') <= MaxKeys
    <3>1. Len(KeepLast(added, MaxKeys)) = IF Len(added) > MaxKeys THEN MaxKeys ELSE Len(added)
      BY <1>0, <1>1, KeepLastIndex
    <3>q. QED  BY <3>1, <1>0, <1>1
  <2>2. fill_dedup_set' \in SUBSET Keys
    BY DEF TypeOK, Accept
  <2>q. QED  BY <1>1, <2>1, <2>2, <2>3 DEF TypeOK
<1>9. SavedInv'
  BY <1>1 DEF SavedInv, WellSpaced
<1>q. QED  BY <1>2, <1>6, <1>7, <1>8, <1>9

LEMMA PersistIInv ==
    ASSUME IInv, PersistState
    PROVE  IInv'
BY DEF IInv, PersistState, TypeOK, ListSetAgree, WindowInv, NoRecount, SavedInv, WellSpaced

LEMMA RestartIInv ==
    ASSUME IInv, Restart
    PROVE  IInv'
<1>0. Len(saved.keys) <= MaxKeys
  BY MaxKeysAssumption, KeepLastIndex DEF IInv, TypeOK, SavedInv, MaxKeysAssumption
<1>1. ToSet(saved.keys) \in SUBSET Keys
  BY DEF IInv, TypeOK, ToSet
<1>q. QED
  BY <1>0, <1>1 DEF IInv, Restart, TypeOK, ListSetAgree, WindowInv, NoRecount, SavedInv, WellSpaced

\* The invariant holds in every reachable state.
THEOREM Invariance == Spec => []IInv
<1>1. IInv /\ [Next]_vars => IInv'
  <2> SUFFICES ASSUME IInv, [Next]_vars PROVE IInv'
    OBVIOUS
  <2>1. ASSUME NEW k \in Keys, DropDuplicate(k) PROVE IInv'
    BY <2>1 DEF DropDuplicate, vars, IInv, TypeOK, ListSetAgree, WindowInv, NoRecount,
                SavedInv, WellSpaced
  <2>2. CASE UNCHANGED vars
    BY <2>2 DEF vars, IInv, TypeOK, ListSetAgree, WindowInv, NoRecount, SavedInv, WellSpaced
  <2>q. QED  BY <2>1, <2>2, AcceptIInv, PersistIInv, RestartIInv DEF Next
<1>q. QED  BY InitIInv, <1>1, PTL DEF Spec

\* The window is a bounded list of keys, also after a restart has loaded it from the saved state.
THEOREM WindowTypeCorrect == Spec => []TypeOK
BY Invariance, PTL DEF IInv

\* The list and the set agree, whatever the keys and the size of the window
\* (execution_v1.py:657-678).
THEOREM ListAndSetAgree == Spec => []ListSetAgree
BY Invariance, PTL DEF IInv

\* The window is exactly the last MaxKeys accepted fills.
THEOREM WindowIsExact == Spec => []WindowExact
<1>1. IInv => WindowExact
  <2> SUFFICES ASSUME IInv PROVE WindowExact
    OBVIOUS
  <2>1. accepted \in Seq(Keys) /\ MaxKeys \in Nat \ {0}
    BY MaxKeysAssumption DEF IInv, TypeOK, MaxKeysAssumption
  <2>2. fill_dedup_keys = KeepLast(accepted, MaxKeys)
    BY DEF IInv, WindowInv
  <2>3. Len(fill_dedup_keys) = IF Len(accepted) < MaxKeys THEN Len(accepted) ELSE MaxKeys
    BY <2>1, <2>2, KeepLastIndex
  <2>4. CASE Len(accepted) > MaxKeys
    <3>1. \A i \in 1..Len(fill_dedup_keys) :
             fill_dedup_keys[i] = accepted[i + (Len(accepted) - MaxKeys)]
      BY <2>1, <2>2, <2>4, KeepLastIndex
    <3>2. \A i \in 1..Len(fill_dedup_keys) :
             i + (Len(accepted) - MaxKeys) = Len(accepted) - Len(fill_dedup_keys) + i
      <4>1. Len(fill_dedup_keys) = MaxKeys
        BY <2>1, <2>3, <2>4
      <4>2. Len(accepted) \in Nat
        BY <2>1
      <4>q. QED  BY <4>1, <4>2, <2>1
    <3>q. QED  BY <2>3, <3>1, <3>2 DEF WindowExact
  <2>5. CASE ~(Len(accepted) > MaxKeys)
    BY <2>1, <2>2, <2>3, <2>5 DEF WindowExact, KeepLast
  <2>q. QED  BY <2>4, <2>5
<1>q. QED  BY <1>1, Invariance, PTL

\* No fill is counted again while its key is inside the window, restarts included.
THEOREM NoFillRecounted == Spec => []NoRecount
BY Invariance, PTL DEF IInv

=============================================================================
