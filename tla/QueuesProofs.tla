---------------------------- MODULE QueuesProofs ----------------------------
(***************************************************************************)
(* What the proofs of the components need to know of their queues: which   *)
(* members Append, Tail and Without leave, and that a queue in which       *)
(* nobody stands twice stays one.                                          *)
(*                                                                         *)
(* Without is a recursive function of the length, so its facts are proved  *)
(* by least counterexample: the naturals are well-founded.                 *)
(***************************************************************************)
EXTENDS Queues, WellFoundedInduction, TLAPS

(* A member that joins stands last, and twice only if it stood before:     *)
(* queue.push of the limiters, Map.set of the caches.                      *)
LEMMA JoinLast ==
  ASSUME NEW T, NEW s \in Seq(T), NEW e \in T
  PROVE  /\ Append(s, e) \in Seq(T)
         /\ Len(Append(s, e)) = Len(s) + 1
         /\ ToSet(Append(s, e)) = ToSet(s) \cup {e}
         /\ e \notin ToSet(s) => (IsInjective(s) => IsInjective(Append(s, e)))
<1>1. ASSUME NEW q, q = Append(s, e)
      PROVE  /\ ToSet(q) = ToSet(s) \cup {e}
             /\ e \notin ToSet(s) => (IsInjective(s) => IsInjective(q))
  <2>1. /\ Len(s) \in Nat /\ DOMAIN s = 1 .. Len(s) /\ DOMAIN q = 1 .. Len(s) + 1
        /\ q[Len(s) + 1] = e /\ \A i \in 1 .. Len(s) : q[i] = s[i]
    BY <1>1
  <2>2. ToSet(q) = ToSet(s) \cup {e}
    BY <2>1 DEF ToSet
  <2>3. e \notin ToSet(s) => (IsInjective(s) => IsInjective(q))
    BY <2>1 DEF ToSet, IsInjective
  <2> QED
    BY <2>2, <2>3
<1>2. ToSet(Append(s, e)) = ToSet(s) \cup {e}
  BY <1>1
<1>3. e \notin ToSet(s) => (IsInjective(s) => IsInjective(Append(s, e)))
  BY <1>1
<1>4. Append(s, e) \in Seq(T) /\ Len(Append(s, e)) = Len(s) + 1
  OBVIOUS
<1> QED
  BY <1>2, <1>3, <1>4

(* The first member leaves, and with it every trace of it where nobody     *)
(* stands twice: queue.shift of the limiters.                              *)
LEMMA LeaveFirst ==
  ASSUME NEW T, NEW s \in Seq(T), s # <<>>
  PROVE  /\ Tail(s) \in Seq(T) /\ Head(s) \in ToSet(s) /\ Head(s) \in T
         /\ Len(Tail(s)) = Len(s) - 1
         /\ IsInjective(s) => /\ ToSet(Tail(s)) = ToSet(s) \ {Head(s)}
                              /\ IsInjective(Tail(s))
<1> DEFINE q == Tail(s)
<1>1. /\ q \in Seq(T) /\ Len(q) = Len(s) - 1 /\ Len(s) \in Nat \ {0}
      /\ DOMAIN s = 1 .. Len(s) /\ DOMAIN q = 1 .. Len(s) - 1
      /\ Head(s) = s[1] /\ \A i \in 1 .. Len(s) - 1 : q[i] = s[i + 1]
  OBVIOUS
<1> HIDE DEF q
<1>2. Head(s) \in ToSet(s) /\ Head(s) \in T
  BY <1>1 DEF ToSet
<1>3. ASSUME IsInjective(s) PROVE ToSet(q) = ToSet(s) \ {Head(s)}
  <2>1. \A x \in ToSet(q) : x \in ToSet(s) \ {Head(s)}
    BY <1>1, <1>3 DEF ToSet, IsInjective
  <2>2. ASSUME NEW x \in ToSet(s) \ {Head(s)} PROVE x \in ToSet(q)
    <3>1. PICK i \in 1 .. Len(s) : x = s[i]
      BY <1>1 DEF ToSet
    <3>2. i - 1 \in 1 .. Len(s) - 1 /\ q[i - 1] = x
      BY <3>1, <1>1
    <3> QED
      BY <3>2, <1>1 DEF ToSet
  <2> QED
    BY <2>1, <2>2
<1>4. ASSUME IsInjective(s) PROVE IsInjective(q)
  BY <1>1, <1>4 DEF IsInjective
<1> QED
  BY <1>1, <1>2, <1>3, <1>4 DEF q

(* Nobody stands in an empty queue. *)
LEMMA EmptyQueue == ToSet(<<>>) = {} /\ IsInjective(<<>>)
BY DEF ToSet, IsInjective

(* Every non-empty set of naturals has a least member. *)
LEMMA Least ==
  ASSUME NEW S \in SUBSET Nat, S # {}
  PROVE  \E n \in S : \A m \in S : n <= m
<1>1. PICK x \in S : \A y \in S : ~ (<<y, x>> \in OpToRel(<, Nat))
  BY NatLessThanWellFounded, WFMin, Zenon
<1>2. \A y \in S : ~(y < x)
  BY <1>1 DEF OpToRel
<1> QED
  BY <1>2

(* What Without computes on the way: g[i] is the rest of the first i.      *)
Filter(g, n, s, R) ==
  g = [i \in 0 .. n |-> IF i = 0 THEN <<>>
                        ELSE IF s[i] \in R THEN g[i - 1]
                        ELSE Append(g[i - 1], s[i])]

(* The recursion of Without defines a function. *)
LEMMA FilterExists ==
  ASSUME NEW T, NEW s \in Seq(T), NEW R
  PROVE  \E g : Filter(g, Len(s), s, R)
<1> DEFINE Bad == {n \in 0 .. Len(s) : ~ \E g : Filter(g, n, s, R)}
<1>0. Len(s) \in Nat
  OBVIOUS
<1>1. SUFFICES ASSUME Bad # {} PROVE FALSE
  <2>1. Len(s) \in 0 .. Len(s)
    BY <1>0
  <2> QED
    BY <2>1
<1>2. PICK n \in Bad : \A m \in Bad : n <= m
  <2>1. Bad \in SUBSET Nat
    OBVIOUS
  <2> QED
    BY <1>1, <2>1, Least
<1>3. n # 0
  <2> DEFINE g == [i \in 0 .. 0 |-> <<>>]
  <2>1. Filter(g, 0, s, R)
    BY DEF Filter
  <2> QED
    BY <2>1, <1>2
<1>4. PICK g : Filter(g, n - 1, s, R)
  BY <1>2, <1>3
<1> DEFINE last == IF s[n] \in R THEN g[n - 1] ELSE Append(g[n - 1], s[n])
           h == [i \in 0 .. n |-> IF i = n THEN last ELSE g[i]]
<1>5. Filter(h, n, s, R)
  <2>1. \A i \in 0 .. n - 1 : h[i] = g[i]
    BY <1>2
  <2>2. \A i \in 0 .. n : h[i] = IF i = 0 THEN <<>>
                                 ELSE IF s[i] \in R THEN h[i - 1]
                                 ELSE Append(h[i - 1], s[i])
    <3> SUFFICES ASSUME NEW i \in 0 .. n
                 PROVE h[i] = IF i = 0 THEN <<>>
                                 ELSE IF s[i] \in R THEN h[i - 1]
                                 ELSE Append(h[i - 1], s[i])
      OBVIOUS
    <3>0. i = 0 \/ h[i - 1] = g[i - 1]
      BY <1>2, <2>1
    <3>1. CASE i = n
      BY <3>1, <3>0, <1>3
    <3>2. CASE i # n
      <4>1. i \in 0 .. n - 1
        BY <3>2, <1>2
      <4>2. g[i] = IF i = 0 THEN <<>>
                                 ELSE IF s[i] \in R THEN g[i - 1]
                                 ELSE Append(g[i - 1], s[i])
        BY <4>1, <1>4 DEF Filter
      <4> HIDE DEF h
      <4> QED
        BY <4>1, <4>2, <3>0, <2>1
    <3> QED
      BY <3>1, <3>2
  <2> QED
    BY <2>2 DEF Filter
<1> QED
  BY <1>2, <1>5

(* Without is the last value of that function. *)
LEMMA WithoutIs ==
  ASSUME NEW T, NEW s \in Seq(T), NEW R
  PROVE  \E g : Filter(g, Len(s), s, R) /\ Without(s, R) = g[Len(s)]
<1> DEFINE g == CHOOSE g : Filter(g, Len(s), s, R)
<1>1. Filter(g, Len(s), s, R)
  BY FilterExists
<1>2. Without(s, R) = g[Len(s)]
  BY DEF Without, Filter
<1> QED
  BY <1>1, <1>2

(* Dropping members drops exactly those named, whoever they are, and lets  *)
(* nobody stand twice who stood once; where none is named it changes       *)
(* nothing: filter and splice of the limiters, delete of the caches' maps. *)
THEOREM WithoutProperties ==
  ASSUME NEW T, NEW s \in Seq(T), NEW R
  PROVE  /\ Without(s, R) \in Seq(T)
         /\ ToSet(Without(s, R)) = ToSet(s) \ R
         /\ IsInjective(s) => IsInjective(Without(s, R))
         /\ ToSet(s) \cap R = {} => Without(s, R) = s
         /\ Len(Without(s, R)) <= Len(s)
         /\ ToSet(s) \cap R # {} => Len(Without(s, R)) < Len(s)
<1>1. PICK g : Filter(g, Len(s), s, R) /\ Without(s, R) = g[Len(s)]
  BY WithoutIs
<1>0. Len(s) \in Nat /\ DOMAIN s = 1 .. Len(s)
  OBVIOUS
<1> DEFINE Good(i) == /\ g[i] \in Seq(T)
                      /\ \A x : x \in ToSet(g[i]) <=> x \notin R /\ \E j \in 1 .. i : s[j] = x
                      /\ IsInjective(s) => IsInjective(g[i])
                      /\ ToSet(s) \cap R = {} => g[i] = SubSeq(s, 1, i)
                      /\ Len(g[i]) <= i
                      /\ (\E j \in 1 .. i : s[j] \in R) => Len(g[i]) < i
           Bad == {i \in 0 .. Len(s) : ~ Good(i)}
<1>2. Good(0)
  <2>1. g[0] = <<>>
    <3>1. 0 \in 0 .. Len(s)
      BY <1>0
    <3> QED
      BY <1>1, <3>1 DEF Filter
  <2> QED
    BY <2>1 DEF ToSet, IsInjective
<1>3. ASSUME NEW i \in 1 .. Len(s), Good(i - 1)
      PROVE  Good(i)
  <2>1. g[i] = IF s[i] \in R THEN g[i - 1] ELSE Append(g[i - 1], s[i])
    <3>1. i \in 0 .. Len(s) /\ i # 0
      BY <1>0
    <3> QED
      BY <1>1, <3>1 DEF Filter
  <2>2. s[i] \in T /\ i \in DOMAIN s /\ s[i] \in ToSet(s)
    BY DEF ToSet
  <2>3. CASE s[i] \in R
    <3>1. g[i] = g[i - 1]
      BY <2>1, <2>3
    <3>2. \A x : x \notin R => ((\E j \in 1 .. i : s[j] = x) <=> (\E j \in 1 .. i - 1 : s[j] = x))
      BY <2>3
    <3>3. Len(g[i]) < i
      BY <3>1, <1>3
    <3> QED
      BY <3>1, <3>2, <3>3, <1>3, <2>2, <2>3
  <2>4. CASE s[i] \notin R
    <3>1. g[i] = Append(g[i - 1], s[i])
      BY <2>1, <2>4
    <3> DEFINE p == g[i - 1]
               q == g[i]
    <3>2. /\ p \in Seq(T) /\ q \in Seq(T) /\ Len(q) = Len(p) + 1
          /\ q[Len(q)] = s[i] /\ \A j \in 1 .. Len(p) : q[j] = p[j]
          /\ DOMAIN q = 1 .. Len(p) + 1 /\ DOMAIN p = 1 .. Len(p) /\ Len(p) \in Nat
      BY <3>1, <1>3, <2>2
    <3>3. ToSet(q) = ToSet(p) \cup {s[i]}
      <4> HIDE DEF p, q
      <4> QED
        BY <3>2 DEF ToSet
    <3>4. \A x : x \in ToSet(q) <=> x \notin R /\ \E j \in 1 .. i : s[j] = x
      <4>1. \A x : (\E j \in 1 .. i : s[j] = x) <=> (x = s[i] \/ \E j \in 1 .. i - 1 : s[j] = x)
        OBVIOUS
      <4> QED
        BY <4>1, <3>3, <1>3, <2>4
    <3>5. IsInjective(s) => IsInjective(q)
      <4> SUFFICES ASSUME IsInjective(s) PROVE IsInjective(q)
        OBVIOUS
      <4>1. IsInjective(p)
        BY <1>3
      <4>2. s[i] \notin ToSet(p)
        BY <1>3, <2>2 DEF IsInjective
      <4> HIDE DEF p, q
      <4> QED
        BY <3>2, <4>1, <4>2 DEF IsInjective, ToSet
    <3>6. ToSet(s) \cap R = {} => q = SubSeq(s, 1, i)
      <4> SUFFICES ASSUME ToSet(s) \cap R = {} PROVE q = SubSeq(s, 1, i)
        OBVIOUS
      <4>1. p = SubSeq(s, 1, i - 1)
        BY <1>3
      <4>2. Append(SubSeq(s, 1, i - 1), s[i]) = SubSeq(s, 1, i)
        OBVIOUS
      <4> QED
        BY <3>1, <4>1, <4>2
    <3>7. Len(q) <= i /\ ((\E j \in 1 .. i : s[j] \in R) => Len(q) < i)
      <4>1. Len(p) <= i - 1 /\ ((\E j \in 1 .. i - 1 : s[j] \in R) => Len(p) < i - 1)
        BY <1>3
      <4>2. (\E j \in 1 .. i : s[j] \in R) => (\E j \in 1 .. i - 1 : s[j] \in R)
        BY <2>4
      <4> HIDE DEF p, q
      <4> QED
        BY <3>2, <4>1, <4>2
    <3> QED
      BY <3>2, <3>4, <3>5, <3>6, <3>7
  <2> QED
    BY <2>3, <2>4
<1>4. Bad = {}
  <2> SUFFICES ASSUME Bad # {} PROVE FALSE
    OBVIOUS
  <2>1. Bad \in SUBSET Nat
    OBVIOUS
  <2>2. PICK n \in Bad : \A m \in Bad : n <= m
    BY <2>1, Least
  <2>3. n # 0
    BY <1>2, <2>2
  <2>4. n - 1 \in 0 .. Len(s) /\ n - 1 \notin Bad
    <3>1. n \in 0 .. Len(s)
      OBVIOUS
    <3> HIDE DEF Bad
    <3>2. n - 1 \in 0 .. Len(s) /\ ~ (n <= n - 1)
      BY <3>1, <2>3, <1>0
    <3> QED
      BY <3>2, <2>2
  <2>5. Good(n - 1) /\ n \in 1 .. Len(s)
    BY <2>4, <2>3, <2>2
  <2>6. Good(n)
    BY <2>5, <1>3
  <2> QED
    BY <2>6, <2>2
<1>5. Good(Len(s))
  <2>1. Len(s) \in 0 .. Len(s)
    BY <1>0
  <2> HIDE DEF Good
  <2> QED
    BY <1>4, <2>1
<1>6. ToSet(Without(s, R)) = ToSet(s) \ R
  <2>1. \A x : x \in ToSet(Without(s, R)) <=> x \notin R /\ \E j \in 1 .. Len(s) : s[j] = x
    BY <1>5, <1>1
  <2>2. \A x : x \in ToSet(s) <=> \E j \in 1 .. Len(s) : s[j] = x
    BY <1>0 DEF ToSet
  <2> QED
    BY <2>1, <2>2
<1>7. SubSeq(s, 1, Len(s)) = s
  OBVIOUS
<1>8. ToSet(s) \cap R # {} => \E j \in 1 .. Len(s) : s[j] \in R
  BY <1>0 DEF ToSet
<1> QED
  BY <1>1, <1>5, <1>6, <1>7, <1>8

(* What Weight computes on the way: g[i] is the weight of the first i. *)
Adds(g, n, w, s) == g = [i \in 0 .. n |-> IF i = 0 THEN 0 ELSE g[i - 1] + w[s[i]]]

(* The recursion of Weight defines a function. *)
LEMMA AddsExists ==
  ASSUME NEW T, NEW s \in Seq(T), NEW w
  PROVE  \E g : Adds(g, Len(s), w, s)
<1> DEFINE Bad == {n \in 0 .. Len(s) : ~ \E g : Adds(g, n, w, s)}
<1>0. Len(s) \in Nat
  OBVIOUS
<1>1. SUFFICES ASSUME Bad # {} PROVE FALSE
  <2>1. Len(s) \in 0 .. Len(s)
    BY <1>0
  <2> QED
    BY <2>1
<1>2. PICK n \in Bad : \A m \in Bad : n <= m
  <2>1. Bad \in SUBSET Nat
    OBVIOUS
  <2> QED
    BY <1>1, <2>1, Least
<1>3. n # 0
  <2> DEFINE g == [i \in 0 .. 0 |-> 0]
  <2>1. Adds(g, 0, w, s)
    BY DEF Adds
  <2> QED
    BY <2>1, <1>2
<1>4. PICK g : Adds(g, n - 1, w, s)
  BY <1>2, <1>3
<1> DEFINE h == [i \in 0 .. n |-> IF i = n THEN g[n - 1] + w[s[n]] ELSE g[i]]
<1>5. Adds(h, n, w, s)
  <2>1. \A i \in 0 .. n - 1 : h[i] = g[i]
    BY <1>2
  <2>2. \A i \in 0 .. n : h[i] = IF i = 0 THEN 0 ELSE h[i - 1] + w[s[i]]
    <3> SUFFICES ASSUME NEW i \in 0 .. n
                 PROVE  h[i] = IF i = 0 THEN 0 ELSE h[i - 1] + w[s[i]]
      OBVIOUS
    <3>0. i = 0 \/ h[i - 1] = g[i - 1]
      BY <1>2, <2>1
    <3>1. CASE i = n
      BY <3>1, <3>0, <1>3
    <3>2. CASE i # n
      <4>1. i \in 0 .. n - 1
        BY <3>2, <1>2
      <4>2. g[i] = IF i = 0 THEN 0 ELSE g[i - 1] + w[s[i]]
        BY <4>1, <1>4 DEF Adds
      <4> HIDE DEF h
      <4> QED
        BY <4>1, <4>2, <3>0, <2>1
    <3> QED
      BY <3>1, <3>2
  <2> QED
    BY <2>2 DEF Adds
<1> QED
  BY <1>2, <1>5

(* Weight is the last value of that function. *)
LEMMA WeightIs ==
  ASSUME NEW T, NEW s \in Seq(T), NEW w
  PROVE  \E g : Adds(g, Len(s), w, s) /\ Weight(w, s) = g[Len(s)]
<1> DEFINE g == CHOOSE g : Adds(g, Len(s), w, s)
<1>1. Adds(g, Len(s), w, s)
  BY AddsExists
<1>2. Weight(w, s) = g[Len(s)]
  BY DEF Weight, Adds
<1> QED
  BY <1>1, <1>2

(* The partial sums of a queue are those of any queue it begins. *)
LEMMA WeightPrefix ==
  ASSUME NEW T, NEW s \in Seq(T), NEW t \in Seq(T), NEW w \in [T -> Nat], NEW g, NEW h,
         Len(s) <= Len(t), \A i \in 1 .. Len(s) : t[i] = s[i],
         Adds(g, Len(s), w, s), Adds(h, Len(t), w, t)
  PROVE  \A i \in 0 .. Len(s) : h[i] = g[i] /\ g[i] \in Nat
<1> DEFINE Bad == {i \in 0 .. Len(s) : ~(h[i] = g[i] /\ g[i] \in Nat)}
<1>1. SUFFICES ASSUME Bad # {} PROVE FALSE
  OBVIOUS
<1>2. PICK n \in Bad : \A m \in Bad : n <= m
  <2>1. Bad \in SUBSET Nat
    OBVIOUS
  <2> QED
    BY <1>1, <2>1, Least
<1>3. /\ n \in 0 .. Len(s) /\ n \in 0 .. Len(t) /\ Len(s) \in Nat /\ Len(t) \in Nat
      /\ g[n] = IF n = 0 THEN 0 ELSE g[n - 1] + w[s[n]]
      /\ h[n] = IF n = 0 THEN 0 ELSE h[n - 1] + w[t[n]]
  <2>1. n \in 0 .. Len(s) /\ n \in 0 .. Len(t) /\ Len(s) \in Nat /\ Len(t) \in Nat
    OBVIOUS
  <2> HIDE DEF Bad
  <2> QED
    BY <2>1 DEF Adds
<1>4. n # 0
  BY <1>2, <1>3
<1>5. h[n - 1] = g[n - 1] /\ g[n - 1] \in Nat
  <2>1. n - 1 \in 0 .. Len(s) /\ ~(n <= n - 1)
    BY <1>3, <1>4
  <2> QED
    BY <1>2, <2>1
<1>6. s[n] \in T /\ t[n] = s[n] /\ w[s[n]] \in Nat
  BY <1>3, <1>4
<1> QED
  BY <1>2, <1>3, <1>4, <1>5, <1>6

(* A member that joins adds its own weight. *)
LEMMA WeightJoin ==
  ASSUME NEW T, NEW s \in Seq(T), NEW e \in T, NEW w \in [T -> Nat]
  PROVE  /\ Weight(w, s) \in Nat
         /\ Weight(w, Append(s, e)) = Weight(w, s) + w[e]
<1> DEFINE t == Append(s, e)
<1>1. /\ t \in Seq(T) /\ Len(t) = Len(s) + 1 /\ Len(s) \in Nat /\ t[Len(s) + 1] = e
      /\ \A i \in 1 .. Len(s) : t[i] = s[i]
  OBVIOUS
<1> HIDE DEF t
<1>2. PICK g : Adds(g, Len(s), w, s) /\ Weight(w, s) = g[Len(s)]
  BY WeightIs
<1>3. PICK h : Adds(h, Len(t), w, t) /\ Weight(w, t) = h[Len(t)]
  BY WeightIs, <1>1
<1>4. h[Len(s)] = g[Len(s)] /\ g[Len(s)] \in Nat
  <2>0. Len(s) <= Len(t)
    BY <1>1
  <2>1. \A i \in 0 .. Len(s) : h[i] = g[i] /\ g[i] \in Nat
    BY WeightPrefix, <1>1, <1>2, <1>3, <2>0, Zenon
  <2> QED
    BY <1>1, <2>1
<1>5. h[Len(s) + 1] = h[Len(s)] + w[e]
  BY <1>1, <1>3 DEF Adds
<1> QED
  BY <1>1, <1>2, <1>3, <1>4, <1>5 DEF t

(* Nothing weighs nothing. *)
LEMMA WeightNone == ASSUME NEW w PROVE Weight(w, <<>>) = 0
<1>1. <<>> \in Seq({})
  OBVIOUS
<1>2. PICK g : Adds(g, Len(<<>>), w, <<>>) /\ Weight(w, <<>>) = g[Len(<<>>)]
  BY <1>1, WeightIs
<1> QED
  BY <1>2 DEF Adds

(* A count added to either of two counts is added to their sum. *)
LEMMA SumGrows ==
  \A p, q, x \in Nat : p + (q + x) = (p + q) + x /\ (p + x) + q = (p + q) + x
  OBVIOUS

(* What is dropped from a queue and what is left weigh together what the   *)
(* queue did; where nobody stands twice, one member dropped weighs what w  *)
(* gives it: the byte count of a cache follows its map.                    *)
THEOREM WeightSplits ==
  ASSUME NEW T, NEW s \in Seq(T), NEW R, NEW w \in [T -> Nat]
  PROVE  /\ Weight(w, s) \in Nat
         /\ Weight(w, Without(s, R)) \in Nat /\ Weight(w, Only(s, R)) \in Nat
         /\ Weight(w, Without(s, R)) + Weight(w, Only(s, R)) = Weight(w, s)
<1> DEFINE Q == ToSet(s) \ R
<1>1. PICK g : Filter(g, Len(s), s, R) /\ Without(s, R) = g[Len(s)]
  BY WithoutIs
<1>2. PICK h : Filter(h, Len(s), s, Q) /\ Without(s, Q) = h[Len(s)]
  BY WithoutIs
<1>3. PICK a : Adds(a, Len(s), w, s) /\ Weight(w, s) = a[Len(s)]
  BY WeightIs
<1> HIDE DEF Q
<1>0. Len(s) \in Nat
  OBVIOUS
<1> DEFINE Good(i) == /\ g[i] \in Seq(T) /\ h[i] \in Seq(T) /\ a[i] \in Nat
                      /\ Weight(w, g[i]) \in Nat /\ Weight(w, h[i]) \in Nat
                      /\ Weight(w, g[i]) + Weight(w, h[i]) = a[i]
           Bad == {i \in 0 .. Len(s) : ~ Good(i)}
<1>4. Good(0)
  <2>1. g[0] = <<>> /\ h[0] = <<>> /\ a[0] = 0
    <3>1. 0 \in 0 .. Len(s)
      BY <1>0
    <3> QED
      BY <1>1, <1>2, <1>3, <3>1 DEF Filter, Adds
  <2> QED
    BY <2>1, WeightNone
<1>5. ASSUME NEW i \in 1 .. Len(s), Good(i - 1)
      PROVE  Good(i)
  <2>1. /\ g[i] = IF s[i] \in R THEN g[i - 1] ELSE Append(g[i - 1], s[i])
        /\ h[i] = IF s[i] \in Q THEN h[i - 1] ELSE Append(h[i - 1], s[i])
        /\ a[i] = a[i - 1] + w[s[i]]
    <3>1. i \in 0 .. Len(s) /\ i # 0
      BY <1>0
    <3> QED
      BY <1>1, <1>2, <1>3, <3>1 DEF Filter, Adds
  <2>2. s[i] \in T /\ s[i] \in ToSet(s) /\ w[s[i]] \in Nat /\ (s[i] \in Q <=> s[i] \notin R)
    BY DEF ToSet, Q
  <2>3. /\ Append(g[i - 1], s[i]) \in Seq(T)
        /\ Weight(w, Append(g[i - 1], s[i])) = Weight(w, g[i - 1]) + w[s[i]]
    <3>1. g[i - 1] \in Seq(T) /\ s[i] \in T
      BY <1>5, <2>2
    <3>2. Append(g[i - 1], s[i]) \in Seq(T)
      BY <3>1
    <3> QED
      BY <3>1, <3>2, WeightJoin, Zenon
  <2>4. /\ Append(h[i - 1], s[i]) \in Seq(T)
        /\ Weight(w, Append(h[i - 1], s[i])) = Weight(w, h[i - 1]) + w[s[i]]
    <3>1. h[i - 1] \in Seq(T) /\ s[i] \in T
      BY <1>5, <2>2
    <3>2. Append(h[i - 1], s[i]) \in Seq(T)
      BY <3>1
    <3> QED
      BY <3>1, <3>2, WeightJoin, Zenon
  <2>5. CASE s[i] \in R
    <3>1. g[i] = g[i - 1] /\ h[i] = Append(h[i - 1], s[i])
      BY <2>1, <2>2, <2>5
    <3>2. /\ g[i] \in Seq(T) /\ h[i] \in Seq(T) /\ a[i] = a[i - 1] + w[s[i]]
          /\ Weight(w, g[i]) = Weight(w, g[i - 1])
          /\ Weight(w, h[i]) = Weight(w, h[i - 1]) + w[s[i]]
      BY <3>1, <1>5, <2>1, <2>4
    <3>3. /\ a[i - 1] \in Nat /\ Weight(w, g[i - 1]) \in Nat /\ Weight(w, h[i - 1]) \in Nat
          /\ Weight(w, g[i - 1]) + Weight(w, h[i - 1]) = a[i - 1] /\ w[s[i]] \in Nat
      BY <1>5, <2>2
    <3>4. a[i] \in Nat /\ Weight(w, g[i]) \in Nat /\ Weight(w, h[i]) \in Nat
      <4>1. \A x, y \in Nat : x + y \in Nat
        OBVIOUS
      <4> QED
        BY <3>2, <3>3, <4>1, Zenon
    <3>5. Weight(w, g[i]) + Weight(w, h[i]) = a[i]
      <4>1. a[i] = (Weight(w, g[i - 1]) + Weight(w, h[i - 1])) + w[s[i]]
        BY <3>2, <3>3, Zenon
      <4>2. Weight(w, g[i]) + Weight(w, h[i])
              = Weight(w, g[i - 1]) + (Weight(w, h[i - 1]) + w[s[i]])
        BY <3>2, Zenon
      <4>3. Weight(w, g[i - 1]) + (Weight(w, h[i - 1]) + w[s[i]])
              = (Weight(w, g[i - 1]) + Weight(w, h[i - 1])) + w[s[i]]
        BY <3>3, SumGrows, Zenon
      <4> QED
        BY <4>1, <4>2, <4>3, Zenon
    <3> QED
      BY <3>2, <3>4, <3>5
  <2>6. CASE s[i] \notin R
    <3>1. h[i] = h[i - 1] /\ g[i] = Append(g[i - 1], s[i])
      BY <2>1, <2>2, <2>6
    <3>2. /\ h[i] \in Seq(T) /\ g[i] \in Seq(T) /\ a[i] = a[i - 1] + w[s[i]]
          /\ Weight(w, h[i]) = Weight(w, h[i - 1])
          /\ Weight(w, g[i]) = Weight(w, g[i - 1]) + w[s[i]]
      BY <3>1, <1>5, <2>1, <2>3
    <3>3. /\ a[i - 1] \in Nat /\ Weight(w, g[i - 1]) \in Nat /\ Weight(w, h[i - 1]) \in Nat
          /\ Weight(w, g[i - 1]) + Weight(w, h[i - 1]) = a[i - 1] /\ w[s[i]] \in Nat
      BY <1>5, <2>2
    <3>4. a[i] \in Nat /\ Weight(w, g[i]) \in Nat /\ Weight(w, h[i]) \in Nat
      <4>1. \A x, y \in Nat : x + y \in Nat
        OBVIOUS
      <4> QED
        BY <3>2, <3>3, <4>1, Zenon
    <3>5. Weight(w, g[i]) + Weight(w, h[i]) = a[i]
      <4>1. a[i] = (Weight(w, g[i - 1]) + Weight(w, h[i - 1])) + w[s[i]]
        BY <3>2, <3>3, Zenon
      <4>2. Weight(w, g[i]) + Weight(w, h[i])
              = (Weight(w, g[i - 1]) + w[s[i]]) + Weight(w, h[i - 1])
        BY <3>2, Zenon
      <4>3. (Weight(w, g[i - 1]) + w[s[i]]) + Weight(w, h[i - 1])
              = (Weight(w, g[i - 1]) + Weight(w, h[i - 1])) + w[s[i]]
        BY <3>3, SumGrows, Zenon
      <4> QED
        BY <4>1, <4>2, <4>3, Zenon
    <3> QED
      BY <3>2, <3>4, <3>5
  <2> QED
    BY <2>5, <2>6
<1>6. Bad = {}
  <2> SUFFICES ASSUME Bad # {} PROVE FALSE
    OBVIOUS
  <2>1. Bad \in SUBSET Nat
    OBVIOUS
  <2>2. PICK n \in Bad : \A m \in Bad : n <= m
    BY <2>1, Least
  <2>3. n # 0
    BY <1>4, <2>2
  <2>4. n - 1 \in 0 .. Len(s) /\ n - 1 \notin Bad
    <3>1. n \in 0 .. Len(s)
      OBVIOUS
    <3> HIDE DEF Bad
    <3>2. n - 1 \in 0 .. Len(s) /\ ~ (n <= n - 1)
      BY <3>1, <2>3, <1>0
    <3> QED
      BY <3>2, <2>2
  <2>5. Good(n - 1) /\ n \in 1 .. Len(s)
    BY <2>4, <2>3, <2>2
  <2>6. Good(n)
    BY <2>5, <1>5
  <2> QED
    BY <2>6, <2>2
<1>7. Good(Len(s))
  <2>1. Len(s) \in 0 .. Len(s)
    BY <1>0
  <2> HIDE DEF Good
  <2> QED
    BY <1>6, <2>1
<1> QED
  BY <1>1, <1>2, <1>3, <1>7 DEF Only, Q

(* One member of a queue in which nobody stands twice, alone. *)
LEMMA OnlyOne ==
  ASSUME NEW T, NEW s \in Seq(T), NEW e \in T, NEW w \in [T -> Nat], IsInjective(s)
  PROVE  e \in ToSet(s) => Weight(w, Only(s, {e})) = w[e]
<1> SUFFICES ASSUME e \in ToSet(s) PROVE Weight(w, Only(s, {e})) = w[e]
  OBVIOUS
<1> DEFINE q == Only(s, {e})
<1>1. q \in Seq(T) /\ ToSet(q) = {e} /\ IsInjective(q)
  BY WithoutProperties DEF Only
<1> HIDE DEF q
<1>2. Len(q) \in Nat /\ DOMAIN q = 1 .. Len(q) /\ \A i \in 1 .. Len(q) : q[i] = e
  <2>1. Len(q) \in Nat /\ DOMAIN q = 1 .. Len(q)
    BY <1>1
  <2>2. ASSUME NEW i \in 1 .. Len(q) PROVE q[i] = e
    <3>1. q[i] \in ToSet(q)
      BY <2>1 DEF ToSet
    <3> QED
      BY <1>1, <3>1
  <2> QED
    BY <2>1, <2>2
<1>3. Len(q) = 1
  <2>1. Len(q) # 0
    <3>1. \E i \in DOMAIN q : e = q[i]
      <4>1. e \in ToSet(q)
        BY <1>1
      <4> QED
        BY <4>1 DEF ToSet
    <3> QED
      BY <1>2, <3>1
  <2>2. ~(Len(q) > 1)
    <3> SUFFICES ASSUME Len(q) > 1 PROVE FALSE
      OBVIOUS
    <3>1. 1 \in DOMAIN q /\ 2 \in DOMAIN q /\ q[1] = q[2]
      BY <1>2
    <3> QED
      BY <1>1, <3>1 DEF IsInjective
  <2> QED
    BY <1>2, <2>1, <2>2
<1>4. q = Append(<<>>, e)
  BY <1>1, <1>2, <1>3
<1>5. <<>> \in Seq(T)
  OBVIOUS
<1>6. Weight(w, q) = Weight(w, <<>>) + w[e]
  BY <1>4, <1>5, WeightJoin
<1> QED
  BY <1>6, WeightNone DEF q
=============================================================================
