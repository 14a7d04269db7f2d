--------------------------- MODULE FunctionProofs ---------------------------
(***************************************************************************)
(* The reference definitions of the functions hold for all times, delays   *)
(* and microsteps, and for banks and multiports of any width, wherever the *)
(* ports lie in memory.                                                    *)
(***************************************************************************)
EXTENDS MCFunctions, TagProofs, FiniteSetTheorems, WellFoundedInduction

-----------------------------------------------------------------------------
(* Tags *)

TagsInv == a \in Tag /\ b \in Tag /\ offset \in Nat

LEMMA Sizes ==
  MaxTime \in Nat /\ MaxOffset \in Nat /\ MaxBank \in Nat \ {0} /\ MaxWidth \in Nat \ {0}
BY SizesAssumption

LEMMA InitTags == ASSUME Init PROVE TagsInv
<1>1. TagInputs \subseteq Tag /\ TagAt(0, 0) \in Tag /\ 0..MaxOffset \subseteq Nat
  BY Sizes, MaxMicrostepAssumption DEF TagInputs, Times, Tag, Microstep, TagAt
<1>. QED
  BY <1>1 DEF Init, TagsInv

LEMMA TagsHold == Spec => []TagsInv
<1>1. TagsInv /\ [Next]_vars => TagsInv'
  BY DEF TagsInv, Next, vars
<1>. QED
  BY InitTags, <1>1, PTL DEF Spec

LEMMA CandidatesAreTags == Candidates \subseteq Tag
BY Sizes DEF Candidates, Tag

(* Tag::delay returns the first tag an event may have, for all tags and    *)
(* delays: the next microstep, or the first tag of the delayed time point  *)
(* (logical_time.cc:31-37).                                                *)
THEOREM DelayReturnsTheFirst == Spec => []DelayIsFirst
<1>1. ASSUME TagsInv, ~Overflows(a, offset), NEW c \in Candidates, a \prec c, c.time >= a.time + offset
      PROVE  delay(a, offset) \preceq c
  <2>1. c \in Tag /\ a \in Tag /\ offset \in Nat
    BY <1>1, CandidatesAreTags DEF TagsInv
  <2>2. CASE offset = 0
    BY <2>1, <2>2, <1>1, DelayIsNext
  <2>3. CASE offset # 0
    BY <2>1, <2>3, <1>1 DEF delay, TagAt, \preceq, \prec, Less, Tag, Microstep
  <2>. QED
    BY <2>2, <2>3
<1>2. TagsInv => DelayIsFirst
  BY <1>1, DelayIsLater DEF DelayIsFirst, TagsInv
<1>. QED
  BY TagsHold, <1>2, PTL

(* Tag::subtract returns the latest tag that can cause an event at or      *)
(* before the given tag over a delayed connection (logical_time.cc:47-52). *)
THEOREM SubtractReturnsTheLatest == Spec => []SubtractIsLatest
<1>1. TagsInv => SubtractIsLatest
  BY CandidatesAreTags, SubtractIsAdjoint DEF SubtractIsLatest, TagsInv
<1>. QED
  BY TagsHold, <1>1, PTL

(* Tag::decrement returns the last tag before the given one                *)
(* (logical_time.cc:54-59).                                                *)
THEOREM DecrementReturnsTheLast == Spec => []DecrementIsLast
<1>1. TagsInv => DecrementIsLast
  BY DecrementIsPredecessor DEF DecrementIsLast, TagsInv
<1>. QED
  BY TagsHold, <1>1, PTL

-----------------------------------------------------------------------------
(* Sequences of ports *)

Ports == [side : {"left", "right"}, place : Nat \X Nat, address : Nat]

(* Induction up to n, by the smallest number that is left out.             *)
LEMMA UpTo ==
  ASSUME NEW n \in Nat, NEW S, 1 \in S, \A k \in 1..n - 1 : k \in S => k + 1 \in S
  PROVE  \A k \in 1..n : k \in S
<1>. DEFINE T == {k \in 1..n : k \notin S}
<1>. SUFFICES ASSUME T # {} PROVE FALSE
  OBVIOUS
<1>1. T \subseteq Nat
  OBVIOUS
<1>. HIDE DEF T
<1>2. PICK x \in T : \A y \in T : <<y, x>> \notin OpToRel(<, Nat)
  BY <1>1, NatLessThanWellFounded, WFMin
<1>3. \A y \in T : ~(y < x)
  BY <1>1, <1>2 DEF OpToRel
<1>4. x \in 1..n /\ x \notin S
  BY DEF T
<1>5. x - 1 \in 1..n - 1 /\ x - 1 < x
  BY <1>4
<1>6. x - 1 \in S
  BY <1>3, <1>5 DEF T
<1>7. x - 1 + 1 = x
  BY <1>4
<1>. QED
  BY <1>4, <1>5, <1>6, <1>7

(* What a bank of reactors flattens to: the ports of the first i reactors. *)
Flattenings(s, m) ==
  {f \in [1..m -> Seq(Ports)] : f[1] = s[1] /\ \A i \in 2..m : f[i] = f[i - 1] \o s[i]}

LEMMA ConcatAt ==
  ASSUME NEW q \in Seq(Ports), NEW t \in Seq(Ports), NEW k \in 1..Len(q \o t)
  PROVE  \/ k \in 1..Len(q) /\ (q \o t)[k] = q[k]
         \/ k - Len(q) \in 1..Len(t) /\ (q \o t)[k] = t[k - Len(q)]
<1>1. Len(q) \in Nat /\ Len(t) \in Nat /\ Len(q \o t) = Len(q) + Len(t)
  OBVIOUS
<1>2. CASE k <= Len(q)
  <2>1. k \in 1..Len(q)
    BY <1>1, <1>2
  <2>. QED
    BY <2>1
<1>3. CASE ~(k <= Len(q))
  <2>1. k - Len(q) \in 1..Len(t) /\ ~(k \in 1..Len(q))
    BY <1>1, <1>3
  <2>2. (q \o t)[k] = t[k - Len(q)]
    BY <1>1, <1>3
  <2>. QED
    BY <2>1, <2>2
<1>. QED
  BY <1>2, <1>3

LEMMA FlatteningStep ==
  ASSUME NEW s, NEW n \in Nat, NEW f \in Flattenings(s, n), NEW k \in 1..n - 1
  PROVE  f[k + 1] = f[k] \o s[k + 1]
<1>. DEFINE j == k + 1
<1>1. j \in 2..n /\ j - 1 = k
  OBVIOUS
<1>. HIDE DEF j
<1>2. f[j] = f[k] \o s[j]
  BY <1>1 DEF Flattenings
<1>. QED
  BY <1>2 DEF j

LEMMA FlatteningsExist ==
  ASSUME NEW s \in Seq(Seq(Ports)), Len(s) >= 1
  PROVE  Flattenings(s, Len(s)) # {}
<1>. DEFINE S == {m \in 1..Len(s) : Flattenings(s, m) # {}}
<1>1. 1 \in S
  <2>1. s[1] \in Seq(Ports)
    OBVIOUS
  <2>2. [i \in 1..1 |-> s[1]] \in Flattenings(s, 1)
    BY <2>1 DEF Flattenings
  <2>. QED
    BY <2>2
<1>2. ASSUME NEW m \in 1..Len(s) - 1, m \in S PROVE m + 1 \in S
  <2>1. PICK f \in [1..m -> Seq(Ports)] : f[1] = s[1] /\ \A i \in 2..m : f[i] = f[i - 1] \o s[i]
    BY <1>2 DEF Flattenings
  <2>. DEFINE g == [i \in 1..m + 1 |-> IF i = m + 1 THEN f[m] \o s[m + 1] ELSE f[i]]
  <2>2. m \in 1..m /\ m + 1 \in 1..Len(s) /\ m + 1 # 1 /\ 1 \in 1..m + 1
    OBVIOUS
  <2>3. f[m] \o s[m + 1] \in Seq(Ports)
    <3>1. f[m] \in Seq(Ports) /\ s[m + 1] \in Seq(Ports)
      BY <2>1, <2>2
    <3>. QED
      BY <3>1
  <2>4. g \in [1..m + 1 -> Seq(Ports)]
    BY <2>1, <2>3
  <2>5. ASSUME NEW i \in 2..m + 1 PROVE g[i] = g[i - 1] \o s[i]
    <3>0. i \in 1..m + 1 /\ i - 1 \in 1..m + 1 /\ i - 1 # m + 1
      OBVIOUS
    <3>a. g[i - 1] = f[i - 1]
      BY <3>0
    <3>1. CASE i = m + 1
      <4>1. g[i] = f[m] \o s[m + 1] /\ i - 1 = m
        BY <3>0, <3>1
      <4>. QED
        BY <4>1, <3>1, <3>a
    <3>2. CASE i # m + 1
      <4>1. i \in 2..m
        BY <3>2
      <4>2. g[i] = f[i]
        BY <3>0, <3>2
      <4>. QED
        BY <4>1, <4>2, <2>1, <3>a
    <3>. QED
      BY <3>1, <3>2
  <2>6. g[1] = s[1]
    BY <2>1, <2>2
  <2>7. g \in Flattenings(s, m + 1)
    <3>. HIDE DEF g
    <3>. QED
      BY <2>4, <2>5, <2>6 DEF Flattenings
  <2>. QED
    BY <2>7, <2>2
<1>3. Len(s) \in Nat /\ Len(s) \in 1..Len(s)
  OBVIOUS
<1>. HIDE DEF S
<1>4. Len(s) \in S
  BY <1>1, <1>2, <1>3, UpTo
<1>. QED
  BY <1>4 DEF S

LEMMA FlattenIs ==
  ASSUME NEW s \in Seq(Seq(Ports)), Len(s) >= 1
  PROVE  \E f \in Flattenings(s, Len(s)) : FlattenSeq(s) = f[Len(s)]
<1>. DEFINE n == Len(s)
           R(h) == h = [i \in 1..n |-> IF i = 1 THEN s[i] ELSE h[i - 1] \o s[i]]
           flatten == CHOOSE h : R(h)
<1>0. n \in Nat /\ n >= 1
  OBVIOUS
<1>1. PICK f \in Flattenings(s, n) : TRUE
  BY FlatteningsExist
<1>2. f \in [1..n -> Seq(Ports)] /\ f[1] = s[1] /\ \A i \in 2..n : f[i] = f[i - 1] \o s[i]
  BY <1>1 DEF Flattenings
<1>3. \A i \in 1..n : i = 1 \/ i \in 2..n
  OBVIOUS
<1>4. \A i \in 1..n : f[i] = IF i = 1 THEN s[i] ELSE f[i - 1] \o s[i]
  BY <1>2, <1>3
<1>5. R(f)
  BY <1>2, <1>4
<1>6. R(flatten)
  BY <1>5
<1>7. FlattenSeq(s) = flatten[n]
  BY <1>0 DEF FlattenSeq
<1>. HIDE DEF flatten
<1>8. DOMAIN flatten = 1..n /\ \A i \in 1..n : flatten[i] = IF i = 1 THEN s[i] ELSE flatten[i - 1] \o s[i]
  BY <1>6
<1>9. \A k \in 1..n : k \in {i \in 1..n : flatten[i] = f[i]}
  <2>. DEFINE S == {i \in 1..n : flatten[i] = f[i]}
  <2>1. 1 \in S
    <3>1. 1 \in 1..n
      BY <1>0
    <3>2. flatten[1] = s[1]
      BY <3>1, <1>8
    <3>. QED
      BY <3>1, <3>2, <1>2
  <2>2. ASSUME NEW k \in 1..n - 1, k \in S PROVE k + 1 \in S
    <3>1. k + 1 \in 1..n /\ k + 1 # 1 /\ k + 1 - 1 = k
      OBVIOUS
    <3>2. flatten[k + 1] = flatten[k] \o s[k + 1]
      <4>. DEFINE j == k + 1
      <4>1. j \in 1..n /\ j # 1 /\ j - 1 = k
        BY <3>1
      <4>. HIDE DEF j
      <4>2. flatten[j] = flatten[k] \o s[j]
        BY <4>1, <1>8
      <4>. QED
        BY <4>2 DEF j
    <3>3. f[k + 1] = f[k] \o s[k + 1]
      BY <1>0, <1>1, FlatteningStep
    <3>4. k \in 1..n /\ flatten[k] = f[k]
      BY <2>2
    <3>. QED
      BY <3>1, <3>2, <3>3, <3>4
  <2>. HIDE DEF S
  <2>3. \A k \in 1..n : k \in S
    BY <2>1, <2>2, <1>0, UpTo
  <2>. QED
    BY <2>3 DEF S
<1>. QED
  BY <1>0, <1>1, <1>7, <1>9

(* The ports of a side lie at different places, those of one reactor in    *)
(* ascending order.                                                        *)
IsDistinct(q) ==
  /\ q \in Seq(Ports)
  /\ Len(q) >= 1
  /\ \A k, m \in 1..Len(q) : q[k].address = q[m].address => k = m

IsAscending(q) == \A k, m \in 1..Len(q) : k < m => q[k].address < q[m].address

IsBank(s) ==
  /\ s \in Seq(Seq(Ports))
  /\ Len(s) >= 1
  /\ \A r \in 1..Len(s) : Len(s[r]) >= 1 /\ IsAscending(s[r])
  /\ \A r, t \in 1..Len(s) : \A i \in 1..Len(s[r]), j \in 1..Len(s[t]) :
       s[r][i].address = s[t][j].address => r = t

LEMMA AscendingIsDistinct ==
  ASSUME NEW q \in Seq(Ports), Len(q) >= 1, IsAscending(q)
  PROVE  IsDistinct(q)
<1>1. ASSUME NEW k \in 1..Len(q), NEW m \in 1..Len(q), q[k].address = q[m].address, k # m
      PROVE  FALSE
  <2>1. k < m \/ m < k
    BY <1>1
  <2>2. q[k] \in Ports /\ q[m] \in Ports
    OBVIOUS
  <2>3. q[k].address \in Nat /\ q[m].address \in Nat
    BY <2>2 DEF Ports
  <2>. QED
    BY <1>1, <2>1, <2>3 DEF IsAscending
<1>. QED
  BY <1>1 DEF IsDistinct

LEMMA FlattenRow ==
  ASSUME NEW s \in Seq(Seq(Ports)), Len(s) = 1
  PROVE  FlattenSeq(s) = s[1]
<1>1. Len(s) >= 1
  OBVIOUS
<1>2. PICK f \in Flattenings(s, Len(s)) : FlattenSeq(s) = f[Len(s)]
  BY <1>1, FlattenIs
<1>. QED
  BY <1>2 DEF Flattenings

LEMMA FlattenColumn ==
  ASSUME NEW s \in Seq(Seq(Ports)), Len(s) >= 1, \A r \in 1..Len(s) : Len(s[r]) = 1
  PROVE  FlattenSeq(s) = [r \in 1..Len(s) |-> s[r][1]]
<1>. DEFINE n == Len(s)
           Column(i) == [r \in 1..i |-> s[r][1]]
           S(f) == {i \in 1..n : f[i] = Column(i)}
<1>0. n \in Nat /\ n >= 1 /\ \A r \in 1..n : s[r] \in Seq(Ports) /\ s[r][1] \in Ports
  OBVIOUS
<1>1. PICK f \in Flattenings(s, n) : FlattenSeq(s) = f[n]
  BY FlattenIs
<1>2. f \in [1..n -> Seq(Ports)] /\ f[1] = s[1] /\ \A i \in 2..n : f[i] = f[i - 1] \o s[i]
  BY <1>1 DEF Flattenings
<1>3. \A r \in 1..n : s[r] = <<s[r][1]>>
  BY <1>0
<1>. HIDE DEF n
<1>4. 1 \in S(f)
  <2>1. 1 \in 1..n /\ Column(1) = <<s[1][1]>>
    BY <1>0
  <2>. QED
    BY <2>1, <1>2, <1>3
<1>5. ASSUME NEW k \in 1..n - 1, k \in S(f) PROVE k + 1 \in S(f)
  <2>1. k + 1 \in 1..n /\ k + 1 \in 2..n /\ k + 1 - 1 = k
    BY <1>0
  <2>2. f[k + 1] = f[k] \o s[k + 1]
    BY <1>0, <1>1, FlatteningStep
  <2>3. f[k] = Column(k) /\ s[k + 1] = <<s[k + 1][1]>>
    BY <1>5, <1>3, <2>1
  <2>4. Column(k) \in Seq(Ports) /\ Len(Column(k)) = k
    BY <1>0
  <2>5. Column(k) \o <<s[k + 1][1]>> = Column(k + 1)
    <3>. DEFINE p == s[k + 1][1]
                c == Column(k) \o <<p>>
                d == Column(k + 1)
    <3>1. p \in Ports /\ k \in Nat
      BY <1>0, <2>1
    <3>2. c \in Seq(Ports) /\ Len(c) = k + 1 /\ c[k + 1] = p /\ \A j \in 1..k : c[j] = Column(k)[j]
      <4>. HIDE DEF Column, p
      <4>. QED
        BY <3>1, <2>4
    <3>3. d \in Seq(Ports) /\ Len(d) = k + 1 /\ d[k + 1] = p /\ \A j \in 1..k : d[j] = Column(k)[j]
      <4>1. \A r \in 1..k + 1 : s[r][1] \in Ports
        BY <1>0, <2>1
      <4>. QED
        BY <4>1, <3>1
    <3>4. \A j \in 1..k + 1 : j = k + 1 \/ j \in 1..k
      BY <3>1
    <3>. HIDE DEF c, d, p, Column
    <3>5. \A j \in 1..k + 1 : c[j] = d[j]
      BY <3>2, <3>3, <3>4
    <3>6. c = d
      BY <3>2, <3>3, <3>5
    <3>. QED
      BY <3>6 DEF c, d, p
  <2>. QED
    BY <2>1, <2>2, <2>3, <2>5
<1>. HIDE DEF S
<1>6. \A k \in 1..n : k \in S(f)
  BY <1>0, <1>4, <1>5, UpTo
<1>7. n \in S(f)
  BY <1>0, <1>6
<1>. QED
  BY <1>1, <1>7 DEF S, n

LEMMA FlattenDistinct ==
  ASSUME NEW s, IsBank(s)
  PROVE  IsDistinct(FlattenSeq(s))
<1>. DEFINE n == Len(s)
           Among(q, i) ==
             \A k \in 1..Len(q) : \E r \in 1..i : \E c \in 1..Len(s[r]) : q[k] = s[r][c]
           S(f) == {i \in 1..n : IsDistinct(f[i]) /\ Among(f[i], i)}
<1>0. s \in Seq(Seq(Ports)) /\ n \in Nat /\ n >= 1
  BY DEF IsBank
<1>1. PICK f \in Flattenings(s, n) : FlattenSeq(s) = f[n]
  BY <1>0, FlattenIs
<1>2. f[1] = s[1]
  BY <1>1 DEF Flattenings
<1>3. ASSUME NEW r \in 1..n PROVE s[r] \in Seq(Ports) /\ IsDistinct(s[r])
  <2>1. s[r] \in Seq(Ports)
    BY <1>0
  <2>2. Len(s[r]) >= 1 /\ IsAscending(s[r])
    BY DEF IsBank
  <2>. QED
    BY <2>1, <2>2, AscendingIsDistinct
<1>. HIDE DEF n
<1>4. 1 \in S(f)
  <2>1. 1 \in 1..n /\ 1 \in 1..1
    BY <1>0
  <2>2. \A k \in 1..Len(s[1]) : s[1][k] = s[1][k]
    OBVIOUS
  <2>3. Among(s[1], 1)
    BY <2>1, <2>2
  <2>. QED
    BY <2>1, <2>3, <1>2, <1>3
<1>5. ASSUME NEW i \in 1..n - 1, i \in S(f) PROVE i + 1 \in S(f)
  <2>. DEFINE q == f[i]
              t == s[i + 1]
              u == q \o t
  <2>1. i + 1 \in 1..n /\ i \in Nat /\ ~(i + 1 \in 1..i)
    BY <1>0
  <2>2. f[i + 1] = u
    BY <1>0, <1>1, FlatteningStep
  <2>3. IsDistinct(q) /\ Among(q, i) /\ IsDistinct(t)
    BY <1>5, <1>3, <2>1
  <2>4. q \in Seq(Ports) /\ t \in Seq(Ports) /\ Len(q) \in Nat /\ Len(t) \in Nat /\ Len(q) >= 1
    BY <2>3 DEF IsDistinct
  <2>. HIDE DEF q
  <2>5. u \in Seq(Ports) /\ Len(u) = Len(q) + Len(t)
    <3>. HIDE DEF t
    <3>. QED
      BY <2>4
  <2>6. \A k \in 1..Len(u) :
          \/ k \in 1..Len(q) /\ u[k] = q[k]
          \/ k - Len(q) \in 1..Len(t) /\ u[k] = t[k - Len(q)]
    <3>. HIDE DEF t
    <3>1. t \in Seq(Ports)
      BY <2>4
    <3>2. TAKE k \in 1..Len(u)
    <3>. QED
      BY <2>4, <3>1, ConcatAt
  <2>7. ASSUME NEW k \in 1..Len(q), NEW m \in 1..Len(t), q[k].address = t[m].address
        PROVE  FALSE
    <3>1. PICK r \in 1..i : \E c \in 1..Len(s[r]) : q[k] = s[r][c]
      BY <2>3
    <3>2. r \in 1..n /\ r # i + 1
      BY <2>1, <1>0
    <3>3. r = i + 1
      BY <3>1, <3>2, <2>1, <2>7 DEF IsBank, n
    <3>. QED
      BY <3>2, <3>3
  <2>8. IsDistinct(u)
    <3>. SUFFICES ASSUME NEW k \in 1..Len(u), NEW m \in 1..Len(u), u[k].address = u[m].address
                  PROVE  k = m
      BY <2>4, <2>5 DEF IsDistinct
    <3>1. k \in Nat /\ m \in Nat
      BY <2>5
    <3>. HIDE DEF u, t
    <3>2. CASE k \in 1..Len(q) /\ u[k] = q[k] /\ m \in 1..Len(q) /\ u[m] = q[m]
      BY <3>2, <2>3 DEF IsDistinct
    <3>3. CASE k - Len(q) \in 1..Len(t) /\ u[k] = t[k - Len(q)]
               /\ m - Len(q) \in 1..Len(t) /\ u[m] = t[m - Len(q)]
      <4>1. k - Len(q) = m - Len(q)
        BY <3>3, <2>3 DEF IsDistinct
      <4>. QED
        BY <4>1, <3>1, <2>4
    <3>. QED
      BY <3>2, <3>3, <2>6, <2>7
  <2>9. Among(u, i + 1)
    <3>. SUFFICES ASSUME NEW k \in 1..Len(u)
                  PROVE  \E r \in 1..i + 1 : \E c \in 1..Len(s[r]) : u[k] = s[r][c]
      OBVIOUS
    <3>1. CASE k \in 1..Len(q) /\ u[k] = q[k]
      <4>1. PICK r \in 1..i : \E c \in 1..Len(s[r]) : q[k] = s[r][c]
        BY <3>1, <2>3
      <4>2. r \in 1..i + 1
        BY <2>1
      <4>. QED
        BY <4>1, <4>2, <3>1
    <3>2. CASE k - Len(q) \in 1..Len(t) /\ u[k] = t[k - Len(q)]
      <4>1. i + 1 \in 1..i + 1
        BY <2>1
      <4>. QED
        BY <4>1, <3>2
    <3>. QED
      BY <3>1, <3>2, <2>6
  <2>. HIDE DEF u, t, Among
  <2>. QED
    BY <2>1, <2>2, <2>8, <2>9
<1>. HIDE DEF S
<1>6. \A k \in 1..n : k \in S(f)
  BY <1>0, <1>4, <1>5, UpTo
<1>7. n \in S(f)
  BY <1>0, <1>6
<1>. QED
  BY <1>1, <1>7 DEF S

-----------------------------------------------------------------------------
(* The order of addresses: there is one ascending sequence of the ports.   *)

LEMMA Addresses ==
  ASSUME NEW q \in Seq(Ports)
  PROVE  \A k \in 1..Len(q) : q[k] \in Ports /\ q[k].address \in Nat
<1>1. \A k \in 1..Len(q) : q[k] \in Ports
  OBVIOUS
<1>. QED
  BY <1>1 DEF Ports

LEMMA PortsAreCounted ==
  ASSUME NEW q, IsDistinct(q)
  PROVE  IsFiniteSet(ToSet(q)) /\ Cardinality(ToSet(q)) = Len(q)
<1>1. q \in Seq(Ports) /\ Len(q) \in Nat /\ DOMAIN q = 1..Len(q)
  BY DEF IsDistinct
<1>2. q \in [1..Len(q) -> ToSet(q)]
  BY <1>1 DEF ToSet
<1>3. q \in Bijection(1..Len(q), ToSet(q))
  <2>1. \A k, m \in 1..Len(q) : q[k] = q[m] => k = m
    BY DEF IsDistinct
  <2>2. \A p \in ToSet(q) : \E k \in 1..Len(q) : q[k] = p
    BY <1>1 DEF ToSet
  <2>. QED
    BY <1>2, <2>1, <2>2 DEF Bijection, Injection, Surjection, IsInjective
<1>4. IsFiniteSet(1..Len(q)) /\ Cardinality(1..Len(q)) = Len(q)
  BY <1>1, FS_Interval
<1>5. ExistsBijection(1..Len(q), ToSet(q))
  BY <1>3 DEF ExistsBijection
<1>. QED
  BY <1>4, <1>5, FS_Bijection

IsOrdered(s, ports) ==
  /\ s \in [1..Cardinality(ports) -> ports]
  /\ \A i, j \in 1..Cardinality(ports) : i < j => s[i].address < s[j].address

LEMMA OrderedEnumerates ==
  ASSUME NEW q, IsDistinct(q), NEW s, IsOrdered(s, ToSet(q))
  PROVE  /\ s \in [1..Len(q) -> ToSet(q)]
         /\ \A i, j \in 1..Len(q) : s[i] = s[j] => i = j
         /\ \A p \in ToSet(q) : \E i \in 1..Len(q) : s[i] = p
<1>1. IsFiniteSet(ToSet(q)) /\ Cardinality(ToSet(q)) = Len(q) /\ Len(q) \in Nat
  BY PortsAreCounted DEF IsDistinct
<1>2. s \in [1..Len(q) -> ToSet(q)] /\ \A i, j \in 1..Len(q) : i < j => s[i].address < s[j].address
  BY <1>1 DEF IsOrdered
<1>3. \A p \in ToSet(q) : p.address \in Nat
  BY Addresses DEF IsDistinct, ToSet
<1>4. ASSUME NEW i \in 1..Len(q), NEW j \in 1..Len(q), s[i] = s[j] PROVE i = j
  <2>1. s[i].address \in Nat /\ s[j].address \in Nat
    BY <1>2, <1>3
  <2>2. ~(i < j) /\ ~(j < i)
    BY <1>2, <1>4, <2>1
  <2>. QED
    BY <2>2, <1>1
<1>5. s \in Injection(1..Len(q), ToSet(q))
  BY <1>2, <1>4 DEF Injection, IsInjective
<1>6. Cardinality(1..Len(q)) = Len(q)
  <2>1. Len(q) \in Nat
    BY <1>1
  <2>. QED
    BY <2>1, FS_Interval
<1>7. s \in Surjection(1..Len(q), ToSet(q))
  BY <1>1, <1>5, <1>6, FS_Injection
<1>. QED
  BY <1>2, <1>4, <1>7 DEF Surjection

LEMMA OrderIsUnique ==
  ASSUME NEW q, IsDistinct(q), IsAscending(q), NEW s, IsOrdered(s, ToSet(q))
  PROVE  s = q
<1>. DEFINE n == Len(q)
           T == {i \in 1..n : s[i] # q[i]}
<1>1. /\ s \in [1..n -> ToSet(q)]
      /\ \A i, j \in 1..n : s[i] = s[j] => i = j
      /\ \A p \in ToSet(q) : \E i \in 1..n : s[i] = p
  BY OrderedEnumerates
<1>2. q \in Seq(Ports) /\ n \in Nat /\ DOMAIN q = 1..n
  BY DEF IsDistinct
<1>3. \A i \in 1..n : q[i] \in ToSet(q) /\ q[i].address \in Nat
  BY <1>2, Addresses DEF ToSet
<1>4. \A i, j \in 1..n : i < j => s[i].address < s[j].address /\ q[i].address < q[j].address
  BY PortsAreCounted DEF IsAscending, IsOrdered
<1>. HIDE DEF n
<1>5. T = {}
  <2>. SUFFICES ASSUME T # {} PROVE FALSE
    OBVIOUS
  <2>1. T \subseteq Nat
    BY <1>2
  <2>. HIDE DEF T
  <2>2. PICK i \in T : \A y \in T : <<y, i>> \notin OpToRel(<, Nat)
    BY <2>1, NatLessThanWellFounded, WFMin
  <2>3. i \in 1..n /\ s[i] # q[i]
    BY DEF T
  <2>4. \A y \in 1..n : y < i => s[y] = q[y]
    BY <2>1, <2>2 DEF OpToRel, T
  <2>5. PICK j \in 1..n : s[j] = q[i]
    BY <1>1, <1>3, <2>3
  <2>6. PICK m \in 1..n : q[m] = s[i]
    BY <1>1, <1>2, <2>3 DEF ToSet
  <2>7. ~(j < i) /\ j # i
    <3>1. ASSUME j < i PROVE FALSE
      <4>1. q[j] = q[i]
        BY <2>4, <2>5, <3>1
      <4>. QED
        BY <4>1, <3>1, <2>3, <1>2 DEF IsDistinct, n
    <3>. QED
      BY <3>1, <2>3, <2>5
  <2>8. ~(m < i) /\ m # i
    <3>1. ASSUME m < i PROVE FALSE
      <4>1. s[m] = s[i]
        BY <2>4, <2>6, <3>1
      <4>. QED
        BY <4>1, <3>1, <2>3, <1>1, <1>2
    <3>. QED
      BY <3>1, <2>3, <2>6
  <2>9. i < j /\ i < m
    BY <2>3, <2>7, <2>8, <1>2
  <2>10. s[i].address < q[i].address /\ q[i].address < s[i].address
    BY <1>4, <2>3, <2>5, <2>6, <2>9
  <2>11. s[i].address \in Nat /\ q[i].address \in Nat
    BY <1>3, <2>3, <2>6
  <2>. QED
    BY <2>10, <2>11
<1>6. \A i \in 1..n : s[i] = q[i]
  BY <1>5
<1>. QED
  BY <1>1, <1>2, <1>6

(* Each port goes to the place that the number of lower addresses gives.   *)
LEMMA OrderExists ==
  ASSUME NEW q, IsDistinct(q)
  PROVE  \E s : IsOrdered(s, ToSet(q))
<1>. DEFINE n == Len(q)
           Lower(k) == {m \in 1..n : q[m].address < q[k].address}
           rank == [k \in 1..n |-> Cardinality(Lower(k)) + 1]
<1>1. q \in Seq(Ports) /\ n \in Nat /\ DOMAIN q = 1..n
  BY DEF IsDistinct
<1>2. \A k \in 1..n : q[k] \in ToSet(q) /\ q[k].address \in Nat
  BY <1>1, Addresses DEF ToSet
<1>3. IsFiniteSet(ToSet(q)) /\ Cardinality(ToSet(q)) = n
  BY PortsAreCounted
<1>. HIDE DEF n
<1>4. IsFiniteSet(1..n) /\ Cardinality(1..n) = n
  BY <1>1, FS_Interval
<1>5. ASSUME NEW k \in 1..n
      PROVE  IsFiniteSet(Lower(k)) /\ Cardinality(Lower(k)) \in Nat /\ Cardinality(Lower(k)) < n
  <2>1. Lower(k) \in SUBSET (1..n) /\ k \notin Lower(k)
    BY <1>2
  <2>. HIDE DEF Lower
  <2>2. /\ IsFiniteSet(Lower(k)) /\ Cardinality(Lower(k)) <= Cardinality(1..n)
        /\ Cardinality(Lower(k)) # Cardinality(1..n)
    BY <2>1, <1>4, FS_Subset
  <2>3. Cardinality(Lower(k)) \in Nat
    BY <2>2, FS_CardinalityType
  <2>. QED
    BY <2>2, <2>3, <1>4, <1>1
<1>6. ASSUME NEW k \in 1..n, NEW m \in 1..n, q[k].address < q[m].address
      PROVE  rank[k] < rank[m]
  <2>1. Lower(k) \in SUBSET Lower(m) /\ k \in Lower(m) /\ k \notin Lower(k)
    BY <1>2, <1>6
  <2>2. IsFiniteSet(Lower(m)) /\ Cardinality(Lower(m)) \in Nat /\ Cardinality(Lower(k)) \in Nat
    BY <1>5
  <2>. HIDE DEF Lower
  <2>3. Cardinality(Lower(k)) <= Cardinality(Lower(m)) /\ Cardinality(Lower(k)) # Cardinality(Lower(m))
    BY <2>1, <2>2, FS_Subset
  <2>. QED
    BY <2>2, <2>3
<1>7. rank \in [1..n -> 1..n]
  <2>1. ASSUME NEW k \in 1..n PROVE Cardinality(Lower(k)) + 1 \in 1..n
    <3>. HIDE DEF Lower
    <3>. QED
      BY <1>5, <1>1
  <2>. HIDE DEF Lower
  <2>. QED
    BY <2>1
<1>. HIDE DEF rank
<1>8. ASSUME NEW k \in 1..n, NEW m \in 1..n, rank[k] = rank[m] PROVE k = m
  <2>1. ~(q[k].address < q[m].address) /\ ~(q[m].address < q[k].address)
    BY <1>6, <1>7, <1>8
  <2>2. q[k].address = q[m].address
    BY <2>1, <1>2
  <2>. QED
    BY <2>2 DEF IsDistinct, n
<1>9. \A i \in 1..n : \E k \in 1..n : rank[k] = i
  <2>1. rank \in Injection(1..n, 1..n)
    BY <1>7, <1>8 DEF Injection, IsInjective
  <2>2. rank \in Surjection(1..n, 1..n)
    BY <2>1, <1>4, FS_Injection
  <2>. QED
    BY <2>2 DEF Surjection
<1>. DEFINE at(i) == CHOOSE k \in 1..n : rank[k] = i
           s == [i \in 1..n |-> q[at(i)]]
<1>10. \A i \in 1..n : at(i) \in 1..n /\ rank[at(i)] = i
  BY <1>9
<1>. HIDE DEF at
<1>11. s \in [1..n -> ToSet(q)]
  BY <1>10, <1>2
<1>12. ASSUME NEW i \in 1..n, NEW j \in 1..n, i < j PROVE s[i].address < s[j].address
  <2>1. at(i) \in 1..n /\ at(j) \in 1..n /\ rank[at(i)] < rank[at(j)]
    BY <1>10, <1>12
  <2>2. i # j
    BY <1>12
  <2>3. at(i) # at(j)
    BY <1>10, <2>2
  <2>4. q[at(i)].address # q[at(j)].address
    BY <2>1, <2>3 DEF IsDistinct, n
  <2>5. ~(q[at(j)].address < q[at(i)].address)
    <3>1. ASSUME q[at(j)].address < q[at(i)].address PROVE FALSE
      <4>1. rank[at(j)] < rank[at(i)]
        BY <3>1, <2>1, <1>6
      <4>2. rank[at(i)] \in 1..n /\ rank[at(j)] \in 1..n
        BY <2>1, <1>7
      <4>. QED
        BY <4>1, <4>2, <2>1
    <3>. QED
      BY <3>1
  <2>6. q[at(i)].address < q[at(j)].address
    BY <2>1, <2>4, <2>5, <1>2
  <2>. QED
    BY <2>6
<1>13. IsOrdered(s, ToSet(q))
  <2>. HIDE DEF s
  <2>. QED
    BY <1>3, <1>11, <1>12 DEF IsOrdered
<1>. QED
  BY <1>13

(* What the set of ports is gone through in.                               *)
LEMMA InOrderIs ==
  ASSUME NEW q, IsDistinct(q)
  PROVE  /\ IsOrdered(InAddressOrder(ToSet(q)), ToSet(q))
         /\ IsAscending(q) => InAddressOrder(ToSet(q)) = q
<1>1. IsOrdered(InAddressOrder(ToSet(q)), ToSet(q))
  <2>1. PICK t : IsOrdered(t, ToSet(q))
    BY OrderExists
  <2>2. \E s \in [1..Cardinality(ToSet(q)) -> ToSet(q)] :
          \A i, j \in 1..Cardinality(ToSet(q)) : i < j => s[i].address < s[j].address
    BY <2>1 DEF IsOrdered
  <2>. QED
    BY <2>2 DEF InAddressOrder, IsOrdered
<1>. QED
  BY <1>1, OrderIsUnique

LEMMA OneInOrder ==
  ASSUME NEW p \in Ports
  PROVE  InAddressOrder({p}) = <<p>>
<1>1. <<p>> \in Seq(Ports) /\ Len(<<p>>) = 1 /\ \A k \in 1..1 : k = 1
  OBVIOUS
<1>2. IsAscending(<<p>>) /\ IsDistinct(<<p>>)
  BY <1>1 DEF IsAscending, IsDistinct
<1>3. ToSet(<<p>>) = {p}
  BY <1>1 DEF ToSet
<1>. QED
  BY <1>2, <1>3, InOrderIs

-----------------------------------------------------------------------------
(* Statements *)

KindOK(kind, s) ==
  /\ IsBank(s)
  /\ kind \in Port \cup Multiport => Len(s) = 1
  /\ kind \in Port \cup BankOfPorts => \A r \in 1..Len(s) : Len(s[r]) = 1

StatementInv ==
  Wired =>
    /\ <<statement.from, statement.op, statement.to>> \in Overloads
    /\ statement.accumulated \in BOOLEAN
    /\ statement.accumulated => statement.from = "Output" /\ statement.to = "MultiportInput"
    /\ KindOK(statement.from, statement.left)
    /\ KindOK(statement.to, statement.right)

LEMMA Places ==
  ASSUME NEW N \in Nat \ {0}, NEW x \in Nat, NEW y \in Nat, NEW j \in 1..N, NEW m \in 1..N, x < y
  PROVE  x * (N + 1) + j < y * (N + 1) + m
<1>. DEFINE d == y - x - 1
           M == N + 1
<1>1. d \in Nat /\ y = x + 1 + d /\ M \in Nat /\ j < M /\ m > 0
  OBVIOUS
<1>. HIDE DEF d, M
<1>2. y * M = x * M + M + d * M
  BY <1>1
<1>3. d * M \in Nat /\ x * M \in Nat
  BY <1>1
<1>4. x * M + j < x * M + M + d * M + m
  BY <1>1, <1>3
<1>5. x * M + j < y * M + m
  BY <1>2, <1>4
<1>. QED
  BY <1>5 DEF M

LEMMA ShapesAre ==
  ASSUME NEW kind, NEW shape \in Shapes(kind)
  PROVE  \E n \in Nat \ {0} :
           /\ shape \in [1..n -> 1..MaxWidth]
           /\ kind \in Port \cup Multiport => n = 1
           /\ kind \in Port \cup BankOfPorts => \A i \in 1..n : shape[i] = 1
<1>1. 1 \in 1..MaxWidth /\ MaxBank \in Nat
  BY Sizes
<1>2. CASE kind \in Port
  <2>1. shape = <<1>>
    BY <1>2 DEF Shapes, Port, Multiport, BankOfPorts
  <2>2. shape \in [1..1 -> 1..MaxWidth] /\ \A i \in 1..1 : shape[i] = 1
    BY <2>1, <1>1
  <2>. QED
    BY <2>2
<1>3. CASE kind \in Multiport
  <2>1. PICK w \in 1..MaxWidth : shape = <<w>>
    BY <1>3 DEF Shapes, Port, Multiport, BankOfPorts
  <2>2. shape \in [1..1 -> 1..MaxWidth]
    BY <2>1
  <2>. QED
    BY <2>2, <1>3 DEF Port, Multiport, BankOfPorts
<1>4. CASE kind \in BankOfPorts
  <2>1. PICK n \in 1..MaxBank : shape \in [1..n -> {1}]
    BY <1>4 DEF Shapes, Port, Multiport, BankOfPorts
  <2>2. shape \in [1..n -> 1..MaxWidth] /\ \A i \in 1..n : shape[i] = 1
    BY <2>1, <1>1
  <2>3. n \in Nat \ {0}
    BY <1>1
  <2>. QED
    BY <2>2, <2>3, <1>4 DEF Port, Multiport, BankOfPorts
<1>5. CASE kind \notin Port /\ kind \notin Multiport /\ kind \notin BankOfPorts
  <2>1. PICK n \in 1..MaxBank : shape \in [1..n -> 1..MaxWidth]
    BY <1>5 DEF Shapes
  <2>2. n \in Nat \ {0}
    BY <1>1
  <2>. QED
    BY <2>1, <2>2, <1>5
<1>. QED
  BY <1>2, <1>3, <1>4, <1>5

(* The members of a bank, wherever its reactors lie.                       *)
LEMMA BanksAreBanks ==
  ASSUME NEW kind, NEW shape \in Shapes(kind), NEW order \in Orders(shape),
         NEW side \in {"left", "right"}
  PROVE  KindOK(kind, Members(Bank(side, shape, order), "member"))
<1>. DEFINE s == Members(Bank(side, shape, order), "member")
           at(i, j) == order[i] * (MaxWidth + 1) + j
<1>0. MaxWidth \in Nat \ {0}
  BY Sizes
<1>1. PICK n \in Nat \ {0} :
        /\ shape \in [1..n -> 1..MaxWidth]
        /\ kind \in Port \cup Multiport => n = 1
        /\ kind \in Port \cup BankOfPorts => \A i \in 1..n : shape[i] = 1
  BY ShapesAre
<1>2. order \in [1..n -> 1..n] /\ \A i, k \in 1..n : order[i] = order[k] => i = k
  BY <1>1 DEF Orders
<1>3. s = [i \in 1..n |-> [j \in 1..shape[i] |-> [side |-> side, place |-> <<i, j>>, address |-> at(i, j)]]]
  BY <1>1 DEF Members, Bank
<1>4. \A i \in 1..n : \A j \in 1..shape[i] : j \in 1..MaxWidth /\ at(i, j) \in Nat
  <2>1. ASSUME NEW i \in 1..n, NEW j \in 1..shape[i] PROVE j \in 1..MaxWidth /\ at(i, j) \in Nat
    <3>1. shape[i] \in 1..MaxWidth /\ order[i] \in Nat
      BY <1>1, <1>2
    <3>2. order[i] * (MaxWidth + 1) \in Nat
      BY <3>1, <1>0
    <3>3. j \in 1..MaxWidth
      BY <3>1, <1>0
    <3>. QED
      BY <3>2, <3>3, <1>0
  <2>. HIDE DEF at
  <2>. QED
    BY <2>1
<1>5. \A i \in 1..n : \A j \in 1..shape[i] :
        [side |-> side, place |-> <<i, j>>, address |-> at(i, j)] \in Ports
  BY <1>4 DEF Ports
<1>6. \A i \in 1..n : shape[i] \in Nat /\ shape[i] >= 1
  BY <1>0, <1>1
<1>7. \A i \in 1..n :
        [j \in 1..shape[i] |-> [side |-> side, place |-> <<i, j>>, address |-> at(i, j)]] \in Seq(Ports)
  BY <1>5, <1>6
<1>. HIDE DEF at
<1>8. s \in Seq(Seq(Ports)) /\ Len(s) = n
  BY <1>3, <1>7
<1>. HIDE DEF s
<1>9. \A i \in 1..n : Len(s[i]) = shape[i] /\ \A j \in 1..shape[i] : s[i][j].address = at(i, j)
  BY <1>3, <1>6
<1>10. ASSUME NEW i \in 1..n, NEW j \in 1..shape[i], NEW m \in 1..shape[i], j < m
       PROVE  at(i, j) < at(i, m)
  <2>1. order[i] * (MaxWidth + 1) \in Nat /\ j \in Nat /\ m \in Nat
    BY <1>0, <1>2
  <2>. QED
    BY <2>1, <1>10 DEF at
<1>11. ASSUME NEW i \in 1..n, NEW k \in 1..n, NEW j \in 1..shape[i], NEW m \in 1..shape[k],
              at(i, j) = at(k, m)
       PROVE  i = k
  <2>1. j \in 1..MaxWidth /\ m \in 1..MaxWidth /\ order[i] \in Nat /\ order[k] \in Nat
    <3>1. order[i] \in 1..n /\ order[k] \in 1..n
      BY <1>2
    <3>. QED
      BY <3>1, <1>4
  <2>2. at(i, j) \in Nat /\ at(k, m) \in Nat
    BY <1>4
  <2>3. order[i] < order[k] => at(i, j) < at(k, m)
    BY <2>1, <1>0, Places DEF at
  <2>4. order[k] < order[i] => at(k, m) < at(i, j)
    BY <2>1, <1>0, Places DEF at
  <2>5. order[i] = order[k]
    BY <2>1, <2>2, <2>3, <2>4, <1>11
  <2>. QED
    BY <2>5, <1>2
<1>12. IsBank(s)
  <2>1. ASSUME NEW r \in 1..Len(s) PROVE Len(s[r]) >= 1 /\ IsAscending(s[r])
    <3>1. r \in 1..n /\ Len(s[r]) = shape[r] /\ shape[r] >= 1
      BY <1>6, <1>8, <1>9
    <3>2. ASSUME NEW j \in 1..Len(s[r]), NEW m \in 1..Len(s[r]), j < m
          PROVE  s[r][j].address < s[r][m].address
      <4>1. j \in 1..shape[r] /\ m \in 1..shape[r]
        BY <3>1
      <4>2. at(r, j) < at(r, m)
        BY <3>1, <3>2, <4>1, <1>10
      <4>. QED
        BY <3>1, <4>1, <4>2, <1>9
    <3>. QED
      BY <3>1, <3>2 DEF IsAscending
  <2>2. ASSUME NEW r \in 1..Len(s), NEW t \in 1..Len(s), NEW i \in 1..Len(s[r]), NEW j \in 1..Len(s[t]),
               s[r][i].address = s[t][j].address
        PROVE  r = t
    <3>1. r \in 1..n /\ t \in 1..n /\ i \in 1..shape[r] /\ j \in 1..shape[t]
      BY <1>8, <1>9
    <3>2. at(r, i) = at(t, j)
      BY <2>2, <3>1, <1>9
    <3>. QED
      BY <3>1, <3>2, <1>11
  <2>3. Len(s) >= 1
    BY <1>8
  <2>. QED
    BY <2>1, <2>2, <2>3, <1>8 DEF IsBank
<1>13. KindOK(kind, s)
  BY <1>1, <1>8, <1>9, <1>12 DEF KindOK
<1>. QED
  BY <1>13 DEF s

LEMMA InitStatements == ASSUME Init PROVE StatementInv
<1>1. CASE statement = <<>>
  BY <1>1 DEF StatementInv, Wired
<1>2. CASE InitStatement
  <2>1. PICK overload \in Overloads :
          \E l \in Shapes(overload[1]), r \in Shapes(overload[3]) :
            \E order \in Orders(r), accumulated \in BOOLEAN :
              /\ accumulated => overload[1] = "Output" /\ overload[3] = "MultiportInput" /\ r[1] > 1
              /\ statement = [from |-> overload[1], op |-> overload[2], to |-> overload[3],
                              accumulated |-> accumulated,
                              left |-> Members(Bank("left", l, [i \in DOMAIN l |-> i]), "member"),
                              right |-> Members(Bank("right", r, order), "member")]
    BY <1>2 DEF InitStatement
  <2>2. PICK l \in Shapes(overload[1]), r \in Shapes(overload[3]) :
            \E order \in Orders(r), accumulated \in BOOLEAN :
              /\ accumulated => overload[1] = "Output" /\ overload[3] = "MultiportInput" /\ r[1] > 1
              /\ statement = [from |-> overload[1], op |-> overload[2], to |-> overload[3],
                              accumulated |-> accumulated,
                              left |-> Members(Bank("left", l, [i \in DOMAIN l |-> i]), "member"),
                              right |-> Members(Bank("right", r, order), "member")]
    BY <2>1
  <2>3. PICK order \in Orders(r), accumulated \in BOOLEAN :
              /\ accumulated => overload[1] = "Output" /\ overload[3] = "MultiportInput" /\ r[1] > 1
              /\ statement = [from |-> overload[1], op |-> overload[2], to |-> overload[3],
                              accumulated |-> accumulated,
                              left |-> Members(Bank("left", l, [i \in DOMAIN l |-> i]), "member"),
                              right |-> Members(Bank("right", r, order), "member")]
    BY <2>2
  <2>4. /\ statement.from = overload[1] /\ statement.op = overload[2] /\ statement.to = overload[3]
        /\ statement.accumulated = accumulated
        /\ statement.left = Members(Bank("left", l, [i \in DOMAIN l |-> i]), "member")
        /\ statement.right = Members(Bank("right", r, order), "member")
    BY <2>3
  <2>5. [i \in DOMAIN l |-> i] \in Orders(l)
    BY DEF Orders
  <2>6. KindOK(statement.from, statement.left)
    BY <2>4, <2>5, BanksAreBanks
  <2>7. KindOK(statement.to, statement.right)
    BY <2>4, BanksAreBanks
  <2>8. <<overload[1], overload[2], overload[3]>> \in Overloads
    BY DEF Overloads
  <2>. QED
    BY <2>3, <2>4, <2>6, <2>7, <2>8 DEF StatementInv
<1>. QED
  BY <1>1, <1>2 DEF Init

LEMMA StatementsHold == Spec => []StatementInv
<1>1. StatementInv /\ [Next]_vars => StatementInv'
  BY DEF StatementInv, Wired, Next, vars
<1>. QED
  BY InitStatements, <1>1, PTL DEF Spec

-----------------------------------------------------------------------------
(* What the statements draw, in terms of the ports of the two sides        *)

(* Each kind of operand, in the view that the code has of it, is the ports *)
(* of the side one after the other.                                        *)
LEMMA Sides ==
  ASSUME NEW kind, NEW s, KindOK(kind, s)
  PROVE  /\ IsDistinct(FlattenSeq(s))
         /\ kind \in Port \cup Multiport => s[1] = FlattenSeq(s) /\ IsAscending(FlattenSeq(s))
         /\ kind \in Port => Len(FlattenSeq(s)) = 1
         /\ kind \in BankOfPorts => InputPorts(s) = FlattenSeq(s) /\ OutputPorts(s) = FlattenSeq(s)
<1>1. IsBank(s) /\ s \in Seq(Seq(Ports)) /\ Len(s) >= 1 /\ DOMAIN s = 1..Len(s)
  BY DEF KindOK, IsBank
<1>2. IsDistinct(FlattenSeq(s))
  BY <1>1, FlattenDistinct
<1>3. ASSUME kind \in Port \cup Multiport PROVE s[1] = FlattenSeq(s) /\ IsAscending(FlattenSeq(s))
  <2>1. Len(s) = 1
    BY <1>3 DEF KindOK
  <2>2. s[1] = FlattenSeq(s)
    BY <1>1, <2>1, FlattenRow
  <2>3. IsAscending(s[1])
    BY <1>1 DEF IsBank
  <2>. QED
    BY <2>2, <2>3
<1>4. ASSUME kind \in Port PROVE Len(FlattenSeq(s)) = 1
  <2>1. s[1] = FlattenSeq(s) /\ Len(s[1]) = 1
    BY <1>1, <1>3, <1>4 DEF KindOK
  <2>. QED
    BY <2>1
<1>5. ASSUME kind \in BankOfPorts PROVE InputPorts(s) = FlattenSeq(s) /\ OutputPorts(s) = FlattenSeq(s)
  <2>1. \A r \in 1..Len(s) : Len(s[r]) = 1
    BY <1>5 DEF KindOK
  <2>2. FlattenSeq(s) = [r \in 1..Len(s) |-> s[r][1]]
    BY <1>1, <2>1, FlattenColumn
  <2>. QED
    BY <1>1, <2>2 DEF InputPorts, OutputPorts
<1>. QED
  BY <1>2, <1>3, <1>4, <1>5

LEMMA PairedWithOne ==
  ASSUME NEW L, IsDistinct(L), NEW R, IsDistinct(R), Len(L) = 1 \/ Len(R) = 1
  PROVE  Paired(L, R) = {<<L[1], R[1]>>}
<1>1. Len(L) \in Nat /\ Len(R) \in Nat /\ Len(L) >= 1 /\ Len(R) >= 1
  <2>1. L \in Seq(Ports) /\ R \in Seq(Ports) /\ Len(L) >= 1 /\ Len(R) >= 1
    BY DEF IsDistinct
  <2>. QED
    BY <2>1
<1>2. ASSUME NEW k \in 1..Len(L), k \in 1..Len(R) PROVE k = 1
  <2>1. \A j \in 1..1 : j = 1
    OBVIOUS
  <2>2. k \in 1..1
    BY <1>2, Zenon
  <2>. QED
    BY <2>1, <2>2
<1>3. 1 \in 1..Len(L) \cap 1..Len(R)
  BY <1>1
<1>4. 1..Len(L) \cap 1..Len(R) = {1}
  BY <1>2, <1>3
<1>. QED
  BY <1>4 DEF Paired

LEMMA TurnsOfOne ==
  ASSUME NEW L, IsDistinct(L), Len(L) = 1, NEW R, IsDistinct(R)
  PROVE  RoundRobin(L, R) = {L[1]} \X ToSet(R)
<1>1. Len(R) \in Nat /\ DOMAIN R = 1..Len(R)
  BY DEF IsDistinct
<1>2. \A k \in 1..Len(R) : ((k - 1) % 1) + 1 = 1
  BY <1>1
<1>3. RoundRobin(L, R) = {<<L[1], R[k]>> : k \in 1..Len(R)}
  BY <1>2 DEF RoundRobin
<1>4. ToSet(R) = {R[k] : k \in 1..Len(R)}
  BY <1>1 DEF ToSet
<1>. QED
  BY <1>3, <1>4

LEMMA ConnectInOrder ==
  ASSUME NEW L, IsDistinct(L), Len(L) = 1, NEW R, IsDistinct(R), IsAscending(R)
  PROVE  /\ connect_({L[1]}, ToSet(R)) = Paired(L, R)
         /\ connect_fanout_({L[1]}, ToSet(R)) = RoundRobin(L, R)
<1>1. L[1] \in Ports /\ L = <<L[1]>>
  <2>1. L \in Seq(Ports)
    BY DEF IsDistinct
  <2>2. L[1] \in Ports
    BY <2>1
  <2>. QED
    BY <2>1, <2>2
<1>2. InAddressOrder({L[1]}) = L
  BY <1>1, OneInOrder
<1>3. InAddressOrder(ToSet(R)) = R
  BY InOrderIs
<1>4. connect_fanout_({L[1]}, ToSet(R)) = {L[1]} \X ToSet(R)
  BY <1>2 DEF connect_fanout_
<1>. QED
  BY <1>2, <1>3, <1>4, TurnsOfOne DEF connect_

Turns(from, op, to) ==
  \/ op = ">>"
  \/ from = "Output" /\ to \in {"Vector", "Bank", "BankOffset"}

Sorts(from, to) == from = "MultiportOutput" /\ to = "BankOffset"

(* One port to one port, round robin, or pairs by index.                   *)
FormOf(from, op, to, L, accumulated, R) ==
  IF accumulated THEN {<<L[1], R[1]>>}
  ELSE IF Turns(from, op, to) THEN RoundRobin(L, R)
  ELSE Paired(L, IF Sorts(from, to) THEN InAddressOrder(ToSet(R)) ELSE R)

LEMMA OutputDraws ==
  ASSUME NEW op, NEW to, NEW l, NEW accumulated \in BOOLEAN, NEW r,
         <<"Output", op, to>> \in Overloads, accumulated => to = "MultiportInput",
         KindOK("Output", l), KindOK(to, r)
  PROVE  Drawn("Output", op, to, l, accumulated, r)
           = FormOf("Output", op, to, FlattenSeq(l), accumulated, FlattenSeq(r))
<1>. DEFINE L == FlattenSeq(l)
           R == FlattenSeq(r)
<1>1. /\ IsDistinct(L) /\ Len(L) = 1 /\ l[1] = L
      /\ IsDistinct(R)
      /\ to \in Port \cup Multiport => r[1] = R /\ IsAscending(R)
      /\ to \in Port => Len(R) = 1
      /\ to \in BankOfPorts => InputPorts(r) = R
  BY Sides DEF Port, Multiport, BankOfPorts
<1>2. \/ op = ">" /\ to \in {"Input", "Output", "MultiportInput", "Vector", "Bank", "BankOffset"}
      \/ op = ">>" /\ to = "MultiportInput"
  BY DEF Overloads
<1>3. Drawn("Output", op, to, l, accumulated, r) = Output_WiringProxy(op, to, L[1], accumulated, r)
  BY <1>1 DEF Drawn
<1>. HIDE DEF L, R
<1>4. CASE op = ">>"
  <2>1. Drawn("Output", op, to, l, accumulated, r) = Output_fanout(L[1], accumulated, r)
    BY <1>3, <1>4 DEF Output_WiringProxy
  <2>2. r[1] = R /\ IsAscending(R)
    BY <1>1, <1>2, <1>4 DEF Port, Multiport
  <2>. QED
    BY <1>1, <1>4, <2>1, <2>2, ConnectInOrder DEF Output_fanout, Accumulated, FormOf, Turns, L, R
<1>5. CASE op = ">" /\ to \in {"Input", "Output"}
  <2>1. Drawn("Output", op, to, l, accumulated, r) = Output_Port(L[1], r)
    BY <1>3, <1>5 DEF Output_WiringProxy
  <2>2. r[1] = R /\ Len(R) = 1 /\ ~accumulated
    BY <1>1, <1>5 DEF Port, Multiport
  <2>. QED
    BY <1>1, <1>5, <2>1, <2>2, PairedWithOne DEF Output_Port, FormOf, Turns, Sorts, L, R
<1>6. CASE op = ">" /\ to = "MultiportInput"
  <2>1. Drawn("Output", op, to, l, accumulated, r) = Output_MultiportInput(L[1], accumulated, r)
    BY <1>3, <1>6 DEF Output_WiringProxy
  <2>2. r[1] = R /\ IsAscending(R)
    BY <1>1, <1>6 DEF Port, Multiport
  <2>. QED
    BY <1>1, <1>6, <2>1, <2>2, ConnectInOrder
    DEF Output_MultiportInput, Accumulated, FormOf, Turns, Sorts, L, R
<1>7. CASE op = ">" /\ to \in {"Vector", "Bank", "BankOffset"}
  <2>1. Drawn("Output", op, to, l, accumulated, r) = Output_Bank(L[1], r)
    BY <1>3, <1>7 DEF Output_WiringProxy
  <2>2. InputPorts(r) = R /\ ~accumulated
    BY <1>1, <1>7 DEF BankOfPorts
  <2>. QED
    BY <1>1, <1>7, <2>1, <2>2, TurnsOfOne DEF Output_Bank, FormOf, Turns, L, R
<1>. QED
  BY <1>2, <1>4, <1>5, <1>6, <1>7

LEMMA InputDraws ==
  ASSUME NEW op, NEW to, NEW l, NEW r, <<"Input", op, to>> \in Overloads,
         KindOK("Input", l), KindOK(to, r)
  PROVE  Drawn("Input", op, to, l, FALSE, r)
           = FormOf("Input", op, to, FlattenSeq(l), FALSE, FlattenSeq(r))
<1>. DEFINE L == FlattenSeq(l)
           R == FlattenSeq(r)
<1>1. /\ IsDistinct(L) /\ Len(L) = 1 /\ l[1] = L
      /\ IsDistinct(R)
      /\ to \in Port \cup Multiport => r[1] = R /\ IsAscending(R)
      /\ to \in Port => Len(R) = 1
      /\ to \in BankOfPorts => InputPorts(r) = R
  BY Sides DEF Port, Multiport, BankOfPorts
<1>2. \/ op = ">" /\ to \in {"Input", "MultiportInput"}
      \/ op = ">>" /\ to = "MultiportInput"
  BY DEF Overloads
<1>3. Drawn("Input", op, to, l, FALSE, r) = Input_WiringProxy(op, to, L[1], r)
  BY <1>1 DEF Drawn
<1>. HIDE DEF L, R
<1>4. CASE op = ">>"
  <2>1. Drawn("Input", op, to, l, FALSE, r) = Input_fanout(L[1], r)
    BY <1>2, <1>3, <1>4 DEF Input_WiringProxy
  <2>2. r[1] = R /\ IsAscending(R)
    BY <1>1, <1>2, <1>4 DEF Port, Multiport, BankOfPorts
  <2>. QED
    BY <1>1, <1>2, <1>4, <2>1, <2>2, ConnectInOrder
    DEF Input_fanout, FormOf, Turns, Sorts, L, R
<1>5. CASE op = ">" /\ to = "Input"
  <2>1. Drawn("Input", op, to, l, FALSE, r) = Input_Input(L[1], r)
    BY <1>2, <1>3, <1>5 DEF Input_WiringProxy
  <2>2. r[1] = R /\ Len(R) = 1 /\ IsAscending(R)
    BY <1>1, <1>2, <1>5 DEF Port, Multiport, BankOfPorts
  <2>3. ToSet(R) = {R[1]}
    <3>1. R \in Seq(Ports) /\ DOMAIN R = {1}
      BY <1>1, <2>2 DEF IsDistinct
    <3>. QED
      BY <3>1 DEF ToSet
  <2>. QED
    BY <1>1, <1>2, <1>5, <2>1, <2>2, <2>3, ConnectInOrder
    DEF Input_Input, FormOf, Turns, Sorts, L, R
<1>6. CASE op = ">" /\ to = "MultiportInput"
  <2>1. Drawn("Input", op, to, l, FALSE, r) = Input_MultiportInput(L[1], r)
    BY <1>2, <1>3, <1>6 DEF Input_WiringProxy
  <2>2. r[1] = R /\ IsAscending(R)
    BY <1>1, <1>2, <1>6 DEF Port, Multiport, BankOfPorts
  <2>. QED
    BY <1>1, <1>2, <1>6, <2>1, <2>2, PairedWithOne
    DEF Input_MultiportInput, FormOf, Turns, Sorts, L, R
<1>. QED
  BY <1>2, <1>4, <1>5, <1>6

LEMMA MultiportOutputDraws ==
  ASSUME NEW op, NEW to, NEW l, NEW r, <<"MultiportOutput", op, to>> \in Overloads,
         KindOK("MultiportOutput", l), KindOK(to, r)
  PROVE  Drawn("MultiportOutput", op, to, l, FALSE, r)
           = FormOf("MultiportOutput", op, to, FlattenSeq(l), FALSE, FlattenSeq(r))
<1>. DEFINE L == FlattenSeq(l)
           R == FlattenSeq(r)
<1>1. /\ IsDistinct(L) /\ l[1] = L /\ IsAscending(L)
      /\ IsDistinct(R)
      /\ to \in Port \cup Multiport => r[1] = R /\ IsAscending(R)
      /\ to \in Port => Len(R) = 1
      /\ to \in BankOfPorts => InputPorts(r) = R
  BY Sides DEF Port, Multiport, BankOfPorts
<1>2. op = ">" /\ to \in {"Input", "Output", "MultiportInput", "MultiportOutput", "Vector", "Bank", "BankOffset"}
  BY DEF Overloads
<1>3. Drawn("MultiportOutput", op, to, l, FALSE, r) = MultiportOutput_WiringProxy(to, L, r)
  BY <1>1 DEF Drawn
<1>. HIDE DEF L, R
<1>4. CASE to \in {"Input", "Output"}
  <2>1. Drawn("MultiportOutput", op, to, l, FALSE, r) = MultiportOutput_Port(L, r)
    BY <1>2, <1>3, <1>4 DEF MultiportOutput_WiringProxy
  <2>2. r[1] = R /\ Len(R) = 1
    BY <1>1, <1>2, <1>4 DEF Port, Multiport, BankOfPorts
  <2>3. Paired(L, R) = {<<L[1], R[1]>>}
    BY <1>1, <2>2, PairedWithOne
  <2>4. MultiportOutput_Port(L, r) = {<<L[1], R[1]>>}
    BY <2>2 DEF MultiportOutput_Port
  <2>5. FormOf("MultiportOutput", op, to, L, FALSE, R) = Paired(L, R)
    BY <1>2, <1>4 DEF FormOf, Turns, Sorts
  <2>. QED
    BY <2>1, <2>3, <2>4, <2>5 DEF L, R
<1>5. CASE to \in {"MultiportInput", "MultiportOutput"}
  <2>1. Drawn("MultiportOutput", op, to, l, FALSE, r) = MultiportOutput_Multiport(L, r)
    BY <1>2, <1>3, <1>5 DEF MultiportOutput_WiringProxy
  <2>2. r[1] = R /\ IsAscending(R)
    BY <1>1, <1>2, <1>5 DEF Port, Multiport, BankOfPorts
  <2>. QED
    BY <1>1, <1>2, <1>5, <2>1, <2>2
    DEF MultiportOutput_Multiport, FormOf, Turns, Sorts, L, R
<1>6. CASE to \in {"Vector", "Bank"}
  <2>1. Drawn("MultiportOutput", op, to, l, FALSE, r) = MultiportOutput_Bank(L, r)
    BY <1>2, <1>3, <1>6 DEF MultiportOutput_WiringProxy
  <2>2. InputPorts(r) = R
    BY <1>1, <1>2, <1>6 DEF Port, Multiport, BankOfPorts
  <2>. QED
    BY <1>1, <1>2, <1>6, <2>1, <2>2
    DEF MultiportOutput_Bank, FormOf, Turns, Sorts, L, R
<1>7. CASE to = "BankOffset"
  <2>1. Drawn("MultiportOutput", op, to, l, FALSE, r) = MultiportOutput_BankOffset(L, r)
    BY <1>2, <1>3, <1>7 DEF MultiportOutput_WiringProxy
  <2>2. InputPorts(r) = R
    BY <1>1, <1>2, <1>7 DEF Port, Multiport, BankOfPorts
  <2>. QED
    BY <1>1, <1>2, <1>7, <2>1, <2>2, InOrderIs
    DEF MultiportOutput_BankOffset, FormOf, Turns, Sorts, connect_, L, R
<1>. QED
  BY <1>2, <1>4, <1>5, <1>6, <1>7

LEMMA MultiportInputDraws ==
  ASSUME NEW op, NEW to, NEW l, NEW r, <<"MultiportInput", op, to>> \in Overloads,
         KindOK("MultiportInput", l), KindOK(to, r)
  PROVE  Drawn("MultiportInput", op, to, l, FALSE, r)
           = FormOf("MultiportInput", op, to, FlattenSeq(l), FALSE, FlattenSeq(r))
<1>. DEFINE L == FlattenSeq(l)
           R == FlattenSeq(r)
<1>1. /\ IsDistinct(L) /\ l[1] = L
      /\ IsDistinct(R)
      /\ to \in Port \cup Multiport => r[1] = R /\ IsAscending(R)
      /\ to \in Port => Len(R) = 1
      /\ to \in BankOfPorts => InputPorts(r) = R
  BY Sides DEF Port, Multiport, BankOfPorts
<1>2. op = ">" /\ to \in {"Input", "MultiportInput"}
  BY DEF Overloads
<1>3. Drawn("MultiportInput", op, to, l, FALSE, r) = MultiportInput_WiringProxy(to, L, r)
  BY <1>1 DEF Drawn
<1>. HIDE DEF L, R
<1>4. CASE to = "Input"
  <2>1. Drawn("MultiportInput", op, to, l, FALSE, r) = MultiportInput_Input(L, r)
    BY <1>2, <1>3, <1>4 DEF MultiportInput_WiringProxy
  <2>2. r[1] = R /\ Len(R) = 1
    BY <1>1, <1>2, <1>4 DEF Port, Multiport, BankOfPorts
  <2>3. Paired(L, R) = {<<L[1], R[1]>>}
    BY <1>1, <2>2, PairedWithOne
  <2>4. MultiportInput_Input(L, r) = {<<L[1], R[1]>>}
    BY <2>2 DEF MultiportInput_Input
  <2>5. FormOf("MultiportInput", op, to, L, FALSE, R) = Paired(L, R)
    BY <1>2, <1>4 DEF FormOf, Turns, Sorts
  <2>. QED
    BY <2>1, <2>3, <2>4, <2>5 DEF L, R
<1>5. CASE to = "MultiportInput"
  <2>1. Drawn("MultiportInput", op, to, l, FALSE, r) = MultiportInput_MultiportInput(L, r)
    BY <1>2, <1>3, <1>5 DEF MultiportInput_WiringProxy
  <2>2. r[1] = R /\ IsAscending(R)
    BY <1>1, <1>2, <1>5 DEF Port, Multiport, BankOfPorts
  <2>. QED
    BY <1>1, <1>2, <1>5, <2>1, <2>2
    DEF MultiportInput_MultiportInput, FormOf, Turns, Sorts, L, R
<1>. QED
  BY <1>2, <1>4, <1>5

LEMMA BankOutputDraws ==
  ASSUME NEW op, NEW to, NEW l, NEW r, <<"BankOutput", op, to>> \in Overloads,
         KindOK("BankOutput", l), KindOK(to, r)
  PROVE  Drawn("BankOutput", op, to, l, FALSE, r)
           = FormOf("BankOutput", op, to, FlattenSeq(l), FALSE, FlattenSeq(r))
<1>. DEFINE L == FlattenSeq(l)
           R == FlattenSeq(r)
<1>1. /\ IsDistinct(L) /\ OutputPorts(l) = L
      /\ IsDistinct(R)
      /\ to \in Port \cup Multiport => r[1] = R /\ IsAscending(R)
      /\ to \in Port => Len(R) = 1
      /\ to \in BankOfPorts => InputPorts(r) = R
  BY Sides DEF Port, Multiport, BankOfPorts
<1>2. op = ">" /\ to \in {"Input", "MultiportInput", "Bank"}
  BY DEF Overloads
<1>3. Drawn("BankOutput", op, to, l, FALSE, r) = BankOutput_WiringProxy(to, l, r)
  BY <1>1 DEF Drawn
<1>. HIDE DEF L, R
<1>4. CASE to = "Input"
  <2>1. Drawn("BankOutput", op, to, l, FALSE, r) = BankOutput_Input(l, r)
    BY <1>2, <1>3, <1>4 DEF BankOutput_WiringProxy
  <2>2. r[1] = R /\ Len(R) = 1
    BY <1>1, <1>2, <1>4 DEF Port, Multiport, BankOfPorts
  <2>. QED
    BY <1>1, <1>2, <1>4, <2>1, <2>2, PairedWithOne
    DEF BankOutput_Input, FormOf, Turns, Sorts, L, R
<1>5. CASE to = "MultiportInput"
  <2>1. Drawn("BankOutput", op, to, l, FALSE, r) = BankOutput_MultiportInput(l, r)
    BY <1>2, <1>3, <1>5 DEF BankOutput_WiringProxy
  <2>2. r[1] = R /\ IsAscending(R)
    BY <1>1, <1>2, <1>5 DEF Port, Multiport, BankOfPorts
  <2>. QED
    BY <1>1, <1>2, <1>5, <2>1, <2>2
    DEF BankOutput_MultiportInput, FormOf, Turns, Sorts, L, R
<1>6. CASE to = "Bank"
  <2>1. Drawn("BankOutput", op, to, l, FALSE, r) = BankOutput_Bank(l, r)
    BY <1>2, <1>3, <1>6 DEF BankOutput_WiringProxy
  <2>2. InputPorts(r) = R
    BY <1>1, <1>2, <1>6 DEF Port, Multiport, BankOfPorts
  <2>. QED
    BY <1>1, <1>2, <1>6, <2>1, <2>2
    DEF BankOutput_Bank, FormOf, Turns, Sorts, L, R
<1>. QED
  BY <1>2, <1>4, <1>5, <1>6

LEMMA BankOutputOffsetDraws ==
  ASSUME NEW op, NEW to, NEW l, NEW r, <<"BankOutputOffset", op, to>> \in Overloads,
         KindOK("BankOutputOffset", l), KindOK(to, r)
  PROVE  Drawn("BankOutputOffset", op, to, l, FALSE, r)
           = FormOf("BankOutputOffset", op, to, FlattenSeq(l), FALSE, FlattenSeq(r))
<1>. DEFINE L == FlattenSeq(l)
           R == FlattenSeq(r)
<1>1. /\ IsDistinct(L) /\ OutputPorts(l) = L
      /\ IsDistinct(R)
      /\ to \in Port \cup Multiport => r[1] = R /\ IsAscending(R)
      /\ to \in Port => Len(R) = 1
      /\ to \in BankOfPorts => InputPorts(r) = R
  BY Sides DEF Port, Multiport, BankOfPorts
<1>2. \/ op = ">" /\ to \in {"Input", "MultiportInput", "Bank", "BankOffset", "BankMultiportOffset"}
      \/ op = ">>" /\ to = "MultiportInput"
  BY DEF Overloads
<1>3. Drawn("BankOutputOffset", op, to, l, FALSE, r) = BankOutputOffset_WiringProxy(op, to, l, r)
  BY <1>1 DEF Drawn
<1>. HIDE DEF L, R
<1>4. CASE op = ">>"
  <2>1. Drawn("BankOutputOffset", op, to, l, FALSE, r) = BankOutputOffset_fanout(l, r)
    BY <1>2, <1>3, <1>4 DEF BankOutputOffset_WiringProxy
  <2>2. r[1] = R /\ IsAscending(R)
    BY <1>1, <1>2, <1>4 DEF Port, Multiport, BankOfPorts
  <2>. QED
    BY <1>1, <1>2, <1>4, <2>1, <2>2
    DEF BankOutputOffset_fanout, FormOf, Turns, Sorts, L, R
<1>5. CASE op = ">" /\ to = "Input"
  <2>1. Drawn("BankOutputOffset", op, to, l, FALSE, r) = BankOutputOffset_Input(l, r)
    BY <1>2, <1>3, <1>5 DEF BankOutputOffset_WiringProxy
  <2>2. r[1] = R /\ Len(R) = 1
    BY <1>1, <1>2, <1>5 DEF Port, Multiport, BankOfPorts
  <2>. QED
    BY <1>1, <1>2, <1>5, <2>1, <2>2, PairedWithOne
    DEF BankOutputOffset_Input, FormOf, Turns, Sorts, L, R
<1>6. CASE op = ">" /\ to = "MultiportInput"
  <2>1. Drawn("BankOutputOffset", op, to, l, FALSE, r) = BankOutputOffset_MultiportInput(l, r)
    BY <1>2, <1>3, <1>6 DEF BankOutputOffset_WiringProxy
  <2>2. r[1] = R /\ IsAscending(R)
    BY <1>1, <1>2, <1>6 DEF Port, Multiport, BankOfPorts
  <2>. QED
    BY <1>1, <1>2, <1>6, <2>1, <2>2
    DEF BankOutputOffset_MultiportInput, FormOf, Turns, Sorts, L, R
<1>7. CASE op = ">" /\ to = "Bank"
  <2>1. Drawn("BankOutputOffset", op, to, l, FALSE, r) = BankOutputOffset_Bank(l, r)
    BY <1>2, <1>3, <1>7 DEF BankOutputOffset_WiringProxy
  <2>2. InputPorts(r) = R
    BY <1>1, <1>2, <1>7 DEF Port, Multiport, BankOfPorts
  <2>. QED
    BY <1>1, <1>2, <1>7, <2>1, <2>2
    DEF BankOutputOffset_Bank, FormOf, Turns, Sorts, L, R
<1>8. CASE op = ">" /\ to = "BankOffset"
  <2>1. Drawn("BankOutputOffset", op, to, l, FALSE, r) = BankOutputOffset_BankOffset(l, r)
    BY <1>2, <1>3, <1>8 DEF BankOutputOffset_WiringProxy
  <2>2. InputPorts(r) = R
    BY <1>1, <1>2, <1>8 DEF Port, Multiport, BankOfPorts
  <2>. QED
    BY <1>1, <1>2, <1>8, <2>1, <2>2
    DEF BankOutputOffset_BankOffset, FormOf, Turns, Sorts, L, R
<1>9. CASE op = ">" /\ to = "BankMultiportOffset"
  <2>1. Drawn("BankOutputOffset", op, to, l, FALSE, r) = BankOutputOffset_BankMultiportOffset(l, r)
    BY <1>2, <1>3, <1>9 DEF BankOutputOffset_WiringProxy
  <2>. QED
    BY <1>1, <1>2, <1>9, <2>1
    DEF BankOutputOffset_BankMultiportOffset, FormOf, Turns, Sorts, InputMultiports, L, R
<1>. QED
  BY <1>2, <1>4, <1>5, <1>6, <1>7, <1>8, <1>9

LEMMA BankMultiportDraws ==
  ASSUME NEW op, NEW to, NEW l, NEW r, <<"BankMultiport", op, to>> \in Overloads,
         KindOK("BankMultiport", l), KindOK(to, r)
  PROVE  Drawn("BankMultiport", op, to, l, FALSE, r)
           = FormOf("BankMultiport", op, to, FlattenSeq(l), FALSE, FlattenSeq(r))
<1>. DEFINE L == FlattenSeq(l)
           R == FlattenSeq(r)
<1>1. /\ IsDistinct(L) /\ OutputMultiports(l) = L
      /\ IsDistinct(R)
      /\ to \in Port \cup Multiport => r[1] = R /\ IsAscending(R)
      /\ to \in Port => Len(R) = 1
      /\ to \in BankOfPorts => InputPorts(r) = R
  BY Sides DEF OutputMultiports, Port, Multiport, BankOfPorts
<1>2. op = ">" /\ to \in {"MultiportInput", "Bank"}
  BY DEF Overloads
<1>3. Drawn("BankMultiport", op, to, l, FALSE, r) = BankMultiport_WiringProxy(to, l, r)
  BY <1>1 DEF Drawn
<1>. HIDE DEF L, R
<1>4. CASE to = "MultiportInput"
  <2>1. Drawn("BankMultiport", op, to, l, FALSE, r) = BankMultiport_MultiportInput(l, r)
    BY <1>2, <1>3, <1>4 DEF BankMultiport_WiringProxy
  <2>2. r[1] = R /\ IsAscending(R)
    BY <1>1, <1>2, <1>4 DEF Port, Multiport, BankOfPorts
  <2>. QED
    BY <1>1, <1>2, <1>4, <2>1, <2>2
    DEF BankMultiport_MultiportInput, FormOf, Turns, Sorts, L, R
<1>5. CASE to = "Bank"
  <2>1. Drawn("BankMultiport", op, to, l, FALSE, r) = BankMultiport_Bank(l, r)
    BY <1>2, <1>3, <1>5 DEF BankMultiport_WiringProxy
  <2>2. InputPorts(r) = R
    BY <1>1, <1>2, <1>5 DEF Port, Multiport, BankOfPorts
  <2>. QED
    BY <1>1, <1>2, <1>5, <2>1, <2>2
    DEF BankMultiport_Bank, FormOf, Turns, Sorts, L, R
<1>. QED
  BY <1>2, <1>4, <1>5

LEMMA BankMultiportOffsetDraws ==
  ASSUME NEW op, NEW to, NEW l, NEW r, <<"BankMultiportOffset", op, to>> \in Overloads,
         KindOK("BankMultiportOffset", l), KindOK(to, r)
  PROVE  Drawn("BankMultiportOffset", op, to, l, FALSE, r)
           = FormOf("BankMultiportOffset", op, to, FlattenSeq(l), FALSE, FlattenSeq(r))
<1>. DEFINE L == FlattenSeq(l)
           R == FlattenSeq(r)
<1>1. /\ IsDistinct(L) /\ OutputMultiports(l) = L
      /\ IsDistinct(R)
      /\ to \in Port \cup Multiport => r[1] = R /\ IsAscending(R)
      /\ to \in Port => Len(R) = 1
      /\ to \in BankOfPorts => InputPorts(r) = R
  BY Sides DEF OutputMultiports, Port, Multiport, BankOfPorts
<1>2. op = ">" /\ to \in {"MultiportInput", "Bank", "BankOffset"}
  BY DEF Overloads
<1>3. Drawn("BankMultiportOffset", op, to, l, FALSE, r) = BankMultiportOffset_WiringProxy(to, l, r)
  BY <1>1 DEF Drawn
<1>. HIDE DEF L, R
<1>4. CASE to = "MultiportInput"
  <2>1. Drawn("BankMultiportOffset", op, to, l, FALSE, r) = BankMultiportOffset_MultiportInput(l, r)
    BY <1>2, <1>3, <1>4 DEF BankMultiportOffset_WiringProxy
  <2>2. r[1] = R /\ IsAscending(R)
    BY <1>1, <1>2, <1>4 DEF Port, Multiport, BankOfPorts
  <2>. QED
    BY <1>1, <1>2, <1>4, <2>1, <2>2
    DEF BankMultiportOffset_MultiportInput, FormOf, Turns, Sorts, L, R
<1>5. CASE to = "Bank"
  <2>1. Drawn("BankMultiportOffset", op, to, l, FALSE, r) = BankMultiportOffset_Bank(l, r)
    BY <1>2, <1>3, <1>5 DEF BankMultiportOffset_WiringProxy
  <2>2. InputPorts(r) = R
    BY <1>1, <1>2, <1>5 DEF Port, Multiport, BankOfPorts
  <2>. QED
    BY <1>1, <1>2, <1>5, <2>1, <2>2
    DEF BankMultiportOffset_Bank, FormOf, Turns, Sorts, L, R
<1>6. CASE to = "BankOffset"
  <2>1. Drawn("BankMultiportOffset", op, to, l, FALSE, r) = BankMultiportOffset_BankOffset(l, r)
    BY <1>2, <1>3, <1>6 DEF BankMultiportOffset_WiringProxy
  <2>2. InputPorts(r) = R
    BY <1>1, <1>2, <1>6 DEF Port, Multiport, BankOfPorts
  <2>. QED
    BY <1>1, <1>2, <1>6, <2>1, <2>2
    DEF BankMultiportOffset_BankOffset, FormOf, Turns, Sorts, L, R
<1>. QED
  BY <1>2, <1>4, <1>5, <1>6

LEMMA StatementDraws ==
  ASSUME StatementInv, Wired
  PROVE  Connections
           = FormOf(statement.from, statement.op, statement.to, Left, statement.accumulated, Right)
<1>. DEFINE from == statement.from
           op == statement.op
           to == statement.to
           l == statement.left
           r == statement.right
           accumulated == statement.accumulated
<1>1. /\ <<from, op, to>> \in Overloads /\ accumulated \in BOOLEAN
      /\ accumulated => from = "Output" /\ to = "MultiportInput"
      /\ KindOK(from, l) /\ KindOK(to, r)
  BY DEF StatementInv
<1>2. Left = FlattenSeq(l) /\ Right = FlattenSeq(r) /\ Connections = Drawn(from, op, to, l, accumulated, r)
  BY DEF Left, Right, Connections
<1>3. from \in {"Output", "Input", "MultiportOutput", "MultiportInput", "BankOutput",
                "BankOutputOffset", "BankMultiport", "BankMultiportOffset"}
  BY <1>1 DEF Overloads
<1>. HIDE DEF from, op, to, l, r, accumulated
<1>4. CASE from = "Output"
  BY <1>1, <1>2, <1>4, OutputDraws DEF from, op, to, accumulated
<1>5. CASE from # "Output"
  <2>1. accumulated = FALSE
    BY <1>1, <1>5
  <2>2. Drawn(from, op, to, l, FALSE, r) = FormOf(from, op, to, FlattenSeq(l), FALSE, FlattenSeq(r))
    <3>1. CASE from = "Input"
      BY <1>1, <3>1, InputDraws
    <3>2. CASE from = "MultiportOutput"
      BY <1>1, <3>2, MultiportOutputDraws
    <3>3. CASE from = "MultiportInput"
      BY <1>1, <3>3, MultiportInputDraws
    <3>4. CASE from = "BankOutput"
      BY <1>1, <3>4, BankOutputDraws
    <3>5. CASE from = "BankOutputOffset"
      BY <1>1, <3>5, BankOutputOffsetDraws
    <3>6. CASE from = "BankMultiport"
      BY <1>1, <3>6, BankMultiportDraws
    <3>7. CASE from = "BankMultiportOffset"
      BY <1>1, <3>7, BankMultiportOffsetDraws
    <3>. QED
      BY <1>3, <1>5, <3>1, <3>2, <3>3, <3>4, <3>5, <3>6, <3>7
  <2>. QED
    BY <1>2, <2>1, <2>2 DEF from, op, to, accumulated
<1>. QED
  BY <1>4, <1>5

LEMMA SidesHold ==
  ASSUME StatementInv, Wired
  PROVE  IsDistinct(Left) /\ IsDistinct(Right)
BY Sides DEF StatementInv, Left, Right

(* The right ports as a statement goes through them.                       *)
Targets == IF Sorts(statement.from, statement.to) THEN InAddressOrder(ToSet(Right)) ELSE Right

LEMMA TargetsAre ==
  ASSUME StatementInv, Wired
  PROVE  /\ \A k \in 1..Len(Right) : Targets[k] \in ToSet(Right)
         /\ \A k, m \in 1..Len(Right) : Targets[k] = Targets[m] => k = m
         /\ DOMAIN Targets = 1..Len(Right) /\ Len(Targets) = Len(Right)
<1>1. IsDistinct(Right) /\ Len(Right) \in Nat /\ DOMAIN Right = 1..Len(Right)
  BY SidesHold DEF IsDistinct
<1>2. CASE Sorts(statement.from, statement.to)
  <2>1. IsOrdered(Targets, ToSet(Right))
    BY <1>1, <1>2, InOrderIs DEF Targets
  <2>2. /\ Targets \in [1..Len(Right) -> ToSet(Right)]
        /\ \A i, j \in 1..Len(Right) : Targets[i] = Targets[j] => i = j
    BY <1>1, <2>1, OrderedEnumerates
  <2>3. Len(Targets) = Len(Right)
    BY <1>1, <2>2
  <2>. QED
    BY <2>2, <2>3
<1>3. CASE ~Sorts(statement.from, statement.to)
  BY <1>1, <1>3 DEF Targets, IsDistinct, ToSet
<1>. QED
  BY <1>2, <1>3

(* Whatever is drawn goes from one left port for each target.              *)
Partners ==
  CASE statement.accumulated -> {1}
    [] ~statement.accumulated /\ FansOut -> 1..Len(Right)
    [] ~statement.accumulated /\ ~FansOut -> 1..Len(Left) \cap 1..Len(Right)

Turn(k) == ((k - 1) % Len(Left)) + 1

LEMMA ConnectionsAre ==
  ASSUME StatementInv, Wired
  PROVE  /\ Connections = {<<Left[Turn(k)], Targets[k]>> : k \in Partners}
         /\ Partners \subseteq 1..Len(Right)
<1>1. /\ Len(Left) \in Nat /\ Len(Left) >= 1 /\ Len(Right) \in Nat /\ Len(Right) >= 1
      /\ Len(Targets) = Len(Right)
  BY SidesHold, TargetsAre DEF IsDistinct
<1>2. \A k \in 1..Len(Left) : Turn(k) = k
  <2>. DEFINE n == Len(Left)
  <2>. HIDE DEF n
  <2>1. n \in Nat
    BY <1>1 DEF n
  <2>2. \A k \in 1..n : (k - 1) % n = k - 1
    BY <2>1
  <2>3. \A k \in 1..n : ((k - 1) % n) + 1 = k
    BY <2>1, <2>2
  <2>. QED
    BY <2>3 DEF n, Turn
<1>3. FansOut <=> Turns(statement.from, statement.op, statement.to)
  BY DEF FansOut, Turns
<1>4. statement.accumulated \in BOOLEAN
  BY DEF StatementInv
<1>5. FansOut \/ statement.accumulated => Targets = Right
  <2>1. Sorts(statement.from, statement.to) => statement.op = ">" /\ ~statement.accumulated
    BY DEF Sorts, StatementInv, Overloads
  <2>. QED
    BY <2>1 DEF Targets, FansOut, Sorts
<1>6. CASE statement.accumulated
  <2>1. Connections = {<<Left[1], Right[1]>>}
    BY <1>6, StatementDraws DEF FormOf
  <2>2. Partners = {1} /\ Turn(1) = 1 /\ 1 \in 1..Len(Right)
    BY <1>1, <1>2, <1>6 DEF Partners
  <2>. QED
    BY <2>1, <2>2, <1>5, <1>6
<1>7. CASE ~statement.accumulated /\ FansOut
  <2>1. Connections = RoundRobin(Left, Right)
    BY <1>3, <1>7, StatementDraws DEF FormOf
  <2>2. Partners = 1..Len(Right)
    BY <1>7 DEF Partners
  <2>. QED
    BY <2>1, <2>2, <1>5, <1>7 DEF RoundRobin, Turn
<1>8. CASE ~statement.accumulated /\ ~FansOut
  <2>1. Connections = Paired(Left, Targets)
    BY <1>3, <1>8, StatementDraws DEF FormOf, Targets
  <2>2. Partners = 1..Len(Left) \cap 1..Len(Right)
    BY <1>8 DEF Partners
  <2>. QED
    BY <2>1, <2>2, <1>1, <1>2 DEF Paired
<1>. QED
  BY <1>4, <1>6, <1>7, <1>8

(* No wiring statement connects two sources to one port, for banks and     *)
(* multiports of any width, wherever the ports lie in memory (operator> and*)
(* operator>> of the proxies, WiringProxy.hh).                             *)
THEOREM PortsGetOneSource == Spec => []OneSource
<1>1. StatementInv => OneSource
  <2>. SUFFICES ASSUME StatementInv, Wired, NEW v \in Connections, NEW w \in Connections, v[2] = w[2]
                PROVE  v[1] = w[1]
    BY DEF OneSource
  <2>1. PICK k \in Partners : v = <<Left[Turn(k)], Targets[k]>>
    BY ConnectionsAre
  <2>2. PICK m \in Partners : w = <<Left[Turn(m)], Targets[m]>>
    BY ConnectionsAre
  <2>3. Targets[k] = Targets[m] /\ k \in 1..Len(Right) /\ m \in 1..Len(Right)
    BY <2>1, <2>2, ConnectionsAre
  <2>4. k = m
    BY <2>3, TargetsAre
  <2>. QED
    BY <2>1, <2>2, <2>4
<1>. QED
  BY StatementsHold, <1>1, PTL

(* The k-th right port gets the k-th left port, or the left ports in turn, *)
(* through all reactors of a bank; in the overload that goes through the   *)
(* ports by address, if the bank lies in ascending order                   *)
(* (MultiportOutput_wiring_impl.hh).                                       *)
THEOREM PortsArePairedByIndex == Spec => []PairedByIndex
<1>1. StatementInv => PairedByIndex
  <2>. SUFFICES ASSUME StatementInv, Wired, InOrder \/ ~Sorts(statement.from, statement.to),
                       NEW edge \in Connections
                PROVE  \E k \in 1..Len(Right) : edge = <<Left[Turn(k)], Right[k]>>
    BY DEF PairedByIndex, Sorts, Turn
  <2>1. IsDistinct(Right) /\ Right \in Seq(Ports) /\ Len(Right) \in Nat
    BY SidesHold DEF IsDistinct
  <2>2. ASSUME InOrder PROVE IsAscending(Right)
    <3>. SUFFICES ASSUME NEW k \in 1..Len(Right), NEW m \in 1..Len(Right), k < m
                  PROVE  Right[k].address < Right[m].address
      BY DEF IsAscending
    <3>. DEFINE S == {d \in 1..m - k : Right[k].address < Right[k + d].address}
                n == m - k
    <3>1. k \in Nat /\ m \in Nat /\ n \in Nat /\ n >= 1 /\ k + n = m
      BY <2>1
    <3>2. \A i \in 1..Len(Right) : Right[i].address \in Nat
      BY <2>1, Addresses
    <3>3. \A i \in 1..Len(Right) - 1 : Right[i].address < Right[i + 1].address
      BY <2>2 DEF InOrder
    <3>4. 1 \in S
      BY <3>1, <3>3, <2>1
    <3>5. ASSUME NEW d \in 1..n - 1, d \in S PROVE d + 1 \in S
      <4>1. k + d \in 1..Len(Right) - 1 /\ k + d \in 1..Len(Right) /\ k + d + 1 \in 1..Len(Right)
            /\ k + (d + 1) = k + d + 1 /\ d + 1 \in 1..m - k
        BY <3>1, <2>1
      <4>2. Right[k + d].address < Right[k + d + 1].address /\ Right[k].address < Right[k + d].address
        BY <4>1, <3>3, <3>5
      <4>3. Right[k].address < Right[k + d + 1].address
        <5>1. /\ Right[k].address \in Nat /\ Right[k + d].address \in Nat
              /\ Right[k + d + 1].address \in Nat
          BY <4>1, <3>2
        <5>. QED
          BY <4>2, <5>1
      <4>. QED
        BY <4>1, <4>3
    <3>. HIDE DEF S, n
    <3>6. \A d \in 1..n : d \in S
      BY <3>1, <3>4, <3>5, UpTo
    <3>7. n \in S
      BY <3>1, <3>6
    <3>. QED
      BY <3>1, <3>7 DEF S
  <2>3. Targets = Right
    BY <2>1, <2>2, InOrderIs DEF Targets
  <2>. QED
    BY <2>3, ConnectionsAre
<1>. QED
  BY StatementsHold, <1>1, PTL

(* No port is left out that has a partner on the other side, at any width; *)
(* accumulated ports are the exception (OutputPort_wiring_impl.hh:34).     *)
THEOREM PartnersAreConnected == Spec => []AllPartnersConnected
<1>1. StatementInv => AllPartnersConnected
  <2>. SUFFICES ASSUME StatementInv, Wired, ~statement.accumulated
                PROVE  Cardinality(Connections) =
                         IF FansOut \/ Len(Right) <= Len(Left) THEN Len(Right) ELSE Len(Left)
    BY DEF AllPartnersConnected
  <2>. DEFINE n == IF FansOut \/ Len(Right) <= Len(Left) THEN Len(Right) ELSE Len(Left)
              draw == [k \in 1..n |-> <<Left[Turn(k)], Targets[k]>>]
  <2>1. Len(Left) \in Nat /\ Len(Right) \in Nat
    BY SidesHold DEF IsDistinct
  <2>2. n \in Nat /\ Partners = 1..n
    <3>1. CASE FansOut
      BY <2>1, <3>1 DEF Partners
    <3>2. CASE ~FansOut
      <4>1. \A x, y \in Nat : 1..x \cap 1..y = 1..(IF y <= x THEN y ELSE x)
        OBVIOUS
      <4>2. Partners = 1..Len(Left) \cap 1..Len(Right)
        BY <3>2 DEF Partners
      <4>3. n = IF Len(Right) <= Len(Left) THEN Len(Right) ELSE Len(Left)
        BY <3>2
      <4>. HIDE DEF n
      <4>4. 1..Len(Left) \cap 1..Len(Right) = 1..n
        BY <2>1, <4>1, <4>3
      <4>. QED
        BY <2>1, <4>2, <4>3, <4>4
    <3>. QED
      BY <3>1, <3>2
  <2>. HIDE DEF n
  <2>3. Connections = {draw[k] : k \in 1..n} /\ 1..n \subseteq 1..Len(Right)
    BY <2>2, ConnectionsAre
  <2>4. \A k, m \in 1..n : draw[k] = draw[m] => k = m
    <3>. SUFFICES ASSUME NEW k \in 1..n, NEW m \in 1..n, draw[k] = draw[m] PROVE k = m
      OBVIOUS
    <3>1. Targets[k] = Targets[m]
      OBVIOUS
    <3>. QED
      BY <3>1, <2>3, TargetsAre
  <2>. HIDE DEF draw
  <2>5. draw \in Bijection(1..n, Connections)
    <3>1. draw \in [1..n -> Connections]
      BY <2>3 DEF draw
    <3>. QED
      BY <3>1, <2>3, <2>4 DEF Bijection, Injection, Surjection, IsInjective
  <2>6. IsFiniteSet(1..n) /\ Cardinality(1..n) = n
    BY <2>2, FS_Interval
  <2>7. ExistsBijection(1..n, Connections)
    BY <2>5 DEF ExistsBijection
  <2>8. Cardinality(Connections) = n
    BY <2>6, <2>7, FS_Bijection
  <2>. QED
    BY <2>8 DEF n
<1>. QED
  BY StatementsHold, <1>1, PTL

=============================================================================
