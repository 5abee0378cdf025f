------------------------------ MODULE QueueLemmas ------------------------------
(***************************************************************************)
(* The queues of the models, the kernel's listen queue and request_queue,  *)
(* as sequences and as the sets of their elements: what Append and Tail do *)
(* to both; and that a set of indices has a least one.                     *)
(***************************************************************************)
EXTENDS Integers, Sequences, FiniteSets, SequenceTheorems, FiniteSetTheorems,
        WellFoundedInduction, TLAPS

(* Append adds one element at the end.                                     *)
LEMMA AppendElems ==
  ASSUME NEW S, NEW s \in Seq(S), NEW x \in S
  PROVE  /\ Append(s, x) \in Seq(S)
         /\ Len(s) \in Nat
         /\ Append(s, x) # <<>>
         /\ Len(Append(s, x)) = Len(s) + 1
         /\ \A i \in 1..Len(s) : Append(s, x)[i] = s[i]
         /\ Append(s, x)[Len(s) + 1] = x
         /\ {Append(s, x)[i] : i \in 1..Len(Append(s, x))}
              = {s[i] : i \in 1..Len(s)} \cup {x}
<1> DEFINE t == Append(s, x)
<1>1. /\ t \in Seq(S) /\ t # <<>> /\ Len(t) = Len(s) + 1
      /\ \A i \in 1..Len(s) : t[i] = s[i]
      /\ t[Len(s) + 1] = x
  BY AppendProperties
<1>2. Len(s) \in Nat
  BY LenProperties
<1>3. 1..Len(t) = 1..Len(s) \cup {Len(s) + 1}
  BY <1>1, <1>2
<1>4. {t[i] : i \in 1..Len(t)} = {s[i] : i \in 1..Len(s)} \cup {x}
  BY <1>1, <1>3
<1> QED
  BY <1>1, <1>2, <1>4

(* Tail takes the head, for good if nothing is there twice.                *)
LEMMA TailElems ==
  ASSUME NEW S, NEW s \in Seq(S), s # <<>>
  PROVE  /\ Head(s) \in S
         /\ Head(s) = s[1]
         /\ Tail(s) \in Seq(S)
         /\ Len(s) \in Nat \ {0}
         /\ Len(Tail(s)) = Len(s) - 1
         /\ \A i \in 1..Len(Tail(s)) : Tail(s)[i] = s[i + 1] /\ i + 1 \in 1..Len(s)
         /\ {Tail(s)[i] : i \in 1..Len(Tail(s))} \subseteq {s[i] : i \in 1..Len(s)}
         /\ Head(s) \in {s[i] : i \in 1..Len(s)}
         /\ (\A i, j \in 1..Len(s) : s[i] = s[j] => i = j)
              => Head(s) \notin {Tail(s)[i] : i \in 1..Len(Tail(s))}
<1>1. /\ Head(s) \in S /\ Tail(s) \in Seq(S) /\ Len(Tail(s)) = Len(s) - 1
      /\ \A i \in 1..Len(Tail(s)) : Tail(s)[i] = s[i + 1]
  BY HeadTailProperties
<1>2. Len(s) \in Nat \ {0} /\ Head(s) = s[1]
  BY EmptySeq, LenProperties, SeqEqual
<1>3. \A i \in 1..Len(Tail(s)) : i + 1 \in 1..Len(s) /\ i + 1 # 1
  BY <1>1, <1>2
<1> QED
  BY <1>1, <1>2, <1>3

(* Taking the head of a sequence without duplicates takes it for good.     *)
LEMMA TailDistinct ==
  ASSUME NEW S, NEW s \in Seq(S), s # <<>>,
         \A i, j \in 1..Len(s) : s[i] = s[j] => i = j
  PROVE  /\ Head(s) \in S
         /\ Tail(s) \in Seq(S)
         /\ Len(s) \in Nat \ {0}
         /\ Len(Tail(s)) = Len(s) - 1
         /\ \A i, j \in 1..Len(Tail(s)) : Tail(s)[i] = Tail(s)[j] => i = j
         /\ {Tail(s)[i] : i \in 1..Len(Tail(s))}
              = {s[i] : i \in 1..Len(s)} \ {Head(s)}
         /\ Head(s) \in {s[i] : i \in 1..Len(s)}
<1> DEFINE t == Tail(s)
<1>1. /\ Head(s) \in S /\ t \in Seq(S) /\ Len(t) = Len(s) - 1
      /\ \A i \in 1..Len(t) : t[i] = s[i + 1]
  BY HeadTailProperties
<1>2. Len(s) \in Nat \ {0} /\ Head(s) = s[1]
  BY EmptySeq, LenProperties, SeqEqual
<1>3. \A i \in 1..Len(t) : i + 1 \in 1..Len(s) /\ i + 1 # 1
  BY <1>1, <1>2
<1>4. \A i, j \in 1..Len(t) : t[i] = t[j] => i = j
  BY <1>1, <1>2, <1>3
<1>5. {t[i] : i \in 1..Len(t)} = {s[i] : i \in 1..Len(s)} \ {Head(s)}
  <2>1. \A k \in 1..Len(s) : k # 1 => k - 1 \in 1..Len(t) /\ t[k - 1] = s[k]
    BY <1>1, <1>2
  <2>2. \A i \in 1..Len(t) : t[i] # s[1] /\ t[i] \in {s[k] : k \in 1..Len(s)}
    BY <1>1, <1>2, <1>3
  <2> DEFINE L == {t[i] : i \in 1..Len(t)}
             R == {s[i] : i \in 1..Len(s)}
  <2>3. ASSUME NEW x \in R, x # Head(s) PROVE x \in L
    <3>1. PICK k \in 1..Len(s) : x = s[k]
      OBVIOUS
    <3> QED BY <1>2, <2>1, <2>3, <3>1
  <2>4. L \subseteq R \ {Head(s)}
    BY <1>2, <2>2
  <2> QED BY <2>3, <2>4
<1>6. Head(s) \in {s[i] : i \in 1..Len(s)}
  BY <1>2
<1> QED
  BY <1>1, <1>2, <1>4, <1>5, <1>6

(* A non-empty set of indices has a least one.                             *)
LEMMA LeastExists ==
  ASSUME NEW n \in Nat, NEW S \in SUBSET (1..n), S # {}
  PROVE  \E i \in S : \A j \in S : i <= j
<1> DEFINE Below(i) == {j \in S : j <= i}
           T == {Below(i) : i \in S}
<1>1. IsWellFoundedOn(StrictSubsetOrdering(1..n), SUBSET (1..n))
  <2>1. IsFiniteSet(1..n)
    BY FS_Interval
  <2> QED
    BY <2>1, FS_FiniteSubsetsOfFinite, FS_StrictSubsetOrderingWellFounded, Zenon
<1>2. T \subseteq SUBSET (1..n) /\ T # {}
  OBVIOUS
<1>3. PICK t \in T : \A u \in T : <<u, t>> \notin StrictSubsetOrdering(1..n)
  <2> HIDE DEF T
  <2> QED
    BY <1>1, <1>2, WFMin, Zenon
<1>4. PICK i \in S : t = Below(i)
  OBVIOUS
<1>5. \A j \in S : i <= j
  <2> SUFFICES ASSUME NEW j \in S, j < i
               PROVE  FALSE
    OBVIOUS
  <2>1. Below(j) \subseteq t /\ Below(j) # t
    <3>1. i \in t /\ i \notin Below(j)
      BY <1>4
    <3>2. \A k \in Below(j) : k \in t
      BY <1>4
    <3> QED
      BY <3>1, <3>2, Zenon
  <2>2. Below(j) \in SUBSET (1..n) /\ t \in SUBSET (1..n) /\ Below(j) \in T
    BY <1>2
  <2>3. <<Below(j), t>> \in StrictSubsetOrdering(1..n)
    <3> HIDE DEF Below
    <3> QED
      BY <2>1, <2>2 DEF StrictSubsetOrdering
  <2> QED
    BY <1>3, <2>2, <2>3
<1> QED
  BY <1>5
=============================================================================
