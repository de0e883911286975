---------------------------- MODULE QueueLemmas ----------------------------
(* Lemmas about the lists and queues of the links: taking from the head,    *)
(* putting at the end, joining and splitting lists, and what a list in      *)
(* which nothing is twice holds.                                            *)
EXTENDS SequencesExt, FiniteSetTheorems, SequenceTheorems, TLAPS

(* A message taken from the head of a queue that holds nothing twice.       *)
LEMMA TakeHead ==
  ASSUME NEW S, NEW s \in Seq(S), s # <<>>, IsInjective(s)
  PROVE  /\ Head(s) \in S /\ Head(s) \in Range(s)
         /\ Tail(s) \in Seq(S) /\ IsInjective(Tail(s)) /\ Len(Tail(s)) = Len(s) - 1
         /\ \A x : x \in Range(Tail(s)) <=> x \in Range(s) /\ x # Head(s)
<1>1. /\ Len(s) \in Nat \ {0} /\ DOMAIN s = 1 .. Len(s)
      /\ Head(s) \in S /\ Head(s) = s[1]
      /\ Tail(s) \in Seq(S) /\ Len(Tail(s)) = Len(s) - 1
      /\ \A i \in 1 .. Len(Tail(s)) : Tail(s)[i] = s[i + 1]
  BY HeadTailProperties, EmptySeq, LenProperties
<1>2. DOMAIN Tail(s) = 1 .. Len(s) - 1
  BY <1>1, LenProperties
<1>3. \A i \in 1 .. Len(s) - 1 : i + 1 \in DOMAIN s /\ Tail(s)[i] = s[i + 1]
  BY <1>1
<1>4. IsInjective(Tail(s))
  <2>1. SUFFICES ASSUME NEW i \in 1 .. Len(s) - 1, NEW j \in 1 .. Len(s) - 1,
                        Tail(s)[i] = Tail(s)[j]
                 PROVE  i = j
    BY <1>2 DEF IsInjective
  <2>2. i + 1 = j + 1
    BY <1>3, <2>1 DEF IsInjective
  <2> QED
    BY <1>1, <2>2
<1>5. Head(s) \in Range(s)
  BY <1>1 DEF Range
<1>6. ASSUME NEW x, x \in Range(Tail(s)) PROVE x \in Range(s) /\ x # Head(s)
  <2>1. PICK i \in 1 .. Len(s) - 1 : x = Tail(s)[i]
    BY <1>2, <1>6 DEF Range
  <2>2. x = s[i + 1] /\ i + 1 \in DOMAIN s /\ i + 1 # 1 /\ 1 \in DOMAIN s
    BY <1>1, <1>3, <2>1
  <2> QED
    BY <1>1, <2>2 DEF Range, IsInjective
<1>7. ASSUME NEW x, x \in Range(s), x # Head(s) PROVE x \in Range(Tail(s))
  <2>1. PICK i \in DOMAIN s : x = s[i]
    BY <1>7 DEF Range
  <2>2. i # 1
    BY <1>1, <1>7, <2>1
  <2>3. i - 1 \in 1 .. Len(s) - 1 /\ (i - 1) + 1 = i
    BY <1>1, <2>1, <2>2
  <2>4. Tail(s)[i - 1] = s[i]
    BY <1>3, <2>3
  <2> QED
    BY <1>2, <2>1, <2>3, <2>4 DEF Range
<1> QED
  BY <1>1, <1>4, <1>5, <1>6, <1>7

(* A message put in a queue that does not hold it.                          *)
LEMMA PutLast ==
  ASSUME NEW S, NEW s \in Seq(S), NEW m \in S, m \notin Range(s), IsInjective(s)
  PROVE  /\ Append(s, m) \in Seq(S) /\ IsInjective(Append(s, m))
         /\ Len(Append(s, m)) = Len(s) + 1
         /\ \A x : x \in Range(Append(s, m)) <=> x \in Range(s) \/ x = m
<1>1. /\ Append(s, m) \in Seq(S) /\ Len(Append(s, m)) = Len(s) + 1
      /\ \A i \in 1 .. Len(s) : Append(s, m)[i] = s[i]
      /\ Append(s, m)[Len(s) + 1] = m
      /\ Len(s) \in Nat /\ DOMAIN s = 1 .. Len(s)
  BY AppendProperties, LenProperties
<1>2. DOMAIN Append(s, m) = 1 .. Len(s) + 1
  BY <1>1, LenProperties
<1>3. \A i \in 1 .. Len(s) + 1 : i \in 1 .. Len(s) \/ i = Len(s) + 1
  BY <1>1
<1>4. \A i \in 1 .. Len(s) : s[i] # m /\ i \in 1 .. Len(s) + 1
  BY <1>1 DEF Range
<1>5. IsInjective(Append(s, m))
  BY <1>1, <1>2, <1>3, <1>4 DEF IsInjective
<1>6. Len(s) + 1 \in 1 .. Len(s) + 1
  BY <1>1
<1>7. \A x : x \in Range(Append(s, m)) <=> x \in Range(s) \/ x = m
  BY <1>1, <1>2, <1>3, <1>4, <1>6 DEF Range
<1> QED
  BY <1>1, <1>5, <1>7

(* A list put behind another, as PutFull does: what it holds, and when      *)
(* nothing is in it twice.                                                  *)
LEMMA ConcatLists ==
  ASSUME NEW S, NEW s \in Seq(S), NEW t \in Seq(S)
  PROVE  /\ Range(s \o t) = Range(s) \cup Range(t)
         /\ IsInjective(s \o t) <=> /\ IsInjective(s) /\ IsInjective(t)
                                    /\ Range(s) \cap Range(t) = {}
<1>1. /\ Len(s) \in Nat /\ Len(t) \in Nat
      /\ DOMAIN s = 1 .. Len(s) /\ DOMAIN t = 1 .. Len(t)
      /\ DOMAIN (s \o t) = 1 .. Len(s) + Len(t)
  BY ConcatProperties, LenProperties
<1>2. /\ \A i \in DOMAIN s : i \in DOMAIN (s \o t) /\ (s \o t)[i] = s[i]
      /\ \A i \in DOMAIN t : /\ i + Len(s) \in DOMAIN (s \o t)
                             /\ (s \o t)[i + Len(s)] = t[i]
      /\ \A i \in DOMAIN (s \o t) :
           \/ i \in DOMAIN s /\ (s \o t)[i] = s[i]
           \/ i - Len(s) \in DOMAIN t /\ (s \o t)[i] = t[i - Len(s)]
  BY <1>1, ConcatProperties
<1>3. Range(s \o t) = Range(s) \cup Range(t)
  BY RangeConcatenation
<1>4. ASSUME IsInjective(s \o t)
      PROVE  IsInjective(s) /\ IsInjective(t) /\ Range(s) \cap Range(t) = {}
  <2>1. IsInjective(s)
    BY <1>2, <1>4 DEF IsInjective
  <2>2. ASSUME NEW i \in DOMAIN t, NEW j \in DOMAIN t, t[i] = t[j] PROVE i = j
    <3>1. i + Len(s) = j + Len(s)
      BY <1>2, <1>4, <2>2 DEF IsInjective
    <3> QED
      BY <1>1, <3>1
  <2>3. ASSUME NEW i \in DOMAIN s, NEW j \in DOMAIN t PROVE s[i] # t[j]
    <3>1. i # j + Len(s)
      BY <1>1
    <3> QED
      BY <1>2, <1>4, <3>1 DEF IsInjective
  <2> QED
    BY <2>1, <2>2, <2>3 DEF Range, IsInjective
<1>5. ASSUME IsInjective(s), IsInjective(t), Range(s) \cap Range(t) = {}
      PROVE  IsInjective(s \o t)
  <2>1. \A i \in DOMAIN s, j \in DOMAIN t : s[i] # t[j]
    BY <1>5 DEF Range
  <2>2. SUFFICES ASSUME NEW i \in DOMAIN (s \o t), NEW j \in DOMAIN (s \o t),
                        (s \o t)[i] = (s \o t)[j]
                 PROVE  i = j
    BY DEF IsInjective
  <2>3. CASE i \in DOMAIN s /\ j \in DOMAIN s
    BY <1>2, <1>5, <2>2, <2>3 DEF IsInjective
  <2>4. CASE /\ i - Len(s) \in DOMAIN t /\ (s \o t)[i] = t[i - Len(s)]
             /\ j - Len(s) \in DOMAIN t /\ (s \o t)[j] = t[j - Len(s)]
    <3>1. i - Len(s) = j - Len(s)
      BY <1>5, <2>2, <2>4 DEF IsInjective
    <3> QED
      BY <1>1, <3>1
  <2> QED
    BY <1>2, <2>1, <2>2, <2>3, <2>4
<1> QED
  BY <1>3, <1>4, <1>5

(* A list in which nothing is twice is as long as what it holds is many.    *)
LEMMA ListLength ==
  ASSUME NEW S, NEW s \in Seq(S), IsInjective(s)
  PROVE  IsFiniteSet(Range(s)) /\ Cardinality(Range(s)) = Len(s)
<1>1. Len(s) \in Nat /\ DOMAIN s = 1 .. Len(s) /\ s \in [1 .. Len(s) -> S]
  BY LenProperties
<1>2. s \in [1 .. Len(s) -> Range(s)]
  BY <1>1 DEF Range
<1>3. s \in Surjection(1 .. Len(s), Range(s)) /\ s \in Injection(1 .. Len(s), Range(s))
  BY <1>1, <1>2 DEF Surjection, Injection, IsInjective, Range
<1>4. IsFiniteSet(1 .. Len(s)) /\ Cardinality(1 .. Len(s)) = Len(s)
  BY <1>1, FS_Interval
<1> QED
  BY <1>3, <1>4, FS_Surjection

(* What a next link fetches and what it leaves are the full queue.          *)
LEMMA SplitList ==
  ASSUME NEW S, NEW s \in Seq(S), NEW n \in 0 .. Len(s)
  PROVE  LET p == SubSeq(s, 1, n)
             r == SubSeq(s, n + 1, Len(s))
         IN  p \in Seq(S) /\ r \in Seq(S) /\ p \o r = s
<1>1. Len(s) \in Nat /\ \A i \in 1 .. Len(s) : s[i] \in S
  BY LenProperties
<1>2. SubSeq(s, 1, n) \in Seq(S) /\ SubSeq(s, n + 1, Len(s)) \in Seq(S)
  <2>1. (\A i \in 1 .. n : s[i] \in S) /\ (\A i \in n + 1 .. Len(s) : s[i] \in S)
    BY <1>1
  <2>2. 1 \in Int /\ n \in Int /\ n + 1 \in Int /\ Len(s) \in Int
    BY <1>1
  <2> QED
    BY <2>1, <2>2, SubSeqProperties
<1>3. SubSeq(s, 1, n) \o SubSeq(s, n + 1, Len(s)) = SubSeq(s, 1, Len(s))
  <2>1. 1 \in 1 .. Len(s) + 1 /\ n \in 1 - 1 .. Len(s) /\ Len(s) \in n .. Len(s)
    BY <1>1
  <2> QED
    BY <2>1, ConcatAdjacentSubSeq
<1> QED
  BY <1>2, <1>3, SubSeqFull


(* What a list holds, by either of its names.                               *)
LEMMA ListSet == ASSUME NEW s PROVE ToSet(s) = Range(s)
  BY DEF ToSet, Range

(* A list holds nothing exactly when it is empty.                           *)
LEMMA ListEmpty ==
  ASSUME NEW S, NEW s \in Seq(S)
  PROVE  Range(s) \subseteq S /\ (Range(s) = {} <=> s = <<>>)
<1>1. /\ Len(s) \in Nat /\ DOMAIN s = 1 .. Len(s) /\ \A i \in DOMAIN s : s[i] \in S
      /\ s = <<>> <=> Len(s) = 0
  BY LenProperties, EmptySeq
<1>2. Range(s) \subseteq S
  BY <1>1 DEF Range
<1>3. s # <<>> => Range(s) # {}
  <2>1. s # <<>> => 1 \in DOMAIN s
    BY <1>1
  <2> QED
    BY <2>1 DEF Range
<1>4. s = <<>> => Range(s) = {}
  <2>1. Len(s) = 0 => DOMAIN s = {}
    BY <1>1
  <2> QED
    BY <1>1, <2>1 DEF Range
<1> QED
  BY <1>2, <1>3, <1>4

(* A list of none and of one.                                               *)
LEMMA ShortLists ==
  ASSUME NEW S
  PROVE  /\ <<>> \in Seq(S) /\ Range(<<>>) = {} /\ IsInjective(<<>>)
         /\ \A x \in S : /\ <<x>> \in Seq(S) /\ Len(<<x>>) = 1 /\ <<x>>[1] = x
                        /\ Range(<<x>>) = {x} /\ IsInjective(<<x>>)
  BY DEF Range, IsInjective

(* A finite set put in a list: the list holds it, and nothing twice.        *)
LEMMA SetListed ==
  ASSUME NEW S, IsFiniteSet(S)
  PROVE  /\ SetToSeq(S) \in Seq(S) /\ Len(SetToSeq(S)) = Cardinality(S)
         /\ IsInjective(SetToSeq(S)) /\ Range(SetToSeq(S)) = S
<1> DEFINE n == Cardinality(S)
<1>1. n \in Nat /\ ExistsBijection(1 .. n, S)
  BY FS_CardinalityType
<1>2. \E f \in [1 .. n -> S] : IsInjective(f)
  BY <1>1 DEF ExistsBijection, Bijection, Injection, IsInjective
<1>3. SetToSeq(S) \in [1 .. n -> S] /\ IsInjective(SetToSeq(S))
  BY <1>2 DEF SetToSeq
<1>4. SetToSeq(S) \in Seq(S) /\ Len(SetToSeq(S)) = n
  BY <1>1, <1>3, IsASeq, LenProperties
<1>5. IsFiniteSet(Range(SetToSeq(S))) /\ Cardinality(Range(SetToSeq(S))) = n
  BY <1>3, <1>4, ListLength
<1>6. Range(SetToSeq(S)) \subseteq S
  BY <1>4, ListEmpty
<1> QED
  BY <1>3, <1>4, <1>5, <1>6, FS_Subset

-----------------------------------------------------------------------------
(* Things that are in one place.                                            *)

\* at[p] is what place p holds: every thing is in one place.
InOnePlace(at, Things) ==
  \A x \in Things : \E p \in DOMAIN at : \A q \in DOMAIN at : x \in at[q] <=> q = p

(* What is in two places is in one.                                         *)
LEMMA SamePlace ==
  ASSUME NEW at, NEW Things, InOnePlace(at, Things), NEW x \in Things,
         NEW p \in DOMAIN at, NEW q \in DOMAIN at, x \in at[p], x \in at[q]
  PROVE  p = q
  BY DEF InOnePlace

(* A thing that goes from one place to another is in one place again.       *)
LEMMA MoveOne ==
  ASSUME NEW at, NEW next, NEW Things, InOnePlace(at, Things),
         DOMAIN next = DOMAIN at,
         NEW x \in Things, NEW p \in DOMAIN at, NEW q \in DOMAIN at,
         p # q, x \in at[p],
         \A y \in Things : y \in next[p] <=> y \in at[p] /\ y # x,
         \A y \in Things : y \in next[q] <=> y \in at[q] \/ y = x,
         \A r \in DOMAIN at : r # p /\ r # q => next[r] = at[r]
  PROVE  InOnePlace(next, Things)
<1>1. \A r \in DOMAIN at : x \in at[r] <=> r = p
  BY DEF InOnePlace
<1>2. \A r \in DOMAIN at, y \in Things :
        y \in next[r] <=> IF y = x THEN r = q ELSE y \in at[r]
  BY <1>1
<1>3. ASSUME NEW y \in Things
      PROVE  \E r \in DOMAIN at : \A t \in DOMAIN at : y \in next[t] <=> t = r
  BY <1>2 DEF InOnePlace
<1> QED
  BY <1>3 DEF InOnePlace

(* All that is in one place goes to another: each thing is in one place     *)
(* again.                                                                   *)
LEMMA MoveAll ==
  ASSUME NEW at, NEW next, NEW Things, InOnePlace(at, Things),
         DOMAIN next = DOMAIN at,
         NEW p \in DOMAIN at, NEW q \in DOMAIN at, p # q,
         \A y \in Things : y \notin next[p],
         \A y \in Things : y \in next[q] <=> y \in at[q] \/ y \in at[p],
         \A r \in DOMAIN at : r # p /\ r # q => next[r] = at[r]
  PROVE  InOnePlace(next, Things)
<1>1. ASSUME NEW y \in Things
      PROVE  \E r \in DOMAIN at : \A t \in DOMAIN at : y \in next[t] <=> t = r
  <2>1. PICK s \in DOMAIN at : \A t \in DOMAIN at : y \in at[t] <=> t = s
    BY DEF InOnePlace
  <2>2. CASE s = p
    BY <2>1, <2>2
  <2>3. CASE s # p
    BY <2>1, <2>3
  <2> QED
    BY <2>2, <2>3
<1> QED
  BY <1>1 DEF InOnePlace

(* Some of what is in one place goes to another.                            *)
LEMMA MoveSome ==
  ASSUME NEW at, NEW next, NEW Things, InOnePlace(at, Things),
         DOMAIN next = DOMAIN at,
         NEW M, NEW p \in DOMAIN at, NEW q \in DOMAIN at, p # q, M \subseteq at[p],
         \A y \in Things : y \in next[p] <=> y \in at[p] /\ y \notin M,
         \A y \in Things : y \in next[q] <=> y \in at[q] \/ y \in M,
         \A r \in DOMAIN at : r # p /\ r # q => next[r] = at[r]
  PROVE  InOnePlace(next, Things)
<1>1. ASSUME NEW y \in Things
      PROVE  \E r \in DOMAIN at : \A t \in DOMAIN at : y \in next[t] <=> t = r
  <2>1. PICK s \in DOMAIN at : \A t \in DOMAIN at : y \in at[t] <=> t = s
    BY DEF InOnePlace
  <2>2. CASE y \in M
    <3>1. s = p /\ y \in next[q] /\ y \notin next[p]
      BY <2>1, <2>2
    <3> QED
      BY <2>1, <3>1
  <2>3. CASE y \notin M
    BY <2>1, <2>3
  <2> QED
    BY <2>2, <2>3
<1> QED
  BY <1>1 DEF InOnePlace

=============================================================================
