--------------------------- MODULE DupLinkProofs ---------------------------
(* Theorems about DupLink for any number of frames and outputs, when the    *)
(* pool of an output has twice as many duplicates as there are frames.      *)
EXTENDS DupLink, QueueLemmas

(* The outputs are visited in turn.                                         *)
LEMMA NextOut ==
  ASSUME outId \in Outs
  PROVE  /\ (outId + 1) % NumOutQue \in Outs
         /\ (outId + 1) % NumOutQue = IF outId = NumOutQue - 1 THEN 0 ELSE outId + 1
  BY DupAssumption DEF Outs

(* The outputs are finitely many.                                           *)
LEMMA OutsFinite == IsFiniteSet(Outs) /\ Cardinality(Outs) = NumOutQue
  BY DupAssumption, FS_Interval DEF Outs

-----------------------------------------------------------------------------
(* The strengthening that makes the counts inductive.                       *)

BigPool == PoolSize >= 2 * Cardinality(Frames)

\* Frames output o is yet to get a duplicate of, and all those it owes.
Pend(o) == {inList[i] : i \in ToDup(o)}
Has(o) == held[o] \cup Range(full[o]) \cup Range(outList[o]) \cup Pend(o)

Holders(f) == {o \in Outs : f \in Has(o)}

LoopInv ==
  /\ IsInjective(inList)
  /\ tpc = "dup" => frameId \in DOMAIN inList
  /\ \A o \in Outs :
       \/ tpc = "recv"
       \/ tpc = "put" /\ o < outId
       \/ tpc = "notify" /\ o =< outId
       => outList[o] = <<>>

Apart == \A o \in Outs :
  /\ IsInjective(full[o]) /\ IsInjective(outList[o])
  /\ held[o] \cap Range(full[o]) = {}
  /\ held[o] \cap Range(outList[o]) = {}
  /\ Range(full[o]) \cap Range(outList[o]) = {}
  /\ Pend(o) \cap (held[o] \cup Range(full[o]) \cup Range(outList[o])) = {}

HomeInv == \A o \in Outs : Has(o) \cap up = {}

FreeInv == \A o \in Outs :
  /\ freeList[o] # {} => npc[o] = "putup"
  /\ freeList[o] \cap up = {}
  /\ \A p \in Outs : freeList[o] \cap Has(p) = {}

LockInv == \A o \in Outs :
  IF npc[o] = "idle" THEN back[o] = {} ELSE lock = o

Sharing == LoopInv /\ Apart /\ HomeInv /\ FreeInv /\ LockInv

CountInv == \A f \in Frames \ Unstarted : dupCount[f] = Cardinality(Holders(f))

IInv == TypeOK /\ Sharing /\ CountInv /\ PoolConserved /\ PoolLasts

\* A step after which every output owes what it did.
Kept == \A o \in Outs : Has(o)' = Has(o)

(* Has collects the frames an output owes.                                  *)
LEMMA OwesHas == \A o, f : Owes(o, f) <=> f \in Has(o)
  BY DEF Owes, Has, Pend

(* CountInv says of Has what CountIsLoans says of Owes.                     *)
LEMMA CountsAgree == CountInv <=> CountIsLoans
<1>1. \A f : Holders(f) = {o \in Outs : Owes(o, f)}
  BY OwesHas DEF Holders
<1> QED
  BY <1>1 DEF CountInv, CountIsLoans

(* Everything a well-typed state counts is a finite number of frames.       *)
LEMMA Sizes ==
  ASSUME TypeOK, Apart, NEW o \in Outs
  PROVE  /\ IsFiniteSet(held[o]) /\ Cardinality(held[o]) \in Nat
         /\ IsFiniteSet(back[o]) /\ Cardinality(back[o]) \in Nat
         /\ Cardinality(back[o]) =< Cardinality(Frames)
         /\ Range(full[o]) \subseteq Frames /\ IsFiniteSet(Range(full[o]))
         /\ Range(outList[o]) \subseteq Frames /\ IsFiniteSet(Range(outList[o]))
         /\ Cardinality(Range(full[o])) = Len(full[o]) /\ Len(full[o]) \in Nat
         /\ Cardinality(Range(outList[o])) = Len(outList[o])
         /\ Len(outList[o]) \in Nat
<1>1. held[o] \in SUBSET Frames /\ back[o] \in SUBSET Frames
      /\ full[o] \in Seq(Frames) /\ outList[o] \in Seq(Frames)
  BY DEF TypeOK
<1>2. IsFiniteSet(Frames)
  BY DupAssumption
<1> QED
  BY <1>1, <1>2, FS_Subset, FS_CardinalityType, RangeOfSeq, ListLength,
     LenProperties DEF Apart

(* Holders are outputs.                                                     *)
LEMMA HoldersFinite ==
  ASSUME NEW f
  PROVE  IsFiniteSet(Holders(f)) /\ Cardinality(Holders(f)) \in 0 .. NumOutQue
<1>1. Holders(f) \in SUBSET Outs
  BY DEF Holders
<1> QED
  BY <1>1, OutsFinite, FS_Subset, FS_CardinalityType

(* The created link owes nothing.                                           *)
LEMMA InvInit == Init => IInv
<1> SUFFICES ASSUME Init PROVE IInv
  OBVIOUS
<1> USE DEF Init
<1>1. TypeOK
  BY DupAssumption, EmptySeq DEF TypeOK, Outs
<1>2. \A o \in Outs : Pend(o) = {} /\ Has(o) = {}
  BY DEF Pend, ToDup, Has, Range
<1>3. Sharing
  BY <1>2 DEF Sharing, LoopInv, Apart, HomeInv, FreeInv, LockInv, IsInjective, Range
<1>4. CountInv
  BY <1>2, FS_EmptySet DEF CountInv, Holders
<1>5. PoolConserved
  BY DupAssumption, FS_EmptySet DEF PoolConserved
<1> QED
  BY <1>1, <1>3, <1>4, <1>5 DEF IInv, PoolLasts

(* A notification changes nothing that is counted.                          *)
LEMMA NotifyInv == IInv /\ Notify => IInv' /\ Kept
<1> SUFFICES ASSUME IInv, Notify PROVE IInv' /\ Kept
  OBVIOUS
<1> USE DEF IInv
<1>1. /\ tpc = "notify" /\ tpc' = IF outId' = 0 THEN "recv" ELSE "put"
      /\ UNCHANGED <<up, dupCount, empty, full, inList, outList, frameId, lock,
                     held, npc, back, freeList>>
  BY DEF Notify, next
<1>2. /\ outId' \in Outs
      /\ IF outId = NumOutQue - 1 THEN outId' = 0 ELSE outId' = outId + 1
  BY NextOut DEF Notify, TypeOK
<1>3. news' \in [Outs -> 0 .. MaxNews]
  BY DupAssumption DEF Notify, TypeOK
<1>4. TypeOK'
  BY <1>1, <1>2, <1>3 DEF TypeOK
<1>5. \A o : Pend(o)' = Pend(o) /\ Has(o)' = Has(o)
  BY <1>1 DEF Pend, ToDup, Has
<1>6. LoopInv'
  <2>1. ASSUME NEW o \in Outs, tpc' = "recv" \/ (tpc' = "put" /\ o < outId')
        PROVE  outList[o] = <<>>
    <3>1. o =< outId
      BY <1>1, <1>2, <2>1, DupAssumption DEF Outs, TypeOK
    <3> QED
      BY <1>1, <3>1 DEF Sharing, LoopInv
  <2> QED
    BY <1>1, <2>1 DEF Sharing, LoopInv
<1>7. Sharing'
  BY <1>1, <1>5, <1>6 DEF Sharing, Apart, HomeInv, FreeInv, LockInv
<1>8. CountInv'
  BY <1>1, <1>5 DEF CountInv, Holders, Unstarted
<1> QED
  BY <1>1, <1>4, <1>5, <1>7, <1>8 DEF PoolConserved, PoolLasts, Kept

(* A full queue takes what was in the list: the output still owes it.       *)
LEMMA PutFullInv == IInv /\ PutFull => IInv' /\ Kept
<1> SUFFICES ASSUME IInv, PutFull PROVE IInv' /\ Kept
  OBVIOUS
<1> USE DEF IInv
<1>1. /\ tpc = "put" /\ tpc' = "notify"
      /\ full' = [full EXCEPT ![outId] = @ \o outList[outId]]
      /\ outList' = [outList EXCEPT ![outId] = <<>>]
      /\ UNCHANGED <<up, dupCount, empty, inList, frameId, outId, lock, news,
                     held, npc, back, freeList>>
  BY DEF PutFull, next
<1>2. /\ outId \in Outs
      /\ full[outId] \in Seq(Frames) /\ outList[outId] \in Seq(Frames)
      /\ IsInjective(full[outId]) /\ IsInjective(outList[outId])
      /\ Range(full[outId]) \cap Range(outList[outId]) = {}
  BY DEF TypeOK, Sharing, Apart
<1>3. \A o \in Outs :
        IF o = outId THEN /\ full'[o] = full[o] \o outList[o]
                          /\ outList'[o] = <<>>
                     ELSE full'[o] = full[o] /\ outList'[o] = outList[o]
  BY <1>1, <1>2 DEF TypeOK
<1>4. full[outId] \o outList[outId] \in Seq(Frames) /\ <<>> \in Seq(Frames)
      /\ Len(full[outId] \o outList[outId]) = Len(full[outId]) + Len(outList[outId])
      /\ Len(<<>>) = 0 /\ Range(<<>>) = {} /\ IsInjective(<<>>)
  <2>1. Range(<<>>) = {} /\ IsInjective(<<>>)
    BY DEF Range, IsInjective
  <2> QED
    BY <1>2, <2>1, EmptySeq, ConcatProperties
<1>5. /\ Range(full[outId] \o outList[outId]) = Range(full[outId]) \cup Range(outList[outId])
      /\ IsInjective(full[outId] \o outList[outId])
  BY <1>2, ConcatLists
<1>6. TypeOK'
  BY <1>1, <1>2, <1>4 DEF TypeOK
<1>7. \A o \in Outs : Pend(o)' = Pend(o) /\ Has(o)' = Has(o)
  <2>1. \A o : Pend(o)' = Pend(o)
    BY <1>1 DEF Pend, ToDup
  <2>2. \A o \in Outs : Range(full[o])' \cup Range(outList[o])'
                          = Range(full[o]) \cup Range(outList[o])
    BY <1>3, <1>4, <1>5
  <2> QED
    BY <1>1, <2>1, <2>2 DEF Has
<1>8. LoopInv'
  <2>1. ASSUME NEW o \in Outs, o =< outId PROVE outList[o]' = <<>>
    <3>1. CASE o = outId
      BY <1>3, <3>1
    <3>2. CASE o < outId
      BY <1>1, <1>3, <3>2 DEF Sharing, LoopInv
    <3> QED
      BY <2>1, <3>1, <3>2, <1>2 DEF Outs
  <2> QED
    BY <1>1, <2>1 DEF Sharing, LoopInv
<1>9. Apart'
  <2>1. ASSUME NEW o \in Outs
        PROVE  /\ IsInjective(full'[o]) /\ IsInjective(outList'[o])
               /\ held[o] \cap Range(full'[o]) = {}
               /\ held[o] \cap Range(outList'[o]) = {}
               /\ Range(full'[o]) \cap Range(outList'[o]) = {}
               /\ Pend(o) \cap (held[o] \cup Range(full'[o]) \cup Range(outList'[o])) = {}
    <3>1. CASE o = outId
      BY <1>3, <1>4, <1>5, <3>1 DEF Sharing, Apart
    <3>2. CASE o # outId
      BY <1>3, <3>2 DEF Sharing, Apart
    <3> QED
      BY <3>1, <3>2
  <2> QED
    BY <1>1, <1>7, <2>1 DEF Apart
<1>10. Sharing'
  BY <1>1, <1>7, <1>8, <1>9 DEF Sharing, HomeInv, FreeInv, LockInv
<1>11. CountInv'
  <2>1. Unstarted' = Unstarted
    BY <1>1 DEF Unstarted
  <2>2. \A f : Holders(f)' = Holders(f)
    BY <1>7 DEF Holders
  <2> QED
    BY <1>1, <2>1, <2>2 DEF CountInv
<1>12. PoolConserved'
  <2>1. ASSUME NEW o \in Outs
        PROVE  /\ Len(outList'[o]) + Len(full'[o]) = Len(outList[o]) + Len(full[o])
               /\ Len(outList'[o]) \in Nat /\ Len(full'[o]) \in Nat
    <3> DEFINE f == Len(full[o])
               l == Len(outList[o])
               f2 == Len(full'[o])
               l2 == Len(outList'[o])
    <3>1. f \in Nat /\ l \in Nat
      BY Sizes DEF Sharing
    <3>2. IF o = outId THEN f2 = f + l /\ l2 = 0 ELSE f2 = f /\ l2 = l
      BY <1>3, <1>4
    <3> HIDE DEF f, l, f2, l2
    <3>3. l2 + f2 = l + f /\ l2 \in Nat /\ f2 \in Nat
      BY <3>1, <3>2
    <3> QED
      BY <3>3 DEF f, l, f2, l2
  <2>2. ASSUME NEW o \in Outs
        PROVE  PoolSize = empty[o] + Len(outList'[o]) + Len(full'[o])
                            + Cardinality(held[o]) + Cardinality(back[o])
    <3> DEFINE f == Len(full[o])
               l == Len(outList[o])
               f2 == Len(full'[o])
               l2 == Len(outList'[o])
               h == Cardinality(held[o])
               b == Cardinality(back[o])
    <3>1. f \in Nat /\ l \in Nat /\ h \in Nat /\ b \in Nat /\ empty[o] \in Nat
      BY Sizes DEF Sharing, TypeOK
    <3>2. PoolSize = empty[o] + l + f + h + b
      BY DEF PoolConserved
    <3>3. l2 + f2 = l + f /\ l2 \in Nat /\ f2 \in Nat
      BY <2>1
    <3> HIDE DEF f, l, f2, l2, h, b
    <3>4. PoolSize = empty[o] + l2 + f2 + h + b
      BY <3>1, <3>2, <3>3
    <3> QED
      BY <3>4 DEF f, l, f2, l2, h, b
  <2> QED
    BY <1>1, <2>2 DEF PoolConserved
<1> QED
  BY <1>1, <1>6, <1>7, <1>10, <1>11, <1>12 DEF PoolLasts, Kept

(* A next link owes the frames it fetches as it did before.                 *)
LEMMA FetchInv == ASSUME NEW o \in Outs PROVE IInv /\ Fetch(o) => IInv' /\ Kept
<1> SUFFICES ASSUME IInv, Fetch(o) PROVE IInv' /\ Kept
  OBVIOUS
<1> USE DEF IInv
<1> DEFINE n == IF Len(full[o]) > MaxList THEN MaxList ELSE Len(full[o])
           p == SubSeq(full[o], 1, n)
           r == SubSeq(full[o], n + 1, Len(full[o]))
<1>1. /\ news[o] > 0 /\ news' = [news EXCEPT ![o] = IF o \in Flushing THEN 0 ELSE @ - 1]
      /\ held' = [held EXCEPT ![o] = @ \cup Range(p)]
      /\ full' = [full EXCEPT ![o] = r]
      /\ UNCHANGED <<up, dupCount, empty, inList, outList, tpc, frameId, outId,
                     lock, npc, back, freeList>>
  BY DEF Fetch, task
<1>2. full[o] \in Seq(Frames) /\ IsInjective(full[o])
  BY DEF TypeOK, Sharing, Apart
<1>3. p \in Seq(Frames) /\ r \in Seq(Frames) /\ p \o r = full[o]
  <2>1. n \in 0 .. Len(full[o])
    BY <1>2, LenProperties, DupAssumption
  <2> HIDE DEF n
  <2> QED
    BY <1>2, <2>1, SplitList
<1> HIDE DEF p, r
<1>4. /\ Range(full[o]) = Range(p) \cup Range(r) /\ Range(p) \cap Range(r) = {}
      /\ IsInjective(p) /\ IsInjective(r)
  <2>1. /\ Range(p \o r) = Range(p) \cup Range(r)
        /\ IsInjective(p \o r) <=> /\ IsInjective(p) /\ IsInjective(r)
                                   /\ Range(p) \cap Range(r) = {}
    BY <1>3, ConcatLists
  <2> QED
    BY <1>2, <1>3, <2>1
<1>5. Range(p) \subseteq Frames
  BY <1>3, RangeOfSeq
<1>6. \A x \in Outs :
        IF x = o THEN held'[x] = held[x] \cup Range(p) /\ full'[x] = r
                 ELSE held'[x] = held[x] /\ full'[x] = full[x]
  BY <1>1 DEF TypeOK
<1>7. TypeOK'
  <2>1. news' \in [Outs -> 0 .. MaxNews]
    BY <1>1, DupAssumption DEF TypeOK
  <2>2. held' \in [Outs -> SUBSET Frames] /\ full' \in [Outs -> Seq(Frames)]
    BY <1>1, <1>3, <1>5 DEF TypeOK
  <2> QED
    BY <1>1, <2>1, <2>2 DEF TypeOK
<1>8. \A x \in Outs : Pend(x)' = Pend(x) /\ Has(x)' = Has(x)
  <2>1. \A x : Pend(x)' = Pend(x)
    BY <1>1 DEF Pend, ToDup
  <2>2. \A x \in Outs : held'[x] \cup Range(full'[x]) = held[x] \cup Range(full[x])
    BY <1>4, <1>6
  <2> QED
    BY <1>1, <2>1, <2>2 DEF Has
<1>9. Apart'
  <2>1. ASSUME NEW x \in Outs
        PROVE  /\ IsInjective(full'[x]) /\ IsInjective(outList[x])
               /\ held'[x] \cap Range(full'[x]) = {}
               /\ held'[x] \cap Range(outList[x]) = {}
               /\ Range(full'[x]) \cap Range(outList[x]) = {}
               /\ Pend(x) \cap (held'[x] \cup Range(full'[x]) \cup Range(outList[x])) = {}
    <3>1. CASE x = o
      BY <1>4, <1>6, <3>1 DEF Sharing, Apart
    <3>2. CASE x # o
      BY <1>6, <3>2 DEF Sharing, Apart
    <3> QED
      BY <3>1, <3>2
  <2> QED
    BY <1>1, <1>8, <2>1 DEF Apart
<1>10. LoopInv'
  BY <1>1 DEF Sharing, LoopInv
<1>11. Sharing'
  BY <1>1, <1>8, <1>9, <1>10 DEF Sharing, HomeInv, FreeInv, LockInv
<1>12. CountInv'
  <2>1. Unstarted' = Unstarted
    BY <1>1 DEF Unstarted
  <2>2. \A f : Holders(f)' = Holders(f)
    BY <1>8 DEF Holders
  <2> QED
    BY <1>1, <2>1, <2>2 DEF CountInv
<1>13. PoolConserved'
  <2>1. ASSUME NEW x \in Outs
        PROVE  PoolSize = empty[x] + Len(outList[x]) + Len(full'[x])
                            + Cardinality(held'[x]) + Cardinality(back[x])
    <3> DEFINE f == Len(full[x])
               f2 == Len(full'[x])
               h == Cardinality(held[x])
               h2 == Cardinality(held'[x])
               l == Len(outList[x])
               b == Cardinality(back[x])
               m == Len(p)
    <3>1. f \in Nat /\ l \in Nat /\ h \in Nat /\ b \in Nat /\ empty[x] \in Nat
      BY Sizes DEF Sharing, TypeOK
    <3>2. PoolSize = empty[x] + l + f + h + b
      BY DEF PoolConserved
    <3>3. IF x = o THEN f = m + f2 /\ h2 = h + m ELSE f2 = f /\ h2 = h
      <4>1. CASE x = o
        <5>1. f = m + f2
          <6>1. Len(p \o r) = Len(p) + Len(r)
            BY <1>3, ConcatProperties
          <6>2. full[x] = p \o r /\ full'[x] = r
            BY <1>3, <1>6, <4>1
          <6> QED
            BY <6>1, <6>2
        <5>2. IsFiniteSet(Range(p)) /\ Cardinality(Range(p)) = m
          BY <1>3, <1>4, ListLength
        <5>3. held[x] \cap Range(p) = {} /\ IsFiniteSet(held[x])
          BY <1>4, <4>1, Sizes DEF Sharing, Apart
        <5>4. h2 = h + m - Cardinality(held[x] \cap Range(p))
          BY <1>6, <4>1, <5>2, <5>3, FS_Union
        <5>5. Cardinality(held[x] \cap Range(p)) = 0 /\ m \in Nat
          BY <1>3, <5>3, FS_EmptySet, LenProperties
        <5> HIDE DEF f, f2, h, h2, m
        <5> QED
          BY <3>1, <4>1, <5>1, <5>4, <5>5
      <4>2. CASE x # o
        BY <1>6, <4>2
      <4> QED
        BY <4>1, <4>2
    <3>4. m \in Nat /\ f2 \in Nat
      BY <1>3, <1>6, LenProperties DEF TypeOK, Sharing
    <3> HIDE DEF f, f2, h, h2, l, b, m
    <3>5. PoolSize = empty[x] + l + f2 + h2 + b
      BY <3>1, <3>2, <3>3, <3>4
    <3> QED
      BY <3>5 DEF f2, h2, l, b
  <2> QED
    BY <1>1, <2>1 DEF PoolConserved
<1> QED
  BY <1>1, <1>7, <1>8, <1>11, <1>12, <1>13 DEF PoolLasts, Kept

(* The list that is given to the previous link is owed by no output.        *)
LEMMA PutUpInv == ASSUME NEW o \in Outs PROVE IInv /\ PutUp(o) => IInv' /\ Kept
<1> SUFFICES ASSUME IInv, PutUp(o) PROVE IInv' /\ Kept
  OBVIOUS
<1> USE DEF IInv
<1>1. /\ npc[o] = "putup" /\ npc' = [npc EXCEPT ![o] = "putempty"]
      /\ up' = up \cup freeList[o] /\ freeList' = [freeList EXCEPT ![o] = {}]
      /\ UNCHANGED <<dupCount, empty, full, inList, outList, tpc, frameId, outId,
                     lock, news, held, back>>
  BY DEF PutUp, task
<1>2. TypeOK'
  BY <1>1 DEF TypeOK
<1>3. \A x : Pend(x)' = Pend(x) /\ Has(x)' = Has(x)
  BY <1>1 DEF Pend, ToDup, Has
<1>4. \A x \in Outs : freeList'[x] = {}
  BY <1>1 DEF Sharing, LockInv, FreeInv, TypeOK
<1>5. FreeInv' /\ HomeInv'
  BY <1>1, <1>3, <1>4 DEF Sharing, FreeInv, HomeInv
<1>6. LockInv'
  BY <1>1 DEF Sharing, LockInv, TypeOK
<1>7. Sharing'
  BY <1>1, <1>3, <1>5, <1>6 DEF Sharing, LoopInv, Apart
<1>8. CountInv'
  BY <1>1, <1>3 DEF CountInv, Holders, Unstarted
<1> QED
  BY <1>1, <1>2, <1>3, <1>7, <1>8 DEF PoolConserved, PoolLasts, Kept

(* The duplicates that are given back are counted in the pool again.        *)
LEMMA PutEmptyInv == ASSUME NEW o \in Outs PROVE IInv /\ PutEmpty(o) => IInv' /\ Kept
<1> SUFFICES ASSUME IInv, PutEmpty(o) PROVE IInv' /\ Kept
  OBVIOUS
<1> USE DEF IInv
<1>1. /\ npc[o] = "putempty" /\ npc' = [npc EXCEPT ![o] = "idle"]
      /\ empty' = [empty EXCEPT ![o] = @ + Cardinality(back[o])]
      /\ back' = [back EXCEPT ![o] = {}] /\ lock' = None
      /\ UNCHANGED <<up, dupCount, full, inList, outList, tpc, frameId, outId,
                     news, held, freeList>>
  BY DEF PutEmpty, task
<1>2. \A x : Pend(x)' = Pend(x) /\ Has(x)' = Has(x)
  BY <1>1 DEF Pend, ToDup, Has
<1>3. PoolConserved' /\ empty' \in [Outs -> 0 .. PoolSize]
  <2>1. ASSUME NEW x \in Outs
        PROVE  /\ PoolSize = empty'[x] + Len(outList[x]) + Len(full[x])
                               + Cardinality(held[x]) + Cardinality(back'[x])
               /\ empty'[x] \in 0 .. PoolSize
    <3> DEFINE f == Len(full[x])
               h == Cardinality(held[x])
               l == Len(outList[x])
               b == Cardinality(back[x])
               b2 == Cardinality(back'[x])
    <3>1. f \in Nat /\ l \in Nat /\ h \in Nat /\ b \in Nat /\ empty[x] \in Nat
      BY Sizes DEF Sharing, TypeOK
    <3>2. PoolSize = empty[x] + l + f + h + b
      BY DEF PoolConserved
    <3>3. IF x = o THEN empty'[x] = empty[x] + b /\ b2 = 0
                   ELSE empty'[x] = empty[x] /\ b2 = b
      BY <1>1, FS_EmptySet DEF TypeOK
    <3> HIDE DEF f, h, l, b, b2
    <3>4. PoolSize = empty'[x] + l + f + h + b2 /\ empty'[x] \in 0 .. PoolSize
      BY <3>1, <3>2, <3>3, DupAssumption
    <3> QED
      BY <3>4 DEF f, h, l, b2
  <2>2. DOMAIN empty' = Outs /\ empty' = [x \in Outs |-> empty'[x]]
    BY <1>1 DEF TypeOK
  <2> QED
    BY <1>1, <2>1, <2>2 DEF PoolConserved
<1>4. TypeOK'
  BY <1>1, <1>3 DEF TypeOK
<1>5. LockInv' /\ FreeInv'
  BY <1>1, <1>2 DEF Sharing, LockInv, FreeInv, TypeOK
<1>6. Sharing'
  BY <1>1, <1>2, <1>5 DEF Sharing, LoopInv, Apart, HomeInv
<1>7. CountInv'
  BY <1>1, <1>2 DEF CountInv, Holders, Unstarted
<1> QED
  BY <1>1, <1>2, <1>3, <1>4, <1>6, <1>7 DEF PoolLasts, Kept

(* Counting down takes a next link out of the holders of what it gives      *)
(* back, and frees the frames that nobody holds then.                       *)
LEMMA CountDownHas ==
  ASSUME IInv, NEW o \in Outs, NEW F \in SUBSET held[o],
         held' = [held EXCEPT ![o] = @ \ F],
         UNCHANGED <<full, inList, outList, tpc, frameId, outId>>
  PROVE  /\ \A x : Pend(x)' = Pend(x)
         /\ \A x \in Outs : Has(x)' = IF x = o THEN Has(x) \ F ELSE Has(x)
         /\ \A f : Holders(f)' = IF f \in F THEN Holders(f) \ {o} ELSE Holders(f)
         /\ F \subseteq Has(o) /\ F \cap Unstarted = {} /\ Unstarted' = Unstarted
<1> USE DEF IInv
<1>1. \A x : Pend(x)' = Pend(x)
  BY DEF Pend, ToDup
<1>2. \A x \in Outs : held'[x] = IF x = o THEN held[x] \ F ELSE held[x]
  BY DEF TypeOK
<1>3. \A x \in Outs : Has(x)' = IF x = o THEN Has(x) \ F ELSE Has(x)
  <2>1. F \cap (Range(full[o]) \cup Range(outList[o]) \cup Pend(o)) = {}
    BY DEF Sharing, Apart
  <2> QED
    BY <1>1, <1>2, <2>1 DEF Has
<1>4. \A f : Holders(f)' = IF f \in F THEN Holders(f) \ {o} ELSE Holders(f)
  BY <1>3 DEF Holders
<1>5. F \subseteq Has(o)
  BY DEF Has
<1>6. Unstarted \subseteq Pend(o)
  BY DEF Unstarted, Pend, ToDup, Outs
<1>7. F \cap Unstarted = {} /\ Unstarted' = Unstarted
  <2>1. F \cap Pend(o) = {}
    BY DEF Sharing, Apart
  <2> QED
    BY <1>6, <2>1 DEF Unstarted
<1> QED
  BY <1>1, <1>3, <1>4, <1>5, <1>7

(* The frames whose count comes to zero are owed by nobody; the others are  *)
(* still counted right.                                                     *)
LEMMA CountDownInv == ASSUME NEW o \in Outs PROVE IInv /\ CountDown(o) => IInv'
<1> SUFFICES ASSUME IInv, CountDown(o) PROVE IInv'
  OBVIOUS
<1> USE DEF IInv
<1>1. PICK F \in (SUBSET held[o]) \ {{}} :
        /\ back' = [back EXCEPT ![o] = F]
        /\ held' = [held EXCEPT ![o] = @ \ F]
        /\ dupCount' = [f \in Frames |-> IF f \in F THEN dupCount[f] - 1
                                                    ELSE dupCount[f]]
        /\ freeList' = [freeList EXCEPT ![o] = ToFree(F, dupCount')]
  BY DEF CountDown
<1>2. /\ npc[o] = "idle" /\ lock = None /\ lock' = o
      /\ npc' = [npc EXCEPT ![o] = "putup"]
      /\ UNCHANGED <<up, empty, full, inList, outList, tpc, frameId, outId, news>>
  BY DEF CountDown, task
<1>3. /\ \A x : Pend(x)' = Pend(x)
      /\ \A x \in Outs : Has(x)' = IF x = o THEN Has(x) \ F ELSE Has(x)
      /\ \A f : Holders(f)' = IF f \in F THEN Holders(f) \ {o} ELSE Holders(f)
      /\ F \subseteq Has(o) /\ F \cap Unstarted = {} /\ Unstarted' = Unstarted
  BY <1>1, <1>2, CountDownHas
<1>4. F \subseteq Frames /\ F \subseteq held[o]
  BY DEF TypeOK
<1>5. \A x \in Outs : npc[x] = "idle" /\ freeList[x] = {} /\ back[x] = {}
  BY <1>2, DupAssumption DEF Sharing, LockInv, FreeInv, TypeOK
<1>6. ASSUME NEW f \in F
      PROVE  /\ dupCount'[f] = dupCount[f] - 1
             /\ dupCount'[f] = Cardinality(Holders(f)')
             /\ dupCount'[f] \in 0 .. NumOutQue
  <2>1. dupCount'[f] = dupCount[f] - 1
    BY <1>1, <1>4
  <2>2. dupCount[f] = Cardinality(Holders(f)) /\ o \in Holders(f)
    BY <1>3, <1>4 DEF CountInv, Holders
  <2>3. Cardinality(Holders(f) \ {o}) = Cardinality(Holders(f)) - 1
    BY <2>2, HoldersFinite, FS_RemoveElement
  <2>4. Cardinality(Holders(f)) # 0
    BY <2>2, HoldersFinite, FS_EmptySet
  <2>5. Cardinality(Holders(f)) \in 0 .. NumOutQue
    BY HoldersFinite
  <2>6. Holders(f)' = Holders(f) \ {o}
    BY <1>3
  <2>7. dupCount[f] - 1 \in 0 .. NumOutQue
    BY <2>2, <2>4, <2>5, DupAssumption
  <2> QED
    BY <2>1, <2>2, <2>3, <2>6, <2>7
<1>7. ASSUME NEW f \in Frames \ F
      PROVE  dupCount'[f] = dupCount[f] /\ Holders(f)' = Holders(f)
  BY <1>1, <1>3
<1>8. TypeOK'
  <2>1. dupCount' \in [Frames -> 0 .. NumOutQue]
    <3>1. \A f \in Frames : dupCount'[f] \in 0 .. NumOutQue
      BY <1>6, <1>7 DEF TypeOK
    <3> QED
      BY <1>1, <3>1
  <2>2. ToFree(F, dupCount') \subseteq F
    BY DEF ToFree
  <2>3. held' \in [Outs -> SUBSET Frames] /\ back' \in [Outs -> SUBSET Frames]
        /\ freeList' \in [Outs -> SUBSET Frames]
    BY <1>1, <1>4, <2>2 DEF TypeOK
  <2> QED
    BY <1>2, <2>1, <2>3 DEF TypeOK
<1>9. CountInv'
  <2>1. ASSUME NEW f \in Frames \ Unstarted
        PROVE  dupCount'[f] = Cardinality(Holders(f)')
    BY <1>6, <1>7 DEF CountInv
  <2> QED
    BY <1>3, <2>1 DEF CountInv
<1>10. Apart'
  <2>1. \A x \in Outs : held'[x] \subseteq held[x]
    BY <1>1 DEF TypeOK
  <2> QED
    BY <1>2, <1>3, <2>1 DEF Sharing, Apart
<1>11. HomeInv'
  BY <1>2, <1>3 DEF Sharing, HomeInv
<1>12. FreeInv'
  <2>1. \A x \in Outs : freeList'[x] = IF x = o THEN ToFree(F, dupCount') ELSE {}
    BY <1>1, <1>5 DEF TypeOK
  <2>2. npc'[o] = "putup"
    BY <1>2 DEF TypeOK
  <2>3. ASSUME NEW f \in ToFree(F, dupCount')
        PROVE  f \notin up' /\ \A x \in Outs : f \notin Has(x)'
    <3>1. f \in F /\ dupCount'[f] = 0
      BY DEF ToFree
    <3>2. Holders(f)' = {}
      <4>1. Cardinality(Holders(f)') = 0
        BY <1>6, <3>1
      <4>2. Holders(f)' = Holders(f) \ {o}
        BY <1>3, <3>1
      <4>3. IsFiniteSet(Holders(f) \ {o})
        BY HoldersFinite, FS_RemoveElement
      <4> QED
        BY <4>1, <4>2, <4>3, FS_EmptySet
    <3>3. f \notin up
      BY <1>3, <3>1 DEF Sharing, HomeInv
    <3> QED
      BY <1>2, <3>2, <3>3 DEF Holders
  <2> QED
    BY <2>1, <2>2, <2>3 DEF FreeInv
<1>13. LockInv'
  BY <1>1, <1>2, <1>5 DEF LockInv, TypeOK
<1>14. Sharing'
  BY <1>2, <1>10, <1>11, <1>12, <1>13 DEF Sharing, LoopInv
<1>15. PoolConserved'
  <2>1. ASSUME NEW x \in Outs
        PROVE  PoolSize = empty[x] + Len(outList[x]) + Len(full[x])
                            + Cardinality(held'[x]) + Cardinality(back'[x])
    <3> DEFINE f == Len(full[x])
               h == Cardinality(held[x])
               h2 == Cardinality(held'[x])
               l == Len(outList[x])
               b == Cardinality(back[x])
               b2 == Cardinality(back'[x])
    <3>1. f \in Nat /\ l \in Nat /\ h \in Nat /\ b \in Nat /\ empty[x] \in Nat
      BY Sizes DEF Sharing, TypeOK
    <3>2. PoolSize = empty[x] + l + f + h + b
      BY DEF PoolConserved
    <3>3. b = 0
      BY <1>5, FS_EmptySet
    <3>4. IF x = o THEN h = h2 + b2 /\ h2 \in Nat /\ b2 \in Nat ELSE h2 = h /\ b2 = b
      <4>1. CASE x = o
        <5>1. held'[x] = held[x] \ F /\ back'[x] = F
          BY <1>1, <4>1 DEF TypeOK
        <5>2. /\ IsFiniteSet(F) /\ IsFiniteSet(held[x] \ F)
              /\ Cardinality(F) \in Nat /\ Cardinality(held[x] \ F) \in Nat
          BY <4>1, Sizes, FS_Subset, FS_CardinalityType DEF Sharing
        <5>3. held[x] = (held[x] \ F) \cup F /\ (held[x] \ F) \cap F = {}
          BY <1>4, <4>1
        <5>4. Cardinality(held[x]) = Cardinality(held[x] \ F) + Cardinality(F)
                 - Cardinality((held[x] \ F) \cap F)
          BY <5>2, <5>3, FS_Union
        <5>5. Cardinality((held[x] \ F) \cap F) = 0
          BY <5>3, FS_EmptySet
        <5> DEFINE c == Cardinality(F)
                   d == Cardinality(held[x] \ F)
                   z == Cardinality((held[x] \ F) \cap F)
        <5>6. h = d + c - z /\ z = 0 /\ c \in Nat /\ d \in Nat /\ h2 = d /\ b2 = c
          BY <5>1, <5>2, <5>4, <5>5
        <5> HIDE DEF c, d, z, h, h2, b2
        <5> QED
          BY <4>1, <5>6
      <4>2. CASE x # o
        BY <1>1, <4>2 DEF TypeOK
      <4> QED
        BY <4>1, <4>2
    <3> HIDE DEF f, h, h2, l, b, b2
    <3>5. PoolSize = empty[x] + l + f + h2 + b2
      BY <3>1, <3>2, <3>3, <3>4
    <3> QED
      BY <3>5 DEF f, h2, l, b2
  <2> QED
    BY <1>2, <2>1 DEF PoolConserved
<1> QED
  BY <1>2, <1>8, <1>9, <1>14, <1>15 DEF PoolLasts

(* A list of frames the previous link owns: every output is to get them.    *)
LEMMA GetFullInv ==
  IInv /\ GetFull => /\ IInv'
                     /\ \E F \in (SUBSET up) \ {{}} :
                          /\ up' = up \ F
                          /\ \A o \in Outs : Has(o)' = Has(o) \cup F
<1> SUFFICES ASSUME IInv, GetFull
             PROVE  /\ IInv'
                    /\ \E F \in (SUBSET up) \ {{}} :
                         /\ up' = up \ F
                         /\ \A o \in Outs : Has(o)' = Has(o) \cup F
  OBVIOUS
<1> USE DEF IInv
<1>1. PICK l \in Lists(up) : inList' = l /\ up' = up \ Range(l)
  BY DEF GetFull
<1>2. /\ tpc = "recv" /\ tpc' = "dup" /\ frameId' = 1 /\ outId' = 0
      /\ outList' = [o \in Outs |-> <<>>]
      /\ UNCHANGED <<dupCount, empty, full, lock, news, held, npc, back, freeList>>
  BY DEF GetFull, next
<1>3. /\ l \in Seq(Frames) /\ IsInjective(l) /\ Range(l) \subseteq up
      /\ DOMAIN l = 1 .. Len(l) /\ Len(l) \in Nat \ {0}
  <2>1. PICK n \in 1 .. MaxList : l \in Injection(1 .. n, up)
    BY <1>1 DEF Lists
  <2>2. n \in Nat \ {0} /\ l \in [1 .. n -> up] /\ IsInjective(l)
    BY <2>1, DupAssumption DEF Injection
  <2>3. l \in Seq(up)
    BY <2>2, SeqDef
  <2>4. l \in Seq(Frames)
    BY <2>3, SeqMonotonic DEF TypeOK
  <2>5. DOMAIN l = 1 .. Len(l) /\ Len(l) \in Nat
    BY <2>4, LenProperties
  <2>6. 1 \in DOMAIN l
    BY <2>2
  <2> QED
    BY <2>2, <2>3, <2>4, <2>5, <2>6, RangeOfSeq
<1>4. 0 \in Outs
  BY DupAssumption DEF Outs
<1>5. outList' = outList
  <2>1. \A o \in Outs : outList[o] = <<>>
    BY <1>2 DEF Sharing, LoopInv
  <2> QED
    BY <1>2, <2>1 DEF TypeOK
<1>6. TypeOK'
  BY <1>1, <1>2, <1>3, <1>4, <1>5 DEF TypeOK
<1>7. \A o \in Outs : /\ Pend(o) = {} /\ Pend(o)' = Range(l)
                      /\ Has(o)' = Has(o) \cup Range(l)
  <2>1. ASSUME NEW o \in Outs PROVE ToDup(o) = {} /\ ToDup(o)' = DOMAIN l
    BY <1>1, <1>2, <1>3, DupAssumption DEF ToDup, Outs
  <2>2. \A o \in Outs : Pend(o) = {} /\ Pend(o)' = Range(l)
    BY <1>1, <2>1 DEF Pend, Range
  <2> QED
    BY <1>2, <1>5, <2>2 DEF Has
<1>8. LoopInv'
  BY <1>1, <1>2, <1>3 DEF LoopInv
<1>9. \A o \in Outs : Has(o) \cap Range(l) = {}
  BY <1>3 DEF Sharing, HomeInv
<1>10. Apart'
  <2>1. \A o \in Outs :
          Range(l) \cap (held[o] \cup Range(full[o]) \cup Range(outList[o])) = {}
    BY <1>9 DEF Has
  <2> QED
    BY <1>2, <1>5, <1>7, <2>1 DEF Sharing, Apart
<1>11. HomeInv'
  BY <1>1, <1>7, <1>9 DEF Sharing, HomeInv
<1>12. FreeInv'
  <2>1. \A o \in Outs : freeList[o] \cap Range(l) = {}
    BY <1>3 DEF Sharing, FreeInv
  <2> QED
    BY <1>1, <1>2, <1>7, <2>1 DEF Sharing, FreeInv
<1>13. Sharing'
  BY <1>2, <1>8, <1>10, <1>11, <1>12 DEF Sharing, LockInv
<1>14. CountInv'
  <2>1. Unstarted' = Range(l) /\ Unstarted = {}
    <3>1. {j \in DOMAIN l : j > 1 \/ (j = 1 /\ 0 = 0)} = DOMAIN l
      BY <1>3
    <3> QED
      BY <1>1, <1>2, <3>1 DEF Unstarted, Range
  <2>2. \A f \in Frames \ Range(l) : Holders(f)' = Holders(f)
    BY <1>7 DEF Holders
  <2> QED
    BY <1>2, <2>1, <2>2 DEF CountInv
<1>15. IInv'
  BY <1>2, <1>5, <1>6, <1>13, <1>14 DEF PoolConserved, PoolLasts
<1>16. Range(l) \in (SUBSET up) \ {{}}
  <2>1. 1 \in DOMAIN l
    BY <1>3
  <2>2. l[1] \in Range(l)
    BY <2>1 DEF Range
  <2> QED
    BY <1>3, <2>2
<1> QED
  BY <1>1, <1>7, <1>15, <1>16

(* The frame to duplicate, and each of the frames an output has already,    *)
(* take a duplicate at most twice: while it is owed, and while what was     *)
(* given back is on the way to the pool.                                    *)
LEMMA RoomToDup ==
  ASSUME BigPool, IInv, tpc = "dup"
  PROVE  empty[outId] # 0
<1> USE DEF IInv
<1> DEFINE o == outId
           f == inList[frameId]
           A == held[o]
           B == Range(full[o])
           C == Range(outList[o])
<1>1. o \in Outs /\ f \in Pend(o) /\ f \in Frames
  BY LenProperties DEF TypeOK, Sharing, LoopInv, Pend, ToDup, Outs
<1>2. /\ A \cap B = {} /\ (A \cup B) \cap C = {}
      /\ f \notin A \cup B \cup C /\ A \cup B \cup C \subseteq Frames
  BY <1>1, Sizes DEF Sharing, Apart, TypeOK
<1>3. /\ IsFiniteSet(A) /\ IsFiniteSet(B) /\ IsFiniteSet(C)
      /\ Cardinality(A) \in Nat /\ Cardinality(B) \in Nat /\ Cardinality(C) \in Nat
      /\ Cardinality(B) = Len(full[o]) /\ Cardinality(C) = Len(outList[o])
      /\ Cardinality(back[o]) \in Nat /\ Cardinality(back[o]) =< Cardinality(Frames)
  BY <1>1, Sizes DEF Sharing
<1>4. PoolSize = empty[o] + Len(outList[o]) + Len(full[o])
                   + Cardinality(A) + Cardinality(back[o])
  BY <1>1 DEF PoolConserved
<1>5. IsFiniteSet(Frames) /\ Cardinality(Frames) \in Nat
  BY DupAssumption, FS_CardinalityType
<1>6. Cardinality(A \cup B \cup C) =< Cardinality(Frames) - 1
  <2>1. A \cup B \cup C \in SUBSET (Frames \ {f})
    BY <1>2
  <2>2. IsFiniteSet(Frames \ {f}) /\ Cardinality(Frames \ {f}) = Cardinality(Frames) - 1
    BY <1>1, <1>5, FS_RemoveElement
  <2> QED
    BY <2>1, <2>2, FS_Subset
<1> HIDE DEF o, A, B, C
<1>7. Cardinality(A \cup B \cup C) = Cardinality(A) + Cardinality(B) + Cardinality(C)
  <2>1. IsFiniteSet(A \cup B)
        /\ Cardinality(A \cup B) = Cardinality(A) + Cardinality(B) - Cardinality(A \cap B)
    BY <1>3, FS_Union
  <2>2. Cardinality(A \cup B \cup C)
          = Cardinality(A \cup B) + Cardinality(C) - Cardinality((A \cup B) \cap C)
    BY <1>3, <2>1, FS_Union
  <2>3. Cardinality(A \cap B) = 0 /\ Cardinality((A \cup B) \cap C) = 0
    BY <1>2, FS_EmptySet
  <2> DEFINE a == Cardinality(A)
             b == Cardinality(B)
             c == Cardinality(C)
             d == Cardinality(A \cup B)
             e == Cardinality(A \cup B \cup C)
             x == Cardinality(A \cap B)
             y == Cardinality((A \cup B) \cap C)
  <2>4. d = a + b - x /\ e = d + c - y /\ x = 0 /\ y = 0
        /\ a \in Nat /\ b \in Nat /\ c \in Nat
    BY <1>3, <2>1, <2>2, <2>3
  <2> HIDE DEF a, b, c, d, e, x, y
  <2>5. e = a + b + c
    BY <2>4
  <2> QED
    BY <2>5 DEF a, b, c, e
<1> DEFINE a == Cardinality(A)
           b == Cardinality(B)
           c == Cardinality(C)
           e == Cardinality(A \cup B \cup C)
           g == Cardinality(back[o])
           N == Cardinality(Frames)
<1>8. /\ PoolSize = empty[o] + c + b + a + g /\ e =< N - 1 /\ e = a + b + c
      /\ a \in Nat /\ b \in Nat /\ c \in Nat /\ g \in Nat /\ g =< N /\ N \in Nat
      /\ PoolSize >= 2 * N /\ empty[o] \in Nat
  BY <1>1, <1>3, <1>4, <1>5, <1>6, <1>7 DEF BigPool, TypeOK
<1> HIDE DEF a, b, c, e, g, N
<1>9. empty[o] # 0
  BY <1>8, DupAssumption
<1> QED
  BY <1>9 DEF o

(* A duplicate moves its frame from what the output is to get to what it    *)
(* has in its list.                                                         *)
LEMMA DupMoves ==
  ASSUME IInv, Dup, empty[outId] # 0, NEW f, f = inList[frameId]
  PROVE  /\ f \in Frames /\ f \in Pend(outId)
         /\ f \notin held[outId] \cup Range(full[outId]) \cup Range(outList[outId])
         /\ outId \in Outs /\ outId' \in Outs /\ frameId' \in Nat \ {0}
         /\ tpc' \in {"dup", "put"} /\ (tpc' = "put" => outId' = 0)
         /\ tpc' = "dup" => frameId' \in DOMAIN inList
         /\ \A o \in Outs : Pend(o)' = IF o = outId THEN Pend(o) \ {f} ELSE Pend(o)
         /\ Unstarted' = Unstarted \ {f}
         /\ IF outId = 0 THEN \A o \in Outs : f \in Pend(o) ELSE f \notin Unstarted
<1> USE DEF IInv
<1>1. /\ tpc = "dup" /\ inList' = inList
      /\ frameId' = IF outId' = 0 THEN frameId + 1 ELSE frameId
      /\ tpc' = IF frameId' > Len(inList) THEN "put" ELSE "dup"
  BY DEF Dup
<1>2. /\ outId' \in Outs
      /\ IF outId = NumOutQue - 1 THEN outId' = 0 ELSE outId' = outId + 1
  BY NextOut DEF Dup, TypeOK
<1>3. /\ inList \in Seq(Frames) /\ IsInjective(inList)
      /\ Len(inList) \in Nat /\ DOMAIN inList = 1 .. Len(inList)
      /\ frameId \in 1 .. Len(inList) /\ outId \in Outs
      /\ \A i \in 1 .. Len(inList) : inList[i] \in Frames
  BY <1>1, LenProperties DEF TypeOK, Sharing, LoopInv
<1>4. ToDup(outId) = {i \in 1 .. Len(inList) : i >= frameId}
  BY <1>1, <1>3 DEF ToDup, Outs
<1>5. frameId \in ToDup(outId) /\ f \in Pend(outId) /\ f \in Frames
  BY <1>3, <1>4 DEF Pend
<1>6. f \notin held[outId] \cup Range(full[outId]) \cup Range(outList[outId])
  BY <1>3, <1>5 DEF Sharing, Apart
<1>7. /\ frameId' \in Nat \ {0} /\ tpc' \in {"dup", "put"}
      /\ tpc' = "put" => outId' = 0
      /\ tpc' = "dup" => frameId' \in DOMAIN inList
  BY <1>1, <1>2, <1>3 DEF Outs
<1>8. ASSUME NEW o \in Outs
      PROVE  ToDup(o)' = IF o = outId THEN ToDup(o) \ {frameId} ELSE ToDup(o)
  <2>1. ToDup(o) = {i \in 1 .. Len(inList) : i > frameId \/ (i = frameId /\ o >= outId)}
    BY <1>1, <1>3 DEF ToDup
  <2>2. ToDup(o)' = {i \in 1 .. Len(inList) : i > frameId' \/ (i = frameId' /\ o >= outId')}
    <3>1. CASE tpc' = "dup"
      BY <1>1, <1>3, <3>1 DEF ToDup
    <3>2. CASE tpc' = "put"
      <4>1. frameId' > Len(inList)
        BY <1>1, <3>2
      <4> QED
        BY <1>3, <1>7, <3>2, <4>1 DEF ToDup
    <3> QED
      BY <1>7, <3>1, <3>2
  <2>3. ASSUME NEW i \in 1 .. Len(inList)
        PROVE  (i > frameId' \/ (i = frameId' /\ o >= outId'))
                 <=> /\ i > frameId \/ (i = frameId /\ o >= outId)
                     /\ ~ (o = outId /\ i = frameId)
    <3>1. CASE outId = NumOutQue - 1
      BY <1>1, <1>2, <1>3, <3>1, DupAssumption DEF Outs
    <3>2. CASE outId # NumOutQue - 1
      BY <1>1, <1>2, <1>3, <3>2, DupAssumption DEF Outs
    <3> QED
      BY <3>1, <3>2
  <2> QED
    BY <2>1, <2>2, <2>3
<1>9. ASSUME NEW o \in Outs
      PROVE  Pend(o)' = IF o = outId THEN Pend(o) \ {f} ELSE Pend(o)
  <2>1. Pend(o)' = {inList[i] : i \in ToDup(o)'}
    BY <1>1 DEF Pend
  <2>2. CASE o = outId
    <3>1. \A i \in ToDup(o) : inList[i] = f => i = frameId
      BY <1>3, <1>4, <2>2 DEF IsInjective
    <3> QED
      BY <1>8, <2>1, <2>2, <3>1 DEF Pend
  <2>3. CASE o # outId
    BY <1>8, <2>1, <2>3 DEF Pend
  <2> QED
    BY <2>2, <2>3
<1>10. Unstarted = {inList[i] : i \in {j \in 1 .. Len(inList) :
                      j > frameId \/ (j = frameId /\ outId = 0)}}
  BY <1>1, <1>3 DEF Unstarted
<1>11. Unstarted' = {inList[i] : i \in {j \in 1 .. Len(inList) : j > frameId}}
  <2>1. CASE tpc' = "dup"
    <3>1. Unstarted' = {inList[i] : i \in {j \in 1 .. Len(inList) :
                           j > frameId' \/ (j = frameId' /\ outId' = 0)}}
      BY <1>1, <1>3, <2>1 DEF Unstarted
    <3>2. \A j \in 1 .. Len(inList) :
            (j > frameId' \/ (j = frameId' /\ outId' = 0)) <=> j > frameId
      BY <1>1, <1>2, <1>3 DEF Outs
    <3> QED
      BY <3>1, <3>2
  <2>2. CASE tpc' = "put"
    <3>1. \A j \in 1 .. Len(inList) : ~ (j > frameId)
      BY <1>1, <1>3, <1>7, <2>2
    <3> QED
      BY <2>2, <3>1 DEF Unstarted
  <2> QED
    BY <1>7, <2>1, <2>2
<1>12. \A i \in 1 .. Len(inList) : inList[i] = f <=> i = frameId
  BY <1>3 DEF IsInjective
<1>13. Unstarted' = Unstarted \ {f}
  <2>1. ~ (frameId > frameId)
    BY <1>3
  <2> QED
    BY <1>10, <1>11, <1>12, <1>3, <2>1
<1>14. CASE outId = 0
  <2>1. \A o \in Outs : frameId \in ToDup(o)
    BY <1>1, <1>3, <1>14 DEF ToDup, Outs
  <2> QED
    BY <1>2, <1>3, <1>5, <1>6, <1>7, <1>9, <1>13, <1>14, <2>1 DEF Pend
<1>15. CASE outId # 0
  <2>1. f \notin Unstarted
    <3>1. ~ (frameId > frameId)
      BY <1>3
    <3> QED
      BY <1>10, <1>12, <1>15, <3>1
  <2> QED
    BY <1>2, <1>3, <1>5, <1>6, <1>7, <1>9, <1>13, <1>15, <2>1
<1> QED
  BY <1>14, <1>15

(* The count of a frame is set when all outputs are to get it, and is right *)
(* from then on; the pool lasts.                                            *)
LEMMA DupInv == BigPool /\ IInv /\ Dup => IInv' /\ Kept
<1> SUFFICES ASSUME BigPool, IInv, Dup PROVE IInv' /\ Kept
  OBVIOUS
<1> USE DEF IInv
<1> DEFINE f == inList[frameId]
<1>1. tpc = "dup" /\ empty[outId] # 0
  BY RoomToDup DEF Dup
<1>2. /\ dupCount' = SetCount(f)
      /\ empty' = [empty EXCEPT ![outId] = @ - 1]
      /\ outList' = [outList EXCEPT ![outId] = Append(@, f)]
      /\ UNCHANGED <<up, full, inList, lock, news, held, npc, back, freeList>>
  BY <1>1 DEF Dup, next
<1> HIDE DEF f
<1>3. /\ f \in Frames /\ f \in Pend(outId)
      /\ f \notin held[outId] \cup Range(full[outId]) \cup Range(outList[outId])
      /\ outId \in Outs /\ outId' \in Outs /\ frameId' \in Nat \ {0}
      /\ tpc' \in {"dup", "put"} /\ (tpc' = "put" => outId' = 0)
      /\ tpc' = "dup" => frameId' \in DOMAIN inList
      /\ \A o \in Outs : Pend(o)' = IF o = outId THEN Pend(o) \ {f} ELSE Pend(o)
      /\ Unstarted' = Unstarted \ {f}
      /\ IF outId = 0 THEN \A o \in Outs : f \in Pend(o) ELSE f \notin Unstarted
  BY <1>1, DupMoves DEF f
<1>4. /\ outList[outId] \in Seq(Frames) /\ IsInjective(outList[outId])
      /\ empty[outId] \in 0 .. PoolSize
  BY <1>3 DEF TypeOK, Sharing, Apart
<1>5. /\ Append(outList[outId], f) \in Seq(Frames)
      /\ Len(Append(outList[outId], f)) = Len(outList[outId]) + 1
      /\ Range(Append(outList[outId], f)) = Range(outList[outId]) \cup {f}
      /\ IsInjective(Append(outList[outId], f))
  <2>1. Append(outList[outId], f) = outList[outId] \o <<f>>
    BY <1>3, <1>4, AppendIsConcat
  <2>2. <<f>> \in Seq(Frames) /\ Range(<<f>>) = {f} /\ IsInjective(<<f>>)
    BY <1>3 DEF Range, IsInjective
  <2>3. /\ Range(outList[outId] \o <<f>>) = Range(outList[outId]) \cup {f}
        /\ IsInjective(outList[outId] \o <<f>>)
    <3>1. Range(outList[outId]) \cap Range(<<f>>) = {}
      BY <1>3, <2>2
    <3>2. /\ Range(outList[outId] \o <<f>>) = Range(outList[outId]) \cup Range(<<f>>)
          /\ IsInjective(outList[outId] \o <<f>>)
               <=> /\ IsInjective(outList[outId]) /\ IsInjective(<<f>>)
                   /\ Range(outList[outId]) \cap Range(<<f>>) = {}
      BY <1>4, <2>2, ConcatLists
    <3> QED
      BY <1>4, <2>2, <3>1, <3>2
  <2> QED
    BY <1>3, <1>4, <2>1, <2>3, AppendProperties
<1>6. \A o \in Outs :
        IF o = outId THEN outList'[o] = Append(outList[o], f)
                     ELSE outList'[o] = outList[o]
  BY <1>2 DEF TypeOK
<1>7. \A o \in Outs : Has(o)' = Has(o)
  BY <1>2, <1>3, <1>5, <1>6 DEF Has
<1>8. TypeOK'
  <2>1. dupCount' \in [Frames -> 0 .. NumOutQue]
    BY <1>2, <1>3, DupAssumption DEF SetCount, TypeOK
  <2>2. empty' \in [Outs -> 0 .. PoolSize]
    <3>1. empty[outId] - 1 \in 0 .. PoolSize
      BY <1>1, <1>4, DupAssumption
    <3> QED
      BY <1>2, <3>1 DEF TypeOK
  <2>3. outList' \in [Outs -> Seq(Frames)]
    BY <1>2, <1>5 DEF TypeOK
  <2> QED
    BY <1>2, <1>3, <2>1, <2>2, <2>3 DEF TypeOK
<1>9. Apart'
  <2>1. ASSUME NEW o \in Outs
        PROVE  /\ IsInjective(full[o]) /\ IsInjective(outList'[o])
               /\ held[o] \cap Range(full[o]) = {}
               /\ held[o] \cap Range(outList'[o]) = {}
               /\ Range(full[o]) \cap Range(outList'[o]) = {}
               /\ Pend(o)' \cap (held[o] \cup Range(full[o]) \cup Range(outList'[o])) = {}
    <3>1. CASE o = outId
      <4>1. /\ IsInjective(outList'[o]) /\ Range(outList'[o]) = Range(outList[o]) \cup {f}
            /\ Pend(o)' = Pend(o) \ {f}
            /\ f \notin held[o] \cup Range(full[o]) \cup Range(outList[o])
        BY <1>3, <1>5, <1>6, <3>1
      <4>2. /\ IsInjective(full[o])
            /\ held[o] \cap Range(full[o]) = {}
            /\ held[o] \cap Range(outList[o]) = {}
            /\ Range(full[o]) \cap Range(outList[o]) = {}
            /\ Pend(o) \cap (held[o] \cup Range(full[o]) \cup Range(outList[o])) = {}
        BY DEF Sharing, Apart
      <4> QED
        BY <4>1, <4>2
    <3>2. CASE o # outId
      BY <1>3, <1>6, <3>2 DEF Sharing, Apart
    <3> QED
      BY <3>1, <3>2
  <2> QED
    BY <1>2, <2>1 DEF Apart
<1>10. LoopInv'
  <2>1. \A o \in Outs : ~ (o < 0)
    BY DEF Outs
  <2> QED
    BY <1>2, <1>3, <2>1 DEF Sharing, LoopInv
<1>11. Sharing'
  BY <1>2, <1>7, <1>9, <1>10 DEF Sharing, HomeInv, FreeInv, LockInv
<1>12. CountInv'
  <2>1. \A g : Holders(g)' = Holders(g)
    BY <1>7 DEF Holders
  <2>2. ASSUME NEW g \in Frames \ Unstarted', g # f
        PROVE  dupCount'[g] = Cardinality(Holders(g))
    <3>1. dupCount'[g] = dupCount[g]
      BY <1>2, <2>2 DEF SetCount, TypeOK
    <3>2. g \notin Unstarted
      BY <1>3, <2>2
    <3> QED
      BY <3>1, <3>2 DEF CountInv
  <2>3. dupCount'[f] = Cardinality(Holders(f))
    <3>1. CASE outId = 0
      <4>1. Holders(f) = Outs
        BY <1>3, <3>1 DEF Holders, Has
      <4> QED
        BY <1>2, <1>3, <3>1, <4>1, OutsFinite DEF SetCount, TypeOK
    <3>2. CASE outId # 0
      BY <1>2, <1>3, <3>2 DEF SetCount, CountInv
    <3> QED
      BY <3>1, <3>2
  <2> QED
    BY <2>1, <2>2, <2>3 DEF CountInv
<1>13. PoolConserved'
  <2>1. ASSUME NEW o \in Outs
        PROVE  PoolSize = empty'[o] + Len(outList'[o]) + Len(full[o])
                            + Cardinality(held[o]) + Cardinality(back[o])
    <3> DEFINE u == Len(full[o])
               h == Cardinality(held[o])
               l == Len(outList[o])
               l2 == Len(outList'[o])
               b == Cardinality(back[o])
    <3>1. u \in Nat /\ l \in Nat /\ h \in Nat /\ b \in Nat /\ empty[o] \in Nat
      BY Sizes DEF Sharing, TypeOK
    <3>2. PoolSize = empty[o] + l + u + h + b
      BY DEF PoolConserved
    <3>3. IF o = outId THEN l2 = l + 1 /\ empty'[o] = empty[o] - 1
                       ELSE l2 = l /\ empty'[o] = empty[o]
      BY <1>2, <1>5, <1>6 DEF TypeOK
    <3> HIDE DEF u, h, l, l2, b
    <3>4. PoolSize = empty'[o] + l2 + u + h + b
      BY <3>1, <3>2, <3>3
    <3> QED
      BY <3>4 DEF u, h, l2, b
  <2> QED
    BY <1>2, <2>1 DEF PoolConserved
<1> QED
  BY <1>3, <1>7, <1>8, <1>11, <1>12, <1>13 DEF PoolLasts, Kept

(* Every step keeps the invariant when the pool is large enough.            *)
LEMMA InvNext == BigPool /\ IInv /\ [Next]_vars => IInv'
<1> SUFFICES ASSUME BigPool, IInv, [Next]_vars PROVE IInv'
  OBVIOUS
<1>1. CASE GetFull
  BY <1>1, GetFullInv
<1>2. CASE TaskStep
  BY <1>2, DupInv, PutFullInv, NotifyInv DEF TaskStep
<1>3. ASSUME NEW o \in Outs, Fetch(o) \/ CountDown(o) \/ Release(o) PROVE IInv'
  BY <1>3, FetchInv, CountDownInv, PutUpInv, PutEmptyInv DEF Release
<1>4. CASE UNCHANGED vars
  <2>1. \A o : Pend(o)' = Pend(o) /\ Has(o)' = Has(o)
    BY <1>4 DEF vars, task, next, Pend, ToDup, Has
  <2>2. TypeOK' /\ PoolConserved' /\ PoolLasts'
    BY <1>4 DEF vars, task, next, IInv, TypeOK, PoolConserved, PoolLasts
  <2>3. Sharing'
    BY <1>4, <2>1 DEF vars, task, next, IInv, Sharing, LoopInv, Apart, HomeInv,
                      FreeInv, LockInv
  <2>4. CountInv'
    BY <1>4, <2>1 DEF vars, task, next, IInv, CountInv, Holders, Unstarted
  <2> QED
    BY <2>2, <2>3, <2>4 DEF IInv
<1> QED
  BY <1>1, <1>2, <1>3, <1>4 DEF Next

(* The invariant holds in every reachable state.                            *)
LEMMA InvAlways == ASSUME BigPool PROVE Spec => []IInv
<1>1. IInv /\ [Next]_vars => IInv'
  BY InvNext
<1> QED
  BY <1>1, InvInit, PTL DEF Spec

(* The reference count of a frame is the number of outputs that still have  *)
(* it, and no duplicate is lost or made, in every reachable state.          *)
THEOREM CountsCorrect == ASSUME BigPool PROVE Spec => []CountsOK
<1>1. IInv => CountsOK
  BY CountsAgree DEF IInv, CountsOK
<1> QED
  BY <1>1, InvAlways, PTL

(* The assertion that an empty duplicate is there, dupLink_tsk.c:183, holds *)
(* however many frames and outputs there are.                               *)
THEOREM PoolAlwaysLasts == ASSUME BigPool PROVE Spec => []PoolLasts
<1>1. IInv => PoolLasts
  BY DEF IInv
<1> QED
  BY <1>1, InvAlways, PTL


-----------------------------------------------------------------------------
(* DupLink implements FrameLoan.                                            *)

\* The outputs each frame is lent to: the mapping of Loan.
Lent == [f \in Frames |-> {o \in Outs : Owes(o, f)}]

(* A frame is lent to its holders.                                          *)
LEMMA LentIs == Lent = [f \in Frames |-> Holders(f)]
  BY OwesHas DEF Lent, Holders

(* Every step lends a list, gives duplicates back, returns originals or is  *)
(* invisible to the previous link.                                          *)
LEMMA RefineNext == BigPool /\ IInv /\ [Next]_vars => [Loan!Next]_(Loan!vars)
<1> SUFFICES ASSUME BigPool, IInv, [Next]_vars PROVE [Loan!Next]_(Loan!vars)
  OBVIOUS
<1> USE DEF IInv
<1>1. Loan!vars = <<up, Lent>> /\ Loan!vars' = <<up', Lent'>>
  BY DEF Loan!vars, Lent
<1>2. Loan!Next = \/ \E F \in SUBSET Frames : Loan!Lend(F) \/ Loan!Return(F)
                  \/ \E F \in SUBSET Frames, o \in Outs : Loan!GiveBack(F, o)
  BY DEF Loan!Next
<1>3. /\ Lent = [f \in Frames |-> Holders(f)]
      /\ Lent' = [f \in Frames |-> Holders(f)']
  BY LentIs DEF Lent, Owes, Holders, Has, Pend
<1>4. ASSUME Kept PROVE Lent' = Lent
  <2>1. \A f : Holders(f)' = Holders(f)
    BY <1>4 DEF Kept, Holders
  <2> QED
    BY <1>3, <2>1
<1>5. CASE GetFull
  <2>1. PICK F \in (SUBSET up) \ {{}} :
          up' = up \ F /\ \A o \in Outs : Has(o)' = Has(o) \cup F
    BY <1>5, GetFullInv
  <2>2. F \in SUBSET Frames
    BY DEF TypeOK
  <2>3. \A f \in Frames : Holders(f)' = IF f \in F THEN Outs ELSE Holders(f)
    BY <2>1 DEF Holders
  <2>4. Lent' = [f \in Frames |-> IF f \in F THEN Outs ELSE Lent[f]]
    BY <1>3, <2>3
  <2>5. Loan!Lend(F)
    BY <2>1, <2>4 DEF Loan!Lend, Lent
  <2> QED
    BY <1>2, <2>2, <2>5
<1>6. CASE TaskStep
  <2>1. Kept
    BY <1>6, DupInv, PutFullInv, NotifyInv DEF TaskStep
  <2>2. UNCHANGED up
    BY <1>6 DEF TaskStep, Dup, PutFull, Notify
  <2> QED
    BY <1>1, <1>4, <2>1, <2>2
<1>7. ASSUME NEW o \in Outs, Fetch(o) \/ PutEmpty(o) PROVE UNCHANGED <<up, Lent>>
  <2>1. Kept
    BY <1>7, FetchInv, PutEmptyInv
  <2>2. UNCHANGED up
    BY <1>7 DEF Fetch, PutEmpty
  <2> QED
    BY <1>4, <2>1, <2>2
<1>8. ASSUME NEW o \in Outs, CountDown(o)
      PROVE  \E F \in SUBSET Frames : Loan!GiveBack(F, o)
  <2>1. PICK F \in (SUBSET held[o]) \ {{}} : held' = [held EXCEPT ![o] = @ \ F]
    BY <1>8 DEF CountDown
  <2>2. UNCHANGED <<up, full, inList, outList, tpc, frameId, outId>>
    BY <1>8 DEF CountDown, task
  <2>3. /\ F \subseteq Has(o)
        /\ \A f : Holders(f)' = IF f \in F THEN Holders(f) \ {o} ELSE Holders(f)
    BY <2>1, <2>2, CountDownHas
  <2>4. F \in SUBSET Frames
    BY DEF TypeOK
  <2>5. \A f \in F : o \in Lent[f]
    BY <1>3, <2>3, <2>4 DEF Holders
  <2>6. Lent' = [f \in Frames |-> IF f \in F THEN Lent[f] \ {o} ELSE Lent[f]]
    BY <1>3, <2>3
  <2>7. Loan!GiveBack(F, o)
    BY <2>1, <2>2, <2>5, <2>6 DEF Loan!GiveBack, Lent
  <2> QED
    BY <2>4, <2>7
<1>9. ASSUME NEW o \in Outs, PutUp(o)
      PROVE  \/ UNCHANGED <<up, Lent>>
             \/ \E F \in SUBSET Frames : Loan!Return(F)
  <2>1. up' = up \cup freeList[o]
    BY <1>9 DEF PutUp
  <2>2. Lent' = Lent
    BY <1>4, <1>9, PutUpInv
  <2>3. CASE freeList[o] = {}
    BY <2>1, <2>2, <2>3
  <2>4. CASE freeList[o] # {}
    <3>1. freeList[o] \in SUBSET Frames
      BY DEF TypeOK
    <3>2. freeList[o] \cap up = {}
      BY DEF Sharing, FreeInv
    <3>3. \A f \in freeList[o] : Lent[f] = {}
      BY <1>3, <3>1 DEF Sharing, FreeInv, Holders
    <3>4. Loan!Return(freeList[o])
      BY <2>1, <2>2, <2>4, <3>2, <3>3 DEF Loan!Return, Lent
    <3> QED
      BY <3>1, <3>4
  <2> QED
    BY <2>3, <2>4
<1>10. ASSUME NEW o \in Outs, Fetch(o) \/ CountDown(o) \/ Release(o)
       PROVE  [Loan!Next]_(Loan!vars)
  BY <1>1, <1>2, <1>7, <1>8, <1>9, <1>10 DEF Release
<1>11. CASE UNCHANGED vars
  <2>1. Kept /\ UNCHANGED up
    BY <1>11 DEF vars, task, next, Kept, Has, Pend, ToDup
  <2> QED
    BY <1>1, <1>4, <2>1
<1> QED
  BY <1>5, <1>6, <1>10, <1>11 DEF Next

(* The previous link lends a frame to all outputs at once, each gives it    *)
(* back once, and it goes home only when no next link reads it: DupLink     *)
(* implements FrameLoan, for any number of frames and outputs.              *)
THEOREM ImplementsFrameLoan == ASSUME BigPool PROVE Spec => IsFrameLoan
<1>1. Init => Loan!Init
  <2>1. Init => \A o \in Outs, f \in Frames : ~ Owes(o, f)
    BY DEF Init, Owes, ToDup, Range
  <2> QED
    BY <2>1 DEF Init, Loan!Init
<1>2. IInv /\ [Next]_vars => [Loan!Next]_(Loan!vars)
  BY RefineNext
<1> QED
  BY <1>1, <1>2, InvAlways, PTL DEF Spec, IsFrameLoan, Loan!Spec
=============================================================================
