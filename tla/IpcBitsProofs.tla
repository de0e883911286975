--------------------------- MODULE IpcBitsProofs ---------------------------
(* Theorems about IpcBits for any number of bit buffers and list elements,  *)
(* in either mode and with any lengths of the lists and mailboxes.          *)
EXTENDS IpcBits, QueueLemmas

-----------------------------------------------------------------------------
(* The inductive invariant.                                                 *)

\* bufState says where an element is, not only where the code asserts it.
ElemsInv ==
  /\ IsInjective(elemQue) /\ IsInjective(listOut)
  /\ IsInjective(outQue) /\ IsInjective(listIn)
  /\ \A e \in Elems :
       /\ e \in Range(elemQue) <=> bufState[e] = "FREE"
       /\ e = elem <=> bufState[e] = "ALLOCED"
       /\ e \in Range(listOut) <=> bufState[e] = "OUTQUE"
       /\ e \in Range(outQue) \/ e \in held <=> bufState[e] = "DEQUEUED"
       /\ ~(e \in Range(outQue) /\ e \in held)
       /\ e \in Range(listIn) <=> bufState[e] = "INQUE"
       /\ map[e] = None <=> bufState[e] = "FREE"

\* An element stands for the bit buffer.
Mapped(b) == \E e \in Elems : map[e] = b

\* A bit buffer is in one place, and an element that stands for it is alone.
BufsInv ==
  /\ IsInjective(ready) /\ IsInjective(bufList) /\ IsInjective(freeList)
  /\ \A e1, e2 \in Elems : map[e1] = map[e2] /\ map[e1] # None => e1 = e2
  /\ \A b \in Bufs :
       /\ b \in home => b \notin Range(ready)
       /\ b \in home \/ b \in Range(ready) => b \notin Range(bufList)
       /\ b \in home \/ b \in Range(ready) \/ b \in Range(bufList) =>
            b \notin Range(freeList)
       /\ Mapped(b) <=> ~ \/ b \in home \/ b \in Range(ready)
                          \/ b \in Range(bufList) \/ b \in Range(freeList)

\* What OUT holds at each point of its handler.
PointInv ==
  /\ opc = "put" <=> elem # None
  /\ opc = "fill" => bufList # <<>>
  /\ opc \notin {"fill", "put"} => bufList = <<>>
  /\ opc # "release" => freeList = <<>>

\* A message is counted late, never early; only polled mode counts.
CountInv ==
  /\ PendingIsQueued
  /\ lpc = "count" => polled
  /\ ppc = "count" => polled /\ pending < MaxPending

IInv == TypeOK /\ ElemsInv /\ BufsInv /\ PointInv /\ CountInv

-----------------------------------------------------------------------------
(* What a step leaves alone.                                                *)

LEMMA SameElems ==
  ASSUME ElemsInv, UNCHANGED <<elemQue, listOut, outQue, listIn>>,
         UNCHANGED <<elem, held, bufState, map>>
  PROVE  ElemsInv'
  BY DEF ElemsInv

LEMMA SameBufs ==
  ASSUME BufsInv, UNCHANGED <<home, ready, bufList, freeList, map>>
  PROVE  BufsInv'
  BY DEF BufsInv, Mapped

LEMMA SamePoint ==
  ASSUME PointInv, UNCHANGED <<opc, elem, bufList, freeList>>
  PROVE  PointInv'
  BY DEF PointInv

LEMMA SameCount ==
  ASSUME CountInv, UNCHANGED <<polled, lpc, ppc, inMbx, pending>>
  PROVE  CountInv'
  BY DEF CountInv, PendingIsQueued

-----------------------------------------------------------------------------
(* The initial states.                                                      *)

LEMMA InvInit == Init => IInv
<1> SUFFICES ASSUME Init PROVE IInv
  OBVIOUS
<1>1. /\ SetToSeq(Elems) \in Seq(Elems) /\ IsInjective(SetToSeq(Elems))
      /\ Range(SetToSeq(Elems)) = Elems
  BY SetListed, IpcBitsAssumption
<1>2. /\ <<>> \in Seq(Elems) /\ <<>> \in Seq(Bufs) /\ Len(<<>>) = 0
      /\ <<>> \in Seq({"NEW_DATA", "RELEASE"})
      /\ Range(<<>>) = {} /\ IsInjective(<<>>)
  BY ShortLists
<1>3. None \notin Elems /\ None \notin Bufs
  BY IpcBitsAssumption
<1>4. TypeOK
  BY <1>1, <1>2, IpcBitsAssumption DEF Init, TypeOK, States
<1>5. ElemsInv
  BY <1>1, <1>2, <1>3 DEF Init, ElemsInv
<1>6. BufsInv
  BY <1>2, <1>3 DEF Init, BufsInv, Mapped
<1>7. PointInv
  BY DEF Init, PointInv
<1>8. CountInv
  BY DEF Init, CountInv, PendingIsQueued
<1> QED
  BY <1>4, <1>5, <1>6, <1>7, <1>8 DEF IInv

-----------------------------------------------------------------------------
(* The encoder.                                                             *)

LEMMA EncodeInv == ASSUME NEW b \in Bufs PROVE IInv /\ Encode(b) => IInv'
<1> SUFFICES ASSUME IInv, Encode(b) PROVE IInv'
  OBVIOUS
<1>1. TypeOK /\ ElemsInv /\ BufsInv /\ PointInv /\ CountInv
  BY DEF IInv
<1>2. b \in home /\ ready \in Seq(Bufs) /\ b \notin Range(ready) /\ IsInjective(ready)
  BY <1>1 DEF Encode, TypeOK, BufsInv
<1>3. /\ ready' \in Seq(Bufs) /\ IsInjective(ready')
      /\ \A x : x \in Range(ready') <=> x \in Range(ready) \/ x = b
  BY <1>2, PutLast DEF Encode
<1>4. TypeOK'
  BY <1>1, <1>3, IpcBitsAssumption, AppendProperties
     DEF Encode, TypeOK, shared, in, app
<1>5. ElemsInv'
  BY <1>1, SameElems DEF Encode, shared, in, app
<1>6. BufsInv'
  BY <1>1, <1>2, <1>3 DEF Encode, BufsInv, Mapped, shared
<1>7. PointInv' /\ CountInv'
  BY <1>1, SamePoint, SameCount DEF Encode, in
<1> QED
  BY <1>4, <1>5, <1>6, <1>7 DEF IInv

-----------------------------------------------------------------------------
(* OUT.                                                                     *)

LEMMA OutRecvInv == IInv /\ OutRecv => IInv'
<1> SUFFICES ASSUME IInv, OutRecv PROVE IInv'
  OBVIOUS
<1>1. TypeOK /\ ElemsInv /\ BufsInv /\ PointInv /\ CountInv
  BY DEF IInv
<1>2. /\ outMbx' \in Seq({"NEW_DATA", "RELEASE"}) /\ Len(outMbx') <= MbxLen
  <2>1. outMbx \in Seq({"NEW_DATA", "RELEASE"}) /\ outMbx # <<>> /\ Len(outMbx) <= MbxLen
    BY <1>1 DEF OutRecv, TypeOK
  <2>2. /\ Tail(outMbx) \in Seq({"NEW_DATA", "RELEASE"})
        /\ Len(Tail(outMbx)) = Len(outMbx) - 1 /\ Len(outMbx) \in Nat
    BY <2>1, HeadTailProperties, LenProperties
  <2> QED
    BY <2>1, <2>2, IpcBitsAssumption DEF OutRecv
<1>3. TypeOK'
  BY <1>1, <1>2 DEF OutRecv, TypeOK, encoder, shared, in, app
<1>4. ElemsInv' /\ BufsInv' /\ CountInv'
  BY <1>1, SameElems, SameBufs, SameCount DEF OutRecv, encoder, shared, in, app
<1>5. PointInv'
  BY <1>1 DEF OutRecv, PointInv
<1> QED
  BY <1>3, <1>4, <1>5 DEF IInv

(* What OUT fetches and what it leaves are the full buffers.                *)
LEMMA GetFullLists ==
  ASSUME TypeOK, PointInv, GetFull
  PROVE  /\ bufList' \in Seq(Bufs) /\ ready' \in Seq(Bufs) /\ ready = bufList' \o ready'
         /\ bufList = <<>> /\ freeList = <<>>
         /\ ready # <<>> => bufList' # <<>>
<1> DEFINE n == IF Len(ready) < MaxList THEN Len(ready) ELSE MaxList
<1>1. ready \in Seq(Bufs) /\ Len(ready) \in Nat /\ MaxList \in Nat \ {0}
  BY LenProperties, IpcBitsAssumption DEF TypeOK
<1>2. n \in 0 .. Len(ready) /\ (Len(ready) # 0 => n \in Nat \ {0})
  BY <1>1
<1>3. bufList' = SubSeq(ready, 1, n) /\ ready' = SubSeq(ready, n + 1, Len(ready))
  BY DEF GetFull
<1> HIDE DEF n
<1>4. bufList' \in Seq(Bufs) /\ ready' \in Seq(Bufs) /\ ready = bufList' \o ready'
  BY <1>1, <1>2, <1>3, SplitList
<1>5. ready # <<>> => bufList' # <<>>
  <2>1. ready # <<>> => Len(ready) # 0
    BY <1>1, EmptySeq
  <2>2. Len(SubSeq(ready, 1, n)) = n
    BY <1>1, <1>2, SubSeqProperties
  <2> QED
    BY <1>2, <1>3, <2>1, <2>2
<1> QED
  BY <1>4, <1>5 DEF PointInv, GetFull

LEMMA GetFullInv == IInv /\ GetFull => IInv'
<1> SUFFICES ASSUME IInv, GetFull PROVE IInv'
  OBVIOUS
<1>1. TypeOK /\ ElemsInv /\ BufsInv /\ PointInv /\ CountInv
  BY DEF IInv
<1>2. /\ bufList' \in Seq(Bufs) /\ ready' \in Seq(Bufs) /\ ready = bufList' \o ready'
      /\ bufList = <<>> /\ freeList = <<>>
      /\ ready # <<>> => bufList' # <<>>
  BY <1>1, GetFullLists
<1>3. /\ IsInjective(bufList') /\ IsInjective(ready')
      /\ Range(bufList') \cap Range(ready') = {}
      /\ Range(ready) = Range(bufList') \cup Range(ready')
  BY <1>1, <1>2, ConcatLists DEF BufsInv
<1>4. TypeOK'
  BY <1>1, <1>2 DEF GetFull, TypeOK, shared, in, app
<1>5. ElemsInv' /\ CountInv'
  BY <1>1, SameElems, SameCount DEF GetFull, shared, in, app
<1>6. BufsInv'
  <2>1. Range(bufList) = {} /\ Range(freeList) = {}
    BY <1>2, ShortLists
  <2>2. UNCHANGED <<home, map, freeList>>
    BY DEF GetFull, shared
  <2> QED
    BY <1>1, <1>3, <2>1, <2>2 DEF BufsInv, Mapped
<1>7. PointInv'
  <2>1. ready = <<>> => bufList' = <<>>
    <3>1. ready = <<>> => Range(bufList') = {}
      BY <1>3, ShortLists
    <3> QED
      BY <1>2, <3>1, ListEmpty
  <2> QED
    BY <1>1, <1>2, <2>1 DEF GetFull, PointInv
<1> QED
  BY <1>4, <1>5, <1>6, <1>7 DEF IInv

(* An element is claimed only when it is there, for a bit buffer in no      *)
(* other place.                                                             *)
LEMMA FillInv == IInv /\ Fill => IInv'
<1> SUFFICES ASSUME IInv, Fill PROVE IInv'
  OBVIOUS
<1>1. TypeOK /\ ElemsInv /\ BufsInv /\ PointInv /\ CountInv
  BY DEF IInv
<1> DEFINE b == Head(bufList)
<1>2. /\ elemQue \in Seq(Elems) /\ elemQue # <<>> /\ IsInjective(elemQue)
      /\ bufList \in Seq(Bufs) /\ bufList # <<>> /\ IsInjective(bufList)
      /\ elem = None
  BY <1>1 DEF Fill, TypeOK, ElemsInv, BufsInv, PointInv
<1>3. /\ elem' \in Elems /\ elem' \in Range(elemQue)
      /\ elemQue' \in Seq(Elems) /\ IsInjective(elemQue')
      /\ \A x : x \in Range(elemQue') <=> x \in Range(elemQue) /\ x # elem'
  BY <1>2, TakeHead DEF Fill
<1>4. /\ b \in Bufs /\ b \in Range(bufList)
      /\ bufList' \in Seq(Bufs) /\ IsInjective(bufList')
      /\ \A x : x \in Range(bufList') <=> x \in Range(bufList) /\ x # b
  BY <1>2, TakeHead DEF Fill
<1>5. /\ bufState' = [bufState EXCEPT ![elem'] = "ALLOCED"]
      /\ map' = [map EXCEPT ![elem'] = b]
      /\ opc = "fill" /\ opc' = "put"
  BY DEF Fill
<1> HIDE DEF b
<1>6. UNCHANGED <<polled, home, ready, listOut, listIn, outMbx, freeList, clk>>
      /\ UNCHANGED <<inMbx, pending, lpc, ppc, outQue, held, apc>>
  BY DEF Fill, encoder, in, app
<1>7. None \notin Elems /\ None \notin Bufs
  BY IpcBitsAssumption
<1>8. bufState[elem'] = "FREE" /\ map[elem'] = None
  BY <1>1, <1>3 DEF ElemsInv
<1>9. TypeOK'
  BY <1>1, <1>3, <1>4, <1>5, <1>6 DEF TypeOK, States
<1>10. bufState \in [Elems -> States] /\ map \in [Elems -> Bufs \cup {None}]
  BY <1>1 DEF TypeOK
<1>11. \A e \in Elems :
         /\ bufState'[e] = IF e = elem' THEN "ALLOCED" ELSE bufState[e]
         /\ map'[e] = IF e = elem' THEN b ELSE map[e]
  BY <1>3, <1>5, <1>10
<1>12. ElemsInv'
  BY <1>1, <1>2, <1>3, <1>4, <1>6, <1>7, <1>8, <1>11 DEF ElemsInv
<1>13. BufsInv'
  <2>1. ~Mapped(b)
    BY <1>1, <1>4 DEF BufsInv
  <2>2. \A x \in Bufs : Mapped(x)' <=> Mapped(x) \/ x = b
    <3>1. \A x : Mapped(x)' <=> \E e \in Elems : map'[e] = x
      BY DEF Mapped
    <3> QED
      BY <1>3, <1>4, <1>7, <1>8, <1>11, <3>1 DEF Mapped
  <2>3. \A x \in Bufs : Mapped(x)' <=> ~ \/ x \in home \/ x \in Range(ready)
                                         \/ x \in Range(bufList') \/ x \in Range(freeList)
    BY <1>1, <1>4, <2>1, <2>2 DEF BufsInv
  <2>4. \A e1, e2 \in Elems : map'[e1] = map'[e2] /\ map'[e1] # None => e1 = e2
    BY <1>1, <1>11, <2>1 DEF BufsInv, Mapped
  <2> QED
    BY <1>1, <1>4, <1>6, <2>3, <2>4 DEF BufsInv
<1>14. PointInv' /\ CountInv'
  BY <1>1, <1>3, <1>5, <1>6, <1>7, SameCount DEF PointInv
<1> QED
  BY <1>9, <1>12, <1>13, <1>14 DEF IInv

LEMMA PutOutInv == IInv /\ PutOut => IInv'
<1> SUFFICES ASSUME IInv, PutOut PROVE IInv'
  OBVIOUS
<1>1. TypeOK /\ ElemsInv /\ BufsInv /\ PointInv /\ CountInv
  BY DEF IInv
<1>2. elem \in Elems /\ bufState[elem] = "ALLOCED"
  BY <1>1 DEF PutOut, TypeOK, PointInv, ElemsInv
<1>3. listOut \in Seq(Elems) /\ IsInjective(listOut) /\ elem \notin Range(listOut)
  BY <1>1, <1>2 DEF TypeOK, ElemsInv
<1>4. /\ listOut' \in Seq(Elems) /\ IsInjective(listOut')
      /\ \A x : x \in Range(listOut') <=> x \in Range(listOut) \/ x = elem
  BY <1>2, <1>3, PutLast DEF PutOut
<1>5. UNCHANGED <<polled, home, ready, map, listIn, outMbx, bufList, freeList, clk>>
      /\ UNCHANGED <<elemQue, inMbx, pending, lpc, ppc, outQue, held, apc>>
  BY DEF PutOut, encoder, in, app
<1>6. bufState \in [Elems -> States] /\ elem' = None
      /\ bufState' = [bufState EXCEPT ![elem] = "OUTQUE"]
  BY <1>1 DEF TypeOK, PutOut
<1>7. TypeOK'
  BY <1>1, <1>2, <1>4, <1>5, <1>6 DEF PutOut, TypeOK, States
<1>8. ElemsInv'
  BY <1>1, <1>2, <1>4, <1>5, <1>6, IpcBitsAssumption DEF ElemsInv
<1>9. BufsInv' /\ CountInv'
  BY <1>1, <1>5, SameBufs, SameCount
<1>10. PointInv'
  BY <1>1, <1>5 DEF PutOut, PointInv
<1> QED
  BY <1>7, <1>8, <1>9, <1>10 DEF IInv

LEMMA NotifyInInv == IInv /\ NotifyIn => IInv'
<1> SUFFICES ASSUME IInv, NotifyIn PROVE IInv'
  OBVIOUS
<1>1. TypeOK /\ ElemsInv /\ BufsInv /\ PointInv /\ CountInv
  BY DEF IInv
<1>2. TypeOK'
  BY <1>1 DEF NotifyIn, TypeOK, encoder, shared, app
<1>3. ElemsInv' /\ BufsInv'
  BY <1>1, SameElems, SameBufs DEF NotifyIn, encoder, shared, app
<1>4. PointInv'
  BY <1>1 DEF NotifyIn, PointInv
<1>5. CountInv'
  BY <1>1 DEF NotifyIn, CountInv, PendingIsQueued
<1> QED
  BY <1>2, <1>3, <1>4, <1>5 DEF IInv

LEMMA ReleaseInv == IInv /\ Release => IInv'
<1> SUFFICES ASSUME IInv, Release PROVE IInv'
  OBVIOUS
<1>1. TypeOK /\ ElemsInv /\ BufsInv /\ PointInv /\ CountInv
  BY DEF IInv
<1> DEFINE e == Head(listIn)
           b == map[e]
<1>2. /\ listIn \in Seq(Elems) /\ listIn # <<>> /\ IsInjective(listIn)
      /\ elemQue \in Seq(Elems) /\ IsInjective(elemQue)
      /\ freeList \in Seq(Bufs) /\ IsInjective(freeList)
      /\ bufState \in [Elems -> States] /\ map \in [Elems -> Bufs \cup {None}]
  BY <1>1 DEF Release, TypeOK, ElemsInv, BufsInv
<1>3. /\ e \in Elems /\ e \in Range(listIn)
      /\ listIn' \in Seq(Elems) /\ IsInjective(listIn')
      /\ \A x : x \in Range(listIn') <=> x \in Range(listIn) /\ x # e
  BY <1>2, TakeHead DEF Release
<1>4. bufState[e] = "INQUE" /\ map[e] # None /\ e \notin Range(elemQue)
  BY <1>1, <1>3 DEF ElemsInv
<1>5. /\ elemQue' \in Seq(Elems) /\ IsInjective(elemQue')
      /\ \A x : x \in Range(elemQue') <=> x \in Range(elemQue) \/ x = e
  BY <1>2, <1>3, <1>4, PutLast DEF Release
<1>6. b \in Bufs
  BY <1>2, <1>3, <1>4
<1>7. b \notin home /\ b \notin Range(ready) /\ b \notin Range(bufList) /\ b \notin Range(freeList)
  <2>1. Mapped(b)
    BY <1>3 DEF Mapped
  <2> QED
    BY <1>1, <1>6, <2>1 DEF BufsInv
<1>8. /\ freeList' \in Seq(Bufs) /\ IsInjective(freeList') /\ Len(freeList') = Len(freeList) + 1
      /\ \A x : x \in Range(freeList') <=> x \in Range(freeList) \/ x = b
  BY <1>2, <1>6, <1>7, PutLast DEF Release
<1>9. \A x \in Elems : /\ bufState'[x] = IF x = e THEN "FREE" ELSE bufState[x]
                      /\ map'[x] = IF x = e THEN None ELSE map[x]
  BY <1>2 DEF Release
<1>10. /\ bufState' \in [Elems -> States] /\ map' \in [Elems -> Bufs \cup {None}]
       /\ Len(freeList') <= MaxList
  <2>1. Len(freeList) \in Nat /\ Len(freeList) <= MaxList /\ Len(freeList) # MaxList
    BY <1>1, LenProperties DEF Release, TypeOK, ListFull
  <2>2. Len(freeList') <= MaxList
    BY <1>8, <2>1, IpcBitsAssumption
  <2> QED
    BY <1>2, <2>2 DEF Release, States
<1>11. UNCHANGED <<polled, home, ready, listOut, outMbx, opc, bufList, elem, clk>>
       /\ UNCHANGED <<inMbx, pending, lpc, ppc, outQue, held, apc>>
  BY DEF Release, encoder, in, app
<1>12. opc = "release"
  BY DEF Release
<1> HIDE DEF e, b
<1>13. TypeOK'
  BY <1>1, <1>3, <1>5, <1>8, <1>10, <1>11 DEF TypeOK
<1>14. ElemsInv'
  <2>1. None # e /\ elem # e
    BY <1>1, <1>3, <1>4, IpcBitsAssumption DEF ElemsInv
  <2> QED
    BY <1>1, <1>3, <1>4, <1>5, <1>9, <1>11, <2>1 DEF ElemsInv
<1>15. BufsInv'
  <2>1. \A x, y \in Elems : map'[x] = map'[y] /\ map'[x] # None => x = y
    BY <1>1, <1>9 DEF BufsInv
  <2>2. \A x \in Bufs : Mapped(x)' <=> Mapped(x) /\ x # b
    <3>1. \A x : Mapped(x)' <=> \E y \in Elems : map'[y] = x
      BY DEF Mapped
    <3>2. \A y \in Elems : map[y] = b => y = e
      BY <1>1, <1>3, <1>4 DEF BufsInv, b
    <3>3. None \notin Bufs /\ map[e] = b
      BY IpcBitsAssumption DEF b
    <3> QED
      BY <1>3, <1>9, <3>1, <3>2, <3>3 DEF Mapped
  <2> QED
    BY <1>1, <1>7, <1>8, <1>11, <2>1, <2>2 DEF BufsInv
<1>16. PointInv' /\ CountInv'
  BY <1>1, <1>11, <1>12, SameCount DEF PointInv
<1> QED
  BY <1>13, <1>14, <1>15, <1>16 DEF IInv

LEMMA PutEmptyInv == IInv /\ PutEmpty => IInv'
<1> SUFFICES ASSUME IInv, PutEmpty PROVE IInv'
  OBVIOUS
<1>1. TypeOK /\ ElemsInv /\ BufsInv /\ PointInv /\ CountInv
  BY DEF IInv
<1>2. home' = home \cup Range(freeList) /\ freeList' = <<>>
  BY ListSet DEF PutEmpty
<1>3. Range(freeList) \subseteq Bufs
  BY <1>1, ListEmpty DEF TypeOK
<1>4. <<>> \in Seq(Bufs) /\ Range(<<>>) = {} /\ IsInjective(<<>>) /\ Len(<<>>) = 0
  BY ShortLists
<1>5. UNCHANGED <<polled, ready, outMbx, bufList, elem, clk, elemQue>>
      /\ UNCHANGED <<bufState, map, listOut, listIn>>
      /\ UNCHANGED <<inMbx, pending, lpc, ppc, outQue, held, apc>>
  BY DEF PutEmpty, shared, in, app
<1>6. TypeOK'
  BY <1>1, <1>2, <1>3, <1>4, <1>5, IpcBitsAssumption DEF PutEmpty, TypeOK
<1>7. ElemsInv' /\ CountInv'
  BY <1>1, <1>5, SameElems, SameCount
<1>8. BufsInv'
  <2>1. \A x : Mapped(x)' <=> Mapped(x)
    BY <1>5 DEF Mapped
  <2> QED
    BY <1>1, <1>2, <1>4, <1>5, <2>1 DEF BufsInv
<1>9. PointInv'
  BY <1>1, <1>2, <1>5 DEF PutEmpty, PointInv
<1> QED
  BY <1>6, <1>7, <1>8, <1>9 DEF IInv

(* A message put in OUT's mailbox disturbs nothing else.                    *)
LEMMA RoomForMsg ==
  ASSUME TypeOK, Len(outMbx) < MbxLen, NEW m \in {"NEW_DATA", "RELEASE"}
  PROVE  /\ Append(outMbx, m) \in Seq({"NEW_DATA", "RELEASE"})
         /\ Len(Append(outMbx, m)) <= MbxLen
<1>1. outMbx \in Seq({"NEW_DATA", "RELEASE"}) /\ Len(outMbx) \in Nat /\ MbxLen \in Nat
  BY LenProperties, IpcBitsAssumption DEF TypeOK
<1>2. Append(outMbx, m) \in Seq({"NEW_DATA", "RELEASE"})
      /\ Len(Append(outMbx, m)) = Len(outMbx) + 1
  BY <1>1, AppendProperties
<1> QED
  BY <1>1, <1>2

LEMMA TickInv == IInv /\ Tick => IInv'
<1> SUFFICES ASSUME IInv, Tick PROVE IInv'
  OBVIOUS
<1>1. TypeOK /\ ElemsInv /\ BufsInv /\ PointInv /\ CountInv
  BY DEF IInv
<1>2. outMbx' \in Seq({"NEW_DATA", "RELEASE"}) /\ Len(outMbx') <= MbxLen
  BY <1>1, RoomForMsg DEF Tick
<1>3. TypeOK'
  BY <1>1, <1>2 DEF Tick, TypeOK, encoder, shared, in, app
<1>4. ElemsInv' /\ BufsInv'
  BY <1>1, SameElems, SameBufs DEF Tick, encoder, shared, in, app
<1>5. PointInv' /\ CountInv'
  BY <1>1, SamePoint, SameCount DEF Tick, in
<1> QED
  BY <1>3, <1>4, <1>5 DEF IInv

-----------------------------------------------------------------------------
(* IN's thread and task.                                                    *)

LEMMA PollInv == IInv /\ Poll => IInv'
<1> SUFFICES ASSUME IInv, Poll PROVE IInv'
  OBVIOUS
<1>1. TypeOK /\ ElemsInv /\ BufsInv /\ PointInv /\ CountInv
  BY DEF IInv
<1>2. TypeOK'
  BY <1>1 DEF Poll, TypeOK, encoder, shared, out, app
<1>3. ElemsInv' /\ BufsInv' /\ PointInv'
  BY <1>1, SameElems, SameBufs, SamePoint DEF Poll, encoder, shared, out, app
<1>4. CountInv'
  BY <1>1, IpcBitsAssumption DEF Poll, TypeOK, CountInv, PendingIsQueued, LinkMayRun
<1> QED
  BY <1>2, <1>3, <1>4 DEF IInv

LEMMA CountedInv == IInv /\ Counted => IInv'
<1> SUFFICES ASSUME IInv, Counted PROVE IInv'
  OBVIOUS
<1>1. TypeOK /\ ElemsInv /\ BufsInv /\ PointInv /\ CountInv
  BY DEF IInv
<1>2. TypeOK'
  BY <1>1, IpcBitsAssumption DEF CountInv, Counted, TypeOK, encoder, shared, out, app
<1>3. ElemsInv' /\ BufsInv' /\ PointInv'
  BY <1>1, SameElems, SameBufs, SamePoint DEF Counted, encoder, shared, out, app
<1>4. CountInv'
  BY <1>1, IpcBitsAssumption DEF Counted, TypeOK, CountInv, PendingIsQueued, LinkMayRun
<1> QED
  BY <1>2, <1>3, <1>4 DEF IInv

LEMMA InRecvInv == IInv /\ InRecv => IInv'
<1> SUFFICES ASSUME IInv, InRecv PROVE IInv'
  OBVIOUS
<1>1. TypeOK /\ ElemsInv /\ BufsInv /\ PointInv /\ CountInv
  BY DEF IInv
<1>2. TypeOK'
  BY <1>1 DEF InRecv, TypeOK, encoder, shared, out, app
<1>3. ElemsInv' /\ BufsInv' /\ PointInv'
  BY <1>1, SameElems, SameBufs, SamePoint DEF InRecv, encoder, shared, out, app
<1>4. CountInv'
  BY <1>1 DEF InRecv, TypeOK, CountInv, PendingIsQueued, LinkMayRun
<1> QED
  BY <1>2, <1>3, <1>4 DEF IInv

LEMMA UncountInv == IInv /\ Uncount => IInv'
<1> SUFFICES ASSUME IInv, Uncount PROVE IInv'
  OBVIOUS
<1>1. TypeOK /\ ElemsInv /\ BufsInv /\ PointInv /\ CountInv
  BY DEF IInv
<1>2. TypeOK'
  BY <1>1, IpcBitsAssumption DEF Uncount, TypeOK, encoder, shared, out, app
<1>3. ElemsInv' /\ BufsInv' /\ PointInv'
  BY <1>1, SameElems, SameBufs, SamePoint DEF Uncount, encoder, shared, out, app
<1>4. CountInv'
  BY <1>1 DEF Uncount, TypeOK, CountInv, PendingIsQueued, LinkMayRun
<1> QED
  BY <1>2, <1>3, <1>4 DEF IInv

LEMMA TakeInv == IInv /\ Take => IInv'
<1> SUFFICES ASSUME IInv, Take PROVE IInv'
  OBVIOUS
<1>1. TypeOK /\ ElemsInv /\ BufsInv /\ PointInv /\ CountInv
  BY DEF IInv
<1> DEFINE e == Head(listOut)
<1>2. /\ listOut \in Seq(Elems) /\ listOut # <<>> /\ IsInjective(listOut)
      /\ outQue \in Seq(Elems) /\ IsInjective(outQue)
      /\ bufState \in [Elems -> States]
  BY <1>1 DEF Take, TypeOK, ElemsInv
<1>3. /\ e \in Elems /\ e \in Range(listOut)
      /\ listOut' \in Seq(Elems) /\ IsInjective(listOut')
      /\ \A x : x \in Range(listOut') <=> x \in Range(listOut) /\ x # e
  BY <1>2, TakeHead DEF Take
<1>4. bufState[e] = "OUTQUE" /\ e \notin Range(outQue)
  BY <1>1, <1>3 DEF ElemsInv
<1>5. /\ outQue' \in Seq(Elems) /\ IsInjective(outQue')
      /\ \A x : x \in Range(outQue') <=> x \in Range(outQue) \/ x = e
  BY <1>2, <1>3, <1>4, PutLast DEF Take
<1>6. /\ bufState' \in [Elems -> States]
      /\ \A x \in Elems : bufState'[x] = IF x = e THEN "DEQUEUED" ELSE bufState[x]
  BY <1>2 DEF Take, States
<1>7. UNCHANGED <<map, listIn, elem, held, elemQue>>
  BY DEF Take, out, app
<1> HIDE DEF e
<1>8. TypeOK'
  BY <1>1, <1>3, <1>5, <1>6 DEF Take, TypeOK, encoder, out, app
<1>9. ElemsInv'
  BY <1>1, <1>3, <1>4, <1>5, <1>6, <1>7 DEF ElemsInv
<1>10. BufsInv' /\ PointInv' /\ CountInv'
  BY <1>1, SameBufs, SamePoint, SameCount DEF Take, encoder, out
<1> QED
  BY <1>8, <1>9, <1>10 DEF IInv

LEMMA TakenInv == IInv /\ Taken => IInv'
<1> SUFFICES ASSUME IInv, Taken PROVE IInv'
  OBVIOUS
<1>1. TypeOK /\ ElemsInv /\ BufsInv /\ PointInv /\ CountInv
  BY DEF IInv
<1>2. TypeOK'
  BY <1>1 DEF Taken, TypeOK, encoder, shared, out, app
<1>3. ElemsInv' /\ BufsInv' /\ PointInv'
  BY <1>1, SameElems, SameBufs, SamePoint DEF Taken, encoder, shared, out, app
<1>4. CountInv'
  BY <1>1 DEF Taken, TypeOK, CountInv, PendingIsQueued, LinkMayRun
<1> QED
  BY <1>2, <1>3, <1>4 DEF IInv

-----------------------------------------------------------------------------
(* The application.                                                         *)

LEMMA AppGetInv == IInv /\ AppGet => IInv'
<1> SUFFICES ASSUME IInv, AppGet PROVE IInv'
  OBVIOUS
<1>1. TypeOK /\ ElemsInv /\ BufsInv /\ PointInv /\ CountInv
  BY DEF IInv
<1> DEFINE e == Head(outQue)
<1>2. outQue \in Seq(Elems) /\ outQue # <<>> /\ IsInjective(outQue)
  BY <1>1 DEF AppGet, TypeOK, ElemsInv
<1>3. /\ e \in Elems /\ e \in Range(outQue)
      /\ outQue' \in Seq(Elems) /\ IsInjective(outQue')
      /\ \A x : x \in Range(outQue') <=> x \in Range(outQue) /\ x # e
  BY <1>2, TakeHead DEF AppGet
<1>4. held' = held \cup {e} /\ bufState[e] = "DEQUEUED"
  BY <1>1, <1>3 DEF AppGet, ElemsInv
<1>5. UNCHANGED <<map, listOut, listIn, elem, bufState, elemQue>>
  BY DEF AppGet, shared, out
<1> HIDE DEF e
<1>6. TypeOK'
  BY <1>1, <1>3, <1>4 DEF AppGet, TypeOK, encoder, shared, out
<1>7. ElemsInv'
  BY <1>1, <1>3, <1>4, <1>5 DEF ElemsInv
<1>8. BufsInv' /\ PointInv' /\ CountInv'
  BY <1>1, SameBufs, SamePoint, SameCount DEF AppGet, encoder, shared, out
<1> QED
  BY <1>6, <1>7, <1>8 DEF IInv

LEMMA AppPutInv == ASSUME NEW e \in Elems PROVE IInv /\ AppPut(e) => IInv'
<1> SUFFICES ASSUME IInv, AppPut(e) PROVE IInv'
  OBVIOUS
<1>1. TypeOK /\ ElemsInv /\ BufsInv /\ PointInv /\ CountInv
  BY DEF IInv
<1>2. e \in held /\ bufState[e] = "DEQUEUED"
  BY <1>1 DEF AppPut, ElemsInv
<1>3. /\ listIn \in Seq(Elems) /\ IsInjective(listIn) /\ e \notin Range(listIn)
      /\ bufState \in [Elems -> States]
  BY <1>1, <1>2 DEF TypeOK, ElemsInv
<1>4. /\ listIn' \in Seq(Elems) /\ IsInjective(listIn')
      /\ \A x : x \in Range(listIn') <=> x \in Range(listIn) \/ x = e
  BY <1>3, PutLast DEF AppPut
<1>5. /\ bufState' \in [Elems -> States] /\ held' = held \ {e}
      /\ \A x \in Elems : bufState'[x] = IF x = e THEN "INQUE" ELSE bufState[x]
  BY <1>3 DEF AppPut, States
<1>6. UNCHANGED <<map, listOut, outQue, elem, elemQue>>
  BY DEF AppPut, out, in
<1>7. TypeOK'
  BY <1>1, <1>4, <1>5 DEF AppPut, TypeOK, encoder, out, in
<1>8. ElemsInv'
  BY <1>1, <1>2, <1>4, <1>5, <1>6 DEF ElemsInv
<1>9. BufsInv' /\ PointInv' /\ CountInv'
  BY <1>1, SameBufs, SamePoint, SameCount DEF AppPut, encoder, out, in
<1> QED
  BY <1>7, <1>8, <1>9 DEF IInv

LEMMA NotifyOutInv == IInv /\ NotifyOut => IInv'
<1> SUFFICES ASSUME IInv, NotifyOut PROVE IInv'
  OBVIOUS
<1>1. TypeOK /\ ElemsInv /\ BufsInv /\ PointInv /\ CountInv
  BY DEF IInv
<1>2. outMbx' \in Seq({"NEW_DATA", "RELEASE"}) /\ Len(outMbx') <= MbxLen
  BY <1>1, RoomForMsg DEF NotifyOut
<1>3. TypeOK'
  BY <1>1, <1>2 DEF NotifyOut, TypeOK, encoder, shared, in
<1>4. ElemsInv' /\ BufsInv'
  BY <1>1, SameElems, SameBufs DEF NotifyOut, encoder, shared, in
<1>5. PointInv' /\ CountInv'
  BY <1>1, SamePoint, SameCount DEF NotifyOut, in
<1> QED
  BY <1>3, <1>4, <1>5 DEF IInv

-----------------------------------------------------------------------------
LEMMA InvNext == IInv /\ [Next]_vars => IInv'
<1> SUFFICES ASSUME IInv, [Next]_vars PROVE IInv'
  OBVIOUS
<1>1. CASE \E b \in Bufs : Encode(b)
  BY <1>1, EncodeInv
<1>2. CASE OutStep
  BY <1>2, OutRecvInv, GetFullInv, FillInv, PutOutInv, NotifyInInv, ReleaseInv, PutEmptyInv
     DEF OutStep
<1>3. CASE Tick \/ Poll \/ Counted \/ LinkStep
  BY <1>3, TickInv, PollInv, CountedInv, InRecvInv, UncountInv, TakeInv, TakenInv
     DEF LinkStep
<1>4. CASE AppStep \/ NotifyOut
  BY <1>4, AppGetInv, AppPutInv, NotifyOutInv DEF AppStep
<1>5. CASE UNCHANGED vars
  <2>1. TypeOK /\ ElemsInv /\ BufsInv /\ PointInv /\ CountInv
    BY DEF IInv
  <2>2. TypeOK'
    BY <1>5, <2>1 DEF vars, encoder, shared, out, in, app, TypeOK
  <2>3. ElemsInv' /\ BufsInv' /\ PointInv' /\ CountInv'
    BY <1>5, <2>1, SameElems, SameBufs, SamePoint, SameCount
       DEF vars, encoder, shared, out, in, app
  <2> QED
    BY <2>2, <2>3 DEF IInv
<1> QED
  BY <1>1, <1>2, <1>3, <1>4, <1>5 DEF Next

LEMMA InvAlways == Spec => []IInv
<1> QED
  BY InvInit, InvNext, PTL DEF Spec

-----------------------------------------------------------------------------
(* From the inductive invariant to the properties.                          *)

ElemList == IF elem = None THEN <<>> ELSE <<elem>>

LEMMA ElemListHolds ==
  ASSUME TypeOK
  PROVE  /\ ElemList \in Seq(Elems) /\ IsInjective(ElemList)
         /\ \A e \in Elems : e \in Range(ElemList) <=> e = elem
<1>1. CASE elem = None
  <2>1. None \notin Elems
    BY IpcBitsAssumption
  <2>2. ElemList = <<>>
    BY <1>1 DEF ElemList
  <2> QED
    BY <1>1, <2>1, <2>2, ShortLists
<1>2. CASE elem # None
  <2>1. ElemList = <<elem>> /\ elem \in Elems
    BY <1>2 DEF ElemList, TypeOK
  <2> QED
    BY <2>1, ShortLists
<1> QED
  BY <1>1, <1>2

(* The elements that are away are those not free, each once.                *)
LEMMA AwayHolds ==
  ASSUME IInv
  PROVE  /\ Away \in Seq(Elems) /\ IsInjective(Away)
         /\ \A e \in Elems : e \in Range(Away) <=> bufState[e] # "FREE"
<1> DEFINE h == SetToSeq(held)
           a == ElemList \o listOut
           b == a \o outQue
           c == b \o h
<1>1. TypeOK /\ ElemsInv
  BY DEF IInv
<1>2. /\ listOut \in Seq(Elems) /\ outQue \in Seq(Elems) /\ listIn \in Seq(Elems)
      /\ IsInjective(listOut) /\ IsInjective(outQue) /\ IsInjective(listIn)
      /\ bufState \in [Elems -> States]
  BY <1>1 DEF TypeOK, ElemsInv
<1>3. h \in Seq(Elems) /\ IsInjective(h) /\ Range(h) = held
  <2>1. held \subseteq Elems /\ IsFiniteSet(held)
    BY <1>1, IpcBitsAssumption, FS_Subset DEF TypeOK
  <2>2. h \in Seq(held) /\ IsInjective(h) /\ Range(h) = held
    BY <2>1, SetListed
  <2>3. Seq(held) \subseteq Seq(Elems)
    BY <2>1
  <2> QED
    BY <2>2, <2>3
<1>4. /\ ElemList \in Seq(Elems) /\ IsInjective(ElemList)
      /\ \A e \in Elems : e \in Range(ElemList) <=> bufState[e] = "ALLOCED"
  BY <1>1, ElemListHolds DEF ElemsInv
<1>5. \A e \in Elems :
         /\ e \in Range(listOut) <=> bufState[e] = "OUTQUE"
         /\ e \in Range(outQue) \/ e \in held <=> bufState[e] = "DEQUEUED"
         /\ ~(e \in Range(outQue) /\ e \in held)
         /\ e \in Range(listIn) <=> bufState[e] = "INQUE"
  BY <1>1 DEF ElemsInv
<1>6. /\ Range(ElemList) \subseteq Elems /\ Range(listOut) \subseteq Elems
      /\ Range(outQue) \subseteq Elems /\ Range(h) \subseteq Elems
      /\ Range(listIn) \subseteq Elems
  BY <1>2, <1>3, <1>4, ListEmpty
<1> HIDE DEF h, a, b, c
<1>7. /\ a \in Seq(Elems) /\ Range(a) = Range(ElemList) \cup Range(listOut)
      /\ IsInjective(a)
  <2>1. Range(ElemList) \cap Range(listOut) = {}
    BY <1>4, <1>5, <1>6
  <2> QED
    BY <1>2, <1>4, <2>1, ConcatLists, ConcatProperties DEF a
<1>8. b \in Seq(Elems) /\ Range(b) = Range(a) \cup Range(outQue) /\ IsInjective(b)
  <2>1. Range(a) \cap Range(outQue) = {}
    BY <1>4, <1>5, <1>6, <1>7
  <2> QED
    BY <1>2, <1>7, <2>1, ConcatLists, ConcatProperties DEF b
<1>9. c \in Seq(Elems) /\ Range(c) = Range(b) \cup held /\ IsInjective(c)
  <2>1. Range(b) \cap Range(h) = {}
    BY <1>3, <1>4, <1>5, <1>6, <1>7, <1>8
  <2> QED
    BY <1>3, <1>8, <2>1, ConcatLists, ConcatProperties DEF c
<1>10. /\ c \o listIn \in Seq(Elems) /\ IsInjective(c \o listIn)
       /\ Range(c \o listIn) = Range(c) \cup Range(listIn)
  <2>1. Range(c) \cap Range(listIn) = {}
    BY <1>3, <1>4, <1>5, <1>6, <1>7, <1>8, <1>9
  <2> QED
    BY <1>2, <1>9, <2>1, ConcatLists, ConcatProperties
<1>11. Away = c \o listIn
  BY DEF Away, ElemList, a, b, c, h
<1>12. ASSUME NEW e \in Elems PROVE e \in Range(Away) <=> bufState[e] # "FREE"
  BY <1>2, <1>3, <1>4, <1>5, <1>7, <1>8, <1>9, <1>10, <1>11 DEF States
<1> QED
  BY <1>10, <1>11, <1>12

(* The bit buffers the elements stand for, each once.                       *)
LEMMA AwayStandsFor ==
  ASSUME IInv
  PROVE  LET m == [i \in DOMAIN Away |-> map[Away[i]]]
         IN  /\ m \in Seq(Bufs) /\ IsInjective(m)
             /\ \A b \in Bufs : b \in Range(m) <=> Mapped(b)
<1> DEFINE m == [i \in DOMAIN Away |-> map[Away[i]]]
<1>1. /\ Away \in Seq(Elems) /\ IsInjective(Away)
      /\ \A e \in Elems : e \in Range(Away) <=> bufState[e] # "FREE"
  BY AwayHolds
<1>2. /\ map \in [Elems -> Bufs \cup {None}] /\ None \notin Bufs
      /\ \A e \in Elems : map[e] = None <=> bufState[e] = "FREE"
      /\ \A e1, e2 \in Elems : map[e1] = map[e2] /\ map[e1] # None => e1 = e2
  BY IpcBitsAssumption DEF IInv, TypeOK, ElemsInv, BufsInv
<1>3. \A i \in DOMAIN Away : /\ Away[i] \in Elems /\ Away[i] \in Range(Away)
                            /\ map[Away[i]] \in Bufs /\ map[Away[i]] # None
  <2>1. SUFFICES ASSUME NEW i \in DOMAIN Away
                 PROVE  /\ Away[i] \in Elems /\ Away[i] \in Range(Away)
                        /\ map[Away[i]] \in Bufs /\ map[Away[i]] # None
    OBVIOUS
  <2>2. Away[i] \in Range(Away) /\ Range(Away) \subseteq Elems
    BY <1>1, ListEmpty DEF Range
  <2>3. bufState[Away[i]] # "FREE"
    BY <1>1, <2>2
  <2> QED
    BY <1>2, <2>2, <2>3
<1>4. m \in Seq(Bufs)
  <2>1. DOMAIN Away = 1 .. Len(Away) /\ Len(Away) \in Nat
    BY <1>1, LenProperties
  <2> QED
    BY <1>3, <2>1
<1>5. IsInjective(m)
  <2>1. \A i, j \in DOMAIN Away : map[Away[i]] = map[Away[j]] => Away[i] = Away[j]
    BY <1>2, <1>3
  <2> QED
    BY <1>1, <2>1 DEF IsInjective
<1>6. ASSUME NEW b \in Bufs PROVE b \in Range(m) <=> Mapped(b)
  <2>1. ASSUME b \in Range(m) PROVE Mapped(b)
    BY <1>3, <2>1 DEF Range, Mapped
  <2>2. ASSUME Mapped(b) PROVE b \in Range(m)
    <3>1. PICK e \in Elems : map[e] = b
      BY <2>2 DEF Mapped
    <3>2. e \in Range(Away)
      BY <1>1, <1>2, <3>1
    <3> QED
      BY <3>1, <3>2 DEF Range
  <2> QED
    BY <2>1, <2>2
<1> QED
  BY <1>4, <1>5, <1>6

(* OUT finds an element for its bit buffer: if none were free, all of them  *)
(* would stand for one of the other bit buffers, and there are too few.     *)
LEMMA ElemForBuf == ASSUME IInv, opc = "fill" PROVE elemQue # <<>>
<1> SUFFICES ASSUME elemQue = <<>> PROVE FALSE
  OBVIOUS
<1> DEFINE b == Head(bufList)
           others == Bufs \ {b}
<1>1. /\ map \in [Elems -> Bufs \cup {None}]
      /\ \A e \in Elems : e \in Range(elemQue) <=> bufState[e] = "FREE"
      /\ \A e \in Elems : map[e] = None <=> bufState[e] = "FREE"
      /\ \A e1, e2 \in Elems : map[e1] = map[e2] /\ map[e1] # None => e1 = e2
  BY DEF IInv, TypeOK, ElemsInv, BufsInv
<1>2. b \in Bufs /\ ~Mapped(b)
  <2>1. bufList \in Seq(Bufs) /\ bufList # <<>> /\ IsInjective(bufList)
    BY DEF IInv, TypeOK, BufsInv, PointInv
  <2>2. b \in Bufs /\ b \in Range(bufList)
    BY <2>1, TakeHead
  <2> QED
    BY <2>2 DEF IInv, BufsInv
<1>3. \A e \in Elems : map[e] # None
  BY <1>1, ShortLists
<1>4. \A e \in Elems : map[e] \in others
  BY <1>1, <1>2, <1>3 DEF Mapped
<1>5. map \in Injection(Elems, others)
  BY <1>1, <1>3, <1>4 DEF Injection, IsInjective
<1>6. IsFiniteSet(others) /\ Cardinality(others) = Cardinality(Bufs) - 1
  BY <1>2, IpcBitsAssumption, FS_RemoveElement
<1>7. Cardinality(Elems) <= Cardinality(others)
  BY <1>5, <1>6, FS_Injection
<1>8. Cardinality(Bufs) \in Nat /\ Cardinality(Elems) \in Nat
  BY IpcBitsAssumption, FS_CardinalityType
<1> QED
  BY <1>6, <1>7, <1>8, IpcBitsAssumption

LEMMA NoneLost == ASSUME IInv PROVE NothingLost
<1> DEFINE es == elemQue \o Away
           m == [i \in DOMAIN Away |-> map[Away[i]]]
           h == SetToSeq(home)
           hr == h \o ready
           hb == hr \o bufList
           hf == hb \o freeList
           bs == hf \o m
<1>1. /\ elemQue \in Seq(Elems) /\ IsInjective(elemQue)
      /\ \A e \in Elems : e \in Range(elemQue) <=> bufState[e] = "FREE"
      /\ \A e \in Elems : map[e] = None <=> bufState[e] = "FREE"
  BY DEF IInv, TypeOK, ElemsInv
<1>2. /\ Away \in Seq(Elems) /\ IsInjective(Away)
      /\ \A e \in Elems : e \in Range(Away) <=> bufState[e] # "FREE"
  BY AwayHolds
<1>3. Range(elemQue) \subseteq Elems /\ Range(Away) \subseteq Elems
  BY <1>1, <1>2, ListEmpty
<1>4. IsInjective(es) /\ ToSet(es) = Elems
  <2>1. /\ Range(elemQue) \cap Range(Away) = {}
        /\ Range(elemQue) \cup Range(Away) = Elems
    BY <1>1, <1>2, <1>3
  <2> QED
    BY <1>1, <1>2, <2>1, ConcatLists, ListSet
<1>5. m \in Seq(Bufs) /\ IsInjective(m) /\ \A b \in Bufs : b \in Range(m) <=> Mapped(b)
  BY AwayStandsFor
<1>6. h \in Seq(Bufs) /\ IsInjective(h) /\ Range(h) = home
  <2>1. home \subseteq Bufs /\ IsFiniteSet(home)
    BY IpcBitsAssumption, FS_Subset DEF IInv, TypeOK
  <2>2. h \in Seq(home) /\ IsInjective(h) /\ Range(h) = home
    BY <2>1, SetListed
  <2>3. Seq(home) \subseteq Seq(Bufs)
    BY <2>1
  <2> QED
    BY <2>2, <2>3
<1>7. /\ ready \in Seq(Bufs) /\ bufList \in Seq(Bufs) /\ freeList \in Seq(Bufs)
      /\ IsInjective(ready) /\ IsInjective(bufList) /\ IsInjective(freeList)
  BY DEF IInv, TypeOK, BufsInv
<1>8. \A b \in Bufs :
         /\ b \in home => b \notin Range(ready)
         /\ b \in home \/ b \in Range(ready) => b \notin Range(bufList)
         /\ b \in home \/ b \in Range(ready) \/ b \in Range(bufList) =>
              b \notin Range(freeList)
         /\ Mapped(b) <=> ~ \/ b \in home \/ b \in Range(ready)
                            \/ b \in Range(bufList) \/ b \in Range(freeList)
  BY DEF IInv, BufsInv
<1>9. /\ home \subseteq Bufs /\ Range(ready) \subseteq Bufs
      /\ Range(bufList) \subseteq Bufs /\ Range(freeList) \subseteq Bufs
      /\ Range(m) \subseteq Bufs
  BY <1>5, <1>6, <1>7, ListEmpty
<1>10. opc = "fill" => elemQue # <<>>
  BY ElemForBuf
<1>11. \A e \in ToSet(elemQue) : map[e] = None
  BY <1>1, <1>3, ListSet
<1> HIDE DEF es, m, h, hr, hb, hf, bs
<1>12. hr \in Seq(Bufs) /\ Range(hr) = home \cup Range(ready) /\ IsInjective(hr)
  <2>1. Range(h) \cap Range(ready) = {}
    BY <1>6, <1>8, <1>9
  <2> QED
    BY <1>6, <1>7, <2>1, ConcatLists, ConcatProperties DEF hr
<1>13. hb \in Seq(Bufs) /\ Range(hb) = Range(hr) \cup Range(bufList) /\ IsInjective(hb)
  <2>1. Range(hr) \cap Range(bufList) = {}
    BY <1>8, <1>9, <1>12
  <2> QED
    BY <1>7, <1>12, <2>1, ConcatLists, ConcatProperties DEF hb
<1>14. hf \in Seq(Bufs) /\ Range(hf) = Range(hb) \cup Range(freeList) /\ IsInjective(hf)
  <2>1. Range(hb) \cap Range(freeList) = {}
    BY <1>8, <1>9, <1>12, <1>13
  <2> QED
    BY <1>7, <1>13, <2>1, ConcatLists, ConcatProperties DEF hf
<1>15. IsInjective(bs) /\ ToSet(bs) = Bufs
  <2>1. Range(hf) \cap Range(m) = {} /\ Range(hf) \cup Range(m) = Bufs
    BY <1>5, <1>8, <1>9, <1>12, <1>13, <1>14
  <2> QED
    BY <1>5, <1>14, <2>1, ConcatLists, ListSet DEF bs
<1> QED
  BY <1>4, <1>10, <1>11, <1>15 DEF NothingLost, es, m, h, hr, hb, hf, bs

(* No bit buffer and no element is lost or doubled between the two cores,   *)
(* OUT always finds an element to claim, and each core finds an element in  *)
(* the state its assertion asks for.                                        *)
THEOREM ListsAlwaysOK == Spec => []ListsOK
<1>1. IInv => ListsOK
  <2> SUFFICES ASSUME IInv PROVE ListsOK
    OBVIOUS
  <2>1. StateIsPlace
    BY ListSet DEF IInv, ElemsInv, StateIsPlace
  <2> QED
    BY <2>1, NoneLost DEF IInv, ListsOK
<1> QED
  BY <1>1, InvAlways, PTL

(* The count the thread and the task share without a lock is the number of  *)
(* NEW_DATA messages to answer for, so the task never asserts.              *)
THEOREM PendingAlwaysQueued == Spec => []PendingIsQueued
<1>1. IInv => PendingIsQueued
  BY DEF IInv, CountInv
<1> QED
  BY <1>1, InvAlways, PTL

-----------------------------------------------------------------------------
(* IpcBits implements FrameLoan.                                            *)

\* The bit buffers the encoder has given away: the mapping of Lender.
Lent == [b \in Bufs |-> IF OnLoan(b) \/ b \in ToSet(ready \o bufList)
                        THEN {"app"} ELSE {}]
OutOf(b) == \/ b \in Range(ready) \/ b \in Range(bufList)
            \/ \E e \in Elems : map[e] = b /\ e \notin Range(listIn)

LEMMA LentIs ==
  ASSUME TypeOK PROVE Lent = [b \in Bufs |-> IF OutOf(b) THEN {"app"} ELSE {}]
<1>1. ToSet(ready \o bufList) = Range(ready) \cup Range(bufList)
  BY ConcatLists, ListSet DEF TypeOK
<1>2. \A b \in Bufs : OnLoan(b) <=> \E e \in Elems : map[e] = b /\ e \notin Range(listIn)
  BY ListSet DEF OnLoan
<1> QED
  BY <1>1, <1>2 DEF Lent, OutOf

\* Nothing is lent or given back.
LoansStay == \A b \in Bufs : OutOf(b)' <=> OutOf(b)

LEMMA SameLoans ==
  ASSUME UNCHANGED <<ready, bufList, map, listIn>> PROVE LoansStay
  BY DEF LoansStay, OutOf

LEMMA GetFullLoans == IInv /\ GetFull => LoansStay
<1> SUFFICES ASSUME IInv, GetFull PROVE LoansStay
  OBVIOUS
<1>1. /\ bufList' \in Seq(Bufs) /\ ready' \in Seq(Bufs) /\ ready = bufList' \o ready'
      /\ bufList = <<>>
  BY GetFullLists DEF IInv
<1>2. Range(ready) = Range(bufList') \cup Range(ready')
  BY <1>1, ConcatLists
<1>3. Range(bufList) = {} /\ UNCHANGED <<map, listIn>>
  BY <1>1, ShortLists DEF GetFull, shared
<1> QED
  BY <1>2, <1>3 DEF LoansStay, OutOf

LEMMA FillLoans == IInv /\ Fill => LoansStay
<1> SUFFICES ASSUME IInv, Fill PROVE LoansStay
  OBVIOUS
<1>1. /\ elemQue \in Seq(Elems) /\ elemQue # <<>> /\ IsInjective(elemQue)
      /\ bufList \in Seq(Bufs) /\ bufList # <<>> /\ IsInjective(bufList)
      /\ map \in [Elems -> Bufs \cup {None}]
  BY DEF IInv, Fill, TypeOK, ElemsInv, BufsInv, PointInv
<1>2. elem' \in Elems /\ elem' \in Range(elemQue)
  BY <1>1, TakeHead DEF Fill
<1>3. elem' \notin Range(listIn) /\ map[elem'] = None
  BY <1>2 DEF IInv, ElemsInv
<1>4. /\ Head(bufList) \in Range(bufList)
      /\ \A x : x \in Range(bufList') <=> x \in Range(bufList) /\ x # Head(bufList)
  BY <1>1, TakeHead DEF Fill
<1>5. \A e \in Elems : map'[e] = IF e = elem' THEN Head(bufList) ELSE map[e]
  BY <1>1 DEF Fill
<1>6. UNCHANGED <<ready, listIn>> /\ None \notin Bufs
  BY IpcBitsAssumption DEF Fill, encoder
<1> QED
  BY <1>2, <1>3, <1>4, <1>5, <1>6 DEF LoansStay, OutOf

LEMMA ReleaseLoans == IInv /\ Release => LoansStay
<1> SUFFICES ASSUME IInv, Release PROVE LoansStay
  OBVIOUS
<1> DEFINE r == Head(listIn)
<1>1. /\ listIn \in Seq(Elems) /\ listIn # <<>> /\ IsInjective(listIn)
      /\ map \in [Elems -> Bufs \cup {None}]
  BY DEF IInv, Release, TypeOK, ElemsInv
<1>2. /\ r \in Elems /\ r \in Range(listIn)
      /\ \A x : x \in Range(listIn') <=> x \in Range(listIn) /\ x # r
  BY <1>1, TakeHead DEF Release
<1>3. \A e \in Elems : map'[e] = IF e = r THEN None ELSE map[e]
  BY <1>1 DEF Release
<1>4. UNCHANGED <<ready, bufList>> /\ None \notin Bufs
  BY IpcBitsAssumption DEF Release, encoder
<1> HIDE DEF r
<1> QED
  BY <1>2, <1>3, <1>4 DEF LoansStay, OutOf

(* Every step lends a bit buffer, gives one back, returns some to the       *)
(* encoder or is invisible to it.                                           *)
LEMMA RefineNext == IInv /\ [Next]_vars => [Lender!Next]_(Lender!vars)
<1> SUFFICES ASSUME IInv, [Next]_vars PROVE [Lender!Next]_(Lender!vars)
  OBVIOUS
<1>1. Lender!vars = <<home, Lent>> /\ Lender!vars' = <<home', Lent'>>
  BY DEF Lender!vars, Lent
<1>2. Lender!Next = \/ \E F \in SUBSET Bufs : Lender!Lend(F) \/ Lender!Return(F)
                    \/ \E F \in SUBSET Bufs, o \in {"app"} : Lender!GiveBack(F, o)
  BY DEF Lender!Next
<1>3. IInv'
  BY InvNext
<1>4. /\ Lent = [b \in Bufs |-> IF OutOf(b) THEN {"app"} ELSE {}]
      /\ Lent' = [b \in Bufs |-> IF OutOf(b)' THEN {"app"} ELSE {}]
  <2>1. /\ ToSet(ready' \o bufList') = Range(ready') \cup Range(bufList')
        /\ ToSet(listIn') = Range(listIn')
    BY <1>3, ConcatLists, ListSet DEF IInv, TypeOK
  <2>2. Lent' = [b \in Bufs |-> IF OutOf(b)' THEN {"app"} ELSE {}]
    BY <2>1 DEF Lent, OutOf, OnLoan
  <2> QED
    BY <2>2, LentIs DEF IInv
<1>5. ASSUME LoansStay PROVE Lent' = Lent
  BY <1>4, <1>5 DEF LoansStay
<1>6. ASSUME NEW b \in Bufs, Encode(b) PROVE \E F \in SUBSET Bufs : Lender!Lend(F)
  <2>1. /\ b \in home /\ home' = home \ {b}
        /\ ready' = Append(ready, b) /\ UNCHANGED <<bufList, map, listIn>>
    BY <1>6 DEF Encode, shared
  <2>2. \A x : x \in Range(ready') <=> x \in Range(ready) \/ x = b
    <3>1. ready \in Seq(Bufs) /\ b \notin Range(ready) /\ IsInjective(ready)
      BY <2>1 DEF IInv, TypeOK, BufsInv
    <3> QED
      BY <2>1, <3>1, PutLast
  <2>3. \A x \in Bufs : OutOf(x)' <=> OutOf(x) \/ x = b
    BY <2>1, <2>2 DEF OutOf
  <2>4. Lent' = [x \in Bufs |-> IF x \in {b} THEN {"app"} ELSE Lent[x]]
    BY <1>4, <2>3
  <2>5. Lender!Lend({b})
    BY <2>1, <2>4 DEF Lender!Lend, Lent
  <2> QED
    BY <2>5
<1>7. ASSUME NEW e \in Elems, AppPut(e)
      PROVE  \E F \in SUBSET Bufs : Lender!GiveBack(F, "app")
  <2> DEFINE b == map[e]
  <2>1. /\ e \in held /\ listIn' = Append(listIn, e)
        /\ UNCHANGED <<home, ready, bufList, map>>
    BY <1>7 DEF AppPut, encoder, out
  <2>2. /\ listIn \in Seq(Elems) /\ IsInjective(listIn) /\ e \notin Range(listIn)
        /\ b \in Bufs
        /\ \A x \in Elems : map[x] = b => x = e
    <3>1. bufState[e] = "DEQUEUED"
      BY <2>1 DEF IInv, ElemsInv
    <3> QED
      BY <3>1 DEF IInv, TypeOK, ElemsInv, BufsInv
  <2>3. \A x : x \in Range(listIn') <=> x \in Range(listIn) \/ x = e
    BY <2>1, <2>2, PutLast
  <2>4. OutOf(b) /\ b \notin Range(ready) /\ b \notin Range(bufList)
    <3>1. Mapped(b)
      BY DEF Mapped
    <3> QED
      BY <2>2, <3>1 DEF IInv, BufsInv, OutOf
  <2>5. \A x \in Bufs : OutOf(x)' <=> OutOf(x) /\ x # b
    <3>1. UNCHANGED <<ready, bufList, map>> /\ map[e] = b
      BY <2>1
    <3> HIDE DEF b
    <3> QED
      BY <2>2, <2>3, <2>4, <3>1 DEF OutOf
  <2>6. Lent' = [x \in Bufs |-> IF x \in {b} THEN Lent[x] \ {"app"} ELSE Lent[x]]
    BY <1>4, <2>4, <2>5
  <2>7. "app" \in Lent[b]
    BY <1>4, <2>2, <2>4
  <2>8. Lender!GiveBack({b}, "app")
    BY <2>1, <2>6, <2>7 DEF Lender!GiveBack, Lent
  <2> QED
    BY <2>2, <2>8
<1>8. CASE PutEmpty
  <2>1. home' = home \cup Range(freeList) /\ UNCHANGED <<ready, bufList, map, listIn>>
    BY <1>8, ListSet DEF PutEmpty, shared
  <2>2. Lent' = Lent
    BY <1>5, <2>1, SameLoans
  <2>3. CASE Range(freeList) = {}
    BY <1>1, <2>1, <2>2, <2>3
  <2>4. CASE Range(freeList) # {}
    <3>1. Range(freeList) \in SUBSET Bufs
      BY ListEmpty DEF IInv, TypeOK
    <3>2. \A b \in Range(freeList) : b \notin home /\ ~OutOf(b)
      BY <3>1 DEF IInv, BufsInv, OutOf, Mapped
    <3>3. \A b \in Range(freeList) : Lent[b] = {}
      BY <1>4, <3>1, <3>2
    <3>4. Lender!Return(Range(freeList))
      BY <2>1, <2>2, <2>4, <3>2, <3>3 DEF Lender!Return, Lent
    <3> QED
      BY <1>2, <3>1, <3>4
  <2> QED
    BY <2>3, <2>4
<1>9. ASSUME UNCHANGED home, LoansStay PROVE [Lender!Next]_(Lender!vars)
  BY <1>1, <1>5, <1>9
<1>10. CASE GetFull \/ Fill \/ Release
  <2>1. UNCHANGED home
    BY <1>10 DEF GetFull, Fill, Release, encoder
  <2> QED
    BY <1>9, <1>10, <2>1, GetFullLoans, FillLoans, ReleaseLoans
<1>11. CASE OutRecv \/ PutOut \/ NotifyIn \/ Tick \/ Poll \/ Counted \/ LinkStep
  <2>1. UNCHANGED <<home, ready, bufList, map, listIn>>
    BY <1>11 DEF OutRecv, PutOut, NotifyIn, Tick, Poll, Counted, LinkStep, InRecv, Uncount,
                 Take, Taken, encoder, shared, out
  <2> QED
    BY <1>9, <2>1, SameLoans
<1>12. CASE AppGet \/ NotifyOut \/ UNCHANGED vars
  <2>1. UNCHANGED <<home, ready, bufList, map, listIn>>
    BY <1>12 DEF AppGet, NotifyOut, vars, encoder, shared, out
  <2> QED
    BY <1>9, <2>1, SameLoans
<1>13. CASE \E b \in Bufs : Encode(b)
  BY <1>2, <1>6, <1>13
<1>14. CASE \E e \in Elems : AppPut(e)
  <2>1. PICK F \in SUBSET Bufs : Lender!GiveBack(F, "app")
    BY <1>7, <1>14
  <2>2. \E o \in {"app"} : Lender!GiveBack(F, o)
    BY <2>1
  <2> QED
    BY <1>2, <2>2
<1> QED
  BY <1>8, <1>10, <1>11, <1>12, <1>13, <1>14 DEF Next, OutStep, AppStep

(* Across the cores a bit buffer is lent once, given back once by the       *)
(* application, and goes home to the encoder only after that: IpcBits       *)
(* implements FrameLoan.                                                    *)
THEOREM ImplementsFrameLoan == Spec => IsFrameLoan
<1>1. Init => Lender!Init
  <2> SUFFICES ASSUME Init PROVE Lender!Init
    OBVIOUS
  <2>1. TypeOK
    BY InvInit DEF IInv
  <2>2. \A b \in Bufs : ~OutOf(b)
    BY ShortLists, IpcBitsAssumption DEF Init, OutOf
  <2>3. Lent = [b \in Bufs |-> {}]
    BY <2>1, <2>2, LentIs
  <2> QED
    BY <2>3 DEF Init, Lender!Init, Lent
<1>2. IInv /\ [Next]_vars => [Lender!Next]_(Lender!vars)
  BY RefineNext
<1> QED
  BY <1>1, <1>2, InvAlways, PTL DEF Spec, IsFrameLoan, Lender!Spec

-----------------------------------------------------------------------------
(* The bit buffers stay in order.                                           *)

\* The values of f along a list: Standing for any f.
Images(f, s) == [i \in DOMAIN s |-> f[s[i]]]
ImageSet(f, S) == {f[x] : x \in S}

LEMMA ImagesAre ==
  ASSUME NEW S, NEW f, NEW s \in Seq(S)
  PROVE  Images(f, s) \in Seq(ImageSet(f, S)) /\ Len(Images(f, s)) = Len(s)
<1> DEFINE T == ImageSet(f, S)
<1>1. Len(s) \in Nat /\ DOMAIN s = 1 .. Len(s) /\ \A i \in 1 .. Len(s) : s[i] \in S
  BY LenProperties
<1>2. \A i \in 1 .. Len(s) : f[s[i]] \in T
  BY <1>1 DEF ImageSet
<1> HIDE DEF T
<1>3. Images(f, s) \in [1 .. Len(s) -> T]
  BY <1>1, <1>2 DEF Images
<1>4. Images(f, s) \in Seq(T)
  BY <1>1, <1>3
<1> QED
  BY <1>1, <1>3, <1>4, LenProperties DEF Images, T

LEMMA ImagesConcat ==
  ASSUME NEW S, NEW f, NEW s \in Seq(S), NEW t \in Seq(S)
  PROVE  Images(f, s \o t) = Images(f, s) \o Images(f, t)
<1> DEFINE T == ImageSet(f, S)
           a == Images(f, s)
           b == Images(f, t)
           st == s \o t
           v == Images(f, st)
           u == a \o b
<1>1. /\ st \in Seq(S) /\ Len(st) = Len(s) + Len(t)
      /\ Len(s) \in Nat /\ Len(t) \in Nat
      /\ \A i \in 1 .. Len(s) + Len(t) :
           st[i] = IF i <= Len(s) THEN s[i] ELSE t[i - Len(s)]
  BY ConcatProperties, LenProperties
<1>2. a \in Seq(T) /\ Len(a) = Len(s) /\ \A i \in 1 .. Len(s) : a[i] = f[s[i]]
  BY <1>1, ImagesAre, LenProperties DEF Images
<1>3. b \in Seq(T) /\ Len(b) = Len(t) /\ \A i \in 1 .. Len(t) : b[i] = f[t[i]]
  BY <1>1, ImagesAre, LenProperties DEF Images
<1> HIDE DEF a, b, st, T
<1>4. v \in Seq(T) /\ Len(v) = Len(st) /\ \A i \in 1 .. Len(st) : v[i] = f[st[i]]
  <2>1. v \in Seq(T) /\ Len(v) = Len(st)
    BY <1>1, ImagesAre DEF T
  <2>2. \A i \in 1 .. Len(st) : v[i] = f[st[i]]
    BY <1>1, LenProperties DEF Images
  <2> QED
    BY <2>1, <2>2
<1>5. /\ u \in Seq(T) /\ Len(u) = Len(a) + Len(b)
      /\ \A i \in 1 .. Len(a) + Len(b) :
           u[i] = IF i <= Len(a) THEN a[i] ELSE b[i - Len(a)]
  BY <1>2, <1>3, ConcatProperties
<1> HIDE DEF u, v
<1>6. ASSUME NEW i \in 1 .. Len(s) + Len(t) PROVE u[i] = v[i]
  <2>1. CASE i <= Len(s)
    <3>1. i \in 1 .. Len(s) /\ i \in 1 .. Len(st) /\ i \in 1 .. Len(a) + Len(b)
      BY <1>1, <1>2, <1>3, <2>1
    <3> QED
      BY <1>1, <1>2, <1>4, <1>5, <2>1, <3>1
  <2>2. CASE ~(i <= Len(s))
    <3>1. i - Len(s) \in 1 .. Len(t) /\ i \in 1 .. Len(st) /\ i \in 1 .. Len(a) + Len(b)
      BY <1>1, <1>2, <1>3, <2>2
    <3>2. st[i] = t[i - Len(s)] /\ u[i] = b[i - Len(s)]
      BY <1>1, <1>2, <1>5, <2>2, <3>1
    <3> QED
      BY <1>3, <1>4, <3>1, <3>2
  <2> QED
    BY <2>1, <2>2
<1>7. u = v
  BY <1>1, <1>2, <1>3, <1>4, <1>5, <1>6, SeqEqual
<1> QED
  BY <1>7 DEF a, b, st, u, v

LEMMA ImagesSame ==
  ASSUME NEW S, NEW f, NEW g, NEW s \in Seq(S), \A x \in Range(s) : f[x] = g[x]
  PROVE  Images(f, s) = Images(g, s)
<1>1. \A i \in DOMAIN s : f[s[i]] = g[s[i]]
  BY DEF Range
<1> QED
  BY <1>1 DEF Images

\* The elements on their way to the application.
Line == outQue \o listOut \o ElemList

LEMMA StreamIs == Stream = Images(map, Line) \o bufList \o ready
  BY DEF Stream, Standing, Images, Line, ElemList

LEMMA StreamIsNext == Stream' = Images(map', Line') \o bufList' \o ready'
  BY DEF Stream, Standing, Images, Line, ElemList

LEMMA LineHolds ==
  ASSUME IInv
  PROVE  /\ Line \in Seq(Elems)
         /\ \A e \in Elems : e \in Range(Line) =>
              bufState[e] \in {"ALLOCED", "OUTQUE", "DEQUEUED"}
<1>1. TypeOK /\ ElemsInv
  BY DEF IInv
<1>2. /\ outQue \in Seq(Elems) /\ listOut \in Seq(Elems) /\ ElemList \in Seq(Elems)
      /\ \A e \in Elems : e \in Range(ElemList) <=> e = elem
  BY <1>1, ElemListHolds DEF TypeOK
<1>3. /\ Line \in Seq(Elems)
      /\ Range(Line) = (Range(outQue) \cup Range(listOut)) \cup Range(ElemList)
  <2> DEFINE p == outQue \o listOut
  <2>1. p \in Seq(Elems) /\ Range(p) = Range(outQue) \cup Range(listOut)
    BY <1>2, ConcatLists, ConcatProperties
  <2> HIDE DEF p
  <2>2. /\ p \o ElemList \in Seq(Elems)
        /\ Range(p \o ElemList) = Range(p) \cup Range(ElemList)
    BY <1>2, <2>1, ConcatLists, ConcatProperties
  <2> QED
    BY <2>1, <2>2 DEF Line, p
<1> QED
  BY <1>1, <1>2, <1>3 DEF ElemsInv

\* A step of InOrder: a bit buffer joins the stream or leaves it in turn.
InOrderStep ==
  \/ \E b \in Bufs : Stream' = Append(Stream, b)
  \/ /\ Stream # <<>> /\ Stream' = Tail(Stream)
     /\ \E e \in held' \ held : map[e] = Head(Stream)

Values == Bufs \cup {None}

LEMMA LineTyped ==
  ASSUME IInv
  PROVE  /\ Images(map, Line) \in Seq(Values)
         /\ bufList \in Seq(Values) /\ ready \in Seq(Values)
<1>1. Line \in Seq(Elems) /\ map \in [Elems -> Values]
  BY LineHolds DEF IInv, TypeOK, Values
<1>2. Images(map, Line) \in Seq(ImageSet(map, Elems))
  BY <1>1, ImagesAre
<1>3. ImageSet(map, Elems) \subseteq Values
  BY <1>1 DEF ImageSet
<1>4. Seq(ImageSet(map, Elems)) \subseteq Seq(Values)
  BY <1>3
<1>5. Bufs \subseteq Values /\ bufList \in Seq(Bufs) /\ ready \in Seq(Bufs)
  BY DEF Values, IInv, TypeOK
<1> QED
  BY <1>2, <1>4, <1>5

LEMMA EncodeOrder ==
  ASSUME NEW b \in Bufs, IInv, Encode(b) PROVE Stream' = Append(Stream, b)
<1> DEFINE p == Images(map, Line) \o bufList
<1>1. p \in Seq(Values) /\ ready \in Seq(Values) /\ <<b>> \in Seq(Values) /\ b \in Values
  BY LineTyped, ConcatProperties DEF Values
<1>2. Stream = p \o ready
  BY StreamIs
<1>3. Stream' = p \o Append(ready, b)
  BY StreamIsNext DEF Encode, shared, in, Line, ElemList
<1> HIDE DEF p
<1>4. Append(ready, b) = ready \o <<b>>
  BY <1>1, AppendIsConcat
<1>5. p \o (ready \o <<b>>) = (p \o ready) \o <<b>>
  BY <1>1, ConcatAssociative
<1>6. (p \o ready) \o <<b>> = Append(p \o ready, b)
  BY <1>1, AppendIsConcat, ConcatProperties
<1> QED
  BY <1>2, <1>3, <1>4, <1>5, <1>6

LEMMA GetFullOrder == ASSUME IInv, GetFull PROVE Stream' = Stream
<1> DEFINE p == Images(map, Line)
           l == bufList'
           r == ready'
<1>1. /\ l \in Seq(Bufs) /\ r \in Seq(Bufs) /\ ready = l \o r /\ bufList = <<>>
  BY GetFullLists DEF IInv
<1>2. p \in Seq(Values) /\ l \in Seq(Values) /\ r \in Seq(Values)
  BY <1>1, LineTyped DEF Values
<1>3. Stream = (p \o <<>>) \o (l \o r)
  BY <1>1, StreamIs
<1>4. Stream' = (p \o l) \o r
  BY StreamIsNext DEF GetFull, shared, in, Line, ElemList
<1> HIDE DEF p, l, r
<1>5. p \o <<>> = p
  BY <1>2, ConcatEmptySeq
<1>6. (p \o l) \o r = p \o (l \o r)
  BY <1>2, ConcatAssociative, SMTT(60)
<1> QED
  BY <1>3, <1>4, <1>5, <1>6

(* A list is its head before its tail.                                      *)
LEMMA HeadFirst ==
  ASSUME NEW S, NEW s \in Seq(S), s # <<>>
  PROVE  /\ Head(s) \in S /\ <<Head(s)>> \in Seq(S) /\ Tail(s) \in Seq(S)
         /\ s = <<Head(s)>> \o Tail(s)
<1>1. /\ Len(s) \in Nat \ {0} /\ Head(s) = s[1] /\ Head(s) \in S /\ Tail(s) \in Seq(S)
  BY HeadTailProperties, LenProperties, EmptySeq
<1>2. /\ SubSeq(s, 1, Len(s)) = <<s[1]>> \o SubSeq(s, 2, Len(s))
  <2>1. 1 \in 1 .. Len(s) /\ Len(s) \in 1 .. Len(s) /\ 1 + 1 = 2
    BY <1>1
  <2> QED
    BY <2>1, SubSeqRecursiveFirst
<1>3. SubSeq(s, 1, Len(s)) = s /\ SubSeq(s, 2, Len(s)) = Tail(s)
  BY SubSeqFull, TailIsSubSeq
<1> QED
  BY <1>1, <1>2, <1>3

LEMMA FillOrder == ASSUME IInv, Fill PROVE Stream' = Stream
<1> DEFINE e == Head(elemQue)
           b == Head(bufList)
           t == Tail(bufList)
           q == outQue \o listOut
           p == Images(map, q)
<1>1. /\ elemQue \in Seq(Elems) /\ elemQue # <<>> /\ IsInjective(elemQue)
      /\ bufList \in Seq(Bufs) /\ bufList # <<>> /\ elem = None
      /\ map \in [Elems -> Values] /\ None \notin Elems
  BY IpcBitsAssumption DEF IInv, Fill, TypeOK, ElemsInv, PointInv, Values
<1>2. e \in Elems /\ bufState[e] = "FREE"
  <2>1. e \in Elems /\ e \in Range(elemQue)
    BY <1>1, TakeHead
  <2> QED
    BY <2>1 DEF IInv, ElemsInv
<1>3. q \in Seq(Elems) /\ Line = q
  <2>1. q \in Seq(Elems)
    BY ConcatProperties DEF IInv, TypeOK
  <2>2. ElemList = <<>>
    BY <1>1 DEF ElemList
  <2> QED
    BY <2>1, <2>2, ConcatEmptySeq DEF Line
<1>4. e \notin Range(q)
  BY <1>2, <1>3, LineHolds
<1>5. Line' = q \o <<e>> /\ map' = [map EXCEPT ![e] = b] /\ bufList' = t /\ ready' = ready
  <2>1. elem' = e /\ elem' # None
    BY <1>1, <1>2 DEF Fill
  <2>2. UNCHANGED <<outQue, listOut>>
    BY DEF Fill, in
  <2>3. ElemList' = <<e>>
    BY <2>1 DEF ElemList
  <2> QED
    BY <2>1, <2>2, <2>3 DEF Fill, encoder, Line
<1>6. /\ b \in Values /\ <<b>> \in Seq(Values) /\ t \in Seq(Values)
      /\ bufList = <<b>> \o t
      /\ p \in Seq(Values) /\ ready \in Seq(Values)
  <2>1. Bufs \subseteq Values
    BY DEF Values
  <2>2. b \in Bufs /\ t \in Seq(Bufs) /\ bufList = <<b>> \o t
    BY <1>1, HeadFirst
  <2>3. p \in Seq(Values) /\ ready \in Seq(Values)
    BY <1>3, LineTyped
  <2> QED
    BY <2>1, <2>2, <2>3
<1>7. Stream = (p \o (<<b>> \o t)) \o ready
  BY <1>3, <1>6, StreamIs
<1>8. Stream' = (Images(map', q \o <<e>>) \o t) \o ready
  BY <1>5, StreamIsNext
<1> HIDE DEF e, b, t, q, p
<1>9. Images(map', q \o <<e>>) = p \o <<b>>
  <2> DEFINE g == [map EXCEPT ![e] = b]
  <2>1. <<e>> \in Seq(Elems) /\ g[e] = b /\ \A x \in Elems : x # e => g[x] = map[x]
    BY <1>1, <1>2
  <2>2. Images(g, <<e>>) = <<b>>
    BY <2>1 DEF Images
  <2>3. \A x \in Range(q) : map[x] = g[x]
    <3>1. Range(q) \subseteq Elems
      BY <1>3, ListEmpty
    <3> QED
      BY <1>4, <2>1, <3>1
  <2> HIDE DEF g
  <2>4. Images(map, q) = Images(g, q)
    BY <1>3, <2>3, ImagesSame
  <2>5. Images(g, q \o <<e>>) = Images(g, q) \o Images(g, <<e>>)
    <3>1. ASSUME NEW f, NEW v \in Seq(Elems), NEW w \in Seq(Elems)
          PROVE  Images(f, v \o w) = Images(f, v) \o Images(f, w)
      BY ImagesConcat
    <3>2. q \in Seq(Elems)
      BY <1>3
    <3>3. Images(g, q \o <<e>>) = Images(g, q) \o Images(g, <<e>>)
      BY <2>1, <3>1, <3>2
    <3> QED
      BY <3>3
  <2> QED
    BY <1>5, <2>2, <2>4, <2>5 DEF g, p
<1>10. (p \o <<b>>) \o t = p \o (<<b>> \o t)
  BY <1>6, ConcatAssociative
<1> QED
  BY <1>7, <1>8, <1>9, <1>10

(* The lists between the cores pass an element on at the end of its line.   *)
LEMMA PutOutOrder == ASSUME IInv, PutOut PROVE Stream' = Stream
<1>1. elem \in Elems /\ elem # None /\ None \notin Elems
  BY IpcBitsAssumption DEF IInv, PutOut, TypeOK, PointInv
<1>2. /\ outQue \in Seq(Elems) /\ listOut \in Seq(Elems) /\ <<elem>> \in Seq(Elems)
  BY <1>1 DEF IInv, TypeOK
<1>3. ElemList = <<elem>> /\ ElemList' = <<>>
  BY <1>1 DEF ElemList, PutOut
<1>4. listOut' = listOut \o <<elem>> /\ UNCHANGED <<outQue, map, bufList, ready>>
  BY <1>1, <1>2, AppendIsConcat DEF PutOut, in, encoder
<1>5. Line' = (outQue \o (listOut \o <<elem>>)) \o <<>>
  BY <1>3, <1>4 DEF Line
<1>6. outQue \o (listOut \o <<elem>>) \in Seq(Elems)
  BY <1>2, ConcatProperties
<1>7. Line' = outQue \o (listOut \o <<elem>>)
  BY <1>5, <1>6, ConcatEmptySeq
<1>8. Line' = Line
  <2>1. (outQue \o listOut) \o <<elem>> = outQue \o (listOut \o <<elem>>)
    BY <1>2, ConcatAssociative, SMTT(60)
  <2> QED
    BY <1>3, <1>7, <2>1 DEF Line
<1> QED
  BY <1>4, <1>8, StreamIs, StreamIsNext

LEMMA TakeOrder == ASSUME IInv, Take PROVE Stream' = Stream
<1> DEFINE e == Head(listOut)
           t == Tail(listOut)
<1>1. /\ outQue \in Seq(Elems) /\ listOut \in Seq(Elems) /\ listOut # <<>>
      /\ ElemList \in Seq(Elems)
  BY ElemListHolds DEF IInv, Take, TypeOK
<1>2. /\ e \in Elems /\ <<e>> \in Seq(Elems) /\ t \in Seq(Elems)
      /\ listOut = <<e>> \o t
  BY <1>1, HeadFirst
<1>3. outQue' = outQue \o <<e>> /\ listOut' = t /\ ElemList' = ElemList
      /\ UNCHANGED <<map, bufList, ready>>
  BY <1>1, <1>2, AppendIsConcat DEF Take, out, encoder, ElemList
<1> HIDE DEF e, t
<1>4. (outQue \o <<e>>) \o t = outQue \o (<<e>> \o t)
  BY <1>1, <1>2, ConcatAssociative
<1>5. Line' = Line
  BY <1>2, <1>3, <1>4 DEF Line
<1> QED
  BY <1>3, <1>5, StreamIs, StreamIsNext

(* An element that comes back stands for its bit buffer no more; it is not  *)
(* in the line.                                                             *)
LEMMA ReleaseOrder == ASSUME IInv, Release PROVE Stream' = Stream
<1> DEFINE e == Head(listIn)
           g == [map EXCEPT ![e] = None]
<1>1. e \in Elems /\ bufState[e] = "INQUE" /\ map \in [Elems -> Values]
  <2>1. listIn \in Seq(Elems) /\ listIn # <<>> /\ IsInjective(listIn)
    BY DEF IInv, Release, TypeOK, ElemsInv
  <2>2. e \in Elems /\ e \in Range(listIn)
    BY <2>1, TakeHead
  <2> QED
    BY <2>2 DEF IInv, ElemsInv, TypeOK, Values
<1>2. /\ map' = g /\ Line' = Line /\ UNCHANGED <<bufList, ready>>
  BY DEF Release, encoder, in, Line, ElemList
<1>3. Line \in Seq(Elems) /\ e \notin Range(Line) /\ Range(Line) \subseteq Elems
  BY <1>1, LineHolds, ListEmpty
<1>4. \A x \in Range(Line) : map[x] = g[x]
  BY <1>1, <1>3
<1> HIDE DEF e, g
<1>5. Images(map, Line) = Images(g, Line)
  BY <1>3, <1>4, ImagesSame
<1> QED
  BY <1>2, <1>5, StreamIs, StreamIsNext

(* The application takes the first bit buffer of the stream.                *)
LEMMA AppGetOrder ==
  ASSUME IInv, AppGet
  PROVE  /\ Stream # <<>> /\ Stream' = Tail(Stream)
         /\ \E e \in held' \ held : map[e] = Head(Stream)
<1> DEFINE e == Head(outQue)
           t == Tail(outQue)
           u == (t \o listOut) \o ElemList
           r == Images(map, u)
           z == (r \o bufList) \o ready
<1>1. /\ outQue \in Seq(Elems) /\ listOut \in Seq(Elems) /\ outQue # <<>>
      /\ ElemList \in Seq(Elems) /\ IsInjective(outQue) /\ map \in [Elems -> Values]
  BY ElemListHolds DEF IInv, AppGet, TypeOK, ElemsInv, Values
<1>2. /\ e \in Elems /\ <<e>> \in Seq(Elems) /\ t \in Seq(Elems)
      /\ outQue = <<e>> \o t
  BY <1>1, HeadFirst
<1>3. e \notin held /\ held' = held \cup {e}
  BY <1>1, TakeHead DEF IInv, ElemsInv, AppGet
<1>4. /\ Line' = u /\ UNCHANGED <<map, bufList, ready>>
  BY DEF AppGet, shared, out, encoder, Line, ElemList
<1>5. Stream' = z
  BY <1>4, StreamIsNext
<1>6. Line = ((<<e>> \o t) \o listOut) \o ElemList
  BY <1>2 DEF Line
<1>7. map[e] \in Values /\ <<map[e]>> \in Seq(Values) /\ Images(map, <<e>>) = <<map[e]>>
  BY <1>1, <1>2 DEF Images
<1>8. bufList \in Seq(Values) /\ ready \in Seq(Values)
  BY LineTyped
<1> HIDE DEF e, t
<1>9. t \o listOut \in Seq(Elems) /\ u \in Seq(Elems)
  BY <1>1, <1>2, ConcatProperties
<1>10. Line = <<e>> \o u
  <2>1. (<<e>> \o t) \o listOut = <<e>> \o (t \o listOut)
    BY <1>1, <1>2, ConcatAssociative
  <2>2. (<<e>> \o (t \o listOut)) \o ElemList = <<e>> \o ((t \o listOut) \o ElemList)
    BY <1>1, <1>2, <1>9, ConcatAssociative
  <2> QED
    BY <1>6, <2>1, <2>2
<1> HIDE DEF u
<1>11. Images(map, Line) = <<map[e]>> \o r
  <2>1. Images(map, <<e>> \o u) = Images(map, <<e>>) \o Images(map, u)
    <3>1. ASSUME NEW w \in Seq(Elems) PROVE Images(map, w \o u) = Images(map, w) \o Images(map, u)
      BY <1>9, ImagesConcat
    <3> QED
      BY <1>2, <3>1
  <2> QED
    BY <1>7, <1>10, <2>1
<1>12. r \in Seq(Values)
  <2>1. r \in Seq(ImageSet(map, Elems))
    BY <1>9, ImagesAre
  <2>2. ImageSet(map, Elems) \subseteq Values
    BY <1>1 DEF ImageSet
  <2> QED
    BY <2>1, <2>2
<1> HIDE DEF r
<1>13. z \in Seq(Values) /\ r \o bufList \in Seq(Values)
  BY <1>8, <1>12, ConcatProperties
<1>14. Stream = <<map[e]>> \o z
  <2>1. (<<map[e]>> \o r) \o bufList = <<map[e]>> \o (r \o bufList)
    BY <1>7, <1>8, <1>12, ConcatAssociative
  <2>2. (<<map[e]>> \o (r \o bufList)) \o ready = <<map[e]>> \o ((r \o bufList) \o ready)
    BY <1>7, <1>8, <1>13, ConcatAssociative
  <2> QED
    BY <1>11, <2>1, <2>2, StreamIs
<1> HIDE DEF z
<1>15. /\ <<map[e]>> \o z # <<>>
       /\ Head(<<map[e]>> \o z) = map[e] /\ Tail(<<map[e]>> \o z) = z
  <2> DEFINE w == <<map[e]>> \o z
  <2>1. /\ w \in Seq(Values) /\ Len(w) = 1 + Len(z) /\ w[1] = map[e] /\ Len(z) \in Nat
        /\ \A i \in 1 .. Len(z) : w[i + 1] = z[i]
    <3>1. /\ Len(<<map[e]>>) = 1 /\ <<map[e]>>[1] = map[e] /\ Len(z) \in Nat
      BY <1>13, LenProperties
    <3>2. /\ w \in Seq(Values) /\ Len(w) = 1 + Len(z)
          /\ \A i \in 1 .. 1 + Len(z) : w[i] = IF i <= 1 THEN <<map[e]>>[i] ELSE z[i - 1]
      BY <1>7, <1>13, <3>1, ConcatProperties
    <3> HIDE DEF w
    <3>3. \A i \in 1 .. Len(z) : i + 1 \in 1 .. 1 + Len(z) /\ ~(i + 1 <= 1) /\ (i + 1) - 1 = i
      BY <3>1
    <3>4. 1 \in 1 .. 1 + Len(z)
      BY <3>1
    <3> QED
      BY <3>1, <3>2, <3>3, <3>4
  <2> HIDE DEF w
  <2>2. w # <<>>
    BY <2>1, EmptySeq
  <2>3. /\ Tail(w) \in Seq(Values) /\ Len(Tail(w)) = Len(z)
        /\ \A i \in 1 .. Len(Tail(w)) : Tail(w)[i] = w[i + 1]
    BY <2>1, <2>2, HeadTailProperties
  <2>4. Tail(w) = z
    BY <1>13, <2>1, <2>3, SeqEqual
  <2>5. Head(w) = w[1]
    BY <2>1, <2>2
  <2> QED
    BY <2>1, <2>2, <2>4, <2>5 DEF w
<1> QED
  BY <1>3, <1>5, <1>14, <1>15

LEMMA OrderNext == IInv /\ [Next]_vars => [InOrderStep]_Stream
<1> SUFFICES ASSUME IInv, [Next]_vars PROVE [InOrderStep]_Stream
  OBVIOUS
<1>1. CASE \E b \in Bufs : Encode(b)
  BY <1>1, EncodeOrder DEF InOrderStep
<1>2. CASE GetFull \/ Fill \/ PutOut \/ Release \/ Take
  BY <1>2, GetFullOrder, FillOrder, PutOutOrder, ReleaseOrder, TakeOrder
<1>3. CASE AppGet
  BY <1>3, AppGetOrder DEF InOrderStep
<1>4. ASSUME UNCHANGED <<outQue, listOut, elem, map, bufList, ready>>
      PROVE  Stream' = Stream
  BY <1>4, StreamIs, StreamIsNext DEF Line, ElemList
<1>5. CASE OutRecv \/ NotifyIn \/ PutEmpty \/ Tick
  BY <1>4, <1>5 DEF OutRecv, NotifyIn, PutEmpty, Tick, encoder, shared, in
<1>6. CASE Poll \/ Counted \/ InRecv \/ Uncount \/ Taken
  BY <1>4, <1>6 DEF Poll, Counted, InRecv, Uncount, Taken, encoder, shared, out
<1>7. CASE \E e \in Elems : AppPut(e)
  BY <1>4, <1>7 DEF AppPut, encoder, out, in
<1>8. CASE NotifyOut \/ UNCHANGED vars
  BY <1>4, <1>8 DEF NotifyOut, vars, encoder, shared, out, in
<1> QED
  BY <1>1, <1>2, <1>3, <1>5, <1>6, <1>7, <1>8 DEF Next, OutStep, LinkStep, AppStep

(* The application gets the bit buffers in the order the encoder filled     *)
(* them, none is left out and none comes twice, whatever the two cores do.  *)
THEOREM AlwaysInOrder == Spec => InOrder
<1>1. IInv /\ [Next]_vars => [InOrderStep]_Stream
  BY OrderNext
<1> QED
  BY <1>1, InvAlways, PTL DEF Spec, InOrder, InOrderStep

=============================================================================
