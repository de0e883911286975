-------------------------- MODULE UtilsMbxProofs --------------------------
(* Theorems about UtilsMbx for any number of callers, servers, messages and *)
(* acknowledge queues, and any queue lengths.                               *)
EXTENDS UtilsMbx, QueueLemmas

-----------------------------------------------------------------------------
(* Places.                                                                  *)

FreePlace == <<"free", None>>

\* In after a step.
InNext(p) == CASE p[1] = "free" -> free'
               [] p[1] = "held" -> {held'[p[2]]}
               [] p[1] = "cur"  -> {cur'[p[2]]}
               [] p[1] = "aux"  -> {aux'[p[2]]}
               [] p[1] = "recv" -> Range(recv'[p[2]])
               [] OTHER -> Range(ack'[p[2]])

\* Message m goes from place p to place q, and no other goes anywhere.
Moves(m, p, q) ==
  \A r \in Places, x \in Msgs :
    x \in InNext(r) <=> IF x = m THEN r = q ELSE x \in In(r)

\* Nothing goes anywhere.
Stays == \A r \in Places, x \in Msgs : x \in InNext(r) <=> x \in In(r)

OnePlace == \A m \in Msgs : \E p \in Places : \A q \in Places : m \in In(q) <=> q = p

(* A message in two places is in one.                                       *)
LEMMA OneWhere ==
  ASSUME OnePlace, NEW m \in Msgs, NEW p \in Places, NEW q \in Places,
         m \in In(p), m \in In(q)
  PROVE  p = q
  BY DEF OnePlace

(* What a place holds.                                                      *)
LEMMA PlaceHolds ==
  /\ FreePlace \in Places /\ In(FreePlace) = free
  /\ \A c \in Callers : <<"held", c>> \in Places /\ In(<<"held", c>>) = {held[c]}
  /\ \A s \in Servers : /\ <<"cur", s>> \in Places /\ In(<<"cur", s>>) = {cur[s]}
                        /\ <<"aux", s>> \in Places /\ In(<<"aux", s>>) = {aux[s]}
                        /\ <<"recv", s>> \in Places /\ In(<<"recv", s>>) = Range(recv[s])
  /\ \A k \in AckQues : <<"ack", k>> \in Places /\ In(<<"ack", k>>) = Range(ack[k])
  BY DEF FreePlace, Places, In

(* And after a step.                                                        *)
LEMMA PlaceHoldsNext ==
  /\ InNext(FreePlace) = free'
  /\ \A c \in Callers : InNext(<<"held", c>>) = {held'[c]}
  /\ \A s \in Servers : /\ InNext(<<"cur", s>>) = {cur'[s]}
                        /\ InNext(<<"aux", s>>) = {aux'[s]}
                        /\ InNext(<<"recv", s>>) = Range(recv'[s])
  /\ \A k \in AckQues : InNext(<<"ack", k>>) = Range(ack'[k])
  BY DEF FreePlace, InNext

(* Every place is of one of these kinds.                                    *)
LEMMA PlaceKinds ==
  ASSUME NEW p \in Places
  PROVE  \/ p = FreePlace
         \/ \E c \in Callers : p = <<"held", c>>
         \/ \E s \in Servers : p = <<"cur", s>> \/ p = <<"aux", s>> \/ p = <<"recv", s>>
         \/ \E k \in AckQues : p = <<"ack", k>>
  BY DEF Places, FreePlace

(* OnePlace after a step.                                                   *)
LEMMA OnePlaceNext ==
  ASSUME \A m \in Msgs : \E p \in Places : \A q \in Places : m \in InNext(q) <=> q = p
  PROVE  OnePlace'
  BY DEF OnePlace, Places, In, InNext

(* A message that moves has one place after the step, as before.            *)
LEMMA MoveOnePlace ==
  ASSUME OnePlace, NEW m \in Msgs, NEW p \in Places, NEW q \in Places, Moves(m, p, q)
  PROVE  OnePlace'
<1>1. ASSUME NEW x \in Msgs
      PROVE  \E r \in Places : \A t \in Places : x \in InNext(t) <=> t = r
  BY DEF OnePlace, Moves
<1> QED
  BY <1>1, OnePlaceNext

(* What is kept, place by place.                                            *)
LEMMA SameElsewhere ==
  ASSUME NEW p, NEW q,
         FreePlace \in {p, q} \/ free' = free,
         \A c \in Callers : <<"held", c>> \in {p, q} \/ held'[c] = held[c],
         \A s \in Servers : <<"cur", s>> \in {p, q} \/ cur'[s] = cur[s],
         \A s \in Servers : <<"aux", s>> \in {p, q} \/ aux'[s] = aux[s],
         \A s \in Servers : <<"recv", s>> \in {p, q} \/ recv'[s] = recv[s],
         \A k \in AckQues : <<"ack", k>> \in {p, q} \/ ack'[k] = ack[k]
  PROVE  \A r \in Places : r # p /\ r # q => InNext(r) = In(r)
<1> SUFFICES ASSUME NEW r \in Places, r # p, r # q PROVE InNext(r) = In(r)
  OBVIOUS
<1>1. CASE r = FreePlace
  BY <1>1, PlaceHolds, PlaceHoldsNext
<1>2. CASE \E c \in Callers : r = <<"held", c>>
  <2>1. PICK c \in Callers : r = <<"held", c>>
    BY <1>2
  <2>2. held'[c] = held[c]
    BY <2>1
  <2>3. In(r) = {held[c]} /\ InNext(r) = {held'[c]}
    BY <2>1, PlaceHolds, PlaceHoldsNext
  <2> QED
    BY <2>2, <2>3
<1>3. CASE \E s \in Servers : r = <<"cur", s>>
  <2>1. PICK s \in Servers : r = <<"cur", s>>
    BY <1>3
  <2>2. cur'[s] = cur[s]
    BY <2>1
  <2>3. In(r) = {cur[s]} /\ InNext(r) = {cur'[s]}
    BY <2>1, PlaceHolds, PlaceHoldsNext
  <2> QED
    BY <2>2, <2>3
<1>4. CASE \E s \in Servers : r = <<"aux", s>>
  <2>1. PICK s \in Servers : r = <<"aux", s>>
    BY <1>4
  <2>2. aux'[s] = aux[s]
    BY <2>1
  <2>3. In(r) = {aux[s]} /\ InNext(r) = {aux'[s]}
    BY <2>1, PlaceHolds, PlaceHoldsNext
  <2> QED
    BY <2>2, <2>3
<1>5. CASE \E s \in Servers : r = <<"recv", s>>
  <2>1. PICK s \in Servers : r = <<"recv", s>>
    BY <1>5
  <2>2. recv'[s] = recv[s]
    BY <2>1
  <2>3. In(r) = Range(recv[s]) /\ InNext(r) = Range(recv'[s])
    BY <2>1, PlaceHolds, PlaceHoldsNext
  <2> QED
    BY <2>2, <2>3
<1>6. CASE \E k \in AckQues : r = <<"ack", k>>
  <2>1. PICK k \in AckQues : r = <<"ack", k>>
    BY <1>6
  <2>2. ack'[k] = ack[k]
    BY <2>1
  <2>3. In(r) = Range(ack[k]) /\ InNext(r) = Range(ack'[k])
    BY <2>1, PlaceHolds, PlaceHoldsNext
  <2> QED
    BY <2>2, <2>3
<1> QED
  BY <1>1, <1>2, <1>3, <1>4, <1>5, <1>6, PlaceKinds

(* How a step that takes a message from one place to another looks.         *)
LEMMA Moved ==
  ASSUME OnePlace, NEW m \in Msgs, NEW p \in Places, NEW q \in Places,
         p # q, m \in In(p),
         \A x \in Msgs : x \in InNext(p) <=> x \in In(p) /\ x # m,
         \A x \in Msgs : x \in InNext(q) <=> x \in In(q) \/ x = m,
         \A r \in Places : r # p /\ r # q => InNext(r) = In(r)
  PROVE  Moves(m, p, q) /\ OnePlace'
<1>1. \A r \in Places : m \in In(r) <=> r = p
  BY DEF OnePlace
<1>2. Moves(m, p, q)
  BY <1>1 DEF Moves
<1> QED
  BY <1>2, MoveOnePlace

(* A step that moves nothing.                                               *)
LEMMA StayOnePlace == OnePlace /\ Stays => OnePlace'
<1>1. ASSUME OnePlace, Stays
      PROVE  \A x \in Msgs : \E r \in Places : \A t \in Places : x \in InNext(t) <=> t = r
  BY <1>1 DEF OnePlace, Stays
<1> QED
  BY <1>1, OnePlaceNext

-----------------------------------------------------------------------------
(* The strengthening that makes OneHolder and AckIsExpected inductive.      *)

\* Points of a call that has claimed an acknowledge queue, or has a message.
Claiming == {"alloc", "put", "ack", "free", "release"}
Holding == {"put", "free", "cmdput", "cmdfree"}

CallerInv == \A c \in Callers :
  /\ cpc[c] # "idle" => dest[c] \in Servers
  /\ IF cpc[c] \in Claiming THEN slot[c] \in AckQues /\ inUse[slot[c]]
                            ELSE slot[c] = None
  /\ IF cpc[c] \in Holding THEN held[c] \in Msgs ELSE held[c] = None
  /\ cpc[c] = "free" => held[c] = sent[c]

SlotInv == \A c, d \in Callers : slot[c] = slot[d] /\ slot[c] # None => c = d

ServerInv == \A s \in Servers :
  /\ IF spc[s] \in {"handle", "wait", "waited"} THEN cur[s] \in Msgs ELSE cur[s] = None
  /\ IF spc[s] \in {"flushed", "waited"} THEN aux[s] \in Msgs ELSE aux[s] = None

\* A server has, or will receive, message m.
WithServer(m) == \E s \in Servers : m = cur[s] \/ m = aux[s] \/ m \in Range(recv[s])

\* The sender of m waits for it on the acknowledge queue m names.
Awaited(m) == \E c \in Callers : cpc[c] = "ack" /\ slot[c] = msg[m].ackQue /\ sent[c] = m

AnswerInv == \A m \in Msgs : msg[m].wait /\ WithServer(m) => Awaited(m)

Distinct == /\ \A s \in Servers : IsInjective(recv[s])
            /\ \A k \in AckQues : IsInjective(ack[k])

Control == CallerInv /\ SlotInv /\ ServerInv
IInv == TypeOK /\ Control /\ Distinct /\ OnePlace /\ AnswerInv /\ AckIsExpected

(* OneHolder is Distinct and OnePlace.                                      *)
LEMMA OneHolderIs == OneHolder <=> Distinct /\ OnePlace
  BY DEF OneHolder, Distinct, OnePlace

(* At the start every message is in the pool.                               *)
LEMMA InvInit == Init => IInv
<1> SUFFICES ASSUME Init PROVE IInv
  OBVIOUS
<1> USE DEF Init
<1>1. TypeOK
  BY MbxAssumption, EmptySeq DEF TypeOK, CallerPoints, ServerPoints
<1>2. Control
  BY MbxAssumption DEF Control, CallerInv, SlotInv, ServerInv, Claiming, Holding
<1>3. Distinct
  BY DEF Distinct, IsInjective
<1>4. OnePlace
  <2>1. SUFFICES ASSUME NEW m \in Msgs, NEW q \in Places
                 PROVE  m \in In(q) <=> q = FreePlace
    BY PlaceHolds DEF OnePlace
  <2>2. m \in In(FreePlace)
    BY PlaceHolds
  <2>3. Range(<<>>) = {} /\ m # None
    BY MbxAssumption DEF Range
  <2>4. ASSUME q # FreePlace PROVE m \notin In(q)
    <3>1. CASE \E c \in Callers : q = <<"held", c>>
      BY <2>3, <3>1, PlaceHolds
    <3>2. CASE \E s \in Servers : q = <<"cur", s>> \/ q = <<"aux", s>> \/ q = <<"recv", s>>
      <4>1. PICK s \in Servers : q = <<"cur", s>> \/ q = <<"aux", s>> \/ q = <<"recv", s>>
        BY <3>2
      <4>2. In(<<"cur", s>>) = {None} /\ In(<<"aux", s>>) = {None} /\ In(<<"recv", s>>) = {}
        BY <2>3, PlaceHolds
      <4> QED
        BY <2>3, <4>1, <4>2
    <3>3. CASE \E k \in AckQues : q = <<"ack", k>>
      BY <2>3, <3>3, PlaceHolds
    <3> QED
      BY <2>4, <3>1, <3>2, <3>3, PlaceKinds
  <2> QED
    BY <2>2, <2>4
<1>5. AnswerInv /\ AckIsExpected
  BY DEF AnswerInv, AckIsExpected
<1> QED
  BY <1>1, <1>2, <1>3, <1>4, <1>5 DEF IInv

(* A step that touches no queue and no hand moves nothing.                  *)
LEMMA StayQuiet ==
  ASSUME IInv, UNCHANGED <<free, recv, ack, held, cur, aux>>
  PROVE  /\ Distinct' /\ OnePlace'
         /\ \A m : WithServer(m)' = WithServer(m)
<1>1. Stays
  BY DEF Stays, In, InNext
<1> QED
  BY <1>1, StayOnePlace DEF IInv, Distinct, WithServer

-----------------------------------------------------------------------------
(* The callers' steps.                                                      *)

(* A call begins.                                                           *)
LEMMA CallInv == ASSUME NEW c \in Callers PROVE IInv /\ Call(c) => IInv'
<1> SUFFICES ASSUME IInv, Call(c) PROVE IInv'
  OBVIOUS
<1> USE DEF IInv
<1>1. PICK s \in Servers, w \in BOOLEAN, p \in {"claim", "cmdalloc"} :
        /\ dest' = [dest EXCEPT ![c] = s] /\ wait' = [wait EXCEPT ![c] = w]
        /\ cpc' = [cpc EXCEPT ![c] = p]
  BY DEF Call, CGoto
<1>2. /\ cpc[c] = "idle" /\ calls < MaxCalls /\ calls' = calls + 1
      /\ UNCHANGED <<free, recv, ack, inUse, msg, slot, held, sent, spc, cur, aux>>
  BY DEF Call, serverVars
<1>3. TypeOK'
  <2>1. calls' \in 0 .. MaxCalls
    BY <1>2, MbxAssumption DEF TypeOK
  <2> QED
    BY <1>1, <1>2, <2>1 DEF TypeOK, CallerPoints
<1>4. Control'
  BY <1>1, <1>2 DEF Control, CallerInv, SlotInv, ServerInv, Claiming, Holding, TypeOK
<1>5. Distinct' /\ OnePlace' /\ \A m : WithServer(m)' = WithServer(m)
  BY <1>2, StayQuiet
<1>6. \A d \in Callers : cpc[d] = "ack" => cpc'[d] = "ack"
  BY <1>1, <1>2 DEF TypeOK
<1>7. AnswerInv'
  BY <1>2, <1>5, <1>6 DEF AnswerInv, Awaited
<1>8. AckIsExpected'
  BY <1>2, <1>6 DEF AckIsExpected
<1> QED
  BY <1>3, <1>4, <1>5, <1>7, <1>8

(* A free acknowledge queue is claimed by one caller.                       *)
LEMMA ClaimInv == ASSUME NEW c \in Callers PROVE IInv /\ Claim(c) => IInv'
<1> SUFFICES ASSUME IInv, Claim(c) PROVE IInv'
  OBVIOUS
<1> USE DEF IInv
<1>1. /\ cpc[c] = "claim"
      /\ UNCHANGED <<free, recv, ack, msg, dest, wait, held, sent, spc, cur, aux, calls>>
  BY DEF Claim, params, serverVars
<1>2. Distinct' /\ OnePlace' /\ \A m : WithServer(m)' = WithServer(m)
  BY <1>1, StayQuiet
<1>3. CASE cpc' = [cpc EXCEPT ![c] = "idle"] /\ UNCHANGED <<inUse, slot>>
  <2>1. TypeOK' /\ Control'
    BY <1>1, <1>3 DEF TypeOK, CallerPoints, Control, CallerInv, SlotInv, ServerInv,
                      Claiming, Holding
  <2>2. AnswerInv' /\ AckIsExpected'
    BY <1>1, <1>2, <1>3 DEF AnswerInv, AckIsExpected, Awaited, TypeOK
  <2> QED
    BY <1>2, <2>1, <2>2
<1>4. ASSUME NEW k \in AckQues, ~ inUse[k], inUse' = [inUse EXCEPT ![k] = TRUE],
             slot' = [slot EXCEPT ![c] = k], cpc' = [cpc EXCEPT ![c] = "alloc"]
      PROVE  IInv'
  <2>1. TypeOK'
    BY <1>1, <1>4 DEF TypeOK, CallerPoints
  <2>2. k # None /\ \A d \in Callers : slot[d] # k
    BY <1>4, MbxAssumption DEF Control, CallerInv
  <2>3. Control'
    BY <1>1, <1>4, <2>2 DEF TypeOK, Control, CallerInv, SlotInv, ServerInv, Claiming, Holding
  <2>4. AnswerInv' /\ AckIsExpected'
    BY <1>1, <1>2, <1>4 DEF AnswerInv, AckIsExpected, Awaited, TypeOK
  <2> QED
    BY <1>2, <2>1, <2>3, <2>4
<1> QED
  BY <1>3, <1>4 DEF Claim, CGoto

(* The queue is released when nothing can be on its way to it any more.     *)
LEMMA ReleaseInv == ASSUME NEW c \in Callers PROVE IInv /\ Release(c) => IInv'
<1> SUFFICES ASSUME IInv, Release(c) PROVE IInv'
  OBVIOUS
<1> USE DEF IInv
<1>1. /\ cpc[c] = "release" /\ inUse' = [inUse EXCEPT ![slot[c]] = FALSE]
      /\ slot' = [slot EXCEPT ![c] = None] /\ sent' = [sent EXCEPT ![c] = None]
      /\ cpc' = [cpc EXCEPT ![c] = "idle"]
      /\ UNCHANGED <<free, recv, ack, msg, dest, wait, held, spc, cur, aux, calls>>
  BY DEF Release, CGoto, params, serverVars
<1>2. Distinct' /\ OnePlace' /\ \A m : WithServer(m)' = WithServer(m)
  BY <1>1, StayQuiet
<1>3. TypeOK'
  BY <1>1 DEF TypeOK, CallerPoints
<1>4. slot[c] \in AckQues /\ slot[c] # None
  BY <1>1, MbxAssumption DEF Control, CallerInv, Claiming
<1>5. \A d \in Callers : d # c => slot[d] # slot[c]
  BY <1>4 DEF Control, SlotInv
<1>6. Control'
  BY <1>1, <1>4, <1>5 DEF TypeOK, Control, CallerInv, SlotInv, ServerInv, Claiming, Holding
<1>7. AnswerInv' /\ AckIsExpected'
  BY <1>1, <1>2 DEF AnswerInv, AckIsExpected, Awaited, TypeOK
<1> QED
  BY <1>2, <1>3, <1>6, <1>7

(* After a step that moves m, the servers have what they had but for m.     *)
ServerPlaces == {"cur", "aux", "recv"} \X Servers

LEMMA ServerHas ==
  \A x : WithServer(x) <=> \E s \in Servers : \/ x \in In(<<"cur", s>>)
                                             \/ x \in In(<<"aux", s>>)
                                             \/ x \in In(<<"recv", s>>)
  BY PlaceHolds DEF WithServer

LEMMA ServerHasNext ==
  ASSUME NEW m \in Msgs, NEW p \in Places, NEW q \in Places, Moves(m, p, q)
  PROVE  \A x \in Msgs :
           WithServer(x)' <=> IF x = m THEN q \in ServerPlaces ELSE WithServer(x)
<1>1. \A x : WithServer(x)' <=> \E s \in Servers : \/ x \in InNext(<<"cur", s>>)
                                                  \/ x \in InNext(<<"aux", s>>)
                                                  \/ x \in InNext(<<"recv", s>>)
  BY PlaceHoldsNext DEF WithServer
<1>2. \A s \in Servers : /\ <<"cur", s>> \in Places
                         /\ <<"aux", s>> \in Places
                         /\ <<"recv", s>> \in Places
  BY PlaceHolds
<1>3. q \in ServerPlaces <=> \E s \in Servers : \/ q = <<"cur", s>>
                                               \/ q = <<"aux", s>>
                                               \/ q = <<"recv", s>>
  BY DEF ServerPlaces
<1>4. ASSUME NEW x \in Msgs, x = m PROVE WithServer(x)' <=> q \in ServerPlaces
  BY <1>1, <1>2, <1>3, <1>4 DEF Moves
<1>5. ASSUME NEW x \in Msgs, x # m PROVE WithServer(x)' <=> WithServer(x)
  BY <1>1, <1>2, <1>5, ServerHas DEF Moves
<1> QED
  BY <1>4, <1>5

(* A message that is moved by a step that leaves it unread by others:       *)
(* whoever awaits one of the other messages still does.                     *)
LEMMA AnswerStays ==
  ASSUME NEW m \in Msgs, NEW p \in Places, NEW q \in Places, Moves(m, p, q),
         AnswerInv,
         \A x \in Msgs : x # m => msg'[x] = msg[x],
         \A x \in Msgs : x # m /\ WithServer(x) /\ Awaited(x) => Awaited(x)',
         msg'[m].wait /\ q \in ServerPlaces => Awaited(m)'
  PROVE  AnswerInv'
<1>1. SUFFICES ASSUME NEW x \in Msgs, msg'[x].wait, WithServer(x)'
               PROVE  Awaited(x)'
  BY DEF AnswerInv
<1>2. CASE x = m
  BY <1>1, <1>2, ServerHasNext
<1>3. CASE x # m
  <2>1. WithServer(x) /\ msg[x].wait
    BY <1>1, <1>3, ServerHasNext
  <2> QED
    BY <1>3, <2>1 DEF AnswerInv
<1> QED
  BY <1>2, <1>3

(* A message leaves the pool for a caller's hand.                           *)
LEMMA TakeFree ==
  ASSUME IInv, NEW c \in Callers, NEW m \in free, held[c] = None,
         cpc[c] \in CallerPoints \ {"ack"},
         free' = free \ {m}, held' = [held EXCEPT ![c] = m],
         UNCHANGED <<recv, ack, inUse, msg, slot, sent, spc, cur, aux>>,
         \A d \in Callers : d # c => cpc'[d] = cpc[d]
  PROVE  OnePlace' /\ Distinct' /\ AnswerInv' /\ AckIsExpected'
<1> USE DEF IInv
<1> DEFINE p == FreePlace
           q == <<"held", c>>
<1>1. m \in Msgs /\ m # None
  BY MbxAssumption DEF TypeOK
<1>2. p \in Places /\ q \in Places /\ p # q /\ m \in In(p)
  BY PlaceHolds DEF FreePlace
<1>3. \A x \in Msgs : x \in InNext(p) <=> x \in In(p) /\ x # m
  BY PlaceHolds, PlaceHoldsNext
<1>4. held'[c] = m /\ \A d \in Callers : d # c => held'[d] = held[d]
  BY DEF TypeOK
<1>5. \A x \in Msgs : x \in InNext(q) <=> x \in In(q) \/ x = m
  <2>1. In(q) = {None} /\ InNext(q) = {m}
    BY <1>4, PlaceHolds, PlaceHoldsNext
  <2> QED
    BY <2>1, MbxAssumption
<1>6. \A r \in Places : r # p /\ r # q => InNext(r) = In(r)
  <2>1. \A d \in Callers : <<"held", d>> \in {p, q} \/ held'[d] = held[d]
    BY <1>4
  <2>2. FreePlace \in {p, q}
    OBVIOUS
  <2> HIDE DEF p, q
  <2> QED
    BY <2>1, <2>2, SameElsewhere
<1>7. Moves(m, p, q) /\ OnePlace'
  <2> HIDE DEF p, q
  <2> QED
    BY <1>1, <1>2, <1>3, <1>5, <1>6, Moved
<1>8. Distinct'
  BY DEF Distinct
<1>9. \A d \in Callers : cpc[d] = "ack" => cpc'[d] = "ack"
  OBVIOUS
<1>10. AnswerInv'
  <2>1. q \notin ServerPlaces
    BY DEF ServerPlaces
  <2>2. \A x \in Msgs : Awaited(x) => Awaited(x)'
    BY <1>9 DEF Awaited
  <2> HIDE DEF p, q
  <2> QED
    BY <1>1, <1>2, <1>7, <2>1, <2>2, AnswerStays
<1>11. AckIsExpected'
  BY <1>9 DEF AckIsExpected
<1> QED
  BY <1>7, <1>8, <1>10, <1>11

LEMMA AllocInv == ASSUME NEW c \in Callers PROVE IInv /\ Alloc(c) => IInv'
<1> SUFFICES ASSUME IInv, Alloc(c) PROVE IInv'
  OBVIOUS
<1> USE DEF IInv
<1>1. PICK m \in free : free' = free \ {m} /\ held' = [held EXCEPT ![c] = m]
  BY DEF Alloc
<1>2. /\ cpc[c] = "alloc" /\ cpc' = [cpc EXCEPT ![c] = "put"]
      /\ UNCHANGED <<recv, ack, inUse, msg, dest, wait, slot, sent, spc, cur, aux, calls>>
  BY DEF Alloc, CGoto, params, serverVars
<1>3. TypeOK'
  BY <1>1, <1>2 DEF TypeOK, CallerPoints
<1>4. Control'
  BY <1>1, <1>2 DEF TypeOK, Control, CallerInv, SlotInv, ServerInv, Claiming, Holding
<1>5. held[c] = None /\ cpc[c] \in CallerPoints \ {"ack"}
  BY <1>2 DEF Control, CallerInv, Holding, CallerPoints
<1>6. \A d \in Callers : d # c => cpc'[d] = cpc[d]
  BY <1>2 DEF TypeOK
<1>7. OnePlace' /\ Distinct' /\ AnswerInv' /\ AckIsExpected'
  BY <1>1, <1>2, <1>5, <1>6, TakeFree
<1> QED
  BY <1>3, <1>4, <1>7

LEMMA CmdAllocInv == ASSUME NEW c \in Callers PROVE IInv /\ CmdAlloc(c) => IInv'
<1> SUFFICES ASSUME IInv, CmdAlloc(c) PROVE IInv'
  OBVIOUS
<1> USE DEF IInv
<1>1. /\ cpc[c] = "cmdalloc"
      /\ UNCHANGED <<recv, ack, inUse, msg, dest, wait, slot, sent, spc, cur, aux, calls>>
  BY DEF CmdAlloc, params, serverVars
<1>2. ASSUME NEW m \in free, free' = free \ {m}, held' = [held EXCEPT ![c] = m],
             cpc' = [cpc EXCEPT ![c] = "cmdput"]
      PROVE  IInv'
  <2>1. TypeOK'
    BY <1>1, <1>2 DEF TypeOK, CallerPoints
  <2>2. Control'
    BY <1>1, <1>2 DEF TypeOK, Control, CallerInv, SlotInv, ServerInv, Claiming, Holding
  <2>3. held[c] = None /\ cpc[c] \in CallerPoints \ {"ack"}
    BY <1>1 DEF Control, CallerInv, Holding, CallerPoints
  <2>4. \A d \in Callers : d # c => cpc'[d] = cpc[d]
    BY <1>2 DEF TypeOK
  <2>5. OnePlace' /\ Distinct' /\ AnswerInv' /\ AckIsExpected'
    BY <1>1, <1>2, <2>3, <2>4, TakeFree
  <2> QED
    BY <2>1, <2>2, <2>5
<1>3. CASE cpc' = [cpc EXCEPT ![c] = "idle"] /\ UNCHANGED <<free, held>>
  <2>1. TypeOK' /\ Control'
    BY <1>1, <1>3 DEF TypeOK, CallerPoints, Control, CallerInv, SlotInv, ServerInv,
                      Claiming, Holding
  <2>2. Distinct' /\ OnePlace' /\ \A x : WithServer(x)' = WithServer(x)
    BY <1>1, <1>3, StayQuiet
  <2>3. \A d \in Callers : cpc[d] = "ack" => cpc'[d] = "ack"
    BY <1>1, <1>3 DEF TypeOK
  <2>4. AnswerInv'
    BY <1>1, <2>2, <2>3 DEF AnswerInv, Awaited
  <2>5. AckIsExpected'
    BY <1>1, <2>3 DEF AckIsExpected
  <2> QED
    BY <2>1, <2>2, <2>4, <2>5
<1> QED
  BY <1>2, <1>3 DEF CmdAlloc, CGoto

(* A message in a caller's hand goes back to the pool.                      *)
LEMMA GiveFree ==
  ASSUME IInv, NEW c \in Callers, NEW m \in Msgs, held[c] = m, cpc[c] # "ack",
         free' = free \cup {m}, held' = [held EXCEPT ![c] = None],
         UNCHANGED <<recv, ack, inUse, msg, slot, sent, spc, cur, aux>>,
         \A d \in Callers : d # c => cpc'[d] = cpc[d]
  PROVE  OnePlace' /\ Distinct' /\ AnswerInv' /\ AckIsExpected'
<1> USE DEF IInv
<1> DEFINE p == <<"held", c>>
           q == FreePlace
<1>1. m \in Msgs /\ m # None
  BY MbxAssumption
<1>2. p \in Places /\ q \in Places /\ p # q /\ m \in In(p)
  BY PlaceHolds DEF FreePlace
<1>3. held'[c] = None /\ \A d \in Callers : d # c => held'[d] = held[d]
  BY DEF TypeOK
<1>4. \A x \in Msgs : x \in InNext(p) <=> x \in In(p) /\ x # m
  <2>1. In(p) = {m} /\ InNext(p) = {None}
    BY <1>3, PlaceHolds, PlaceHoldsNext
  <2> QED
    BY <2>1, MbxAssumption
<1>5. \A x \in Msgs : x \in InNext(q) <=> x \in In(q) \/ x = m
  BY PlaceHolds, PlaceHoldsNext
<1>6. \A r \in Places : r # p /\ r # q => InNext(r) = In(r)
  <2>1. \A d \in Callers : <<"held", d>> \in {p, q} \/ held'[d] = held[d]
    BY <1>3
  <2>2. FreePlace \in {p, q}
    OBVIOUS
  <2> HIDE DEF p, q
  <2> QED
    BY <2>1, <2>2, SameElsewhere
<1>7. Moves(m, p, q) /\ OnePlace'
  <2> HIDE DEF p, q
  <2> QED
    BY <1>1, <1>2, <1>4, <1>5, <1>6, Moved
<1>8. Distinct'
  BY DEF Distinct
<1>9. \A d \in Callers : cpc[d] = "ack" => cpc'[d] = "ack"
  OBVIOUS
<1>10. AnswerInv'
  <2>1. q \notin ServerPlaces
    BY DEF ServerPlaces, FreePlace
  <2>2. \A x \in Msgs : Awaited(x) => Awaited(x)'
    BY <1>9 DEF Awaited
  <2> HIDE DEF p, q
  <2> QED
    BY <1>1, <1>2, <1>7, <2>1, <2>2, AnswerStays
<1>11. AckIsExpected'
  BY <1>9 DEF AckIsExpected
<1> QED
  BY <1>7, <1>8, <1>10, <1>11

LEMMA FreeAckInv == ASSUME NEW c \in Callers PROVE IInv /\ FreeAck(c) => IInv'
<1> SUFFICES ASSUME IInv, FreeAck(c) PROVE IInv'
  OBVIOUS
<1> USE DEF IInv
<1>1. /\ cpc[c] = "free" /\ free' = free \cup {held[c]}
      /\ held' = [held EXCEPT ![c] = None]
      /\ UNCHANGED <<recv, ack, inUse, msg, dest, wait, slot, sent, spc, cur, aux, calls>>
  BY DEF FreeAck, params, serverVars
<1>2. held[c] \in Msgs /\ held[c] = sent[c]
  BY <1>1 DEF Control, CallerInv, Holding
<1>3. cpc' = [cpc EXCEPT ![c] = "release"]
  BY <1>2 DEF FreeAck, CGoto
<1>4. TypeOK'
  BY <1>1, <1>2, <1>3 DEF TypeOK, CallerPoints
<1>5. Control'
  BY <1>1, <1>3 DEF TypeOK, Control, CallerInv, SlotInv, ServerInv, Claiming, Holding
<1>6. \A d \in Callers : d # c => cpc'[d] = cpc[d]
  BY <1>3 DEF TypeOK
<1>7. OnePlace' /\ Distinct' /\ AnswerInv' /\ AckIsExpected'
  BY <1>1, <1>2, <1>6, GiveFree
<1> QED
  BY <1>4, <1>5, <1>7

LEMMA CmdFreeInv == ASSUME NEW c \in Callers PROVE IInv /\ CmdFree(c) => IInv'
<1> SUFFICES ASSUME IInv, CmdFree(c) PROVE IInv'
  OBVIOUS
<1> USE DEF IInv
<1>1. /\ cpc[c] = "cmdfree" /\ free' = free \cup {held[c]}
      /\ held' = [held EXCEPT ![c] = None] /\ cpc' = [cpc EXCEPT ![c] = "idle"]
      /\ UNCHANGED <<recv, ack, inUse, msg, dest, wait, slot, sent, spc, cur, aux, calls>>
  BY DEF CmdFree, CGoto, params, serverVars
<1>2. held[c] \in Msgs
  BY <1>1 DEF Control, CallerInv, Holding
<1>3. TypeOK'
  BY <1>1, <1>2 DEF TypeOK, CallerPoints
<1>4. Control'
  BY <1>1 DEF TypeOK, Control, CallerInv, SlotInv, ServerInv, Claiming, Holding
<1>5. \A d \in Callers : d # c => cpc'[d] = cpc[d]
  BY <1>1 DEF TypeOK
<1>6. OnePlace' /\ Distinct' /\ AnswerInv' /\ AckIsExpected'
  BY <1>1, <1>2, <1>5, GiveFree
<1> QED
  BY <1>3, <1>4, <1>6

(* A message in a caller's hand is filled in and put in a task's queue; a   *)
(* caller that wants an answer begins to await it.                          *)
LEMMA Send ==
  ASSUME IInv, NEW c \in Callers, NEW s \in Servers, NEW fields,
         NEW m \in Msgs, held[c] = m, cpc[c] # "ack",
         msg' = [msg EXCEPT ![m] = fields],
         recv' = [recv EXCEPT ![s] = Append(@, m)],
         held' = [held EXCEPT ![c] = None],
         UNCHANGED <<free, ack, slot, spc, cur, aux>>,
         \A d \in Callers : d # c => cpc'[d] = cpc[d] /\ sent'[d] = sent[d],
         fields.wait => cpc'[c] = "ack" /\ slot[c] = fields.ackQue /\ sent'[c] = m
  PROVE  OnePlace' /\ Distinct' /\ AnswerInv' /\ AckIsExpected'
<1> USE DEF IInv
<1> DEFINE p == <<"held", c>>
           q == <<"recv", s>>
<1>1. m \in Msgs /\ m # None
  BY MbxAssumption
<1>2. p \in Places /\ q \in Places /\ p # q /\ m \in In(p)
  BY PlaceHolds
<1>3. held'[c] = None /\ \A d \in Callers : d # c => held'[d] = held[d]
  BY DEF TypeOK
<1>4. \A x \in Msgs : x \in InNext(p) <=> x \in In(p) /\ x # m
  <2>1. In(p) = {m} /\ InNext(p) = {None}
    BY <1>3, PlaceHolds, PlaceHoldsNext
  <2> QED
    BY <2>1, MbxAssumption
<1>5. m \notin Range(recv[s])
  <2>1. In(q) = Range(recv[s])
    BY PlaceHolds
  <2> HIDE DEF p, q
  <2> QED
    BY <1>1, <1>2, <2>1, OneWhere
<1>6. recv'[s] = Append(recv[s], m) /\ \A t \in Servers : t # s => recv'[t] = recv[t]
  BY DEF TypeOK
<1>7. /\ IsInjective(recv'[s])
      /\ \A x : x \in Range(recv'[s]) <=> x \in Range(recv[s]) \/ x = m
  <2>1. recv[s] \in Seq(Msgs) /\ IsInjective(recv[s])
    BY DEF TypeOK, Distinct
  <2> QED
    BY <1>1, <1>5, <1>6, <2>1, PutLast
<1>8. \A x \in Msgs : x \in InNext(q) <=> x \in In(q) \/ x = m
  <2>1. In(q) = Range(recv[s]) /\ InNext(q) = Range(recv'[s])
    BY PlaceHolds, PlaceHoldsNext
  <2> QED
    BY <1>7, <2>1
<1>9. \A r \in Places : r # p /\ r # q => InNext(r) = In(r)
  <2>1. \A d \in Callers : <<"held", d>> \in {p, q} \/ held'[d] = held[d]
    BY <1>3
  <2>2. \A t \in Servers : <<"recv", t>> \in {p, q} \/ recv'[t] = recv[t]
    BY <1>6
  <2> HIDE DEF p, q
  <2> QED
    BY <2>1, <2>2, SameElsewhere
<1>10. Moves(m, p, q) /\ OnePlace'
  <2> HIDE DEF p, q
  <2> QED
    BY <1>1, <1>2, <1>4, <1>8, <1>9, Moved
<1>11. Distinct'
  BY <1>6, <1>7 DEF Distinct
<1>12. \A d \in Callers : cpc[d] = "ack" => cpc'[d] = "ack" /\ sent'[d] = sent[d]
  OBVIOUS
<1>13. AnswerInv'
  <2>1. msg'[m] = fields /\ \A x \in Msgs : x # m => msg'[x] = msg[x]
    BY <1>1 DEF TypeOK
  <2>2. \A x \in Msgs : x # m /\ Awaited(x) => Awaited(x)'
    BY <1>12, <2>1 DEF Awaited
  <2>3. msg'[m].wait => Awaited(m)'
    BY <2>1 DEF Awaited
  <2> HIDE DEF p, q
  <2> QED
    BY <1>1, <1>2, <1>10, <2>1, <2>2, <2>3, AnswerStays
<1>14. AckIsExpected'
  BY <1>12 DEF AckIsExpected
<1> QED
  BY <1>10, <1>11, <1>13, <1>14

LEMMA PutInv == ASSUME NEW c \in Callers PROVE IInv /\ Put(c) => IInv'
<1> SUFFICES ASSUME IInv, Put(c) PROVE IInv'
  OBVIOUS
<1> USE DEF IInv
<1>1. PICK cmd \in {CTRL, DATA} :
        msg' = [msg EXCEPT ![held[c]] = [wait |-> wait[c], cmd |-> cmd, ackQue |-> slot[c]]]
  BY DEF Put
<1>2. /\ cpc[c] = "put" /\ Len(recv[dest[c]]) < RecvLen
      /\ recv' = [recv EXCEPT ![dest[c]] = Append(@, held[c])]
      /\ sent' = [sent EXCEPT ![c] = held[c]] /\ held' = [held EXCEPT ![c] = None]
      /\ cpc' = [cpc EXCEPT ![c] = IF wait[c] THEN "ack" ELSE "release"]
      /\ UNCHANGED <<free, ack, inUse, dest, wait, slot, spc, cur, aux, calls>>
  BY DEF Put, CGoto, params, serverVars
<1>3. held[c] \in Msgs /\ dest[c] \in Servers /\ slot[c] \in AckQues
  BY <1>2 DEF Control, CallerInv, Holding, Claiming
<1>4. TypeOK'
  <2>1. recv'[dest[c]] \in Seq(Msgs) /\ Len(recv'[dest[c]]) =< RecvLen
    <3>1. recv[dest[c]] \in Seq(Msgs) /\ recv'[dest[c]] = Append(recv[dest[c]], held[c])
      BY <1>2, <1>3 DEF TypeOK
    <3> QED
      BY <1>2, <1>3, <3>1, AppendProperties, LenProperties, MbxAssumption
  <2>2. \A t \in Servers : t # dest[c] => recv'[t] = recv[t]
    BY <1>2 DEF TypeOK
  <2>3. recv' \in [Servers -> Seq(Msgs)] /\ \A t \in Servers : Len(recv'[t]) =< RecvLen
    <3>1. DOMAIN recv' = Servers /\ recv' = [t \in Servers |-> recv'[t]]
      BY <1>2 DEF TypeOK
    <3> QED
      BY <2>1, <2>2, <3>1 DEF TypeOK
  <2>4. wait[c] \in BOOLEAN
    BY DEF TypeOK
  <2>5. msg' \in [Msgs -> [wait : BOOLEAN, cmd : {EXIT, CTRL, DATA},
                           ackQue : AckQues \cup {None}]]
    BY <1>1, <1>3, <2>4 DEF TypeOK
  <2> QED
    BY <1>2, <1>3, <2>3, <2>5 DEF TypeOK, CallerPoints
<1>5. Control'
  BY <1>2 DEF TypeOK, Control, CallerInv, SlotInv, ServerInv, Claiming, Holding
<1>6. /\ \A d \in Callers : d # c => cpc'[d] = cpc[d] /\ sent'[d] = sent[d]
      /\ wait[c] => cpc'[c] = "ack"
      /\ sent'[c] = held[c]
  BY <1>2 DEF TypeOK
<1>7. OnePlace' /\ Distinct' /\ AnswerInv' /\ AckIsExpected'
  <2> DEFINE fields == [wait |-> wait[c], cmd |-> cmd, ackQue |-> slot[c]]
  <2>1. msg' = [msg EXCEPT ![held[c]] = fields]
    BY <1>1
  <2>2. fields.wait => cpc'[c] = "ack" /\ slot[c] = fields.ackQue /\ sent'[c] = held[c]
    BY <1>6
  <2>3. cpc[c] # "ack"
    BY <1>2
  <2> HIDE DEF fields
  <2> QED
    BY <1>2, <1>3, <1>6, <2>1, <2>2, <2>3, Send
<1> QED
  BY <1>4, <1>5, <1>7

LEMMA CmdPutInv == ASSUME NEW c \in Callers PROVE IInv /\ CmdPut(c) => IInv'
<1> SUFFICES ASSUME IInv, CmdPut(c) PROVE IInv'
  OBVIOUS
<1> USE DEF IInv
<1>1. PICK cmd \in {CTRL, DATA, EXIT} :
        msg' = [msg EXCEPT ![held[c]] = [wait |-> FALSE, cmd |-> cmd, ackQue |-> None]]
  BY DEF CmdPut
<1>2. /\ cpc[c] = "cmdput"
      /\ UNCHANGED <<free, ack, inUse, dest, wait, slot, sent, spc, cur, aux, calls>>
  BY DEF CmdPut, params, serverVars
<1>3. held[c] \in Msgs /\ dest[c] \in Servers
  BY <1>2 DEF Control, CallerInv, Holding
<1>4. msg' \in [Msgs -> [wait : BOOLEAN, cmd : {EXIT, CTRL, DATA},
                         ackQue : AckQues \cup {None}]]
  BY <1>1, <1>3 DEF TypeOK
<1>5. CASE /\ Len(recv[dest[c]]) < RecvLen
           /\ recv' = [recv EXCEPT ![dest[c]] = Append(@, held[c])]
           /\ held' = [held EXCEPT ![c] = None] /\ cpc' = [cpc EXCEPT ![c] = "idle"]
  <2>1. recv'[dest[c]] \in Seq(Msgs) /\ Len(recv'[dest[c]]) =< RecvLen
    <3>1. recv[dest[c]] \in Seq(Msgs) /\ recv'[dest[c]] = Append(recv[dest[c]], held[c])
      BY <1>3, <1>5 DEF TypeOK
    <3> QED
      BY <1>3, <1>5, <3>1, AppendProperties, LenProperties, MbxAssumption
  <2>2. \A t \in Servers : t # dest[c] => recv'[t] = recv[t]
    BY <1>5 DEF TypeOK
  <2>3. recv' \in [Servers -> Seq(Msgs)] /\ \A t \in Servers : Len(recv'[t]) =< RecvLen
    <3>1. DOMAIN recv' = Servers /\ recv' = [t \in Servers |-> recv'[t]]
      BY <1>5 DEF TypeOK
    <3> QED
      BY <2>1, <2>2, <3>1 DEF TypeOK
  <2>4. TypeOK'
    BY <1>2, <1>4, <1>5, <2>3 DEF TypeOK, CallerPoints
  <2>5. Control'
    BY <1>2, <1>5 DEF TypeOK, Control, CallerInv, SlotInv, ServerInv, Claiming, Holding
  <2>6. \A d \in Callers : d # c => cpc'[d] = cpc[d] /\ sent'[d] = sent[d]
    BY <1>2, <1>5 DEF TypeOK
  <2>7. OnePlace' /\ Distinct' /\ AnswerInv' /\ AckIsExpected'
    <3> DEFINE fields == [wait |-> FALSE, cmd |-> cmd, ackQue |-> None]
    <3>1. msg' = [msg EXCEPT ![held[c]] = fields] /\ ~ fields.wait
      BY <1>1
    <3>2. cpc[c] # "ack"
      BY <1>2
    <3> HIDE DEF fields
    <3> QED
      BY <1>2, <1>3, <1>5, <2>6, <3>1, <3>2, Send
  <2> QED
    BY <2>4, <2>5, <2>7
<1>6. CASE cpc' = [cpc EXCEPT ![c] = "cmdfree"] /\ UNCHANGED <<recv, held>>
  <2>1. TypeOK'
    BY <1>2, <1>4, <1>6 DEF TypeOK, CallerPoints
  <2>2. Control'
    BY <1>2, <1>6 DEF TypeOK, Control, CallerInv, SlotInv, ServerInv, Claiming, Holding
  <2>3. Distinct' /\ OnePlace' /\ \A x : WithServer(x)' = WithServer(x)
    BY <1>2, <1>6, StayQuiet
  <2>4. \A d \in Callers : cpc[d] = "ack" => cpc'[d] = "ack"
    BY <1>2, <1>6 DEF TypeOK
  <2>5. AnswerInv'
    <3>1. ~ msg'[held[c]].wait /\ \A x \in Msgs : x # held[c] => msg'[x] = msg[x]
      BY <1>1, <1>3 DEF TypeOK
    <3> QED
      BY <1>2, <2>3, <2>4, <3>1 DEF AnswerInv, Awaited
  <2>6. AckIsExpected'
    BY <1>2, <2>4 DEF AckIsExpected
  <2> QED
    BY <2>1, <2>2, <2>3, <2>5, <2>6
<1> QED
  BY <1>5, <1>6 DEF CmdPut, CGoto

(* The only message on an acknowledge queue is the one its owner sent.      *)
LEMMA GetAckInv == ASSUME NEW c \in Callers PROVE IInv /\ GetAck(c) => IInv'
<1> SUFFICES ASSUME IInv, GetAck(c) PROVE IInv'
  OBVIOUS
<1> USE DEF IInv
<1>1. /\ cpc[c] = "ack" /\ ack[slot[c]] # <<>>
      /\ held' = [held EXCEPT ![c] = Head(ack[slot[c]])]
      /\ ack' = [ack EXCEPT ![slot[c]] = Tail(@)]
      /\ cpc' = [cpc EXCEPT ![c] = "free"]
      /\ UNCHANGED <<free, recv, inUse, msg, dest, wait, slot, sent, spc, cur, aux, calls>>
  BY DEF GetAck, CGoto, params, serverVars
<1>2. PICK k \in AckQues : k = slot[c]
  BY <1>1 DEF Control, CallerInv, Claiming
<1>3. PICK m : m = Head(ack[k])
  OBVIOUS
<1>4. m = sent[c] /\ ack[k] = <<m>>
  <2>1. PICK d \in Callers : slot[d] = k /\ cpc[d] = "ack" /\ ack[k] = <<sent[d]>>
    BY <1>1, <1>2 DEF AckIsExpected
  <2>2. d = c
    BY <1>2, <2>1, MbxAssumption DEF Control, SlotInv
  <2>3. ack[k] = <<sent[c]>>
    BY <2>1, <2>2
  <2> QED
    BY <1>3, <2>3
<1>5. held[c] = None
  BY <1>1 DEF Control, CallerInv, Holding
<1>6. /\ m \in Msgs /\ m \in Range(ack[k])
      /\ Tail(ack[k]) \in Seq(Msgs) /\ IsInjective(Tail(ack[k]))
      /\ Len(Tail(ack[k])) = Len(ack[k]) - 1
      /\ \A x : x \in Range(Tail(ack[k])) <=> x \in Range(ack[k]) /\ x # m
  <2>1. ack[k] \in Seq(Msgs) /\ ack[k] # <<>> /\ IsInjective(ack[k])
    BY <1>1, <1>2 DEF TypeOK, Distinct
  <2> QED
    BY <1>3, <2>1, TakeHead
<1>7. ack'[k] = Tail(ack[k]) /\ \A j \in AckQues : j # k => ack'[j] = ack[j]
  BY <1>1, <1>2 DEF TypeOK
<1>8. held'[c] = m /\ \A d \in Callers : d # c => held'[d] = held[d]
  BY <1>1, <1>2, <1>3 DEF TypeOK
<1>9. cpc'[c] = "free" /\ \A d \in Callers : d # c => cpc'[d] = cpc[d]
  BY <1>1 DEF TypeOK
<1>10. TypeOK'
  <2>1. Len(ack[k]) \in Nat /\ Len(ack[k]) =< AckLen
    BY LenProperties DEF TypeOK
  <2>2. Len(ack'[k]) =< AckLen
    BY <1>6, <1>7, <2>1, MbxAssumption
  <2>3. ack' = [j \in AckQues |-> ack'[j]]
    BY <1>1 DEF TypeOK
  <2>4. ack' \in [AckQues -> Seq(Msgs)] /\ \A j \in AckQues : Len(ack'[j]) =< AckLen
    BY <1>6, <1>7, <2>2, <2>3 DEF TypeOK
  <2>5. held' \in [Callers -> Msgs \cup {None}] /\ cpc' \in [Callers -> CallerPoints]
    BY <1>1, <1>2, <1>3, <1>6 DEF TypeOK, CallerPoints
  <2> QED
    BY <1>1, <2>4, <2>5 DEF TypeOK
<1>11. Control'
  BY <1>1, <1>4, <1>6, <1>8, <1>9 DEF Control, CallerInv, SlotInv, ServerInv, Claiming, Holding
<1> DEFINE p == <<"ack", k>>
           q == <<"held", c>>
<1>12. p \in Places /\ q \in Places /\ p # q /\ m \in In(p)
  BY <1>6, PlaceHolds
<1>13. \A x \in Msgs : x \in InNext(p) <=> x \in In(p) /\ x # m
  <2>1. In(p) = Range(ack[k]) /\ InNext(p) = Range(Tail(ack[k]))
    BY <1>7, PlaceHolds, PlaceHoldsNext
  <2> QED
    BY <1>6, <2>1
<1>14. \A x \in Msgs : x \in InNext(q) <=> x \in In(q) \/ x = m
  <2>1. In(q) = {None} /\ InNext(q) = {m}
    BY <1>5, <1>8, PlaceHolds, PlaceHoldsNext
  <2> QED
    BY <2>1, MbxAssumption
<1>15. \A r \in Places : r # p /\ r # q => InNext(r) = In(r)
  <2>1. \A d \in Callers : <<"held", d>> \in {p, q} \/ held'[d] = held[d]
    BY <1>8
  <2>2. \A j \in AckQues : <<"ack", j>> \in {p, q} \/ ack'[j] = ack[j]
    BY <1>7
  <2>3. /\ free' = free
        /\ \A s \in Servers : cur'[s] = cur[s] /\ aux'[s] = aux[s] /\ recv'[s] = recv[s]
    BY <1>1
  <2> HIDE DEF p, q
  <2> QED
    BY <2>1, <2>2, <2>3, SameElsewhere
<1>16. Moves(m, p, q) /\ OnePlace'
  <2> HIDE DEF p, q
  <2> QED
    BY <1>6, <1>12, <1>13, <1>14, <1>15, Moved
<1>17. Distinct'
  BY <1>1, <1>6, <1>7 DEF Distinct
<1>18. AnswerInv'
  <2>1. q \notin ServerPlaces
    BY DEF ServerPlaces
  <2>2. \A x \in Msgs : x # m /\ Awaited(x) => Awaited(x)'
    <3>1. ASSUME NEW x \in Msgs, x # m, NEW d \in Callers, cpc[d] = "ack",
                 slot[d] = msg[x].ackQue, sent[d] = x
          PROVE  Awaited(x)'
      <4>1. d # c
        BY <1>4, <3>1
      <4> QED
        BY <1>1, <1>9, <3>1, <4>1 DEF Awaited
    <3> QED
      BY <3>1 DEF Awaited
  <2> HIDE DEF p, q
  <2> QED
    BY <1>1, <1>6, <1>12, <1>16, <2>1, <2>2, AnswerStays
<1>19. AckIsExpected'
  <2>1. SUFFICES ASSUME NEW j \in AckQues, ack'[j] # <<>>
                 PROVE  \E d \in Callers : slot[d] = j /\ cpc'[d] = "ack" /\ ack'[j] = <<sent[d]>>
    BY <1>1 DEF AckIsExpected
  <2>2. j # k
    <3>1. Tail(<<m>>) = <<>>
      OBVIOUS
    <3> QED
      BY <1>4, <1>7, <2>1, <3>1
  <2>3. PICK d \in Callers : slot[d] = j /\ cpc[d] = "ack" /\ ack[j] = <<sent[d]>>
    BY <1>7, <2>1, <2>2 DEF AckIsExpected
  <2>4. d # c
    BY <1>2, <2>2, <2>3
  <2> QED
    BY <1>7, <1>9, <2>2, <2>3, <2>4
<1> QED
  BY <1>10, <1>11, <1>16, <1>17, <1>18, <1>19

-----------------------------------------------------------------------------
(* The servers' steps.                                                      *)

(* A server takes a message out of its queue, into the hand q.              *)
LEMMA Pull ==
  ASSUME IInv, NEW s \in Servers, NEW m \in Msgs, Take(s, m),
         NEW q \in {<<"cur", s>>, <<"aux", s>>},
         \A x \in Msgs : x \in InNext(q) <=> x \in In(q) \/ x = m,
         UNCHANGED <<free, ack, held, msg, cpc, slot, sent>>,
         \A t \in Servers : /\ <<"cur", t>> = q \/ cur'[t] = cur[t]
                            /\ <<"aux", t>> = q \/ aux'[t] = aux[t]
  PROVE  /\ OnePlace' /\ Distinct' /\ AnswerInv' /\ AckIsExpected'
         /\ recv' \in [Servers -> Seq(Msgs)]
         /\ \A t \in Servers : Len(recv'[t]) =< RecvLen
<1> USE DEF IInv
<1> DEFINE p == <<"recv", s>>
<1>1. recv[s] # <<>> /\ m = Head(recv[s]) /\ recv' = [recv EXCEPT ![s] = Tail(@)]
  BY DEF Take
<1>2. /\ m \in Range(recv[s])
      /\ Tail(recv[s]) \in Seq(Msgs) /\ IsInjective(Tail(recv[s]))
      /\ Len(Tail(recv[s])) = Len(recv[s]) - 1
      /\ \A x : x \in Range(Tail(recv[s])) <=> x \in Range(recv[s]) /\ x # m
  <2>1. recv[s] \in Seq(Msgs) /\ IsInjective(recv[s])
    BY DEF TypeOK, Distinct
  <2> QED
    BY <1>1, <2>1, TakeHead
<1>3. recv'[s] = Tail(recv[s]) /\ \A t \in Servers : t # s => recv'[t] = recv[t]
  BY <1>1 DEF TypeOK
<1>4. p \in Places /\ q \in Places /\ p # q /\ m \in In(p)
  <2>1. q = <<"cur", s>> \/ q = <<"aux", s>>
    OBVIOUS
  <2>2. p \in Places /\ In(p) = Range(recv[s])
    BY PlaceHolds
  <2>3. CASE q = <<"cur", s>>
    BY <1>2, <2>2, <2>3, PlaceHolds
  <2>4. CASE q = <<"aux", s>>
    BY <1>2, <2>2, <2>4, PlaceHolds
  <2> QED
    BY <2>1, <2>3, <2>4
<1>5. \A x \in Msgs : x \in InNext(p) <=> x \in In(p) /\ x # m
  <2>1. In(p) = Range(recv[s]) /\ InNext(p) = Range(Tail(recv[s]))
    BY <1>3, PlaceHolds, PlaceHoldsNext
  <2> QED
    BY <1>2, <2>1
<1>6. \A r \in Places : r # p /\ r # q => InNext(r) = In(r)
  <2>1. \A t \in Servers : <<"recv", t>> \in {p, q} \/ recv'[t] = recv[t]
    BY <1>3
  <2>2. \A t \in Servers : /\ <<"cur", t>> \in {p, q} \/ cur'[t] = cur[t]
                           /\ <<"aux", t>> \in {p, q} \/ aux'[t] = aux[t]
    OBVIOUS
  <2>3. /\ free' = free /\ \A d \in Callers : held'[d] = held[d]
        /\ \A k \in AckQues : ack'[k] = ack[k]
    OBVIOUS
  <2> HIDE DEF p
  <2> QED
    BY <2>1, <2>2, <2>3, SameElsewhere
<1>7. Moves(m, p, q) /\ OnePlace'
  <2> HIDE DEF p
  <2> QED
    BY <1>4, <1>5, <1>6, Moved
<1>8. Distinct'
  BY <1>2, <1>3 DEF Distinct
<1>9. AnswerInv'
  <2>1. \A x \in Msgs : Awaited(x) => Awaited(x)'
    BY DEF Awaited
  <2>2. WithServer(m)
    BY <1>2 DEF WithServer
  <2>3. msg'[m].wait => Awaited(m)'
    BY <2>1, <2>2 DEF AnswerInv
  <2> HIDE DEF p
  <2> QED
    BY <1>4, <1>7, <2>1, <2>3, AnswerStays
<1>10. AckIsExpected'
  BY DEF AckIsExpected
<1>11. recv' \in [Servers -> Seq(Msgs)] /\ \A t \in Servers : Len(recv'[t]) =< RecvLen
  <2>1. Len(recv[s]) \in Nat /\ Len(recv[s]) =< RecvLen
    BY LenProperties DEF TypeOK
  <2>2. Len(recv'[s]) =< RecvLen
    BY <1>2, <1>3, <2>1, MbxAssumption
  <2>3. recv' = [t \in Servers |-> recv'[t]]
    BY <1>1 DEF TypeOK
  <2> QED
    BY <1>2, <1>3, <2>2, <2>3 DEF TypeOK
<1> QED
  BY <1>7, <1>8, <1>9, <1>10, <1>11

LEMMA RecvInv == ASSUME NEW s \in Servers PROVE IInv /\ Recv(s) => IInv'
<1> SUFFICES ASSUME IInv, Recv(s) PROVE IInv'
  OBVIOUS
<1> USE DEF IInv
<1>1. PICK m \in Msgs : Take(s, m) /\ cur' = [cur EXCEPT ![s] = m]
  BY DEF Recv
<1>2. /\ spc[s] = "recv" /\ spc' = [spc EXCEPT ![s] = "handle"]
      /\ UNCHANGED <<free, ack, inUse, msg, aux, cpc, dest, wait, slot, held, sent, calls>>
  BY DEF Recv, SGoto, callerVars, params
<1>3. cur[s] = None
  BY <1>2 DEF Control, ServerInv
<1>4. cur'[s] = m /\ \A t \in Servers : t # s => cur'[t] = cur[t]
  BY <1>1 DEF TypeOK
<1> DEFINE q == <<"cur", s>>
<1>5. \A x \in Msgs : x \in InNext(q) <=> x \in In(q) \/ x = m
  <2>1. In(q) = {None} /\ InNext(q) = {m}
    BY <1>3, <1>4, PlaceHolds, PlaceHoldsNext
  <2> QED
    BY <2>1, MbxAssumption
<1>6. \A t \in Servers : (<<"cur", t>> = q \/ cur'[t] = cur[t]) /\ aux'[t] = aux[t]
  BY <1>2, <1>4
<1>7. /\ OnePlace' /\ Distinct' /\ AnswerInv' /\ AckIsExpected'
      /\ recv' \in [Servers -> Seq(Msgs)]
      /\ \A t \in Servers : Len(recv'[t]) =< RecvLen
  <2>1. q \in {<<"cur", s>>, <<"aux", s>>}
    OBVIOUS
  <2> HIDE DEF q
  <2> QED
    BY <1>1, <1>2, <1>5, <1>6, <2>1, Pull
<1>8. TypeOK'
  BY <1>1, <1>2, <1>7 DEF TypeOK, ServerPoints
<1>9. Control'
  BY <1>1, <1>2, <1>4 DEF TypeOK, Control, CallerInv, SlotInv, ServerInv
<1> QED
  BY <1>7, <1>8, <1>9

(* A message pulled out by a flush or a wait.                               *)
LEMMA PullAux ==
  ASSUME IInv, NEW s \in Servers, NEW m \in Msgs, Take(s, m),
         NEW pt \in {"flushed", "waited"},
         aux' = [aux EXCEPT ![s] = m], spc' = [spc EXCEPT ![s] = pt],
         spc[s] = IF pt = "flushed" THEN "flush" ELSE "wait",
         UNCHANGED <<free, ack, inUse, msg, cur, cpc, dest, wait, slot, held, sent, calls>>
  PROVE  IInv'
<1> USE DEF IInv
<1>1. aux[s] = None
  BY DEF Control, ServerInv
<1>2. aux'[s] = m /\ \A t \in Servers : t # s => aux'[t] = aux[t]
  BY DEF TypeOK
<1> DEFINE q == <<"aux", s>>
<1>3. \A x \in Msgs : x \in InNext(q) <=> x \in In(q) \/ x = m
  <2>1. In(q) = {None} /\ InNext(q) = {m}
    BY <1>1, <1>2, PlaceHolds, PlaceHoldsNext
  <2> QED
    BY <2>1, MbxAssumption
<1>4. \A t \in Servers : (<<"aux", t>> = q \/ aux'[t] = aux[t]) /\ cur'[t] = cur[t]
  BY <1>2
<1>5. /\ OnePlace' /\ Distinct' /\ AnswerInv' /\ AckIsExpected'
      /\ recv' \in [Servers -> Seq(Msgs)]
      /\ \A t \in Servers : Len(recv'[t]) =< RecvLen
  <2>1. q \in {<<"cur", s>>, <<"aux", s>>}
    OBVIOUS
  <2> HIDE DEF q
  <2> QED
    BY <1>3, <1>4, <2>1, Pull
<1>6. TypeOK'
  BY <1>5 DEF TypeOK, ServerPoints
<1>7. Control'
  BY <1>2 DEF TypeOK, Control, CallerInv, SlotInv, ServerInv
<1> QED
  BY <1>5, <1>6, <1>7

LEMMA FlushInv == ASSUME NEW s \in Servers PROVE IInv /\ Flush(s) => IInv'
<1> SUFFICES ASSUME IInv, Flush(s) PROVE IInv'
  OBVIOUS
<1>1. /\ spc[s] = "flush"
      /\ UNCHANGED <<free, ack, inUse, msg, cur, cpc, dest, wait, slot, held, sent, calls>>
  BY DEF Flush, callerVars, params
<1>2. ASSUME NEW m \in Msgs, Take(s, m), aux' = [aux EXCEPT ![s] = m],
             spc' = [spc EXCEPT ![s] = "flushed"]
      PROVE  IInv'
  BY <1>1, <1>2, PullAux
<1>3. CASE spc' = [spc EXCEPT ![s] = "recv"] /\ UNCHANGED <<recv, aux>>
  <2>1. TypeOK' /\ Control'
    BY <1>1, <1>3 DEF IInv, TypeOK, ServerPoints, Control, CallerInv, SlotInv, ServerInv
  <2>2. Distinct' /\ OnePlace' /\ \A x : WithServer(x)' = WithServer(x)
    BY <1>1, <1>3, StayQuiet
  <2>3. AnswerInv' /\ AckIsExpected'
    BY <1>1, <2>2 DEF IInv, AnswerInv, Awaited, AckIsExpected
  <2> QED
    BY <2>1, <2>2, <2>3 DEF IInv
<1> QED
  BY <1>2, <1>3 DEF Flush, SGoto

LEMMA WaitRecvInv == ASSUME NEW s \in Servers PROVE IInv /\ WaitRecv(s) => IInv'
<1> SUFFICES ASSUME IInv, WaitRecv(s) PROVE IInv'
  OBVIOUS
<1>1. /\ spc[s] = "wait" /\ spc' = [spc EXCEPT ![s] = "waited"]
      /\ UNCHANGED <<free, ack, inUse, msg, cur, cpc, dest, wait, slot, held, sent, calls>>
  BY DEF WaitRecv, SGoto, callerVars, params
<1>2. PICK m \in Msgs : Take(s, m) /\ aux' = [aux EXCEPT ![s] = m]
  BY DEF WaitRecv
<1> QED
  BY <1>1, <1>2, PullAux

LEMMA BeginWaitInv == ASSUME NEW s \in Servers PROVE IInv /\ BeginWait(s) => IInv'
<1> SUFFICES ASSUME IInv, BeginWait(s) PROVE IInv'
  OBVIOUS
<1>1. /\ spc[s] = "handle" /\ spc' = [spc EXCEPT ![s] = "wait"]
      /\ UNCHANGED <<free, recv, ack, inUse, msg, cur, aux, cpc, dest, wait, slot, held,
                     sent, calls>>
  BY DEF BeginWait, SGoto, callerVars, params
<1>2. TypeOK' /\ Control'
  BY <1>1 DEF IInv, TypeOK, ServerPoints, Control, CallerInv, SlotInv, ServerInv
<1>3. Distinct' /\ OnePlace' /\ \A x : WithServer(x)' = WithServer(x)
  BY <1>1, StayQuiet
<1>4. AnswerInv' /\ AckIsExpected'
  BY <1>1, <1>3 DEF IInv, AnswerInv, Awaited, AckIsExpected
<1> QED
  BY <1>2, <1>3, <1>4 DEF IInv

(* A server answers the message in its hand p.  When its sender awaits the  *)
(* answer, the acknowledge queue is empty: all it could hold is the message *)
(* itself, which is still in the server's hand.                             *)
LEMMA Answered ==
  ASSUME IInv, NEW s \in Servers, NEW m \in Msgs, Answer(m),
         NEW p \in {<<"cur", s>>, <<"aux", s>>}, m \in In(p),
         \A x \in Msgs : x \in InNext(p) <=> x \in In(p) /\ x # m,
         UNCHANGED <<recv, held, msg, cpc, slot, sent>>,
         \A t \in Servers : /\ <<"cur", t>> = p \/ cur'[t] = cur[t]
                            /\ <<"aux", t>> = p \/ aux'[t] = aux[t]
  PROVE  /\ OnePlace' /\ Distinct' /\ AnswerInv' /\ AckIsExpected'
         /\ free' \subseteq Msgs /\ ack' \in [AckQues -> Seq(Msgs)]
         /\ \A k \in AckQues : Len(ack'[k]) =< AckLen
<1> USE DEF IInv
<1>1. p \in Places /\ p # FreePlace /\ \A k \in AckQues : p # <<"ack", k>>
  <2>1. CASE p = <<"cur", s>>
    BY <2>1, PlaceHolds DEF FreePlace
  <2>2. CASE p = <<"aux", s>>
    BY <2>2, PlaceHolds DEF FreePlace
  <2> QED
    BY <2>1, <2>2
<1>2. \A x \in Msgs : Awaited(x) => Awaited(x)'
  BY DEF Awaited
<1>3. WithServer(m)
  <2>1. CASE p = <<"cur", s>>
    BY <2>1, PlaceHolds DEF WithServer
  <2>2. CASE p = <<"aux", s>>
    BY <2>2, PlaceHolds DEF WithServer
  <2> QED
    BY <2>1, <2>2
<1>4. /\ \A d \in Callers : held'[d] = held[d]
      /\ \A t \in Servers : recv'[t] = recv[t]
  OBVIOUS
<1>5. CASE msg[m].wait
  <2>1. PICK c \in Callers : cpc[c] = "ack" /\ slot[c] = msg[m].ackQue /\ sent[c] = m
    BY <1>3, <1>5 DEF AnswerInv, Awaited
  <2>2. PICK k \in AckQues : k = msg[m].ackQue /\ slot[c] = k
    BY <2>1 DEF Control, CallerInv, Claiming
  <2>3. ack' = [ack EXCEPT ![k] = Append(@, m)] /\ free' = free
    BY <1>5, <2>2 DEF Answer
  <2> DEFINE q == <<"ack", k>>
  <2>4. q \in Places /\ In(q) = Range(ack[k]) /\ p # q
    BY <1>1, PlaceHolds
  <2>5. m \notin Range(ack[k])
    <3> HIDE DEF q
    <3> QED
      BY <1>1, <2>4, OneWhere
  <2>6. ack[k] = <<>>
    <3>1. SUFFICES ASSUME ack[k] # <<>> PROVE FALSE
      OBVIOUS
    <3>2. PICK d \in Callers : slot[d] = k /\ ack[k] = <<sent[d]>>
      BY <3>1 DEF AckIsExpected
    <3>3. d = c
      BY <2>2, <3>2, MbxAssumption DEF Control, SlotInv
    <3>4. ack[k] = <<m>>
      BY <2>1, <3>2, <3>3
    <3>5. m \in Range(<<m>>)
      <4>1. 1 \in DOMAIN <<m>> /\ <<m>>[1] = m
        OBVIOUS
      <4> QED
        BY <4>1 DEF Range
    <3> QED
      BY <2>5, <3>4, <3>5
  <2>7. ack'[k] = <<m>> /\ \A j \in AckQues : j # k => ack'[j] = ack[j]
    <3>1. Append(<<>>, m) = <<m>>
      OBVIOUS
    <3> QED
      BY <2>3, <2>6, <3>1 DEF TypeOK
  <2>8. /\ IsInjective(ack'[k]) /\ ack'[k] \in Seq(Msgs) /\ Len(ack'[k]) = Len(ack[k]) + 1
        /\ \A x : x \in Range(ack'[k]) <=> x \in Range(ack[k]) \/ x = m
    <3>1. ack[k] \in Seq(Msgs) /\ IsInjective(ack[k]) /\ ack'[k] = Append(ack[k], m)
      BY <2>3 DEF TypeOK, Distinct
    <3> QED
      BY <2>5, <3>1, PutLast
  <2>9. \A x \in Msgs : x \in InNext(q) <=> x \in In(q) \/ x = m
    <3>1. InNext(q) = Range(ack'[k])
      BY PlaceHoldsNext
    <3> QED
      BY <2>4, <2>8, <3>1
  <2>10. \A r \in Places : r # p /\ r # q => InNext(r) = In(r)
    <3>1. \A j \in AckQues : <<"ack", j>> \in {p, q} \/ ack'[j] = ack[j]
      BY <2>7
    <3>2. \A t \in Servers : /\ <<"cur", t>> \in {p, q} \/ cur'[t] = cur[t]
                             /\ <<"aux", t>> \in {p, q} \/ aux'[t] = aux[t]
      OBVIOUS
    <3> HIDE DEF q
    <3> QED
      BY <1>4, <2>3, <3>1, <3>2, SameElsewhere
  <2>11. Moves(m, p, q) /\ OnePlace'
    <3> HIDE DEF q
    <3> QED
      BY <1>1, <2>4, <2>9, <2>10, Moved
  <2>12. Distinct'
    BY <2>7, <2>8 DEF Distinct
  <2>13. AnswerInv'
    <3>1. q \notin ServerPlaces
      BY DEF ServerPlaces
    <3> HIDE DEF q
    <3> QED
      BY <1>1, <1>2, <2>4, <2>11, <3>1, AnswerStays
  <2>14. AckIsExpected'
    BY <2>1, <2>2, <2>7 DEF AckIsExpected
  <2>15. ack' \in [AckQues -> Seq(Msgs)] /\ \A j \in AckQues : Len(ack'[j]) =< AckLen
    <3>1. ack' = [j \in AckQues |-> ack'[j]]
      BY <2>3 DEF TypeOK
    <3>2. Len(ack'[k]) =< AckLen
      <4>1. Len(<<m>>) = 1
        OBVIOUS
      <4> QED
        BY <2>7, <4>1, MbxAssumption
    <3> QED
      BY <2>7, <2>8, <3>1, <3>2 DEF TypeOK
  <2> QED
    BY <2>3, <2>11, <2>12, <2>13, <2>14, <2>15 DEF TypeOK
<1>6. CASE ~ msg[m].wait
  <2>1. free' = free \cup {m} /\ ack' = ack
    BY <1>6 DEF Answer
  <2> DEFINE q == FreePlace
  <2>2. q \in Places /\ \A x \in Msgs : x \in InNext(q) <=> x \in In(q) \/ x = m
    BY <2>1, PlaceHolds, PlaceHoldsNext
  <2>3. \A r \in Places : r # p /\ r # q => InNext(r) = In(r)
    <3>1. \A t \in Servers : /\ <<"cur", t>> \in {p, q} \/ cur'[t] = cur[t]
                             /\ <<"aux", t>> \in {p, q} \/ aux'[t] = aux[t]
      OBVIOUS
    <3>2. FreePlace \in {p, q} /\ \A k \in AckQues : ack'[k] = ack[k]
      BY <2>1
    <3> HIDE DEF q
    <3> QED
      BY <1>4, <3>1, <3>2, SameElsewhere
  <2>4. Moves(m, p, q) /\ OnePlace'
    <3>1. p # q
      BY <1>1
    <3> HIDE DEF q
    <3> QED
      BY <1>1, <2>2, <2>3, <3>1, Moved
  <2>5. Distinct' /\ AckIsExpected'
    BY <2>1 DEF Distinct, AckIsExpected
  <2>6. AnswerInv'
    <3>1. q \notin ServerPlaces
      BY DEF ServerPlaces, FreePlace
    <3> HIDE DEF q
    <3> QED
      BY <1>1, <1>2, <2>2, <2>4, <3>1, AnswerStays
  <2> QED
    BY <2>1, <2>4, <2>5, <2>6 DEF TypeOK
<1> QED
  BY <1>5, <1>6

LEMMA AckOrFreeInv == ASSUME NEW s \in Servers PROVE IInv /\ AckOrFree(s) => IInv'
<1> SUFFICES ASSUME IInv, AckOrFree(s) PROVE IInv'
  OBVIOUS
<1> USE DEF IInv
<1>1. /\ spc[s] = "handle" /\ Answer(cur[s]) /\ cur' = [cur EXCEPT ![s] = None]
      /\ UNCHANGED <<recv, inUse, msg, aux, cpc, dest, wait, slot, held, sent, calls>>
  BY DEF AckOrFree, callerVars, params
<1>2. PICK pt \in {"exited", "recv", "flush"} : spc' = [spc EXCEPT ![s] = pt]
  BY DEF AckOrFree, SGoto
<1>3. PICK m \in Msgs : cur[s] = m /\ Answer(m)
  BY <1>1 DEF Control, ServerInv
<1>4. cur'[s] = None /\ \A t \in Servers : t # s => cur'[t] = cur[t]
  BY <1>1 DEF TypeOK
<1> DEFINE p == <<"cur", s>>
<1>5. m \in In(p) /\ \A x \in Msgs : x \in InNext(p) <=> x \in In(p) /\ x # m
  <2>1. In(p) = {m} /\ InNext(p) = {None}
    BY <1>3, <1>4, PlaceHolds, PlaceHoldsNext
  <2> QED
    BY <2>1, MbxAssumption
<1>6. \A t \in Servers : (<<"cur", t>> = p \/ cur'[t] = cur[t]) /\ aux'[t] = aux[t]
  BY <1>1, <1>4
<1>7. /\ OnePlace' /\ Distinct' /\ AnswerInv' /\ AckIsExpected'
      /\ free' \subseteq Msgs /\ ack' \in [AckQues -> Seq(Msgs)]
      /\ \A k \in AckQues : Len(ack'[k]) =< AckLen
  <2>1. p \in {<<"cur", s>>, <<"aux", s>>}
    OBVIOUS
  <2> HIDE DEF p
  <2> QED
    BY <1>1, <1>3, <1>5, <1>6, <2>1, Answered
<1>8. TypeOK'
  BY <1>1, <1>2, <1>7 DEF TypeOK, ServerPoints
<1>9. Control'
  BY <1>1, <1>2, <1>4 DEF TypeOK, Control, CallerInv, SlotInv, ServerInv
<1> QED
  BY <1>7, <1>8, <1>9

LEMMA AnswerPulledInv == ASSUME NEW s \in Servers PROVE IInv /\ AnswerPulled(s) => IInv'
<1> SUFFICES ASSUME IInv, AnswerPulled(s) PROVE IInv'
  OBVIOUS
<1> USE DEF IInv
<1>1. /\ spc[s] \in {"flushed", "waited"} /\ Answer(aux[s])
      /\ aux' = [aux EXCEPT ![s] = None]
      /\ UNCHANGED <<recv, inUse, msg, cur, cpc, dest, wait, slot, held, sent, calls>>
  BY DEF AnswerPulled, callerVars, params
<1>2. PICK pt \in {"flush", "handle", "wait"} :
        /\ spc' = [spc EXCEPT ![s] = pt]
        /\ spc[s] = "flushed" => pt = "flush"
        /\ spc[s] = "waited" => pt \in {"handle", "wait"}
  <2>1. CASE spc[s] = "flushed"
    <3>1. spc' = [spc EXCEPT ![s] = "flush"]
      BY <2>1 DEF AnswerPulled, SGoto
    <3> QED
      BY <2>1, <3>1
  <2>2. CASE spc[s] = "waited" /\ msg[aux[s]].cmd = DATA
    <3>1. spc' = [spc EXCEPT ![s] = "handle"]
      BY <2>2 DEF AnswerPulled, SGoto
    <3> QED
      BY <2>2, <3>1
  <2>3. CASE spc[s] = "waited" /\ msg[aux[s]].cmd # DATA
    <3>1. spc' = [spc EXCEPT ![s] = "wait"]
      BY <2>3 DEF AnswerPulled, SGoto
    <3> QED
      BY <2>3, <3>1
  <2> QED
    BY <1>1, <2>1, <2>2, <2>3
<1>3. PICK m \in Msgs : aux[s] = m /\ Answer(m)
  BY <1>1 DEF Control, ServerInv
<1>4. aux'[s] = None /\ \A t \in Servers : t # s => aux'[t] = aux[t]
  BY <1>1 DEF TypeOK
<1> DEFINE p == <<"aux", s>>
<1>5. m \in In(p) /\ \A x \in Msgs : x \in InNext(p) <=> x \in In(p) /\ x # m
  <2>1. In(p) = {m} /\ InNext(p) = {None}
    BY <1>3, <1>4, PlaceHolds, PlaceHoldsNext
  <2> QED
    BY <2>1, MbxAssumption
<1>6. \A t \in Servers : (<<"aux", t>> = p \/ aux'[t] = aux[t]) /\ cur'[t] = cur[t]
  BY <1>1, <1>4
<1>7. /\ OnePlace' /\ Distinct' /\ AnswerInv' /\ AckIsExpected'
      /\ free' \subseteq Msgs /\ ack' \in [AckQues -> Seq(Msgs)]
      /\ \A k \in AckQues : Len(ack'[k]) =< AckLen
  <2>1. p \in {<<"cur", s>>, <<"aux", s>>}
    OBVIOUS
  <2> HIDE DEF p
  <2> QED
    BY <1>1, <1>3, <1>5, <1>6, <2>1, Answered
<1>8. TypeOK'
  BY <1>1, <1>2, <1>7 DEF TypeOK, ServerPoints
<1>9. Control'
  <2>1. CallerInv' /\ SlotInv'
    BY <1>1 DEF TypeOK, Control, CallerInv, SlotInv
  <2>2. spc'[s] = pt /\ \A t \in Servers : t # s => spc'[t] = spc[t]
    BY <1>2 DEF TypeOK
  <2>3. IF pt \in {"handle", "wait"} THEN cur[s] \in Msgs ELSE cur[s] = None
    BY <1>1, <1>2 DEF Control, ServerInv
  <2>4. ServerInv'
    BY <1>1, <1>4, <2>2, <2>3 DEF Control, ServerInv
  <2> QED
    BY <2>1, <2>4 DEF Control
<1> QED
  BY <1>7, <1>8, <1>9

-----------------------------------------------------------------------------
(* The invariant holds of every step.                                       *)
LEMMA InvNext == IInv /\ [Next]_vars => IInv'
<1> SUFFICES ASSUME IInv, [Next]_vars PROVE IInv'
  OBVIOUS
<1>1. ASSUME NEW c \in Callers, Call(c) \/ CallerStep(c) PROVE IInv'
  BY <1>1, CallInv, ClaimInv, AllocInv, PutInv, GetAckInv, FreeAckInv, ReleaseInv,
     CmdAllocInv, CmdPutInv, CmdFreeInv DEF CallerStep
<1>2. ASSUME NEW s \in Servers, ServerStep(s) \/ BeginWait(s) PROVE IInv'
  BY <1>2, RecvInv, AckOrFreeInv, FlushInv, WaitRecvInv, AnswerPulledInv, BeginWaitInv
     DEF ServerStep
<1>3. CASE UNCHANGED vars
  <2>1. UNCHANGED <<free, recv, ack, inUse, msg, cpc, dest, wait, slot, held, sent, spc,
                    cur, aux, calls>>
    BY <1>3 DEF vars, callerVars, serverVars, params
  <2>2. TypeOK' /\ Control'
    BY <2>1 DEF IInv, TypeOK, Control, CallerInv, SlotInv, ServerInv
  <2>3. Distinct' /\ OnePlace' /\ \A x : WithServer(x)' = WithServer(x)
    BY <2>1, StayQuiet
  <2>4. AnswerInv' /\ AckIsExpected'
    BY <2>1, <2>3 DEF IInv, AnswerInv, Awaited, AckIsExpected
  <2> QED
    BY <2>2, <2>3, <2>4 DEF IInv
<1> QED
  BY <1>1, <1>2, <1>3 DEF Next

LEMMA InvAlways == Spec => []IInv
BY InvInit, InvNext, PTL DEF Spec

(* Every message is always in exactly one place, the pool, a hand or a      *)
(* queue: none is lost, freed twice or queued twice (Utils_mbxSendMsg,      *)
(* Utils_mbxSendCmd, Utils_mbxAckOrFreeMsg, Utils_tskFlushMsg and           *)
(* Utils_mbxWaitCmd together).                                              *)
THEOREM MessagesCorrect == Spec => []MessagesOK
<1>1. IInv => MessagesOK
  BY OneHolderIs DEF IInv, MessagesOK
<1> QED
  BY <1>1, InvAlways, PTL

(* An acknowledge queue holds nothing but the message its owner sent and    *)
(* awaits: the warning of utils_mbx.c:257 is never printed, and no server   *)
(* waits for room on an acknowledge queue.                                  *)
THEOREM AckAlwaysExpected == Spec => []AckIsExpected
<1>1. IInv => AckIsExpected
  BY DEF IInv
<1> QED
  BY <1>1, InvAlways, PTL
=============================================================================
