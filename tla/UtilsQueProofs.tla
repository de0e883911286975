--------------------------- MODULE UtilsQueProofs ---------------------------
(* Theorems about UtilsQue for any number of tasks and any queue length.    *)
EXTENDS UtilsQue, FiniteSetTheorems, SequenceTheorems, TLAPS

(* Utils_queCreate leaves a well-typed handle, and every step keeps it so.  *)
LEMMA TypeInit == Init => TypeOK
  BY QueAssumption DEF Init, TypeOK, Slots, Points

(* Every step of the calls, of the semaphores and of a reset stays in the   *)
(* types.                                                                   *)
LEMMA TypeNext == TypeOK /\ [Next]_vars => TypeOK'
<1> SUFFICES ASSUME TypeOK, [Next]_vars PROVE TypeOK'
  OBVIOUS
<1> USE QueAssumption DEF TypeOK, Slots, Points, Sides
<1>1. ASSUME NEW t \in Tasks, CallGet(t) PROVE TypeOK'
  BY <1>1 DEF CallGet, Clamp, Goto, ring
<1>2. ASSUME NEW t \in Tasks, CallPut(t) PROVE TypeOK'
  BY <1>2 DEF CallPut, Goto, ring
<1>3. ASSUME NEW t \in Tasks, PutElem(t) PROVE TypeOK'
  BY <1>3 DEF PutElem, CanGo, AfterMove, Goto, locals
<1>4. ASSUME NEW t \in Tasks, GetElem(t) PROVE TypeOK'
  <2>1. UNCHANGED <<queue, curWr, sem, blocked, force, locals, calls>>
    BY <1>4 DEF GetElem
  <2>2. got' \in [Tasks -> Data \cup {NoData}]
    BY <1>4 DEF GetElem
  <2>3. curRd' \in Slots
    BY <1>4 DEF GetElem
  <2>4. count' \in 0 .. MaxElements
    BY <1>4 DEF GetElem, CanGo
  <2>5. pc' \in [Tasks -> Points]
    BY <1>4 DEF GetElem, AfterMove, Goto
  <2> QED
    BY <2>1, <2>2, <2>3, <2>4, <2>5 DEF locals
<1>5. ASSUME NEW t \in Tasks, CannotGo(t) PROVE TypeOK'
  BY <1>5 DEF CannotGo, Goto, ring, locals
<1>6. ASSUME NEW t \in Tasks, Post(t) PROVE TypeOK'
  <2> DEFINE s == Opposite(Side(t))
  <2>1. s \in Sides
    BY DEF Side, Opposite
  <2>2. UNCHANGED <<ring, blocked, force, locals, got, calls>>
    BY <1>6 DEF Post
  <2>3. sem' \in [Sides -> Nat] /\ pc' \in [Tasks -> Points]
    <3> HIDE DEF s
    <3>1. PostBy(t, s)
      BY <1>6 DEF Post, s
    <3> QED
      <4>1. CASE /\ sem' = [sem EXCEPT ![s] = @ + 1]
                 /\ pc' = [pc EXCEPT ![t] = "idle"]
        BY <2>1, <4>1
      <4>2. ASSUME NEW w \in Tasks, UNCHANGED sem,
                   pc' = [pc EXCEPT ![t] = "idle", ![w] = "woken"]
            PROVE  sem' \in [Sides -> Nat] /\ pc' \in [Tasks -> Points]
        BY <4>2
      <4> QED
        BY <3>1, <4>1, <4>2 DEF PostBy, Goto, Waiters, At
  <2> QED
    BY <2>2, <2>3 DEF ring, locals
<1>7. ASSUME NEW t \in Tasks, SetBlocked(t) PROVE TypeOK'
  BY <1>7 DEF SetBlocked, Goto, Side, ring, locals
<1>8. ASSUME NEW t \in Tasks, Pend(t) PROVE TypeOK'
  <2>1. UNCHANGED <<ring, blocked, force, locals, got, calls>>
    BY <1>8 DEF Pend
  <2>2. pc' \in [Tasks -> Points]
    <3>1. \/ pc' = [pc EXCEPT ![t] = "woken"]
          \/ pc' = [pc EXCEPT ![t] = "wait"]
      BY <1>8 DEF Pend, Goto
    <3> QED
      BY <3>1
  <2>3. sem' \in [Sides -> Nat]
    <3>1. Side(t) \in Sides
      BY DEF Side
    <3>2. CASE sem[Side(t)] > 0 /\ sem' = [sem EXCEPT ![Side(t)] = @ - 1]
      BY <3>1, <3>2
    <3> QED
      BY <1>8, <3>2 DEF Pend
  <2> QED
    BY <2>1, <2>2, <2>3 DEF ring, locals
<1>9. ASSUME NEW t \in Tasks, ClearBlocked(t) PROVE TypeOK'
  BY <1>9 DEF ClearBlocked, Goto, Side, ring, locals
<1>10. ASSUME NEW t \in Tasks, GiveUp(t) PROVE TypeOK'
  BY <1>10 DEF GiveUp, Goto, Side, ring, locals
<1>11. ASSUME NEW t \in Tasks, TestForce(t) PROVE TypeOK'
  BY <1>11 DEF TestForce, Goto, ring, locals
<1>12. ASSUME NEW t \in Tasks, Expire(t) PROVE TypeOK'
  BY <1>12 DEF Expire, Goto, ring, locals
<1>13. CASE UnBlock
  BY <1>13 DEF UnBlock, Forced, ring, locals
<1>14. CASE Reset
  BY <1>14 DEF Reset, locals
<1>15. CASE UNCHANGED vars
  BY <1>15 DEF vars, ring, locals
<1> QED
  BY <1>1, <1>2, <1>3, <1>4, <1>5, <1>6, <1>7, <1>8, <1>9, <1>10, <1>11,
     <1>12, <1>13, <1>14, <1>15 DEF Next, Step

(* Every field of the queue handle stays in its range.                      *)
THEOREM TypeCorrect == Spec => []TypeOK
  BY TypeInit, TypeNext, PTL DEF Spec

-----------------------------------------------------------------------------
(* The strengthening that makes TokensCover inductive.  It needs callers    *)
(* that ask for one element at a time, as every caller in src_bios6 does,   *)
(* and a queue that is not reset under its callers.                         *)

OneAtATime == MinCounts \subseteq {0, 1} /\ Resets = {}

(* A queue that is forced has at most two getters and two putters: a third  *)
(* one may lose its wake-up to two others that read the same force flag     *)
(* before the first of them clears it.                                      *)
AtMostTwo(S) == \A t, u, v \in S : t = u \/ u = v \/ t = v
FewWhenForced == UnBlocks => AtMostTwo(Getters) /\ AtMostTwo(Putters)

BlockInv == \A t \in Tasks :
  /\ minCount[t] = 1
  /\ pc[t] \in {"block", "pend", "wait"} => Blocking(Side(t))

SemInv == \A s \in Sides : Waiters(s) # {} => sem[s] = 0

\* A task in a call is one that makes such calls.
RoleInv == \A t \in Tasks :
  pc[t] # "idle" => t \in (IF op[t] = "get" THEN Getters ELSE Putters)

UnforcedInv == ~UnBlocks => \A s \in Sides : ~force[s]

RestInv == RoleInv /\ UnforcedInv

QueInv == /\ TypeOK /\ BlockInv /\ SemInv /\ ForceHasTarget /\ TokensCover
          /\ RestInv

(* The movers of a side are finitely many, and counted one by one.          *)
LEMMA MoversFinite ==
  ASSUME NEW s
  PROVE  IsFiniteSet(Movers(s)) /\ Cardinality(Movers(s)) \in Nat
<1>1. Movers(s) \in SUBSET Tasks
  BY DEF Movers
<1> QED
  BY <1>1, QueAssumption, FS_Subset, FS_CardinalityType

(* An empty queue with no waiter satisfies the whole invariant.             *)
LEMMA QueInit == Init => QueInv
<1> SUFFICES ASSUME Init PROVE QueInv
  OBVIOUS
<1>1. TypeOK
  BY TypeInit
<1>2. BlockInv /\ SemInv /\ ForceHasTarget /\ RestInv
  BY DEF Init, BlockInv, SemInv, ForceHasTarget, Waiters, At, Sides,
         RestInv, RoleInv, UnforcedInv
<1>3. TokensCover
  <2>1. \A s : Parked(s) = {}
    BY DEF Init, Parked
  <2> QED
    BY <2>1 DEF TokensCover
<1> QED
  BY <1>1, <1>2, <1>3 DEF QueInv

(* A task calls either Utils_queGet or Utils_quePut.                        *)
LEMMA SideType == \A t : Side(t) \in Sides
  BY DEF Side, Sides

(* An element moves: task t, looking at side x, takes one from what x can   *)
(* use, and adds one to what the opposite side y can use.                   *)
LEMMA MoveCover ==
  ASSUME QueInv, NEW t \in Tasks, NEW x \in Sides, NEW y \in Sides, x # y,
         Side(t) = x, pc[t] = "try",
         pc' = [pc EXCEPT ![t] = IF Blocking(y) THEN "post" ELSE "idle"],
         UNCHANGED <<sem, force, op, minCount>>,
         Avail(x)' = Avail(x) - 1, Avail(y)' = Avail(y) + 1,
         Avail(x) \in Int, Avail(y) \in Int
  PROVE  BlockInv' /\ SemInv' /\ TokensCover'
<1> USE DEF QueInv
<1>1. BlockInv' /\ SemInv'
  BY DEF BlockInv, SemInv, Waiters, At, Side, Blocking, TypeOK
<1>2. \A s : Parked(s)' = Parked(s) /\ Debt(s)' = Debt(s)
  BY DEF Parked, Debt, At, Side, TypeOK
<1>3. /\ Movers(x)' = Movers(x) \ {t} /\ t \in Movers(x)
      /\ Blocking(y) => Movers(y)' = Movers(y) \cup {t}
      /\ t \notin Movers(y)
  BY DEF Movers, Side, TypeOK
<1>4. /\ Cardinality(Movers(x))' = Cardinality(Movers(x)) - 1
      /\ Blocking(y) => Cardinality(Movers(y))' = Cardinality(Movers(y)) + 1
  <2>1. Cardinality(Movers(x) \ {t}) = Cardinality(Movers(x)) - 1
    BY <1>3, MoversFinite, FS_RemoveElement
  <2>2. Cardinality(Movers(y) \cup {t}) = Cardinality(Movers(y)) + 1
    BY <1>3, MoversFinite, FS_AddElement
  <2> QED
    BY <1>3, <2>1, <2>2
<1>5. ASSUME NEW s \in Sides, Parked(s) # {}
      PROVE  Avail(s)' + Debt(s)' =<
               sem[s]' + Cardinality(Movers(s))'
  <2>1. Avail(s) + Debt(s) =< sem[s] + Cardinality(Movers(s))
    BY <1>5 DEF TokensCover
  <2>2. sem[s] \in Nat /\ Debt(s) \in Nat
        /\ Cardinality(Movers(s)) \in Nat
    BY MoversFinite DEF Debt, TypeOK
  <2>3. CASE s = x
    BY <1>2, <1>4, <2>1, <2>2, <2>3
  <2>4. CASE s = y
    <3>1. Blocking(y)
      BY <1>5, <2>4 DEF Parked, BlockInv
    <3> QED
      BY <1>2, <1>4, <2>1, <2>2, <2>4, <3>1
  <2> QED
    BY <2>3, <2>4 DEF Sides
<1> QED
  BY <1>1, <1>2, <1>5 DEF TokensCover

(* An element put in the ring is covered by the putter, about to post for   *)
(* the getters; it uses up one free slot and its own claim to it.           *)
LEMMA PutElemCover ==
  ASSUME QueInv, NEW t \in Tasks, PutElem(t)
  PROVE  BlockInv' /\ SemInv' /\ TokensCover'
<1>1. Avail("wr")' = Avail("wr") - 1 /\ Avail("rd")' = Avail("rd") + 1
      /\ Avail("wr") \in Int /\ Avail("rd") \in Int
  BY QueAssumption DEF PutElem, Avail, QueInv, TypeOK
<1>2. /\ Side(t) = "wr" /\ pc[t] = "try"
      /\ pc' = [pc EXCEPT ![t] = IF Blocking("rd") THEN "post" ELSE "idle"]
      /\ UNCHANGED <<sem, force, op, minCount>>
  BY DEF PutElem, AfterMove, Goto, Side, Opposite, locals
<1> QED
  BY <1>1, <1>2, MoveCover DEF Sides

(* An element taken by a getter that wants one frees a slot, covered by that *)
(* getter's coming post for the putters.                                    *)
LEMMA GetElemCover ==
  ASSUME QueInv, NEW t \in Tasks, GetElem(t)
  PROVE  BlockInv' /\ SemInv' /\ TokensCover'
<1>1. Avail("rd")' = Avail("rd") - 1 /\ Avail("wr")' = Avail("wr") + 1
      /\ Avail("wr") \in Int /\ Avail("rd") \in Int
  BY QueAssumption DEF GetElem, Avail, QueInv, TypeOK
<1>2. /\ Side(t) = "rd" /\ pc[t] = "try"
      /\ pc' = [pc EXCEPT ![t] = IF Blocking("wr") THEN "post" ELSE "idle"]
      /\ UNCHANGED <<sem, force, op, minCount>>
  BY DEF GetElem, AfterMove, Goto, Side, Opposite, locals
<1> QED
  BY <1>1, <1>2, MoveCover DEF Sides

(* A task that found nothing leaves the movers; a pending force still has   *)
(* its own token or mover, because that task was not its target.            *)
LEMMA CannotGoCover ==
  ASSUME QueInv, NEW t \in Tasks, CannotGo(t)
  PROVE  BlockInv' /\ SemInv' /\ TokensCover'
<1> PICK x \in Sides : x = Side(t)
  BY SideType
<1> USE DEF QueInv
<1>1. /\ pc[t] = "try"
      /\ \/ pc' = [pc EXCEPT ![t] = "idle"]
         \/ pc' = [pc EXCEPT ![t] = "block"] /\ Blocking(x)
      /\ UNCHANGED <<count, sem, force, op, minCount>>
  BY DEF CannotGo, Goto, Side, Sides, locals, ring
<1>2. BlockInv' /\ SemInv'
  BY <1>1 DEF BlockInv, SemInv, Waiters, At, Side, Blocking,
              TypeOK
<1>3. Avail(x) = 0 /\ \A s : Avail(s)' = Avail(s) /\ Debt(s)' = Debt(s)
  <2>1. Avail(x) = 0 /\ \A s : Avail(s)' = Avail(s)
    BY <1>1, QueAssumption DEF CannotGo, CanGo, Side, Avail, BlockInv, TypeOK
  <2>2. \A s : At("forced", s)' = At("forced", s)
    BY <1>1 DEF At, Side, TypeOK
  <2> QED
    BY <1>1, <2>1, <2>2 DEF Debt
<1>4. /\ Movers(x)' = Movers(x) \ {t} /\ t \in Movers(x)
      /\ \A s \in Sides : s # x => Movers(s)' = Movers(s)
      /\ \A s \in Sides : s # x => Parked(s)' = Parked(s)
  BY <1>1 DEF Movers, Parked, Side, Sides, TypeOK
<1>5. Debt(x) =< sem[x] + Cardinality(Movers(x) \ {t})
  <2>1. IsFiniteSet(Movers(x) \ {t}) /\ Cardinality(Movers(x) \ {t}) \in Nat
    BY MoversFinite, FS_RemoveElement, FS_CardinalityType
  <2>2. sem[x] \in Nat /\ force[x] \in BOOLEAN
    BY <1>1 DEF TypeOK
  <2>3. CASE force[x] /\ At("forced", x) = {}
    <3>1. sem[x] > 0 \/ Movers(x) \ {t} # {}
      <4>1. \/ sem[x] > 0
            \/ \E u \in At("woken", x) \cup At("check", x) : TRUE
        BY <2>3 DEF ForceHasTarget
      <4>2. \A u \in At("woken", x) \cup At("check", x) :
              u \in Movers(x) /\ u # t
        BY <1>1 DEF At, Movers
      <4> QED
        BY <4>1, <4>2
    <3>2. sem[x] > 0 \/ Cardinality(Movers(x) \ {t}) > 0
      BY <2>1, <3>1, FS_EmptySet
    <3> QED
      BY <2>1, <2>2, <2>3, <3>2 DEF Debt
  <2>4. CASE ~(force[x] /\ At("forced", x) = {})
    BY <2>1, <2>2, <2>4 DEF Debt
  <2> QED
    BY <2>2, <2>3, <2>4
<1>6. TokensCover'
  <2> SUFFICES ASSUME NEW s \in Sides, Parked(s)' # {}
               PROVE  Avail(s)' + Debt(s)' =<
                        sem[s]' + Cardinality(Movers(s))'
    BY DEF TokensCover
  <2>1. CASE s = x
    <3>1. Debt(s)' = Debt(x) /\ Avail(s)' = 0 /\ sem[s]' = sem[x]
      BY <1>1, <1>3, <2>1
    <3>2. Cardinality(Movers(s))' = Cardinality(Movers(x) \ {t})
      BY <1>4, <2>1
    <3>3. Debt(x) \in Nat
      BY DEF Debt
    <3> QED
      BY <1>5, <3>1, <3>2, <3>3
  <2>2. CASE s # x
    BY <1>1, <1>3, <1>4, <2>2 DEF TokensCover
  <2> QED
    BY <2>1, <2>2
<1> QED
  BY <1>2, <1>6

(* Steps that change no count the invariant compares: a call begins, a task *)
(* raises or clears its flag, times out, or, unforced, goes round the loop. *)
LEMMA QuietCover ==
  ASSUME QueInv, OneAtATime, NEW t \in Tasks,
         CallGet(t) \/ CallPut(t) \/ SetBlocked(t) \/ Expire(t)
           \/ ClearBlocked(t) \/ (TestForce(t) /\ ~force[Side(t)])
  PROVE  BlockInv' /\ SemInv' /\ TokensCover'
<1> USE DEF QueInv
<1>1. UNCHANGED <<count, sem, force>>
  BY DEF CallGet, CallPut, SetBlocked, Expire, ClearBlocked, TestForce, ring
<1>2. BlockInv'
  <2>1. ASSUME CallGet(t) \/ CallPut(t) PROVE BlockInv'
    BY <2>1, QueAssumption DEF OneAtATime, CallGet, CallPut, Clamp, Goto,
       BlockInv, Side, Blocking, TypeOK
  <2>2. ASSUME SetBlocked(t) \/ Expire(t) \/ ClearBlocked(t) \/ TestForce(t)
        PROVE  BlockInv'
    BY <2>2 DEF SetBlocked, Expire, ClearBlocked, TestForce, Goto, locals,
       BlockInv, Side, Blocking, TypeOK
  <2> QED
    BY <2>1, <2>2
<1>3. \A u \in Tasks : u # t => pc'[u] = pc[u] /\ Side(u)' = Side(u)
  BY DEF CallGet, CallPut, SetBlocked, Expire, ClearBlocked, TestForce, Goto,
         Side, locals, TypeOK
<1>7. \/ pc[t] = "idle" /\ pc'[t] = "try"
      \/ Side(t)' = Side(t) /\ \/ pc[t] = "block" /\ pc'[t] = "pend"
                               \/ pc[t] = "wait" /\ pc'[t] = "expired"
                               \/ pc[t] = "woken" /\ pc'[t] = "check"
                               \/ pc[t] = "expired" /\ pc'[t] = "fail"
                               \/ /\ pc[t] = "check" /\ pc'[t] = "try"
                                  /\ ~force[Side(t)]
  BY DEF CallGet, CallPut, SetBlocked, Expire, ClearBlocked, TestForce, Goto,
         Side, locals, TypeOK
<1>8. ASSUME NEW s \in Sides
      PROVE  /\ Waiters(s)' \subseteq Waiters(s)
             /\ Parked(s)' \subseteq Parked(s)
             /\ Movers(s) \subseteq Movers(s)'
             /\ At("forced", s)' = At("forced", s)
  BY <1>3, <1>7 DEF Waiters, Parked, Movers, At
<1>4. SemInv'
  BY <1>1, <1>8 DEF SemInv
<1>6. TokensCover'
  <2> SUFFICES ASSUME NEW s \in Sides, Parked(s)' # {}
               PROVE  Avail(s)' + Debt(s)' =<
                        sem[s]' + Cardinality(Movers(s))'
    BY DEF TokensCover
  <2>1. Avail(s) + Debt(s) =< sem[s] + Cardinality(Movers(s))
    BY <1>8 DEF TokensCover
  <2>2. Cardinality(Movers(s)) =< Cardinality(Movers(s)')
    <3>1. Movers(s)' \in SUBSET Tasks
      BY DEF Movers
    <3>2. IsFiniteSet(Movers(s)')
      BY <3>1, QueAssumption, FS_Subset
    <3> QED
      BY <1>8, <3>2, FS_Subset
  <2>3. /\ Avail(s)' = Avail(s) /\ Avail(s) \in Int
        /\ Debt(s)' = Debt(s) /\ Debt(s) \in Nat /\ sem[s] \in Nat
        /\ Cardinality(Movers(s)) \in Nat /\ Cardinality(Movers(s)') \in Nat
    <3>1. Cardinality(Movers(s)') \in Nat
      BY QueAssumption, FS_Subset, FS_CardinalityType DEF Movers
    <3> QED
      BY <1>1, <1>8, <3>1, MoversFinite, QueAssumption DEF Avail, Debt, TypeOK
  <2> QED
    BY <1>1, <2>1, <2>2, <2>3
<1> QED
  BY <1>2, <1>4, <1>6

(* Tokens change hands.  PendCover: a token becomes a mover, or the task    *)
(* sleeps with no token left.                                               *)
LEMMA PendCover ==
  ASSUME QueInv, NEW t \in Tasks, Pend(t)
  PROVE  BlockInv' /\ SemInv' /\ TokensCover'
<1> PICK x \in Sides : x = Side(t)
  BY SideType
<1> USE DEF QueInv
<1>1. /\ pc[t] = "pend" /\ UNCHANGED <<count, force, op, minCount>>
      /\ \/ /\ sem[x] > 0 /\ sem' = [sem EXCEPT ![x] = @ - 1]
            /\ pc' = [pc EXCEPT ![t] = "woken"]
         \/ /\ sem[x] = 0 /\ sem' = sem
            /\ pc' = [pc EXCEPT ![t] = "wait"]
  BY DEF Pend, Goto, locals, ring
<1>2. BlockInv' /\ SemInv'
  BY <1>1 DEF BlockInv, SemInv, Waiters, At, Side, Blocking,
              TypeOK
<1>3. ASSUME NEW s \in Sides
      PROVE  /\ Parked(s)' \subseteq Parked(s)
             /\ s # x => Movers(s)' = Movers(s) /\ sem'[s] = sem[s]
             /\ t \notin Movers(s)
             /\ Avail(s)' = Avail(s) /\ Avail(s) \in Int
             /\ Debt(s)' = Debt(s) /\ Debt(s) \in Nat
  <2>1. At("forced", s)' = At("forced", s)
    BY <1>1 DEF At, Side, TypeOK
  <2> QED
    BY <1>1, <2>1, QueAssumption DEF Parked, Movers, Side, Avail, Debt, TypeOK
<1>4. \/ sem'[x] = sem[x] - 1 /\ Movers(x)' = Movers(x) \cup {t}
      \/ sem'[x] = sem[x] /\ Movers(x)' = Movers(x)
  BY <1>1 DEF Movers, Side, TypeOK
<1>5. \/ /\ sem'[x] = sem[x] - 1
         /\ Cardinality(Movers(x)') = Cardinality(Movers(x)) + 1
      \/ sem'[x] = sem[x] /\ Movers(x)' = Movers(x)
  BY <1>3, <1>4, MoversFinite, FS_AddElement
<1>6. ASSUME NEW s \in Sides, Parked(s)' # {}
      PROVE  Avail(s)' + Debt(s)' =<
               sem[s]' + Cardinality(Movers(s))'
  <2>1. Avail(s) + Debt(s) =< sem[s] + Cardinality(Movers(s))
    BY <1>3, <1>6 DEF TokensCover
  <2>2. sem[s] \in Nat /\ Cardinality(Movers(s)) \in Nat
    BY MoversFinite DEF TypeOK
  <2>3. CASE s = x
    BY <1>3, <1>5, <2>1, <2>2, <2>3
  <2>4. CASE s # x
    BY <1>3, <2>1, <2>4
  <2> QED
    BY <2>3, <2>4
<1> QED
  BY <1>2, <1>6 DEF TokensCover

(* PostCover: the poster leaves the movers and a token, or a woken task,    *)
(* takes its place.                                                         *)
LEMMA PostCover ==
  ASSUME QueInv, NEW t \in Tasks, Post(t)
  PROVE  BlockInv' /\ SemInv' /\ TokensCover'
<1> PICK x \in Sides : x = Opposite(Side(t))
  BY DEF Opposite, Sides
<1> USE DEF QueInv
<1>1. /\ pc[t] = "post" /\ UNCHANGED <<count, force, op, minCount>>
      /\ Side(t) # x
      /\ \/ /\ Waiters(x) = {} /\ sem' = [sem EXCEPT ![x] = @ + 1]
            /\ pc' = [pc EXCEPT ![t] = "idle"]
         \/ \E w \in Waiters(x) :
              /\ pc' = [pc EXCEPT ![t] = "idle", ![w] = "woken"]
              /\ sem' = sem
  BY DEF Post, PostBy, Goto, Opposite, Side, locals, ring
<1>2. CASE /\ Waiters(x) = {} /\ sem' = [sem EXCEPT ![x] = @ + 1]
           /\ pc' = [pc EXCEPT ![t] = "idle"]
  <2>1. BlockInv' /\ SemInv'
    BY <1>1, <1>2 DEF BlockInv, SemInv, Waiters, At, Side,
       Blocking, TypeOK
  <2>2. ASSUME NEW s \in Sides
        PROVE  /\ Parked(s)' = Parked(s)
               /\ s # x => Movers(s)' = Movers(s) /\ sem'[s] = sem[s]
               /\ Avail(s)' = Avail(s) /\ Avail(s) \in Int
               /\ Debt(s)' = Debt(s) /\ Debt(s) \in Nat
    <3>1. At("forced", s)' = At("forced", s)
      BY <1>1, <1>2 DEF At, Side, TypeOK
    <3> QED
      BY <1>1, <1>2, <3>1, QueAssumption DEF Parked, Movers, Side, Sides,
         Avail, Debt, TypeOK
  <2>3. /\ sem'[x] = sem[x] + 1 /\ t \in Movers(x)
        /\ Movers(x)' = Movers(x) \ {t}
    BY <1>1, <1>2 DEF Movers, Side, TypeOK
  <2>4. Cardinality(Movers(x)') = Cardinality(Movers(x)) - 1
    BY <2>3, MoversFinite, FS_RemoveElement
  <2>5. ASSUME NEW s \in Sides, Parked(s)' # {}
        PROVE  Avail(s)' + Debt(s)' =<
                 sem[s]' + Cardinality(Movers(s))'
    <3>1. Avail(s) + Debt(s) =< sem[s] + Cardinality(Movers(s))
      BY <2>2, <2>5 DEF TokensCover
    <3>2. sem[s] \in Nat /\ Cardinality(Movers(s)) \in Nat
      BY MoversFinite DEF TypeOK
    <3>3. CASE s = x
      <4>1. /\ sem'[s] = sem[s] + 1
            /\ Cardinality(Movers(s)') = Cardinality(Movers(s)) - 1
        BY <2>3, <2>4, <3>3
      <4>2. /\ Avail(s)' = Avail(s) /\ Avail(s) \in Int
            /\ Debt(s)' = Debt(s) /\ Debt(s) \in Nat
        BY <2>2
      <4> QED
        BY <3>1, <3>2, <4>1, <4>2
    <3>4. CASE s # x
      BY <2>2, <3>1, <3>4
    <3> QED
      BY <3>3, <3>4
  <2> QED
    BY <2>1, <2>5 DEF TokensCover
<1>3. ASSUME NEW w \in Waiters(x), sem' = sem,
             pc' = [pc EXCEPT ![t] = "idle", ![w] = "woken"]
      PROVE  BlockInv' /\ SemInv' /\ TokensCover'
  <2>0. w \in Tasks /\ pc[w] = "wait" /\ Side(w) = x /\ w # t
    BY <1>1, <1>3 DEF Waiters, At
  <2>1. BlockInv' /\ SemInv'
    BY <1>1, <1>3, <2>0 DEF BlockInv, SemInv, Waiters, At,
       Side, Blocking, TypeOK
  <2>2. ASSUME NEW s \in Sides
        PROVE  /\ Parked(s)' \subseteq Parked(s)
               /\ s # x => Movers(s)' = Movers(s)
               /\ Avail(s)' = Avail(s) /\ Avail(s) \in Int
               /\ Debt(s)' = Debt(s) /\ Debt(s) \in Nat
    <3>1. At("forced", s)' = At("forced", s)
      BY <1>1, <1>3, <2>0 DEF At, Side, TypeOK
    <3> QED
      BY <1>1, <1>3, <2>0, <3>1, QueAssumption DEF Parked, Movers, Side,
         Sides, Avail, Debt, TypeOK
  <2>3. /\ t \in Movers(x) /\ w \notin Movers(x)
        /\ Movers(x)' = (Movers(x) \ {t}) \cup {w}
    BY <1>1, <1>3, <2>0 DEF Movers, Side, TypeOK
  <2>4. Cardinality(Movers(x)') = Cardinality(Movers(x))
    <3>1. IsFiniteSet(Movers(x) \ {t}) /\ Cardinality(Movers(x)) \in Nat
          /\ Cardinality(Movers(x) \ {t}) = Cardinality(Movers(x)) - 1
      BY <2>3, MoversFinite, FS_RemoveElement
    <3>2. Cardinality((Movers(x) \ {t}) \cup {w}) =
            Cardinality(Movers(x) \ {t}) + 1
      BY <2>3, <3>1, FS_AddElement
    <3> QED
      BY <2>3, <3>1, <3>2
  <2>5. ASSUME NEW s \in Sides, Parked(s)' # {}
        PROVE  Avail(s)' + Debt(s)' =<
                 sem[s]' + Cardinality(Movers(s))'
    <3>1. Avail(s) + Debt(s) =< sem[s] + Cardinality(Movers(s))
      BY <2>2, <2>5 DEF TokensCover
    <3> QED
      BY <1>3, <2>2, <2>4, <3>1
  <2> QED
    BY <2>1, <2>5 DEF TokensCover
<1> QED
  BY <1>1, <1>2, <1>3

(* TestCover: a task that finds itself forced pays the debt of its side     *)
(* with its own wake-up.  If another has read the flag before it, the two   *)
(* are all the callers of the side, and nobody is left to wait.             *)
LEMMA TestCover ==
  ASSUME QueInv, FewWhenForced, NEW t \in Tasks, TestForce(t), force[Side(t)]
  PROVE  BlockInv' /\ SemInv' /\ TokensCover'
<1> PICK x \in Sides : x = Side(t)
  BY SideType
<1> USE DEF QueInv
<1>1. /\ pc[t] = "check" /\ force[x]
      /\ UNCHANGED <<count, sem, force, op, minCount>>
      /\ pc' = [pc EXCEPT ![t] = "forced"]
  BY DEF TestForce, Goto, locals, ring
<1>2. BlockInv' /\ SemInv'
  BY <1>1 DEF BlockInv, SemInv, Waiters, At, Side, Blocking, TypeOK
<1>3. ASSUME NEW s \in Sides
      PROVE  /\ Parked(s)' = Parked(s)
             /\ s # x => Movers(s)' = Movers(s)
             /\ s # x => At("forced", s)' = At("forced", s)
             /\ Avail(s)' = Avail(s) /\ Avail(s) \in Int
             /\ sem[s]' = sem[s] /\ sem[s] \in Nat
  <2>1. Parked(s)' = Parked(s)
    BY <1>1 DEF Parked, Side, TypeOK
  <2>2. s # x => Movers(s)' = Movers(s)
    BY <1>1 DEF Movers, Side, Sides, TypeOK
  <2>3. s # x => At("forced", s)' = At("forced", s)
    BY <1>1 DEF At, Side, TypeOK
  <2>4. Avail(s)' = Avail(s) /\ Avail(s) \in Int
    BY <1>1, QueAssumption DEF Avail, TypeOK
  <2> QED
    BY <1>1, <2>1, <2>2, <2>3, <2>4 DEF TypeOK
<1>4. /\ t \in Movers(x) /\ Movers(x)' = Movers(x) \ {t}
      /\ t \in At("forced", x)'
  BY <1>1 DEF Movers, At, Side, Sides, TypeOK
<1>5. Cardinality(Movers(x)') = Cardinality(Movers(x)) - 1
  BY <1>4, MoversFinite, FS_RemoveElement
<1>6. At("forced", x) # {} => Parked(x) = {}
  <2> SUFFICES ASSUME NEW u \in At("forced", x), NEW v \in Parked(x)
               PROVE  FALSE
    OBVIOUS
  <2>1. /\ u \in Tasks /\ pc[u] = "forced" /\ Side(u) = x
        /\ v \in Tasks /\ pc[v] \in {"block", "pend", "wait"} /\ Side(v) = x
    BY DEF At, Parked
  <2>2. op[u] = op[t] /\ op[v] = op[t]
    BY <2>1 DEF Side, TypeOK
  <2>3. \E S \in {Getters, Putters} : t \in S /\ u \in S /\ v \in S
    BY <1>1, <2>1, <2>2 DEF RestInv, RoleInv
  <2>4. UnBlocks
    BY <1>1, QueAssumption DEF RestInv, UnforcedInv
  <2> QED
    BY <1>1, <2>1, <2>3, <2>4 DEF FewWhenForced, AtMostTwo
<1>7. ASSUME NEW s \in Sides, Parked(s)' # {}
      PROVE  Avail(s)' + Debt(s)' =< sem[s]' + Cardinality(Movers(s))'
  <2>1. Avail(s) + Debt(s) =< sem[s] + Cardinality(Movers(s))
    BY <1>3, <1>7 DEF TokensCover
  <2>2. Cardinality(Movers(s)) \in Nat
    BY MoversFinite
  <2>3. CASE s = x
    <3>1. Debt(s) = 1
      BY <1>1, <1>3, <1>6, <1>7, <2>3 DEF Debt
    <3>2. Debt(s)' = 0
      BY <1>4, <2>3 DEF Debt
    <3> QED
      BY <1>3, <1>5, <2>1, <2>2, <2>3, <3>1, <3>2
  <2>4. CASE s # x
    <3>1. Debt(s)' = Debt(s)
      BY <1>1, <1>3, <2>4 DEF Debt
    <3> QED
      BY <1>3, <2>1, <2>4, <3>1
  <2> QED
    BY <2>3, <2>4
<1> QED
  BY <1>2, <1>7 DEF TokensCover

(* GiveUpCover: a task that returns its error leaves no debt behind.        *)
LEMMA GiveUpCover ==
  ASSUME QueInv, NEW t \in Tasks, GiveUp(t)
  PROVE  BlockInv' /\ SemInv' /\ TokensCover'
<1> PICK x \in Sides : x = Side(t)
  BY SideType
<1> USE DEF QueInv
<1>1. /\ pc[t] \in {"fail", "forced"}
      /\ UNCHANGED <<count, sem, op, minCount>>
      /\ force' = [force EXCEPT ![x] = FALSE]
      /\ pc' = [pc EXCEPT ![t] = "idle"]
  BY DEF GiveUp, Goto, locals, ring
<1>2. BlockInv' /\ SemInv'
  BY <1>1 DEF BlockInv, SemInv, Waiters, At, Side, Blocking, TypeOK
<1>3. ASSUME NEW s \in Sides
      PROVE  /\ Parked(s)' = Parked(s) /\ Movers(s)' = Movers(s)
             /\ Avail(s)' = Avail(s) /\ Avail(s) \in Int
  <2>1. Parked(s)' = Parked(s) /\ Movers(s)' = Movers(s)
    BY <1>1 DEF Parked, Movers, Side, TypeOK
  <2>2. Avail(s)' = Avail(s) /\ Avail(s) \in Int
    BY <1>1, QueAssumption DEF Avail, TypeOK
  <2> QED
    BY <2>1, <2>2
<1>4. ASSUME NEW s \in Sides PROVE Debt(s)' =< Debt(s)
  <2>1. CASE s = x
    <3>1. ~force'[s]
      BY <1>1, <2>1 DEF TypeOK
    <3> QED
      BY <3>1 DEF Debt
  <2>2. CASE s # x
    <3>1. force'[s] = force[s] /\ At("forced", s)' = At("forced", s)
      BY <1>1, <2>2 DEF At, Side, TypeOK
    <3> QED
      BY <3>1 DEF Debt
  <2> QED
    BY <2>1, <2>2
<1>5. ASSUME NEW s \in Sides, Parked(s)' # {}
      PROVE  Avail(s)' + Debt(s)' =< sem[s]' + Cardinality(Movers(s))'
  <2>1. Avail(s) + Debt(s) =< sem[s] + Cardinality(Movers(s))
    BY <1>3, <1>5 DEF TokensCover
  <2>2. /\ sem[s]' = sem[s] /\ sem[s] \in Nat
        /\ Cardinality(Movers(s)) \in Nat
        /\ Debt(s) \in Nat /\ Debt(s)' \in Nat
    BY <1>1, MoversFinite DEF TypeOK, Debt
  <2> QED
    BY <1>3, <1>4, <2>1, <2>2
<1> QED
  BY <1>2, <1>5 DEF TokensCover

(* UnBlockCover: each side it forces gains one token or one mover.          *)
LEMMA UnBlockCover ==
  ASSUME QueInv, UnBlock
  PROVE  BlockInv' /\ SemInv' /\ TokensCover'
<1> USE DEF QueInv
<1>1. /\ UNCHANGED <<count, op, minCount>>
      /\ force' = [s \in Sides |-> s \in Forced \/ force[s]]
      /\ sem' = [s \in Sides |->
                   IF s \in Forced /\ Waiters(s) = {} THEN 1 ELSE sem[s]]
  BY DEF UnBlock, locals, ring
<1>2. PICK woken \in SUBSET Tasks :
        /\ woken \subseteq UNION {Waiters(s) : s \in Forced}
        /\ \A s \in Forced : Waiters(s) # {} =>
             \E w \in Waiters(s) : woken \cap Waiters(s) = {w}
        /\ pc' = [t \in Tasks |-> IF t \in woken THEN "woken" ELSE pc[t]]
  BY DEF UnBlock
<1>3. \A t \in woken : pc[t] = "wait" /\ Side(t) \in Forced
  BY <1>2 DEF Waiters, At
<1>4. \A s \in Sides \ Forced : woken \cap Waiters(s) = {}
  BY <1>3 DEF Waiters, At
<1>5. \A s \in Forced : s \in Sides /\ sem[s] = 0
  BY DEF Forced
<1>6. BlockInv'
  BY <1>1, <1>2 DEF BlockInv, Side, Blocking, TypeOK
<1>7. \A s \in Sides : Waiters(s)' = Waiters(s) \ woken
                       /\ At("woken", s)' = At("woken", s) \cup (woken \cap Waiters(s))
                       /\ At("check", s)' = At("check", s)
  BY <1>1, <1>2, <1>3 DEF Waiters, At, Side, TypeOK
<1>8. SemInv'
  BY <1>1, <1>2, <1>5, <1>7 DEF SemInv
<1>9. \A s : At("forced", s)' = At("forced", s)
  BY <1>1, <1>2, <1>3 DEF At, Side, TypeOK
<1>10. ASSUME NEW s \in Sides
       PROVE  /\ Parked(s)' = Parked(s) \ woken
              /\ Movers(s)' = Movers(s) \cup (woken \cap Waiters(s))
              /\ Avail(s)' = Avail(s) /\ Avail(s) \in Int
              /\ Debt(s) \in Nat /\ Debt(s)' \in Nat
              /\ Debt(s)' =< Debt(s) + 1
              /\ s \notin Forced => Debt(s)' = Debt(s)
  <2>1. Parked(s)' = Parked(s) \ woken
        /\ Movers(s)' = Movers(s) \cup (woken \cap Waiters(s))
    BY <1>1, <1>2, <1>3 DEF Parked, Movers, Waiters, At, Side, TypeOK
  <2>2. Avail(s)' = Avail(s) /\ Avail(s) \in Int
    BY <1>1, QueAssumption DEF Avail, TypeOK
  <2>3. s \notin Forced => force'[s] = force[s]
    BY <1>1 DEF TypeOK
  <2> QED
    BY <1>9, <2>1, <2>2, <2>3 DEF Debt
<1>11. ASSUME NEW s \in Sides, Parked(s)' # {}
       PROVE  Avail(s)' + Debt(s)' =<
                sem[s]' + Cardinality(Movers(s))'
  <2>1. Avail(s) + Debt(s) =< sem[s] + Cardinality(Movers(s))
    BY <1>10, <1>11 DEF TokensCover
  <2>2. sem[s] \in Nat /\ Cardinality(Movers(s)) \in Nat
    BY MoversFinite DEF TypeOK
  <2>3. CASE s \notin Forced
    <3>1. sem'[s] = sem[s] /\ Movers(s)' = Movers(s)
      BY <1>1, <1>4, <1>10, <2>3
    <3> QED
      BY <1>10, <2>1, <2>2, <2>3, <3>1
  <2>4. CASE s \in Forced /\ Waiters(s) = {}
    <3>1. sem'[s] = sem[s] + 1
      BY <1>1, <1>5, <2>4
    <3>2. Movers(s)' = Movers(s)
      BY <1>10, <2>4
    <3> QED
      BY <1>10, <2>1, <2>2, <3>1, <3>2
  <2>5. CASE s \in Forced /\ Waiters(s) # {}
    <3>1. PICK w \in Waiters(s) : woken \cap Waiters(s) = {w}
      BY <1>2, <2>5
    <3>2. w \notin Movers(s)
      BY DEF Waiters, At, Movers
    <3>3. sem'[s] = sem[s] /\ Movers(s)' = Movers(s) \cup {w}
      BY <1>1, <1>10, <2>5, <3>1
    <3>4. Cardinality(Movers(s)') = Cardinality(Movers(s)) + 1
      BY <3>2, <3>3, MoversFinite, FS_AddElement
    <3> QED
      BY <1>10, <2>1, <2>2, <3>3, <3>4
  <2> QED
    BY <2>3, <2>4, <2>5
<1> QED
  BY <1>6, <1>8, <1>11 DEF TokensCover

(* A force flag keeps its target whatever the task does next: the token is  *)
(* taken by a task that will look, and the first that finds itself forced   *)
(* and returns clears the flag.                                             *)
LEMMA ForceNext ==
  ASSUME TypeOK, ForceHasTarget, [Next]_vars
  PROVE  ForceHasTarget'
<1> USE DEF TypeOK
<1>1. ASSUME NEW t \in Tasks, Pend(t) \/ TestForce(t) \/ GiveUp(t)
      PROVE  ForceHasTarget'
  <2> PICK x \in Sides : x = Side(t)
    BY SideType
  <2>1. CASE Pend(t)
    <3>1. /\ UNCHANGED <<force, op>>
          /\ \/ sem' = sem /\ pc' = [pc EXCEPT ![t] = "wait"]
             \/ /\ \A s \in Sides : s # x => sem'[s] = sem[s]
                /\ pc' = [pc EXCEPT ![t] = "woken"]
          /\ pc[t] = "pend"
      BY <2>1 DEF Pend, Goto, locals
    <3>2. \A s \in Sides, p \in {"woken", "check", "forced"} :
            At(p, s) \subseteq At(p, s)'
      BY <3>1 DEF At, Side
    <3>3. pc'[t] = "woken" => t \in At("woken", x)'
      BY <3>1 DEF At, Side, Sides
    <3> QED
      BY <3>1, <3>2, <3>3 DEF ForceHasTarget
  <2>2. CASE TestForce(t)
    <3>1. /\ UNCHANGED <<force, op, sem>> /\ pc[t] = "check"
          /\ pc' = [pc EXCEPT ![t] = IF force[x] THEN "forced" ELSE "try"]
      BY <2>2 DEF TestForce, Goto, locals
    <3>2. \A s \in Sides : /\ At("woken", s)' = At("woken", s)
                           /\ At("forced", s) \subseteq At("forced", s)'
                           /\ s # x => At("check", s)' = At("check", s)
      BY <3>1 DEF At, Side
    <3>3. force[x] => t \in At("forced", x)'
      BY <3>1 DEF At, Side, Sides
    <3> QED
      BY <3>1, <3>2, <3>3 DEF ForceHasTarget
  <2>3. CASE GiveUp(t)
    <3>1. /\ UNCHANGED <<op, sem>> /\ pc[t] \in {"fail", "forced"}
          /\ force' = [force EXCEPT ![x] = FALSE]
          /\ pc' = [pc EXCEPT ![t] = "idle"]
      BY <2>3 DEF GiveUp, Goto, locals
    <3>2. \A s \in Sides : /\ At("woken", s)' = At("woken", s)
                           /\ At("check", s)' = At("check", s)
                           /\ s # x => At("forced", s)' = At("forced", s)
      BY <3>1 DEF At, Side
    <3> QED
      BY <3>1, <3>2 DEF ForceHasTarget
  <2> QED
    BY <1>1, <2>1, <2>2, <2>3
<1>2. ASSUME NEW t \in Tasks,
             \/ CallGet(t) \/ CallPut(t) \/ PutElem(t) \/ GetElem(t)
             \/ CannotGo(t) \/ SetBlocked(t) \/ ClearBlocked(t) \/ Expire(t)
      PROVE  ForceHasTarget'
  <2>1. /\ UNCHANGED <<force, sem>>
        /\ \A u \in Tasks : u # t => pc'[u] = pc[u] /\ op'[u] = op[u]
        /\ \/ pc[t] \notin {"woken", "check", "forced"}
           \/ pc[t] = "woken" /\ pc'[t] = "check" /\ op'[t] = op[t]
    BY <1>2 DEF CallGet, CallPut, PutElem, GetElem, CannotGo, SetBlocked,
       ClearBlocked, Expire, Goto, locals
  <2>2. \A s \in Sides :
          /\ At("woken", s) \cup At("check", s) \subseteq
               At("woken", s)' \cup At("check", s)'
          /\ At("forced", s) \subseteq At("forced", s)'
    BY <2>1 DEF At, Side
  <2> QED
    BY <2>1, <2>2 DEF ForceHasTarget
<1>3. ASSUME NEW t \in Tasks, Post(t) PROVE ForceHasTarget'
  <2> PICK x \in Sides : x = Opposite(Side(t))
    BY DEF Opposite, Sides
  <2>1. /\ pc[t] = "post" /\ UNCHANGED <<force, op>>
        /\ \/ /\ sem' = [sem EXCEPT ![x] = @ + 1]
              /\ pc' = [pc EXCEPT ![t] = "idle"]
           \/ \E w \in Waiters(x) :
                /\ pc' = [pc EXCEPT ![t] = "idle", ![w] = "woken"]
                /\ sem' = sem
    BY <1>3 DEF Post, PostBy, Goto, locals
  <2>2. \A s \in Sides : sem[s] > 0 => sem'[s] > 0
    BY <2>1
  <2>3. \A s \in Sides, p \in {"woken", "check", "forced"} :
          At(p, s) \subseteq At(p, s)'
    BY <2>1 DEF At, Side, Waiters
  <2> QED
    BY <2>1, <2>2, <2>3 DEF ForceHasTarget
<1>4. CASE UnBlock
  <2>1. PICK woken \in SUBSET Tasks :
          /\ woken \subseteq UNION {Waiters(s) : s \in Forced}
          /\ \A s \in Forced : Waiters(s) # {} =>
               \E w \in Waiters(s) : woken \cap Waiters(s) = {w}
          /\ pc' = [t \in Tasks |-> IF t \in woken THEN "woken" ELSE pc[t]]
    BY <1>4 DEF UnBlock
  <2>2. /\ UNCHANGED op
        /\ force' = [s \in Sides |-> s \in Forced \/ force[s]]
        /\ sem' = [s \in Sides |->
                     IF s \in Forced /\ Waiters(s) = {} THEN 1 ELSE sem[s]]
    BY <1>4 DEF UnBlock, locals
  <2>3. \A t \in woken : pc[t] = "wait"
    BY <2>1 DEF Waiters, At
  <2>4. \A s \in Sides, p \in {"woken", "check", "forced"} :
          At(p, s) \subseteq At(p, s)'
    BY <2>1, <2>2, <2>3 DEF At, Side
  <2>5. \A s \in Sides : woken \cap Waiters(s) \subseteq At("woken", s)'
    BY <2>1, <2>2 DEF Waiters, At, Side
  <2>6. ASSUME NEW s \in Sides, force'[s]
        PROVE  \/ sem'[s] > 0 \/ At("woken", s)' # {}
               \/ At("check", s)' # {} \/ At("forced", s)' # {}
    <3>1. CASE s \in Forced /\ Waiters(s) = {}
      BY <2>2, <3>1
    <3>2. CASE s \in Forced /\ Waiters(s) # {}
      BY <2>1, <2>5, <3>2
    <3>3. CASE s \notin Forced
      <4>1. force[s] /\ sem'[s] = sem[s]
        BY <2>2, <2>6, <3>3
      <4> QED
        BY <2>4, <4>1 DEF ForceHasTarget
    <3> QED
      BY <3>1, <3>2, <3>3
  <2> QED
    BY <2>6 DEF ForceHasTarget
<1>5. CASE Reset
  BY <1>5 DEF Reset, ForceHasTarget
<1>6. CASE UNCHANGED vars
  BY <1>6 DEF vars, locals, ForceHasTarget, At, Side
<1> QED
  BY <1>1, <1>2, <1>3, <1>4, <1>5, <1>6 DEF Next, Step

(* Who may call, and who may force, does not change.                        *)
LEMMA RestNext ==
  ASSUME TypeOK, RestInv, [Next]_vars
  PROVE  RestInv'
<1> USE DEF TypeOK
<1>1. RoleInv'
  <2>1. ASSUME NEW t \in Tasks, CallGet(t) \/ CallPut(t) PROVE RoleInv'
    BY <2>1 DEF CallGet, CallPut, Goto, RestInv, RoleInv
  <2>2. ASSUME UNCHANGED op, \A u \in Tasks : pc[u] = "idle" => pc'[u] = "idle"
        PROVE  RoleInv'
    BY <2>2 DEF RestInv, RoleInv
  <2>3. ASSUME NEW t \in Tasks,
               \/ PutElem(t) \/ GetElem(t) \/ CannotGo(t) \/ SetBlocked(t)
               \/ Pend(t) \/ ClearBlocked(t) \/ TestForce(t) \/ GiveUp(t)
               \/ Expire(t)
        PROVE  RoleInv'
    BY <2>2, <2>3 DEF PutElem, GetElem, CannotGo, SetBlocked, Pend,
       ClearBlocked, TestForce, GiveUp, Expire, Goto, locals
  <2>4. ASSUME NEW t \in Tasks, Post(t) PROVE RoleInv'
    <3>1. /\ UNCHANGED op /\ pc[t] = "post"
          /\ \/ pc' = [pc EXCEPT ![t] = "idle"]
             \/ \E w \in Tasks :
                  /\ pc[w] = "wait"
                  /\ pc' = [pc EXCEPT ![t] = "idle", ![w] = "woken"]
      BY <2>4 DEF Post, PostBy, Goto, locals, Waiters, At
    <3> QED
      BY <2>2, <3>1
  <2>5. CASE UnBlock
    <3>1. UNCHANGED op /\ \A u \in Tasks : pc[u] = "idle" => pc'[u] = "idle"
      BY <2>5 DEF UnBlock, locals, Waiters, At
    <3> QED
      BY <2>2, <3>1
  <2>6. CASE Reset \/ UNCHANGED vars
    BY <2>2, <2>6 DEF Reset, vars, locals
  <2> QED
    BY <2>1, <2>3, <2>4, <2>5, <2>6 DEF Next, Step
<1>2. UnforcedInv'
  <2>1. \/ \A s \in Sides : force'[s] => force[s]
        \/ UnBlocks
    BY DEF Next, Step, CallGet, CallPut, PutElem, GetElem, CannotGo, Post,
       SetBlocked, Pend, ClearBlocked, TestForce, GiveUp, Expire, UnBlock,
       Reset, vars
  <2> QED
    BY <2>1, QueAssumption DEF RestInv, UnforcedInv
<1> QED
  BY <1>1, <1>2 DEF RestInv

(* The invariant is inductive: one case per action of Next.                 *)
LEMMA QueNext ==
  ASSUME QueInv, OneAtATime, FewWhenForced, [Next]_vars
  PROVE  QueInv'
<1>1. TypeOK' /\ ForceHasTarget' /\ RestInv'
  BY TypeNext, ForceNext, RestNext DEF QueInv
<1>2. ASSUME NEW t \in Tasks, CallGet(t) \/ CallPut(t) \/ Step(t) \/ Expire(t)
      PROVE  BlockInv' /\ SemInv' /\ TokensCover'
  <2>1. CASE PutElem(t) \/ GetElem(t) \/ CannotGo(t) \/ Pend(t) \/ Post(t)
    BY <2>1, PutElemCover, GetElemCover, CannotGoCover, PendCover, PostCover
  <2>2. CASE CallGet(t) \/ CallPut(t) \/ SetBlocked(t) \/ Expire(t)
               \/ ClearBlocked(t) \/ GiveUp(t)
    BY <2>2, QuietCover, GiveUpCover
  <2>3. CASE TestForce(t)
    BY <2>3, QuietCover, TestCover
  <2> QED
    BY <1>2, <2>1, <2>2, <2>3 DEF Step
<1>3. CASE UnBlock
  BY <1>1, <1>3, UnBlockCover DEF QueInv
<1>4. CASE Reset
  BY <1>4 DEF Reset, OneAtATime
<1>5. CASE UNCHANGED vars
  BY <1>1, <1>5 DEF vars, ring, locals, QueInv, BlockInv, SemInv,
     TokensCover, Waiters, At, Side, Blocking, Parked, Movers,
     Avail, Debt
<1> QED
  BY <1>1, <1>2, <1>3, <1>4, <1>5 DEF Next, QueInv

(* With callers that take one element at a time, on a queue that is not     *)
(* reset, the tokens and the tasks about to look cover every element and    *)
(* every free slot somebody waits for: whatever the number of tasks on a    *)
(* queue that is never forced, and with two getters and two putters on one  *)
(* that is.                                                                 *)
THEOREM TokensCoverAlways ==
  ASSUME OneAtATime, FewWhenForced
  PROVE  Spec => []TokensCover
<1>1. Init => QueInv
  BY QueInit
<1>2. QueInv /\ [Next]_vars => QueInv'
  BY QueNext
<1>3. QueInv => TokensCover
  BY DEF QueInv
<1> QED
  BY <1>1, <1>2, <1>3, PTL DEF Spec

(* So no task sleeps in Utils_queGet or Utils_quePut through an element or  *)
(* a free slot it waits for, under the same two hypotheses.                 *)
THEOREM NoLostWakeupAlways ==
  ASSUME OneAtATime, FewWhenForced
  PROVE  Spec => []NoLostWakeup
<1>1. QueInv => NoLostWakeup
  <2> SUFFICES ASSUME QueInv, NEW t \in Tasks, pc[t] = "wait", CanGo(t),
                      Movers(Side(t)) = {}
               PROVE  FALSE
    BY DEF NoLostWakeup
  <2> PICK s \in Sides : s = Side(t)
    BY SideType
  <2>1. t \in Waiters(s) /\ t \in Parked(s)
    BY DEF Waiters, At, Parked
  <2>2. sem[s] = 0 /\ Avail(s) + Debt(s) =< sem[s] + Cardinality(Movers(s))
    BY <2>1 DEF QueInv, SemInv, TokensCover
  <2>3. Cardinality(Movers(s)) = 0
    BY FS_EmptySet
  <2>4. Avail(s) \in Nat \ {0}
    BY QueAssumption DEF CanGo, Avail, Side, QueInv, BlockInv, TypeOK
  <2>5. Debt(s) \in Nat
    BY DEF Debt
  <2> QED
    BY <2>2, <2>3, <2>4, <2>5
<1>2. Init => QueInv
  BY QueInit
<1>3. QueInv /\ [Next]_vars => QueInv'
  BY QueNext
<1> QED
  BY <1>1, <1>2, <1>3, PTL DEF Spec

(* A forced unblock is never left over for a later call, for any number of  *)
(* tasks, any minCount, and with resets at any moment.                      *)
THEOREM ForceHasTargetAlways == Spec => []ForceHasTarget
<1>1. Init => TypeOK /\ ForceHasTarget
  BY QueInit DEF QueInv
<1>2. TypeOK /\ ForceHasTarget /\ [Next]_vars => TypeOK' /\ ForceHasTarget'
  BY TypeNext, ForceNext
<1> QED
  BY <1>1, <1>2, PTL DEF Spec

-----------------------------------------------------------------------------
(* UtilsQue implements BoundedFifo, for any number of tasks, any length and *)
(* any flags, with unblocks and with resets in the middle of calls.         *)

\* The slot of the i-th element from the read index, and the elements.
SlotOf(i) == (curRd + i - 1) % MaxElements
Fifo == [i \in 1 .. count |-> queue[SlotOf(i)]]

\* The write index is where the next element goes; a caller puts a pointer.
RingInv == TypeOK /\ curWr = (curRd + count) % MaxElements
                  /\ \A t \in Tasks : op[t] = "put" => arg[t] \in Data

(* An index goes round at most once.                                        *)
LEMMA Around ==
  ASSUME NEW a \in 0 .. 2 * MaxElements - 1
  PROVE  a % MaxElements = IF a < MaxElements THEN a ELSE a - MaxElements
  BY QueAssumption

(* The slots of the elements are the ones from the read index on, and the   *)
(* write index is the one after them.                                       *)
LEMMA SlotsInUse ==
  ASSUME RingInv
  PROVE  /\ \A i \in 1 .. count : SlotOf(i) \in Slots
         /\ count < MaxElements => \A i \in 1 .. count : SlotOf(i) # curWr
         /\ count < MaxElements => SlotOf(count + 1) = curWr
<1>1. /\ MaxElements \in Nat \ {0} /\ count \in 0 .. MaxElements
      /\ curRd \in 0 .. MaxElements - 1 /\ curWr = (curRd + count) % MaxElements
  BY QueAssumption DEF RingInv, TypeOK, Slots
<1>2. \A i \in 1 .. count :
        SlotOf(i) = IF curRd + i - 1 < MaxElements THEN curRd + i - 1
                                                   ELSE curRd + i - 1 - MaxElements
  BY <1>1, Around DEF SlotOf
<1>3. curWr = IF curRd + count < MaxElements THEN curRd + count
                                             ELSE curRd + count - MaxElements
  BY <1>1, Around
<1>4. \A i \in 1 .. count : SlotOf(i) \in Slots
  BY <1>1, <1>2 DEF Slots
<1>5. ASSUME count < MaxElements, NEW i \in 1 .. count PROVE SlotOf(i) # curWr
  BY <1>1, <1>2, <1>3, <1>5
<1>6. SlotOf(count + 1) = curWr
  <2>1. curRd + (count + 1) - 1 = curRd + count
    BY <1>1
  <2> QED
    BY <1>1, <2>1 DEF SlotOf
<1> QED
  BY <1>4, <1>5, <1>6

(* Moving the read index on by one is moving every element down by one.     *)
LEMMA ReadOn ==
  ASSUME TypeOK, NEW i \in Nat \ {0}, i =< MaxElements
  PROVE  (((curRd + 1) % MaxElements) + i - 1) % MaxElements = (curRd + (i + 1) - 1) % MaxElements
<1>1. MaxElements \in Nat \ {0} /\ curRd \in 0 .. MaxElements - 1
  BY QueAssumption DEF TypeOK, Slots
<1>2. curRd + (i + 1) - 1 \in 0 .. 2 * MaxElements - 1 /\ curRd + 1 \in 0 .. 2 * MaxElements - 1
  BY <1>1
<1>3. (curRd + 1) % MaxElements = IF curRd + 1 < MaxElements THEN curRd + 1 ELSE 0
  BY <1>1, <1>2, Around
<1>4. CASE curRd + 1 < MaxElements
  BY <1>1, <1>3, <1>4
<1>5. CASE curRd + 1 = MaxElements
  <2>1. (curRd + (i + 1) - 1) % MaxElements = i - 1
    <3>1. (curRd + (i + 1) - 1) - MaxElements = i - 1
      BY <1>1, <1>5
    <3> QED
      BY <1>1, <1>2, <1>5, <3>1, Around
  <2>2. (i - 1) % MaxElements = i - 1
    <3>1. i - 1 \in 0 .. 2 * MaxElements - 1 /\ i - 1 < MaxElements
      BY <1>1
    <3> QED
      BY <3>1, Around
  <2>3. ((curRd + 1) % MaxElements) + i - 1 = i - 1
    BY <1>1, <1>3, <1>5
  <2> QED
    BY <2>1, <2>2, <2>3
<1> QED
  BY <1>1, <1>4, <1>5

(* The elements are a sequence as long as count says.                       *)
LEMMA FifoSeq ==
  ASSUME RingInv
  PROVE  Fifo \in Seq(Data \cup {NoData}) /\ Len(Fifo) = count
<1>1. count \in Nat
  BY QueAssumption DEF RingInv, TypeOK
<1>2. Fifo \in [1 .. count -> Data \cup {NoData}]
  BY SlotsInUse DEF Fifo, RingInv, TypeOK
<1>3. Fifo \in Seq(Data \cup {NoData})
  BY <1>1, <1>2, SeqDef
<1>4. DOMAIN Fifo = 1 .. count /\ DOMAIN Fifo = 1 .. Len(Fifo) /\ Len(Fifo) \in Nat
  BY <1>2, <1>3, LenProperties
<1>5. Len(Fifo) = count
  <2>1. ASSUME NEW m \in Nat, NEW n \in Nat, 1 .. m = 1 .. n PROVE m = n
    <3>1. m > n => m \in 1 .. m /\ m \notin 1 .. n
      OBVIOUS
    <3>2. n > m => n \in 1 .. n /\ n \notin 1 .. m
      OBVIOUS
    <3> QED
      BY <2>1, <3>1, <3>2
  <2> QED
    BY <1>1, <1>4, <2>1
<1> QED
  BY <1>3, <1>5

(* The invariant of the ring is inductive.                                  *)
LEMMA RingNext == RingInv /\ [Next]_vars => RingInv'
<1> SUFFICES ASSUME RingInv, [Next]_vars PROVE RingInv'
  OBVIOUS
<1> USE DEF RingInv
<1>1. TypeOK'
  BY TypeNext
<1>2. /\ MaxElements \in Nat \ {0} /\ count \in 0 .. MaxElements
      /\ curRd \in 0 .. MaxElements - 1 /\ curWr \in 0 .. MaxElements - 1
  BY QueAssumption DEF TypeOK, Slots
<1>3. ASSUME UNCHANGED <<curRd, curWr, count, op, arg>> PROVE RingInv'
  BY <1>1, <1>3
<1>4. ASSUME NEW t \in Tasks, CallGet(t) PROVE RingInv'
  BY <1>1, <1>4 DEF CallGet, ring, TypeOK
<1>5. ASSUME NEW t \in Tasks, CallPut(t) PROVE RingInv'
  BY <1>1, <1>5 DEF CallPut, ring, TypeOK
<1>6. ASSUME NEW t \in Tasks, PutElem(t) PROVE RingInv'
  <2>1. /\ curWr' = (curWr + 1) % MaxElements /\ count' = count + 1 /\ curRd' = curRd
        /\ op' = op /\ arg' = arg
    BY <1>6 DEF PutElem, locals
  <2>2. count < MaxElements
    BY <1>6 DEF PutElem, CanGo
  <2>3. (curWr + 1) % MaxElements = (curRd + (count + 1)) % MaxElements
    <3>1. curWr = IF curRd + count < MaxElements THEN curRd + count
                                                 ELSE curRd + count - MaxElements
      BY <1>2, Around
    <3>2. CASE curRd + count < MaxElements
      BY <1>2, <3>1, <3>2
    <3>3. CASE curRd + count >= MaxElements
      <4>1. curWr + 1 = curRd + (count + 1) - MaxElements /\ curWr + 1 < MaxElements
        BY <1>2, <2>2, <3>1, <3>3
      <4>2. curWr + 1 \in 0 .. 2 * MaxElements - 1
            /\ curRd + (count + 1) \in 0 .. 2 * MaxElements - 1
        BY <1>2, <2>2
      <4>3. (curWr + 1) % MaxElements = curWr + 1
        BY <4>1, <4>2, Around
      <4>4. (curRd + (count + 1)) % MaxElements = curRd + (count + 1) - MaxElements
        <5>1. ~ (curRd + (count + 1) < MaxElements)
          BY <1>2, <3>3
        <5> DEFINE a == curRd + (count + 1)
        <5>2. a \in 0 .. 2 * MaxElements - 1 /\ ~ (a < MaxElements)
          BY <4>2, <5>1
        <5> HIDE DEF a
        <5>3. a % MaxElements = a - MaxElements
          BY <5>2, Around
        <5> QED
          BY <1>2, <5>3 DEF a
      <4> QED
        BY <4>1, <4>3, <4>4
    <3> QED
      BY <1>2, <3>2, <3>3
  <2> QED
    BY <1>1, <2>1, <2>3
<1>7. ASSUME NEW t \in Tasks, GetElem(t) PROVE RingInv'
  <2>1. /\ curRd' = (curRd + 1) % MaxElements /\ count' = count - 1 /\ curWr' = curWr
        /\ op' = op /\ arg' = arg
    BY <1>7 DEF GetElem, locals
  <2>2. count > 0
    BY <1>2, <1>7 DEF GetElem, CanGo, TypeOK
  <2>3. ((curRd + 1) % MaxElements) + (count - 1) \in Int
        /\ (((curRd + 1) % MaxElements) + count - 1) % MaxElements
             = (curRd + (count + 1) - 1) % MaxElements
    BY <1>2, <2>2, ReadOn
  <2>4. curRd + (count + 1) - 1 = curRd + count
    BY <1>2
  <2>5. ((curRd + 1) % MaxElements) + count - 1 = curRd' + count'
    <3>1. curRd' \in Int
      BY <1>1 DEF TypeOK, Slots
    <3> QED
      BY <1>2, <2>1, <3>1
  <2> QED
    BY <1>1, <2>1, <2>3, <2>4, <2>5
<1>8. CASE Reset
  <2>1. (0 + 0) % MaxElements = 0
    BY <1>2
  <2> QED
    BY <1>1, <1>8, <2>1 DEF Reset, locals
<1>9. CASE UnBlock
  BY <1>3, <1>9 DEF UnBlock, ring, locals
<1>10. ASSUME NEW t \in Tasks,
              \/ CannotGo(t) \/ Post(t) \/ SetBlocked(t) \/ Pend(t)
              \/ ClearBlocked(t) \/ TestForce(t) \/ GiveUp(t) \/ Expire(t)
       PROVE  RingInv'
  BY <1>3, <1>10 DEF CannotGo, Post, SetBlocked, Pend, ClearBlocked, GiveUp,
                     TestForce, Expire, ring, locals
<1>11. CASE UNCHANGED vars
  BY <1>3, <1>11 DEF vars, ring, locals
<1> QED
  BY <1>4, <1>5, <1>6, <1>7, <1>8, <1>9, <1>10, <1>11 DEF Next, Step

(* A put appends its pointer.                                               *)
LEMMA PutAppends ==
  ASSUME RingInv, RingInv', NEW t \in Tasks, PutElem(t)
  PROVE  /\ Len(Fifo) < MaxElements /\ arg[t] \in Data
         /\ Fifo' = Append(Fifo, arg[t])
<1> USE DEF RingInv
<1>1. /\ queue' = [queue EXCEPT ![curWr] = arg[t]] /\ count' = count + 1
      /\ curRd' = curRd /\ op[t] = "put" /\ count < MaxElements
  BY DEF PutElem, CanGo
<1>2. /\ MaxElements \in Nat \ {0} /\ count \in Nat /\ curWr \in Slots
      /\ queue \in [Slots -> Data \cup {NoData}] /\ arg[t] \in Data
  BY <1>1, QueAssumption DEF TypeOK
<1>3. Fifo \in Seq(Data \cup {NoData}) /\ Len(Fifo) = count
  BY FifoSeq
<1>4. Fifo' = [i \in 1 .. count + 1 |-> queue'[SlotOf(i)]]
  BY <1>1 DEF Fifo, SlotOf
<1>5. Append(Fifo, arg[t]) \in [1 .. count + 1 -> Data \cup {NoData}]
      /\ (\A i \in 1 .. count : Append(Fifo, arg[t])[i] = Fifo[i])
      /\ Append(Fifo, arg[t])[count + 1] = arg[t]
  <2>1. Append(Fifo, arg[t]) \in Seq(Data \cup {NoData})
    BY <1>2, <1>3, AppendProperties
  <2>2. /\ Len(Append(Fifo, arg[t])) = count + 1
        /\ \A i \in 1 .. count : Append(Fifo, arg[t])[i] = Fifo[i]
        /\ Append(Fifo, arg[t])[count + 1] = arg[t]
    <3>1. arg[t] \in Data \cup {NoData}
      BY <1>2
    <3>2. /\ Len(Append(Fifo, arg[t])) = Len(Fifo) + 1
          /\ \A i \in 1 .. Len(Fifo) : Append(Fifo, arg[t])[i] = Fifo[i]
          /\ Append(Fifo, arg[t])[Len(Fifo) + 1] = arg[t]
      BY <1>3, <3>1, AppendProperties
    <3> QED
      BY <1>3, <3>2
  <2>3. Append(Fifo, arg[t]) \in [1 .. Len(Append(Fifo, arg[t])) -> Data \cup {NoData}]
    BY <2>1, LenProperties
  <2> QED
    BY <2>2, <2>3
<1>6. ASSUME NEW i \in 1 .. count + 1
      PROVE  queue'[SlotOf(i)] = Append(Fifo, arg[t])[i]
  <2>1. CASE i \in 1 .. count
    <3>1. SlotOf(i) \in Slots /\ SlotOf(i) # curWr
      BY <1>1, <2>1, SlotsInUse
    <3>2. queue'[SlotOf(i)] = queue[SlotOf(i)]
      BY <1>1, <1>2, <3>1
    <3>3. Fifo[i] = queue[SlotOf(i)]
      BY <2>1 DEF Fifo
    <3> QED
      BY <1>5, <2>1, <3>2, <3>3
  <2>2. CASE i = count + 1
    <3>1. SlotOf(i) = curWr
      BY <1>1, <2>2, SlotsInUse
    <3> QED
      BY <1>1, <1>2, <1>5, <2>2, <3>1
  <2>3. i \in 1 .. count \/ i = count + 1
    BY <1>2
  <2> QED
    BY <2>1, <2>2, <2>3
<1>7. Fifo' = Append(Fifo, arg[t])
  BY <1>4, <1>5, <1>6
<1> QED
  BY <1>1, <1>2, <1>3, <1>7

(* A get takes the oldest element.                                          *)
LEMMA GetTakesHead ==
  ASSUME RingInv, RingInv', NEW t \in Tasks, GetElem(t)
  PROVE  /\ Fifo # <<>> /\ got' = [got EXCEPT ![t] = Head(Fifo)]
         /\ Fifo' = Tail(Fifo)
<1> USE DEF RingInv
<1>1. /\ got' = [got EXCEPT ![t] = queue[curRd]] /\ queue' = queue
      /\ curRd' = (curRd + 1) % MaxElements /\ count' = count - 1
  BY DEF GetElem
<1>2. /\ MaxElements \in Nat \ {0} /\ count \in 1 .. MaxElements
      /\ curRd \in 0 .. MaxElements - 1
  BY QueAssumption DEF GetElem, CanGo, TypeOK, Slots
<1>3. Fifo \in Seq(Data \cup {NoData}) /\ Len(Fifo) = count
  BY FifoSeq
<1>4. Fifo # <<>> /\ Head(Fifo) = queue[curRd]
  <2>1. Fifo # <<>>
    BY <1>2, <1>3, EmptySeq
  <2>2. Head(Fifo) = Fifo[1]
    BY <1>3, <2>1
  <2>3. Fifo[1] = queue[SlotOf(1)]
    BY <1>2 DEF Fifo
  <2>4. SlotOf(1) = curRd
    <3>1. curRd + 1 - 1 = curRd /\ curRd \in 0 .. 2 * MaxElements - 1
      BY <1>2
    <3>2. curRd % MaxElements = curRd
      BY <1>2, <3>1, Around
    <3> QED
      BY <3>1, <3>2 DEF SlotOf
  <2> QED
    BY <2>1, <2>2, <2>3, <2>4
<1>5. Fifo' = [i \in 1 .. count - 1 |-> Fifo[i + 1]]
  <2>1. Fifo' = [i \in 1 .. count - 1 |-> queue[SlotOf(i)']]
    BY <1>1 DEF Fifo
  <2>2. ASSUME NEW i \in 1 .. count - 1 PROVE queue[SlotOf(i)'] = Fifo[i + 1]
    <3>1. SlotOf(i)' = (((curRd + 1) % MaxElements) + i - 1) % MaxElements
      BY <1>1 DEF SlotOf
    <3>2. SlotOf(i)' = SlotOf(i + 1)
      BY <1>2, <3>1, ReadOn DEF SlotOf
    <3>3. Fifo[i + 1] = queue[SlotOf(i + 1)]
      <4>1. i + 1 \in 1 .. count
        BY <1>2
      <4> QED
        BY <4>1 DEF Fifo
    <3> QED
      BY <3>2, <3>3
  <2> QED
    BY <2>1, <2>2
<1>6. /\ Tail(Fifo) \in [1 .. count - 1 -> Data \cup {NoData}]
      /\ \A i \in 1 .. count - 1 : Tail(Fifo)[i] = Fifo[i + 1]
  <2>1. Tail(Fifo) \in Seq(Data \cup {NoData}) /\ Len(Tail(Fifo)) = count - 1
        /\ \A i \in 1 .. Len(Tail(Fifo)) : Tail(Fifo)[i] = Fifo[i + 1]
    BY <1>3, <1>4, HeadTailProperties
  <2> QED
    BY <2>1, LenProperties
<1>7. Fifo' = Tail(Fifo)
  BY <1>5, <1>6
<1> QED
  BY <1>1, <1>4, <1>7

(* Every other step leaves the buffer and the results alone, except a       *)
(* reset, which empties it.                                                 *)
LEMMA RefineFifo == RingInv /\ RingInv' /\ [Next]_vars => [Abs!Next]_(Abs!vars)
<1> SUFFICES ASSUME RingInv, RingInv', [Next]_vars PROVE [Abs!Next]_(Abs!vars)
  OBVIOUS
<1>1. Abs!vars = <<Fifo, got>> /\ Abs!vars' = <<Fifo', got'>>
  BY DEF Abs!vars, Fifo, SlotOf
<1>2. Abs!Next = \/ \E d \in Data : Abs!Put(d)
                 \/ \E t \in Tasks : Abs!Get(t)
                 \/ Abs!Reset
  BY DEF Abs!Next
<1>3. ASSUME NEW t \in Tasks, PutElem(t) PROVE Abs!Next
  <2>1. UNCHANGED got
    BY <1>3 DEF PutElem
  <2>2. PICK d \in Data : d = arg[t]
    BY <1>3, PutAppends
  <2>3. Abs!Put(d)
    BY <1>3, <2>1, <2>2, PutAppends DEF Abs!Put, Fifo, SlotOf
  <2> QED
    BY <1>2, <2>3
<1>4. ASSUME NEW t \in Tasks, GetElem(t) PROVE Abs!Next
  <2>1. Abs!Get(t)
    BY <1>4, GetTakesHead DEF Abs!Get, Fifo, SlotOf
  <2> QED
    BY <1>2, <2>1
<1>5. CASE Reset
  <2>1. UNCHANGED got /\ count' = 0
    BY <1>5 DEF Reset
  <2>2. Fifo' = <<>>
    <3>1. Fifo' = [i \in 1 .. 0 |-> queue'[SlotOf(i)']]
      BY <2>1 DEF Fifo
    <3> QED
      BY <3>1
  <2>3. Abs!Reset
    BY <2>1, <2>2 DEF Abs!Reset, Fifo, SlotOf
  <2> QED
    BY <1>2, <2>3
<1>6. ASSUME UNCHANGED <<ring, got>> PROVE UNCHANGED Abs!vars
  BY <1>1, <1>6 DEF ring, Fifo, SlotOf
<1>7. ASSUME NEW t \in Tasks,
             \/ CallGet(t) \/ CallPut(t) \/ CannotGo(t) \/ Post(t)
             \/ SetBlocked(t) \/ Pend(t) \/ ClearBlocked(t) \/ GiveUp(t)
             \/ TestForce(t) \/ Expire(t)
      PROVE  UNCHANGED <<ring, got>>
  BY <1>7 DEF CallGet, CallPut, CannotGo, Post, SetBlocked, Pend, ClearBlocked,
              GiveUp, TestForce, Expire
<1>8. ASSUME UnBlock \/ UNCHANGED vars PROVE UNCHANGED <<ring, got>>
  BY <1>8 DEF UnBlock, vars
<1> QED
  BY <1>3, <1>4, <1>5, <1>6, <1>7, <1>8 DEF Next, Step

(* The ring is a bounded first-in first-out buffer, whatever tasks are in   *)
(* the middle of, whoever unblocks them, and whenever it is reset.          *)
THEOREM ImplementsBoundedFifo == Spec => IsBoundedFifo
<1>1. Init => RingInv
  <2>1. 0 % MaxElements = 0 /\ 0 + 0 = 0
    BY QueAssumption
  <2> QED
    BY <2>1, TypeInit DEF Init, RingInv
<1>2. Init => Abs!Init
  <2>1. ASSUME Init PROVE Fifo = <<>>
    BY <2>1 DEF Init, Fifo
  <2> QED
    BY <2>1 DEF Init, Abs!Init, Fifo, SlotOf
<1> QED
  BY <1>1, <1>2, RingNext, RefineFifo, PTL DEF Spec, IsBoundedFifo, Abs!Spec

-----------------------------------------------------------------------------
(* Utils_queUnBlock reaches whoever sleeps, as long as one task at most     *)
(* gets and one at most puts and the queue is reset between calls only.     *)

Solo == /\ \A t, u \in Getters : t = u
        /\ \A t, u \in Putters : t = u
        /\ Resets \subseteq {"idle"}

\* Each call is of a task that makes such calls.
CallInv == \A t \in Tasks : pc[t] # "idle" => t \in IF op[t] = "get" THEN Getters ELSE Putters

\* Who waits has raised the flag of its side and found no token.
WaitInv == \A t \in Tasks : /\ pc[t] \in {"pend", "wait"} => blocked[Side(t)]
                            /\ pc[t] = "wait" => sem[Side(t)] = 0

SoloInv == TypeOK /\ CallInv /\ WaitInv

\* One task at most is in a call of a side.
LEMMA OneInCall ==
  ASSUME Solo, SoloInv, NEW t \in Tasks, NEW u \in Tasks, Side(t) = Side(u),
         pc[t] # "idle", pc[u] # "idle"
  PROVE  t = u
<1>1. op[t] = op[u]
  BY DEF Side, SoloInv, TypeOK
<1> QED
  BY <1>1 DEF Solo, SoloInv, CallInv

(* Steps of a task that is in a call, up to the semaphore.                  *)
LEMMA SoloStep ==
  ASSUME Solo, SoloInv, NEW t \in Tasks, CallGet(t) \/ CallPut(t) \/ Step(t) \/ Expire(t)
  PROVE  CallInv' /\ WaitInv'
<1> USE DEF SoloInv, TypeOK, Sides
<1>1. CASE CallGet(t) \/ CallPut(t)
  <2>1. /\ pc[t] = "idle" /\ pc' = [pc EXCEPT ![t] = "try"] /\ blocked' = blocked /\ sem' = sem
        /\ \/ t \in Getters /\ op' = [op EXCEPT ![t] = "get"]
           \/ t \in Putters /\ op' = [op EXCEPT ![t] = "put"]
    BY <1>1 DEF CallGet, CallPut, Goto
  <2>2. \A u \in Tasks : u # t => pc'[u] = pc[u] /\ op'[u] = op[u] /\ Side(u)' = Side(u)
    BY <2>1 DEF Side
  <2>3. pc'[t] = "try" /\ t \in IF op'[t] = "get" THEN Getters ELSE Putters
    BY <2>1
  <2>4. CallInv'
    BY <2>2, <2>3 DEF CallInv
  <2>5. WaitInv'
    BY <2>1, <2>2, <2>3 DEF WaitInv
  <2> QED
    BY <2>4, <2>5
<1>2. CASE PutElem(t) \/ GetElem(t) \/ CannotGo(t) \/ TestForce(t) \/ GiveUp(t) \/ Expire(t)
  <2>1. /\ op' = op /\ sem' = sem /\ blocked' = blocked
        /\ \E p \in {"idle", "post", "block", "try", "forced", "expired"} :
             pc' = [pc EXCEPT ![t] = p]
        /\ pc[t] # "idle"
    BY <1>2 DEF PutElem, GetElem, CannotGo, GiveUp, TestForce, Expire, AfterMove, Goto, locals
  <2>2. PICK p \in {"idle", "post", "block", "try", "forced", "expired"} :
          pc' = [pc EXCEPT ![t] = p]
    BY <2>1
  <2>3. \A u \in Tasks : /\ u # t => pc'[u] = pc[u]
                         /\ Side(u)' = Side(u) /\ op'[u] = op[u]
    BY <2>1, <2>2 DEF Side
  <2>4. pc'[t] = p
    BY <2>2
  <2>5. CallInv'
    BY <2>1, <2>3, <2>4 DEF CallInv
  <2>6. WaitInv'
    BY <2>1, <2>2, <2>3, <2>4 DEF WaitInv
  <2> QED
    BY <2>5, <2>6
<1>3. CASE Post(t)
  <2> DEFINE s == Opposite(Side(t))
  <2>1. s \in Sides /\ PostBy(t, s) /\ op' = op /\ blocked' = blocked /\ pc[t] = "post"
    BY <1>3 DEF Post, Opposite, locals
  <2>2. \A u \in Tasks : Side(u)' = Side(u) /\ op'[u] = op[u]
    BY <2>1 DEF Side
  <2> HIDE DEF s
  <2>3. CASE /\ Waiters(s) = {} /\ sem' = [sem EXCEPT ![s] = @ + 1]
             /\ pc' = [pc EXCEPT ![t] = "idle"]
    <3>1. \A u \in Tasks : u # t => pc'[u] = pc[u]
      BY <2>3
    <3>2. pc'[t] = "idle"
      BY <2>3
    <3>3. ASSUME NEW u \in Tasks, pc'[u] \in {"pend", "wait"}
          PROVE  blocked'[Side(u)] /\ (pc'[u] = "wait" => sem'[Side(u)] = 0)
      <4>1. u # t /\ pc'[u] = pc[u]
        BY <3>1, <3>2, <3>3
      <4>2. blocked[Side(u)] /\ (pc[u] = "wait" => sem[Side(u)] = 0 /\ Side(u) # s)
        BY <2>3, <3>3, <4>1 DEF WaitInv, Waiters, At
      <4> QED
        BY <2>1, <2>3, <4>1, <4>2
    <3>4. CallInv'
      BY <2>2, <3>1, <3>2 DEF CallInv
    <3>5. WaitInv'
      BY <2>2, <3>3 DEF WaitInv
    <3> QED
      BY <3>4, <3>5
  <2>4. ASSUME NEW w \in Waiters(s), sem' = sem,
               pc' = [pc EXCEPT ![t] = "idle", ![w] = "woken"]
        PROVE  CallInv' /\ WaitInv'
    <3>1. w \in Tasks /\ pc[w] = "wait" /\ w # t
      BY <2>1, <2>4 DEF Waiters, At
    <3>2. /\ \A u \in Tasks : u # t /\ u # w => pc'[u] = pc[u]
          /\ pc'[t] = "idle" /\ pc'[w] = "woken"
      BY <2>4, <3>1
    <3>3. CallInv'
      BY <2>2, <3>1, <3>2 DEF CallInv
    <3>4. WaitInv'
      BY <2>1, <2>2, <2>4, <3>2 DEF WaitInv
    <3> QED
      BY <3>3, <3>4
  <2> QED
    BY <2>1, <2>3, <2>4 DEF PostBy, Goto
<1>4. CASE SetBlocked(t)
  <2>1. /\ op' = op /\ sem' = sem /\ pc[t] = "block" /\ pc' = [pc EXCEPT ![t] = "pend"]
        /\ blocked' = [blocked EXCEPT ![Side(t)] = TRUE]
    BY <1>4 DEF SetBlocked, Goto, locals
  <2>2. \A u \in Tasks : Side(u)' = Side(u) /\ op'[u] = op[u] /\ (u # t => pc'[u] = pc[u])
    BY <2>1 DEF Side
  <2>3. pc'[t] = "pend" /\ \A s \in Sides : blocked[s] => blocked'[s]
    BY <2>1
  <2>4. Side(t) \in Sides /\ blocked'[Side(t)]
    BY <2>1 DEF Side
  <2>5. CallInv'
    BY <2>1, <2>2, <2>3 DEF CallInv
  <2>6. WaitInv'
    BY <2>1, <2>2, <2>3, <2>4, SideType DEF WaitInv
  <2> QED
    BY <2>5, <2>6
<1>5. CASE Pend(t)
  <2>1. op' = op /\ blocked' = blocked /\ pc[t] = "pend"
    BY <1>5 DEF Pend, locals
  <2>2. \A u \in Tasks : Side(u)' = Side(u) /\ op'[u] = op[u]
    BY <2>1 DEF Side
  <2>3. CASE sem[Side(t)] > 0
    <3>1. sem' = [sem EXCEPT ![Side(t)] = @ - 1] /\ pc' = [pc EXCEPT ![t] = "woken"]
      BY <1>5, <2>3 DEF Pend, Goto
    <3>2. pc'[t] = "woken" /\ \A u \in Tasks : u # t => pc'[u] = pc[u]
      BY <3>1
    <3>3. ASSUME NEW u \in Tasks, u # t, pc[u] = "wait" PROVE sem'[Side(u)] = 0
      <4>1. Side(u) # Side(t)
        BY <2>1, <3>3, OneInCall
      <4> QED
        BY <3>1, <3>3, <4>1 DEF WaitInv
    <3>4. CallInv'
      BY <2>1, <2>2, <3>2 DEF CallInv
    <3>5. WaitInv'
      BY <2>1, <2>2, <3>2, <3>3 DEF WaitInv
    <3> QED
      BY <3>4, <3>5
  <2>4. CASE ~ (sem[Side(t)] > 0)
    <3>1. sem' = sem /\ pc' = [pc EXCEPT ![t] = "wait"] /\ sem[Side(t)] = 0
      BY <1>5, <2>4 DEF Pend, Goto
    <3>2. pc'[t] = "wait" /\ \A u \in Tasks : u # t => pc'[u] = pc[u]
      BY <3>1
    <3>3. CallInv'
      BY <2>1, <2>2, <3>2 DEF CallInv
    <3>4. WaitInv'
      BY <2>1, <2>2, <3>1, <3>2 DEF WaitInv
    <3> QED
      BY <3>3, <3>4
  <2> QED
    BY <2>3, <2>4
<1>6. CASE ClearBlocked(t)
  <2>1. /\ op' = op /\ sem' = sem /\ pc[t] \in {"woken", "expired"}
        /\ blocked' = [blocked EXCEPT ![Side(t)] = FALSE]
        /\ \E p \in {"check", "fail"} : pc' = [pc EXCEPT ![t] = p]
    BY <1>6 DEF ClearBlocked, Goto, locals
  <2>2. PICK p \in {"check", "fail"} : pc' = [pc EXCEPT ![t] = p]
    BY <2>1
  <2>3. \A u \in Tasks : Side(u)' = Side(u) /\ op'[u] = op[u] /\ (u # t => pc'[u] = pc[u])
    BY <2>1, <2>2 DEF Side
  <2>4. pc'[t] = p
    BY <2>2
  <2>5. ASSUME NEW u \in Tasks, pc'[u] \in {"pend", "wait"}
        PROVE  blocked'[Side(u)] /\ (pc'[u] = "wait" => sem'[Side(u)] = 0)
    <3>1. u # t /\ pc'[u] = pc[u]
      BY <2>3, <2>4, <2>5
    <3>2. Side(u) # Side(t)
      BY <2>1, <2>5, <3>1, OneInCall
    <3>3. blocked[Side(u)] /\ (pc[u] = "wait" => sem[Side(u)] = 0)
      BY <2>5, <3>1 DEF WaitInv
    <3> QED
      BY <2>1, <3>1, <3>2, <3>3, SideType
  <2>6. CallInv'
    BY <2>1, <2>3, <2>4 DEF CallInv
  <2>7. WaitInv'
    BY <2>3, <2>5 DEF WaitInv
  <2> QED
    BY <2>6, <2>7
<1> QED
  BY <1>1, <1>2, <1>3, <1>4, <1>5, <1>6 DEF Step

LEMMA SoloNext ==
  ASSUME Solo, SoloInv, [Next]_vars PROVE SoloInv'
<1>1. TypeOK'
  BY TypeNext DEF SoloInv
<1>2. ASSUME NEW t \in Tasks, CallGet(t) \/ CallPut(t) \/ Step(t) \/ Expire(t)
      PROVE  CallInv' /\ WaitInv'
  BY <1>2, SoloStep
<1>3. CASE UnBlock
  <2>1. /\ op' = op /\ blocked' = blocked
        /\ sem' = [s \in Sides |-> IF s \in Forced /\ Waiters(s) = {} THEN 1 ELSE sem[s]]
    BY <1>3 DEF UnBlock, locals
  <2>2. PICK W \in SUBSET Tasks :
          /\ W \subseteq UNION {Waiters(s) : s \in Forced}
          /\ pc' = [t \in Tasks |-> IF t \in W THEN "woken" ELSE pc[t]]
    BY <1>3 DEF UnBlock
  <2>3. \A u \in Tasks : Side(u)' = Side(u) /\ op'[u] = op[u]
    BY <2>1 DEF Side
  <2>4. \A u \in Tasks : u \in W => pc[u] = "wait"
    BY <2>2 DEF Waiters, At
  <2>5. \A u \in Tasks : pc'[u] = pc[u] \/ (pc'[u] = "woken" /\ pc[u] = "wait")
    BY <2>2, <2>4
  <2>6. CallInv'
    BY <2>3, <2>5 DEF SoloInv, CallInv
  <2>7. ASSUME NEW u \in Tasks, pc'[u] = "wait" PROVE sem'[Side(u)] = 0
    <3>1. pc[u] = "wait" /\ u \in Waiters(Side(u))
      BY <2>5, <2>7 DEF Waiters, At
    <3> QED
      BY <2>1, <3>1, SideType DEF SoloInv, WaitInv
  <2>8. WaitInv'
    BY <2>1, <2>3, <2>5, <2>7 DEF SoloInv, WaitInv
  <2> QED
    BY <1>1, <2>6, <2>8 DEF SoloInv
<1>4. CASE Reset
  <2>1. /\ op' = op /\ sem' = sem /\ pc' = pc /\ \A t \in Tasks : pc[t] = "idle"
    BY <1>4 DEF Reset, Moment, Solo, locals
  <2> QED
    BY <1>1, <2>1 DEF SoloInv, CallInv, WaitInv, Side
<1>5. CASE UNCHANGED vars
  <2>1. op' = op /\ sem' = sem /\ pc' = pc /\ blocked' = blocked
    BY <1>5 DEF vars, locals
  <2> QED
    BY <1>1, <2>1 DEF SoloInv, CallInv, WaitInv, Side
<1> QED
  BY <1>1, <1>2, <1>3, <1>4, <1>5 DEF Next, SoloInv

(* "If any entity was waiting on queue get/queue put it will get unblocked" *)
(* (utils_que.h:186): Utils_queUnBlock sees every task that sleeps, with    *)
(* one getter and one putter.  With two the first to wake takes the flag    *)
(* down under the other.                                                    *)
THEOREM UnBlockAlwaysSees ==
  ASSUME Solo PROVE Spec => []UnBlockSeesWaiters
<1>1. Init => SoloInv
  BY TypeInit DEF Init, SoloInv, CallInv, WaitInv
<1>2. SoloInv /\ [Next]_vars => SoloInv'
  BY SoloNext
<1>3. SoloInv => UnBlockSeesWaiters
  BY DEF SoloInv, WaitInv, UnBlockSeesWaiters, Waiters, At
<1> QED
  BY <1>1, <1>2, <1>3, PTL DEF Spec

=============================================================================
