------------------------------ MODULE UtilsQue ------------------------------
(* src_bios6/utils/src/utils_que.c: the bounded queue every link, mailbox   *)
(* and buffer pool of the M3 and DSP firmware is built on.  A ring of       *)
(* pointers is changed with interrupts off (Hwi_disable .. Hwi_restore);    *)
(* the counting semaphores that block callers, and the blockedOn*,          *)
(* forceUnblock* flags, are touched outside those sections, so tasks        *)
(* interleave between any two of the steps below.                           *)
(*                                                                          *)
(* The two ends are symmetric.  Side "rd" is what Utils_queGet blocks on    *)
(* (semRd, blockedOnGet, forceUnblockGet), side "wr" what Utils_quePut      *)
(* blocks on (semWr, blockedOnPut, forceUnblockPut).                        *)
EXTENDS Naturals, FiniteSets

CONSTANTS
  Tasks,        \* tasks that share the queue
  Getters,      \* those that call Utils_queGet
  Putters,      \* those that call Utils_quePut
  Data,         \* pointers put in the queue
  NoData,       \* what an unwritten slot or result holds
  MaxElements,  \* handle->maxElements
  BlockGet,     \* flags & UTILS_QUE_FLAG_BLOCK_QUE_GET
  BlockPut,     \* flags & UTILS_QUE_FLAG_BLOCK_QUE_PUT
  MinCounts,    \* the minCount arguments callers pass
  Timeouts,     \* the timeout arguments callers pass
  UnBlocks,     \* TRUE: someone calls Utils_queUnBlock
  Resets,       \* when someone calls Utils_queReset: "idle" if no task is
                \* in a call of the queue, "busy" if one is
  MaxCalls      \* bound: calls of queGet and quePut in a behaviour

ASSUME QueAssumption ==
  /\ IsFiniteSet(Tasks)
  /\ Getters \subseteq Tasks /\ Putters \subseteq Tasks
  /\ NoData \notin Data
  /\ MaxElements \in Nat \ {0}
  /\ BlockGet \in BOOLEAN /\ BlockPut \in BOOLEAN
  /\ UnBlocks \in BOOLEAN /\ Resets \subseteq {"idle", "busy"}
  /\ MinCounts \subseteq Nat
  /\ Timeouts \subseteq {"NO_WAIT", "FINITE", "FOREVER"}
  /\ MaxCalls \in Nat

Sides == {"rd", "wr"}

VARIABLES
  queue, curRd, curWr, count,   \* the ring of Utils_QueHandle
  sem,       \* sem[s]: count of semRd, semWr
  blocked,   \* blocked[s]: blockedOnGet, blockedOnPut
  force,     \* force[s]: forceUnblockGet, forceUnblockPut
  pc,        \* pc[t]: where task t is inside its call
  op,        \* op[t]: "get" or "put", the call it makes
  arg,       \* arg[t]: the pointer it puts
  minCount,  \* minCount[t]: after the clamp of Utils_queGet
  timeout,   \* timeout[t]: its timeout argument
  got,       \* got[t]: *data of its last successful get
  calls      \* calls made so far, for the bound only

ring == <<queue, curRd, curWr, count>>
locals == <<op, arg, minCount, timeout>>
vars == <<ring, sem, blocked, force, pc, locals, got, calls>>

Slots == 0 .. MaxElements - 1

\* Program points of a call.  "wait" is a task on a semaphore's pend list,
\* "woken" one whose Semaphore_pend returned TRUE, "expired" FALSE.
Points == {"idle", "try", "post", "block", "pend", "wait",
           "woken", "expired", "check", "forced", "fail"}

Side(t) == IF op[t] = "get" THEN "rd" ELSE "wr"
Opposite(s) == IF s = "rd" THEN "wr" ELSE "rd"
Blocking(s) == IF s = "rd" THEN BlockGet ELSE BlockPut

At(p, s) == {t \in Tasks : pc[t] = p /\ Side(t) = s}
Waiters(s) == At("wait", s)

-----------------------------------------------------------------------------
(* Utils_queCreate: the handle is zeroed, both semaphores start at 0.       *)

Init ==
  /\ queue = [i \in Slots |-> NoData]
  /\ curRd = 0 /\ curWr = 0 /\ count = 0
  /\ sem = [s \in Sides |-> 0]
  /\ blocked = [s \in Sides |-> FALSE]
  /\ force = [s \in Sides |-> FALSE]
  /\ pc = [t \in Tasks |-> "idle"]
  /\ op = [t \in Tasks |-> "get"]
  /\ arg = [t \in Tasks |-> NoData]
  /\ minCount = [t \in Tasks |-> 1]
  /\ timeout = [t \in Tasks |-> "NO_WAIT"]
  /\ got = [t \in Tasks |-> NoData]
  /\ calls = 0

Goto(t, p) == pc' = [pc EXCEPT ![t] = p]

(* minCount is forced between 1 and maxElements on entry.                   *)
Clamp(m) == CASE m = 0 -> 1
              [] m > MaxElements -> MaxElements
              [] OTHER -> m

CallGet(t) ==
  /\ t \in Getters /\ pc[t] = "idle" /\ calls < MaxCalls
  /\ \E m \in MinCounts, w \in Timeouts :
       /\ minCount' = [minCount EXCEPT ![t] = Clamp(m)]
       /\ timeout' = [timeout EXCEPT ![t] = w]
  /\ op' = [op EXCEPT ![t] = "get"]
  /\ arg' = [arg EXCEPT ![t] = NoData]
  /\ calls' = calls + 1
  /\ Goto(t, "try")
  /\ UNCHANGED <<ring, sem, blocked, force, got>>

CallPut(t) ==
  /\ t \in Putters /\ pc[t] = "idle" /\ calls < MaxCalls
  /\ \E d \in Data, w \in Timeouts :
       /\ arg' = [arg EXCEPT ![t] = d]
       /\ timeout' = [timeout EXCEPT ![t] = w]
  /\ op' = [op EXCEPT ![t] = "put"]
  /\ minCount' = [minCount EXCEPT ![t] = 1]
  /\ calls' = calls + 1
  /\ Goto(t, "try")
  /\ UNCHANGED <<ring, sem, blocked, force, got>>

-----------------------------------------------------------------------------
(* The loop body with interrupts disabled.                                  *)

\* Mutant: lets a put in when the ring is already full.
CanGoOneTooMany(t) == IF op[t] = "get" THEN count >= minCount[t]
                                       ELSE count =< MaxElements

CanGo(t) == IF op[t] = "get" THEN count >= minCount[t]
                             ELSE count < MaxElements

\* Mutant: posts only when the queue stops being empty (or full).
AfterMoveEdgeOnly(t) ==
  LET avail == IF op[t] = "put" THEN count ELSE MaxElements - count
  IN  IF Blocking(Opposite(Side(t))) /\ avail = 0 THEN "post" ELSE "idle"

(* After moving an element the opposite semaphore is posted, outside the    *)
(* critical section, if the queue blocks on that side.                      *)
AfterMove(t) == IF Blocking(Opposite(Side(t))) THEN "post" ELSE "idle"

PutElem(t) ==
  /\ pc[t] = "try" /\ op[t] = "put" /\ CanGo(t)
  /\ queue' = [queue EXCEPT ![curWr] = arg[t]]
  /\ curWr' = (curWr + 1) % MaxElements
  /\ count' = count + 1
  /\ Goto(t, AfterMove(t))
  /\ UNCHANGED <<curRd, sem, blocked, force, locals, got, calls>>

GetElem(t) ==
  /\ pc[t] = "try" /\ op[t] = "get" /\ CanGo(t)
  /\ got' = [got EXCEPT ![t] = queue[curRd]]
  /\ curRd' = (curRd + 1) % MaxElements
  /\ count' = count - 1
  /\ Goto(t, AfterMove(t))
  /\ UNCHANGED <<queue, curWr, sem, blocked, force, locals, calls>>

(* No room or too few elements: return the error, or go and block.          *)
CannotGo(t) ==
  /\ pc[t] = "try" /\ ~CanGo(t)
  /\ Goto(t, IF timeout[t] = "NO_WAIT" \/ ~Blocking(Side(t))
             THEN "idle" ELSE "block")
  /\ UNCHANGED <<ring, sem, blocked, force, locals, got, calls>>

-----------------------------------------------------------------------------
(* The SYS/BIOS semaphore (external).  A post hands the token to a task on  *)
(* the pend list if there is one, and counts it otherwise; the order of     *)
(* the pend list is left open.                                              *)

PostBy(t, s) ==
  \/ /\ Waiters(s) = {}
     /\ sem' = [sem EXCEPT ![s] = @ + 1]
     /\ Goto(t, "idle")
  \/ \E w \in Waiters(s) :
       /\ pc' = [pc EXCEPT ![t] = "idle", ![w] = "woken"]
       /\ UNCHANGED sem

\* Mutant: posts the semaphore of its own side.
PostOwnSide(t) ==
  /\ pc[t] = "post"
  /\ PostBy(t, Side(t))
  /\ UNCHANGED <<ring, blocked, force, locals, got, calls>>

Post(t) ==
  /\ pc[t] = "post"
  /\ PostBy(t, Opposite(Side(t)))
  /\ UNCHANGED <<ring, blocked, force, locals, got, calls>>

\* Mutant: the flag UnBlock looks at is not raised.
SetBlockedNot(t) ==
  /\ pc[t] = "block"
  /\ Goto(t, "pend")
  /\ UNCHANGED <<ring, sem, blocked, force, locals, got, calls>>

SetBlocked(t) ==
  /\ pc[t] = "block"
  /\ blocked' = [blocked EXCEPT ![Side(t)] = TRUE]
  /\ Goto(t, "pend")
  /\ UNCHANGED <<ring, sem, force, locals, got, calls>>

Pend(t) ==
  /\ pc[t] = "pend"
  /\ \/ /\ sem[Side(t)] > 0
        /\ sem' = [sem EXCEPT ![Side(t)] = @ - 1]
        /\ Goto(t, "woken")
     \/ /\ sem[Side(t)] = 0
        /\ Goto(t, "wait")
        /\ UNCHANGED sem
  /\ UNCHANGED <<ring, blocked, force, locals, got, calls>>

Expire(t) ==
  /\ pc[t] = "wait" /\ timeout[t] = "FINITE"
  /\ Goto(t, "expired")
  /\ UNCHANGED <<ring, sem, blocked, force, locals, got, calls>>

ClearBlocked(t) ==
  /\ pc[t] \in {"woken", "expired"}
  /\ blocked' = [blocked EXCEPT ![Side(t)] = FALSE]
  /\ Goto(t, IF pc[t] = "woken" THEN "check" ELSE "fail")
  /\ UNCHANGED <<ring, sem, force, locals, got, calls>>

(* A woken task tests the force flag, with interrupts on: forced, it will   *)
(* give up; otherwise it goes round the loop.                               *)
TestForce(t) ==
  /\ pc[t] = "check"
  /\ Goto(t, IF force[Side(t)] THEN "forced" ELSE "try")
  /\ UNCHANGED <<ring, sem, blocked, force, locals, got, calls>>

\* Mutant: the force flag is left set.
GiveUpKeepForce(t) ==
  /\ pc[t] \in {"fail", "forced"}
  /\ Goto(t, "idle")
  /\ UNCHANGED <<ring, sem, blocked, force, locals, got, calls>>

(* Timed out or forced: clear the force flag and return the error.  Another *)
(* task may have read the flag, or Utils_queUnBlock raised it again, since  *)
(* the test.                                                                *)
GiveUp(t) ==
  /\ pc[t] \in {"fail", "forced"}
  /\ force' = [force EXCEPT ![Side(t)] = FALSE]
  /\ Goto(t, "idle")
  /\ UNCHANGED <<ring, sem, blocked, locals, got, calls>>

-----------------------------------------------------------------------------
(* Utils_queUnBlock: one atomic step (interrupts and scheduler off) over    *)
(* both sides: a side is forced when its semaphore has no token and its     *)
(* flag says somebody is blocked.                                           *)

\* Mutant: forces a side nobody is blocked on.
ForcedAnyone == {s \in Sides : Blocking(s) /\ sem[s] = 0}

Forced == {s \in Sides : Blocking(s) /\ sem[s] = 0 /\ blocked[s]}

UnBlock ==
  /\ UnBlocks
  /\ force' = [s \in Sides |-> s \in Forced \/ force[s]]
  /\ sem' = [s \in Sides |->
               IF s \in Forced /\ Waiters(s) = {} THEN 1 ELSE sem[s]]
  /\ \E woken \in SUBSET Tasks :
       /\ woken \subseteq UNION {Waiters(s) : s \in Forced}
       /\ \A s \in Forced : Waiters(s) # {} =>
            \E w \in Waiters(s) : woken \cap Waiters(s) = {w}
       /\ pc' = [t \in Tasks |-> IF t \in woken THEN "woken" ELSE pc[t]]
  /\ UNCHANGED <<ring, blocked, locals, got, calls>>

Moment == IF \A t \in Tasks : pc[t] = "idle" THEN "idle" ELSE "busy"

\* Mutant: the write index keeps its place.
ResetKeepWr ==
  /\ Moment \in Resets
  /\ curRd' = 0 /\ count' = 0
  /\ blocked' = [s \in Sides |-> FALSE]
  /\ force' = [s \in Sides |-> FALSE]
  /\ UNCHANGED <<queue, curWr, sem, pc, locals, got, calls>>

(* Utils_queReset empties the ring and clears the flags; the semaphores     *)
(* keep their tokens and their waiters, the slots their content.            *)
Reset ==
  /\ Moment \in Resets
  /\ curRd' = 0 /\ curWr' = 0 /\ count' = 0
  /\ blocked' = [s \in Sides |-> FALSE]
  /\ force' = [s \in Sides |-> FALSE]
  /\ UNCHANGED <<queue, sem, pc, locals, got, calls>>

Step(t) == \/ PutElem(t) \/ GetElem(t) \/ CannotGo(t) \/ Post(t)
           \/ SetBlocked(t) \/ Pend(t) \/ ClearBlocked(t)
           \/ TestForce(t) \/ GiveUp(t)

Next == \/ \E t \in Tasks : CallGet(t) \/ CallPut(t) \/ Step(t) \/ Expire(t)
        \/ UnBlock
        \/ Reset

Spec == Init /\ [][Next]_vars

(* The scheduler eventually runs every ready task; nobody is obliged to     *)
(* make a call, and a finite timeout need not elapse before something else. *)
FairSpec == Spec /\ \A t \in Tasks : WF_vars(Step(t))

-----------------------------------------------------------------------------
(* Correctness.                                                             *)

TypeOK ==
  /\ queue \in [Slots -> Data \cup {NoData}]
  /\ curRd \in Slots /\ curWr \in Slots /\ count \in 0 .. MaxElements
  /\ sem \in [Sides -> Nat]
  /\ blocked \in [Sides -> BOOLEAN] /\ force \in [Sides -> BOOLEAN]
  /\ pc \in [Tasks -> Points]
  /\ op \in [Tasks -> {"get", "put"}]
  /\ arg \in [Tasks -> Data \cup {NoData}]
  /\ minCount \in [Tasks -> 1 .. MaxElements]
  /\ timeout \in [Tasks -> {"NO_WAIT", "FINITE", "FOREVER"}]
  /\ got \in [Tasks -> Data \cup {NoData}]
  /\ calls \in Nat

Avail(s) == IF s = "rd" THEN count ELSE MaxElements - count

\* Tasks that have seen the queue empty (full) and are not yet woken.
Parked(s) == {t \in Tasks : pc[t] \in {"block", "pend", "wait"} /\ Side(t) = s}

\* Tasks that will still look at the queue from side s, or post s.
Movers(s) == {t \in Tasks :
                \/ pc[t] \in {"try", "woken", "check"} /\ Side(t) = s
                \/ pc[t] = "post" /\ Side(t) # s}

\* A forced unblock whose wake-up nobody has consumed yet.
Debt(s) == IF force[s] /\ At("forced", s) = {} THEN 1 ELSE 0

(* A task on a pend list never sleeps through an element (or a free slot):  *)
(* if there is one, some other task is about to post the semaphore or to    *)
(* look at the queue.  The hand-over between the count, changed with        *)
(* interrupts off, and the semaphore, posted after interrupts are back on.  *)
(* It holds for any number of tasks on a queue nobody forces, and for two   *)
(* getters and two putters on one that is forced: of three, two may read    *)
(* one force flag before either clears it, and the third sleeps on.         *)
NoLostWakeup ==
  \A t \in Tasks : pc[t] = "wait" /\ CanGo(t) => Movers(Side(t)) # {}

(* The count behind it: as long as someone is parked, every available       *)
(* element, and a pending forced unblock, has a token or a mover.           *)
TokensCover ==
  \A s \in Sides : Parked(s) # {} =>
    Avail(s) + Debt(s) =< sem[s] + Cardinality(Movers(s))

(* A forceUnblock flag lives no longer than the wake-up it was set for:     *)
(* otherwise a later, unrelated blocking call would fail.                   *)
ForceHasTarget ==
  \A s \in Sides : force[s] =>
    \/ sem[s] > 0 \/ At("woken", s) # {}
    \/ At("check", s) # {} \/ At("forced", s) # {}

(* utils_que.h:186 on Utils_queUnBlock: "If any entity was waiting on queue *)
(* get/queue put it will get unblocked": whoever sleeps is seen by it.      *)
UnBlockSeesWaiters ==
  \A s \in Sides : Waiters(s) # {} => blocked[s] /\ sem[s] = 0

(* The ring, read from curRd, is a bounded FIFO: nothing is lost,           *)
(* duplicated or reordered by any interleaving of calls and resets.         *)
Abs == INSTANCE BoundedFifo WITH
         fifo <- [i \in 1 .. count |-> queue[(curRd + i - 1) % MaxElements]]
IsBoundedFifo == Abs!Spec

(* A sleeping task is woken once it could proceed, unless others empty      *)
(* (fill) the queue first.                                                  *)
SleeperServed ==
  \A t \in Tasks : \A s \in Sides :
    (t \in Waiters(s) /\ CanGo(t)) ~> (t \notin Waiters(s) \/ ~CanGo(t))

(* A forced unblock reaches a caller, which returns its error.              *)
ForceConsumed == \A s \in Sides : force[s] ~> ~force[s]
=============================================================================
