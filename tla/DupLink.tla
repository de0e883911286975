------------------------------ MODULE DupLink ------------------------------
(* links_common/dup: every input frame is duplicated to each output queue;  *)
(* the duplicates share the frame's memory, and a reference count in the    *)
(* original says when it may go back to the previous link.  The link's own  *)
(* task duplicates (DupLink_drvProcessFrames) without taking the lock that  *)
(* the tasks of the next links hold in DupLink_getFullFrames and            *)
(* DupLink_putEmptyFrames.                                                  *)
(*                                                                          *)
(* A duplicate is represented by the frame it points to (pDupOrgFrame), an  *)
(* empty one by being counted; its picture and channel data are left out.   *)
EXTENDS Naturals, Sequences, FiniteSets, Functions

CONSTANTS
  Frames,      \* frames of the previous link
  NumOutQue,   \* createArgs.numOutQue
  PoolSize,    \* DUP_LINK_MAX_FRAMES_PER_OUT_QUE
  MaxList,     \* FVID2_MAX_FVID_FRAME_PTR
  MaxNews,     \* room for notifications in a next link's mailbox
  Flushing,    \* outputs whose next link flushes NEW_DATA before it fetches
  None

Outs == 0 .. NumOutQue - 1

ASSUME DupAssumption ==
  /\ NumOutQue \in Nat \ {0} /\ PoolSize \in Nat /\ MaxList \in Nat \ {0}
  /\ MaxNews \in Nat \ {0} /\ Flushing \subseteq Outs
  /\ IsFiniteSet(Frames)
  /\ None \notin Outs

VARIABLES
  up,         \* frames the previous link owns
  dupCount,   \* pOrgFrameInfo->dupCount
  empty,      \* empty[o]: length of outFrameQue[o].emptyQue
  full,       \* full[o]: outFrameQue[o].fullQue
  inList,     \* inFrameList
  outList,    \* outFrameList[o]
  tpc, frameId, outId,      \* the link task: point and loop indices
  lock,       \* the next link that holds pObj->lock
  news,       \* news[o]: SYSTEM_CMD_NEW_DATA messages next link o has to read
  held,       \* held[o]: duplicates next link o works on
  npc, back, freeList       \* next link o: point, list it gives back,
                            \* its freeFrameList

task == <<inList, outList, tpc, frameId, outId>>
next == <<held, npc, back, freeList>>
vars == <<up, dupCount, empty, full, task, lock, news, next>>

Init ==
  /\ up = Frames
  /\ dupCount = [f \in Frames |-> 0]
  /\ empty = [o \in Outs |-> PoolSize]
  /\ full = [o \in Outs |-> <<>>]
  /\ inList = <<>> /\ outList = [o \in Outs |-> <<>>]
  /\ tpc = "recv" /\ frameId = 1 /\ outId = 0
  /\ lock = None
  /\ news = [o \in Outs |-> 0]
  /\ held = [o \in Outs |-> {}]
  /\ npc = [o \in Outs |-> "idle"]
  /\ back = [o \in Outs |-> {}]
  /\ freeList = [o \in Outs |-> {}]

-----------------------------------------------------------------------------
(* The link task: DupLink_drvProcessFrames on SYSTEM_CMD_NEW_DATA.          *)

\* The frames a previous link hands over at a time, in some order.
Lists(F) == UNION {Injection(1 .. n, F) : n \in 1 .. MaxList}

GetFull ==
  /\ tpc = "recv"
  /\ \E l \in Lists(up) : inList' = l /\ up' = up \ Range(l)
  /\ outList' = [o \in Outs |-> <<>>]
  /\ tpc' = "dup" /\ frameId' = 1 /\ outId' = 0
  /\ UNCHANGED <<dupCount, empty, full, lock, news, next>>

\* Mutant: the count is set for one output less.
SetCountShort(f) == IF outId = 0 THEN [dupCount EXCEPT ![f] = NumOutQue - 1]
                                 ELSE dupCount

(* The original's count is set before its first duplicate is made.          *)
SetCount(f) == IF outId = 0 THEN [dupCount EXCEPT ![f] = NumOutQue]
                            ELSE dupCount

(* One duplicate: an empty frame of the output is pointed to the original.  *)
(* Without one the assertion on Utils_bufGetEmptyFrame stops the task.      *)
Dup ==
  /\ tpc = "dup"
  /\ LET f == inList[frameId]
     IN  /\ dupCount' = SetCount(f)
         /\ IF empty[outId] = 0
            THEN /\ tpc' = "assert"
                 /\ UNCHANGED <<empty, outList, frameId, outId>>
            ELSE /\ empty' = [empty EXCEPT ![outId] = @ - 1]
                 /\ outList' = [outList EXCEPT ![outId] = Append(@, f)]
                 /\ outId' = (outId + 1) % NumOutQue
                 /\ frameId' = IF outId' = 0 THEN frameId + 1 ELSE frameId
                 /\ tpc' = IF frameId' > Len(inList) THEN "put" ELSE "dup"
  /\ UNCHANGED <<up, full, inList, lock, news, next>>

PutFull ==
  /\ tpc = "put"
  /\ full' = [full EXCEPT ![outId] = @ \o outList[outId]]
  /\ outList' = [outList EXCEPT ![outId] = <<>>]
  /\ tpc' = "notify"
  /\ UNCHANGED <<up, dupCount, empty, inList, frameId, outId, lock, news, next>>

(* The result of System_sendLinkCmd is not looked at: when there is no room *)
(* the notification is lost.                                                *)
Notify ==
  /\ tpc = "notify"
  /\ news' = [news EXCEPT ![outId] = IF @ < MaxNews THEN @ + 1 ELSE @]
  /\ outId' = (outId + 1) % NumOutQue
  /\ tpc' = IF outId' = 0 THEN "recv" ELSE "put"
  /\ UNCHANGED <<up, dupCount, empty, full, inList, outList, frameId, lock, next>>

-----------------------------------------------------------------------------
(* The next links.                                                          *)

(* DupLink_getFullFrames, called by next link o on SYSTEM_CMD_NEW_DATA: one *)
(* list's worth of its full queue, under the lock.                          *)
Fetch(o) ==
  /\ npc[o] = "idle" /\ news[o] > 0 /\ lock = None
  /\ LET n == IF Len(full[o]) > MaxList THEN MaxList ELSE Len(full[o])
     IN  /\ held' = [held EXCEPT ![o] = @ \cup Range(SubSeq(full[o], 1, n))]
         /\ full' = [full EXCEPT ![o] = SubSeq(@, n + 1, Len(@))]
  /\ news' = [news EXCEPT ![o] = IF o \in Flushing THEN 0 ELSE @ - 1]
  /\ UNCHANGED <<up, dupCount, empty, task, lock, npc, back, freeList>>

\* Mutant: every returned duplicate sends the original home.
ToFreeAny(F, count) == F

\* Mutant: the list of freed originals holds only the last of them.
ToFreeLast(F, count) ==
  LET zero == {f \in F : count[f] = 0}
  IN  IF zero = {} THEN {} ELSE {CHOOSE f \in zero : TRUE}

(* Originals whose count has come down to zero.                             *)
ToFree(F, count) == {f \in F : count[f] = 0}

(* DupLink_putEmptyFrames: take the lock, count down, ...                   *)
CountDown(o) ==
  /\ npc[o] = "idle" /\ lock = None
  /\ \E F \in (SUBSET held[o]) \ {{}} :
       /\ back' = [back EXCEPT ![o] = F]
       /\ held' = [held EXCEPT ![o] = @ \ F]
       /\ dupCount' = [f \in Frames |-> IF f \in F THEN dupCount[f] - 1
                                                   ELSE dupCount[f]]
       /\ freeList' = [freeList EXCEPT ![o] = ToFree(F, dupCount')]
  /\ lock' = o
  /\ npc' = [npc EXCEPT ![o] = "putup"]
  /\ UNCHANGED <<up, empty, full, task, news>>

(* ... give the originals that are free to the previous link, ...           *)
PutUp(o) ==
  /\ npc[o] = "putup"
  /\ up' = up \cup freeList[o]
  /\ freeList' = [freeList EXCEPT ![o] = {}]
  /\ npc' = [npc EXCEPT ![o] = "putempty"]
  /\ UNCHANGED <<dupCount, empty, full, task, lock, news, held, back>>

\* Mutant: the duplicates of freed originals do not return to the pool.
PutEmptyLeak(o) ==
  /\ npc[o] = "putempty"
  /\ empty' = [empty EXCEPT ![o] = @ + Cardinality(back[o] \ up)]
  /\ back' = [back EXCEPT ![o] = {}]
  /\ lock' = None
  /\ npc' = [npc EXCEPT ![o] = "idle"]
  /\ UNCHANGED <<up, dupCount, full, task, news, held, freeList>>

(* ... and only then the duplicates to their pool; release the lock.        *)
PutEmpty(o) ==
  /\ npc[o] = "putempty"
  /\ empty' = [empty EXCEPT ![o] = @ + Cardinality(back[o])]
  /\ back' = [back EXCEPT ![o] = {}]
  /\ lock' = None
  /\ npc' = [npc EXCEPT ![o] = "idle"]
  /\ UNCHANGED <<up, dupCount, full, task, news, held, freeList>>

TaskStep == Dup \/ PutFull \/ Notify
Release(o) == PutUp(o) \/ PutEmpty(o)

Next == \/ GetFull \/ TaskStep
        \/ \E o \in Outs : Fetch(o) \/ CountDown(o) \/ Release(o)

Spec == Init /\ [][Next]_vars

(* Tasks that can run do; a next link fetches what it is notified of and    *)
(* finishes with every frame it holds; SF because the lock may be busy when *)
(* it tries, and a semaphore's waiters are served in turn.  The previous    *)
(* link sends on the frames it owns: frames beyond MaxList that a flushing  *)
(* link leaves in its queue wait for the next notification.                 *)
FinishWith(o, f) == CountDown(o) /\ f \in back'[o]

FairSpec ==
  /\ Spec
  /\ WF_vars(GetFull) /\ WF_vars(TaskStep)
  /\ \A o \in Outs : /\ WF_vars(Release(o)) /\ SF_vars(Fetch(o))
                     /\ \A f \in Frames : SF_vars(FinishWith(o, f))

-----------------------------------------------------------------------------
(* Correctness.                                                             *)

TypeOK ==
  /\ up \subseteq Frames
  /\ dupCount \in [Frames -> 0 .. NumOutQue]
  /\ empty \in [Outs -> 0 .. PoolSize]
  /\ full \in [Outs -> Seq(Frames)]
  /\ inList \in Seq(Frames) /\ outList \in [Outs -> Seq(Frames)]
  /\ tpc \in {"recv", "dup", "put", "notify", "assert"}
  /\ frameId \in Nat \ {0} /\ outId \in Outs
  /\ lock \in Outs \cup {None}
  /\ news \in [Outs -> 0 .. MaxNews]
  /\ held \in [Outs -> SUBSET Frames]
  /\ npc \in [Outs -> {"idle", "putup", "putempty"}]
  /\ back \in [Outs -> SUBSET Frames]
  /\ freeList \in [Outs -> SUBSET Frames]

\* The frame positions of inList that output o has yet to duplicate.
ToDup(o) == IF tpc # "dup" THEN {}
            ELSE {i \in DOMAIN inList : i > frameId \/ (i = frameId /\ o >= outId)}

\* Output o has, or will have, a duplicate of f that is not given back.
Owes(o, f) == \/ f \in held[o] \cup Range(full[o]) \cup Range(outList[o])
              \/ \E i \in ToDup(o) : inList[i] = f

\* Input frames whose count is not set yet.
Unstarted == IF tpc = "dup"
             THEN {inList[i] : i \in {j \in DOMAIN inList :
                     j > frameId \/ (j = frameId /\ outId = 0)}}
             ELSE {}

(* The reference count is exactly the number of outputs that still have the *)
(* frame, whatever the link task and the next links are in the middle of:   *)
(* it reaches zero once, and not before the last of them.                   *)
CountIsLoans ==
  \A f \in Frames \ Unstarted :
    dupCount[f] = Cardinality({o \in Outs : Owes(o, f)})

(* Duplicates are neither lost nor made.                                    *)
PoolConserved ==
  \A o \in Outs :
    PoolSize = empty[o] + Len(outList[o]) + Len(full[o])
                 + Cardinality(held[o]) + Cardinality(back[o])

\* The state is well typed and both counts are right.
CountsOK == TypeOK /\ CountIsLoans /\ PoolConserved

(* No picture is overwritten while a next link reads it, and no frame goes  *)
(* home twice: the link implements FrameLoan.                               *)
Loan == INSTANCE FrameLoan WITH
          home <- up,
          loan <- [f \in Frames |-> {o \in Outs : Owes(o, f)}]
IsFrameLoan == Loan!Spec

(* The assertion of dupLink_tsk.c:183 never fails: the pool of an output    *)
(* lasts, although originals go home before their duplicates return to it,  *)
(* when it has twice as many duplicates as the previous link has frames.    *)
PoolLasts == tpc # "assert"

(* Every frame taken from the previous link is given back to it, whether   *)
(* next links flush notifications or not, and although some are lost.       *)
FramesGoHome == \A f \in Frames : f \notin up ~> f \in up
=============================================================================
