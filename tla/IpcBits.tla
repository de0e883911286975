------------------------------ MODULE IpcBits ------------------------------
(* The encoded pictures on their way from the video processor to the host:  *)
(* links_common/ipcBitsOut (OUT) puts a list element per bit buffer of the  *)
(* encoder on a ListMP in shared memory, src_linux/links/ipcBitsIn (IN)     *)
(* takes it off for the application, and the element comes back on a second *)
(* ListMP.  In polled mode, the default, no core tells the other anything:  *)
(* OUT looks at the returned elements on a clock, IN is sent NEW_DATA by a  *)
(* thread of its own that counts the messages IN has not read yet.  In      *)
(* notify mode either side tells the other through System_ipcSendNotify.    *)
EXTENDS Naturals, Sequences, FiniteSets, SequencesExt

CONSTANTS
  Bufs,        \* bit buffers of the encoder
  Elems,       \* list elements, SYSTEM_IPC_BITS_MAX_LIST_ELEM of them
  MaxList,     \* VIDBITSTREAM_MAX_BITSTREAM_BUFS
  MaxPending,  \* IPC_BITS_IN_MAX_PENDING_NEWDATA_CMDS
  MbxLen,      \* bound: unread messages to OUT, and to IN in notify mode
  None

ASSUME IpcBitsAssumption ==
  /\ IsFiniteSet(Bufs) /\ IsFiniteSet(Elems)
  /\ Cardinality(Bufs) <= Cardinality(Elems)
  /\ MaxList \in Nat \ {0} /\ MaxPending \in Nat \ {0} /\ MbxLen \in Nat \ {0}
  /\ None \notin Bufs \cup Elems

VARIABLES
  polled,      \* noNotifyMode of both links, its notify flags the other way
  home,        \* bit buffers the encoder may fill
  ready,       \* full bit buffers OUT has not fetched
  elemQue,     \* listElemQue
  bufState,    \* bufState of each element
  map,         \* listElem2BitBufMap: the bit buffer an element stands for
  listOut, listIn,          \* the two ListMPs
  outMbx, opc, bufList, elem, freeList, \* OUT: mailbox, point, bufList,
               \* pListElem, freeBitBufList
  clk,         \* OUT's clock: "off", "oneshot", "periodic"
  inMbx, pending, lpc, ppc, \* IN: NEW_DATA unread, prd.numPendingCmd, the
               \* points of its task and of IpcBitsInLink_periodicTaskFxn
  outQue,      \* outBitBufQue
  held, apc    \* application: what it works on, its point

encoder == <<home, ready>>
shared == <<bufState, map, listOut, listIn>>
out == <<outMbx, opc, bufList, elem, freeList, clk, elemQue>>
in == <<inMbx, pending, lpc, ppc, outQue>>
app == <<held, apc>>
vars == <<polled, encoder, shared, out, in, app>>

Init ==
  /\ polled \in BOOLEAN
  /\ home = Bufs /\ ready = <<>>
  /\ elemQue = SetToSeq(Elems)
  /\ bufState = [e \in Elems |-> "FREE"]
  /\ map = [e \in Elems |-> None]
  /\ listOut = <<>> /\ listIn = <<>>
  /\ outMbx = <<>> /\ opc = "recv" /\ bufList = <<>> /\ elem = None
  /\ freeList = <<>> /\ clk = "off"
  /\ inMbx = 0 /\ pending = 0 /\ lpc = "recv" /\ ppc = "sleep"
  /\ outQue = <<>>
  /\ held = {} /\ apc = "idle"

-----------------------------------------------------------------------------
(* The encoder fills a bit buffer and tells OUT.                            *)
Encode(b) ==
  /\ b \in home /\ Len(outMbx) < MbxLen
  /\ home' = home \ {b} /\ ready' = Append(ready, b)
  /\ outMbx' = Append(outMbx, "NEW_DATA")
  /\ UNCHANGED <<polled, shared, opc, bufList, elem, freeList, clk, elemQue,
                 in, app>>

-----------------------------------------------------------------------------
(* OUT's task: NEW_DATA runs processBitBufs and releaseBitBufs, RELEASE     *)
(* the second alone.                                                        *)

OutRecv ==
  /\ opc = "recv" /\ outMbx # <<>>
  /\ outMbx' = Tail(outMbx)
  /\ opc' = IF Head(outMbx) = "NEW_DATA" THEN "get" ELSE "release"
  /\ UNCHANGED <<polled, encoder, shared, bufList, elem, freeList, clk,
                 elemQue, in, app>>

\* Mutant: the newest full buffers are fetched first.
GetFullNewest ==
  /\ opc = "get"
  /\ LET n == IF Len(ready) < MaxList THEN Len(ready) ELSE MaxList
     IN  /\ bufList' = Reverse(SubSeq(ready, Len(ready) - n + 1, Len(ready)))
         /\ ready' = SubSeq(ready, 1, Len(ready) - n)
  /\ opc' = IF ready = <<>> THEN "release" ELSE "fill"
  /\ UNCHANGED <<polled, home, shared, outMbx, elem, freeList, clk, elemQue,
                 in, app>>

GetFull ==
  /\ opc = "get"
  /\ LET n == IF Len(ready) < MaxList THEN Len(ready) ELSE MaxList
     IN  /\ bufList' = SubSeq(ready, 1, n)
         /\ ready' = SubSeq(ready, n + 1, Len(ready))
  /\ opc' = IF ready = <<>> THEN "release" ELSE "fill"
  /\ UNCHANGED <<polled, home, shared, outMbx, elem, freeList, clk, elemQue,
                 in, app>>

(* An element is claimed for the next bit buffer.  The wait for one has no  *)
(* timeout, and only this task ever puts one back.                          *)
Fill ==
  /\ opc = "fill" /\ elemQue # <<>>
  /\ elem' = Head(elemQue) /\ elemQue' = Tail(elemQue)
  /\ bufState' = [bufState EXCEPT ![elem'] = "ALLOCED"]
  /\ map' = [map EXCEPT ![elem'] = Head(bufList)]
  /\ bufList' = Tail(bufList)
  /\ opc' = "put"
  /\ UNCHANGED <<polled, encoder, listOut, listIn, outMbx, freeList, clk, in,
                 app>>

PutOut ==
  /\ opc = "put"
  /\ bufState' = [bufState EXCEPT ![elem] = "OUTQUE"]
  /\ listOut' = Append(listOut, elem)
  /\ elem' = None
  /\ opc' = IF bufList = <<>> THEN "notify" ELSE "fill"
  /\ UNCHANGED <<polled, encoder, map, listIn, outMbx, bufList, freeList, clk,
                 elemQue, in, app>>

\* Mutant: the clock is not started.
NotifyInNoClock ==
  /\ opc = "notify"
  /\ \/ polled /\ UNCHANGED <<clk, inMbx>>
     \/ /\ ~polled /\ inMbx < MbxLen
        /\ inMbx' = inMbx + 1 /\ UNCHANGED clk
  /\ opc' = "release"
  /\ UNCHANGED <<polled, encoder, shared, outMbx, bufList, elem, freeList,
                 elemQue, pending, lpc, ppc, outQue, app>>

(* Notify mode: IpcBitsInLink_notifyCb sends IN a message; there has to be  *)
(* room for it.  Polled mode: the clock starts with the first buffers.      *)
NotifyIn ==
  /\ opc = "notify"
  /\ \/ /\ polled /\ clk' = "periodic" /\ UNCHANGED inMbx
     \/ /\ ~polled /\ inMbx < MbxLen
        /\ inMbx' = inMbx + 1 /\ UNCHANGED clk
  /\ opc' = "release"
  /\ UNCHANGED <<polled, encoder, shared, outMbx, bufList, elem, freeList,
                 elemQue, pending, lpc, ppc, outQue, app>>

ListFull == Len(freeList) = MaxList

\* Mutant: the element is not marked free.
ReleaseUnmarked ==
  /\ opc = "release" /\ ~ListFull /\ listIn # <<>>
  /\ LET e == Head(listIn)
     IN  /\ freeList' = Append(freeList, map[e])
         /\ map' = [map EXCEPT ![e] = None]
         /\ elemQue' = Append(elemQue, e)
  /\ listIn' = Tail(listIn)
  /\ UNCHANGED <<polled, encoder, bufState, listOut, outMbx, opc, bufList,
                 elem, clk, in, app>>

(* releaseBitBufs: a returned element gives its bit buffer back and is free *)
(* again.                                                                   *)
Release ==
  /\ opc = "release" /\ ~ListFull /\ listIn # <<>>
  /\ LET e == Head(listIn)
     IN  /\ freeList' = Append(freeList, map[e])
         /\ map' = [map EXCEPT ![e] = None]
         /\ bufState' = [bufState EXCEPT ![e] = "FREE"]
         /\ elemQue' = Append(elemQue, e)
  /\ listIn' = Tail(listIn)
  /\ UNCHANGED <<polled, encoder, listOut, outMbx, opc, bufList, elem, clk,
                 in, app>>

(* The list is given back when it is full, and the loop goes on, or when    *)
(* there is no element left, and the handler is done.                       *)
PutEmpty ==
  /\ opc = "release" /\ (ListFull \/ listIn = <<>>)
  /\ home' = home \cup ToSet(freeList)
  /\ freeList' = <<>>
  /\ opc' = IF ListFull THEN "release" ELSE "recv"
  /\ UNCHANGED <<polled, ready, shared, outMbx, bufList, elem, clk, elemQue,
                 in, app>>

(* OUT's clock.  One RELEASE of it is unread at a time: the period is long  *)
(* against the handler (a bound).                                           *)
Tick ==
  /\ clk # "off" /\ "RELEASE" \notin ToSet(outMbx) /\ Len(outMbx) < MbxLen
  /\ outMbx' = Append(outMbx, "RELEASE")
  /\ clk' = IF clk = "oneshot" THEN "off" ELSE clk
  /\ UNCHANGED <<polled, encoder, shared, opc, bufList, elem, freeList,
                 elemQue, in, app>>

-----------------------------------------------------------------------------
(* IN's thread and task: both SCHED_FIFO with IPC_LINK_TSK_PRI on the one   *)
(* processor of the host, so the task does not run between two steps of the *)
(* thread that do not wait.                                                 *)
\* Mutant: the task has the higher priority.
LinkPreempts == TRUE

LinkMayRun == ppc = "sleep"

Poll ==
  /\ polled /\ ppc = "sleep" /\ pending < MaxPending
  /\ inMbx' = inMbx + 1 /\ ppc' = "count"
  /\ UNCHANGED <<polled, encoder, shared, out, pending, lpc, outQue, app>>

Counted ==
  /\ ppc = "count"
  /\ pending' = pending + 1 /\ ppc' = "sleep"
  /\ UNCHANGED <<polled, encoder, shared, out, inMbx, lpc, outQue, app>>

InRecv ==
  /\ lpc = "recv" /\ inMbx > 0 /\ LinkMayRun
  /\ inMbx' = inMbx - 1
  /\ lpc' = IF polled THEN "count" ELSE "take"
  /\ UNCHANGED <<polled, encoder, shared, out, pending, ppc, outQue, app>>

(* OSA_assert(numPendingCmd > 0) spins for ever when it fails.              *)
Uncount ==
  /\ lpc = "count" /\ LinkMayRun
  /\ \/ pending > 0 /\ pending' = pending - 1 /\ lpc' = "take"
     \/ pending = 0 /\ lpc' = "assert" /\ UNCHANGED pending
  /\ UNCHANGED <<polled, encoder, shared, out, inMbx, ppc, outQue, app>>

(* IpcBitsInLink_processBitBufs.                                            *)
Take ==
  /\ lpc = "take" /\ LinkMayRun /\ listOut # <<>>
  /\ LET e == Head(listOut)
     IN  /\ bufState' = [bufState EXCEPT ![e] = "DEQUEUED"]
         /\ outQue' = Append(outQue, e)
  /\ listOut' = Tail(listOut)
  /\ UNCHANGED <<polled, encoder, map, listIn, out, inMbx, pending, lpc, ppc,
                 app>>

(* The list is empty; cbFxn tells the application, which may look at any    *)
(* time.                                                                    *)
Taken ==
  /\ lpc = "take" /\ LinkMayRun /\ listOut = <<>>
  /\ lpc' = "recv"
  /\ UNCHANGED <<polled, encoder, shared, out, inMbx, pending, ppc, outQue,
                 app>>

-----------------------------------------------------------------------------
(* The application: takes full bit buffers in order, gives them back in any *)
(* order, one or more at a time.                                            *)

\* Mutant: the element goes back when it is handed over.
AppGetShared ==
  /\ outQue # <<>>
  /\ held' = held \cup {Head(outQue)} /\ outQue' = Tail(outQue)
  /\ bufState' = [bufState EXCEPT ![Head(outQue)] = "INQUE"]
  /\ listIn' = Append(listIn, Head(outQue))
  /\ UNCHANGED <<polled, encoder, map, listOut, out, inMbx, pending, lpc, ppc,
                 apc>>

AppGet ==
  /\ outQue # <<>>
  /\ held' = held \cup {Head(outQue)} /\ outQue' = Tail(outQue)
  /\ UNCHANGED <<polled, encoder, shared, out, inMbx, pending, lpc, ppc, apc>>

AppPut(e) ==
  /\ e \in held
  /\ bufState' = [bufState EXCEPT ![e] = "INQUE"]
  /\ listIn' = Append(listIn, e)
  /\ held' = held \ {e}
  /\ apc' = IF polled THEN "idle" ELSE "notify"
  /\ UNCHANGED <<polled, encoder, map, listOut, out, in>>

(* Notify mode: IpcBitsOutLink_notifyCb starts the clock anew as a one-shot *)
(* and sends RELEASE.                                                       *)
NotifyOut ==
  /\ apc = "notify" /\ Len(outMbx) < MbxLen
  /\ outMbx' = Append(outMbx, "RELEASE") /\ clk' = "oneshot"
  /\ apc' = "idle"
  /\ UNCHANGED <<polled, encoder, shared, opc, bufList, elem, freeList,
                 elemQue, in, held>>

-----------------------------------------------------------------------------
OutStep == \/ OutRecv \/ GetFull \/ Fill \/ PutOut \/ NotifyIn \/ Release
           \/ PutEmpty
LinkStep == InRecv \/ Uncount \/ Take \/ Taken
AppStep == AppGet \/ \E e \in Elems : AppPut(e)

Next == \/ \E b \in Bufs : Encode(b)
        \/ OutStep \/ Tick
        \/ Poll \/ Counted \/ LinkStep
        \/ AppStep \/ NotifyOut

Spec == Init /\ [][Next]_vars

(* The tasks run when they can; the clock and the thread go on; the         *)
(* application takes what there is and gives back what it took.             *)
FairSpec ==
  /\ Spec
  /\ WF_vars(OutStep) /\ WF_vars(Tick)
  /\ WF_vars(Poll) /\ WF_vars(Counted) /\ SF_vars(LinkStep)
  /\ WF_vars(AppGet) /\ \A e \in Elems : WF_vars(AppPut(e))
  /\ SF_vars(NotifyOut)

-----------------------------------------------------------------------------
States == {"FREE", "ALLOCED", "OUTQUE", "DEQUEUED", "INQUE"}

(* The variables have the values the code gives them, and no counter passes *)
(* its limit.                                                               *)
TypeOK ==
  /\ polled \in BOOLEAN
  /\ home \subseteq Bufs /\ ready \in Seq(Bufs)
  /\ elemQue \in Seq(Elems) /\ bufState \in [Elems -> States]
  /\ map \in [Elems -> Bufs \cup {None}]
  /\ listOut \in Seq(Elems) /\ listIn \in Seq(Elems)
  /\ outMbx \in Seq({"NEW_DATA", "RELEASE"}) /\ Len(outMbx) <= MbxLen
  /\ opc \in {"recv", "get", "fill", "put", "notify", "release"}
  /\ bufList \in Seq(Bufs) /\ elem \in Elems \cup {None}
  /\ freeList \in Seq(Bufs) /\ Len(freeList) <= MaxList
  /\ clk \in {"off", "oneshot", "periodic"}
  /\ inMbx \in Nat /\ pending \in 0 .. MaxPending
  /\ lpc \in {"recv", "count", "take", "assert"}
  /\ ppc \in {"sleep", "count"}
  /\ outQue \in Seq(Elems) /\ held \subseteq Elems
  /\ apc \in {"idle", "notify"}

(* The elements that stand for a bit buffer, in every place they can be.    *)
Away == (IF elem = None THEN <<>> ELSE <<elem>>) \o listOut \o outQue
        \o SetToSeq(held) \o listIn

(* No bit buffer and no list element is lost or has two owners, and an      *)
(* element that is away stands for a bit buffer (the assertions of          *)
(* copyBitBufInfo2ListElem and mapListElem2BitBuf); so OUT, which waits for *)
(* an element without a timeout, never finds the queue empty.               *)
NothingLost ==
  LET es == elemQue \o Away
      bs == SetToSeq(home) \o ready \o bufList \o freeList
              \o [i \in DOMAIN Away |-> map[Away[i]]]
  IN  /\ IsInjective(es) /\ ToSet(es) = Elems
      /\ IsInjective(bs) /\ ToSet(bs) = Bufs
      /\ \A e \in ToSet(elemQue) : map[e] = None
      /\ opc = "fill" => elemQue # <<>>

(* Both cores agree on where an element is: whoever takes it finds the      *)
(* state that its assertion asks for.                                       *)
StateIsPlace ==
  \A e \in Elems :
    /\ e \in ToSet(elemQue) => bufState[e] = "FREE"
    /\ e \in ToSet(listOut) => bufState[e] = "OUTQUE"
    /\ e \in ToSet(outQue) \cup held => bufState[e] = "DEQUEUED"
    /\ e \in ToSet(listIn) => bufState[e] = "INQUE"

\* The state is well typed, nothing is lost, and bufState says where it is.
ListsOK == TypeOK /\ NothingLost /\ StateIsPlace

(* Polled mode: the thread and the task share numPendingCmd without a lock; *)
(* it is still the number of NEW_DATA messages IN has to answer for, and    *)
(* the task's assertion that it is not zero holds.                          *)
PendingIsQueued ==
  /\ lpc # "assert"
  /\ polled => pending + (IF ppc = "count" THEN 1 ELSE 0)
                 = inMbx + (IF lpc = "count" THEN 1 ELSE 0)

-----------------------------------------------------------------------------
Standing(s) == [i \in DOMAIN s |-> map[s[i]]]

\* What the encoder has produced and the application has not taken.
Stream == Standing(outQue \o listOut \o (IF elem = None THEN <<>> ELSE <<elem>>))
            \o bufList \o ready

(* The application gets the encoder's buffers in the order they were        *)
(* filled, and none is left out.                                            *)
InOrder ==
  [][\/ \E b \in Bufs : Stream' = Append(Stream, b)
     \/ /\ Stream # <<>> /\ Stream' = Tail(Stream)
        /\ \E e \in held' \ held : map[e] = Head(Stream)]_Stream

(* Across the cores the bit buffers are lent as FrameLoan says: the encoder *)
(* gets one back only when the application has given it back.               *)
OnLoan(b) == \E e \in Elems : map[e] = b /\ e \notin ToSet(listIn)

Lender == INSTANCE FrameLoan WITH
  Frames <- Bufs, Outs <- {"app"},
  loan <- [b \in Bufs |-> IF OnLoan(b) \/ b \in ToSet(ready \o bufList)
                          THEN {"app"} ELSE {}]
IsFrameLoan == Lender!Spec

(* Every bit buffer that was filled goes home to the encoder, polled or     *)
(* notified.                                                                *)
BufsGoHome == \A b \in Bufs : b \notin home ~> b \in home
=============================================================================
