------------------------------ MODULE DecLink ------------------------------
(* links_m3video/iva_dec: the video decoder.  The link task queues bit      *)
(* buffers by channel, pairs each with an empty output frame in a request   *)
(* object and puts it in the processQue; the process task has them decoded. *)
(* The codec keeps frames as references: it may show one and free it later, *)
(* so that a shown frame goes out itself or as a duplicate, and             *)
(* vdecRefCount tells when it is empty again.  Channels are closed and      *)
(* opened while the link runs; a closed channel's frames go back to its     *)
(* fvidFrmQue instead.                                                      *)
(*                                                                          *)
(* Batches of requests (DEC_LINK_GROUP_SUBM_MAX_SIZE is 1 here), more than  *)
(* one IVAHD, and stopping and deleting the link are as in EncLink.         *)
EXTENDS Naturals, Sequences, FiniteSets, Functions, SequencesExt, FiniteSetsExt

CONSTANTS
  Bits,      \* bit buffers of the previous link
  ChOf,      \* ChOf[b]: channelNum of b
  Chs,       \* 0 .. inQueInfo.numCh - 1
  Frames,    \* outFramesPool of all channels
  PoolOf,    \* allocPoolID of a frame, its channel
  NumBufs,   \* NumBufs[c]: numBufPerCh
  Dpb,       \* Dpb[c]: frames the codec may keep between two calls
  ReqPerCh,  \* numReqObjPerProcess: 2 for interlaced channels
  MaxReq,    \* DEC_LINK_MAX_REQ
  ProcLen,   \* length of the processQue
  DupFrames, \* DEC_LINK_MAX_DUP_FRAMES
  Closable,  \* channels the application closes and opens
  MaxOpens,  \* bound: openings
  RecvLen,   \* UTILS_MBX_RECV_QUE_LEN_MAX
  MsgPool,   \* UTILS_MBX_MSG_POOL_MAX
  NoBit, NoFrame

Pool(c) == {f \in Frames : PoolOf[f] = c}

ASSUME DecAssumption ==
  /\ IsFiniteSet(Bits) /\ IsFiniteSet(Frames) /\ IsFiniteSet(Chs)
  /\ ChOf \in [Bits -> Chs] /\ PoolOf \in [Frames -> Chs]
  /\ Closable \subseteq Chs /\ NoBit \notin Bits /\ NoFrame \notin Frames
  /\ {MaxReq, ProcLen, RecvLen, MsgPool} \subseteq Nat \ {0}
  /\ {DupFrames, MaxOpens} \subseteq Nat
  /\ NumBufs \in [Chs -> Nat \ {0}] /\ Dpb \in [Chs -> Nat]
  /\ ReqPerCh \in [Chs -> {1, 2}]
  /\ \A c \in Chs : Dpb[c] < NumBufs[c] /\ NumBufs[c] <= Cardinality(Pool(c))

VARIABLES
  up, upq,      \* bit buffers the previous link owns; its full queue
  mbx,          \* commands waiting for the link task
  leaked,       \* messages of the pool that were never freed
  refused,      \* commands that could not be sent, and none has been since
  inQue,        \* chObj[c].inQue
  reqQue,       \* requests in reqQue
  procQue, doneQue,    \* processQue, processDoneQue
  ppc, reqObj,  \* process task: point, request under way
  fvidFrmQue,   \* outChObj[c].fvidFrmQue
  empty,        \* bufOutQue.emptyQue[c]
  outFrames,    \* outChObj[c].outFrames: the frames of the last opening
  refCount,     \* vdecRefCount
  invalid,      \* frames whose invalidFrame is set
  held, fresh,  \* frames the codecs hold; those not shown yet
  dupQue,       \* frames in dupObj.dupQue
  out,          \* <<f, TRUE>>: a duplicate of f, <<f, FALSE>>: f itself, in the
                \* full queue or with the next link
  flag,         \* newDataProcessOnFrameFree
  lpc, todo, ch, n, ok,  \* link task: point, channels to do, channel, turn, status
  npc,          \* the next link in DecLink_putEmptyFrames
  open, local,  \* channels whose algCreateStatus, algCreateStatusLocal is DONE
  ctl, cch, opens  \* command of the application under way, its channel; openings

source == <<up, upq>>
mail == <<mbx, leaked, refused>>
process == <<ppc, reqObj>>
frames == <<fvidFrmQue, empty, refCount, invalid>>
codec == <<held, fresh>>
loop == <<todo, ch, n, ok>>
status == <<outFrames, open, local>>
admin == <<ctl, cch, opens>>
vars == <<source, mail, inQue, reqQue, procQue, doneQue, process, frames, codec,
          dupQue, out, flag, lpc, loop, npc, status, admin>>

(* The first k members of S: they are all alike.                            *)
Some(k, S) == CHOOSE T \in SUBSET S : Cardinality(T) = k

Request(c, b, f) == [ch |-> c, bit |-> b, frame |-> f, dup |-> FALSE]
Dummy(c) == Request(c, NoBit, NoFrame)
IsDummy(r) == r.bit = NoBit
NoReq == Request(Min(Chs), NoBit, NoFrame)

(* DecLink_codecCreate, with every channel open.                            *)
Init ==
  /\ up = Bits /\ upq = <<>>
  /\ mbx = <<>> /\ leaked = 0 /\ refused = {}
  /\ inQue = [c \in Chs |-> <<>>]
  /\ reqQue = MaxReq /\ procQue = <<>> /\ doneQue = <<>>
  /\ ppc = "get" /\ reqObj = NoReq
  /\ outFrames = [c \in Chs |-> Some(NumBufs[c], Pool(c))]
  /\ empty = outFrames
  /\ fvidFrmQue = [c \in Chs |-> Pool(c) \ outFrames[c]]
  /\ refCount = [f \in Frames |-> 0] /\ invalid = {}
  /\ held = {} /\ fresh = {} /\ dupQue = DupFrames /\ out = {}
  /\ flag = FALSE
  /\ lpc = "recv" /\ todo = {} /\ ch = Min(Chs) /\ n = 0 /\ ok = FALSE
  /\ npc = "idle"
  /\ open = Chs /\ local = Chs
  /\ ctl = "idle" /\ cch = Min(Chs) /\ opens = 0

-----------------------------------------------------------------------------
(* Commands to the link task (System_sendLinkCmd, Utils_mbxSendCmd).        *)

\* Messages of the pool in use: those that were leaked, those of the mailbox
\* and that of the application's command, until it is answered.
Used(q) == leaked + Cardinality({i \in DOMAIN q : q[i] \in {"NEW_DATA", "LATE_ACK"}})
             + (IF ctl = "idle" THEN 0 ELSE 1)

Room(q) == Len(q) < RecvLen /\ Used(q) < MsgPool

(* The mailbox after cmd has been sent to q.  The sender waits neither for  *)
(* room nor for a message, and other links of the core, which share the     *)
(* pool, may have what is left of it: it always may fail.                   *)
Sent(q, cmd) == {q} \cup (IF Room(q) THEN {Append(q, cmd)} ELSE {})

\* cmd was to be sent, which made the mailbox q: is one of its kind waiting?
Lost(q, cmd) == IF cmd \in Range(q) THEN refused \ {cmd} ELSE refused \cup {cmd}

(* The handler of NEW_DATA flushes those that follow at the head.           *)
Flush(q) == LET other == {i \in DOMAIN q : q[i] # "NEW_DATA"}
            IN  IF other = {} THEN <<>> ELSE SubSeq(q, Min(other), Len(q))

-----------------------------------------------------------------------------
(* Giving frames back (DecLink_codecFreeProcessedFrames).                   *)

\* Frames of F that nobody else holds.
Unshared(F) == {f \in F : refCount[f] = 1}

\* Mutant: a frame is empty although a duplicate of it is out.
ReleaseShared(F, D) ==
  /\ refCount' = [f \in Frames |-> CASE f \in F -> refCount[f] - 1
                                     [] f \in D -> refCount[f] + 1
                                     [] OTHER -> refCount[f]]
  /\ invalid' = invalid \ F
  /\ fvidFrmQue' = [c \in Chs |-> fvidFrmQue[c] \cup (F \cap invalid \cap Pool(c))]
  /\ empty' = [c \in Chs |-> empty[c] \cup ((F \ invalid) \cap Pool(c))]

(* The frames F are given back once, those of D duplicated once.            *)
Release(F, D) ==
  LET zero == Unshared(F)
  IN  /\ refCount' = [f \in Frames |-> CASE f \in F -> refCount[f] - 1
                                         [] f \in D -> refCount[f] + 1
                                         [] OTHER -> refCount[f]]
      /\ invalid' = invalid \ zero
      /\ fvidFrmQue' = [c \in Chs |->
           fvidFrmQue[c] \cup (zero \cap invalid \cap Pool(c))]
      /\ empty' = [c \in Chs |-> empty[c] \cup ((zero \ invalid) \cap Pool(c))]

\* bufFreeDone
FreeDone(F) == ~(Unshared(F) \subseteq invalid)

(* Whoever gives back F tells the link task, which has asked for it.  The   *)
(* flag stays when the command cannot be sent.                              *)
Tells(F) == flag /\ FreeDone(F)
Told(F) == IF Tells(F) THEN Sent(mbx, "NEW_DATA") ELSE {mbx}
NotTold(F, q) == IF Tells(F) THEN Lost(q, "NEW_DATA") ELSE refused

-----------------------------------------------------------------------------
(* The process task (DecLink_codecProcessTskFxn).                           *)

ProcessReady == ppc = "get" /\ procQue # <<>>

\* Mutant: the link task runs while others are between two steps.
SamePriority == TRUE

(* The link task has the lowest priority: the process task's is 13, the     *)
(* next link's is not lower and its put does not wait (DEC_LINK_TSK_PRI).   *)
LinkMayRun == ~ProcessReady /\ npc = "idle"

(* Utils_queGet returns a request to decode.                                *)
GetRequest ==
  /\ ProcessReady /\ ~IsDummy(Head(procQue))
  /\ reqObj' = Head(procQue) /\ procQue' = Tail(procQue)
  /\ ppc' = "codec"
  /\ UNCHANGED <<source, mail, inQue, reqQue, doneQue, frames, codec, dupQue,
                 out, flag, lpc, loop, npc, status, admin>>

(* A dummy request: the codec of its channel is flushed.                    *)
GetDummy ==
  /\ ProcessReady /\ IsDummy(Head(procQue))
  /\ reqObj' = Head(procQue) /\ procQue' = Tail(procQue)
  /\ ppc' = "flush"
  /\ UNCHANGED <<source, mail, inQue, reqQue, doneQue, frames, codec, dupQue,
                 out, flag, lpc, loop, npc, status, admin>>

(* What the codec makes of request r: it frees frames of those it holds and *)
(* shows one, once each, or none; errors, and a frame that is not used, are *)
(* outcomes that show none.                                                 *)
Decodes(r) ==
  LET mine == (held \cap Pool(r.ch)) \cup {r.frame}
  IN  {o \in [freed : SUBSET mine, shown : (fresh \cap mine) \cup {r.frame, NoFrame}] :
         Cardinality(mine \ o.freed) <= Dpb[r.ch]}

(* A shown frame that is not free too is duplicated, one that is goes out   *)
(* itself; the request is done and the other free frames are given back.    *)
Decoded ==
  /\ ppc = "codec" /\ ppc' = "get" /\ reqObj' = NoReq
  /\ \E o \in Decodes(reqObj) :
       LET dup == {o.shown} \ (o.freed \cup {NoFrame})
           free == o.freed \ {o.shown}
       IN  /\ Release(free, dup)
           /\ dupQue' = dupQue - Cardinality(dup)
           /\ held' = (held \cup {reqObj.frame}) \ o.freed
           /\ fresh' = (fresh \cup {reqObj.frame}) \ (o.freed \cup {o.shown})
           /\ doneQue' = Append(doneQue,
                [reqObj EXCEPT !.frame = o.shown, !.dup = o.shown \in dup])
           /\ mbx' \in Told(free) /\ flag' = (flag /\ mbx' = mbx)
           /\ refused' = NotTold(free, mbx')
  /\ UNCHANGED <<source, leaked, inQue, reqQue, procQue, out, lpc, loop, npc,
                 status, admin>>

(* DecLink_codecFlushNDeleteChannel: the codec has freed all it held and is *)
(* deleted, the empty queue moves to fvidFrmQue, and the link task is told  *)
(* to answer the application, which nobody does when that fails; the        *)
(* request goes back.                                                       *)
Flushed ==
  /\ ppc = "flush" /\ ppc' = "get" /\ reqObj' = NoReq
  /\ LET c == reqObj.ch
         F == IF c \in open THEN held \cap Pool(c) ELSE {}
         zero == Unshared(F)
     IN  /\ refCount' = [f \in Frames |-> refCount[f] - (IF f \in F THEN 1 ELSE 0)]
         /\ held' = held \ F /\ fresh' = fresh \ F
         /\ open' = open \ {c}
         /\ fvidFrmQue' = [fvidFrmQue EXCEPT ![c] = @ \cup zero \cup empty[c]]
         /\ invalid' = invalid \ (zero \cup empty[c])
         /\ empty' = [empty EXCEPT ![c] = {}]
         /\ \E q \in Told(F) :
              /\ flag' = (flag /\ q = mbx)
              /\ mbx' \in Sent(q, "LATE_ACK")
              /\ refused' = IF "LATE_ACK" \in Range(mbx') THEN NotTold(F, q)
                            ELSE NotTold(F, q) \cup {"LATE_ACK"}
  /\ reqQue' = reqQue + 1
  /\ UNCHANGED <<source, leaked, inQue, procQue, doneQue, dupQue, out, lpc, loop,
                 npc, outFrames, local, admin>>

ProcessStep == GetRequest \/ GetDummy \/ Decoded \/ Flushed

-----------------------------------------------------------------------------
(* The link task: new data (DecLink_codecProcessData).                      *)

Recv(cmd) ==
  /\ LinkMayRun /\ lpc = "recv" /\ mbx # <<>> /\ Head(mbx) = cmd

NewPass == lpc' = "channel" /\ todo' = Chs /\ ok' = FALSE

(* Bit buffers are queued by channel; those of closed channels, and any of  *)
(* disabled channels or that are no key frames, are given back at once.     *)
RecvNewData ==
  /\ Recv("NEW_DATA") /\ mbx' = Flush(mbx)
  /\ flag' = FALSE
  /\ \E skip \in SUBSET Range(upq) :
       /\ {b \in Range(upq) : ChOf[b] \notin local} \subseteq skip
       /\ up' = up \cup skip
       /\ inQue' = [c \in Chs |-> inQue[c] \o
                      SelectSeq(upq, LAMBDA b : b \notin skip /\ ChOf[b] = c)]
  /\ upq' = <<>>
  /\ NewPass /\ UNCHANGED <<ch, n>>
  /\ UNCHANGED <<leaked, refused, reqQue, procQue, doneQue, process, frames, codec,
                 dupQue, out, npc, status, admin>>

(* DecLink_codecSubmitData.  The channels are taken in turn, from the one   *)
(* that last came away with nothing: any order stands for that.  One        *)
(* without an empty frame asks to be told of the next (flag); emptyQue      *)
(* is tested and the flag set while other tasks give frames back.           *)
NextChannel ==
  /\ LinkMayRun /\ lpc = "channel"
  /\ \E c \in todo :
       /\ todo' = todo \ {c} /\ ch' = c /\ n' = 0
       /\ lpc' = IF empty[c] = {} THEN "ask" ELSE "try"
  /\ UNCHANGED <<source, mail, inQue, reqQue, procQue, doneQue, process, frames,
                 codec, dupQue, out, flag, ok, npc, status, admin>>

Ask ==
  /\ LinkMayRun /\ lpc = "ask"
  /\ flag' = TRUE
  /\ lpc' = "try"
  /\ UNCHANGED <<source, mail, inQue, reqQue, procQue, doneQue, process, frames,
                 codec, dupQue, out, loop, npc, status, admin>>

NextTurn == IF n + 1 < ReqPerCh[ch] THEN n' = n + 1 /\ lpc' = "try"
                                    ELSE n' = 0 /\ lpc' = "channel"

CanSubmit == /\ reqQue > 0 /\ inQue[ch] # <<>> /\ empty[ch] # {}
             /\ Len(procQue) < ProcLen

(* A request with the channel's next bit buffer and an empty frame.         *)
Submit ==
  /\ LinkMayRun /\ lpc = "try" /\ CanSubmit
  /\ \E f \in Some(1, empty[ch]) :
       /\ empty' = [empty EXCEPT ![ch] = @ \ {f}]
       /\ refCount' = [refCount EXCEPT ![f] = 1]
       /\ procQue' = Append(procQue, Request(ch, Head(inQue[ch]), f))
  /\ inQue' = [inQue EXCEPT ![ch] = Tail(@)]
  /\ reqQue' = reqQue - 1
  /\ ok' = TRUE /\ NextTurn
  /\ UNCHANGED <<source, mail, doneQue, process, fvidFrmQue, invalid, codec,
                 dupQue, out, flag, todo, ch, npc, status, admin>>

(* No request: the next channel.  Nothing to submit, or no room: the        *)
(* request is put back.                                                     *)
GiveUp ==
  /\ LinkMayRun /\ lpc = "try" /\ ~CanSubmit
  /\ lpc' = IF reqQue = 0 THEN "channel" ELSE "test"
  /\ UNCHANGED <<source, mail, inQue, reqQue, procQue, doneQue, process, frames,
                 codec, dupQue, out, flag, loop, npc, status, admin>>

TestAgain ==
  /\ LinkMayRun /\ lpc = "test"
  /\ IF empty[ch] = {} THEN lpc' = "askAgain" /\ n' = n ELSE NextTurn
  /\ UNCHANGED <<source, mail, inQue, reqQue, procQue, doneQue, process, frames,
                 codec, dupQue, out, flag, todo, ch, ok, npc, status, admin>>

AskAgain ==
  /\ LinkMayRun /\ lpc = "askAgain"
  /\ flag' = TRUE
  /\ NextTurn
  /\ UNCHANGED <<source, mail, inQue, reqQue, procQue, doneQue, process, frames,
                 codec, dupQue, out, todo, ch, ok, npc, status, admin>>

\* Mutant: the flag is cleared at the end of the passes, not before them.
EndSubmitClears ==
  /\ LinkMayRun /\ lpc = "channel" /\ todo = {}
  /\ ch' = Min(Chs)
  /\ IF ok THEN NewPass /\ UNCHANGED flag
           ELSE lpc' = "recv" /\ flag' = FALSE /\ UNCHANGED <<todo, ok>>
  /\ UNCHANGED <<source, mail, inQue, reqQue, procQue, doneQue, process, frames,
                 codec, dupQue, out, n, npc, status, admin>>

(* Another pass follows one that submitted something.                       *)
EndSubmit ==
  /\ LinkMayRun /\ lpc = "channel" /\ todo = {}
  /\ ch' = Min(Chs)
  /\ IF ok THEN NewPass ELSE lpc' = "recv" /\ UNCHANGED <<todo, ok>>
  /\ UNCHANGED <<source, mail, inQue, reqQue, procQue, doneQue, process, frames,
                 codec, dupQue, out, flag, n, npc, status, admin>>

-----------------------------------------------------------------------------
(* The link task: decoded requests (DecLink_codecGetProcessedData).         *)

ShownAt == {i \in DOMAIN doneQue : doneQue[i].frame # NoFrame}

\* The clock's command (DecLink_codecPrdCalloutFcn) has come.  One may come
\* between any other two when there was room for it: it is not kept in mbx.
ClockCmd == LinkMayRun /\ lpc = "recv" /\ Room(mbx) /\ doneQue # <<>>

SkippedFrames(skip) == {doneQue[i].frame : i \in skip}

(* Shown frames go to the full queue, or back at once if they are skipped   *)
(* in trick play; bit buffers go to the previous link.                      *)
GetProcessedData ==
  /\ ClockCmd
  /\ up' = up \cup {doneQue[i].bit : i \in DOMAIN doneQue}
  /\ reqQue' = reqQue + Len(doneQue) /\ doneQue' = <<>>
  /\ \E skip \in SUBSET ShownAt :
       LET F == SkippedFrames(skip)
       IN  /\ out' = out \cup {<<doneQue[i].frame, doneQue[i].dup>> :
                                  i \in ShownAt \ skip}
           /\ dupQue' = dupQue + Cardinality({i \in skip : doneQue[i].dup})
           /\ Release(F, {})
           /\ mbx' \in Told(F) /\ (Tells(F) => mbx' # mbx)
           /\ refused' = NotTold(F, mbx')
           /\ lpc' = IF Tells(F) THEN "clear" ELSE "recv"
  /\ UNCHANGED <<upq, leaked, inQue, procQue, process, codec, flag, loop, npc,
                 status, admin>>

(* That skipped frames are given back without an error is asserted: NEW_DATA*)
(* that cannot be sent stops the core here.                                 *)
SkippedNotTold ==
  /\ ClockCmd /\ lpc' = "assert"
  /\ \E skip \in SUBSET ShownAt : Tells(SkippedFrames(skip))
  /\ UNCHANGED <<source, mail, inQue, reqQue, procQue, doneQue, process, frames,
                 codec, dupQue, out, flag, loop, npc, status, admin>>

ClearFlag ==
  /\ LinkMayRun /\ lpc = "clear"
  /\ flag' = FALSE
  /\ lpc' = "recv"
  /\ UNCHANGED <<source, mail, inQue, reqQue, procQue, doneQue, process, frames,
                 codec, dupQue, out, loop, npc, status, admin>>

-----------------------------------------------------------------------------
(* The link task: channels opened and closed.                               *)

(* DecLink_codecCreateChannelHandler: the frames come from fvidFrmQue.      *)
Opened(c) ==
  LET F == Some(NumBufs[c], fvidFrmQue[c])
  IN  /\ fvidFrmQue' = [fvidFrmQue EXCEPT ![c] = @ \ F]
      /\ empty' = [empty EXCEPT ![c] = @ \cup F]
      /\ outFrames' = [outFrames EXCEPT ![c] = F]
      /\ open' = open \cup {c} /\ local' = local \cup {c}
      /\ ctl' = "idle" /\ lpc' = "recv"

(* Memory for k frames only.  The others have left fvidFrmQue; the channel  *)
(* is open, to be closed.                                                   *)
OpenedPartly(c, k) ==
  LET F == Some(NumBufs[c], fvidFrmQue[c])
      G == Some(k, F)
  IN  /\ fvidFrmQue' = [fvidFrmQue EXCEPT ![c] = @ \ F]
      /\ empty' = [empty EXCEPT ![c] = @ \cup G]
      /\ outFrames' = [outFrames EXCEPT ![c] = G]
      /\ open' = open \cup {c} /\ local' = local \cup {c}
      /\ lpc' = "close" /\ UNCHANGED ctl

(* The codec is not created: outFrames is not written.                      *)
NotOpened ==
  /\ lpc' = "close"
  /\ UNCHANGED <<fvidFrmQue, empty, outFrames, open, local, ctl>>

CanOpen(c) == Cardinality(fvidFrmQue[c]) >= NumBufs[c]

RecvCreate ==
  /\ Recv("CREATE_CHANNEL") /\ CanOpen(cch) /\ mbx' = Tail(mbx)
  /\ \/ Opened(cch)
     \/ \E k \in 0 .. NumBufs[cch] - 1 : OpenedPartly(cch, k)
     \/ NotOpened
  /\ UNCHANGED <<source, leaked, refused, inQue, reqQue, procQue, doneQue, process,
                 refCount, invalid, codec, dupQue, out, flag, loop, npc, cch, opens>>

RecvDelete ==
  /\ Recv("DELETE_CHANNEL") /\ mbx' = Tail(mbx)
  /\ lpc' = "close"
  /\ UNCHANGED <<source, leaked, refused, inQue, reqQue, procQue, doneQue, process,
                 frames, codec, dupQue, out, flag, loop, npc, status, admin>>

\* Mutant: the frames that are out are not marked.
CloseUnmarked ==
  /\ LinkMayRun /\ lpc = "close"
  /\ local' = local \ {cch}
  /\ invalid' = invalid \cup empty[cch]
  /\ up' = up \cup Range(inQue[cch])
  /\ inQue' = [inQue EXCEPT ![cch] = <<>>]
  /\ lpc' = "dummy"
  /\ UNCHANGED <<upq, mail, reqQue, procQue, doneQue, process, fvidFrmQue,
                 empty, refCount, codec, dupQue, out, flag, loop, npc, outFrames,
                 open, admin>>

(* DecLink_codecDeleteChannelHandler: the frames are marked, the bit        *)
(* buffers of the channel given back; a dummy request follows those that    *)
(* are in the processQue.                                                   *)
Close ==
  /\ LinkMayRun /\ lpc = "close"
  /\ local' = local \ {cch}
  /\ invalid' = invalid \cup outFrames[cch]
  /\ up' = up \cup Range(inQue[cch])
  /\ inQue' = [inQue EXCEPT ![cch] = <<>>]
  /\ lpc' = "dummy"
  /\ UNCHANGED <<upq, mail, reqQue, procQue, doneQue, process, fvidFrmQue,
                 empty, refCount, codec, dupQue, out, flag, loop, npc, outFrames,
                 open, admin>>

CanPutDummy == reqQue > 0 /\ Len(procQue) < ProcLen

PutDummy ==
  /\ LinkMayRun /\ lpc = "dummy" /\ CanPutDummy
  /\ reqQue' = reqQue - 1
  /\ procQue' = Append(procQue, Dummy(cch))
  /\ lpc' = "recv"
  /\ UNCHANGED <<source, mail, inQue, doneQue, process, frames, codec, dupQue,
                 out, flag, loop, npc, status, admin>>

(* The command that closed the channel is answered.  LATE_ACK itself is not *)
(* freed: each closing takes a message out of the pool.                     *)
RecvLateAck ==
  /\ Recv("LATE_ACK") /\ mbx' = Tail(mbx)
  /\ ctl' = "idle" /\ leaked' = leaked + 1
  /\ UNCHANGED <<source, refused, inQue, reqQue, procQue, doneQue, process, frames,
                 codec, dupQue, out, flag, lpc, loop, npc, status, cch, opens>>

LinkStep == \/ RecvNewData \/ NextChannel \/ Ask \/ Submit \/ GiveUp
            \/ TestAgain \/ AskAgain \/ EndSubmit
            \/ GetProcessedData \/ SkippedNotTold \/ ClearFlag
            \/ RecvCreate \/ RecvDelete \/ Close \/ PutDummy \/ RecvLateAck

-----------------------------------------------------------------------------
(* The others: the previous link, the clock, the next link, the application.*)

Send(b) ==
  /\ b \in up
  /\ up' = up \ {b} /\ upq' = Append(upq, b)
  /\ mbx' \in Sent(mbx, "NEW_DATA")
  /\ refused' = Lost(mbx', "NEW_DATA")
  /\ UNCHANGED <<leaked, inQue, reqQue, procQue, doneQue, process, frames, codec,
                 dupQue, out, flag, lpc, loop, npc, status, admin>>

(* The next link gives a frame back (DecLink_putEmptyFrames), tests the     *)
(* flag and tells the link, and then clears the flag.  Only the process     *)
(* task can come between the first three, which are one step: what it does  *)
(* commutes with them.                                                      *)
NextPut(o) ==
  /\ npc = "idle" /\ o \in out
  /\ out' = out \ {o}
  /\ dupQue' = dupQue + (IF o[2] THEN 1 ELSE 0)
  /\ Release({o[1]}, {})
  /\ mbx' \in Told({o[1]})
  /\ npc' = IF mbx' # mbx THEN "clear" ELSE "idle"
  /\ refused' = NotTold({o[1]}, mbx')
  /\ UNCHANGED <<source, leaked, inQue, reqQue, procQue, doneQue, process, codec,
                 flag, lpc, loop, status, admin>>

NextClear ==
  /\ npc = "clear"
  /\ flag' = FALSE /\ npc' = "idle"
  /\ UNCHANGED <<source, mail, inQue, reqQue, procQue, doneQue, process, frames,
                 codec, dupQue, out, lpc, loop, status, admin>>

(* The application closes open channels and opens closed ones, one command  *)
(* at a time: msgQLock is held until the answer.  The core's message task   *)
(* waits for a message of the pool and for room in the mailbox.             *)
CloseChannel(c) ==
  /\ ctl = "idle" /\ c \in open
  /\ ctl' = "DELETE_CHANNEL" /\ cch' = c
  /\ Room(mbx) /\ mbx' = Append(mbx, "DELETE_CHANNEL")
  /\ UNCHANGED <<source, leaked, refused, inQue, reqQue, procQue, doneQue, process, frames,
                 codec, dupQue, out, flag, lpc, loop, npc, status, opens>>

OpenChannel(c) ==
  /\ ctl = "idle" /\ c \notin open /\ opens < MaxOpens
  /\ ctl' = "CREATE_CHANNEL" /\ cch' = c /\ opens' = opens + 1
  /\ Room(mbx) /\ mbx' = Append(mbx, "CREATE_CHANNEL")
  /\ UNCHANGED <<source, leaked, refused, inQue, reqQue, procQue, doneQue, process, frames,
                 codec, dupQue, out, flag, lpc, loop, npc, status>>

NextReturns(c) == \E o \in out : PoolOf[o[1]] = c /\ NextPut(o)

Next == \/ LinkStep \/ ProcessStep
        \/ \E b \in Bits : Send(b)
        \/ \E c \in Chs : NextReturns(c)
        \/ NextClear
        \/ \E c \in Closable : CloseChannel(c) \/ OpenChannel(c)

Spec == Init /\ [][Next]_vars

(* Tasks that may run do: the process task and the next link's, and the     *)
(* link task, which they keep off (SF); the codec returns, the clock fires, *)
(* and the next link gives back the frames of every channel.  The previous  *)
(* link need not send anything more.                                        *)
FairSpec ==
  /\ Spec
  /\ WF_vars(ProcessStep \/ NextClear)
  /\ SF_vars(LinkStep) /\ SF_vars(GetProcessedData)
  /\ \A c \in Chs : SF_vars(NextReturns(c))

-----------------------------------------------------------------------------
(* Correctness.                                                             *)

Requests == [ch : Chs, bit : Bits \cup {NoBit}, frame : Frames \cup {NoFrame},
             dup : BOOLEAN]

TypeOK ==
  /\ up \subseteq Bits /\ upq \in Seq(Bits)
  /\ mbx \in Seq({"NEW_DATA", "CREATE_CHANNEL", "DELETE_CHANNEL", "LATE_ACK"})
  /\ Len(mbx) <= RecvLen /\ Used(mbx) <= MsgPool
  /\ leaked \in Nat /\ refused \subseteq {"NEW_DATA", "LATE_ACK"}
  /\ inQue \in [Chs -> Seq(Bits)] /\ reqQue \in 0 .. MaxReq
  /\ {procQue, doneQue} \subseteq Seq(Requests) /\ reqObj \in Requests
  /\ ppc \in {"get", "codec", "flush"}
  /\ {fvidFrmQue, empty, outFrames} \subseteq [Chs -> SUBSET Frames]
  /\ refCount \in [Frames -> Nat] /\ invalid \subseteq Frames
  /\ held \subseteq Frames /\ fresh \subseteq held
  /\ dupQue \in 0 .. DupFrames /\ out \subseteq Frames \X BOOLEAN
  /\ {flag, ok} \subseteq BOOLEAN
  /\ lpc \in {"recv", "channel", "ask", "try", "test", "askAgain", "clear",
              "close", "dummy", "assert"}
  /\ todo \subseteq Chs /\ ch \in Chs /\ n \in 0 .. 1
  /\ npc \in {"idle", "clear"}
  /\ open \subseteq Chs /\ local \subseteq Chs
  /\ ctl \in {"idle", "CREATE_CHANNEL", "DELETE_CHANNEL"} /\ cch \in Chs
  /\ opens \in 0 .. MaxOpens

Count(P) == IF P THEN 1 ELSE 0

\* Frame f is on its way into the codec or in it; it is shown as itself (d =
\* FALSE) or as a duplicate (d = TRUE).
InCodec(f) == \/ f \in held
              \/ \E r \in Range(procQue) \cup {reqObj} : r.frame = f
Shown(f, d) == \/ <<f, d>> \in out
               \/ \E r \in Range(doneQue) : r.frame = f /\ r.dup = d

(* vdecRefCount of a frame is the number of those that still need its       *)
(* memory: the codec, the next link, the reader of a duplicate.  It is in   *)
(* the empty queue or fvidFrmQue only when there is none, and never in both,*)
(* and no duplicate is lost.                                                *)
CountIsHolders ==
  /\ \A f \in Frames :
       /\ refCount[f] = Count(InCodec(f)) + Count(Shown(f, FALSE))
                          + Count(Shown(f, TRUE))
       /\ f \in empty[PoolOf[f]] \cup fvidFrmQue[PoolOf[f]] => refCount[f] = 0
       /\ f \notin empty[PoolOf[f]] \cap fvidFrmQue[PoolOf[f]]
  /\ dupQue + Cardinality({f \in Frames : Shown(f, TRUE)}) = DupFrames

FramesOK == TypeOK /\ CountIsHolders

(* When the link task is at rest, a bit buffer that waits waits for a frame *)
(* of its channel, and whoever gives the next one back will tell: the flag  *)
(* is set for a channel that starves, or NEW_DATA is on its way (lines      *)
(* 1428, 1532, 852), or could not be sent.                                  *)
StarvedIsFlagged ==
  lpc = "recv" /\ npc = "idle" =>
    \A c \in Chs : inQue[c] # <<>> =>
      \/ "NEW_DATA" \in Range(mbx) \cup refused
      \/ flag /\ empty[c] = {}

(* What the code asserts when channels are closed and opened: there are     *)
(* frames to open one with (line 407) and none left of its last opening     *)
(* (2463); a request is there for the dummy (2555); and every frame of a    *)
(* channel that is flushed is marked (2628).                                *)
AssertionsHold ==
  /\ mbx # <<>> /\ Head(mbx) = "CREATE_CHANNEL" => CanOpen(cch) /\ empty[cch] = {}
  /\ lpc = "dummy" => CanPutDummy
  /\ ppc = "flush" => empty[reqObj.ch] \cup (held \cap Pool(reqObj.ch))
                        \subseteq invalid

(* Every bit buffer goes back to the previous link, without more input, and *)
(* opening and closing a channel are answered, unless a NEW_DATA or the     *)
(* LATE_ACK is lost, or an assertion has stopped the core.                  *)
Returns ==
  /\ \A b \in Bits : b \notin up ~> (b \in up \/ refused # {} \/ lpc = "assert")
  /\ ctl # "idle" ~> (ctl = "idle" \/ "LATE_ACK" \in refused \/ lpc = "assert")
=============================================================================
