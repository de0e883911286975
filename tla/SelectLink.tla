----------------------------- MODULE SelectLink -----------------------------
(* links_common/select: routes the channels of one input queue to several   *)
(* output queues.  The routing may be changed at any time by a command to   *)
(* the link task, with frames of the old routing still on their way.  Each  *)
(* frame carries its channel number, renumbered for the output queue and    *)
(* restored when it comes back, and may carry the channel's picture size    *)
(* (rtChInfo) when rtChInfoUpdate is set: the next link goes by the last    *)
(* size it was told for that channel number.                                *)
(*                                                                          *)
(* pObj->lock only wraps queue operations that are indivisible already, so  *)
(* it is left out.                                                          *)
EXTENDS Naturals, Sequences, FiniteSets, Functions

CONSTANTS
  InChs,       \* channels of the input queue
  NumOutQue,   \* createArgs.numOutQue
  MaxOutCh,    \* bound: channels routed to one output queue
  Frames,      \* frames of the previous link
  Sizes,       \* picture sizes
  NoSize,      \* a size the next link has not been told
  Commands,    \* subset of {"SET", "SET2"}: routing commands in use
  Resizes      \* TRUE: the previous link changes picture sizes

Outs == 0 .. NumOutQue - 1
NotMapped == NumOutQue     \* SELECT_LINK_CH_NOT_MAPPED: not a queue

ASSUME SelectAssumption ==
  /\ NumOutQue \in Nat \ {0} /\ MaxOutCh \in Nat \ {0}
  /\ NoSize \notin Sizes
  /\ Commands \subseteq {"SET", "SET2"} /\ Resizes \in BOOLEAN

VARIABLES
  size,      \* size[c]: of the pictures the previous link produces on channel c
  inCh,      \* inChInfo[c]: queue, channel there, update flag, size
  prev,      \* prevOutQueChInfo[o]: inChNum[] of the last command
  frm,       \* frm[f]: channelNum, selectOrgChannelNum, rtChInfoUpdate,
             \* rtChInfo; src and pic are the channel and size it was made with
  up,        \* frames the previous link owns
  upq,       \* its full queue towards this link
  tpc, todo, unmapped, newData,   \* the link task: point, frames left of
             \* frameList, those to free, newDataAvailable
  full,      \* full[o]: outFrameQue[o].fullQue
  news,      \* news[o]: SYSTEM_CMD_NEW_DATA waits for next link o
  busy,      \* busy[o]: it is fetching frames
  held,      \* held[o]: frames it works on
  view       \* view[o][k]: size it assumes for channel k of its queue

task == <<tpc, todo, unmapped, newData>>
source == <<size, up, upq>>
next == <<busy, held, view>>
vars == <<source, inCh, prev, frm, task, full, news, next>>

\* The channel lists a routing command can carry.
Routes == UNION {Injection(1 .. n, InChs) : n \in 0 .. MaxOutCh}

\* A frame in the previous link's hands, back under channel number c.
Returned(c, src) == [ch |-> c, org |-> src, flag |-> FALSE,
                     info |-> NoSize, src |-> src, pic |-> NoSize]

-----------------------------------------------------------------------------
(* Routing: SelectLink_drvSetOutQueChInfo and ..SetOutQueChInfo2.           *)

\* Mutant: the first frame of the new routing does not carry its size.
MappedQuietly(m, o, s) ==
  [c \in InChs |->
     IF c \in Range(s)
     THEN [m[c] EXCEPT !.que = o, !.out = CHOOSE i \in DOMAIN s : s[i] = c]
     ELSE m[c]]

(* Map the channels listed to queue o, in order.                            *)
Mapped(m, o, s) ==
  [c \in InChs |->
     IF c \in Range(s)
     THEN [m[c] EXCEPT !.que = o, !.upd = TRUE,
                       !.out = CHOOSE i \in DOMAIN s : s[i] = c]
     ELSE m[c]]

(* Remove what was mapped to queue o by the previous command.               *)
Unmap(m, o) ==
  [c \in InChs |-> IF c \in Range(prev[o])
                   THEN [m[c] EXCEPT !.que = NotMapped, !.upd = FALSE, !.out = 0]
                   ELSE m[c]]

(* "Same input channel cannot be mapped to two different output queues"     *)
(* (selectLink.h:32) is asked of the caller.                                *)
Allowed(o, s) == \A q \in Outs \ {o} : Range(s) \cap Range(prev[q]) = {}

\* SELECT_LINK_CMD_SET_OUT_QUE_CH_INFO: removal is compiled out.
SetOutQue(o, s) ==
  /\ tpc = "recv" /\ "SET" \in Commands /\ Allowed(o, s)
  /\ inCh' = Mapped(inCh, o, s)
  /\ prev' = [prev EXCEPT ![o] = s]
  /\ UNCHANGED <<source, frm, task, full, news, next>>

\* Mutant: the command is not remembered.
SetOutQue2Forget(o, s) ==
  /\ tpc = "recv" /\ "SET2" \in Commands /\ Allowed(o, s)
  /\ inCh' = Mapped(Unmap(inCh, o), o, s)
  /\ UNCHANGED <<prev, source, frm, task, full, news, next>>

\* SELECT_LINK_CMD_SET_OUT_QUE_CH_INFO2.
SetOutQue2(o, s) ==
  /\ tpc = "recv" /\ "SET2" \in Commands /\ Allowed(o, s)
  /\ inCh' = Mapped(Unmap(inCh, o), o, s)
  /\ prev' = [prev EXCEPT ![o] = s]
  /\ UNCHANGED <<source, frm, task, full, news, next>>

(* SelectLink_drvCreate: every channel starts unmapped with the previous    *)
(* link's size, then each queue is set as by a command; the next links read *)
(* the sizes of their channels from pObj->info.                             *)
Init ==
  /\ size \in [InChs -> Sizes]
  /\ prev \in [Outs -> Routes]
  /\ \A o, q \in Outs : o # q => Range(prev[o]) \cap Range(prev[q]) = {}
  /\ inCh = [c \in InChs |->
       LET mine == {o \in Outs : c \in Range(prev[o])}
           o == CHOOSE q \in mine : TRUE
       IN  IF mine = {}
           THEN [que |-> NotMapped, out |-> 0, upd |-> FALSE, info |-> size[c]]
           ELSE [que |-> o, out |-> CHOOSE i \in DOMAIN prev[o] : prev[o][i] = c,
                 upd |-> TRUE, info |-> size[c]]]
  /\ view = [o \in Outs |-> [k \in 1 .. MaxOutCh |->
               IF k \in DOMAIN prev[o] THEN size[prev[o][k]] ELSE NoSize]]
  /\ \E c \in InChs :
       frm = [f \in Frames |-> Returned(c, c)]
  /\ up = Frames /\ upq = <<>>
  /\ tpc = "recv" /\ todo = <<>> /\ unmapped = {} /\ newData = {}
  /\ full = [o \in Outs |-> <<>>] /\ busy = [o \in Outs |-> FALSE]
  /\ news = [o \in Outs |-> FALSE] /\ held = [o \in Outs |-> {}]

-----------------------------------------------------------------------------
(* The previous link: puts a frame of a channel in its full queue; one of   *)
(* another size than the last says so.                                      *)

Produce(f, c, z) ==
  /\ f \in up /\ (Resizes \/ z = size[c])
  /\ size' = [size EXCEPT ![c] = z]
  /\ up' = up \ {f}
  /\ upq' = Append(upq, f)
  /\ frm' = [frm EXCEPT ![f] = [ch |-> c, org |-> c, flag |-> z # size[c],
                                info |-> z, src |-> c, pic |-> z]]
  /\ UNCHANGED <<inCh, prev, task, full, news, next>>

-----------------------------------------------------------------------------
(* SelectLink_drvProcessFrames, in the link task.                           *)

GetFull ==
  /\ tpc = "recv" /\ upq # <<>>
  /\ todo' = upq /\ upq' = <<>>
  /\ tpc' = "frames"
  /\ UNCHANGED <<size, up, inCh, prev, frm, unmapped, newData, full,
                 news, next>>

\* Mutant: an unmapped frame is skipped and forgotten.
SkipDrop == /\ tpc = "frames" /\ todo # <<>>
            /\ inCh[frm[Head(todo)].ch].que \notin Outs
            /\ todo' = Tail(todo)
            /\ UNCHANGED <<source, inCh, prev, frm, tpc, unmapped, newData,
                           full, news, next>>

Skip == /\ tpc = "frames" /\ todo # <<>>
        /\ inCh[frm[Head(todo)].ch].que \notin Outs
        /\ unmapped' = unmapped \cup {Head(todo)}
        /\ todo' = Tail(todo)
        /\ UNCHANGED <<source, inCh, prev, frm, tpc, newData, full, news, next>>

Route ==
  /\ tpc = "frames" /\ todo # <<>>
  /\ LET f == Head(todo)
         c == frm[f].ch
         in == inCh[c]
         info == IF frm[f].flag THEN frm[f].info ELSE in.info
     IN  /\ in.que \in Outs
         /\ inCh' = [inCh EXCEPT ![c].upd = FALSE, ![c].info = info]
         /\ frm' = [frm EXCEPT ![f].flag = @ \/ in.upd,
                               ![f].info = IF in.upd THEN info ELSE @,
                               ![f].org = c,
                               ![f].ch = in.out]
         /\ full' = [full EXCEPT ![in.que] = Append(@, f)]
         /\ newData' = newData \cup {in.que}
  /\ todo' = Tail(todo)
  /\ UNCHANGED <<source, prev, tpc, unmapped, news, next>>

(* Frames of unmapped channels go straight back.                            *)
FreeUnmapped ==
  /\ tpc = "frames" /\ todo = <<>>
  /\ up' = up \cup unmapped
  /\ frm' = [f \in Frames |-> IF f \in unmapped
                              THEN Returned(frm[f].ch, frm[f].src) ELSE frm[f]]
  /\ unmapped' = {}
  /\ tpc' = "notify"
  /\ UNCHANGED <<size, upq, inCh, prev, todo, newData, full, news, next>>

Notify ==
  /\ tpc = "notify"
  /\ news' = [o \in Outs |-> news[o] \/ o \in newData]
  /\ newData' = {}
  /\ tpc' = "recv"
  /\ UNCHANGED <<source, inCh, prev, frm, todo, unmapped, full, next>>

-----------------------------------------------------------------------------
(* The next links, on SYSTEM_CMD_NEW_DATA: SelectLink_getFullFrames takes   *)
(* the frames out of the queue one by one until it is empty.                *)

BeginFetch(o) ==
  /\ news[o] /\ ~busy[o]
  /\ news' = [news EXCEPT ![o] = FALSE]
  /\ busy' = [busy EXCEPT ![o] = TRUE]
  /\ UNCHANGED <<source, inCh, prev, frm, task, full, held, view>>

\* The size next link o takes frame f to have.
Seen(o, f) == IF frm[f].flag THEN frm[f].info ELSE view[o][frm[f].ch]

Take(o) ==
  /\ busy[o] /\ full[o] # <<>>
  /\ LET f == Head(full[o])
     IN  /\ view' = [view EXCEPT ![o][frm[f].ch] = Seen(o, f)]
         /\ held' = [held EXCEPT ![o] = @ \cup {f}]
  /\ full' = [full EXCEPT ![o] = Tail(@)]
  /\ UNCHANGED <<source, inCh, prev, frm, task, news, busy>>

EndFetch(o) ==
  /\ busy[o] /\ full[o] = <<>>
  /\ busy' = [busy EXCEPT ![o] = FALSE]
  /\ UNCHANGED <<source, inCh, prev, frm, task, full, news, held, view>>

\* Mutant: looks the channel up in the routing of the moment.
RestoredByMap(f, o) ==
  IF frm[f].ch \in DOMAIN prev[o] THEN prev[o][frm[f].ch] ELSE frm[f].org

Restored(f, o) == frm[f].org

(* SelectLink_putEmptyFrames.  All but the channel number of a frame that   *)
(* is back is overwritten before it is used again.                          *)
PutEmpty(o, f) ==
  /\ f \in held[o]
  /\ held' = [held EXCEPT ![o] = @ \ {f}]
  /\ frm' = [frm EXCEPT ![f] = Returned(Restored(f, o), frm[f].src)]
  /\ up' = up \cup {f}
  /\ UNCHANGED <<size, upq, inCh, prev, task, full, news, busy, view>>

NextStep(o) == BeginFetch(o) \/ Take(o) \/ EndFetch(o)
TaskStep == GetFull \/ Skip \/ Route \/ FreeUnmapped \/ Notify

Next == \/ \E o \in Outs, s \in Routes : SetOutQue(o, s) \/ SetOutQue2(o, s)
        \/ \E f \in Frames, c \in InChs, z \in Sizes : Produce(f, c, z)
        \/ TaskStep
        \/ \E o \in Outs : NextStep(o)
        \/ \E o \in Outs, f \in Frames : PutEmpty(o, f)

Spec == Init /\ [][Next]_vars

(* The link task runs when it can (SF for GetFull, which a command of       *)
(* another caller may overtake); next links fetch what they are notified of *)
(* and give every frame back.                                               *)
FairSpec ==
  /\ Spec /\ SF_vars(TaskStep)
  /\ \A o \in Outs : /\ WF_vars(NextStep(o))
                     /\ \A f \in Frames : WF_vars(PutEmpty(o, f))

-----------------------------------------------------------------------------
(* Correctness.                                                             *)

TypeOK ==
  /\ size \in [InChs -> Sizes]
  /\ inCh \in [InChs -> [que : Outs \cup {NotMapped}, out : 0 .. MaxOutCh,
                         upd : BOOLEAN, info : Sizes]]
  /\ prev \in [Outs -> Routes]
  /\ frm \in [Frames -> [ch : InChs \cup (1 .. MaxOutCh), org : InChs,
                         flag : BOOLEAN, info : Sizes \cup {NoSize},
                         src : InChs, pic : Sizes \cup {NoSize}]]
  /\ up \subseteq Frames /\ upq \in Seq(Frames)
  /\ tpc \in {"recv", "frames", "notify"}
  /\ todo \in Seq(Frames) /\ unmapped \subseteq Frames /\ newData \subseteq Outs
  /\ full \in [Outs -> Seq(Frames)] /\ busy \in [Outs -> BOOLEAN]
  /\ news \in [Outs -> BOOLEAN] /\ held \in [Outs -> SUBSET Frames]
  /\ view \in [Outs -> [1 .. MaxOutCh -> Sizes \cup {NoSize}]]

(* A frame comes back to the previous link under the channel number it left *)
(* with, however the routing changed while it was out.                      *)
ChannelRestored == \A f \in up : frm[f].ch = frm[f].src

(* A next link never reads a picture with another size than it has: every   *)
(* change of what a channel number stands for is announced by the first     *)
(* frame after it (selectLink_tsk.c:416 and :422).                          *)
SizeIsKnown ==
  \A o \in Outs : busy[o] /\ full[o] # <<>> =>
    Seen(o, Head(full[o])) = frm[Head(full[o])].pic

(* selectLink.h:40 "Get channel ID mapped to a output que": the channels    *)
(* SELECT_LINK_CMD_GET_OUT_QUE_CH_INFO reports for a queue are the ones     *)
(* routed to it, in their order.                                            *)
InfoIsRouting ==
  \A o \in Outs, c \in InChs :
    \/ inCh[c].que # o /\ c \notin Range(prev[o])
    \/ /\ inCh[c].que = o
       /\ inCh[c].out \in DOMAIN prev[o] /\ prev[o][inCh[c].out] = c

\* The state is well typed and the reported routing is the one in force.
RoutingOK == TypeOK /\ InfoIsRouting

(* Every frame put in the link, routed or not, is given back.               *)
FramesGoHome == \A f \in Frames : f \notin up ~> f \in up
=============================================================================
