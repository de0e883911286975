------------------------------ MODULE EncLink ------------------------------
(* links_m3video/iva_enc: the video encoder.  The link task queues the      *)
(* frames of the previous link by channel, pairs them with an empty         *)
(* bit-stream buffer in a request object and puts the request in the        *)
(* processQue of the channel's IVAHD; one process task per IVAHD encodes    *)
(* batches of requests and puts them in processDoneQue, which the link task *)
(* drains when a clock tells it to.                                         *)
(*                                                                          *)
(* Requests and bit-stream buffers are counted where nothing tells them     *)
(* apart; a request in use is the sequence of frames it encodes.            *)
EXTENDS Naturals, Sequences, FiniteSets, Functions, SequencesExt

CONSTANTS
  Frames,      \* frames of the previous link
  NumCh,       \* inQueInfo.numCh
  ChOf,        \* ChOf[f]: channelNum of frame f, for which it was allocated
  NumTsk,      \* NUM_HDVICP_RESOURCES: IVAHDs, each with a process task
  TskOf,       \* ch2ProcessTskId
  PerReq,      \* PerReq[c]: frames in a request, 2 when fields are merged
  ReqPerCh,    \* numReqObjPerProcess
  Codec,       \* Codec[c]: codec and content type of the channel
  BatchMax,    \* BatchMax[c]: its maxBatchSize, 1 for a wide picture
  MaxReq,      \* ENC_LINK_MAX_REQ
  ProcLen,     \* length of a processQue
  NumBufs,     \* bit-stream buffers
  MaxList,     \* bound on the lists drained at a time
  MbxLen       \* bound: messages waiting in the link's mailbox

Chs == 0 .. NumCh - 1
Tsks == 0 .. NumTsk - 1

ASSUME EncAssumption ==
  /\ IsFiniteSet(Frames) /\ NumCh \in Nat \ {0} /\ ChOf \in [Frames -> Chs]
  /\ NumTsk \in Nat \ {0} /\ TskOf \in [Chs -> Tsks]
  /\ PerReq \in [Chs -> {1, 2}] /\ ReqPerCh \in [Chs -> {1, 2}]
  /\ BatchMax \in [Chs -> Nat \ {0}] /\ DOMAIN Codec = Chs
  /\ {MaxReq, ProcLen, NumBufs, MaxList, MbxLen} \subseteq Nat \ {0}

VARIABLES
  up, upq,      \* frames the previous link owns; its full queue
  mbx,          \* commands waiting for the link task
  inQue,        \* chObj[c].inQue
  reqQue,       \* requests in reqQue
  reqQueCount,  \* pObj->reqQueCount
  procQue,      \* encProcessTsk[t].processQue
  forced,       \* its forceUnblockGet
  ppc, batch,   \* process task t: point, reqObjBatch
  doneQue,      \* processDoneQue
  empty,        \* bit-stream buffers in the empty queue of bufOutQue
  out,          \* in its full queue or with the next link
  lpc, ch, n, ok,       \* the link task: point, loop indices, status
  frames, bufs, spare,  \* lists it is about to give back: input frames,
                        \* filled buffers, buffers left empty
  state, clk,   \* pObj->state; periodicObj.clkStarted
  ctl, stopped  \* command of the application under way; one was given

source == <<up, upq>>
requests == <<reqQue, reqQueCount>>
codec == <<ppc, batch, forced>>
buffers == <<empty, out>>
lists == <<frames, bufs, spare>>
loop == <<ch, n, ok>>
admin == <<state, clk, ctl, stopped>>
vars == <<source, mbx, inQue, requests, procQue, codec, doneQue, buffers,
          lpc, loop, lists, admin>>

(* EncLink_codecCreate.                                                     *)
Init ==
  /\ up = Frames /\ upq = <<>> /\ mbx = <<>>
  /\ inQue = [c \in Chs |-> <<>>]
  /\ reqQue = MaxReq /\ reqQueCount = 0
  /\ procQue = [t \in Tsks |-> <<>>] /\ forced = [t \in Tsks |-> FALSE]
  /\ ppc = [t \in Tsks |-> "loop"] /\ batch = [t \in Tsks |-> <<>>]
  /\ doneQue = <<>>
  /\ empty = NumBufs /\ out = 0
  /\ lpc = "recv" /\ ch = 0 /\ n = 0 /\ ok = FALSE
  /\ frames = {} /\ bufs = 0 /\ spare = 0
  /\ state = "START" /\ clk = TRUE
  /\ ctl = "idle" /\ stopped = FALSE

Chan(r) == ChOf[r[1]]

\* x is before y in s.
Earlier(s, x, y) == \E i, j \in DOMAIN s : i < j /\ s[i] = x /\ s[j] = y

-----------------------------------------------------------------------------
(* Process task t (EncLink_codecProcessTskFxn).                             *)

(* It has something to do: not asleep in Utils_queGet or in the codec.      *)
Ready(t) == \/ ppc[t] \in {"loop", "get"}
            \/ ppc[t] = "wait" /\ (procQue[t] # <<>> \/ forced[t])

\* Mutant: the link task may run between two steps of a process task.
SamePriority == TRUE

(* The process tasks have the higher priority (IVASVR_TSK_PRI, line 994).   *)
LinkMayRun == \A t \in Tsks : ~Ready(t)

Loop(t) ==
  /\ ppc[t] = "loop"
  /\ ppc' = [ppc EXCEPT ![t] = IF state = "STOP" THEN "end" ELSE "get"]
  /\ UNCHANGED <<source, mbx, inQue, requests, procQue, batch, forced,
                 doneQue, buffers, lpc, loop, lists, admin>>

(* Utils_queGet finds the queue empty and sleeps.                           *)
Sleep(t) ==
  /\ ppc[t] = "get" /\ procQue[t] = <<>>
  /\ ppc' = [ppc EXCEPT ![t] = "wait"]
  /\ UNCHANGED <<source, mbx, inQue, requests, procQue, batch, forced,
                 doneQue, buffers, lpc, loop, lists, admin>>

\* Mutant: a repeated channel does not end the batch.
FitsRepeated(q, k) ==
  /\ k <= BatchMax[Chan(q[1])]
  /\ \A i \in 1 .. k : Codec[Chan(q[i])] = Codec[Chan(q[1])]
  /\ \A i \in 2 .. k : BatchMax[Chan(q[i])] > 1

(* The first k requests of q can be encoded together.                       *)
Fits(q, k) ==
  /\ k <= BatchMax[Chan(q[1])]
  /\ \A i \in 1 .. k : Codec[Chan(q[i])] = Codec[Chan(q[1])]
  /\ \A i \in 2 .. k : BatchMax[Chan(q[i])] > 1
  /\ \A i, j \in 1 .. k : i # j => Chan(q[i]) # Chan(q[j])

\* With them the batch is full, or the next one does not fit.
Fills(q, k) == Fits(q, k) /\ (k < Len(q) => ~Fits(q, k + 1))

CanGet(t) == /\ procQue[t] # <<>>
             /\ ppc[t] = "get" \/ (ppc[t] = "wait" /\ ~forced[t])

\* Mutant: the newest requests are taken first.
PrepareBatchNewest(t) ==
  /\ CanGet(t)
  /\ LET q == Reverse(procQue[t])
     IN  \E k \in DOMAIN q :
           /\ Fills(q, k)
           /\ batch' = [batch EXCEPT ![t] = SubSeq(q, 1, k)]
           /\ procQue' = [procQue EXCEPT ![t] = Reverse(SubSeq(q, k + 1, Len(q)))]
  /\ ppc' = [ppc EXCEPT ![t] = "codec"]
  /\ UNCHANGED <<source, mbx, inQue, requests, forced, doneQue, buffers,
                 lpc, loop, lists, admin>>

(* Utils_queGet returns a request; EncLink_PrepareBatch adds the ones that  *)
(* follow as long as they fit; EncLink_SubmitBatch starts the codec.  No    *)
(* other task reads or writes processQue in between.                        *)
PrepareBatch(t) ==
  /\ CanGet(t)
  /\ \E k \in DOMAIN procQue[t] :
       /\ Fills(procQue[t], k)
       /\ batch' = [batch EXCEPT ![t] = SubSeq(procQue[t], 1, k)]
       /\ procQue' = [procQue EXCEPT ![t] = SubSeq(@, k + 1, Len(@))]
  /\ ppc' = [ppc EXCEPT ![t] = "codec"]
  /\ UNCHANGED <<source, mbx, inQue, requests, forced, doneQue, buffers,
                 lpc, loop, lists, admin>>

(* Utils_queGet returns without a request: nothing is submitted.            *)
ForcedGet(t) ==
  /\ ppc[t] = "wait" /\ forced[t]
  /\ forced' = [forced EXCEPT ![t] = FALSE]
  /\ ppc' = [ppc EXCEPT ![t] = "loop"]
  /\ UNCHANGED <<source, mbx, inQue, requests, procQue, batch, doneQue,
                 buffers, lpc, loop, lists, admin>>

(* The IVAHD has finished, well or not (errors are only printed), and the   *)
(* task puts the batch in processDoneQue.                                   *)
PutDone(t) ==
  /\ ppc[t] = "codec"
  /\ doneQue' = doneQue \o batch[t]
  /\ batch' = [batch EXCEPT ![t] = <<>>]
  /\ ppc' = [ppc EXCEPT ![t] = "loop"]
  /\ UNCHANGED <<source, mbx, inQue, requests, procQue, forced, buffers,
                 lpc, loop, lists, admin>>

ProcessStep(t) == \/ Loop(t) \/ Sleep(t) \/ PrepareBatch(t) \/ ForcedGet(t)
                  \/ PutDone(t)

(* Utils_queUnBlock on the processQues of T: reaches a task that sleeps.    *)
UnBlocked(T) ==
  [t \in Tsks |-> forced[t] \/ (t \in T /\ ppc[t] = "wait" /\ procQue[t] = <<>>)]

-----------------------------------------------------------------------------
(* The link task: new data (EncLink_codecProcessData).                      *)

Recv(cmd) ==
  /\ LinkMayRun /\ lpc = "recv" /\ mbx # <<>> /\ Head(mbx) = cmd
  /\ mbx' = Tail(mbx)

RecvNewData ==
  /\ Recv("NEW_DATA")
  /\ lpc' = "queue"
  /\ UNCHANGED <<source, inQue, requests, procQue, codec, doneQue, buffers,
                 loop, lists, admin>>

\* Some of q, in the order of q, which holds nothing twice.
Sublists(q) ==
  {s \in SetToAllKPermutations(Range(q)) :
     \A x, y \in Range(s) : Earlier(s, x, y) => Earlier(q, x, y)}

(* Frames are queued by channel; those of a field or at a rate that is not  *)
(* wanted, or of a disabled channel, are given back at once.                *)
QueueFrames ==
  /\ LinkMayRun /\ lpc = "queue"
  /\ \E new \in [Chs -> Sublists(upq)] :
       /\ \A c \in Chs : \A f \in Range(new[c]) : ChOf[f] = c
       /\ inQue' = [c \in Chs |-> inQue[c] \o new[c]]
       /\ up' = up \cup (Range(upq) \ UNION {Range(new[c]) : c \in Chs})
  /\ upq' = <<>>
  /\ lpc' = "submit" /\ ch' = 0 /\ n' = 0 /\ ok' = FALSE
  /\ UNCHANGED <<mbx, requests, procQue, codec, doneQue, buffers, lists, admin>>

(* EncLink_codecSubmitData: each channel in turn, numReqObjPerProcess times.*)
Submitting == LinkMayRun /\ lpc = "submit" /\ ch < NumCh

NextTurn == IF n + 1 < ReqPerCh[ch] THEN n' = n + 1 /\ ch' = ch
                                    ELSE n' = 0 /\ ch' = ch + 1

NoRequest ==
  /\ Submitting /\ reqQue = 0
  /\ ok' = FALSE /\ n' = 0 /\ ch' = ch + 1
  /\ UNCHANGED <<source, mbx, inQue, requests, procQue, codec, doneQue,
                 buffers, lpc, lists, admin>>

HasFrames == Len(inQue[ch]) >= PerReq[ch]
First == SubSeq(inQue[ch], 1, PerReq[ch])
Rest == [inQue EXCEPT ![ch] = SubSeq(@, PerReq[ch] + 1, Len(@))]
Room == Len(procQue[TskOf[ch]]) < ProcLen

Submit ==
  /\ Submitting /\ reqQue > 0 /\ HasFrames /\ Room /\ empty > 0
  /\ reqQue' = reqQue - 1 /\ reqQueCount' = reqQueCount + 1
  /\ inQue' = Rest
  /\ empty' = empty - 1
  /\ procQue' = [procQue EXCEPT ![TskOf[ch]] = Append(@, First)]
  /\ ok' = TRUE /\ NextTurn
  /\ UNCHANGED <<source, mbx, codec, doneQue, out, lpc, lists, admin>>

\* Mutant: frames that find no buffer are forgotten.
DropForget ==
  /\ Submitting /\ reqQue > 0 /\ HasFrames /\ ~(Room /\ empty > 0)
  /\ inQue' = Rest
  /\ ok' = FALSE /\ NextTurn
  /\ UNCHANGED <<source, mbx, requests, procQue, codec, doneQue, buffers,
                 lpc, lists, admin>>

(* No buffer, or a full processQue: the frames are to be given back and the *)
(* request returns to reqQue.                                               *)
Drop ==
  /\ Submitting /\ reqQue > 0 /\ HasFrames /\ ~(Room /\ empty > 0)
  /\ inQue' = Rest
  /\ frames' = frames \cup Range(First)
  /\ ok' = FALSE /\ NextTurn
  /\ UNCHANGED <<source, mbx, requests, procQue, codec, doneQue, buffers,
                 lpc, bufs, spare, admin>>

NoFrames ==
  /\ Submitting /\ reqQue > 0 /\ ~HasFrames
  /\ ok' = FALSE /\ NextTurn
  /\ UNCHANGED <<source, mbx, inQue, requests, procQue, codec, doneQue,
                 buffers, lpc, lists, admin>>

(* The dropped frames go back; another pass follows if the last channel's   *)
(* last turn submitted a request.                                           *)
EndSubmit ==
  /\ LinkMayRun /\ lpc = "submit" /\ ch = NumCh
  /\ up' = up \cup frames /\ frames' = {}
  /\ lpc' = (IF ok THEN "submit" ELSE "recv")
  /\ ch' = 0 /\ n' = 0 /\ ok' = FALSE
  /\ UNCHANGED <<upq, mbx, inQue, requests, procQue, codec, doneQue, buffers,
                 bufs, spare, admin>>

-----------------------------------------------------------------------------
(* The link task: finished requests (EncLink_codecGetProcessedData).        *)

IsTick(cmd) == cmd = "GET_PROCESSED_DATA"

(* Repeated commands at the head of the mailbox are flushed.                *)
RecvGetProcessed ==
  /\ LinkMayRun /\ lpc = "recv" /\ mbx # <<>> /\ IsTick(Head(mbx))
  /\ \E k \in 1 .. Len(mbx) :
       /\ \A i \in 1 .. k : IsTick(mbx[i])
       /\ k < Len(mbx) => ~IsTick(mbx[k + 1])
       /\ mbx' = SubSeq(mbx, k + 1, Len(mbx))
  /\ lpc' = "drain"
  /\ UNCHANGED <<source, inQue, requests, procQue, codec, doneQue, buffers,
                 loop, lists, admin>>

Drainable == doneQue # <<>> /\ Cardinality(frames) < MaxList - 1
                            /\ bufs < MaxList - 1

\* Mutant: an empty bit-stream buffer is neither sent nor returned.
DrainLeak ==
  /\ LinkMayRun /\ lpc = "drain" /\ Drainable
  /\ doneQue' = Tail(doneQue)
  /\ frames' = frames \cup Range(Head(doneQue))
  /\ \/ bufs' = bufs + 1
     \/ bufs' = bufs
  /\ reqQue' = reqQue + 1 /\ reqQueCount' = reqQueCount - 1
  /\ UNCHANGED <<source, mbx, inQue, procQue, codec, buffers, lpc, loop,
                 spare, admin>>

(* A buffer the codec left empty (fillLength = 0) is not sent on.           *)
Drain ==
  /\ LinkMayRun /\ lpc = "drain" /\ Drainable
  /\ doneQue' = Tail(doneQue)
  /\ frames' = frames \cup Range(Head(doneQue))
  /\ \/ bufs' = bufs + 1 /\ UNCHANGED spare
     \/ spare' = spare + 1 /\ UNCHANGED bufs
  /\ reqQue' = reqQue + 1 /\ reqQueCount' = reqQueCount - 1
  /\ UNCHANGED <<source, mbx, inQue, procQue, codec, buffers, lpc, loop, admin>>

(* The command under way has been received.                                 *)
Stopping == ctl # "idle" /\ ctl \notin Range(mbx)

(* Full buffers to the output queue, frames to the previous link, the other *)
(* buffers to the empty queue: queues of three owners, none read between.   *)
PutDrained ==
  /\ LinkMayRun /\ lpc = "drain" /\ ~Drainable
  /\ out' = out + bufs /\ empty' = empty + spare
  /\ up' = up \cup frames
  /\ frames' = {} /\ bufs' = 0 /\ spare' = 0
  /\ lpc' = IF Stopping THEN "stop" ELSE "recv"
  /\ UNCHANGED <<upq, mbx, inQue, requests, procQue, codec, doneQue, loop,
                 admin>>

-----------------------------------------------------------------------------
(* The link task: stop and delete (EncLink_codecStop, EncLink_codecDelete). *)

RecvStop ==
  /\ Recv("STOP") \/ Recv("DELETE")
  /\ forced' = UnBlocked(Tsks)
  /\ lpc' = "stop"
  /\ UNCHANGED <<source, inQue, requests, procQue, ppc, batch, doneQue,
                 buffers, loop, lists, admin>>

(* Utils_tskWaitCmd: other commands are answered and forgotten.             *)
WaitCmd ==
  /\ LinkMayRun /\ lpc = "stop" /\ reqQue # MaxReq /\ mbx # <<>>
  /\ mbx' = Tail(mbx)
  /\ lpc' = IF IsTick(Head(mbx)) THEN "drain" ELSE "stop"
  /\ UNCHANGED <<source, inQue, requests, procQue, codec, doneQue, buffers,
                 loop, lists, admin>>

\* Mutant: not all requests have to be back.
FreeTooSoon ==
  /\ LinkMayRun /\ lpc = "stop" /\ reqQue > 0
  /\ up' = up \cup Range(upq) /\ upq' = <<>>
  /\ \/ ctl = "STOP" /\ ctl' = "idle" /\ lpc' = "recv"
     \/ ctl = "DELETE" /\ UNCHANGED ctl /\ lpc' = "delete"
  /\ UNCHANGED <<mbx, inQue, requests, procQue, codec, doneQue, buffers,
                 loop, lists, state, clk, stopped>>

(* EncLink_codecFreeInQueuedBufs, once every request is back in reqQue: the *)
(* previous link's queue is emptied; the channels' inQues are not.  STOP is *)
(* acknowledged; DELETE goes on.                                            *)
FreeInQueuedBufs ==
  /\ LinkMayRun /\ lpc = "stop" /\ reqQue = MaxReq
  /\ up' = up \cup Range(upq) /\ upq' = <<>>
  /\ \/ ctl = "STOP" /\ ctl' = "idle" /\ lpc' = "recv"
     \/ ctl = "DELETE" /\ UNCHANGED ctl /\ lpc' = "delete"
  /\ UNCHANGED <<mbx, inQue, requests, procQue, codec, doneQue, buffers,
                 loop, lists, state, clk, stopped>>

Delete ==
  /\ LinkMayRun /\ lpc = "delete"
  /\ clk' = FALSE /\ state' = "STOP"
  /\ lpc' = "unblock" /\ n' = 0
  /\ UNCHANGED <<source, mbx, inQue, requests, procQue, codec, doneQue,
                 buffers, ch, ok, lists, ctl, stopped>>

(* EncLink_codecDeleteProcessTsk, task by task (n is tskId): wake it, wait  *)
(* until it has ended.  Nobody waits for room in, or data of, the queues it *)
(* unblocks besides.                                                        *)
UnBlockTsk ==
  /\ LinkMayRun /\ lpc = "unblock" /\ n < NumTsk
  /\ forced' = UnBlocked({n})
  /\ lpc' = "join"
  /\ UNCHANGED <<source, mbx, inQue, requests, procQue, ppc, batch, doneQue,
                 buffers, loop, lists, admin>>

JoinTsk ==
  /\ LinkMayRun /\ lpc = "join" /\ ppc[n] = "end"
  /\ n' = n + 1
  /\ lpc' = "unblock"
  /\ UNCHANGED <<source, mbx, inQue, requests, procQue, codec, doneQue,
                 buffers, ch, ok, lists, admin>>

Deleted ==
  /\ LinkMayRun /\ lpc = "unblock" /\ n = NumTsk
  /\ lpc' = "deleted" /\ ctl' = "idle"
  /\ UNCHANGED <<source, mbx, inQue, requests, procQue, codec, doneQue,
                 buffers, loop, lists, state, clk, stopped>>

LinkStep == \/ RecvNewData \/ QueueFrames
            \/ NoRequest \/ Submit \/ Drop \/ NoFrames \/ EndSubmit
            \/ RecvGetProcessed \/ Drain \/ PutDrained
            \/ RecvStop \/ WaitCmd \/ FreeInQueuedBufs
            \/ Delete \/ UnBlockTsk \/ JoinTsk \/ Deleted

-----------------------------------------------------------------------------
(* The others: the previous link, the clock, the next link, the application.*)

InMbx(cmd) == cmd \in Range(mbx)

(* A frame (a list is several in a row) and its notification, which is lost *)
(* when the mailbox is full.                                                *)
Send(f) ==
  /\ lpc # "deleted" /\ f \in up
  /\ up' = up \ {f} /\ upq' = Append(upq, f)
  /\ mbx' = IF Len(mbx) < MbxLen THEN Append(mbx, "NEW_DATA") ELSE mbx
  /\ UNCHANGED <<inQue, requests, procQue, codec, doneQue, buffers, lpc, loop,
                 lists, admin>>

(* EncLink_codecPrdCalloutFcn.  Bound: one command of the clock unread.     *)
Tick ==
  /\ clk /\ ~InMbx("GET_PROCESSED_DATA") /\ Len(mbx) < MbxLen
  /\ mbx' = Append(mbx, "GET_PROCESSED_DATA")
  /\ UNCHANGED <<source, inQue, requests, procQue, codec, doneQue, buffers,
                 lpc, loop, lists, admin>>

(* The next link takes a full buffer and gives it back.                     *)
NextReturn ==
  /\ out > 0
  /\ out' = out - 1 /\ empty' = empty + 1
  /\ UNCHANGED <<source, mbx, inQue, requests, procQue, codec, doneQue, lpc,
                 loop, lists, admin>>

(* STOP once, then or instead of it DELETE; each waits for its answer.      *)
Command(cmd) ==
  /\ ctl = "idle" /\ lpc # "deleted" /\ (cmd = "STOP" => ~stopped)
  /\ Len(mbx) < MbxLen
  /\ ctl' = cmd /\ stopped' = TRUE
  /\ mbx' = Append(mbx, cmd)
  /\ UNCHANGED <<source, inQue, requests, procQue, codec, doneQue, buffers,
                 lpc, loop, lists, state, clk>>

Next == \/ LinkStep
        \/ \E t \in Tsks : ProcessStep(t)
        \/ \E f \in Frames : Send(f)
        \/ Tick \/ NextReturn
        \/ \E cmd \in {"STOP", "DELETE"} : Command(cmd)

Spec == Init /\ [][Next]_vars

(* Tasks that may run do (SF: the link task is kept off by the others), the *)
(* codec returns, the clock fires and does not find the mailbox full every  *)
(* time, and the previous link sends on the frames it gets.                 *)
FairSpec ==
  /\ Spec
  /\ SF_vars(LinkStep) /\ SF_vars(Tick)
  /\ \A t \in Tsks : WF_vars(ProcessStep(t))
  /\ WF_vars(\E f \in Frames : Send(f))

-----------------------------------------------------------------------------
(* Correctness.                                                             *)

Requests == [1 .. 1 -> Frames] \cup [1 .. 2 -> Frames]

TypeOK ==
  /\ up \subseteq Frames /\ upq \in Seq(Frames)
  /\ mbx \in Seq({"NEW_DATA", "GET_PROCESSED_DATA", "STOP", "DELETE"})
  /\ inQue \in [Chs -> Seq(Frames)]
  /\ reqQue \in 0 .. MaxReq /\ reqQueCount \in 0 .. MaxReq
  /\ procQue \in [Tsks -> Seq(Requests)] /\ forced \in [Tsks -> BOOLEAN]
  /\ ppc \in [Tsks -> {"loop", "get", "wait", "codec", "end"}]
  /\ batch \in [Tsks -> Seq(Requests)] /\ doneQue \in Seq(Requests)
  /\ {empty, out} \subseteq 0 .. NumBufs
  /\ lpc \in {"recv", "queue", "submit", "drain", "stop",
              "delete", "unblock", "join", "deleted"}
  /\ ch \in 0 .. NumCh /\ n \in Nat /\ ok \in BOOLEAN
  /\ frames \subseteq Frames /\ {bufs, spare} \subseteq Nat
  /\ state \in {"START", "STOP"} /\ clk \in BOOLEAN
  /\ ctl \in {"idle", "STOP", "DELETE"} /\ stopped \in BOOLEAN

\* The requests submitted and not back in reqQue.
OutReqs == Range(doneQue)
             \cup UNION {Range(procQue[t]) \cup Range(batch[t]) : t \in Tsks}
Submitted == Cardinality(OutReqs)

(* No request object is lost or made, and reqQueCount is the number that    *)
(* are out of reqQue: stopping waits for all of them to be back             *)
(* (encLink_common.c:1675).                                                 *)
RequestsConserved ==
  /\ reqQue + Submitted = MaxReq
  /\ reqQueCount = Submitted

(* No bit-stream buffer is lost or made, filled or not, encoded or dropped. *)
BufsConserved == empty + out + bufs + spare + Submitted = NumBufs

(* The codecs never get two frames of a channel at a time ("i.e. no channel *)
(* number should get repeated within the same Batch", encLink_common.c:897),*)
(* in one batch or in the batches of two process tasks.                     *)
ChannelEncodedOnce ==
  \A t, u \in Tsks : \A i \in DOMAIN batch[t], j \in DOMAIN batch[u] :
    Chan(batch[t][i]) = Chan(batch[u][j]) => t = u /\ i = j

(* When the encoder is deleted, no codec and no queue holds a request, and  *)
(* every bit-stream buffer is in the output object that is freed or with    *)
(* the next link.                                                           *)
NothingLeftInCodec ==
  lpc \in {"delete", "unblock", "join", "deleted"} =>
    /\ \A t \in Tsks : procQue[t] = <<>> /\ batch[t] = <<>>
    /\ doneQue = <<>>
    /\ empty + out = NumBufs

\* The requests on the way of channel c's, the first to leave the link first.
Line(c) == doneQue \o batch[TskOf[c]] \o procQue[TskOf[c]]

InRequest(f) == \E r \in Range(Line(ChOf[f])) : f \in Range(r)
InPipe(f) == InRequest(f) \/ f \in Range(inQue[ChOf[f]])

\* Frame f leaves the link before frame g of the same channel.
Before(f, g) ==
  LET line == Line(ChOf[f]) IN
  \/ \E r, s \in Range(line) : /\ f \in Range(r) /\ g \in Range(s)
                               /\ Earlier(line, r, s)
  \/ \E r \in Range(line) : Earlier(r, f, g)
  \/ InRequest(f) /\ g \in Range(inQue[ChOf[f]])
  \/ Earlier(inQue[ChOf[f]], f, g)

(* The pictures of a channel are encoded and handed on in the order they    *)
(* came in: frames may be dropped, but none passes another, and one that    *)
(* comes in comes behind those that are there.                              *)
InOrder ==
  [][\A f, g \in Frames :
       /\ ChOf[f] = ChOf[g] /\ InPipe(f) /\ (InPipe(g) => Before(f, g))
       /\ InPipe(f)' /\ InPipe(g)'
       => Before(f, g)'
    ]_<<inQue, procQue, batch, doneQue>>

Carried(q) == UNION {Range(r) : r \in Range(q)}

\* No frame is twice in q, a queue of requests.
EachOnce(q) ==
  /\ IsInjective(q) /\ \A r \in Range(q) : IsInjective(r)
  /\ \A r, s \in Range(q) : r # s => Range(r) \cap Range(s) = {}

\* Every place a frame can be in, and the frames there.
Spots == {<<"up", 0>>, <<"upq", 0>>, <<"list", 0>>, <<"done", 0>>}
           \cup {<<"in", c>> : c \in Chs}
           \cup {<<"batch", t>> : t \in Tsks} \cup {<<"proc", t>> : t \in Tsks}

At == [p \in Spots |-> CASE p[1] = "up"    -> up
                         [] p[1] = "upq"   -> Range(upq)
                         [] p[1] = "list"  -> frames
                         [] p[1] = "done"  -> Carried(doneQue)
                         [] p[1] = "in"    -> Range(inQue[p[2]])
                         [] p[1] = "batch" -> Carried(batch[p[2]])
                         [] OTHER          -> Carried(procQue[p[2]])]

(* Every frame is in one place: none is overwritten by the previous link    *)
(* while it waits or is encoded, none goes home twice, none is forgotten.   *)
FramesConserved ==
  /\ \A f \in Frames : Cardinality({p \in Spots : f \in At[p]}) = 1
  /\ IsInjective(upq) /\ \A c \in Chs : IsInjective(inQue[c])
  /\ EachOnce(doneQue)
  /\ \A t \in Tsks : EachOnce(batch[t]) /\ EachOnce(procQue[t])

\* The state is well typed; no request, buffer or frame is lost or made.
Conserved == TypeOK /\ RequestsConserved /\ BufsConserved /\ FramesConserved

(* While the link runs, a frame that is encoded by itself goes home, even   *)
(* if it has to wait for a request, a buffer or room: by being encoded or   *)
(* by being dropped.  Stopping may leave frames in inQue.                   *)
FramesGoHome ==
  \A f \in Frames : PerReq[ChOf[f]] = 1 =>
    (f \notin up ~> f \in up \/ stopped)

(* STOP and DELETE return: the requests come back, woken by the clock, and  *)
(* the process tasks end although the wake-up reaches only one that sleeps. *)
CommandsReturn == ctl # "idle" ~> ctl = "idle"
=============================================================================
