---------------------------- MODULE EncLinkProofs ----------------------------
(* Theorems about EncLink for any frames, channels, IVAHDs, requests,       *)
(* buffers and batch sizes.                                                 *)
EXTENDS EncLink, QueueLemmas

-----------------------------------------------------------------------------
(* The inductive invariant.                                                 *)

PlacesInv ==
  /\ InOnePlace(At, Frames)
  /\ IsInjective(upq) /\ \A c \in Chs : IsInjective(inQue[c])
  /\ EachOnce(doneQue)
  /\ \A t \in Tsks : EachOnce(batch[t]) /\ EachOnce(procQue[t])

CountInv == IsFiniteSet(OutReqs) /\ RequestsConserved /\ BufsConserved

\* A request carries frames of one channel, and waits for or is with the
\* channel's IVAHD.
OneChannel(r) == \A f \in Range(r) : ChOf[f] = Chan(r)

ChanInv ==
  /\ \A c \in Chs : \A f \in Range(inQue[c]) : ChOf[f] = c
  /\ \A r \in Range(doneQue) : OneChannel(r)
  /\ \A t \in Tsks :
       /\ \A r \in Range(procQue[t]) : OneChannel(r) /\ TskOf[Chan(r)] = t
       /\ \A r \in Range(batch[t]) : OneChannel(r) /\ TskOf[Chan(r)] = t

BatchInv == \A t \in Tsks :
  /\ ppc[t] # "codec" => batch[t] = <<>>
  /\ \A i, j \in DOMAIN batch[t] : i # j => Chan(batch[t][i]) # Chan(batch[t][j])

\* After the last request has come back none is made; buffers are in the
\* link task's lists only while it collects.
EndInv == /\ lpc \in {"delete", "unblock", "join", "deleted"} => OutReqs = {}
          /\ lpc # "drain" => bufs = 0 /\ spare = 0

IInv == TypeOK /\ PlacesInv /\ CountInv /\ ChanInv /\ BatchInv /\ EndInv

-----------------------------------------------------------------------------
(* Requests and queues of requests.                                         *)

LEMMA RequestFrames ==
  ASSUME NEW r \in Requests
  PROVE  /\ r \in Seq(Frames) /\ Range(r) \subseteq Frames
         /\ 1 \in DOMAIN r /\ r[1] \in Range(r) /\ r[1] \in Frames /\ r # <<>>
<1>1. \E k \in {1, 2} : r \in [1 .. k -> Frames]
  BY DEF Requests
<1>2. PICK k \in {1, 2} : r \in [1 .. k -> Frames]
  BY <1>1
<1>3. r \in Seq(Frames) /\ DOMAIN r = 1 .. k /\ Len(r) = k
  BY <1>2
<1> QED
  BY <1>2, <1>3, EmptySeq DEF Range

LEMMA JoinQueues ==
  ASSUME NEW p \in Seq(Requests), NEW q \in Seq(Requests)
  PROVE  /\ Range(p \o q) = Range(p) \cup Range(q)
         /\ Carried(p \o q) = Carried(p) \cup Carried(q)
         /\ EachOnce(p \o q) <=>
              EachOnce(p) /\ EachOnce(q) /\ Carried(p) \cap Carried(q) = {}
<1>1. /\ Range(p \o q) = Range(p) \cup Range(q)
      /\ IsInjective(p \o q) <=> /\ IsInjective(p) /\ IsInjective(q)
                                 /\ Range(p) \cap Range(q) = {}
  BY ConcatLists
<1>2. Carried(p \o q) = Carried(p) \cup Carried(q)
  BY <1>1 DEF Carried
<1>3. Range(p) \subseteq Requests /\ Range(q) \subseteq Requests
  BY ListEmpty
<1>4. \A r \in Requests : r[1] \in Range(r)
  BY RequestFrames
<1>5. ASSUME EachOnce(p \o q)
      PROVE  EachOnce(p) /\ EachOnce(q) /\ Carried(p) \cap Carried(q) = {}
  <2>1. EachOnce(p) /\ EachOnce(q)
    BY <1>1, <1>5 DEF EachOnce
  <2>2. \A r \in Range(p), s \in Range(q) : Range(r) \cap Range(s) = {}
    BY <1>1, <1>5 DEF EachOnce
  <2> QED
    BY <2>1, <2>2 DEF Carried
<1>6. ASSUME EachOnce(p), EachOnce(q), Carried(p) \cap Carried(q) = {}
      PROVE  EachOnce(p \o q)
  <2>1. \A r \in Range(p), s \in Range(q) : Range(r) \cap Range(s) = {}
    BY <1>6 DEF Carried
  <2>2. Range(p) \cap Range(q) = {}
    BY <1>3, <1>4, <2>1
  <2>3. IsInjective(p \o q)
    BY <1>1, <1>6, <2>2 DEF EachOnce
  <2> QED
    BY <1>1, <1>6, <2>1, <2>3 DEF EachOnce
<1> QED
  BY <1>1, <1>2, <1>5, <1>6

LEMMA OneRequest ==
  /\ Carried(<<>>) = {} /\ EachOnce(<<>>) /\ Range(<<>>) = {}
  /\ \A r \in Requests : /\ <<r>> \in Seq(Requests) /\ Range(<<r>>) = {r}
                         /\ Carried(<<r>>) = Range(r)
                         /\ EachOnce(<<r>>) <=> IsInjective(r)
<1>1. /\ Range(<<>>) = {} /\ IsInjective(<<>>)
      /\ \A r \in Requests : /\ <<r>> \in Seq(Requests) /\ Range(<<r>>) = {r}
                             /\ IsInjective(<<r>>)
  BY ShortLists
<1> QED
  BY <1>1 DEF Carried, EachOnce

(* A request is put at the end of a queue.                                  *)
LEMMA PutRequest ==
  ASSUME NEW q \in Seq(Requests), NEW r \in Requests
  PROVE  /\ Append(q, r) \in Seq(Requests)
         /\ Range(Append(q, r)) = Range(q) \cup {r}
         /\ Carried(Append(q, r)) = Carried(q) \cup Range(r)
         /\ EachOnce(q) /\ IsInjective(r) /\ Carried(q) \cap Range(r) = {} =>
              EachOnce(Append(q, r))
<1>1. Append(q, r) = q \o <<r>> /\ <<r>> \in Seq(Requests)
  BY AppendIsConcat, OneRequest
<1>2. Append(q, r) \in Seq(Requests)
  BY AppendProperties
<1>3. /\ Range(<<r>>) = {r} /\ Carried(<<r>>) = Range(r)
      /\ EachOnce(<<r>>) <=> IsInjective(r)
  BY OneRequest
<1>4. /\ Range(q \o <<r>>) = Range(q) \cup Range(<<r>>)
      /\ Carried(q \o <<r>>) = Carried(q) \cup Carried(<<r>>)
      /\ EachOnce(q \o <<r>>) <=>
           EachOnce(q) /\ EachOnce(<<r>>) /\ Carried(q) \cap Carried(<<r>>) = {}
  BY <1>1, JoinQueues
<1> QED
  BY <1>1, <1>2, <1>3, <1>4

(* A queue is split in two.                                                 *)
LEMMA SplitQueue ==
  ASSUME NEW p \in Seq(Requests), NEW s \in Seq(Requests), EachOnce(p \o s)
  PROVE  /\ EachOnce(p) /\ EachOnce(s)
         /\ Range(p \o s) = Range(p) \cup Range(s) /\ Range(p) \cap Range(s) = {}
         /\ Carried(p \o s) = Carried(p) \cup Carried(s)
         /\ Carried(p) \cap Carried(s) = {}
<1>1. /\ EachOnce(p) /\ EachOnce(s) /\ Carried(p) \cap Carried(s) = {}
      /\ Range(p \o s) = Range(p) \cup Range(s)
      /\ Carried(p \o s) = Carried(p) \cup Carried(s)
  BY JoinQueues
<1>2. Range(p) \cap Range(s) = {}
  BY ConcatLists DEF EachOnce
<1> QED
  BY <1>1, <1>2

(* The first request is taken.                                              *)
LEMMA TakeRequest ==
  ASSUME NEW q \in Seq(Requests), q # <<>>
  PROVE  /\ Head(q) \in Requests /\ Tail(q) \in Seq(Requests)
         /\ <<Head(q)>> \in Seq(Requests) /\ q = <<Head(q)>> \o Tail(q)
<1>1. Head(q) \in Requests /\ Tail(q) \in Seq(Requests)
  BY HeadTailProperties
<1>2. q = <<Head(q)>> \o Tail(q)
  BY <1>1, HeadTailProperties, ConcatProperties, SeqEqual
<1> QED
  BY <1>1, <1>2, OneRequest

-----------------------------------------------------------------------------
(* The places.                                                              *)

LEMMA AtHolds ==
  /\ DOMAIN At = Spots
  /\ <<"up", 0>> \in Spots /\ At[<<"up", 0>>] = up
  /\ <<"upq", 0>> \in Spots /\ At[<<"upq", 0>>] = Range(upq)
  /\ <<"list", 0>> \in Spots /\ At[<<"list", 0>>] = frames
  /\ <<"done", 0>> \in Spots /\ At[<<"done", 0>>] = Carried(doneQue)
  /\ \A c \in Chs : <<"in", c>> \in Spots /\ At[<<"in", c>>] = Range(inQue[c])
  /\ \A t \in Tsks :
       /\ <<"batch", t>> \in Spots /\ At[<<"batch", t>>] = Carried(batch[t])
       /\ <<"proc", t>> \in Spots /\ At[<<"proc", t>>] = Carried(procQue[t])
BY DEF At, Spots

LEMMA AtHoldsNext ==
  /\ DOMAIN At' = Spots
  /\ At'[<<"up", 0>>] = up' /\ At'[<<"upq", 0>>] = Range(upq')
  /\ At'[<<"list", 0>>] = frames' /\ At'[<<"done", 0>>] = Carried(doneQue')
  /\ \A c \in Chs : At'[<<"in", c>>] = Range(inQue'[c])
  /\ \A t \in Tsks : /\ At'[<<"batch", t>>] = Carried(batch'[t])
                     /\ At'[<<"proc", t>>] = Carried(procQue'[t])
<1>1. At' = [p \in Spots |-> CASE p[1] = "up"    -> up'
                               [] p[1] = "upq"   -> Range(upq')
                               [] p[1] = "list"  -> frames'
                               [] p[1] = "done"  -> Carried(doneQue')
                               [] p[1] = "in"    -> Range(inQue'[p[2]])
                               [] p[1] = "batch" -> Carried(batch'[p[2]])
                               [] OTHER          -> Carried(procQue'[p[2]])]
  BY DEF At, Spots, Carried
<1> QED
  BY <1>1 DEF Spots

(* The frames of M go from place p to place q; the others hold what they    *)
(* held.                                                                    *)
LEMMA Moves ==
  ASSUME InOnePlace(At, Frames), NEW M, NEW p \in Spots, NEW q \in Spots,
         p # q, M \subseteq At[p],
         \A y \in Frames : y \in At'[p] <=> y \in At[p] /\ y \notin M,
         \A y \in Frames : y \in At'[q] <=> y \in At[q] \/ y \in M,
         <<"up", 0>> \notin {p, q} => up' = up,
         <<"upq", 0>> \notin {p, q} => upq' = upq,
         <<"list", 0>> \notin {p, q} => frames' = frames,
         <<"done", 0>> \notin {p, q} => doneQue' = doneQue,
         \A c \in Chs : <<"in", c>> \notin {p, q} => inQue'[c] = inQue[c],
         \A t \in Tsks : <<"batch", t>> \notin {p, q} => batch'[t] = batch[t],
         \A t \in Tsks : <<"proc", t>> \notin {p, q} => procQue'[t] = procQue[t]
  PROVE  InOnePlace(At', Frames)
<1>1. ASSUME NEW r \in Spots, r # p, r # q PROVE At'[r] = At[r]
  <2>1. CASE r \in {<<"up", 0>>, <<"upq", 0>>, <<"list", 0>>, <<"done", 0>>}
    BY <1>1, <2>1, AtHolds, AtHoldsNext
  <2>2. CASE \E c \in Chs : r = <<"in", c>>
    <3>1. PICK c \in Chs : r = <<"in", c>>
      BY <2>2
    <3>2. inQue'[c] = inQue[c]
      BY <1>1, <3>1
    <3>3. At'[r] = Range(inQue'[c]) /\ At[r] = Range(inQue[c])
      BY <3>1, AtHolds, AtHoldsNext
    <3> QED
      BY <3>2, <3>3
  <2>3. CASE \E t \in Tsks : r = <<"batch", t>>
    <3>1. PICK t \in Tsks : r = <<"batch", t>>
      BY <2>3
    <3>2. batch'[t] = batch[t]
      BY <1>1, <3>1
    <3>3. At'[r] = Carried(batch'[t]) /\ At[r] = Carried(batch[t])
      BY <3>1, AtHolds, AtHoldsNext
    <3> QED
      BY <3>2, <3>3
  <2>4. CASE \E t \in Tsks : r = <<"proc", t>>
    <3>1. PICK t \in Tsks : r = <<"proc", t>>
      BY <2>4
    <3>2. procQue'[t] = procQue[t]
      BY <1>1, <3>1
    <3>3. At'[r] = Carried(procQue'[t]) /\ At[r] = Carried(procQue[t])
      BY <3>1, AtHolds, AtHoldsNext
    <3> QED
      BY <3>2, <3>3
  <2> QED
    BY <1>1, <2>1, <2>2, <2>3, <2>4 DEF Spots
<1>2. DOMAIN At = Spots /\ DOMAIN At' = Spots
  BY AtHolds, AtHoldsNext
<1> DEFINE at == At
           next == At'
<1>3. /\ InOnePlace(at, Frames) /\ DOMAIN next = DOMAIN at
      /\ p \in DOMAIN at /\ q \in DOMAIN at /\ p # q /\ M \subseteq at[p]
      /\ \A y \in Frames : y \in next[p] <=> y \in at[p] /\ y \notin M
      /\ \A y \in Frames : y \in next[q] <=> y \in at[q] \/ y \in M
      /\ \A r \in DOMAIN at : r # p /\ r # q => next[r] = at[r]
  BY <1>1, <1>2
<1>4. InOnePlace(next, Frames)
  <2> HIDE DEF at, next
  <2> QED
    BY <1>3, MoveSome
<1> QED
  BY <1>4

(* What is in two places is in one.                                         *)
LEMMA Apart ==
  ASSUME PlacesInv, NEW f \in Frames, NEW p \in Spots, NEW q \in Spots,
         f \in At[p], f \in At[q]
  PROVE  p = q
BY AtHolds, SamePlace DEF PlacesInv

-----------------------------------------------------------------------------
(* The start, and the steps that move no frame.                             *)

LEMMA InitInv == Init => IInv
<1> SUFFICES ASSUME Init PROVE IInv
  OBVIOUS
<1>1. /\ Range(<<>>) = {} /\ IsInjective(<<>>) /\ Carried(<<>>) = {} /\ EachOnce(<<>>)
      /\ \A S : <<>> \in Seq(S)
  BY ShortLists, OneRequest
<1>2. /\ up = Frames /\ upq = <<>> /\ frames = {} /\ doneQue = <<>>
      /\ \A c \in Chs : inQue[c] = <<>>
      /\ \A t \in Tsks : batch[t] = <<>> /\ procQue[t] = <<>>
  BY DEF Init
<1>3. TypeOK
  <2>1. 0 \in 0 .. MaxReq /\ MaxReq \in 0 .. MaxReq /\ 0 \in 0 .. NumBufs
        /\ NumBufs \in 0 .. NumBufs /\ 0 \in 0 .. NumCh
    BY EncAssumption
  <2>2. /\ up \subseteq Frames /\ frames \subseteq Frames
        /\ reqQue \in 0 .. MaxReq /\ reqQueCount \in 0 .. MaxReq
        /\ {empty, out} \subseteq 0 .. NumBufs /\ {bufs, spare} \subseteq Nat
        /\ ch \in 0 .. NumCh /\ n \in Nat
    BY <2>1 DEF Init
  <2>3. /\ upq \in Seq(Frames) /\ inQue \in [Chs -> Seq(Frames)]
        /\ mbx \in Seq({"NEW_DATA", "GET_PROCESSED_DATA", "STOP", "DELETE"})
        /\ procQue \in [Tsks -> Seq(Requests)]
        /\ batch \in [Tsks -> Seq(Requests)] /\ doneQue \in Seq(Requests)
    BY <1>1 DEF Init
  <2>4. /\ forced \in [Tsks -> BOOLEAN]
        /\ ppc \in [Tsks -> {"loop", "get", "wait", "codec", "end"}]
        /\ lpc \in {"recv", "queue", "submit", "drain", "stop",
                    "delete", "unblock", "join", "deleted"}
        /\ ok \in BOOLEAN /\ state \in {"START", "STOP"} /\ clk \in BOOLEAN
        /\ ctl \in {"idle", "STOP", "DELETE"} /\ stopped \in BOOLEAN
    BY DEF Init
  <2> QED
    BY <2>2, <2>3, <2>4 DEF TypeOK
<1>4. InOnePlace(At, Frames)
  <2>1. \A q \in Spots : At[q] = IF q = <<"up", 0>> THEN Frames ELSE {}
    <3>1. \A c \in Chs : At[<<"in", c>>] = {}
      BY <1>1, <1>2, AtHolds
    <3>2. \A t \in Tsks : At[<<"batch", t>>] = {} /\ At[<<"proc", t>>] = {}
      BY <1>1, <1>2, AtHolds
    <3>3. /\ At[<<"up", 0>>] = Frames /\ At[<<"upq", 0>>] = {}
          /\ At[<<"list", 0>>] = {} /\ At[<<"done", 0>>] = {}
      BY <1>1, <1>2, AtHolds
    <3> QED
      BY <3>1, <3>2, <3>3 DEF Spots
  <2> QED
    BY <2>1, AtHolds DEF InOnePlace
<1>5. PlacesInv
  BY <1>1, <1>2, <1>4 DEF PlacesInv
<1>6. OutReqs = {}
  BY <1>1, <1>2 DEF OutReqs
<1>7. IsFiniteSet(OutReqs) /\ Submitted = 0
  BY <1>6, FS_EmptySet DEF Submitted
<1>8. CountInv
  BY <1>7, EncAssumption DEF Init, CountInv, RequestsConserved, BufsConserved
<1>9. ChanInv
  BY <1>1, <1>2 DEF ChanInv
<1>10. BatchInv
  BY <1>2 DEF BatchInv
<1>11. EndInv
  BY <1>6 DEF EndInv, Init
<1> QED
  BY <1>3, <1>5, <1>8, <1>9, <1>10, <1>11 DEF IInv

LEMMA SameAt ==
  ASSUME UNCHANGED <<up, upq, frames, inQue, doneQue, procQue, batch>>
  PROVE  At' = At
BY DEF At, Spots, Carried

LEMMA SameReqs ==
  ASSUME UNCHANGED <<doneQue, procQue, batch>>
  PROVE  OutReqs' = OutReqs /\ Submitted' = Submitted
<1>1. OutReqs' = OutReqs
  BY DEF OutReqs
<1> QED
  BY <1>1 DEF Submitted

\* The step moves no frame, no request and no buffer.
Still == /\ UNCHANGED <<up, upq, frames, inQue, doneQue, procQue, batch>>
         /\ UNCHANGED <<reqQue, reqQueCount, empty, out, bufs, spare>>

LEMMA StillInv ==
  ASSUME IInv, Still, TypeOK',
         \A t \in Tsks : ppc[t] = "codec" => ppc'[t] = "codec",
         lpc' \in {"delete", "unblock", "join", "deleted"} =>
           lpc \in {"delete", "unblock", "join", "deleted"} \/ OutReqs = {},
         lpc' # "drain" => lpc # "drain"
  PROVE  IInv'
<1>1. At' = At /\ OutReqs' = OutReqs /\ Submitted' = Submitted
  BY SameAt, SameReqs DEF Still
<1>2. PlacesInv'
  BY <1>1 DEF IInv, PlacesInv, Still
<1>3. CountInv'
  BY <1>1 DEF IInv, CountInv, RequestsConserved, BufsConserved, Still
<1>4. ChanInv'
  BY DEF IInv, ChanInv, Still, OneChannel
<1>5. BatchInv'
  BY DEF IInv, BatchInv, Still
<1>6. EndInv'
  BY <1>1 DEF IInv, EndInv, Still
<1> QED
  BY <1>2, <1>3, <1>4, <1>5, <1>6 DEF IInv

Commands == {"NEW_DATA", "GET_PROCESSED_DATA", "STOP", "DELETE"}

LEMMA MailboxTyped ==
  ASSUME TypeOK
  PROVE  /\ mbx # <<>> => Tail(mbx) \in Seq(Commands)
         /\ \A c \in Commands : Append(mbx, c) \in Seq(Commands)
         /\ \A k \in 1 .. Len(mbx) : SubSeq(mbx, k + 1, Len(mbx)) \in Seq(Commands)
<1>1. mbx \in Seq(Commands)
  BY DEF TypeOK, Commands
<1>2. Len(mbx) \in Nat
  BY <1>1, LenProperties
<1>3. ASSUME NEW k \in 1 .. Len(mbx)
      PROVE  SubSeq(mbx, k + 1, Len(mbx)) \in Seq(Commands)
  BY <1>1, <1>2, SplitList
<1> QED
  BY <1>1, <1>3, HeadTailProperties, AppendProperties

\* A type for each variable that a step which moves no frame can change.
StillTyped ==
  /\ mbx' \in Seq(Commands) /\ forced' \in [Tsks -> BOOLEAN]
  /\ ppc' \in [Tsks -> {"loop", "get", "wait", "codec", "end"}]
  /\ lpc' \in {"recv", "queue", "submit", "drain", "stop",
               "delete", "unblock", "join", "deleted"}
  /\ ch' \in 0 .. NumCh /\ n' \in Nat /\ ok' \in BOOLEAN
  /\ state' \in {"START", "STOP"} /\ clk' \in BOOLEAN
  /\ ctl' \in {"idle", "STOP", "DELETE"} /\ stopped' \in BOOLEAN

LEMMA StillTypeOK == ASSUME TypeOK, Still, StillTyped PROVE TypeOK'
  BY DEF TypeOK, Still, StillTyped, Commands

\* The steps that move no frame: of a process task, of the link task, of the
\* others.
QuietProcess(t) == Loop(t) \/ Sleep(t) \/ ForcedGet(t)
QuietLink == \/ RecvNewData \/ NoRequest \/ NoFrames \/ RecvGetProcessed
             \/ RecvStop \/ WaitCmd \/ Delete \/ UnBlockTsk \/ JoinTsk \/ Deleted
QuietOther == Tick \/ \E cmd \in {"STOP", "DELETE"} : Command(cmd)

LEMMA QuietProcessInv ==
  ASSUME NEW t \in Tsks PROVE IInv /\ QuietProcess(t) => IInv'
<1> SUFFICES ASSUME IInv, QuietProcess(t) PROVE IInv'
  OBVIOUS
<1> USE DEF source, requests, codec, buffers, lists, loop, admin
<1>1. TypeOK
  BY DEF IInv
<1>2. /\ Still /\ UNCHANGED <<mbx, lpc, loop, admin>>
      /\ \A u \in Tsks : ppc[u] = "codec" => ppc'[u] = "codec"
  BY <1>1 DEF QuietProcess, Loop, Sleep, ForcedGet, Still, TypeOK
<1>3. /\ ppc' \in [Tsks -> {"loop", "get", "wait", "codec", "end"}]
      /\ forced' \in [Tsks -> BOOLEAN]
  BY <1>1 DEF QuietProcess, Loop, Sleep, ForcedGet, TypeOK
<1>4. StillTyped
  BY <1>1, <1>2, <1>3 DEF TypeOK, StillTyped, Commands
<1> QED
  BY <1>1, <1>2, <1>4, StillTypeOK, StillInv

LEMMA QuietOtherInv == IInv /\ QuietOther => IInv'
<1> SUFFICES ASSUME IInv, QuietOther PROVE IInv'
  OBVIOUS
<1> USE DEF source, requests, codec, buffers, lists, loop, admin
<1>1. TypeOK
  BY DEF IInv
<1>2. /\ Still /\ UNCHANGED <<lpc, loop, codec, state, clk>>
      /\ ctl' \in {"idle", "STOP", "DELETE"} /\ stopped' \in BOOLEAN
      /\ \E cmd \in Commands : mbx' = Append(mbx, cmd)
  BY <1>1 DEF QuietOther, Tick, Command, Still, TypeOK, Commands
<1>3. StillTyped
  BY <1>1, <1>2, MailboxTyped DEF TypeOK, StillTyped
<1> QED
  BY <1>1, <1>2, <1>3, StillTypeOK, StillInv

LEMMA QuietLinkInv == IInv /\ QuietLink => IInv'
<1> SUFFICES ASSUME IInv, QuietLink PROVE IInv'
  OBVIOUS
<1> USE DEF source, requests, codec, buffers, lists, loop, admin
<1>1. TypeOK
  BY DEF IInv
<1>2. Still
  BY DEF QuietLink, RecvNewData, NoRequest, NoFrames, RecvGetProcessed, RecvStop,
         WaitCmd, Delete, UnBlockTsk, JoinTsk, Deleted, Recv, Still
<1>3. ppc' = ppc
  BY DEF QuietLink, RecvNewData, NoRequest, NoFrames, RecvGetProcessed, RecvStop,
         WaitCmd, Delete, UnBlockTsk, JoinTsk, Deleted
<1>4. /\ lpc' \in {"delete", "unblock", "join", "deleted"} =>
           lpc \in {"delete", "unblock", "join", "deleted"}
      /\ lpc' # "drain" => lpc # "drain"
      /\ lpc' \in {"recv", "queue", "submit", "drain", "stop",
                  "delete", "unblock", "join", "deleted"}
  BY <1>1 DEF QuietLink, RecvNewData, NoRequest, NoFrames, RecvGetProcessed, RecvStop,
              WaitCmd, Delete, UnBlockTsk, JoinTsk, Deleted, Recv, Submitting, TypeOK
<1>5. mbx' \in Seq(Commands)
  <2>1. \/ mbx' = mbx
        \/ mbx # <<>> /\ mbx' = Tail(mbx)
        \/ \E k \in 1 .. Len(mbx) : mbx' = SubSeq(mbx, k + 1, Len(mbx))
    BY DEF QuietLink, RecvNewData, NoRequest, NoFrames, RecvGetProcessed, RecvStop,
           WaitCmd, Delete, UnBlockTsk, JoinTsk, Deleted, Recv
  <2>2. mbx \in Seq(Commands)
    BY <1>1 DEF TypeOK, Commands
  <2> QED
    BY <1>1, <2>1, <2>2, MailboxTyped
<1>6. ch' \in 0 .. NumCh /\ n' \in Nat
  <2>1. ch \in 0 .. NumCh /\ n \in Nat /\ NumCh \in Nat
    BY <1>1, EncAssumption DEF TypeOK
  <2> QED
    BY <2>1 DEF QuietLink, RecvNewData, NoRequest, NoFrames, RecvGetProcessed,
                RecvStop, WaitCmd, Delete, UnBlockTsk, JoinTsk, Deleted, Submitting,
                NextTurn
<1>7. ok' \in BOOLEAN
  BY <1>1 DEF QuietLink, RecvNewData, NoRequest, NoFrames, RecvGetProcessed, RecvStop,
              WaitCmd, Delete, UnBlockTsk, JoinTsk, Deleted, TypeOK
<1>8. forced' \in [Tsks -> BOOLEAN]
  <2>1. \A T : UnBlocked(T) \in [Tsks -> BOOLEAN]
    BY <1>1 DEF UnBlocked, TypeOK
  <2> QED
    BY <1>1, <2>1 DEF QuietLink, RecvNewData, NoRequest, NoFrames, RecvGetProcessed,
                RecvStop, WaitCmd, Delete, UnBlockTsk, JoinTsk, Deleted, TypeOK
<1>9. /\ state' \in {"START", "STOP"} /\ clk' \in BOOLEAN
      /\ ctl' \in {"idle", "STOP", "DELETE"} /\ stopped' \in BOOLEAN
  BY <1>1 DEF QuietLink, RecvNewData, NoRequest, NoFrames, RecvGetProcessed, RecvStop,
              WaitCmd, Delete, UnBlockTsk, JoinTsk, Deleted, TypeOK
<1>10. StillTyped
  BY <1>1, <1>3, <1>4, <1>5, <1>6, <1>7, <1>8, <1>9 DEF TypeOK, StillTyped
<1> QED
  BY <1>1, <1>2, <1>3, <1>4, <1>10, StillTypeOK, StillInv

-----------------------------------------------------------------------------
(* Frames that are in no request, and buffers.                              *)

LEMMA SameRequestsInv ==
  ASSUME IInv, TypeOK', UNCHANGED <<doneQue, procQue, batch, ppc, reqQue, reqQueCount>>,
         InOnePlace(At', Frames), IsInjective(upq'),
         \A c \in Chs : /\ IsInjective(inQue'[c])
                        /\ \A f \in Range(inQue'[c]) : ChOf[f] = c,
         empty' + out' + bufs' + spare' = empty + out + bufs + spare,
         lpc' \in {"delete", "unblock", "join", "deleted"} =>
           lpc \in {"delete", "unblock", "join", "deleted"} \/ OutReqs = {},
         lpc' # "drain" => bufs' = 0 /\ spare' = 0
  PROVE  IInv'
<1>1. OutReqs' = OutReqs /\ Submitted' = Submitted
  BY SameReqs
<1>2. PlacesInv'
  BY DEF IInv, PlacesInv, EachOnce
<1>3. CountInv'
  BY <1>1 DEF IInv, CountInv, RequestsConserved, BufsConserved
<1>4. ChanInv'
  BY DEF IInv, ChanInv, OneChannel
<1>5. BatchInv'
  BY DEF IInv, BatchInv
<1>6. EndInv'
  BY <1>1 DEF IInv, EndInv
<1> QED
  BY <1>2, <1>3, <1>4, <1>5, <1>6 DEF IInv

LEMMA SendInv == ASSUME NEW f \in Frames PROVE IInv /\ Send(f) => IInv'
<1> SUFFICES ASSUME IInv, Send(f) PROVE IInv'
  OBVIOUS
<1> USE DEF source, requests, codec, buffers, lists, loop, admin
<1>1. TypeOK /\ PlacesInv
  BY DEF IInv
<1>2. f \in up /\ up' = up \ {f} /\ upq' = Append(upq, f)
  BY DEF Send
<1>3. f \notin Range(upq)
  BY <1>1, <1>2, AtHolds, Apart
<1>4. /\ upq' \in Seq(Frames) /\ IsInjective(upq')
      /\ \A x : x \in Range(upq') <=> x \in Range(upq) \/ x = f
  BY <1>1, <1>2, <1>3, PutLast DEF TypeOK, PlacesInv
<1>5. InOnePlace(At', Frames)
  <2> DEFINE p == <<"up", 0>>
             q == <<"upq", 0>>
  <2>1. p \in Spots /\ q \in Spots /\ p # q /\ {f} \subseteq At[p]
    BY <1>2, AtHolds
  <2>2. \A y \in Frames : y \in At'[p] <=> y \in At[p] /\ y \notin {f}
    BY <1>2, AtHolds, AtHoldsNext
  <2>3. \A y \in Frames : y \in At'[q] <=> y \in At[q] \/ y \in {f}
    BY <1>4, AtHolds, AtHoldsNext
  <2>4. /\ <<"up", 0>> \notin {p, q} => up' = up
        /\ <<"upq", 0>> \notin {p, q} => upq' = upq
        /\ <<"list", 0>> \notin {p, q} => frames' = frames
        /\ <<"done", 0>> \notin {p, q} => doneQue' = doneQue
        /\ \A c \in Chs : <<"in", c>> \notin {p, q} => inQue'[c] = inQue[c]
        /\ \A t \in Tsks : <<"batch", t>> \notin {p, q} => batch'[t] = batch[t]
        /\ \A t \in Tsks : <<"proc", t>> \notin {p, q} => procQue'[t] = procQue[t]
    BY DEF Send
  <2>5. InOnePlace(At, Frames)
    BY <1>1 DEF PlacesInv
  <2> HIDE DEF p, q
  <2> QED
    BY <2>1, <2>2, <2>3, <2>4, <2>5, Moves
<1>6. TypeOK'
  <2>1. mbx' \in Seq(Commands)
    BY <1>1, MailboxTyped DEF Send, TypeOK, Commands
  <2> QED
    BY <1>1, <1>2, <1>4, <2>1 DEF Send, TypeOK, Commands
<1> QED
  BY <1>1, <1>4, <1>5, <1>6, SameRequestsInv DEF Send, IInv, PlacesInv, ChanInv, EndInv

(* Frames on the link task's list go home.                                  *)
LEMMA ListGoesHome ==
  ASSUME IInv, up' = up \cup frames, frames' = {},
         UNCHANGED <<upq, inQue, doneQue, procQue, batch>>
  PROVE  InOnePlace(At', Frames)
<1> DEFINE p == <<"list", 0>>
           q == <<"up", 0>>
<1>1. p \in Spots /\ q \in Spots /\ p # q /\ frames \subseteq At[p]
  BY AtHolds
<1>2. \A y \in Frames : y \in At'[p] <=> y \in At[p] /\ y \notin frames
  BY AtHolds, AtHoldsNext
<1>3. \A y \in Frames : y \in At'[q] <=> y \in At[q] \/ y \in frames
  BY AtHolds, AtHoldsNext
<1>4. /\ <<"up", 0>> \notin {p, q} => up' = up
      /\ <<"upq", 0>> \notin {p, q} => upq' = upq
      /\ <<"list", 0>> \notin {p, q} => frames' = frames
      /\ <<"done", 0>> \notin {p, q} => doneQue' = doneQue
      /\ \A c \in Chs : <<"in", c>> \notin {p, q} => inQue'[c] = inQue[c]
      /\ \A t \in Tsks : <<"batch", t>> \notin {p, q} => batch'[t] = batch[t]
      /\ \A t \in Tsks : <<"proc", t>> \notin {p, q} => procQue'[t] = procQue[t]
  OBVIOUS
<1>5. InOnePlace(At, Frames)
  BY DEF IInv, PlacesInv
<1> HIDE DEF p, q
<1> QED
  BY <1>1, <1>2, <1>3, <1>4, <1>5, Moves

LEMMA EndSubmitInv == IInv /\ EndSubmit => IInv'
<1> SUFFICES ASSUME IInv, EndSubmit PROVE IInv'
  OBVIOUS
<1> USE DEF source, requests, codec, buffers, lists, loop, admin
<1>1. TypeOK /\ EndInv
  BY DEF IInv
<1>2. InOnePlace(At', Frames)
  BY ListGoesHome DEF EndSubmit
<1>3. TypeOK'
  <2>1. 0 \in 0 .. NumCh
    BY EncAssumption
  <2> QED
    BY <1>1, <2>1 DEF EndSubmit, TypeOK
<1>4. lpc = "submit" /\ lpc' \in {"submit", "recv"}
  BY DEF EndSubmit
<1>5. bufs' = 0 /\ spare' = 0 /\ empty' = empty /\ out' = out /\ bufs = 0 /\ spare = 0
  BY <1>1, <1>4 DEF EndInv, EndSubmit
<1> QED
  BY <1>2, <1>3, <1>4, <1>5, SameRequestsInv DEF EndSubmit, IInv, PlacesInv, ChanInv

LEMMA PutDrainedInv == IInv /\ PutDrained => IInv'
<1> SUFFICES ASSUME IInv, PutDrained PROVE IInv'
  OBVIOUS
<1> USE DEF source, requests, codec, buffers, lists, loop, admin
<1>1. TypeOK /\ CountInv
  BY DEF IInv
<1>2. InOnePlace(At', Frames)
  BY ListGoesHome DEF PutDrained
<1>3. empty \in Nat /\ out \in Nat /\ bufs \in Nat /\ spare \in Nat /\ NumBufs \in Nat
  BY <1>1, EncAssumption DEF TypeOK
<1>4. Submitted \in Nat
  BY <1>1, FS_CardinalityType DEF CountInv, Submitted
<1>5. empty + out + bufs + spare + Submitted = NumBufs
  BY <1>1 DEF CountInv, BufsConserved
<1>6. out' = out + bufs /\ empty' = empty + spare /\ bufs' = 0 /\ spare' = 0
  BY DEF PutDrained
<1>7. /\ empty' \in 0 .. NumBufs /\ out' \in 0 .. NumBufs
      /\ empty' + out' + bufs' + spare' = empty + out + bufs + spare
  BY <1>3, <1>4, <1>5, <1>6
<1>8. lpc' \in {"stop", "recv"}
  BY DEF PutDrained
<1>9. TypeOK'
  <2>1. up' \subseteq Frames /\ frames' \subseteq Frames
    BY <1>1 DEF PutDrained, TypeOK
  <2>2. {empty', out'} \subseteq 0 .. NumBufs /\ {bufs', spare'} \subseteq Nat
    BY <1>6, <1>7
  <2> QED
    BY <1>1, <1>8, <2>1, <2>2 DEF PutDrained, TypeOK
<1> QED
  BY <1>2, <1>6, <1>7, <1>8, <1>9, SameRequestsInv DEF PutDrained, IInv, PlacesInv, ChanInv

LEMMA NextReturnInv == IInv /\ NextReturn => IInv'
<1> SUFFICES ASSUME IInv, NextReturn PROVE IInv'
  OBVIOUS
<1> USE DEF source, requests, codec, buffers, lists, loop, admin
<1>1. TypeOK /\ CountInv
  BY DEF IInv
<1>2. InOnePlace(At', Frames)
  BY SameAt DEF NextReturn, IInv, PlacesInv
<1>3. empty \in Nat /\ out \in Nat /\ bufs \in Nat /\ spare \in Nat /\ NumBufs \in Nat
  BY <1>1, EncAssumption DEF TypeOK
<1>4. Submitted \in Nat
  BY <1>1, FS_CardinalityType DEF CountInv, Submitted
<1>5. empty + out + bufs + spare + Submitted = NumBufs
  BY <1>1 DEF CountInv, BufsConserved
<1>6. out > 0 /\ out' = out - 1 /\ empty' = empty + 1 /\ bufs' = bufs /\ spare' = spare
  BY DEF NextReturn
<1>7. /\ empty' \in 0 .. NumBufs /\ out' \in 0 .. NumBufs
      /\ empty' + out' + bufs' + spare' = empty + out + bufs + spare
  BY <1>3, <1>4, <1>5, <1>6
<1>8. TypeOK'
  BY <1>1, <1>6, <1>7 DEF NextReturn, TypeOK
<1> QED
  BY <1>2, <1>6, <1>7, <1>8, SameRequestsInv DEF NextReturn, IInv, PlacesInv, ChanInv, EndInv

(* Frames that were never fetched go home when the link stops; only when    *)
(* every request is back does a deletion go on.                             *)
LEMMA FreeInQueuedBufsInv == IInv /\ FreeInQueuedBufs => IInv'
<1> SUFFICES ASSUME IInv, FreeInQueuedBufs PROVE IInv'
  OBVIOUS
<1> USE DEF source, requests, codec, buffers, lists, loop, admin
<1>1. TypeOK /\ PlacesInv /\ CountInv /\ EndInv
  BY DEF IInv
<1>2. up' = up \cup Range(upq) /\ upq' = <<>> /\ Range(<<>>) = {} /\ IsInjective(<<>>)
      /\ <<>> \in Seq(Frames)
  BY ShortLists DEF FreeInQueuedBufs
<1>3. Range(upq) \subseteq Frames
  BY <1>1, ListEmpty DEF TypeOK
<1>4. InOnePlace(At', Frames)
  <2> DEFINE p == <<"upq", 0>>
             q == <<"up", 0>>
  <2>1. p \in Spots /\ q \in Spots /\ p # q /\ Range(upq) \subseteq At[p]
    BY AtHolds
  <2>2. \A y \in Frames : y \in At'[p] <=> y \in At[p] /\ y \notin Range(upq)
    BY <1>2, AtHolds, AtHoldsNext
  <2>3. \A y \in Frames : y \in At'[q] <=> y \in At[q] \/ y \in Range(upq)
    BY <1>2, AtHolds, AtHoldsNext
  <2>4. /\ <<"up", 0>> \notin {p, q} => up' = up
        /\ <<"upq", 0>> \notin {p, q} => upq' = upq
        /\ <<"list", 0>> \notin {p, q} => frames' = frames
        /\ <<"done", 0>> \notin {p, q} => doneQue' = doneQue
        /\ \A c \in Chs : <<"in", c>> \notin {p, q} => inQue'[c] = inQue[c]
        /\ \A t \in Tsks : <<"batch", t>> \notin {p, q} => batch'[t] = batch[t]
        /\ \A t \in Tsks : <<"proc", t>> \notin {p, q} => procQue'[t] = procQue[t]
    BY DEF FreeInQueuedBufs
  <2>5. InOnePlace(At, Frames)
    BY <1>1 DEF PlacesInv
  <2> HIDE DEF p, q
  <2> QED
    BY <2>1, <2>2, <2>3, <2>4, <2>5, Moves
<1>5. TypeOK'
  BY <1>1, <1>2, <1>3 DEF FreeInQueuedBufs, TypeOK
<1>6. OutReqs = {}
  <2>1. IsFiniteSet(OutReqs) /\ reqQue + Cardinality(OutReqs) = MaxReq /\ reqQue = MaxReq
    BY <1>1 DEF CountInv, RequestsConserved, Submitted, FreeInQueuedBufs
  <2>2. Cardinality(OutReqs) \in Nat /\ MaxReq \in Nat
    BY <2>1, FS_CardinalityType, EncAssumption
  <2>3. Cardinality(OutReqs) = 0
    BY <2>1, <2>2
  <2> QED
    BY <2>1, <2>3, FS_EmptySet
<1>7. lpc = "stop" /\ bufs = 0 /\ spare = 0
  BY <1>1 DEF FreeInQueuedBufs, EndInv
<1> QED
  BY <1>2, <1>4, <1>5, <1>6, <1>7, SameRequestsInv
     DEF FreeInQueuedBufs, IInv, PlacesInv, ChanInv

LEMMA SublistHolds ==
  ASSUME NEW q \in Seq(Frames), NEW s \in Sublists(q)
  PROVE  s \in Seq(Frames) /\ IsInjective(s) /\ Range(s) \subseteq Range(q)
<1>1. PICK S \in SUBSET Range(q) : s \in SetToSeqs(S)
  BY DEF Sublists, SetToAllKPermutations
<1>2. Range(q) \subseteq Frames
  BY ListEmpty
<1>3. IsFiniteSet(S)
  BY <1>2, EncAssumption, FS_Subset
<1>4. Cardinality(S) \in Nat
  BY <1>3, FS_CardinalityType
<1>5. /\ s \in [1 .. Cardinality(S) -> S]
      /\ \A i, j \in 1 .. Cardinality(S) : i # j => s[i] # s[j]
  BY <1>1 DEF SetToSeqs
<1>6. s \in Seq(S) /\ DOMAIN s = 1 .. Cardinality(S)
  BY <1>4, <1>5
<1>7. s \in Seq(Frames)
  BY <1>2, <1>4, <1>5
<1>8. IsInjective(s)
  BY <1>5, <1>6 DEF IsInjective
<1>9. Range(s) \subseteq S
  BY <1>5, <1>6 DEF Range
<1> QED
  BY <1>7, <1>8, <1>9

LEMMA QueueFramesInv == IInv /\ QueueFrames => IInv'
<1> SUFFICES ASSUME IInv, QueueFrames PROVE IInv'
  OBVIOUS
<1> USE DEF source, requests, codec, buffers, lists, loop, admin
<1>1. TypeOK /\ PlacesInv /\ ChanInv /\ EndInv
  BY DEF IInv
<1>2. PICK new \in [Chs -> Sublists(upq)] :
        /\ \A c \in Chs : \A f \in Range(new[c]) : ChOf[f] = c
        /\ inQue' = [c \in Chs |-> inQue[c] \o new[c]]
        /\ up' = up \cup (Range(upq) \ UNION {Range(new[c]) : c \in Chs})
  BY DEF QueueFrames
<1>3. upq' = <<>> /\ Range(<<>>) = {} /\ IsInjective(<<>>) /\ <<>> \in Seq(Frames)
  BY ShortLists DEF QueueFrames
<1>4. upq \in Seq(Frames) /\ Range(upq) \subseteq Frames
  BY <1>1, ListEmpty DEF TypeOK
<1>5. \A c \in Chs : /\ new[c] \in Seq(Frames) /\ IsInjective(new[c])
                     /\ Range(new[c]) \subseteq Range(upq)
  BY <1>4, SublistHolds
<1>6. ASSUME NEW c \in Chs
      PROVE  /\ inQue'[c] \in Seq(Frames) /\ IsInjective(inQue'[c])
             /\ Range(inQue'[c]) = Range(inQue[c]) \cup Range(new[c])
  <2>1. inQue[c] \in Seq(Frames) /\ IsInjective(inQue[c]) /\ Range(inQue[c]) \subseteq Frames
    BY <1>1, ListEmpty DEF TypeOK, PlacesInv
  <2>2. \A f \in Frames : ~(f \in Range(inQue[c]) /\ f \in Range(upq))
    <3>1. <<"in", c>> # <<"upq", 0>>
      OBVIOUS
    <3> QED
      BY <1>1, <3>1, AtHolds, Apart
  <2>3. Range(inQue[c]) \cap Range(new[c]) = {}
    BY <1>5, <2>1, <2>2
  <2>4. inQue'[c] = inQue[c] \o new[c]
    BY <1>2
  <2>5. inQue[c] \o new[c] \in Seq(Frames)
    BY <1>5, <2>1, ConcatProperties
  <2> QED
    BY <1>5, <2>1, <2>3, <2>4, <2>5, ConcatLists
<1>7. InOnePlace(At', Frames)
  <2>1. ASSUME NEW f \in Frames
        PROVE  \E r \in Spots : \A t \in Spots : f \in At'[t] <=> t = r
    <3>1. PICK s \in Spots : \A t \in Spots : f \in At[t] <=> t = s
      BY <1>1, AtHolds DEF PlacesInv, InOnePlace
    <3>2. /\ f \in At'[<<"up", 0>>] <=>
               \/ f \in up
               \/ f \in Range(upq) /\ \A c \in Chs : f \notin Range(new[c])
          /\ f \notin At'[<<"upq", 0>>]
          /\ \A c \in Chs : f \in At'[<<"in", c>>] <=>
               f \in Range(inQue[c]) \/ f \in Range(new[c])
      BY <1>2, <1>3, <1>6, AtHoldsNext
    <3>3. /\ At'[<<"list", 0>>] = At[<<"list", 0>>]
          /\ At'[<<"done", 0>>] = At[<<"done", 0>>]
          /\ \A t \in Tsks : /\ At'[<<"batch", t>>] = At[<<"batch", t>>]
                             /\ At'[<<"proc", t>>] = At[<<"proc", t>>]
      BY AtHolds, AtHoldsNext DEF QueueFrames
    <3>4. CASE f \notin Range(upq)
      <4>1. \A c \in Chs : f \notin Range(new[c])
        BY <1>5, <3>4
      <4>2. /\ f \in At'[<<"up", 0>>] <=> f \in At[<<"up", 0>>]
            /\ f \in At'[<<"upq", 0>>] <=> f \in At[<<"upq", 0>>]
            /\ \A c \in Chs : f \in At'[<<"in", c>>] <=> f \in At[<<"in", c>>]
        BY <3>2, <3>4, <4>1, AtHolds
      <4>3. \A t \in Spots : f \in At'[t] <=> f \in At[t]
        BY <3>3, <4>2 DEF Spots
      <4> QED
        BY <3>1, <4>3
    <3>5. CASE f \in Range(upq)
      <4>1. s = <<"upq", 0>>
        BY <3>1, <3>5, AtHolds
      <4>2. /\ f \notin up /\ \A c \in Chs : f \notin Range(inQue[c])
            /\ f \notin At[<<"list", 0>>] /\ f \notin At[<<"done", 0>>]
            /\ \A t \in Tsks : f \notin At[<<"batch", t>>] /\ f \notin At[<<"proc", t>>]
        <5>1. /\ <<"up", 0>> # s /\ <<"list", 0>> # s /\ <<"done", 0>> # s
              /\ \A c \in Chs : <<"in", c>> # s
              /\ \A t \in Tsks : <<"batch", t>> # s /\ <<"proc", t>> # s
          BY <4>1
        <5> QED
          BY <3>1, <5>1, AtHolds
      <4>3. CASE \E c \in Chs : f \in Range(new[c])
        <5>1. PICK c \in Chs : f \in Range(new[c])
          BY <4>3
        <5>2. \A d \in Chs : f \in Range(new[d]) <=> d = c
          BY <1>2, <5>1
        <5>3. f \notin At'[<<"up", 0>>]
          BY <3>2, <4>2, <5>1
        <5>4. \A d \in Chs : f \in At'[<<"in", d>>] <=> d = c
          BY <3>2, <4>2, <5>2
        <5>5. /\ f \notin At'[<<"list", 0>>] /\ f \notin At'[<<"done", 0>>]
              /\ \A t \in Tsks : f \notin At'[<<"batch", t>>] /\ f \notin At'[<<"proc", t>>]
          BY <3>3, <4>2
        <5>6. \A t \in Spots : f \in At'[t] <=> t = <<"in", c>>
          BY <3>2, <5>3, <5>4, <5>5 DEF Spots
        <5> QED
          BY <5>6, AtHolds
      <4>4. CASE \A c \in Chs : f \notin Range(new[c])
        <5>1. /\ f \in At'[<<"up", 0>>]
              /\ \A d \in Chs : f \notin At'[<<"in", d>>]
              /\ f \notin At'[<<"list", 0>>] /\ f \notin At'[<<"done", 0>>]
              /\ \A t \in Tsks : f \notin At'[<<"batch", t>>] /\ f \notin At'[<<"proc", t>>]
          BY <3>2, <3>3, <3>5, <4>2, <4>4
        <5>2. \A t \in Spots : f \in At'[t] <=> t = <<"up", 0>>
          BY <3>2, <5>1 DEF Spots
        <5> QED
          BY <5>2, AtHolds
      <4> QED
        BY <4>3, <4>4
    <3> QED
      BY <3>4, <3>5
  <2> QED
    BY <2>1, AtHoldsNext DEF InOnePlace
<1>8. TypeOK'
  <2>1. up' \subseteq Frames
    BY <1>1, <1>2, <1>4 DEF TypeOK
  <2>2. inQue' \in [Chs -> Seq(Frames)]
    BY <1>2, <1>6
  <2>3. 0 \in 0 .. NumCh
    BY EncAssumption
  <2> QED
    BY <1>1, <1>3, <2>1, <2>2, <2>3 DEF QueueFrames, TypeOK
<1>9. \A c \in Chs : \A f \in Range(inQue'[c]) : ChOf[f] = c
  BY <1>1, <1>2, <1>6 DEF ChanInv
<1>10. lpc = "queue" /\ lpc' = "submit" /\ bufs = 0 /\ spare = 0
  BY <1>1 DEF QueueFrames, EndInv
<1> QED
  BY <1>3, <1>6, <1>7, <1>8, <1>9, <1>10, SameRequestsInv DEF QueueFrames

-----------------------------------------------------------------------------
(* Requests.                                                                *)

(* The frames of the next request of the channel whose turn it is.          *)
LEMMA FirstRest ==
  ASSUME IInv, ch \in Chs, HasFrames
  PROVE  /\ First \in Requests /\ IsInjective(First) /\ Rest \in [Chs -> Seq(Frames)]
         /\ IsInjective(Rest[ch]) /\ Range(Rest[ch]) = Range(inQue[ch]) \ Range(First)
         /\ Range(First) \subseteq Range(inQue[ch])
         /\ inQue[ch] = First \o Rest[ch]
         /\ \A c \in Chs : c # ch => Rest[c] = inQue[c]
         /\ OneChannel(First) /\ Chan(First) = ch
<1> DEFINE k == PerReq[ch]
           s == inQue[ch]
<1>1. /\ s \in Seq(Frames) /\ IsInjective(s) /\ k \in {1, 2} /\ Len(s) \in Nat /\ k <= Len(s)
      /\ \A f \in Range(s) : ChOf[f] = ch
  BY LenProperties, EncAssumption DEF IInv, TypeOK, PlacesInv, ChanInv, HasFrames
<1>2. First = SubSeq(s, 1, k)
  BY DEF First
<1>3. /\ Rest[ch] = SubSeq(s, k + 1, Len(s))
      /\ \A c \in Chs : c # ch => Rest[c] = inQue[c]
      /\ DOMAIN Rest = Chs
  BY DEF Rest, IInv, TypeOK
<1>4. First \in Seq(Frames) /\ Rest[ch] \in Seq(Frames) /\ s = First \o Rest[ch]
  <2>1. k \in 0 .. Len(s)
    BY <1>1
  <2> HIDE DEF k, s
  <2> QED
    BY <1>1, <1>2, <1>3, <2>1, SplitList
<1>5. /\ Range(s) = Range(First) \cup Range(Rest[ch])
      /\ IsInjective(First) /\ IsInjective(Rest[ch])
      /\ Range(First) \cap Range(Rest[ch]) = {}
  <2> HIDE DEF k, s
  <2> QED
    BY <1>1, <1>4, ConcatLists
<1>6. Len(First) = k
  <2> HIDE DEF k, s
  <2>1. 1 \in Int /\ k \in Int /\ \A i \in 1 .. k : s[i] \in Frames
    BY <1>1, LenProperties
  <2> QED
    BY <1>1, <1>2, <2>1, SubSeqProperties
<1>7. First \in Requests
  <2>1. First \in [1 .. k -> Frames]
    BY <1>4, <1>6, LenProperties
  <2> QED
    BY <1>1, <2>1 DEF Requests
<1>8. Rest \in [Chs -> Seq(Frames)]
  <2>1. Rest = [c \in Chs |-> Rest[c]]
    BY DEF Rest, IInv, TypeOK
  <2>2. \A c \in Chs : Rest[c] \in Seq(Frames)
    BY <1>3, <1>4 DEF IInv, TypeOK
  <2> HIDE DEF Rest
  <2> QED
    BY <2>1, <2>2
<1>9. OneChannel(First) /\ Chan(First) = ch
  <2>1. First[1] \in Range(First)
    BY <1>7, RequestFrames
  <2> QED
    BY <1>1, <1>5, <2>1 DEF OneChannel, Chan
<1> QED
  BY <1>3, <1>4, <1>5, <1>7, <1>8, <1>9

(* An outstanding request's frames are in the queue or batch it is in.      *)
LEMMA RequestPlaces ==
  ASSUME TypeOK, NEW r \in OutReqs, NEW f \in Range(r)
  PROVE  /\ r \in Requests /\ f \in Frames
         /\ \E p \in Spots : p[1] \in {"done", "batch", "proc"} /\ f \in At[p]
<1>1. CASE r \in Range(doneQue)
  <2>1. r \in Requests /\ f \in At[<<"done", 0>>]
    BY <1>1, AtHolds, ListEmpty DEF TypeOK, Carried
  <2> QED
    BY <2>1, AtHolds, RequestFrames
<1>2. CASE \E t \in Tsks : r \in Range(procQue[t])
  <2>1. PICK t \in Tsks : r \in Range(procQue[t])
    BY <1>2
  <2>2. r \in Requests
    BY <2>1, ListEmpty DEF TypeOK
  <2>3. f \in Carried(procQue[t])
    BY <2>1 DEF Carried
  <2>4. f \in At[<<"proc", t>>] /\ <<"proc", t>> \in Spots
    BY <2>3, AtHolds
  <2> QED
    BY <2>2, <2>4, RequestFrames
<1>3. CASE \E t \in Tsks : r \in Range(batch[t])
  <2>1. PICK t \in Tsks : r \in Range(batch[t])
    BY <1>3
  <2>2. r \in Requests
    BY <2>1, ListEmpty DEF TypeOK
  <2>3. f \in Carried(batch[t])
    BY <2>1 DEF Carried
  <2>4. f \in At[<<"batch", t>>] /\ <<"batch", t>> \in Spots
    BY <2>3, AtHolds
  <2> QED
    BY <2>2, <2>4, RequestFrames
<1> QED
  BY <1>1, <1>2, <1>3 DEF OutReqs

LEMMA TurnTyped ==
  ASSUME TypeOK, Submitting, NextTurn PROVE ch \in Chs /\ ch' \in 0 .. NumCh /\ n' \in Nat
<1>1. ch \in 0 .. NumCh /\ n \in Nat /\ NumCh \in Nat /\ ch < NumCh
  BY EncAssumption DEF TypeOK, Submitting
<1> QED
  BY <1>1 DEF NextTurn, Chs

LEMMA DropInv == IInv /\ Drop => IInv'
<1> SUFFICES ASSUME IInv, Drop PROVE IInv'
  OBVIOUS
<1> USE DEF source, requests, codec, buffers, lists, loop, admin
<1>1. TypeOK /\ PlacesInv /\ ChanInv /\ EndInv
  BY DEF IInv
<1>2. ch \in Chs /\ ch' \in 0 .. NumCh /\ n' \in Nat
  BY <1>1, TurnTyped DEF Drop
<1>3. HasFrames /\ inQue' = Rest /\ frames' = frames \cup Range(First)
  BY DEF Drop
<1> DEFINE M == Range(First)
<1>4. /\ First \in Requests /\ Rest \in [Chs -> Seq(Frames)]
      /\ IsInjective(Rest[ch]) /\ Range(Rest[ch]) = Range(inQue[ch]) \ M
      /\ M \subseteq Range(inQue[ch])
      /\ \A c \in Chs : c # ch => Rest[c] = inQue[c]
  BY <1>2, <1>3, FirstRest
<1>5. M \subseteq Frames
  BY <1>4, RequestFrames
<1> HIDE DEF M
<1>6. InOnePlace(At', Frames)
  <2> DEFINE p == <<"in", ch>>
             q == <<"list", 0>>
  <2>1. p \in Spots /\ q \in Spots /\ p # q /\ M \subseteq At[p]
    BY <1>2, <1>4, AtHolds
  <2>2. \A y \in Frames : y \in At'[p] <=> y \in At[p] /\ y \notin M
    BY <1>2, <1>3, <1>4, AtHolds, AtHoldsNext
  <2>3. \A y \in Frames : y \in At'[q] <=> y \in At[q] \/ y \in M
    BY <1>3, AtHolds, AtHoldsNext DEF M
  <2>4. /\ <<"up", 0>> \notin {p, q} => up' = up
        /\ <<"upq", 0>> \notin {p, q} => upq' = upq
        /\ <<"list", 0>> \notin {p, q} => frames' = frames
        /\ <<"done", 0>> \notin {p, q} => doneQue' = doneQue
        /\ \A c \in Chs : <<"in", c>> \notin {p, q} => inQue'[c] = inQue[c]
        /\ \A t \in Tsks : <<"batch", t>> \notin {p, q} => batch'[t] = batch[t]
        /\ \A t \in Tsks : <<"proc", t>> \notin {p, q} => procQue'[t] = procQue[t]
    BY <1>2, <1>3, <1>4 DEF Drop
  <2>5. InOnePlace(At, Frames)
    BY <1>1 DEF PlacesInv
  <2> HIDE DEF p, q
  <2> QED
    BY <2>1, <2>2, <2>3, <2>4, <2>5, Moves
<1>7. TypeOK'
  BY <1>1, <1>2, <1>3, <1>4, <1>5 DEF Drop, TypeOK, M
<1>8. \A c \in Chs : /\ IsInjective(inQue'[c])
                     /\ \A f \in Range(inQue'[c]) : ChOf[f] = c
  BY <1>1, <1>3, <1>4 DEF PlacesInv, ChanInv
<1>9. lpc' = lpc /\ bufs' = bufs /\ spare' = spare
  BY DEF Drop
<1> QED
  BY <1>1, <1>6, <1>7, <1>8, <1>9, SameRequestsInv DEF Drop, EndInv, PlacesInv

LEMMA SubmitInv == IInv /\ Submit => IInv'
<1> SUFFICES ASSUME IInv, Submit PROVE IInv'
  OBVIOUS
<1> USE DEF source, requests, codec, buffers, lists, loop, admin
<1>1. TypeOK /\ PlacesInv /\ CountInv /\ ChanInv /\ BatchInv /\ EndInv
  BY DEF IInv
<1>2. ch \in Chs /\ ch' \in 0 .. NumCh /\ n' \in Nat
  BY <1>1, TurnTyped DEF Submit
<1> DEFINE M == Range(First)
           t == TskOf[ch]
<1>3. /\ HasFrames /\ inQue' = Rest /\ t \in Tsks
      /\ procQue' = [procQue EXCEPT ![t] = Append(@, First)]
  BY <1>2, EncAssumption DEF Submit
<1>4. /\ First \in Requests /\ IsInjective(First) /\ Rest \in [Chs -> Seq(Frames)]
      /\ IsInjective(Rest[ch]) /\ Range(Rest[ch]) = Range(inQue[ch]) \ M
      /\ M \subseteq Range(inQue[ch])
      /\ \A c \in Chs : c # ch => Rest[c] = inQue[c]
      /\ OneChannel(First) /\ Chan(First) = ch
  BY <1>2, <1>3, FirstRest
<1>5. M \subseteq Frames /\ First[1] \in M
  BY <1>4, RequestFrames
<1>6. \A f \in M : f \in At[<<"in", ch>>]
  BY <1>2, <1>4, AtHolds
<1>7. /\ procQue[t] \in Seq(Requests) /\ EachOnce(procQue[t])
      /\ procQue'[t] = Append(procQue[t], First)
      /\ \A u \in Tsks : u # t => procQue'[u] = procQue[u]
  BY <1>1, <1>3 DEF TypeOK, PlacesInv
<1>8. Carried(procQue[t]) \cap M = {}
  <2>1. SUFFICES ASSUME NEW f \in M, f \in Carried(procQue[t]) PROVE FALSE
    OBVIOUS
  <2>2. f \in At[<<"proc", t>>] /\ <<"proc", t>> \in Spots /\ <<"in", ch>> \in Spots
    BY <1>2, <1>3, <2>1, AtHolds
  <2>3. <<"proc", t>> = <<"in", ch>>
    BY <1>1, <1>5, <1>6, <2>2, Apart
  <2> QED
    BY <2>3
<1>9. /\ procQue'[t] \in Seq(Requests) /\ EachOnce(procQue'[t])
      /\ Range(procQue'[t]) = Range(procQue[t]) \cup {First}
      /\ Carried(procQue'[t]) = Carried(procQue[t]) \cup M
  BY <1>4, <1>7, <1>8, PutRequest
<1>10. First \notin OutReqs
  <2>1. SUFFICES ASSUME First \in OutReqs PROVE FALSE
    OBVIOUS
  <2>2. PICK p \in Spots : p[1] \in {"done", "batch", "proc"} /\ First[1] \in At[p]
    BY <1>1, <1>5, <2>1, RequestPlaces
  <2>3. p = <<"in", ch>>
    BY <1>1, <1>2, <1>5, <1>6, <2>2, Apart, AtHolds
  <2> QED
    BY <2>2, <2>3
<1> HIDE DEF M, t
<1>11. InOnePlace(At', Frames)
  <2> DEFINE p == <<"in", ch>>
             q == <<"proc", t>>
  <2>1. p \in Spots /\ q \in Spots /\ p # q /\ M \subseteq At[p]
    BY <1>2, <1>3, <1>6, AtHolds
  <2>2. \A y \in Frames : y \in At'[p] <=> y \in At[p] /\ y \notin M
    BY <1>2, <1>3, <1>4, AtHolds, AtHoldsNext
  <2>3. \A y \in Frames : y \in At'[q] <=> y \in At[q] \/ y \in M
    BY <1>3, <1>9, AtHolds, AtHoldsNext
  <2>4. /\ <<"up", 0>> \notin {p, q} => up' = up
        /\ <<"upq", 0>> \notin {p, q} => upq' = upq
        /\ <<"list", 0>> \notin {p, q} => frames' = frames
        /\ <<"done", 0>> \notin {p, q} => doneQue' = doneQue
        /\ \A c \in Chs : <<"in", c>> \notin {p, q} => inQue'[c] = inQue[c]
        /\ \A u \in Tsks : <<"batch", u>> \notin {p, q} => batch'[u] = batch[u]
        /\ \A u \in Tsks : <<"proc", u>> \notin {p, q} => procQue'[u] = procQue[u]
    BY <1>2, <1>3, <1>4, <1>7 DEF Submit
  <2>5. InOnePlace(At, Frames)
    BY <1>1 DEF PlacesInv
  <2> HIDE DEF p, q
  <2> QED
    BY <2>1, <2>2, <2>3, <2>4, <2>5, Moves
<1>12. PlacesInv'
  <2>1. /\ IsInjective(upq') /\ EachOnce(doneQue)' /\ \A u \in Tsks : EachOnce(batch'[u])
    BY <1>1 DEF Submit, PlacesInv, EachOnce
  <2>2. \A u \in Tsks : EachOnce(procQue'[u])
    BY <1>1, <1>7, <1>9 DEF PlacesInv
  <2>3. \A c \in Chs : IsInjective(inQue'[c])
    BY <1>1, <1>3, <1>4 DEF PlacesInv
  <2> QED
    BY <1>11, <2>1, <2>2, <2>3 DEF PlacesInv, EachOnce
<1>13. OutReqs' = OutReqs \cup {First}
  <2>1. doneQue' = doneQue /\ batch' = batch
    BY DEF Submit
  <2>2. \A r : r \in OutReqs' <=> r \in OutReqs \/ r = First
    BY <1>3, <1>7, <1>9, <2>1 DEF OutReqs
  <2> QED
    BY <2>2
<1>14. /\ IsFiniteSet(OutReqs') /\ Cardinality(OutReqs') = Cardinality(OutReqs) + 1
       /\ Cardinality(OutReqs) \in Nat
  BY <1>1, <1>10, <1>13, FS_AddElement, FS_CardinalityType DEF CountInv
<1>15. /\ reqQue \in 0 .. MaxReq /\ MaxReq \in Nat /\ reqQue > 0 /\ reqQue' = reqQue - 1
       /\ reqQueCount' = reqQueCount + 1 /\ reqQueCount = Cardinality(OutReqs)
       /\ reqQue + Cardinality(OutReqs) = MaxReq
       /\ empty \in 0 .. NumBufs /\ NumBufs \in Nat /\ empty > 0 /\ empty' = empty - 1
       /\ out' = out /\ bufs' = bufs /\ spare' = spare
       /\ out \in Nat /\ bufs \in Nat /\ spare \in Nat
       /\ empty + out + bufs + spare + Cardinality(OutReqs) = NumBufs
  BY <1>1, EncAssumption
     DEF Submit, TypeOK, CountInv, RequestsConserved, BufsConserved, Submitted
<1>16. CountInv'
  <2>1. /\ reqQue' + Cardinality(OutReqs') = MaxReq /\ reqQueCount' = Cardinality(OutReqs')
        /\ empty' + out' + bufs' + spare' + Cardinality(OutReqs') = NumBufs
    BY <1>14, <1>15
  <2> QED
    BY <1>14, <2>1 DEF CountInv, RequestsConserved, BufsConserved, Submitted
<1>17. TypeOK'
  <2>1. reqQue' \in 0 .. MaxReq /\ reqQueCount' \in 0 .. MaxReq /\ empty' \in 0 .. NumBufs
    BY <1>14, <1>15
  <2>2. procQue' \in [Tsks -> Seq(Requests)]
    BY <1>1, <1>3, <1>7, <1>9 DEF TypeOK
  <2> QED
    BY <1>1, <1>2, <1>3, <1>4, <2>1, <2>2 DEF Submit, TypeOK
<1>18. ChanInv'
  <2>1. \A c \in Chs : \A f \in Range(inQue'[c]) : ChOf[f] = c
    BY <1>1, <1>3, <1>4 DEF ChanInv
  <2>2. \A u \in Tsks : \A r \in Range(procQue'[u]) : OneChannel(r) /\ TskOf[Chan(r)] = u
    <3>1. \A r \in Range(procQue'[t]) : OneChannel(r) /\ TskOf[Chan(r)] = t
      BY <1>1, <1>3, <1>4, <1>9 DEF ChanInv, t
    <3>2. ASSUME NEW u \in Tsks, u # t
          PROVE  \A r \in Range(procQue'[u]) : OneChannel(r) /\ TskOf[Chan(r)] = u
      BY <1>1, <1>7, <3>2 DEF ChanInv
    <3> QED
      BY <3>1, <3>2
  <2> QED
    BY <1>1, <2>1, <2>2 DEF Submit, ChanInv, OneChannel
<1>19. BatchInv'
  BY <1>1 DEF BatchInv, Submit
<1>20. EndInv'
  BY <1>1 DEF EndInv, Submit, Submitting
<1> QED
  BY <1>12, <1>16, <1>17, <1>18, <1>19, <1>20 DEF IInv

(* A finished request is collected: its frames wait to go home.             *)
LEMMA DrainInv == IInv /\ Drain => IInv'
<1> SUFFICES ASSUME IInv, Drain PROVE IInv'
  OBVIOUS
<1> USE DEF source, requests, codec, buffers, lists, loop, admin
<1>1. TypeOK /\ PlacesInv /\ CountInv /\ ChanInv /\ BatchInv /\ EndInv
  BY DEF IInv
<1> DEFINE r == Head(doneQue)
           M == Range(r)
<1>2. /\ doneQue \in Seq(Requests) /\ doneQue # <<>> /\ EachOnce(doneQue)
      /\ doneQue' = Tail(doneQue) /\ frames' = frames \cup M
  BY <1>1 DEF Drain, Drainable, TypeOK, PlacesInv
<1>3. /\ r \in Requests /\ doneQue' \in Seq(Requests) /\ <<r>> \in Seq(Requests)
      /\ doneQue = <<r>> \o doneQue'
  BY <1>2, TakeRequest
<1>4. /\ Range(<<r>>) = {r} /\ Carried(<<r>>) = M
  BY <1>3, OneRequest
<1>5. /\ EachOnce(doneQue') /\ Range(doneQue) = {r} \cup Range(doneQue')
      /\ r \notin Range(doneQue') /\ Carried(doneQue) = M \cup Carried(doneQue')
      /\ M \cap Carried(doneQue') = {}
  <2> DEFINE first == <<r>>
             rest == Tail(doneQue)
  <2>1. /\ first \in Seq(Requests) /\ rest \in Seq(Requests)
        /\ doneQue = first \o rest /\ EachOnce(first \o rest)
    BY <1>2, <1>3
  <2> HIDE DEF first, rest
  <2>2. /\ EachOnce(rest) /\ Range(first \o rest) = Range(first) \cup Range(rest)
        /\ Range(first) \cap Range(rest) = {}
        /\ Carried(first \o rest) = Carried(first) \cup Carried(rest)
        /\ Carried(first) \cap Carried(rest) = {}
    BY <2>1, SplitQueue
  <2>3. Range(first) = {r} /\ Carried(first) = M
    BY <1>4 DEF first
  <2>4. doneQue' = rest
    BY <1>2 DEF rest
  <2> HIDE DEF r, M
  <2> QED
    BY <2>1, <2>2, <2>3, <2>4
<1>6. M \subseteq Frames /\ r[1] \in M
  BY <1>3, RequestFrames
<1> HIDE DEF M, r
<1>7. InOnePlace(At', Frames)
  <2> DEFINE p == <<"done", 0>>
             q == <<"list", 0>>
  <2>1. p \in Spots /\ q \in Spots /\ p # q /\ M \subseteq At[p]
    BY <1>5, AtHolds
  <2>2. \A y \in Frames : y \in At'[p] <=> y \in At[p] /\ y \notin M
    BY <1>5, AtHolds, AtHoldsNext
  <2>3. \A y \in Frames : y \in At'[q] <=> y \in At[q] \/ y \in M
    BY <1>2, AtHolds, AtHoldsNext
  <2>4. /\ <<"up", 0>> \notin {p, q} => up' = up
        /\ <<"upq", 0>> \notin {p, q} => upq' = upq
        /\ <<"list", 0>> \notin {p, q} => frames' = frames
        /\ <<"done", 0>> \notin {p, q} => doneQue' = doneQue
        /\ \A c \in Chs : <<"in", c>> \notin {p, q} => inQue'[c] = inQue[c]
        /\ \A t \in Tsks : <<"batch", t>> \notin {p, q} => batch'[t] = batch[t]
        /\ \A t \in Tsks : <<"proc", t>> \notin {p, q} => procQue'[t] = procQue[t]
    BY DEF Drain
  <2>5. InOnePlace(At, Frames)
    BY <1>1 DEF PlacesInv
  <2> HIDE DEF p, q
  <2> QED
    BY <2>1, <2>2, <2>3, <2>4, <2>5, Moves
<1>8. PlacesInv'
  <2>1. /\ IsInjective(upq') /\ \A c \in Chs : IsInjective(inQue'[c])
        /\ \A t \in Tsks : EachOnce(batch'[t]) /\ EachOnce(procQue'[t])
    BY <1>1 DEF Drain, PlacesInv
  <2> QED
    BY <1>5, <1>7, <2>1 DEF PlacesInv, EachOnce
<1>9. \A t \in Tsks : r \notin Range(procQue[t]) /\ r \notin Range(batch[t])
  <2>1. r[1] \in At[<<"done", 0>>]
    BY <1>5, <1>6, AtHolds
  <2>2. SUFFICES ASSUME NEW t \in Tsks, r \in Range(procQue[t]) \/ r \in Range(batch[t])
                 PROVE  FALSE
    OBVIOUS
  <2>3. r[1] \in Carried(procQue[t]) \/ r[1] \in Carried(batch[t])
    BY <1>6, <2>2 DEF Carried, M
  <2>4. \E p \in {<<"proc", t>>, <<"batch", t>>} : p \in Spots /\ r[1] \in At[p]
    BY <2>3, AtHolds
  <2>5. PICK p \in {<<"proc", t>>, <<"batch", t>>} : p \in Spots /\ r[1] \in At[p]
    BY <2>4
  <2>6. p = <<"done", 0>>
    BY <1>1, <1>6, <2>1, <2>5, Apart, AtHolds
  <2> QED
    BY <2>5, <2>6
<1>10. /\ r \in OutReqs
       /\ OutReqs' = OutReqs \ {r}
  <2>1. procQue' = procQue /\ batch' = batch
    BY DEF Drain
  <2>2. \A s : s \in OutReqs' <=> s \in OutReqs /\ s # r
    BY <1>5, <1>9, <2>1 DEF OutReqs
  <2>3. r \in OutReqs
    BY <1>5 DEF OutReqs
  <2> QED
    BY <2>2, <2>3
<1>11. /\ IsFiniteSet(OutReqs') /\ Cardinality(OutReqs') = Cardinality(OutReqs) - 1
       /\ Cardinality(OutReqs) \in Nat /\ Cardinality(OutReqs') \in Nat
  BY <1>1, <1>10, FS_RemoveElement, FS_CardinalityType DEF CountInv
<1>12. /\ reqQue \in 0 .. MaxReq /\ MaxReq \in Nat /\ reqQue' = reqQue + 1
       /\ reqQueCount' = reqQueCount - 1 /\ reqQueCount = Cardinality(OutReqs)
       /\ reqQue + Cardinality(OutReqs) = MaxReq
       /\ empty' = empty /\ out' = out /\ empty \in Nat /\ out \in Nat
       /\ bufs \in Nat /\ spare \in Nat
       /\ empty + out + bufs + spare + Cardinality(OutReqs) = NumBufs
  BY <1>1, EncAssumption
     DEF Drain, TypeOK, CountInv, RequestsConserved, BufsConserved, Submitted
<1>13. \/ bufs' = bufs + 1 /\ spare' = spare
       \/ spare' = spare + 1 /\ bufs' = bufs
  BY DEF Drain
<1>14. /\ reqQue' \in 0 .. MaxReq /\ reqQueCount' \in 0 .. MaxReq
       /\ bufs' \in Nat /\ spare' \in Nat
       /\ reqQue' + Cardinality(OutReqs') = MaxReq /\ reqQueCount' = Cardinality(OutReqs')
       /\ empty' + out' + bufs' + spare' + Cardinality(OutReqs') = NumBufs
  BY <1>11, <1>12, <1>13
<1>15. CountInv'
  BY <1>11, <1>14 DEF CountInv, RequestsConserved, BufsConserved, Submitted
<1>16. TypeOK'
  <2>1. frames' \subseteq Frames
    BY <1>1, <1>2, <1>6 DEF TypeOK
  <2> QED
    BY <1>1, <1>3, <1>14, <2>1 DEF Drain, TypeOK
<1>17. ChanInv'
  <2>1. \A s \in Range(doneQue') : OneChannel(s)
    BY <1>1, <1>5 DEF ChanInv
  <2> QED
    BY <1>1, <2>1 DEF Drain, ChanInv, OneChannel
<1>18. BatchInv'
  BY <1>1 DEF BatchInv, Drain
<1>19. EndInv'
  BY <1>1 DEF EndInv, Drain
<1> QED
  BY <1>8, <1>15, <1>16, <1>17, <1>18, <1>19 DEF IInv

-----------------------------------------------------------------------------
(* The process tasks.                                                       *)

(* The requests of a batch leave processQue.                                *)
LEMMA PrepareBatchInv ==
  ASSUME NEW t \in Tsks PROVE IInv /\ PrepareBatch(t) => IInv'
<1> SUFFICES ASSUME IInv, PrepareBatch(t) PROVE IInv'
  OBVIOUS
<1> USE DEF source, requests, codec, buffers, lists, loop, admin
<1>1. TypeOK /\ PlacesInv /\ CountInv /\ ChanInv /\ BatchInv /\ EndInv
  BY DEF IInv
<1>2. PICK k \in DOMAIN procQue[t] :
        /\ Fills(procQue[t], k)
        /\ batch' = [batch EXCEPT ![t] = SubSeq(procQue[t], 1, k)]
        /\ procQue' = [procQue EXCEPT ![t] = SubSeq(@, k + 1, Len(@))]
  BY DEF PrepareBatch
<1> DEFINE q == procQue[t]
           first == SubSeq(q, 1, k)
           rest == SubSeq(q, k + 1, Len(q))
           M == Carried(first)
<1>3. q \in Seq(Requests) /\ EachOnce(q) /\ k \in 1 .. Len(q) /\ k \in 0 .. Len(q)
      /\ k \in Nat /\ Len(q) \in Nat
  <2>1. q \in Seq(Requests) /\ EachOnce(q)
    BY <1>1 DEF TypeOK, PlacesInv
  <2>2. DOMAIN q = 1 .. Len(q) /\ Len(q) \in Nat
    BY <2>1, LenProperties
  <2> QED
    BY <1>2, <2>1, <2>2
<1>4. /\ batch'[t] = first /\ procQue'[t] = rest
      /\ \A u \in Tsks : u # t => batch'[u] = batch[u] /\ procQue'[u] = procQue[u]
      /\ DOMAIN batch' = Tsks /\ DOMAIN procQue' = Tsks
      /\ batch' = [u \in Tsks |-> batch'[u]] /\ procQue' = [u \in Tsks |-> procQue'[u]]
  BY <1>1, <1>2 DEF TypeOK
<1>5. batch[t] = <<>> /\ Range(batch[t]) = {} /\ Carried(batch[t]) = {}
  <2>1. ppc[t] # "codec"
    BY DEF PrepareBatch, CanGet
  <2> QED
    BY <1>1, <2>1, OneRequest DEF BatchInv
<1>6. first \in Seq(Requests) /\ rest \in Seq(Requests) /\ q = first \o rest
  <2> HIDE DEF q
  <2> QED
    BY <1>3, SplitList
<1>7. \A i, j \in DOMAIN first : i # j => Chan(first[i]) # Chan(first[j])
  <2>1. \A i, j \in 1 .. k : i # j => Chan(q[i]) # Chan(q[j])
    BY <1>2 DEF Fills, Fits
  <2>2. Len(first) = k /\ \A i \in 1 .. k : first[i] = q[i]
    <3>1. 1 \in Int /\ k \in Int /\ \A i \in 1 .. k : q[i] \in Requests
      BY <1>3, LenProperties
    <3> HIDE DEF q
    <3> QED
      BY <1>3, <3>1, SubSeqProperties
  <2>3. DOMAIN first = 1 .. k
    BY <1>6, <2>2, LenProperties
  <2> HIDE DEF first, q
  <2> QED
    BY <2>1, <2>2, <2>3
<1> HIDE DEF first, rest
<1>8. /\ EachOnce(first) /\ EachOnce(rest)
      /\ Range(q) = Range(first) \cup Range(rest) /\ Range(first) \cap Range(rest) = {}
      /\ Carried(q) = M \cup Carried(rest) /\ M \cap Carried(rest) = {}
  <2> HIDE DEF q
  <2> QED
    BY <1>3, <1>6, SplitQueue
<1> HIDE DEF M
<1>9. InOnePlace(At', Frames)
  <2> DEFINE a == <<"proc", t>>
             b == <<"batch", t>>
  <2>1. a \in Spots /\ b \in Spots /\ a # b /\ M \subseteq At[a]
    BY <1>8, AtHolds
  <2>2. \A y \in Frames : y \in At'[a] <=> y \in At[a] /\ y \notin M
    <3>1. At'[a] = Carried(rest) /\ At[a] = Carried(q)
      BY <1>4, AtHolds, AtHoldsNext
    <3> QED
      BY <1>8, <3>1
  <2>3. \A y \in Frames : y \in At'[b] <=> y \in At[b] \/ y \in M
    BY <1>4, <1>5, AtHolds, AtHoldsNext DEF M
  <2>4. /\ <<"up", 0>> \notin {a, b} => up' = up
        /\ <<"upq", 0>> \notin {a, b} => upq' = upq
        /\ <<"list", 0>> \notin {a, b} => frames' = frames
        /\ <<"done", 0>> \notin {a, b} => doneQue' = doneQue
        /\ \A c \in Chs : <<"in", c>> \notin {a, b} => inQue'[c] = inQue[c]
        /\ \A u \in Tsks : <<"batch", u>> \notin {a, b} => batch'[u] = batch[u]
        /\ \A u \in Tsks : <<"proc", u>> \notin {a, b} => procQue'[u] = procQue[u]
    BY <1>4 DEF PrepareBatch
  <2>5. InOnePlace(At, Frames)
    BY <1>1 DEF PlacesInv
  <2> HIDE DEF a, b
  <2> QED
    BY <2>1, <2>2, <2>3, <2>4, <2>5, Moves
<1>10. PlacesInv'
  <2>1. /\ IsInjective(upq') /\ EachOnce(doneQue') /\ \A c \in Chs : IsInjective(inQue'[c])
    BY <1>1 DEF PrepareBatch, PlacesInv
  <2>2. EachOnce(batch'[t]) /\ EachOnce(procQue'[t])
    BY <1>4, <1>8
  <2>3. \A u \in Tsks : u # t => EachOnce(batch'[u]) /\ EachOnce(procQue'[u])
    BY <1>1, <1>4 DEF PlacesInv
  <2> QED
    BY <1>9, <2>1, <2>2, <2>3 DEF PlacesInv, EachOnce
<1>11. OutReqs' = OutReqs /\ Submitted' = Submitted
  <2>1. Range(procQue'[t]) \cup Range(batch'[t]) = Range(procQue[t]) \cup Range(batch[t])
    BY <1>4, <1>5, <1>8
  <2>2. \A u \in Tsks :
          Range(procQue'[u]) \cup Range(batch'[u]) = Range(procQue[u]) \cup Range(batch[u])
    BY <1>4, <2>1
  <2>3. doneQue' = doneQue
    BY DEF PrepareBatch
  <2>4. OutReqs' = OutReqs
    BY <2>2, <2>3 DEF OutReqs
  <2> QED
    BY <2>4 DEF Submitted
<1>12. CountInv'
  BY <1>1, <1>11 DEF PrepareBatch, CountInv, RequestsConserved, BufsConserved
<1>13. TypeOK'
  <2>1. batch' \in [Tsks -> Seq(Requests)] /\ procQue' \in [Tsks -> Seq(Requests)]
    BY <1>1, <1>4, <1>6 DEF TypeOK
  <2>2. ppc' \in [Tsks -> {"loop", "get", "wait", "codec", "end"}]
    BY <1>1 DEF PrepareBatch, TypeOK
  <2> QED
    BY <1>1, <2>1, <2>2 DEF PrepareBatch, TypeOK
<1>14. ChanInv'
  <2>1. \A u \in Tsks :
          /\ \A r \in Range(procQue'[u]) : OneChannel(r) /\ TskOf[Chan(r)] = u
          /\ \A r \in Range(batch'[u]) : OneChannel(r) /\ TskOf[Chan(r)] = u
    BY <1>1, <1>4, <1>8 DEF ChanInv
  <2> QED
    BY <1>1, <2>1 DEF PrepareBatch, ChanInv, OneChannel
<1>15. BatchInv'
  <2>1. ppc'[t] = "codec" /\ \A u \in Tsks : u # t => ppc'[u] = ppc[u]
    BY <1>1 DEF PrepareBatch, TypeOK
  <2> QED
    BY <1>1, <1>4, <1>7, <2>1 DEF BatchInv
<1>16. EndInv'
  BY <1>1, <1>11 DEF EndInv, PrepareBatch
<1> QED
  BY <1>10, <1>12, <1>13, <1>14, <1>15, <1>16 DEF IInv

(* The requests of a batch go to processDoneQue.                            *)
LEMMA PutDoneInv == ASSUME NEW t \in Tsks PROVE IInv /\ PutDone(t) => IInv'
<1> SUFFICES ASSUME IInv, PutDone(t) PROVE IInv'
  OBVIOUS
<1> USE DEF source, requests, codec, buffers, lists, loop, admin
<1>1. TypeOK /\ PlacesInv /\ CountInv /\ ChanInv /\ BatchInv /\ EndInv
  BY DEF IInv
<1> DEFINE b == batch[t]
           M == Carried(b)
<1>2. /\ doneQue \in Seq(Requests) /\ b \in Seq(Requests)
      /\ EachOnce(doneQue) /\ EachOnce(b) /\ doneQue' = doneQue \o b
  BY <1>1 DEF PutDone, TypeOK, PlacesInv
<1>3. /\ batch'[t] = <<>> /\ \A u \in Tsks : u # t => batch'[u] = batch[u]
      /\ batch' = [u \in Tsks |-> batch'[u]]
  BY <1>1 DEF PutDone, TypeOK
<1>4. /\ Carried(<<>>) = {} /\ EachOnce(<<>>) /\ Range(<<>>) = {} /\ <<>> \in Seq(Requests)
  BY OneRequest, ShortLists
<1>5. M \subseteq Frames
  <2>1. \A r \in Range(b) : Range(r) \subseteq Frames
    BY <1>2, ListEmpty, RequestFrames
  <2> QED
    BY <2>1 DEF Carried
<1>6. Carried(doneQue) \cap M = {}
  <2>1. SUFFICES ASSUME NEW f \in M, f \in Carried(doneQue) PROVE FALSE
    OBVIOUS
  <2>2. /\ f \in At[<<"batch", t>>] /\ <<"batch", t>> \in Spots
        /\ f \in At[<<"done", 0>>] /\ <<"done", 0>> \in Spots
    BY <2>1, AtHolds
  <2>3. <<"batch", t>> = <<"done", 0>>
    BY <1>1, <1>5, <2>2, Apart
  <2> QED
    BY <2>3
<1>7. /\ doneQue' \in Seq(Requests) /\ EachOnce(doneQue')
      /\ Range(doneQue') = Range(doneQue) \cup Range(b)
      /\ Carried(doneQue') = Carried(doneQue) \cup M
  <2>1. doneQue \o b \in Seq(Requests)
    BY <1>2, ConcatProperties
  <2> HIDE DEF b
  <2> QED
    BY <1>2, <1>6, <2>1, JoinQueues
<1> HIDE DEF M
<1>8. InOnePlace(At', Frames)
  <2> DEFINE p == <<"batch", t>>
             q == <<"done", 0>>
  <2>1. p \in Spots /\ q \in Spots /\ p # q /\ M \subseteq At[p]
    BY AtHolds DEF M
  <2>2. \A y \in Frames : y \in At'[p] <=> y \in At[p] /\ y \notin M
    BY <1>3, <1>4, AtHolds, AtHoldsNext DEF M
  <2>3. \A y \in Frames : y \in At'[q] <=> y \in At[q] \/ y \in M
    BY <1>7, AtHolds, AtHoldsNext
  <2>4. /\ <<"up", 0>> \notin {p, q} => up' = up
        /\ <<"upq", 0>> \notin {p, q} => upq' = upq
        /\ <<"list", 0>> \notin {p, q} => frames' = frames
        /\ <<"done", 0>> \notin {p, q} => doneQue' = doneQue
        /\ \A c \in Chs : <<"in", c>> \notin {p, q} => inQue'[c] = inQue[c]
        /\ \A u \in Tsks : <<"batch", u>> \notin {p, q} => batch'[u] = batch[u]
        /\ \A u \in Tsks : <<"proc", u>> \notin {p, q} => procQue'[u] = procQue[u]
    BY <1>3 DEF PutDone
  <2>5. InOnePlace(At, Frames)
    BY <1>1 DEF PlacesInv
  <2> HIDE DEF p, q
  <2> QED
    BY <2>1, <2>2, <2>3, <2>4, <2>5, Moves
<1>9. PlacesInv'
  <2>1. /\ IsInjective(upq') /\ \A c \in Chs : IsInjective(inQue'[c])
        /\ \A u \in Tsks : EachOnce(procQue'[u])
    BY <1>1 DEF PutDone, PlacesInv
  <2>2. \A u \in Tsks : EachOnce(batch'[u])
    BY <1>1, <1>3, <1>4 DEF PlacesInv
  <2> QED
    BY <1>7, <1>8, <2>1, <2>2 DEF PlacesInv, EachOnce
<1>10. OutReqs' = OutReqs /\ Submitted' = Submitted
  <2>1. procQue' = procQue
    BY DEF PutDone
  <2>2. \A r : r \in OutReqs' <=> r \in OutReqs
    BY <1>3, <1>4, <1>7, <2>1 DEF OutReqs
  <2>3. OutReqs' = OutReqs
    BY <2>2
  <2> QED
    BY <2>3 DEF Submitted
<1>11. CountInv'
  BY <1>1, <1>10 DEF PutDone, CountInv, RequestsConserved, BufsConserved
<1>12. TypeOK'
  <2>1. batch' \in [Tsks -> Seq(Requests)]
    BY <1>1, <1>3, <1>4 DEF TypeOK
  <2>2. ppc' \in [Tsks -> {"loop", "get", "wait", "codec", "end"}]
    BY <1>1 DEF PutDone, TypeOK
  <2> QED
    BY <1>1, <1>7, <2>1, <2>2 DEF PutDone, TypeOK
<1>13. ChanInv'
  <2>1. \A r \in Range(doneQue') : OneChannel(r)
    BY <1>1, <1>7 DEF ChanInv
  <2>2. \A u \in Tsks : \A r \in Range(batch'[u]) : OneChannel(r) /\ TskOf[Chan(r)] = u
    BY <1>1, <1>3, <1>4 DEF ChanInv
  <2> QED
    BY <1>1, <2>1, <2>2 DEF PutDone, ChanInv, OneChannel
<1>14. BatchInv'
  <2>1. \A u \in Tsks : u # t => ppc'[u] = ppc[u]
    BY <1>1 DEF PutDone, TypeOK
  <2>2. DOMAIN batch'[t] = {}
    BY <1>3, EmptySeq, LenProperties
  <2> QED
    BY <1>1, <1>3, <2>1, <2>2 DEF BatchInv
<1>15. EndInv'
  BY <1>1, <1>10 DEF EndInv, PutDone
<1> QED
  BY <1>9, <1>11, <1>12, <1>13, <1>14, <1>15 DEF IInv

-----------------------------------------------------------------------------
(* Every step.                                                              *)

LEMMA NextInv == IInv /\ [Next]_vars => IInv'
<1> SUFFICES ASSUME IInv, [Next]_vars PROVE IInv'
  OBVIOUS
<1>1. CASE UNCHANGED vars
  <2> USE DEF vars, source, requests, codec, buffers, lists, loop, admin
  <2>1. Still /\ StillTyped /\ UNCHANGED <<ppc, lpc>>
    BY <1>1 DEF Still, StillTyped, IInv, TypeOK, Commands
  <2>2. TypeOK'
    BY <2>1, StillTypeOK DEF IInv
  <2>3. /\ \A t \in Tsks : ppc[t] = "codec" => ppc'[t] = "codec"
        /\ lpc' = lpc
    BY <2>1
  <2> QED
    BY <2>1, <2>2, <2>3, StillInv
<1>2. CASE LinkStep
  <2>1. CASE QuietLink
    BY <2>1, QuietLinkInv
  <2>2. CASE QueueFrames
    BY <2>2, QueueFramesInv
  <2>3. CASE Submit
    BY <2>3, SubmitInv
  <2>4. CASE Drop
    BY <2>4, DropInv
  <2>5. CASE EndSubmit
    BY <2>5, EndSubmitInv
  <2>6. CASE Drain
    BY <2>6, DrainInv
  <2>7. CASE PutDrained
    BY <2>7, PutDrainedInv
  <2>8. CASE FreeInQueuedBufs
    BY <2>8, FreeInQueuedBufsInv
  <2> QED
    BY <1>2, <2>1, <2>2, <2>3, <2>4, <2>5, <2>6, <2>7, <2>8 DEF LinkStep, QuietLink
<1>3. CASE \E t \in Tsks : ProcessStep(t)
  <2>1. PICK t \in Tsks : ProcessStep(t)
    BY <1>3
  <2>2. CASE QuietProcess(t)
    BY <2>2, QuietProcessInv
  <2>3. CASE PrepareBatch(t)
    BY <2>3, PrepareBatchInv
  <2>4. CASE PutDone(t)
    BY <2>4, PutDoneInv
  <2> QED
    BY <2>1, <2>2, <2>3, <2>4 DEF ProcessStep, QuietProcess
<1>4. CASE \E f \in Frames : Send(f)
  BY <1>4, SendInv
<1>5. CASE NextReturn
  BY <1>5, NextReturnInv
<1>6. CASE QuietOther
  BY <1>6, QuietOtherInv
<1> QED
  BY <1>1, <1>2, <1>3, <1>4, <1>5, <1>6 DEF Next, QuietOther

LEMMA InvAlways == Spec => []IInv
<1> QED
  BY InitInv, NextInv, PTL DEF Spec

-----------------------------------------------------------------------------
(* What holds in every state.                                               *)

(* No request object, bit-stream buffer or frame is lost, made, twice in    *)
(* one queue or in two places, whatever is dropped, stopped or deleted.     *)
THEOREM ConservedAlways == Spec => []Conserved
<1>1. IInv => Conserved
  <2> SUFFICES ASSUME IInv PROVE Conserved
    OBVIOUS
  <2>1. TypeOK /\ PlacesInv /\ CountInv
    BY DEF IInv
  <2>2. ASSUME NEW f \in Frames
        PROVE  Cardinality({p \in Spots : f \in At[p]}) = 1
    <3>1. PICK s \in Spots : \A p \in Spots : f \in At[p] <=> p = s
      BY <2>1, AtHolds DEF PlacesInv, InOnePlace
    <3>2. {p \in Spots : f \in At[p]} = {s}
      BY <3>1
    <3> QED
      BY <3>2, FS_Singleton
  <2>3. FramesConserved
    BY <2>1, <2>2 DEF PlacesInv, FramesConserved
  <2> QED
    BY <2>1, <2>3 DEF CountInv, Conserved
<1> QED
  BY <1>1, InvAlways, PTL

(* The codecs never have two frames of a channel at a time.                 *)
THEOREM ChannelAlwaysEncodedOnce == Spec => []ChannelEncodedOnce
<1>1. IInv => ChannelEncodedOnce
  <2> SUFFICES ASSUME IInv, NEW t \in Tsks, NEW u \in Tsks,
                      NEW i \in DOMAIN batch[t], NEW j \in DOMAIN batch[u],
                      Chan(batch[t][i]) = Chan(batch[u][j])
               PROVE  t = u /\ i = j
    BY DEF ChannelEncodedOnce
  <2>1. batch[t][i] \in Range(batch[t]) /\ batch[u][j] \in Range(batch[u])
    BY DEF Range
  <2>2. TskOf[Chan(batch[t][i])] = t /\ TskOf[Chan(batch[u][j])] = u
    BY <2>1 DEF IInv, ChanInv
  <2>3. t = u
    BY <2>2
  <2> QED
    BY <2>3 DEF IInv, BatchInv
<1> QED
  BY <1>1, InvAlways, PTL

(* A deleted encoder leaves no request in a queue or a codec, and no buffer *)
(* in a list of its task.                                                   *)
THEOREM NothingEverLeftInCodec == Spec => []NothingLeftInCodec
<1>1. IInv => NothingLeftInCodec
  <2> SUFFICES ASSUME IInv, lpc \in {"delete", "unblock", "join", "deleted"}
               PROVE  /\ \A t \in Tsks : procQue[t] = <<>> /\ batch[t] = <<>>
                      /\ doneQue = <<>> /\ empty + out = NumBufs
    BY DEF NothingLeftInCodec
  <2>1. TypeOK /\ CountInv /\ OutReqs = {} /\ bufs = 0 /\ spare = 0
    BY DEF IInv, EndInv
  <2>2. Range(doneQue) = {} /\ \A t \in Tsks : Range(procQue[t]) = {} /\ Range(batch[t]) = {}
    BY <2>1 DEF OutReqs
  <2>3. /\ doneQue \in Seq(Requests)
        /\ \A t \in Tsks : procQue[t] \in Seq(Requests) /\ batch[t] \in Seq(Requests)
    BY <2>1 DEF TypeOK
  <2>4. doneQue = <<>> /\ \A t \in Tsks : procQue[t] = <<>> /\ batch[t] = <<>>
    <3>1. doneQue = <<>>
      BY <2>2, <2>3, ListEmpty
    <3>2. ASSUME NEW t \in Tsks PROVE procQue[t] = <<>> /\ batch[t] = <<>>
      <4>1. /\ procQue[t] \in Seq(Requests) /\ Range(procQue[t]) = {}
            /\ batch[t] \in Seq(Requests) /\ Range(batch[t]) = {}
        BY <2>2, <2>3
      <4> QED
        BY <4>1, ListEmpty
    <3> QED
      BY <3>1, <3>2
  <2>5. Submitted = 0
    BY <2>1, FS_EmptySet DEF Submitted
  <2>6. empty \in Nat /\ out \in Nat /\ empty + out + bufs + spare + Submitted = NumBufs
    BY <2>1, EncAssumption DEF TypeOK, CountInv, BufsConserved
  <2>7. empty + out = NumBufs
    BY <2>1, <2>5, <2>6
  <2> QED
    BY <2>4, <2>7
<1> QED
  BY <1>1, InvAlways, PTL

-----------------------------------------------------------------------------
(* The order of the pictures of a channel.                                  *)

LEMMA EarlierConcat ==
  ASSUME NEW S, NEW p \in Seq(S), NEW q \in Seq(S), NEW x, NEW y
  PROVE  Earlier(p \o q, x, y) <=> \/ Earlier(p, x, y) \/ Earlier(q, x, y)
                                   \/ x \in Range(p) /\ y \in Range(q)
<1>1. /\ Len(p) \in Nat /\ Len(q) \in Nat
      /\ DOMAIN p = 1 .. Len(p) /\ DOMAIN q = 1 .. Len(q)
      /\ DOMAIN (p \o q) = 1 .. Len(p) + Len(q)
  BY LenProperties, ConcatProperties
<1>2. /\ \A i \in DOMAIN p : i \in DOMAIN (p \o q) /\ (p \o q)[i] = p[i]
      /\ \A i \in DOMAIN q : /\ i + Len(p) \in DOMAIN (p \o q)
                             /\ (p \o q)[i + Len(p)] = q[i]
      /\ \A i \in DOMAIN (p \o q) :
           \/ i \in DOMAIN p /\ (p \o q)[i] = p[i]
           \/ i - Len(p) \in DOMAIN q /\ (p \o q)[i] = q[i - Len(p)]
  BY <1>1, ConcatProperties
<1>3. ASSUME Earlier(p \o q, x, y)
      PROVE  \/ Earlier(p, x, y) \/ Earlier(q, x, y)
             \/ x \in Range(p) /\ y \in Range(q)
  <2>1. PICK i, j \in DOMAIN (p \o q) : i < j /\ (p \o q)[i] = x /\ (p \o q)[j] = y
    BY <1>3 DEF Earlier
  <2>2. CASE i \in DOMAIN p /\ j \in DOMAIN p
    BY <1>2, <2>1, <2>2 DEF Earlier
  <2>3. CASE i \in DOMAIN p /\ j \notin DOMAIN p
    <3>1. x = p[i] /\ j - Len(p) \in DOMAIN q /\ y = q[j - Len(p)]
      BY <1>2, <2>1, <2>3
    <3> QED
      BY <2>3, <3>1 DEF Range
  <2>4. CASE i \notin DOMAIN p
    <3>1. j \notin DOMAIN p
      BY <1>1, <2>1, <2>4
    <3>2. /\ i - Len(p) \in DOMAIN q /\ x = q[i - Len(p)]
          /\ j - Len(p) \in DOMAIN q /\ y = q[j - Len(p)]
      BY <1>2, <2>1, <2>4, <3>1
    <3>3. i - Len(p) < j - Len(p)
      BY <1>1, <2>1
    <3> QED
      BY <3>2, <3>3 DEF Earlier
  <2> QED
    BY <2>2, <2>3, <2>4
<1>4. Earlier(p, x, y) => Earlier(p \o q, x, y)
  BY <1>2 DEF Earlier
<1>5. ASSUME Earlier(q, x, y) PROVE Earlier(p \o q, x, y)
  <2>1. PICK i, j \in DOMAIN q : i < j /\ q[i] = x /\ q[j] = y
    BY <1>5 DEF Earlier
  <2>2. i + Len(p) < j + Len(p)
    BY <1>1, <2>1
  <2> QED
    BY <1>2, <2>1, <2>2 DEF Earlier
<1>6. ASSUME x \in Range(p), y \in Range(q) PROVE Earlier(p \o q, x, y)
  <2>1. PICK i \in DOMAIN p, j \in DOMAIN q : p[i] = x /\ q[j] = y
    BY <1>6 DEF Range
  <2>2. i < j + Len(p)
    BY <1>1, <2>1
  <2> QED
    BY <1>2, <2>1, <2>2 DEF Earlier
<1> QED
  BY <1>3, <1>4, <1>5, <1>6

\* f leaves before g because of the requests of s alone.
Ahead(s, f, g) ==
  \/ \E q, r \in Range(s) : f \in Range(q) /\ g \in Range(r) /\ Earlier(s, q, r)
  \/ \E r \in Range(s) : Earlier(r, f, g)

LEMMA AheadConcat ==
  ASSUME NEW p \in Seq(Requests), NEW q \in Seq(Requests), NEW f, NEW g
  PROVE  Ahead(p \o q, f, g) <=> \/ Ahead(p, f, g) \/ Ahead(q, f, g)
                                 \/ f \in Carried(p) /\ g \in Carried(q)
<1>1. /\ Range(p \o q) = Range(p) \cup Range(q)
      /\ \A x, y : Earlier(p \o q, x, y) <=> \/ Earlier(p, x, y) \/ Earlier(q, x, y)
                                             \/ x \in Range(p) /\ y \in Range(q)
  BY JoinQueues, EarlierConcat
<1>2. \A s, x, y : Earlier(s, x, y) => x \in Range(s) /\ y \in Range(s)
  BY DEF Earlier, Range
<1>3. ASSUME Ahead(p \o q, f, g)
      PROVE  \/ Ahead(p, f, g) \/ Ahead(q, f, g)
             \/ f \in Carried(p) /\ g \in Carried(q)
  <2>1. CASE \E a, r \in Range(p \o q) :
               f \in Range(a) /\ g \in Range(r) /\ Earlier(p \o q, a, r)
    <3>1. PICK a, r : f \in Range(a) /\ g \in Range(r) /\ Earlier(p \o q, a, r)
      BY <2>1
    <3>2. CASE Earlier(p, a, r)
      BY <1>2, <3>1, <3>2 DEF Ahead
    <3>3. CASE Earlier(q, a, r)
      BY <1>2, <3>1, <3>3 DEF Ahead
    <3>4. CASE a \in Range(p) /\ r \in Range(q)
      BY <3>1, <3>4 DEF Carried
    <3> QED
      BY <1>1, <3>1, <3>2, <3>3, <3>4
  <2>2. CASE \E r \in Range(p \o q) : Earlier(r, f, g)
    BY <1>1, <2>2 DEF Ahead
  <2> QED
    BY <1>3, <2>1, <2>2 DEF Ahead
<1>4. Ahead(p, f, g) \/ Ahead(q, f, g) => Ahead(p \o q, f, g)
  BY <1>1 DEF Ahead
<1>5. ASSUME f \in Carried(p), g \in Carried(q) PROVE Ahead(p \o q, f, g)
  <2>1. PICK a \in Range(p), r \in Range(q) : f \in Range(a) /\ g \in Range(r)
    BY <1>5 DEF Carried
  <2> QED
    BY <1>1, <2>1 DEF Ahead
<1> QED
  BY <1>3, <1>4, <1>5

LEMMA AheadShort ==
  ASSUME NEW f, NEW g
  PROVE  /\ ~Ahead(<<>>, f, g)
         /\ \A r \in Requests : Ahead(<<r>>, f, g) <=> Earlier(r, f, g)
<1>1. ~Ahead(<<>>, f, g)
  BY OneRequest DEF Ahead
<1>2. ASSUME NEW r \in Requests PROVE Ahead(<<r>>, f, g) <=> Earlier(r, f, g)
  <2>1. Range(<<r>>) = {r}
    BY OneRequest
  <2>2. \A x, y : ~Earlier(<<r>>, x, y)
    BY DEF Earlier
  <2> QED
    BY <2>1, <2>2 DEF Ahead
<1> QED
  BY <1>1, <1>2

\* With processDoneQue d, batch b and processQue p of the channel's task, and
\* inQue q: f is in one of them; f leaves the link before g.
Piped(d, b, p, q, f) ==
  f \in Carried(d) \cup Carried(b) \cup Carried(p) \cup Range(q)

Precedes(d, b, p, q, f, g) ==
  \/ Ahead(d, f, g) \/ Ahead(b, f, g) \/ Ahead(p, f, g) \/ Earlier(q, f, g)
  \/ f \in Carried(d) /\ g \in Carried(b) \cup Carried(p) \cup Range(q)
  \/ f \in Carried(b) /\ g \in Carried(p) \cup Range(q)
  \/ f \in Carried(p) /\ g \in Range(q)

LEMMA LineParts ==
  ASSUME NEW d \in Seq(Requests), NEW b \in Seq(Requests), NEW p \in Seq(Requests),
         NEW f, NEW g
  PROVE  /\ Carried(d \o b \o p) = Carried(d) \cup Carried(b) \cup Carried(p)
         /\ Ahead(d \o b \o p, f, g) <=>
              \/ Ahead(d, f, g) \/ Ahead(b, f, g) \/ Ahead(p, f, g)
              \/ f \in Carried(d) /\ g \in Carried(b) \cup Carried(p)
              \/ f \in Carried(b) /\ g \in Carried(p)
<1>1. d \o b \in Seq(Requests)
  BY ConcatProperties
<1>2. /\ Carried(d \o b) = Carried(d) \cup Carried(b)
      /\ Carried((d \o b) \o p) = Carried(d \o b) \cup Carried(p)
  BY <1>1, JoinQueues
<1>3. /\ Ahead(d \o b, f, g) <=> \/ Ahead(d, f, g) \/ Ahead(b, f, g)
                                 \/ f \in Carried(d) /\ g \in Carried(b)
      /\ Ahead((d \o b) \o p, f, g) <=> \/ Ahead(d \o b, f, g) \/ Ahead(p, f, g)
                                        \/ f \in Carried(d \o b) /\ g \in Carried(p)
  BY <1>1, AheadConcat
<1> QED
  BY <1>2, <1>3

LEMMA Precedence ==
  ASSUME TypeOK, NEW f \in Frames, NEW g \in Frames, ChOf[f] = ChOf[g],
         NEW c \in Chs, c = ChOf[f], NEW t \in Tsks, t = TskOf[c]
  PROVE  /\ InPipe(f) <=> Piped(doneQue, batch[t], procQue[t], inQue[c], f)
         /\ InPipe(g) <=> Piped(doneQue, batch[t], procQue[t], inQue[c], g)
         /\ Before(f, g) <=>
              Precedes(doneQue, batch[t], procQue[t], inQue[c], f, g)
<1>1. /\ doneQue \in Seq(Requests) /\ batch[t] \in Seq(Requests)
      /\ procQue[t] \in Seq(Requests)
  BY DEF TypeOK
<1>2. Line(c) = doneQue \o batch[t] \o procQue[t]
  BY DEF Line
<1>3. /\ InRequest(f) <=> f \in Carried(Line(c))
      /\ InRequest(g) <=> g \in Carried(Line(c))
  BY DEF InRequest, Carried
<1>4. Before(f, g) <=> \/ Ahead(Line(c), f, g)
                       \/ InRequest(f) /\ g \in Range(inQue[c])
                       \/ Earlier(inQue[c], f, g)
  BY DEF Before, Ahead
<1>5. /\ Carried(Line(c)) = Carried(doneQue) \cup Carried(batch[t]) \cup Carried(procQue[t])
      /\ Ahead(Line(c), f, g) <=>
           \/ Ahead(doneQue, f, g) \/ Ahead(batch[t], f, g) \/ Ahead(procQue[t], f, g)
           \/ f \in Carried(doneQue) /\ g \in Carried(batch[t]) \cup Carried(procQue[t])
           \/ f \in Carried(batch[t]) /\ g \in Carried(procQue[t])
  <2> DEFINE d == doneQue
             b == batch[t]
             p == procQue[t]
             l == d \o b \o p
  <2>1. d \in Seq(Requests) /\ b \in Seq(Requests) /\ p \in Seq(Requests)
    BY <1>1
  <2>2. Line(c) = l
    BY <1>2
  <2>3. /\ Carried(l) = Carried(d) \cup Carried(b) \cup Carried(p)
        /\ Ahead(l, f, g) <=>
             \/ Ahead(d, f, g) \/ Ahead(b, f, g) \/ Ahead(p, f, g)
             \/ f \in Carried(d) /\ g \in Carried(b) \cup Carried(p)
             \/ f \in Carried(b) /\ g \in Carried(p)
    <3> HIDE DEF d, b, p
    <3> QED
      BY <2>1, LineParts
  <2> HIDE DEF l
  <2> QED
    BY <2>2, <2>3
<1>6. InPipe(f) <=> InRequest(f) \/ f \in Range(inQue[c])
  BY DEF InPipe
<1>7. InPipe(g) <=> InRequest(g) \/ g \in Range(inQue[c])
  BY DEF InPipe
<1> QED
  BY <1>3, <1>4, <1>5, <1>6, <1>7 DEF Piped, Precedes

LEMMA PrecedenceNext ==
  ASSUME TypeOK', NEW f \in Frames, NEW g \in Frames, ChOf[f] = ChOf[g],
         NEW c \in Chs, c = ChOf[f], NEW t \in Tsks, t = TskOf[c]
  PROVE  /\ InPipe(f)' <=> Piped(doneQue', batch'[t], procQue'[t], inQue'[c], f)
         /\ InPipe(g)' <=> Piped(doneQue', batch'[t], procQue'[t], inQue'[c], g)
         /\ Before(f, g)' <=>
              Precedes(doneQue', batch'[t], procQue'[t], inQue'[c], f, g)
<1>1. /\ doneQue' \in Seq(Requests) /\ batch'[t] \in Seq(Requests)
      /\ procQue'[t] \in Seq(Requests)
  BY DEF TypeOK
<1>2. Line(c)' = doneQue' \o batch'[t] \o procQue'[t]
  BY DEF Line
<1>3. /\ InRequest(f)' <=> f \in Carried(Line(c)')
      /\ InRequest(g)' <=> g \in Carried(Line(c)')
  BY DEF InRequest, Carried
<1>4. Before(f, g)' <=> \/ Ahead(Line(c)', f, g)
                        \/ InRequest(f)' /\ g \in Range(inQue'[c])
                        \/ Earlier(inQue'[c], f, g)
  BY DEF Before, Ahead, Earlier
<1>5. /\ Carried(Line(c)') =
           Carried(doneQue') \cup Carried(batch'[t]) \cup Carried(procQue'[t])
      /\ Ahead(Line(c)', f, g) <=>
           \/ Ahead(doneQue', f, g) \/ Ahead(batch'[t], f, g) \/ Ahead(procQue'[t], f, g)
           \/ f \in Carried(doneQue') /\ g \in Carried(batch'[t]) \cup Carried(procQue'[t])
           \/ f \in Carried(batch'[t]) /\ g \in Carried(procQue'[t])
  <2> DEFINE d == doneQue'
             b == batch'[t]
             p == procQue'[t]
             l == d \o b \o p
  <2>1. d \in Seq(Requests) /\ b \in Seq(Requests) /\ p \in Seq(Requests)
    BY <1>1
  <2>2. Line(c)' = l
    BY <1>2
  <2>3. /\ Carried(l) = Carried(d) \cup Carried(b) \cup Carried(p)
        /\ Ahead(l, f, g) <=>
             \/ Ahead(d, f, g) \/ Ahead(b, f, g) \/ Ahead(p, f, g)
             \/ f \in Carried(d) /\ g \in Carried(b) \cup Carried(p)
             \/ f \in Carried(b) /\ g \in Carried(p)
    <3> HIDE DEF d, b, p
    <3> QED
      BY <2>1, LineParts
  <2> HIDE DEF l
  <2> QED
    BY <2>2, <2>3
<1>6. InPipe(f)' <=> InRequest(f)' \/ f \in Range(inQue'[c])
  BY DEF InPipe
<1>7. InPipe(g)' <=> InRequest(g)' \/ g \in Range(inQue'[c])
  BY DEF InPipe
<1> QED
  BY <1>3, <1>4, <1>5, <1>6, <1>7 DEF Piped, Precedes

\* What InOrder says of two frames of channel c, which waits for task t.
InPipeOf(c, t, f) == Piped(doneQue, batch[t], procQue[t], inQue[c], f)
BeforeOf(c, t, f, g) == Precedes(doneQue, batch[t], procQue[t], inQue[c], f, g)

Kept(c, t, f, g) ==
  /\ InPipeOf(c, t, f) /\ (InPipeOf(c, t, g) => BeforeOf(c, t, f, g))
  /\ InPipeOf(c, t, f)' /\ InPipeOf(c, t, g)'
  => BeforeOf(c, t, f, g)'

LEMMA SameKept ==
  ASSUME NEW c \in Chs, NEW t \in Tsks, NEW f, NEW g,
         doneQue' = doneQue, batch'[t] = batch[t], procQue'[t] = procQue[t],
         inQue'[c] = inQue[c]
  PROVE  Kept(c, t, f, g)
BY DEF Kept, InPipeOf, BeforeOf, Piped, Precedes, Ahead, Earlier, Carried

(* New frames come behind those that are there.                             *)
LEMMA QueueFramesKept ==
  ASSUME IInv, QueueFrames, NEW f \in Frames, NEW g \in Frames,
         NEW c \in Chs, NEW t \in Tsks
  PROVE  Kept(c, t, f, g)
<1> USE DEF source, requests, codec, buffers, lists, loop, admin
<1>1. TypeOK
  BY DEF IInv
<1>2. PICK new \in [Chs -> Sublists(upq)] : inQue' = [d \in Chs |-> inQue[d] \o new[d]]
  BY DEF QueueFrames
<1>3. inQue[c] \in Seq(Frames) /\ new[c] \in Seq(Frames) /\ inQue'[c] = inQue[c] \o new[c]
  BY <1>1, <1>2, SublistHolds DEF TypeOK
<1>4. /\ Range(inQue'[c]) = Range(inQue[c]) \cup Range(new[c])
      /\ Earlier(inQue'[c], f, g) <=> \/ Earlier(inQue[c], f, g) \/ Earlier(new[c], f, g)
                                      \/ f \in Range(inQue[c]) /\ g \in Range(new[c])
  <2> DEFINE q == inQue[c]
             s == new[c]
  <2>1. q \in Seq(Frames) /\ s \in Seq(Frames) /\ inQue'[c] = q \o s
    BY <1>3
  <2> HIDE DEF q, s
  <2>2. /\ Range(q \o s) = Range(q) \cup Range(s)
        /\ Earlier(q \o s, f, g) <=> \/ Earlier(q, f, g) \/ Earlier(s, f, g)
                                     \/ f \in Range(q) /\ g \in Range(s)
    BY <2>1, ConcatLists, EarlierConcat
  <2> QED
    BY <2>1, <2>2 DEF q, s
<1>5. doneQue' = doneQue /\ batch' = batch /\ procQue' = procQue
  BY DEF QueueFrames
<1>6. /\ InPipeOf(c, t, f)' <=> InPipeOf(c, t, f) \/ f \in Range(new[c])
      /\ InPipeOf(c, t, g)' <=> InPipeOf(c, t, g) \/ g \in Range(new[c])
  BY <1>4, <1>5 DEF InPipeOf, Piped
<1>7. BeforeOf(c, t, f, g) => BeforeOf(c, t, f, g)'
  <2>1. Ahead(doneQue', f, g) <=> Ahead(doneQue, f, g)
    BY <1>5
  <2>2. Ahead(batch'[t], f, g) <=> Ahead(batch[t], f, g)
    BY <1>5
  <2>3. Ahead(procQue'[t], f, g) <=> Ahead(procQue[t], f, g)
    BY <1>5
  <2> QED
    BY <1>4, <1>5, <2>1, <2>2, <2>3 DEF BeforeOf, Precedes
<1>8. ASSUME InPipeOf(c, t, f), g \in Range(new[c]) PROVE BeforeOf(c, t, f, g)'
  <2>1. /\ g \in Range(inQue'[c])
        /\ f \in Range(inQue[c]) => Earlier(inQue'[c], f, g)
    BY <1>4, <1>8
  <2> QED
    BY <1>5, <1>8, <2>1 DEF BeforeOf, Precedes, InPipeOf, Piped
<1> QED
  BY <1>6, <1>7, <1>8 DEF Kept

(* The frames at the head of inQue become the last request.                 *)
LEMMA SubmitKept ==
  ASSUME IInv, Submit, NEW f \in Frames, NEW g \in Frames,
         NEW c \in Chs, ChOf[f] = c, ChOf[g] = c, NEW t \in Tsks, t = TskOf[c]
  PROVE  Kept(c, t, f, g)
<1> USE DEF source, requests, codec, buffers, lists, loop, admin
<1>1. TypeOK /\ ch \in Chs
  BY TurnTyped DEF IInv, Submit
<1>2. /\ HasFrames /\ inQue' = Rest /\ doneQue' = doneQue /\ batch' = batch
      /\ procQue' = [procQue EXCEPT ![TskOf[ch]] = Append(@, First)]
  BY DEF Submit
<1>3. /\ First \in Requests /\ Rest[ch] \in Seq(Frames) /\ inQue[ch] = First \o Rest[ch]
      /\ \A d \in Chs : d # ch => Rest[d] = inQue[d]
      /\ OneChannel(First) /\ Chan(First) = ch
  BY <1>1, <1>2, FirstRest
<1>4. First \in Seq(Frames)
  BY <1>3, RequestFrames
<1>5. CASE TskOf[ch] # t
  <2>1. procQue'[t] = procQue[t] /\ c # ch
    BY <1>1, <1>2, <1>5 DEF TypeOK
  <2>2. inQue'[c] = inQue[c]
    BY <1>2, <1>3, <2>1
  <2> QED
    BY <1>2, <2>1, <2>2, SameKept
<1>6. CASE TskOf[ch] = t
  <2>1. /\ procQue[t] \in Seq(Requests)
        /\ procQue'[t] = Append(procQue[t], First)
    BY <1>1, <1>2, <1>6 DEF TypeOK
  <2>2. /\ Carried(procQue'[t]) = Carried(procQue[t]) \cup Range(First)
        /\ Ahead(procQue'[t], f, g) <=>
             \/ Ahead(procQue[t], f, g) \/ Earlier(First, f, g)
             \/ f \in Carried(procQue[t]) /\ g \in Range(First)
    <3> DEFINE p == procQue[t]
               s == <<First>>
    <3>1. p \in Seq(Requests) /\ s \in Seq(Requests) /\ Carried(s) = Range(First)
      BY <1>3, <2>1, OneRequest
    <3>2. Ahead(s, f, g) <=> Earlier(First, f, g)
      BY <1>3, AheadShort
    <3>3. procQue'[t] = p \o s
      BY <1>3, <2>1, AppendIsConcat
    <3> HIDE DEF p, s
    <3>4. /\ Carried(p \o s) = Carried(p) \cup Carried(s)
          /\ Ahead(p \o s, f, g) <=> \/ Ahead(p, f, g) \/ Ahead(s, f, g)
                                     \/ f \in Carried(p) /\ g \in Carried(s)
      BY <3>1, JoinQueues, AheadConcat
    <3> QED
      BY <3>1, <3>2, <3>3, <3>4 DEF p
  <2>3. CASE c = ch
    <3>1. /\ Range(inQue[c]) = Range(First) \cup Range(inQue'[c])
          /\ Earlier(inQue[c], f, g) <=>
               \/ Earlier(First, f, g) \/ Earlier(inQue'[c], f, g)
               \/ f \in Range(First) /\ g \in Range(inQue'[c])
      <4> DEFINE r == Rest[ch]
                 s == First
      <4>1. r \in Seq(Frames) /\ s \in Seq(Frames) /\ inQue[c] = s \o r /\ inQue'[c] = r
        BY <1>2, <1>3, <1>4, <2>3
      <4> HIDE DEF r, s
      <4>2. /\ Range(s \o r) = Range(s) \cup Range(r)
            /\ Earlier(s \o r, f, g) <=> \/ Earlier(s, f, g) \/ Earlier(r, f, g)
                                         \/ f \in Range(s) /\ g \in Range(r)
        BY <4>1, ConcatLists, EarlierConcat
      <4> QED
        BY <4>1, <4>2 DEF s
    <3>2. /\ Ahead(doneQue', f, g) <=> Ahead(doneQue, f, g)
          /\ Ahead(batch'[t], f, g) <=> Ahead(batch[t], f, g)
      BY <1>2
    <3>3. BeforeOf(c, t, f, g) => BeforeOf(c, t, f, g)'
      <4> HIDE DEF First
      <4> QED
        BY <1>2, <2>2, <3>1, <3>2 DEF BeforeOf, Precedes
    <3>4. InPipeOf(c, t, g)' => InPipeOf(c, t, g)
      <4> HIDE DEF First
      <4> QED
        BY <1>2, <2>2, <3>1 DEF InPipeOf, Piped
    <3> QED
      BY <3>3, <3>4 DEF Kept
  <2>4. CASE c # ch
    <3>1. inQue'[c] = inQue[c]
      BY <1>2, <1>3, <2>4
    <3>2. f \notin Range(First) /\ g \notin Range(First)
      BY <1>3, <2>4 DEF OneChannel
    <3>3. /\ Ahead(doneQue', f, g) <=> Ahead(doneQue, f, g)
          /\ Ahead(batch'[t], f, g) <=> Ahead(batch[t], f, g)
          /\ Earlier(inQue'[c], f, g) <=> Earlier(inQue[c], f, g)
      BY <1>2, <3>1
    <3>4. BeforeOf(c, t, f, g) => BeforeOf(c, t, f, g)'
      <4> HIDE DEF First
      <4> QED
        BY <1>2, <2>2, <3>1, <3>3 DEF BeforeOf, Precedes
    <3>5. InPipeOf(c, t, g)' => InPipeOf(c, t, g)
      <4> HIDE DEF First
      <4> QED
        BY <1>2, <2>2, <3>1, <3>2 DEF InPipeOf, Piped
    <3> QED
      BY <3>4, <3>5 DEF Kept
  <2> QED
    BY <2>3, <2>4
<1> QED
  BY <1>5, <1>6

(* The frames at the head of inQue leave the pipe.                          *)
LEMMA DropKept ==
  ASSUME IInv, Drop, NEW f \in Frames, NEW g \in Frames,
         NEW c \in Chs, NEW t \in Tsks
  PROVE  Kept(c, t, f, g)
<1> USE DEF source, requests, codec, buffers, lists, loop, admin
<1>1. TypeOK /\ PlacesInv /\ ch \in Chs
  BY TurnTyped DEF IInv, Drop
<1>2. /\ HasFrames /\ inQue' = Rest /\ doneQue' = doneQue /\ batch' = batch
      /\ procQue' = procQue
  BY DEF Drop
<1>3. /\ First \in Requests /\ Rest[ch] \in Seq(Frames) /\ inQue[ch] = First \o Rest[ch]
      /\ Range(Rest[ch]) = Range(inQue[ch]) \ Range(First)
      /\ Range(First) \subseteq Range(inQue[ch])
      /\ \A d \in Chs : d # ch => Rest[d] = inQue[d]
  BY <1>1, <1>2, FirstRest
<1>4. First \in Seq(Frames)
  BY <1>3, RequestFrames
<1>5. CASE c # ch
  <2>1. inQue'[c] = inQue[c]
    BY <1>2, <1>3, <1>5
  <2> QED
    BY <1>2, <2>1, SameKept
<1>6. CASE c = ch
  <2>1. /\ Range(inQue[c]) = Range(First) \cup Range(inQue'[c])
        /\ Earlier(inQue[c], f, g) <=>
             \/ Earlier(First, f, g) \/ Earlier(inQue'[c], f, g)
             \/ f \in Range(First) /\ g \in Range(inQue'[c])
    <3> DEFINE r == Rest[ch]
               s == First
    <3>1. r \in Seq(Frames) /\ s \in Seq(Frames) /\ inQue[c] = s \o r /\ inQue'[c] = r
      BY <1>2, <1>3, <1>4, <1>6
    <3> HIDE DEF r, s
    <3>2. /\ Range(s \o r) = Range(s) \cup Range(r)
          /\ Earlier(s \o r, f, g) <=> \/ Earlier(s, f, g) \/ Earlier(r, f, g)
                                       \/ f \in Range(s) /\ g \in Range(r)
      BY <3>1, ConcatLists, EarlierConcat
    <3> QED
      BY <3>1, <3>2 DEF s
  <2>2. ASSUME NEW x \in Frames, x \in Range(First)
        PROVE  ~InPipeOf(c, t, x)'
    <3>1. x \in At[<<"in", c>>]
      BY <1>1, <1>3, <1>6, <2>2, AtHolds
    <3>2. /\ x \notin At[<<"done", 0>>] /\ x \notin At[<<"batch", t>>]
          /\ x \notin At[<<"proc", t>>]
      <4>1. /\ <<"in", c>> # <<"done", 0>> /\ <<"in", c>> # <<"batch", t>>
            /\ <<"in", c>> # <<"proc", t>>
        OBVIOUS
      <4> QED
        BY <1>1, <3>1, <4>1, AtHolds, Apart
    <3>3. /\ x \notin Carried(doneQue') /\ x \notin Carried(batch'[t])
          /\ x \notin Carried(procQue'[t])
      BY <1>2, <3>2, AtHolds
    <3>4. x \notin Range(inQue'[c])
      BY <1>2, <1>3, <1>6, <2>2
    <3> QED
      BY <3>3, <3>4 DEF InPipeOf, Piped
  <2>3. /\ Ahead(doneQue', f, g) <=> Ahead(doneQue, f, g)
        /\ Ahead(batch'[t], f, g) <=> Ahead(batch[t], f, g)
        /\ Ahead(procQue'[t], f, g) <=> Ahead(procQue[t], f, g)
    BY <1>2
  <2>4. \A x, y : Earlier(First, x, y) => x \in Range(First)
    BY DEF Earlier, Range
  <2>5. InPipeOf(c, t, g)' => InPipeOf(c, t, g)
    <3> HIDE DEF First
    <3> QED
      BY <1>2, <2>1 DEF InPipeOf, Piped
  <2>6. ASSUME InPipeOf(c, t, f)', InPipeOf(c, t, g)', BeforeOf(c, t, f, g)
        PROVE  BeforeOf(c, t, f, g)'
    <3>1. f \notin Range(First) /\ g \notin Range(First)
      BY <2>2, <2>6
    <3> HIDE DEF First
    <3> QED
      BY <1>2, <2>1, <2>3, <2>4, <2>6, <3>1 DEF BeforeOf, Precedes
  <2> QED
    BY <2>5, <2>6 DEF Kept
<1> QED
  BY <1>5, <1>6

(* The frames of the first request leave the pipe.                          *)
LEMMA DrainKept ==
  ASSUME IInv, Drain, NEW f \in Frames, NEW g \in Frames,
         NEW c \in Chs, NEW t \in Tsks
  PROVE  Kept(c, t, f, g)
<1> USE DEF source, requests, codec, buffers, lists, loop, admin
<1>1. TypeOK /\ PlacesInv
  BY DEF IInv
<1>2. /\ doneQue \in Seq(Requests) /\ doneQue # <<>> /\ EachOnce(doneQue)
      /\ doneQue' = Tail(doneQue) /\ batch' = batch /\ procQue' = procQue
      /\ inQue' = inQue
  BY <1>1 DEF Drain, Drainable, TypeOK, PlacesInv
<1> DEFINE r == Head(doneQue)
           s == <<r>>
           d == doneQue'
<1>3. r \in Requests /\ s \in Seq(Requests) /\ d \in Seq(Requests) /\ doneQue = s \o d
  BY <1>2, TakeRequest
<1>4. Carried(s) = Range(r)
  BY <1>3, OneRequest
<1>5. Ahead(s, f, g) <=> Earlier(r, f, g)
  BY <1>3, AheadShort
<1>6. EachOnce(s \o d)
  BY <1>2, <1>3
<1> HIDE DEF s, d
<1>7. /\ Carried(s \o d) = Carried(s) \cup Carried(d)
      /\ Carried(s) \cap Carried(d) = {}
      /\ Ahead(s \o d, f, g) <=> \/ Ahead(s, f, g) \/ Ahead(d, f, g)
                                 \/ f \in Carried(s) /\ g \in Carried(d)
  BY <1>3, <1>6, SplitQueue, AheadConcat
<1>8. /\ Carried(doneQue) = Range(r) \cup Carried(doneQue')
      /\ Range(r) \cap Carried(doneQue') = {}
      /\ Ahead(doneQue, f, g) <=> \/ Earlier(r, f, g) \/ Ahead(doneQue', f, g)
                                  \/ f \in Range(r) /\ g \in Carried(doneQue')
  <2> HIDE DEF r
  <2> QED
    BY <1>3, <1>4, <1>5, <1>7 DEF d
<1> HIDE DEF r
<1>9. ASSUME NEW x \in Frames, x \in Range(r)
      PROVE  ~InPipeOf(c, t, x)'
  <2>1. x \in At[<<"done", 0>>]
    BY <1>8, <1>9, AtHolds
  <2>2. /\ x \notin At[<<"in", c>>] /\ x \notin At[<<"batch", t>>]
        /\ x \notin At[<<"proc", t>>]
    <3>1. /\ <<"done", 0>> # <<"in", c>> /\ <<"done", 0>> # <<"batch", t>>
          /\ <<"done", 0>> # <<"proc", t>>
      OBVIOUS
    <3> QED
      BY <1>1, <2>1, <3>1, AtHolds, Apart
  <2>3. /\ x \notin Range(inQue'[c]) /\ x \notin Carried(batch'[t])
        /\ x \notin Carried(procQue'[t])
    BY <1>2, <2>2, AtHolds
  <2>4. x \notin Carried(doneQue')
    BY <1>8, <1>9
  <2> QED
    BY <2>3, <2>4 DEF InPipeOf, Piped
<1>10. /\ Ahead(batch'[t], f, g) <=> Ahead(batch[t], f, g)
       /\ Ahead(procQue'[t], f, g) <=> Ahead(procQue[t], f, g)
       /\ Earlier(inQue'[c], f, g) <=> Earlier(inQue[c], f, g)
  BY <1>2
<1>11. \A x, y : Earlier(r, x, y) => x \in Range(r)
  BY DEF Earlier, Range
<1>12. InPipeOf(c, t, g)' => InPipeOf(c, t, g)
  BY <1>2, <1>8 DEF InPipeOf, Piped
<1>13. ASSUME InPipeOf(c, t, f)', InPipeOf(c, t, g)', BeforeOf(c, t, f, g)
       PROVE  BeforeOf(c, t, f, g)'
  <2>1. f \notin Range(r) /\ g \notin Range(r)
    BY <1>9, <1>13
  <2>2. /\ Ahead(doneQue, f, g) => Ahead(doneQue', f, g)
        /\ f \in Carried(doneQue) => f \in Carried(doneQue')
    BY <1>8, <1>11, <2>1
  <2> QED
    BY <1>2, <1>10, <1>13, <2>2 DEF BeforeOf, Precedes
<1> QED
  BY <1>12, <1>13 DEF Kept

(* A batch is the head of the processQue it comes from.                     *)
LEMMA PrepareBatchKept ==
  ASSUME IInv, NEW u \in Tsks, PrepareBatch(u), NEW f \in Frames, NEW g \in Frames,
         NEW c \in Chs, NEW t \in Tsks
  PROVE  Kept(c, t, f, g)
<1> USE DEF source, requests, codec, buffers, lists, loop, admin
<1>1. TypeOK
  BY DEF IInv
<1>2. PICK k \in DOMAIN procQue[u] :
        /\ batch' = [batch EXCEPT ![u] = SubSeq(procQue[u], 1, k)]
        /\ procQue' = [procQue EXCEPT ![u] = SubSeq(@, k + 1, Len(@))]
  BY DEF PrepareBatch
<1>3. doneQue' = doneQue /\ inQue' = inQue
  BY DEF PrepareBatch
<1>4. CASE t # u
  <2>1. batch'[t] = batch[t] /\ procQue'[t] = procQue[t]
    BY <1>1, <1>2, <1>4 DEF TypeOK
  <2> QED
    BY <1>3, <2>1, SameKept
<1>5. CASE t = u
  <2> DEFINE p == procQue[t]
             a == batch'[t]
             b == procQue'[t]
  <2>1. a \in Seq(Requests) /\ b \in Seq(Requests) /\ p = a \o b
    <3>1. a = SubSeq(p, 1, k) /\ b = SubSeq(p, k + 1, Len(p))
      BY <1>1, <1>2, <1>5 DEF TypeOK
    <3>2. p \in Seq(Requests)
      BY <1>1 DEF TypeOK
    <3>3. k \in 0 .. Len(p)
      BY <1>2, <1>5, <3>2, LenProperties
    <3> HIDE DEF p, a, b
    <3> QED
      BY <3>1, <3>2, <3>3, SplitList
  <2>2. batch[t] = <<>>
    <3>1. ppc[t] # "codec"
      BY <1>5 DEF PrepareBatch, CanGet
    <3> QED
      BY <3>1 DEF IInv, BatchInv
  <2>3. Carried(batch[t]) = {} /\ ~Ahead(batch[t], f, g)
    BY <2>2, OneRequest, AheadShort
  <2> HIDE DEF p, a, b
  <2>4. /\ Carried(p) = Carried(a) \cup Carried(b)
        /\ Ahead(p, f, g) <=> \/ Ahead(a, f, g) \/ Ahead(b, f, g)
                              \/ f \in Carried(a) /\ g \in Carried(b)
    BY <2>1, JoinQueues, AheadConcat
  <2>5. /\ Carried(procQue[t]) = Carried(batch'[t]) \cup Carried(procQue'[t])
        /\ Ahead(procQue[t], f, g) <=>
             \/ Ahead(batch'[t], f, g) \/ Ahead(procQue'[t], f, g)
             \/ f \in Carried(batch'[t]) /\ g \in Carried(procQue'[t])
    BY <2>4 DEF p, a, b
  <2>6. /\ Ahead(doneQue', f, g) <=> Ahead(doneQue, f, g)
        /\ Earlier(inQue'[c], f, g) <=> Earlier(inQue[c], f, g)
    BY <1>3
  <2>7. InPipeOf(c, t, g)' => InPipeOf(c, t, g)
    BY <1>3, <2>3, <2>5 DEF InPipeOf, Piped
  <2>8. BeforeOf(c, t, f, g) => BeforeOf(c, t, f, g)'
    BY <1>3, <2>3, <2>5, <2>6 DEF BeforeOf, Precedes
  <2> QED
    BY <2>7, <2>8 DEF Kept
<1> QED
  BY <1>4, <1>5

(* A batch goes behind what is finished, and what waits is behind it or of  *)
(* another task's channels.                                                 *)
LEMMA PutDoneKept ==
  ASSUME IInv, NEW u \in Tsks, PutDone(u), NEW f \in Frames, NEW g \in Frames,
         NEW c \in Chs, ChOf[f] = c, ChOf[g] = c, NEW t \in Tsks, t = TskOf[c]
  PROVE  Kept(c, t, f, g)
<1> USE DEF source, requests, codec, buffers, lists, loop, admin
<1>1. TypeOK /\ ChanInv
  BY DEF IInv
<1>2. /\ doneQue' = doneQue \o batch[u] /\ procQue' = procQue /\ inQue' = inQue
      /\ batch'[u] = <<>> /\ \A x \in Tsks : x # u => batch'[x] = batch[x]
  BY <1>1 DEF PutDone, TypeOK
<1> DEFINE d == doneQue
           b == batch[u]
<1>3. d \in Seq(Requests) /\ b \in Seq(Requests)
  BY <1>1 DEF TypeOK
<1>4. /\ Carried(doneQue') = Carried(doneQue) \cup Carried(batch[u])
      /\ Ahead(doneQue', f, g) <=> \/ Ahead(doneQue, f, g) \/ Ahead(batch[u], f, g)
                                   \/ f \in Carried(doneQue) /\ g \in Carried(batch[u])
  <2>1. doneQue' = d \o b
    BY <1>2
  <2> HIDE DEF d, b
  <2>2. /\ Carried(d \o b) = Carried(d) \cup Carried(b)
        /\ Ahead(d \o b, f, g) <=> \/ Ahead(d, f, g) \/ Ahead(b, f, g)
                                   \/ f \in Carried(d) /\ g \in Carried(b)
    BY <1>3, JoinQueues, AheadConcat
  <2> QED
    BY <2>1, <2>2 DEF d, b
<1>5. /\ Ahead(procQue'[t], f, g) <=> Ahead(procQue[t], f, g)
      /\ Earlier(inQue'[c], f, g) <=> Earlier(inQue[c], f, g)
  BY <1>2
<1>6. CASE t = u
  <2>1. Carried(batch'[t]) = {} /\ ~Ahead(batch'[t], f, g)
    BY <1>2, <1>6, OneRequest, AheadShort
  <2>2. InPipeOf(c, t, g)' => InPipeOf(c, t, g)
    BY <1>2, <1>4, <1>6, <2>1 DEF InPipeOf, Piped
  <2>3. BeforeOf(c, t, f, g) => BeforeOf(c, t, f, g)'
    BY <1>2, <1>4, <1>5, <1>6, <2>1 DEF BeforeOf, Precedes
  <2> QED
    BY <2>2, <2>3 DEF Kept
<1>7. CASE t # u
  <2>1. batch'[t] = batch[t]
    BY <1>2, <1>7
  <2>2. g \notin Carried(batch[u])
    <3>1. SUFFICES ASSUME NEW r \in Range(batch[u]), g \in Range(r) PROVE FALSE
      BY DEF Carried
    <3>2. ChOf[g] = Chan(r) /\ TskOf[Chan(r)] = u
      BY <1>1, <3>1 DEF ChanInv, OneChannel
    <3> QED
      BY <1>7, <3>2
  <2>3. Ahead(batch'[t], f, g) <=> Ahead(batch[t], f, g)
    BY <2>1
  <2>4. InPipeOf(c, t, g)' => InPipeOf(c, t, g)
    BY <1>2, <1>4, <2>1, <2>2 DEF InPipeOf, Piped
  <2>5. BeforeOf(c, t, f, g) => BeforeOf(c, t, f, g)'
    BY <1>2, <1>4, <1>5, <2>1, <2>3 DEF BeforeOf, Precedes
  <2> QED
    BY <2>4, <2>5 DEF Kept
<1> QED
  BY <1>6, <1>7

(* No picture of a channel passes another on its way through the encoder,   *)
(* though the requests of several channels share queues and batches and are *)
(* finished by several tasks: the order in which EncLink_codecQueueFrames-  *)
(* ToChQue put them in inQue is the one in which they leave processDoneQue. *)
THEOREM AlwaysInOrder == Spec => InOrder
<1>1. ASSUME IInv, IInv', [Next]_vars,
             ~(UNCHANGED <<inQue, procQue, batch, doneQue>>),
             NEW f \in Frames, NEW g \in Frames, ChOf[f] = ChOf[g],
             InPipe(f), InPipe(g) => Before(f, g), InPipe(f)', InPipe(g)'
      PROVE  Before(f, g)'
  <2> DEFINE c == ChOf[f]
             t == TskOf[c]
  <2>1. c \in Chs /\ t \in Tsks /\ TypeOK /\ TypeOK'
    BY <1>1, EncAssumption DEF IInv
  <2>2. Kept(c, t, f, g)
    <3> HIDE DEF c, t
    <3> USE DEF source, requests, codec, buffers, lists, loop, admin
    <3>1. ChOf[f] = c /\ ChOf[g] = c /\ t = TskOf[c]
      BY <1>1 DEF c, t
    <3>2. CASE QueueFrames
      BY <1>1, <2>1, <3>2, QueueFramesKept
    <3>3. CASE Submit
      BY <1>1, <2>1, <3>1, <3>3, SubmitKept
    <3>4. CASE Drop
      BY <1>1, <2>1, <3>4, DropKept
    <3>5. CASE Drain
      BY <1>1, <2>1, <3>5, DrainKept
    <3>6. CASE \E u \in Tsks : PrepareBatch(u)
      BY <1>1, <2>1, <3>6, PrepareBatchKept
    <3>7. CASE \E u \in Tsks : PutDone(u)
      BY <1>1, <2>1, <3>1, <3>7, PutDoneKept
    <3>8. CASE LinkStep /\ ~QueueFrames /\ ~Submit /\ ~Drop /\ ~Drain
      <4>1. UNCHANGED <<inQue, procQue, batch, doneQue>>
        BY <3>8 DEF LinkStep, RecvNewData, NoRequest, NoFrames, EndSubmit,
                    RecvGetProcessed, PutDrained, RecvStop, WaitCmd, FreeInQueuedBufs,
                    Delete, UnBlockTsk, JoinTsk, Deleted
      <4> QED
        BY <1>1, <4>1
    <3>9. CASE \E u \in Tsks : Loop(u) \/ Sleep(u) \/ ForcedGet(u)
      <4>1. UNCHANGED <<inQue, procQue, batch, doneQue>>
        BY <3>9 DEF Loop, Sleep, ForcedGet
      <4> QED
        BY <1>1, <4>1
    <3>10. CASE \/ \E x \in Frames : Send(x)
                \/ Tick \/ NextReturn \/ \E cmd \in {"STOP", "DELETE"} : Command(cmd)
                \/ UNCHANGED vars
      <4>1. UNCHANGED <<inQue, procQue, batch, doneQue>>
        BY <3>10 DEF Send, Tick, NextReturn, Command, vars
      <4> QED
        BY <1>1, <4>1
    <3> QED
      BY <1>1, <3>2, <3>3, <3>4, <3>5, <3>6, <3>7, <3>8, <3>9, <3>10
         DEF Next, ProcessStep
  <2>3. /\ InPipe(f) <=> InPipeOf(c, t, f)
        /\ InPipe(g) <=> InPipeOf(c, t, g)
        /\ Before(f, g) <=> BeforeOf(c, t, f, g)
    BY <1>1, <2>1, Precedence DEF InPipeOf, BeforeOf
  <2>4. /\ InPipe(f)' <=> InPipeOf(c, t, f)'
        /\ InPipe(g)' <=> InPipeOf(c, t, g)'
        /\ Before(f, g)' <=> BeforeOf(c, t, f, g)'
    BY <1>1, <2>1, PrecedenceNext DEF InPipeOf, BeforeOf
  <2> QED
    BY <1>1, <2>2, <2>3, <2>4 DEF Kept
<1>2. IInv /\ IInv' /\ [Next]_vars =>
        [\A f, g \in Frames :
           /\ ChOf[f] = ChOf[g] /\ InPipe(f) /\ (InPipe(g) => Before(f, g))
           /\ InPipe(f)' /\ InPipe(g)'
           => Before(f, g)'
        ]_<<inQue, procQue, batch, doneQue>>
  BY <1>1
<1> QED
  BY <1>2, InvAlways, PTL DEF Spec, InOrder

=============================================================================
