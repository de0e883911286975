------------------------------ MODULE UtilsMbx ------------------------------
(* src_bios6/utils/src/utils_mbx.c with utils_tsk.c: command messages to    *)
(* the tasks of one core.  Every message comes from one pool and belongs to *)
(* exactly one holder at a time; a synchronous command is acknowledged by   *)
(* sending the message itself back on an acknowledge queue that the sender  *)
(* claims for the duration of the call.  All senders of a core share the    *)
(* mailbox of system_linkApi_local.c (gSystem_objCommon.mbx), so its few    *)
(* acknowledge queues are a contended resource.                             *)
(*                                                                          *)
(* The queues are used through put, get and free, whose blocking and        *)
(* ordering UtilsQue establishes; each is one step here.                    *)
EXTENDS Naturals, Sequences, Functions

CONSTANTS
  Callers,     \* tasks that call System_linkControl, System_sendLinkCmd
  Servers,     \* tasks running Utils_tskMain, one mailbox each
  Msgs,        \* gUtils_mbxMsgPool
  AckQues,     \* gSystem_objCommon.mbx.ackQue[]
  RecvLen,     \* UTILS_MBX_RECV_QUE_LEN_MAX
  AckLen,      \* UTILS_MBX_ACK_QUE_LEN_MAX
  None,        \* a NULL pointer
  MaxCalls,    \* bound: calls in a behaviour
  Deletes,     \* TRUE: a server may be deleted (Utils_tskDelete)
  Waits        \* TRUE: handlers of control commands call Utils_tskWaitCmd

ASSUME MbxAssumption ==
  /\ RecvLen \in Nat \ {0} /\ AckLen \in Nat \ {0} /\ MaxCalls \in Nat
  /\ Deletes \in BOOLEAN /\ Waits \in BOOLEAN
  /\ None \notin Msgs \cup AckQues \cup Servers \cup Callers

VARIABLES
  free,        \* messages in gUtils_mbxMsgPoolFreeQue
  recv,        \* recv[s]: recvQue of server s
  ack,         \* ack[k]: acknowledge queue k
  inUse,       \* inUse[k]: ackQueInUse[k]
  msg,         \* msg[m]: the fields of message m
  cpc, dest, wait, slot, held, sent,   \* per caller: point, pTo, flag,
               \* ackQue, the message in hand, pSentMsg
  spc, cur, aux,  \* per server: point, the message it is handling, the one
               \* its handler has pulled out meanwhile (flush, wait)
  calls

params == <<dest, wait>>
callerVars == <<cpc, params, slot, held, sent>>
serverVars == <<spc, cur, aux>>
vars == <<free, recv, ack, inUse, msg, callerVars, serverVars, calls>>

EXIT == "EXIT"     \* UTILS_TSK_CMD_EXIT
DATA == "DATA"     \* a notification that handlers flush or wait for, such as
                   \* SYSTEM_CMD_NEW_DATA or GET_PROCESSED_DATA
CTRL == "CTRL"     \* every other command

CallerPoints == {"idle", "claim", "alloc", "put", "ack", "free", "release",
                 "cmdalloc", "cmdput", "cmdfree"}
ServerPoints == {"recv", "handle", "flush", "flushed", "wait", "waited",
                 "exited"}

Init ==
  /\ free = Msgs
  /\ recv = [s \in Servers |-> <<>>]
  /\ ack = [k \in AckQues |-> <<>>]
  /\ inUse = [k \in AckQues |-> FALSE]
  /\ msg = [m \in Msgs |-> [wait |-> FALSE, cmd |-> CTRL, ackQue |-> None]]
  /\ cpc = [c \in Callers |-> "idle"]
  /\ dest = [c \in Callers |-> None]
  /\ wait = [c \in Callers |-> FALSE]
  /\ slot = [c \in Callers |-> None]
  /\ held = [c \in Callers |-> None]
  /\ sent = [c \in Callers |-> None]
  /\ spc = [s \in Servers |-> "recv"]
  /\ cur = [s \in Servers |-> None]
  /\ aux = [s \in Servers |-> None]
  /\ calls = 0

CGoto(c, p) == cpc' = [cpc EXCEPT ![c] = p]

(* A caller enters Utils_mbxSendMsg, with or without the wait-ack flag, or  *)
(* Utils_mbxSendCmd.                                                        *)
Call(c) ==
  /\ cpc[c] = "idle" /\ calls < MaxCalls
  /\ calls' = calls + 1
  /\ \E s \in Servers, w \in BOOLEAN, p \in {"claim", "cmdalloc"} :
       /\ p = "cmdalloc" => ~w
       /\ dest' = [dest EXCEPT ![c] = s]
       /\ wait' = [wait EXCEPT ![c] = w]
       /\ CGoto(c, p)
  /\ UNCHANGED <<free, recv, ack, inUse, msg, slot, held, sent, serverVars>>

-----------------------------------------------------------------------------
(* Utils_mbxSendMsg.                                                        *)

\* Mutant: looks for a free acknowledge queue but does not mark it.
ClaimUnmarked(c) ==
  /\ cpc[c] = "claim"
  /\ \/ \E k \in AckQues : /\ ~inUse[k]
                           /\ slot' = [slot EXCEPT ![c] = k]
                           /\ CGoto(c, "alloc")
     \/ /\ \A k \in AckQues : inUse[k]
        /\ CGoto(c, "idle")
        /\ UNCHANGED slot
  /\ UNCHANGED <<inUse, free, recv, ack, msg, params, held, sent, serverVars, calls>>

(* Claims an acknowledge queue with interrupts off, even when no ack is     *)
(* wanted; fails at once when all are taken.                                *)
Claim(c) ==
  /\ cpc[c] = "claim"
  /\ \/ \E k \in AckQues : /\ ~inUse[k]
                           /\ inUse' = [inUse EXCEPT ![k] = TRUE]
                           /\ slot' = [slot EXCEPT ![c] = k]
                           /\ CGoto(c, "alloc")
     \/ /\ \A k \in AckQues : inUse[k]
        /\ CGoto(c, "idle")
        /\ UNCHANGED <<inUse, slot>>
  /\ UNCHANGED <<free, recv, ack, msg, params, held, sent, serverVars, calls>>

(* Utils_mbxAllocMsg, waiting for ever.                                     *)
Alloc(c) ==
  /\ cpc[c] = "alloc"
  /\ \E m \in free : /\ free' = free \ {m}
                     /\ held' = [held EXCEPT ![c] = m]
  /\ CGoto(c, "put")
  /\ UNCHANGED <<recv, ack, inUse, msg, params, slot, sent, serverVars, calls>>

(* Fills the fields and puts the message, waiting while the queue is full.  *)
Put(c) ==
  /\ cpc[c] = "put" /\ Len(recv[dest[c]]) < RecvLen
  /\ \E cmd \in {CTRL, DATA} :
       msg' = [msg EXCEPT ![held[c]] = [wait |-> wait[c],
                 cmd |-> cmd, ackQue |-> slot[c]]]
  /\ recv' = [recv EXCEPT ![dest[c]] = Append(@, held[c])]
  /\ sent' = [sent EXCEPT ![c] = held[c]]
  /\ held' = [held EXCEPT ![c] = None]
  /\ CGoto(c, IF wait[c] THEN "ack" ELSE "release")
  /\ UNCHANGED <<free, ack, inUse, params, slot, serverVars,
                 calls>>

GetAck(c) ==
  /\ cpc[c] = "ack" /\ ack[slot[c]] # <<>>
  /\ held' = [held EXCEPT ![c] = Head(ack[slot[c]])]
  /\ ack' = [ack EXCEPT ![slot[c]] = Tail(@)]
  /\ CGoto(c, "free")
  /\ UNCHANGED <<free, recv, inUse, msg, params, slot, sent, serverVars,
                 calls>>

\* Mutant: the acknowledged message is not returned to the pool.
FreeAckLeak(c) ==
  /\ cpc[c] = "free"
  /\ held' = [held EXCEPT ![c] = None]
  /\ CGoto(c, IF held[c] = sent[c] THEN "release" ELSE "ack")
  /\ UNCHANGED <<free, recv, ack, inUse, msg, params, slot, sent, serverVars, calls>>

(* Frees the acknowledged message; an unexpected one means waiting on.      *)
FreeAck(c) ==
  /\ cpc[c] = "free"
  /\ free' = free \cup {held[c]}
  /\ held' = [held EXCEPT ![c] = None]
  /\ CGoto(c, IF held[c] = sent[c] THEN "release" ELSE "ack")
  /\ UNCHANGED <<recv, ack, inUse, msg, params, slot, sent, serverVars, calls>>

Release(c) ==
  /\ cpc[c] = "release"
  /\ inUse' = [inUse EXCEPT ![slot[c]] = FALSE]
  /\ slot' = [slot EXCEPT ![c] = None]
  /\ sent' = [sent EXCEPT ![c] = None]
  /\ CGoto(c, "idle")
  /\ UNCHANGED <<free, recv, ack, msg, params, held, serverVars,
                 calls>>

-----------------------------------------------------------------------------
(* Utils_mbxSendCmd: never waits; a full queue gives the message back.      *)

CmdAlloc(c) ==
  /\ cpc[c] = "cmdalloc"
  /\ \/ \E m \in free : /\ free' = free \ {m}
                        /\ held' = [held EXCEPT ![c] = m]
                        /\ CGoto(c, "cmdput")
     \/ /\ free = {} /\ CGoto(c, "idle") /\ UNCHANGED <<free, held>>
  /\ UNCHANGED <<recv, ack, inUse, msg, params, slot, sent, serverVars, calls>>

CmdPut(c) ==
  /\ cpc[c] = "cmdput"
  /\ \E cmd \in (IF Deletes THEN {CTRL, DATA, EXIT} ELSE {CTRL, DATA}) :
       msg' = [msg EXCEPT ![held[c]] = [wait |-> FALSE,
                 cmd |-> cmd, ackQue |-> None]]
  /\ IF Len(recv[dest[c]]) < RecvLen
     THEN /\ recv' = [recv EXCEPT ![dest[c]] = Append(@, held[c])]
          /\ held' = [held EXCEPT ![c] = None]
          /\ CGoto(c, "idle")
     ELSE CGoto(c, "cmdfree") /\ UNCHANGED <<recv, held>>
  /\ UNCHANGED <<free, ack, inUse, params, slot, sent, serverVars,
                 calls>>

CmdFree(c) ==
  /\ cpc[c] = "cmdfree"
  /\ free' = free \cup {held[c]}
  /\ held' = [held EXCEPT ![c] = None]
  /\ CGoto(c, "idle")
  /\ UNCHANGED <<recv, ack, inUse, msg, params, slot, sent, serverVars, calls>>

-----------------------------------------------------------------------------
(* Utils_tskMain: receive, let the task's function handle the command and   *)
(* end with Utils_tskAckOrFreeMsg; EXIT is acknowledged and ends the task.  *)

Take(s, m) == /\ recv[s] # <<>> /\ m = Head(recv[s])
              /\ recv' = [recv EXCEPT ![s] = Tail(@)]
SGoto(s, p) == spc' = [spc EXCEPT ![s] = p]

\* Mutant: an acknowledged message is freed as well.
AnswerBoth(m) ==
  /\ IF msg[m].wait
     THEN /\ Len(ack[msg[m].ackQue]) < AckLen
          /\ ack' = [ack EXCEPT ![msg[m].ackQue] = Append(@, m)]
     ELSE UNCHANGED ack
  /\ free' = free \cup {m}

(* Utils_mbxAckOrFreeMsg.  The result value it sets is left out.             *)
Answer(m) ==
  IF msg[m].wait
  THEN /\ Len(ack[msg[m].ackQue]) < AckLen
       /\ ack' = [ack EXCEPT ![msg[m].ackQue] = Append(@, m)]
       /\ UNCHANGED free
  ELSE /\ free' = free \cup {m}
       /\ UNCHANGED ack

Recv(s) ==
  /\ spc[s] = "recv"
  /\ \E m \in Msgs : Take(s, m) /\ cur' = [cur EXCEPT ![s] = m]
  /\ SGoto(s, "handle")
  /\ UNCHANGED <<free, ack, inUse, msg, aux, callerVars, calls>>

(* The handler's own answer.  Handlers of notifications then flush repeats. *)
AckOrFree(s) ==
  /\ spc[s] = "handle"
  /\ Answer(cur[s])
  /\ cur' = [cur EXCEPT ![s] = None]
  /\ \/ msg[cur[s]].cmd = EXIT /\ SGoto(s, "exited")
     \/ msg[cur[s]].cmd = CTRL /\ SGoto(s, "recv")
     \/ msg[cur[s]].cmd = DATA /\ (SGoto(s, "recv") \/ SGoto(s, "flush"))
  /\ UNCHANGED <<recv, inUse, msg, aux, callerVars, calls>>

(* Utils_tskFlushMsg: as long as the oldest message is the same             *)
(* notification, take it out and answer it unhandled.                       *)
Flush(s) ==
  /\ spc[s] = "flush"
  /\ \/ /\ \E m \in Msgs : /\ msg[m].cmd = DATA /\ Take(s, m)
                           /\ aux' = [aux EXCEPT ![s] = m]
        /\ SGoto(s, "flushed")
     \/ /\ recv[s] # <<>> => msg[Head(recv[s])].cmd # DATA
        /\ SGoto(s, "recv")
        /\ UNCHANGED <<recv, aux>>
  /\ UNCHANGED <<free, ack, inUse, msg, cur, callerVars, calls>>

(* Utils_mbxWaitCmd, called by handlers that must drain before they answer: *)
(* receives until the awaited notification arrives and answers everything   *)
(* it receives, unhandled.                                                  *)
BeginWait(s) ==
  /\ Waits /\ spc[s] = "handle" /\ msg[cur[s]].cmd = CTRL
  /\ SGoto(s, "wait")
  /\ UNCHANGED <<free, recv, ack, inUse, msg, cur, aux, callerVars, calls>>

WaitRecv(s) ==
  /\ spc[s] = "wait"
  /\ \E m \in Msgs : Take(s, m) /\ aux' = [aux EXCEPT ![s] = m]
  /\ SGoto(s, "waited")
  /\ UNCHANGED <<free, ack, inUse, msg, cur, callerVars, calls>>

AnswerPulled(s) ==
  /\ spc[s] \in {"flushed", "waited"}
  /\ Answer(aux[s])
  /\ aux' = [aux EXCEPT ![s] = None]
  /\ SGoto(s, CASE spc[s] = "flushed" -> "flush"
                [] spc[s] = "waited" /\ msg[aux[s]].cmd = DATA -> "handle"
                [] OTHER -> "wait")
  /\ UNCHANGED <<recv, inUse, msg, cur, callerVars, calls>>

CallerStep(c) == \/ Claim(c) \/ Alloc(c) \/ Put(c) \/ GetAck(c) \/ FreeAck(c)
                 \/ Release(c) \/ CmdAlloc(c) \/ CmdPut(c) \/ CmdFree(c)
ServerStep(s) == \/ Recv(s) \/ AckOrFree(s) \/ Flush(s)
                 \/ WaitRecv(s) \/ AnswerPulled(s)

Next == \/ \E c \in Callers : Call(c) \/ CallerStep(c)
        \/ \E s \in Servers : ServerStep(s) \/ BeginWait(s)

Spec == Init /\ [][Next]_vars

(* Ready tasks run, and a task waiting on a queue that stays ready is       *)
(* served.  With the calls bounded nobody can be overtaken for ever.        *)
FairSpec == /\ Spec
            /\ \A c \in Callers : WF_vars(CallerStep(c))
            /\ \A s \in Servers : WF_vars(ServerStep(s))

-----------------------------------------------------------------------------
(* Correctness.                                                             *)

TypeOK ==
  /\ free \subseteq Msgs
  /\ recv \in [Servers -> Seq(Msgs)] /\ ack \in [AckQues -> Seq(Msgs)]
  /\ \A s \in Servers : Len(recv[s]) =< RecvLen
  /\ \A k \in AckQues : Len(ack[k]) =< AckLen
  /\ inUse \in [AckQues -> BOOLEAN]
  /\ msg \in [Msgs -> [wait : BOOLEAN, cmd : {EXIT, CTRL, DATA},
                       ackQue : AckQues \cup {None}]]
  /\ cpc \in [Callers -> CallerPoints]
  /\ dest \in [Callers -> Servers \cup {None}]
  /\ wait \in [Callers -> BOOLEAN]
  /\ slot \in [Callers -> AckQues \cup {None}]
  /\ held \in [Callers -> Msgs \cup {None}]
  /\ sent \in [Callers -> Msgs \cup {None}]
  /\ spc \in [Servers -> ServerPoints]
  /\ cur \in [Servers -> Msgs \cup {None}]
  /\ aux \in [Servers -> Msgs \cup {None}]
  /\ calls \in 0 .. MaxCalls

\* Where a message can be: the pool, a task's hand, a queue.
Places == {<<"free", None>>} \cup {"held"} \X Callers
            \cup {"cur", "aux", "recv"} \X Servers \cup {"ack"} \X AckQues

In(p) == CASE p[1] = "free" -> free
           [] p[1] = "held" -> {held[p[2]]}
           [] p[1] = "cur"  -> {cur[p[2]]}
           [] p[1] = "aux"  -> {aux[p[2]]}
           [] p[1] = "recv" -> Range(recv[p[2]])
           [] OTHER -> Range(ack[p[2]])

(* A message is never lost, freed twice or queued twice: the pool cannot    *)
(* leak, nor hand one message to two tasks.                                 *)
OneHolder ==
  /\ \A s \in Servers : IsInjective(recv[s])
  /\ \A k \in AckQues : IsInjective(ack[k])
  /\ \A m \in Msgs : \E p \in Places : \A q \in Places : m \in In(q) <=> q = p

\* The state is well typed and every message has one holder.
MessagesOK == TypeOK /\ OneHolder

(* The acknowledge queue a server answers on is claimed by the caller whose *)
(* message it holds, still waiting, and holds nothing else: no caller ever  *)
(* gets the "unexpected ack" utils_mbx.c:257 warns about, and no server     *)
(* ever blocks while acknowledging.                                         *)
AckIsExpected ==
  \A k \in AckQues : ack[k] # <<>> =>
    \E c \in Callers : /\ slot[c] = k /\ cpc[c] = "ack"
                       /\ ack[k] = <<sent[c]>>

\* No task is deleted, and none waits for ever for a notification that its
\* handler wants before it answers.
Serving == \A s \in Servers : /\ [](spc[s] # "exited")
                              /\ []<>(spc[s] # "wait")

(* Utils_mbxSendMsg returns, if the tasks of the core go on serving: not    *)
(* even full queues, an empty pool and handlers that pull messages out of   *)
(* each other's sight can leave a sender without its answer.                *)
CallReturns == Serving => \A c \in Callers : cpc[c] = "claim" ~> cpc[c] = "idle"

(* When the calls stop, every message finds its way back to the pool.       *)
PoolRefills == Serving => <>[](free = Msgs)
=============================================================================
