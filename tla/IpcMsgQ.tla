------------------------------ MODULE IpcMsgQ ------------------------------
(* links_common/system/system_ipc_msgq.c and its counterpart on the host    *)
(* (src_linux/links/system): commands to the links of another core.  Tasks  *)
(* that send one (System_linkControl, System_sendLinkCmd,                   *)
(* System_linkGetInfo) take their core's msgQLock, allocate a message from  *)
(* the heap the cores share and put it in the other core's message queue;   *)
(* its message task passes the command to the link's mailbox and, when an   *)
(* acknowledge is asked for, sends the message itself back to the sender's  *)
(* acknowledge queue.  A link may send commands while it handles one.       *)
(*                                                                          *)
(* Mailboxes are bounded queues here; UtilsMbx models them.                 *)
EXTENDS Naturals, Sequences, FiniteSets, Functions, SequencesExt

CONSTANTS
  Cores,
  Apps,        \* tasks that are not link tasks
  Links,       \* link tasks
  CoreOf,      \* CoreOf[k]: the core task k runs on
  Sends,       \* Sends[a]: commands task a sends, to links of other cores
  Handles,     \* Handles[l][cmd]: commands link l may send while handling cmd
  Fed,         \* links that get data from their own core
  Msgs,        \* messages of SYSTEM_IPC_MSGQ_HEAP
  MsgOf,       \* MsgOf[c][w]: the one core c gets, when it is free, for a
               \* command that is waited for (w) or not
  RecvLen,     \* length of a link's mailbox
  MaxNews,     \* bound: messages without acknowledge under way
  None

\* GET_INFO and CONTROL wait for the acknowledge, NEW_DATA and EVENT do not;
\* NEW_DATA alone has no parameters.
Cmds == {"GET_INFO", "CONTROL", "NEW_DATA", "EVENT"}
Waits(cmd) == cmd \in {"GET_INFO", "CONTROL"}

Senders == Apps \cup Links
Calls == [to : Links, cmd : Cmds]

ASSUME MsgQAssumption ==
  /\ Apps \cap Links = {} /\ CoreOf \in [Senders -> Cores]
  /\ Sends \in [Apps -> SUBSET Calls]
  /\ Handles \in [Links -> [Cmds -> SUBSET Calls]]
  /\ \A a \in Apps : \A call \in Sends[a] : CoreOf[call.to] # CoreOf[a]
  /\ \A l \in Links, cmd \in Cmds : \A call \in Handles[l][cmd] :
       CoreOf[call.to] # CoreOf[l]
  /\ MsgOf \in [Cores -> [BOOLEAN -> Msgs]]
  /\ Fed \subseteq Links
  /\ RecvLen \in Nat \ {0} /\ MaxNews \in Nat
  /\ None \notin Senders \cup Msgs

VARIABLES
  heap,         \* messages not allocated
  msg,          \* msg[m]: its sender, link and command
  selfMsgQ, ackMsgQ,   \* per core
  lock,         \* per core: holder of msgQLock
  kpc, call, sent,     \* per sender: point, the command it sends, pMsgCommon;
                       \* "lost" is "ack" when no acknowledge will ever come
  tpc, cur,     \* per core: point of System_ipcMsgQTaskMain, its message
  recv,         \* recv[l]: mailbox of link l
  lpc, handling \* link l: point, the command it handles

msgqs == <<heap, msg, selfMsgQ, ackMsgQ>>
senders == <<kpc, call, sent>>
links == <<recv, lpc, handling>>
vars == <<msgqs, lock, senders, tpc, cur, links>>

NoCall == [to |-> None, cmd |-> "NEW_DATA"]
Freed == [by |-> None, to |-> None, cmd |-> "NEW_DATA"]
NoCmd == [cmd |-> "NEW_DATA", prm |-> None]

Init ==
  /\ heap = Msgs
  /\ msg = [m \in Msgs |-> Freed]
  /\ selfMsgQ = [c \in Cores |-> <<>>] /\ ackMsgQ = [c \in Cores |-> <<>>]
  /\ lock = [c \in Cores |-> None]
  /\ kpc = [k \in Senders |-> "idle"]
  /\ call = [k \in Senders |-> NoCall]
  /\ sent = [k \in Senders |-> None]
  /\ tpc = [c \in Cores |-> "get"] /\ cur = [c \in Cores |-> None]
  /\ recv = [l \in Links |-> <<>>]
  /\ lpc = [l \in Links |-> "recv"] /\ handling = [l \in Links |-> NoCmd]

-----------------------------------------------------------------------------
(* A sender: System_ipcMsgQSendMsg.                                         *)

\* Messages under way that nobody waits for; senders about to make one.
News == {m \in Msgs \ heap : ~Waits(msg[m].cmd)}
Notifying == {k \in Senders : kpc[k] = "lock" /\ ~Waits(call[k].cmd)}

Free(m) == heap' = heap \cup {m} /\ msg' = [msg EXCEPT ![m] = Freed]

Start(k, c) ==
  /\ kpc[k] = "idle"
  /\ Waits(c.cmd) \/ Cardinality(News) + Cardinality(Notifying) < MaxNews
  /\ kpc' = [kpc EXCEPT ![k] = "lock"] /\ call' = [call EXCEPT ![k] = c]

Call(a) ==
  /\ \E c \in Sends[a] : Start(a, c)
  /\ UNCHANGED <<msgqs, lock, sent, tpc, cur, links>>

(* Any free message will do: MsgOf tells which, to have fewer states.       *)
Alloced(k) ==
  LET m == MsgOf[CoreOf[k]][Waits(call[k].cmd)]
  IN  IF m \in heap THEN m ELSE CHOOSE x \in heap : TRUE

(* msgQLock, then MessageQ_alloc; that it finds a message is asserted.      *)
Alloc(k) ==
  /\ kpc[k] = "lock" /\ lock[CoreOf[k]] = None
  /\ lock' = [lock EXCEPT ![CoreOf[k]] = k]
  /\ IF heap = {}
     THEN /\ kpc' = [kpc EXCEPT ![k] = "assert"]
          /\ UNCHANGED <<heap, msg, sent>>
     ELSE LET m == Alloced(k)
          IN  /\ heap' = heap \ {m}
              /\ msg' = [msg EXCEPT ![m] = [by |-> k, to |-> call[k].to,
                                            cmd |-> call[k].cmd]]
              /\ sent' = [sent EXCEPT ![k] = m]
              /\ kpc' = [kpc EXCEPT ![k] = "put"]
  /\ UNCHANGED <<selfMsgQ, ackMsgQ, call, tpc, cur, links>>

UnLock(k) == /\ lock' = [lock EXCEPT ![CoreOf[k]] = None]
             /\ kpc' = [kpc EXCEPT ![k] = "idle"]
             /\ call' = [call EXCEPT ![k] = NoCall]
             /\ sent' = [sent EXCEPT ![k] = None]

ToSelfMsgQ(k) ==
  selfMsgQ' = [selfMsgQ EXCEPT ![CoreOf[call[k].to]] = Append(@, sent[k])]

\* Mutant: the lock covers the put only.
PutUnlocked(k) ==
  /\ kpc[k] = "put"
  /\ ToSelfMsgQ(k)
  /\ IF Waits(call[k].cmd)
     THEN /\ kpc' = [kpc EXCEPT ![k] = "ack"]
          /\ lock' = [lock EXCEPT ![CoreOf[k]] = None]
          /\ UNCHANGED <<call, sent>>
     ELSE UnLock(k)
  /\ UNCHANGED <<heap, msg, ackMsgQ, tpc, cur, links>>

Put(k) ==
  /\ kpc[k] = "put"
  /\ ToSelfMsgQ(k)
  /\ IF Waits(call[k].cmd)
     THEN kpc' = [kpc EXCEPT ![k] = "ack"] /\ UNCHANGED <<lock, call, sent>>
     ELSE UnLock(k)
  /\ UNCHANGED <<heap, msg, ackMsgQ, tpc, cur, links>>

\* Mutant: the message is not freed.
PutFailsLeak(k) ==
  /\ kpc[k] = "put"
  /\ UnLock(k)
  /\ UNCHANGED <<msgqs, tpc, cur, links>>

(* MessageQ_put fails: the message is freed and the failure returned.       *)
PutFails(k) ==
  /\ kpc[k] = "put"
  /\ Free(sent[k])
  /\ UnLock(k)
  /\ UNCHANGED <<selfMsgQ, ackMsgQ, tpc, cur, links>>

\* In the MessageQ_get of the acknowledge, which has no timeout.  It fails only
\* when its queue is unblocked, and nobody calls MessageQ_unblock on an
\* acknowledge queue: the code for that (lines 460 to 467) does not run.
InAck(k) == kpc[k] \in {"ack", "lost"}

(* The acknowledge: parameters and status are copied from the message that  *)
(* comes, which is freed.                                                   *)
GetAck(k) ==
  /\ InAck(k) /\ ackMsgQ[CoreOf[k]] # <<>>
  /\ Free(Head(ackMsgQ[CoreOf[k]]))
  /\ ackMsgQ' = [ackMsgQ EXCEPT ![CoreOf[k]] = Tail(@)]
  /\ UnLock(k)
  /\ UNCHANGED <<selfMsgQ, tpc, cur, links>>

Send(k) == Put(k) \/ PutFails(k) \/ GetAck(k)

-----------------------------------------------------------------------------
(* The message task of core c: System_ipcMsgQTaskMain.                      *)

(* GET_INFO is answered by System_linkGetInfo_local, without the link task. *)
Get(c) ==
  /\ tpc[c] = "get" /\ selfMsgQ[c] # <<>>
  /\ cur' = [cur EXCEPT ![c] = Head(selfMsgQ[c])]
  /\ selfMsgQ' = [selfMsgQ EXCEPT ![c] = Tail(@)]
  /\ tpc' = [tpc EXCEPT ![c] =
               IF msg[Head(selfMsgQ[c])].cmd = "GET_INFO" THEN "reply"
                                                          ELSE "local"]
  /\ UNCHANGED <<heap, msg, ackMsgQ, lock, senders, links>>

ToMailbox(c, l, cmd) ==
  /\ Len(recv[l]) < RecvLen
  /\ recv' = [recv EXCEPT ![l] = Append(@, [cmd |-> cmd, prm |-> cur[c]])]

\* Mutant: the link is not waited for.
LocalNoWait(c) ==
  /\ tpc[c] = "local"
  /\ ToMailbox(c, msg[cur[c]].to, msg[cur[c]].cmd)
  /\ tpc' = [tpc EXCEPT ![c] = "reply"]
  /\ UNCHANGED <<msgqs, lock, senders, cur, lpc, handling>>

(* System_linkControl_local: wait for room in the link's mailbox and, when  *)
(* asked to, for the link's acknowledge.                                    *)
Local(c) ==
  /\ tpc[c] = "local"
  /\ ToMailbox(c, msg[cur[c]].to, msg[cur[c]].cmd)
  /\ tpc' = [tpc EXCEPT ![c] = IF Waits(msg[cur[c]].cmd) THEN "wait"
                                                         ELSE "reply"]
  /\ UNCHANGED <<msgqs, lock, senders, cur, lpc, handling>>

Answered(c) == /\ cur' = [cur EXCEPT ![c] = None]
               /\ tpc' = [tpc EXCEPT ![c] = "get"]

\* Mutant: a message that is sent back is freed too.
ReplyAndFree(c) ==
  /\ tpc[c] = "reply"
  /\ Free(cur[c])
  /\ IF Waits(msg[cur[c]].cmd)
     THEN ackMsgQ' = [ackMsgQ EXCEPT ![CoreOf[msg[cur[c]].by]] =
                        Append(@, cur[c])]
     ELSE UNCHANGED ackMsgQ
  /\ Answered(c)
  /\ UNCHANGED <<selfMsgQ, lock, senders, links>>

(* The message goes back, or is freed.                                      *)
Reply(c) ==
  /\ tpc[c] = "reply"
  /\ IF Waits(msg[cur[c]].cmd)
     THEN /\ ackMsgQ' = [ackMsgQ EXCEPT ![CoreOf[msg[cur[c]].by]] =
                           Append(@, cur[c])]
          /\ UNCHANGED <<heap, msg>>
     ELSE Free(cur[c]) /\ UNCHANGED ackMsgQ
  /\ Answered(c)
  /\ UNCHANGED <<selfMsgQ, lock, senders, links>>

(* MessageQ_put of the acknowledge fails: the message is freed, and its     *)
(* sender, which keeps msgQLock, waits for ever.                            *)
ReplyFails(c) ==
  /\ tpc[c] = "reply" /\ Waits(msg[cur[c]].cmd)
  /\ Free(cur[c])
  /\ kpc' = [kpc EXCEPT ![msg[cur[c]].by] = "lost"]
  /\ Answered(c)
  /\ UNCHANGED <<selfMsgQ, ackMsgQ, lock, call, sent, links>>

MsgQTask(c) == Get(c) \/ Local(c) \/ Reply(c) \/ ReplyFails(c)

-----------------------------------------------------------------------------
(* The task of link l.                                                      *)

(* System_sendLinkCmd_local of the previous link, a driver: lost when there *)
(* is no room.                                                              *)
Data(l) ==
  /\ l \in Fed /\ Len(recv[l]) < RecvLen
  /\ recv' = [recv EXCEPT ![l] = Append(@, NoCmd)]
  /\ UNCHANGED <<msgqs, lock, senders, tpc, cur, lpc, handling>>

Recv(l) ==
  /\ lpc[l] = "recv" /\ recv[l] # <<>>
  /\ handling' = [handling EXCEPT ![l] = Head(recv[l])]
  /\ recv' = [recv EXCEPT ![l] = Tail(@)]
  /\ lpc' = [lpc EXCEPT ![l] = "handle"]
  /\ UNCHANGED <<msgqs, lock, senders, tpc, cur>>

(* The handler sends a command to another core.                             *)
CallOut(l) ==
  /\ lpc[l] = "handle"
  /\ \E c \in Handles[l][handling[l].cmd] : Start(l, c)
  /\ lpc' = [lpc EXCEPT ![l] = "called"]
  /\ UNCHANGED <<msgqs, lock, sent, tpc, cur, recv, handling>>

\* Mutant: a handler that has sent a command forgets to acknowledge its own.
FinishForgets(l) ==
  /\ lpc[l] \in {"handle", "called"} /\ kpc[l] = "idle"
  /\ lpc' = [lpc EXCEPT ![l] = "recv"]
  /\ handling' = [handling EXCEPT ![l] = NoCmd]
  /\ tpc' = IF Waits(handling[l].cmd) /\ lpc[l] = "handle"
            THEN [tpc EXCEPT ![CoreOf[l]] = "reply"] ELSE tpc
  /\ UNCHANGED <<msgqs, lock, senders, cur, recv>>

(* The handler is done with the command and acknowledges it: the message    *)
(* task that waits for it goes on.                                          *)
Finish(l) ==
  /\ lpc[l] \in {"handle", "called"} /\ kpc[l] = "idle"
  /\ lpc' = [lpc EXCEPT ![l] = "recv"]
  /\ handling' = [handling EXCEPT ![l] = NoCmd]
  /\ tpc' = IF Waits(handling[l].cmd)
            THEN [tpc EXCEPT ![CoreOf[l]] = "reply"] ELSE tpc
  /\ UNCHANGED <<msgqs, lock, senders, cur, recv>>

Next == \/ \E a \in Apps : Call(a)
        \/ \E k \in Senders : Alloc(k) \/ Send(k)
        \/ \E c \in Cores : MsgQTask(c)
        \/ \E l \in Links : Data(l) \/ Recv(l) \/ CallOut(l) \/ Finish(l)

Spec == Init /\ [][Next]_vars

(* Tasks that can run do; those that wait for a semaphore get it in turn,   *)
(* and a message task that waits for room in a mailbox (1024 long) finds it *)
(* in the end, though drivers send to it as well.                           *)
FairSpec ==
  /\ Spec
  /\ \A k \in Senders : SF_vars(Alloc(k)) /\ WF_vars(Send(k))
  /\ \A c \in Cores : SF_vars(MsgQTask(c))
  /\ \A l \in Links : WF_vars(Recv(l)) /\ WF_vars(Finish(l))

-----------------------------------------------------------------------------
(* Correctness.                                                             *)

Commands == [cmd : Cmds, prm : Msgs \cup {None}]

TypeOK ==
  /\ heap \subseteq Msgs
  /\ msg \in [Msgs -> [by : Senders \cup {None}, to : Links \cup {None},
                       cmd : Cmds]]
  /\ selfMsgQ \in [Cores -> Seq(Msgs)] /\ ackMsgQ \in [Cores -> Seq(Msgs)]
  /\ lock \in [Cores -> Senders \cup {None}]
  /\ kpc \in [Senders -> {"idle", "lock", "put", "ack", "lost", "assert"}]
  /\ call \in [Senders -> Calls \cup {NoCall}]
  /\ sent \in [Senders -> Msgs \cup {None}]
  /\ tpc \in [Cores -> {"get", "local", "wait", "reply"}]
  /\ cur \in [Cores -> Msgs \cup {None}]
  /\ \A c \in Cores : cur[c] = None <=> tpc[c] = "get"
  /\ recv \in [Links -> Seq(Commands)]
  /\ lpc \in [Links -> {"recv", "handle", "called"}]
  /\ handling \in [Links -> Commands]

(* The acknowledge a sender takes is that of its own command: the code does *)
(* not compare pAckMsg with pMsgCommon (system_ipc_msgq.c:458), it relies   *)
(* on the lock that is held until the acknowledge has come.                 *)
AckIsOwn ==
  \A k \in Senders :
    InAck(k) /\ ackMsgQ[CoreOf[k]] # <<>> =>
      Head(ackMsgQ[CoreOf[k]]) = sent[k]

\* The places where message m is.
InHeap(m) == {<<"heap", 0, 0>> : x \in heap \cap {m}}
AtSenders(m) ==
  {<<"put", k, 0>> : k \in {j \in Senders : kpc[j] = "put" /\ sent[j] = m}}
AtTasks(m) == {<<"task", c, 0>> : c \in {d \in Cores : cur[d] = m}}
InQueues(name, q, m) ==
  UNION {{<<name, c, i>> : i \in {j \in DOMAIN q[c] : q[c][j] = m}} : c \in Cores}

Places(m) ==
  InHeap(m) \cup AtSenders(m) \cup AtTasks(m)
    \cup InQueues("self", selfMsgQ, m) \cup InQueues("ack", ackMsgQ, m)

(* A message of the shared heap has one owner at a time: it is neither lost *)
(* nor freed twice, whichever core frees it, failed sends included.         *)
OneOwner == \A m \in Msgs : Cardinality(Places(m)) = 1

\* The state is well typed and every message of the heap has one owner.
MessagesOK == TypeOK /\ OneOwner

(* While a link handles a command, or it waits in the mailbox, the message  *)
(* its parameters lie in is the command's: not freed, not used for another. *)
PrmIsLive ==
  \A l \in Links : \A e \in Range(recv[l]) \cup {handling[l]} :
    e.cmd # "NEW_DATA" =>
      e.prm \notin heap /\ msg[e.prm].to = l /\ msg[e.prm].cmd = e.cmd

(* Commands that are waited for take one message of the heap per core at    *)
(* most, whatever sends and acknowledges failed before: the assertion of    *)
(* system_ipc_msgq.c:418 that an allocation succeeds can fail only when     *)
(* notifications fill all but one message for each core.                    *)
OneWaitedPerCore ==
  \A m, n \in Msgs \ heap :
    /\ Waits(msg[m].cmd) /\ Waits(msg[n].cmd)
    /\ CoreOf[msg[m].by] = CoreOf[msg[n].by]
    => m = n

(* Every command returns, unless an acknowledge could not be sent: there is *)
(* no cycle of cores, locks, message tasks, full mailboxes and links that   *)
(* wait for each other.  A lost acknowledge stops its sender, whoever needs *)
(* its core's lock and, when the sender is a link, whoever sends to it.     *)
AckLost == \E k \in Senders : kpc[k] = "lost"

CallsReturn ==
  \A k \in Senders : kpc[k] # "idle" ~> (kpc[k] = "idle" \/ AckLost)
=============================================================================
