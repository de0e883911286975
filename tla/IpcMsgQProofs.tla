--------------------------- MODULE IpcMsgQProofs ---------------------------
(* Theorems about IpcMsgQ for any cores, tasks and links, whatever commands *)
(* they send, any heap and any mailbox length.                              *)
EXTENDS IpcMsgQ, QueueLemmas

-----------------------------------------------------------------------------
(* Where messages are.                                                      *)

Spots == {<<"heap", None>>}
           \cup {<<"put", k>> : k \in Senders}
           \cup {<<"task", c>> : c \in Cores}
           \cup {<<"self", c>> : c \in Cores}
           \cup {<<"ack", c>> : c \in Cores}

\* What each sender has allocated and not sent.
PutMsgs == [k \in Senders |-> IF kpc[k] = "put" THEN {sent[k]} ELSE {}]

At == [p \in Spots |-> CASE p[1] = "heap" -> heap
                         [] p[1] = "put"  -> PutMsgs[p[2]]
                         [] p[1] = "task" -> {cur[p[2]]}
                         [] p[1] = "self" -> Range(selfMsgQ[p[2]])
                         [] OTHER         -> Range(ackMsgQ[p[2]])]

-----------------------------------------------------------------------------
(* The inductive invariant.                                                 *)

PlacesInv == /\ InOnePlace(At, Msgs)
             /\ \A c \in Cores : IsInjective(selfMsgQ[c]) /\ IsInjective(ackMsgQ[c])

\* A sender holds its core's lock from the allocation to the acknowledge, for
\* ever when that is lost.
SenderOK(k) ==
  /\ kpc[k] # "idle" => call[k] \in Calls
  /\ kpc[k] \in {"put", "ack", "lost", "assert"} <=> lock[CoreOf[k]] = k
  /\ kpc[k] \in {"put", "ack"} =>
       sent[k] \in Msgs /\ msg[sent[k]] = [by |-> k, to |-> call[k].to, cmd |-> call[k].cmd]
  /\ kpc[k] \notin {"put", "ack", "lost"} => sent[k] = None
  /\ kpc[k] = "ack" => Waits(call[k].cmd)

SenderInv == \A k \in Senders : SenderOK(k)

\* An allocated message names its sender and its link; its sender has not
\* finished with it if it waits.
MsgOK(m) ==
  /\ m \in heap => msg[m] = Freed
  /\ m \notin heap => msg[m].by \in Senders /\ msg[m].to \in Links
  /\ m \notin heap /\ Waits(msg[m].cmd) =>
       kpc[msg[m].by] \in {"put", "ack"} /\ sent[msg[m].by] = m

MsgInv == \A m \in Msgs : MsgOK(m)

\* An acknowledge comes to the core whose task waits for it.
AckInv == \A c \in Cores : \A m \in Range(ackMsgQ[c]) :
  Waits(msg[m].cmd) /\ CoreOf[msg[m].by] = c

\* A message comes to the core of its link.
TaskInv == \A c \in Cores :
  /\ \A m \in Range(selfMsgQ[c]) : CoreOf[msg[m].to] = c
  /\ cur[c] # None => CoreOf[msg[cur[c]].to] = c

\* The message task waits for link l to handle command e.
Given(l, e) ==
  /\ tpc[CoreOf[l]] = "wait" /\ cur[CoreOf[l]] = e.prm
  /\ msg[e.prm].to = l /\ msg[e.prm].cmd = e.cmd

\* A link has one command to acknowledge at most, and is waited for then.
LinkOK(l) ==
  /\ lpc[l] = "recv" => handling[l] = NoCmd
  /\ Waits(handling[l].cmd) => Given(l, handling[l])
  /\ \A i \in DOMAIN recv[l] :
       Waits(recv[l][i].cmd) => /\ Given(l, recv[l][i])
                                /\ ~Waits(handling[l].cmd)
                                /\ \A j \in DOMAIN recv[l] : Waits(recv[l][j].cmd) => i = j

LinkInv == \A l \in Links : LinkOK(l)

IInv == /\ TypeOK /\ PlacesInv /\ SenderInv /\ MsgInv
        /\ AckInv /\ TaskInv /\ LinkInv

-----------------------------------------------------------------------------
(* The places.                                                              *)

LEMMA AtHolds ==
  /\ DOMAIN At = Spots
  /\ <<"heap", None>> \in Spots /\ At[<<"heap", None>>] = heap
  /\ \A k \in Senders : <<"put", k>> \in Spots /\ At[<<"put", k>>] = PutMsgs[k]
  /\ \A c \in Cores :
       /\ <<"task", c>> \in Spots /\ At[<<"task", c>>] = {cur[c]}
       /\ <<"self", c>> \in Spots /\ At[<<"self", c>>] = Range(selfMsgQ[c])
       /\ <<"ack", c>> \in Spots /\ At[<<"ack", c>>] = Range(ackMsgQ[c])
BY DEF At, Spots

LEMMA AtHoldsNext ==
  /\ DOMAIN At' = Spots
  /\ At'[<<"heap", None>>] = heap'
  /\ \A k \in Senders : At'[<<"put", k>>] = PutMsgs'[k]
  /\ \A c \in Cores :
       /\ At'[<<"task", c>>] = {cur'[c]}
       /\ At'[<<"self", c>>] = Range(selfMsgQ'[c])
       /\ At'[<<"ack", c>>] = Range(ackMsgQ'[c])
BY DEF At, Spots

(* A message goes from place p to place q when the others hold what they    *)
(* held.                                                                    *)
LEMMA Moves ==
  ASSUME InOnePlace(At, Msgs), NEW m \in Msgs,
         NEW p \in Spots, NEW q \in Spots, p # q, m \in At[p],
         \A y \in Msgs : y \in At'[p] <=> y \in At[p] /\ y # m,
         \A y \in Msgs : y \in At'[q] <=> y \in At[q] \/ y = m,
         <<"heap", None>> \notin {p, q} => heap' = heap,
         \A k \in Senders : <<"put", k>> \notin {p, q} => PutMsgs'[k] = PutMsgs[k],
         \A c \in Cores : <<"task", c>> \notin {p, q} => cur'[c] = cur[c],
         \A c \in Cores : <<"self", c>> \notin {p, q} => selfMsgQ'[c] = selfMsgQ[c],
         \A c \in Cores : <<"ack", c>> \notin {p, q} => ackMsgQ'[c] = ackMsgQ[c]
  PROVE  InOnePlace(At', Msgs)
<1>1. ASSUME NEW r \in Spots, r # p, r # q PROVE At'[r] = At[r]
  <2>1. CASE r = <<"heap", None>>
    BY <1>1, <2>1, AtHolds, AtHoldsNext
  <2>2. CASE \E k \in Senders : r = <<"put", k>>
    BY <1>1, <2>2, AtHolds, AtHoldsNext
  <2>3. CASE \E c \in Cores : r = <<"task", c>>
    <3>1. PICK c \in Cores : r = <<"task", c>>
      BY <2>3
    <3>2. cur'[c] = cur[c]
      BY <1>1, <3>1
    <3>3. At'[r] = {cur'[c]} /\ At[r] = {cur[c]}
      BY <3>1, AtHolds, AtHoldsNext
    <3> QED
      BY <3>2, <3>3
  <2>4. CASE \E c \in Cores : r = <<"self", c>>
    <3>1. PICK c \in Cores : r = <<"self", c>>
      BY <2>4
    <3>2. selfMsgQ'[c] = selfMsgQ[c]
      BY <1>1, <3>1
    <3>3. At'[r] = Range(selfMsgQ'[c]) /\ At[r] = Range(selfMsgQ[c])
      BY <3>1, AtHolds, AtHoldsNext
    <3> QED
      BY <3>2, <3>3
  <2>5. CASE \E c \in Cores : r = <<"ack", c>>
    <3>1. PICK c \in Cores : r = <<"ack", c>>
      BY <2>5
    <3>2. ackMsgQ'[c] = ackMsgQ[c]
      BY <1>1, <3>1
    <3>3. At'[r] = Range(ackMsgQ'[c]) /\ At[r] = Range(ackMsgQ[c])
      BY <3>1, AtHolds, AtHoldsNext
    <3> QED
      BY <3>2, <3>3
  <2> QED
    BY <2>1, <2>2, <2>3, <2>4, <2>5 DEF Spots
<1>2. DOMAIN At = Spots /\ DOMAIN At' = Spots
  BY AtHolds, AtHoldsNext
<1> QED
  BY <1>1, <1>2, MoveOne

(* A message is in one place.                                               *)
LEMMA Apart ==
  ASSUME IInv
  PROVE  /\ \A k \in Senders :
              kpc[k] = "put" => /\ sent[k] \in Msgs /\ sent[k] \notin heap
                                /\ \A c \in Cores : /\ sent[k] # cur[c]
                                                    /\ sent[k] \notin Range(selfMsgQ[c])
                                                    /\ sent[k] \notin Range(ackMsgQ[c])
         /\ \A c \in Cores :
              /\ \A m \in Range(selfMsgQ[c]) :
                   /\ m \in Msgs /\ m \notin heap
                   /\ \A d \in Cores : m # cur[d] /\ m \notin Range(ackMsgQ[d])
              /\ \A m \in Range(ackMsgQ[c]) :
                   /\ m \in Msgs /\ m \notin heap /\ \A d \in Cores : m # cur[d]
              /\ cur[c] \notin heap
              /\ \A d \in Cores : c # d =>
                   /\ Range(selfMsgQ[c]) \cap Range(selfMsgQ[d]) = {}
                   /\ Range(ackMsgQ[c]) \cap Range(ackMsgQ[d]) = {}
                   /\ cur[c] \in Msgs => cur[c] # cur[d]
<1> USE AtHolds
<1>1. InOnePlace(At, Msgs)
  BY DEF IInv, PlacesInv
<1>2. /\ heap \subseteq Msgs /\ None \notin Msgs
      /\ \A c \in Cores : /\ cur[c] \in Msgs \cup {None}
                          /\ selfMsgQ[c] \in Seq(Msgs) /\ ackMsgQ[c] \in Seq(Msgs)
  BY MsgQAssumption DEF IInv, TypeOK
<1>3. \A c \in Cores : Range(selfMsgQ[c]) \subseteq Msgs /\ Range(ackMsgQ[c]) \subseteq Msgs
  BY <1>2, ListEmpty
<1>4. ASSUME NEW x \in Msgs, NEW p \in Spots, NEW q \in Spots, x \in At[p], x \in At[q]
      PROVE  p = q
  BY <1>1, <1>4, SamePlace
<1>5. ASSUME NEW k \in Senders, kpc[k] = "put"
      PROVE  /\ sent[k] \in Msgs /\ sent[k] \notin heap
             /\ \A c \in Cores : /\ sent[k] # cur[c]
                                 /\ sent[k] \notin Range(selfMsgQ[c])
                                 /\ sent[k] \notin Range(ackMsgQ[c])
  <2>1. sent[k] \in Msgs
    BY <1>5 DEF IInv, SenderInv, SenderOK
  <2>2. sent[k] \in At[<<"put", k>>] /\ <<"put", k>> \in Spots
    BY <1>5 DEF PutMsgs
  <2>3. sent[k] \notin heap
    BY <2>1, <2>2, <1>4
  <2>4. ASSUME NEW c \in Cores
        PROVE  /\ sent[k] # cur[c]
               /\ sent[k] \notin Range(selfMsgQ[c]) /\ sent[k] \notin Range(ackMsgQ[c])
    <3>1. sent[k] \notin At[<<"task", c>>]
      BY <2>1, <2>2, <1>4
    <3>2. sent[k] \notin At[<<"self", c>>]
      BY <2>1, <2>2, <1>4
    <3>3. sent[k] \notin At[<<"ack", c>>]
      BY <2>1, <2>2, <1>4
    <3> QED
      BY <3>1, <3>2, <3>3
  <2> QED
    BY <2>1, <2>3, <2>4
<1>6. ASSUME NEW c \in Cores, NEW m \in Range(selfMsgQ[c])
      PROVE  /\ m \in Msgs /\ m \notin heap
             /\ \A d \in Cores : /\ m # cur[d] /\ m \notin Range(ackMsgQ[d])
                                 /\ c # d => m \notin Range(selfMsgQ[d])
  <2>1. m \in Msgs /\ m \in At[<<"self", c>>]
    BY <1>3
  <2>2. m \notin heap
    BY <2>1, <1>4
  <2>3. ASSUME NEW d \in Cores
        PROVE  /\ m # cur[d] /\ m \notin Range(ackMsgQ[d])
               /\ c # d => m \notin Range(selfMsgQ[d])
    <3>1. m \notin At[<<"task", d>>]
      BY <2>1, <1>4
    <3>2. m \notin At[<<"ack", d>>]
      BY <2>1, <1>4
    <3>3. c # d => m \notin At[<<"self", d>>]
      BY <2>1, <1>4
    <3> QED
      BY <3>1, <3>2, <3>3
  <2> QED
    BY <2>1, <2>2, <2>3
<1>7. ASSUME NEW c \in Cores, NEW m \in Range(ackMsgQ[c])
      PROVE  /\ m \in Msgs /\ m \notin heap
             /\ \A d \in Cores : /\ m # cur[d]
                                 /\ c # d => m \notin Range(ackMsgQ[d])
  <2>1. m \in Msgs /\ m \in At[<<"ack", c>>]
    BY <1>3
  <2>2. m \notin heap
    BY <2>1, <1>4
  <2>3. ASSUME NEW d \in Cores
        PROVE  m # cur[d] /\ (c # d => m \notin Range(ackMsgQ[d]))
    <3>1. m \notin At[<<"task", d>>]
      BY <2>1, <1>4
    <3>2. c # d => m \notin At[<<"ack", d>>]
      BY <2>1, <1>4
    <3> QED
      BY <3>1, <3>2
  <2> QED
    BY <2>1, <2>2, <2>3
<1>8. ASSUME NEW c \in Cores
      PROVE  cur[c] \notin heap /\ \A d \in Cores : c # d /\ cur[c] \in Msgs => cur[c] # cur[d]
  <2>1. cur[c] \in At[<<"task", c>>]
    OBVIOUS
  <2>2. cur[c] \notin heap
    BY <1>2, <1>4, <2>1
  <2>3. ASSUME NEW d \in Cores, c # d, cur[c] \in Msgs PROVE cur[c] # cur[d]
    <3>1. cur[c] \notin At[<<"task", d>>]
      BY <2>1, <2>3, <1>4
    <3> QED
      BY <3>1
  <2> QED
    BY <2>2, <2>3
<1> QED
  BY <1>5, <1>6, <1>7, <1>8

(* No message goes from one place to another.                               *)
LEMMA Stays ==
  ASSUME PlacesInv, heap' = heap, PutMsgs' = PutMsgs, cur' = cur,
         selfMsgQ' = selfMsgQ, ackMsgQ' = ackMsgQ
  PROVE  PlacesInv'
<1>1. At' = At
  BY DEF At
<1> QED
  BY <1>1 DEF PlacesInv, InOnePlace

LEMMA SameLinks ==
  ASSUME LinkInv, TypeOK, recv' = recv, lpc' = lpc, handling' = handling,
         \A c \in Cores : tpc[c] = "wait" => /\ tpc'[c] = "wait" /\ cur'[c] = cur[c]
                                             /\ msg'[cur[c]] = msg[cur[c]]
  PROVE  LinkInv'
<1>1. ASSUME NEW l \in Links, NEW e, Given(l, e)
      PROVE  /\ tpc'[CoreOf[l]] = "wait" /\ cur'[CoreOf[l]] = e.prm
             /\ msg'[e.prm].to = l /\ msg'[e.prm].cmd = e.cmd
  <2>1. CoreOf[l] \in Cores
    BY MsgQAssumption DEF Senders
  <2> QED
    BY <1>1, <2>1 DEF Given
<1>2. SUFFICES ASSUME NEW l \in Links PROVE LinkOK(l)'
  BY DEF LinkInv
<1>3. /\ lpc'[l] = "recv" => handling'[l] = NoCmd
      /\ Waits(handling'[l].cmd) => Given(l, handling[l])'
  BY <1>1 DEF LinkInv, LinkOK, Given
<1>4. ASSUME NEW i \in DOMAIN recv[l], Waits(recv[l][i].cmd)
      PROVE  /\ Given(l, recv[l][i])' /\ ~Waits(handling[l].cmd)
             /\ \A j \in DOMAIN recv[l] : Waits(recv[l][j].cmd) => i = j
  <2>1. /\ Given(l, recv[l][i]) /\ ~Waits(handling[l].cmd)
        /\ \A j \in DOMAIN recv[l] : Waits(recv[l][j].cmd) => i = j
    BY <1>4 DEF LinkInv, LinkOK
  <2>2. Given(l, recv[l][i])'
    BY <1>1, <2>1 DEF Given
  <2> QED
    BY <2>1, <2>2
<1> QED
  BY <1>3, <1>4 DEF LinkOK

-----------------------------------------------------------------------------
(* Every step keeps the invariant.                                          *)

(* A task takes a command to send: Call and CallOut.                        *)
LEMMA StartKeeps ==
  ASSUME IInv, NEW k \in Senders, NEW c \in Calls, Start(k, c),
         UNCHANGED <<msgqs, lock, sent, tpc, cur, recv, handling>>,
         lpc' \in [Links -> {"recv", "handle", "called"}],
         \A l \in Links : lpc'[l] = "recv" => lpc[l] = "recv"
  PROVE  IInv'
<1>1. /\ kpc[k] = "idle" /\ kpc' = [kpc EXCEPT ![k] = "lock"]
      /\ call' = [call EXCEPT ![k] = c]
      /\ heap' = heap /\ msg' = msg /\ selfMsgQ' = selfMsgQ /\ ackMsgQ' = ackMsgQ
      /\ lock' = lock /\ sent' = sent /\ tpc' = tpc /\ cur' = cur
      /\ recv' = recv /\ handling' = handling
  BY DEF Start, msgqs
<1>2. /\ kpc \in [Senders -> {"idle", "lock", "put", "ack", "lost", "assert"}]
      /\ call \in [Senders -> Calls \cup {NoCall}]
  BY DEF IInv, TypeOK
<1>3. /\ \A j \in Senders : kpc'[j] = IF j = k THEN "lock" ELSE kpc[j]
      /\ \A j \in Senders : call'[j] = IF j = k THEN c ELSE call[j]
  BY <1>1, <1>2
<1>4. TypeOK'
  BY <1>1 DEF IInv, TypeOK, Commands
<1>5. PlacesInv'
  <2>1. PutMsgs' = PutMsgs
    BY <1>1, <1>3 DEF PutMsgs
  <2> QED
    BY <1>1, <2>1, Stays DEF IInv
<1>6. SenderInv'
  <2>1. ASSUME NEW j \in Senders, j # k PROVE SenderOK(j)'
    <3>1. SenderOK(j)
      BY DEF IInv, SenderInv
    <3> QED
      BY <1>1, <1>3, <2>1, <3>1 DEF SenderOK
  <2>2. SenderOK(k)'
    <3>1. SenderOK(k)
      BY DEF IInv, SenderInv
    <3> QED
      BY <1>1, <1>3, <3>1 DEF SenderOK
  <2> QED
    BY <2>1, <2>2 DEF SenderInv
<1>7. MsgInv'
  BY <1>1, <1>3 DEF IInv, MsgInv, MsgOK
<1>8. AckInv' /\ TaskInv'
  BY <1>1 DEF IInv, AckInv, TaskInv
<1>9. LinkInv'
  <2>1. ASSUME NEW l \in Links PROVE lpc'[l] = "recv" => handling'[l] = NoCmd
    BY <1>1 DEF IInv, LinkInv, LinkOK
  <2>2. \A l \in Links : \A e : Given(l, e)' <=> Given(l, e)
    BY <1>1 DEF Given
  <2> QED
    BY <1>1, <2>1, <2>2 DEF IInv, LinkInv, LinkOK
<1> QED
  BY <1>4, <1>5, <1>6, <1>7, <1>8, <1>9 DEF IInv

LEMMA CallKeeps ==
  ASSUME IInv, NEW a \in Apps, Call(a) PROVE IInv'
<1>1. PICK c \in Sends[a] : Start(a, c)
  BY DEF Call
<1>2. a \in Senders /\ c \in Calls
  BY MsgQAssumption DEF Senders
<1>3. lpc' = lpc /\ UNCHANGED <<msgqs, lock, sent, tpc, cur, recv, handling>>
  BY DEF Call, links
<1>4. lpc' \in [Links -> {"recv", "handle", "called"}]
  BY <1>3 DEF IInv, TypeOK
<1> QED
  BY <1>1, <1>2, <1>3, <1>4, StartKeeps

LEMMA CallOutKeeps ==
  ASSUME IInv, NEW l \in Links, CallOut(l) PROVE IInv'
<1>1. PICK c \in Handles[l][handling[l].cmd] : Start(l, c)
  BY DEF CallOut
<1>2. l \in Senders /\ c \in Calls
  <2>1. handling[l].cmd \in Cmds
    BY DEF IInv, TypeOK, Commands
  <2> QED
    BY <2>1, MsgQAssumption DEF Senders
<1>3. /\ lpc[l] = "handle" /\ lpc' = [lpc EXCEPT ![l] = "called"]
      /\ UNCHANGED <<msgqs, lock, sent, tpc, cur, recv, handling>>
  BY DEF CallOut
<1>4. lpc \in [Links -> {"recv", "handle", "called"}]
  BY DEF IInv, TypeOK
<1>5. /\ lpc' \in [Links -> {"recv", "handle", "called"}]
      /\ \A j \in Links : lpc'[j] = "recv" => lpc[j] = "recv"
  BY <1>3, <1>4
<1> QED
  BY <1>1, <1>2, <1>3, <1>5, StartKeeps

(* A sender that the step leaves alone.                                     *)
LEMMA SameSender ==
  ASSUME SenderInv, NEW j \in Senders,
         kpc'[j] = kpc[j], call'[j] = call[j], sent'[j] = sent[j],
         lock'[CoreOf[j]] = j <=> lock[CoreOf[j]] = j,
         kpc[j] \in {"put", "ack"} => msg'[sent[j]] = msg[sent[j]]
  PROVE  SenderOK(j)'
<1>1. SenderOK(j)
  BY DEF SenderInv
<1> QED
  BY <1>1 DEF SenderOK

(* A sender of whom a message is, and the message of a sender.              *)
LEMMA OwnMsg ==
  ASSUME IInv, NEW k \in Senders, kpc[k] \in {"put", "ack"}
  PROVE  /\ sent[k] \in Msgs \ heap /\ lock[CoreOf[k]] = k /\ call[k] \in Calls
         /\ msg[sent[k]] = [by |-> k, to |-> call[k].to, cmd |-> call[k].cmd]
         /\ \A j \in Senders : j # k /\ kpc[j] \in {"put", "ack"} => sent[j] # sent[k]
         /\ \A m \in Msgs \ heap : Waits(msg[m].cmd) /\ msg[m].by = k => m = sent[k]
<1>1. \A j \in Senders : SenderOK(j)
  BY DEF IInv, SenderInv
<1>2. /\ sent[k] \in Msgs /\ lock[CoreOf[k]] = k /\ call[k] \in Calls
      /\ msg[sent[k]] = [by |-> k, to |-> call[k].to, cmd |-> call[k].cmd]
  BY <1>1 DEF SenderOK
<1>3. sent[k] \notin heap
  <2>1. MsgOK(sent[k]) /\ k # None
    BY <1>2, MsgQAssumption DEF IInv, MsgInv
  <2> QED
    BY <1>2, <2>1 DEF MsgOK, Freed
<1>4. ASSUME NEW j \in Senders, j # k, kpc[j] \in {"put", "ack"} PROVE sent[j] # sent[k]
  <2>1. msg[sent[j]] = [by |-> j, to |-> call[j].to, cmd |-> call[j].cmd]
    BY <1>1, <1>4 DEF SenderOK
  <2> QED
    BY <1>2, <1>4, <2>1
<1>5. ASSUME NEW m \in Msgs \ heap, Waits(msg[m].cmd), msg[m].by = k PROVE m = sent[k]
  BY <1>5 DEF IInv, MsgInv, MsgOK
<1> QED
  BY <1>2, <1>3, <1>4, <1>5

(* The core's lock has one holder.                                          *)
LEMMA OneHolder ==
  ASSUME IInv, NEW k \in Senders, NEW j \in Senders, CoreOf[j] = CoreOf[k],
         kpc[k] \in {"put", "ack", "lost", "assert"},
         kpc[j] \in {"put", "ack", "lost", "assert"}
  PROVE  j = k
<1>1. SenderOK(j) /\ SenderOK(k)
  BY DEF IInv, SenderInv
<1> QED
  BY <1>1 DEF SenderOK

LEMMA AllocKeeps ==
  ASSUME IInv, NEW k \in Senders, Alloc(k) PROVE IInv'
<1>1. /\ kpc[k] = "lock" /\ lock[CoreOf[k]] = None
      /\ lock' = [lock EXCEPT ![CoreOf[k]] = k]
      /\ selfMsgQ' = selfMsgQ /\ ackMsgQ' = ackMsgQ /\ call' = call
      /\ tpc' = tpc /\ cur' = cur /\ recv' = recv /\ lpc' = lpc /\ handling' = handling
  BY DEF Alloc, links
<1>2. /\ kpc \in [Senders -> {"idle", "lock", "put", "ack", "lost", "assert"}]
      /\ lock \in [Cores -> Senders \cup {None}] /\ sent \in [Senders -> Msgs \cup {None}]
      /\ heap \subseteq Msgs
      /\ msg \in [Msgs -> [by : Senders \cup {None}, to : Links \cup {None}, cmd : Cmds]]
      /\ \A c \in Cores : cur[c] = None <=> tpc[c] = "get"
      /\ \A c \in Cores : cur[c] \in Msgs \cup {None}
  BY DEF IInv, TypeOK
<1>3. /\ CoreOf[k] \in Cores /\ k # None /\ None \notin Links
      /\ \A j \in Senders : CoreOf[j] \in Cores
      /\ \A c \in Cores : lock'[c] = IF c = CoreOf[k] THEN k ELSE lock[c]
  BY <1>1, <1>2, MsgQAssumption DEF Senders
<1>4. ASSUME NEW j \in Senders, j # k PROVE lock'[CoreOf[j]] = j <=> lock[CoreOf[j]] = j
  BY <1>1, <1>3, <1>4, MsgQAssumption
<1>5. SenderOK(k) /\ call[k] \in Calls
  BY <1>1 DEF IInv, SenderInv, SenderOK
<1>6. CASE heap = {}
  <2>1. kpc' = [kpc EXCEPT ![k] = "assert"] /\ heap' = heap /\ msg' = msg /\ sent' = sent
    BY <1>6 DEF Alloc
  <2>2. \A j \in Senders : kpc'[j] = IF j = k THEN "assert" ELSE kpc[j]
    BY <2>1, <1>2
  <2>3. TypeOK'
    BY <1>1, <1>2, <1>3, <2>1 DEF IInv, TypeOK
  <2>4. PlacesInv'
    <3>1. PutMsgs' = PutMsgs
      BY <1>1, <2>1, <2>2 DEF PutMsgs
    <3> QED
      BY <1>1, <2>1, <3>1, Stays DEF IInv
  <2>5. SenderInv'
    <3>1. SenderOK(k)'
      BY <1>1, <1>3, <1>5, <2>1, <2>2 DEF SenderOK
    <3>2. ASSUME NEW j \in Senders, j # k PROVE SenderOK(j)'
      BY <1>1, <1>4, <2>1, <2>2, <3>2, SameSender DEF IInv
    <3> QED
      BY <3>1, <3>2 DEF SenderInv
  <2>6. MsgInv'
    BY <1>1, <2>1, <2>2 DEF IInv, MsgInv, MsgOK
  <2>7. AckInv' /\ TaskInv'
    BY <1>1, <2>1 DEF IInv, AckInv, TaskInv
  <2>8. LinkInv'
    BY <1>1, <2>1, SameLinks DEF IInv
  <2> QED
    BY <2>3, <2>4, <2>5, <2>6, <2>7, <2>8 DEF IInv
<1>7. CASE heap # {}
  <2>0. PICK m \in heap : m = Alloced(k)
    BY <1>7 DEF Alloced
  <2>1. /\ heap' = heap \ {m}
        /\ msg' = [msg EXCEPT ![m] = [by |-> k, to |-> call[k].to, cmd |-> call[k].cmd]]
        /\ sent' = [sent EXCEPT ![k] = m] /\ kpc' = [kpc EXCEPT ![k] = "put"]
    BY <1>7, <2>0 DEF Alloc
  <2>2. m \in heap /\ m \in Msgs
    BY <1>2
  <2>3. /\ \A j \in Senders : kpc'[j] = IF j = k THEN "put" ELSE kpc[j]
        /\ \A j \in Senders : sent'[j] = IF j = k THEN m ELSE sent[j]
        /\ \A x \in Msgs : msg'[x] = IF x = m THEN [by |-> k, to |-> call[k].to, cmd |-> call[k].cmd]
                                              ELSE msg[x]
    BY <2>1, <2>2, <1>2
  <2>4. msg[m] = Freed
    BY <2>2 DEF IInv, MsgInv, MsgOK
  <2>5. TypeOK'
    <3>1. [by |-> k, to |-> call[k].to, cmd |-> call[k].cmd]
            \in [by : Senders \cup {None}, to : Links \cup {None}, cmd : Cmds]
      BY <1>5 DEF Calls
    <3>2. /\ heap' \subseteq Msgs /\ sent' \in [Senders -> Msgs \cup {None}]
          /\ msg' \in [Msgs -> [by : Senders \cup {None}, to : Links \cup {None}, cmd : Cmds]]
          /\ kpc' \in [Senders -> {"idle", "lock", "put", "ack", "lost", "assert"}]
          /\ lock' \in [Cores -> Senders \cup {None}]
      BY <1>1, <1>2, <2>1, <2>2, <3>1
    <3> QED
      BY <1>1, <3>2 DEF IInv, TypeOK
  <2>6. PlacesInv'
    <3>1. /\ <<"heap", None>> # <<"put", k>>
          /\ \A j \in Senders : <<"put", j>> \notin {<<"heap", None>>, <<"put", k>>} => j # k
      OBVIOUS
    <3>2. \A y \in Msgs : y \in At'[<<"heap", None>>] <=> y \in At[<<"heap", None>>] /\ y # m
      BY <2>1, AtHolds, AtHoldsNext
    <3>3. PutMsgs[k] = {} /\ PutMsgs'[k] = {m}
      BY <1>1, <2>3 DEF PutMsgs
    <3>4. \A y \in Msgs : y \in At'[<<"put", k>>] <=> y \in At[<<"put", k>>] \/ y = m
      BY <3>3, AtHolds, AtHoldsNext
    <3>5. ASSUME NEW j \in Senders, j # k PROVE PutMsgs'[j] = PutMsgs[j]
      BY <2>3, <3>5 DEF PutMsgs
    <3>6. InOnePlace(At, Msgs) /\ m \in At[<<"heap", None>>]
      BY <2>2, AtHolds DEF IInv, PlacesInv
    <3>7. InOnePlace(At', Msgs)
      BY <1>1, <2>2, <3>1, <3>2, <3>4, <3>5, <3>6, AtHolds, Moves
    <3> QED
      BY <1>1, <3>7 DEF IInv, PlacesInv, InOnePlace
  <2>7. SenderInv'
    <3>1. SenderOK(k)'
      BY <1>1, <1>3, <1>5, <2>2, <2>3 DEF SenderOK
    <3>2. ASSUME NEW j \in Senders, j # k PROVE SenderOK(j)'
      <4>1. ASSUME kpc[j] \in {"put", "ack"} PROVE sent[j] \in Msgs /\ sent[j] # m
        <5>1. sent[j] \in Msgs \ heap
          BY <4>1, OwnMsg
        <5> QED
          BY <2>2, <5>1
      <4>2. kpc[j] \in {"put", "ack"} => msg'[sent[j]] = msg[sent[j]]
        BY <4>1, <2>3
      <4> QED
        BY <1>1, <1>4, <2>3, <3>2, <4>2, SameSender DEF IInv
    <3> QED
      BY <3>1, <3>2 DEF SenderInv
  <2>8. MsgInv'
    <3>1. MsgOK(m)'
      BY <1>5, <2>1, <2>2, <2>3 DEF MsgOK, Calls
    <3>2. ASSUME NEW x \in Msgs, x # m PROVE MsgOK(x)'
      <4>1. MsgOK(x)
        BY DEF IInv, MsgInv
      <4> QED
        BY <1>1, <2>1, <2>3, <3>2, <4>1 DEF MsgOK
    <3> QED
      BY <3>1, <3>2 DEF MsgInv
  <2>9. AckInv' /\ TaskInv'
    <3>1. ASSUME NEW c \in Cores
          PROVE  /\ \A x \in Range(selfMsgQ[c]) : msg'[x] = msg[x]
                 /\ \A x \in Range(ackMsgQ[c]) : msg'[x] = msg[x]
                 /\ cur[c] # None => msg'[cur[c]] = msg[cur[c]]
      <4>1. /\ \A x \in Range(selfMsgQ[c]) : x \in Msgs /\ x # m
            /\ \A x \in Range(ackMsgQ[c]) : x \in Msgs /\ x # m
            /\ cur[c] # m
        BY <2>2, Apart
      <4> QED
        BY <1>2, <2>3, <4>1
    <3> QED
      BY <1>1, <3>1 DEF IInv, AckInv, TaskInv
  <2>10. LinkInv'
    <3>1. ASSUME NEW c \in Cores, tpc[c] = "wait" PROVE msg'[cur[c]] = msg[cur[c]]
      <4>1. cur[c] \in Msgs /\ cur[c] # m
        BY <1>2, <2>2, <3>1, Apart
      <4> QED
        BY <2>3, <4>1
    <3> QED
      BY <1>1, <3>1, SameLinks DEF IInv
  <2> QED
    BY <2>5, <2>6, <2>7, <2>8, <2>9, <2>10 DEF IInv
<1> QED
  BY <1>6, <1>7

(* A sender is done: it gives up the lock.                                  *)
LEMMA UnLockKeeps ==
  ASSUME IInv, NEW k \in Senders, kpc[k] \in {"put", "ack"}, UnLock(k),
         \A j \in Senders :
           j # k /\ kpc[j] \in {"put", "ack"} => msg'[sent[j]] = msg[sent[j]]
  PROVE  /\ SenderInv'
         /\ lock' \in [Cores -> Senders \cup {None}]
         /\ kpc' \in [Senders -> {"idle", "lock", "put", "ack", "lost", "assert"}]
         /\ call' \in [Senders -> Calls \cup {NoCall}]
         /\ sent' \in [Senders -> Msgs \cup {None}]
         /\ \A j \in Senders : kpc'[j] = IF j = k THEN "idle" ELSE kpc[j]
         /\ \A j \in Senders : sent'[j] = IF j = k THEN None ELSE sent[j]
<1>1. /\ kpc \in [Senders -> {"idle", "lock", "put", "ack", "lost", "assert"}]
      /\ lock \in [Cores -> Senders \cup {None}] /\ sent \in [Senders -> Msgs \cup {None}]
      /\ call \in [Senders -> Calls \cup {NoCall}]
  BY DEF IInv, TypeOK
<1>2. /\ lock' \in [Cores -> Senders \cup {None}]
      /\ kpc' \in [Senders -> {"idle", "lock", "put", "ack", "lost", "assert"}]
      /\ call' \in [Senders -> Calls \cup {NoCall}]
      /\ sent' \in [Senders -> Msgs \cup {None}]
      /\ \A j \in Senders : kpc'[j] = IF j = k THEN "idle" ELSE kpc[j]
      /\ \A j \in Senders : sent'[j] = IF j = k THEN None ELSE sent[j]
      /\ \A j \in Senders : call'[j] = IF j = k THEN NoCall ELSE call[j]
      /\ \A c \in Cores : lock'[c] = IF c = CoreOf[k] THEN None ELSE lock[c]
  BY <1>1 DEF UnLock
<1>3. \A j \in Senders : CoreOf[j] \in Cores /\ j # None
  BY MsgQAssumption
<1>4. SenderOK(k)'
  BY <1>2, <1>3 DEF SenderOK
<1>5. ASSUME NEW j \in Senders, j # k PROVE SenderOK(j)'
  <2>1. lock[CoreOf[k]] = k
    BY OwnMsg
  <2>2. lock'[CoreOf[j]] = j <=> lock[CoreOf[j]] = j
    BY <1>2, <1>3, <1>5, <2>1
  <2> QED
    BY <1>2, <1>5, <2>2, SameSender DEF IInv
<1> QED
  BY <1>2, <1>4, <1>5 DEF SenderInv

(* A message is freed.                                                      *)
LEMMA FreeTypes ==
  ASSUME TypeOK, NEW m \in Msgs, Free(m)
  PROVE  /\ heap' = heap \cup {m} /\ heap' \subseteq Msgs
         /\ msg' \in [Msgs -> [by : Senders \cup {None}, to : Links \cup {None}, cmd : Cmds]]
         /\ \A x \in Msgs : msg'[x] = IF x = m THEN Freed ELSE msg[x]
<1>1. /\ heap \subseteq Msgs
      /\ msg \in [Msgs -> [by : Senders \cup {None}, to : Links \cup {None}, cmd : Cmds]]
  BY DEF TypeOK
<1>2. Freed \in [by : Senders \cup {None}, to : Links \cup {None}, cmd : Cmds]
  BY DEF Freed, Cmds
<1> QED
  BY <1>1, <1>2 DEF Free

(* A sender frees its message and gives up the lock: PutFails and GetAck.   *)
LEMMA FreeOwn ==
  ASSUME IInv, NEW k \in Senders, kpc[k] \in {"put", "ack"},
         Free(sent[k]), UnLock(k), UNCHANGED <<selfMsgQ, tpc, cur, links>>,
         \A c \in Cores : sent[k] \notin Range(selfMsgQ[c]) /\ sent[k] # cur[c],
         ackMsgQ' \in [Cores -> Seq(Msgs)],
         \A c \in Cores : Range(ackMsgQ'[c]) \subseteq Range(ackMsgQ[c]) \ {sent[k]}
  PROVE  TypeOK' /\ SenderInv' /\ MsgInv' /\ AckInv' /\ TaskInv' /\ LinkInv'
<1>1. PICK m \in Msgs \ heap : m = sent[k]
  BY OwnMsg
<1>2. /\ heap' = heap \cup {m} /\ heap' \subseteq Msgs
      /\ msg' \in [Msgs -> [by : Senders \cup {None}, to : Links \cup {None}, cmd : Cmds]]
      /\ \A x \in Msgs : msg'[x] = IF x = m THEN Freed ELSE msg[x]
  BY <1>1, FreeTypes DEF IInv
<1>3. /\ selfMsgQ' = selfMsgQ /\ tpc' = tpc /\ cur' = cur
      /\ recv' = recv /\ lpc' = lpc /\ handling' = handling
  BY DEF links
<1>4. ASSUME NEW j \in Senders, j # k, kpc[j] \in {"put", "ack"}
      PROVE  msg'[sent[j]] = msg[sent[j]]
  <2>1. sent[j] # sent[k]
    BY <1>4, OwnMsg
  <2>2. sent[j] \in Msgs
    BY <1>4, OwnMsg
  <2> QED
    BY <1>1, <1>2, <2>1, <2>2
<1>5. /\ SenderInv'
      /\ lock' \in [Cores -> Senders \cup {None}]
      /\ kpc' \in [Senders -> {"idle", "lock", "put", "ack", "lost", "assert"}]
      /\ call' \in [Senders -> Calls \cup {NoCall}]
      /\ sent' \in [Senders -> Msgs \cup {None}]
      /\ \A j \in Senders : kpc'[j] = IF j = k THEN "idle" ELSE kpc[j]
      /\ \A j \in Senders : sent'[j] = IF j = k THEN None ELSE sent[j]
  BY <1>4, UnLockKeeps
<1>6. TypeOK'
  BY <1>2, <1>3, <1>5 DEF IInv, TypeOK
<1>7. MsgInv'
  <2>1. MsgOK(m)'
    BY <1>2 DEF MsgOK
  <2>2. ASSUME NEW x \in Msgs, x # m PROVE MsgOK(x)'
    <3>1. MsgOK(x)
      BY DEF IInv, MsgInv
    <3>2. x \notin heap /\ Waits(msg[x].cmd) => msg[x].by # k
      BY <1>1, <2>2, OwnMsg
    <3> QED
      BY <1>2, <1>5, <2>2, <3>1, <3>2 DEF MsgOK
  <2> QED
    BY <2>1, <2>2 DEF MsgInv
<1>8. /\ \A c \in Cores : selfMsgQ[c] \in Seq(Msgs) /\ cur[c] \in Msgs \cup {None}
      /\ \A c \in Cores : ackMsgQ[c] \in Seq(Msgs) /\ (cur[c] = None <=> tpc[c] = "get")
  BY DEF IInv, TypeOK
<1>9. AckInv' /\ TaskInv'
  <2>1. ASSUME NEW c \in Cores
        PROVE  /\ \A x \in Range(selfMsgQ[c]) : msg'[x] = msg[x]
               /\ \A x \in Range(ackMsgQ'[c]) : x \in Range(ackMsgQ[c]) /\ msg'[x] = msg[x]
               /\ cur[c] # None => msg'[cur[c]] = msg[cur[c]]
    <3>1. Range(selfMsgQ[c]) \subseteq Msgs /\ Range(ackMsgQ[c]) \subseteq Msgs
      BY <1>8, ListEmpty
    <3> QED
      BY <1>1, <1>2, <1>8, <3>1
  <2> QED
    BY <1>3, <2>1 DEF IInv, AckInv, TaskInv
<1>10. LinkInv'
  <2>1. ASSUME NEW c \in Cores, tpc[c] = "wait" PROVE msg'[cur[c]] = msg[cur[c]]
    BY <1>1, <1>2, <1>8, <2>1
  <2> QED
    BY <1>3, <2>1, SameLinks DEF IInv
<1> QED
  BY <1>5, <1>6, <1>7, <1>9, <1>10

LEMMA PutFailsKeeps ==
  ASSUME IInv, NEW k \in Senders, PutFails(k) PROVE IInv'
<1>1. /\ kpc[k] = "put" /\ Free(sent[k]) /\ UnLock(k)
      /\ UNCHANGED <<selfMsgQ, tpc, cur, links>> /\ selfMsgQ' = selfMsgQ
      /\ ackMsgQ' = ackMsgQ /\ cur' = cur /\ heap' = heap \cup {sent[k]}
  BY DEF PutFails, Free
<1>2. /\ sent[k] \in Msgs /\ sent[k] \notin heap
      /\ \A c \in Cores : /\ sent[k] # cur[c] /\ sent[k] \notin Range(selfMsgQ[c])
                          /\ sent[k] \notin Range(ackMsgQ[c])
  BY <1>1, Apart
<1>3. ackMsgQ \in [Cores -> Seq(Msgs)]
  BY DEF IInv, TypeOK
<1>4. TypeOK' /\ SenderInv' /\ MsgInv' /\ AckInv' /\ TaskInv' /\ LinkInv'
  BY <1>1, <1>2, <1>3, FreeOwn
<1>5. PlacesInv'
  <2>1. PICK m \in Msgs : m = sent[k]
    BY <1>2
  <2>2. \A j \in Senders : kpc'[j] = IF j = k THEN "idle" ELSE kpc[j]
    BY <1>1 DEF UnLock, IInv, TypeOK
  <2>3. \A j \in Senders : j # k => sent'[j] = sent[j]
    BY <1>1 DEF UnLock, IInv, TypeOK
  <2>4. PutMsgs[k] = {m} /\ PutMsgs'[k] = {}
    BY <1>1, <2>1, <2>2 DEF PutMsgs
  <2>5. ASSUME NEW j \in Senders, j # k PROVE PutMsgs'[j] = PutMsgs[j]
    BY <2>2, <2>3, <2>5 DEF PutMsgs
  <2>6. /\ <<"heap", None>> # <<"put", k>>
        /\ \A j \in Senders : <<"put", j>> \notin {<<"put", k>>, <<"heap", None>>} => j # k
    OBVIOUS
  <2>7. /\ \A y \in Msgs : y \in At'[<<"heap", None>>] <=> y \in At[<<"heap", None>>] \/ y = m
        /\ \A y \in Msgs : y \in At'[<<"put", k>>] <=> y \in At[<<"put", k>>] /\ y # m
    BY <1>1, <2>1, <2>4, AtHolds, AtHoldsNext
  <2>8. InOnePlace(At, Msgs) /\ m \in At[<<"put", k>>]
    BY <2>4, AtHolds DEF IInv, PlacesInv
  <2>9. InOnePlace(At', Msgs)
    BY <1>1, <2>5, <2>6, <2>7, <2>8, AtHolds, Moves
  <2> QED
    BY <1>1, <2>9 DEF IInv, PlacesInv, InOnePlace
<1> QED
  BY <1>4, <1>5 DEF IInv

(* The lock that is held until the acknowledge has come makes the message   *)
(* that comes the sender's own: none comes once one is lost.                *)
LEMMA HeadIsOwn ==
  ASSUME IInv, NEW k \in Senders, InAck(k), ackMsgQ[CoreOf[k]] # <<>>
  PROVE  /\ kpc[k] = "ack" /\ Head(ackMsgQ[CoreOf[k]]) = sent[k]
         /\ Head(ackMsgQ[CoreOf[k]]) \in Range(ackMsgQ[CoreOf[k]])
<1> DEFINE s == ackMsgQ[CoreOf[k]]
           m == Head(s)
<1>1. CoreOf[k] \in Cores
  BY MsgQAssumption
<1>2. s \in Seq(Msgs) /\ IsInjective(s)
  BY <1>1 DEF IInv, TypeOK, PlacesInv
<1>3. m \in Range(s)
  BY <1>2, TakeHead
<1>4. m \in Msgs /\ m \notin heap
  BY <1>1, <1>3, Apart
<1>5. Waits(msg[m].cmd) /\ CoreOf[msg[m].by] = CoreOf[k]
  BY <1>1, <1>3 DEF IInv, AckInv
<1>6. msg[m].by \in Senders /\ kpc[msg[m].by] \in {"put", "ack"} /\ sent[msg[m].by] = m
  BY <1>4, <1>5 DEF IInv, MsgInv, MsgOK
<1>7. msg[m].by = k
  BY <1>5, <1>6, OneHolder DEF InAck
<1>8. kpc[k] = "ack"
  BY <1>6, <1>7 DEF InAck
<1> QED
  BY <1>3, <1>6, <1>7, <1>8

LEMMA GetAckKeeps ==
  ASSUME IInv, NEW k \in Senders, GetAck(k) PROVE IInv'
<1> DEFINE c == CoreOf[k]
<1>1. /\ kpc[k] = "ack" /\ ackMsgQ[c] # <<>> /\ Free(Head(ackMsgQ[c])) /\ UnLock(k)
      /\ ackMsgQ' = [ackMsgQ EXCEPT ![c] = Tail(@)]
      /\ UNCHANGED <<selfMsgQ, tpc, cur, links>> /\ selfMsgQ' = selfMsgQ /\ cur' = cur
  BY HeadIsOwn DEF GetAck
<1>2. /\ c \in Cores /\ ackMsgQ \in [Cores -> Seq(Msgs)]
      /\ \A d \in Cores : IsInjective(ackMsgQ[d])
  BY MsgQAssumption DEF IInv, TypeOK, PlacesInv
<1>3. PICK m \in Msgs : m = sent[k]
  BY <1>1, OwnMsg
<1>4. Head(ackMsgQ[c]) = m /\ m \in Range(ackMsgQ[c]) /\ Free(m)
  BY <1>1, <1>3, HeadIsOwn DEF InAck
<1>5. /\ Tail(ackMsgQ[c]) \in Seq(Msgs) /\ IsInjective(Tail(ackMsgQ[c]))
      /\ \A x : x \in Range(Tail(ackMsgQ[c])) <=> x \in Range(ackMsgQ[c]) /\ x # m
  BY <1>1, <1>2, <1>4, TakeHead
<1>6. /\ ackMsgQ' \in [Cores -> Seq(Msgs)]
      /\ \A d \in Cores : ackMsgQ'[d] = IF d = c THEN Tail(ackMsgQ[c]) ELSE ackMsgQ[d]
  BY <1>1, <1>2, <1>5
<1>7. \A d \in Cores : m \notin Range(selfMsgQ[d]) /\ m # cur[d]
  BY <1>2, <1>4, Apart
<1>8. \A d \in Cores : d # c => m \notin Range(ackMsgQ[d])
  BY <1>2, <1>4, Apart
<1>9. \A d \in Cores : Range(ackMsgQ'[d]) \subseteq Range(ackMsgQ[d]) \ {m}
  BY <1>5, <1>6, <1>8
<1>10. TypeOK' /\ SenderInv' /\ MsgInv' /\ AckInv' /\ TaskInv' /\ LinkInv'
  BY <1>1, <1>3, <1>4, <1>6, <1>7, <1>9, FreeOwn
<1>11. PlacesInv'
  <2>1. \A j \in Senders : kpc'[j] = "put" <=> kpc[j] = "put"
    BY <1>1 DEF UnLock, IInv, TypeOK
  <2>2. \A j \in Senders : j # k => sent'[j] = sent[j]
    BY <1>1 DEF UnLock, IInv, TypeOK
  <2>3. PutMsgs' = PutMsgs
    BY <1>1, <2>1, <2>2 DEF PutMsgs
  <2>4. /\ <<"heap", None>> # <<"ack", c>>
        /\ \A d \in Cores : <<"ack", d>> \notin {<<"ack", c>>, <<"heap", None>>} => d # c
    OBVIOUS
  <2>5. heap' = heap \cup {m}
    BY <1>4 DEF Free
  <2>6. \A y \in Msgs : y \in At'[<<"heap", None>>] <=> y \in At[<<"heap", None>>] \/ y = m
    BY <2>5, AtHolds, AtHoldsNext
  <2>7. \A y \in Msgs : y \in At'[<<"ack", c>>] <=> y \in At[<<"ack", c>>] /\ y # m
    <3>1. At'[<<"ack", c>>] = Range(ackMsgQ'[c]) /\ At[<<"ack", c>>] = Range(ackMsgQ[c])
      BY <1>2, AtHolds, AtHoldsNext
    <3>2. Range(ackMsgQ'[c]) = Range(Tail(ackMsgQ[c]))
      BY <1>2, <1>6
    <3> QED
      BY <1>5, <3>1, <3>2
  <2>8. InOnePlace(At, Msgs) /\ m \in At[<<"ack", c>>]
    BY <1>2, <1>4, AtHolds DEF IInv, PlacesInv
  <2>9. \A d \in Cores : d # c => ackMsgQ'[d] = ackMsgQ[d]
    BY <1>6
  <2>10. <<"ack", c>> \in Spots /\ <<"heap", None>> \in Spots
    BY <1>2, AtHolds
  <2> HIDE DEF c
  <2>11. InOnePlace(At', Msgs)
    BY <1>1, <2>3, <2>4, <2>6, <2>7, <2>8, <2>9, <2>10, Moves
  <2>12. \A d \in Cores : IsInjective(selfMsgQ'[d]) /\ IsInjective(ackMsgQ'[d])
    BY <1>1, <1>2, <1>5, <1>6 DEF IInv, PlacesInv
  <2> QED
    BY <2>11, <2>12 DEF PlacesInv, InOnePlace
<1> QED
  BY <1>10, <1>11 DEF IInv

LEMMA PutKeeps ==
  ASSUME IInv, NEW k \in Senders, Put(k) PROVE IInv'
<1>1. /\ kpc[k] = "put" /\ ToSelfMsgQ(k)
      /\ heap' = heap /\ msg' = msg /\ ackMsgQ' = ackMsgQ /\ tpc' = tpc /\ cur' = cur
      /\ recv' = recv /\ lpc' = lpc /\ handling' = handling
  BY DEF Put, links
<1>2. PICK m \in Msgs \ heap : m = sent[k]
  BY <1>1, OwnMsg
<1>3. PICK c \in Cores : c = CoreOf[call[k].to]
  <2>1. call[k] \in Calls
    BY <1>1, OwnMsg
  <2>2. call[k].to \in Links
    BY <2>1 DEF Calls
  <2> QED
    BY <2>2, MsgQAssumption DEF Senders
<1>4. msg[m] = [by |-> k, to |-> call[k].to, cmd |-> call[k].cmd]
  BY <1>1, <1>2, OwnMsg
<1>5. /\ \A d \in Cores : selfMsgQ[d] \in Seq(Msgs)
      /\ \A d \in Cores : IsInjective(selfMsgQ[d])
      /\ kpc \in [Senders -> {"idle", "lock", "put", "ack", "lost", "assert"}]
      /\ sent \in [Senders -> Msgs \cup {None}] /\ call \in [Senders -> Calls \cup {NoCall}]
      /\ lock \in [Cores -> Senders \cup {None}]
      /\ selfMsgQ \in [Cores -> Seq(Msgs)]
  BY DEF IInv, TypeOK, PlacesInv
<1>6. \A d \in Cores : m \notin Range(selfMsgQ[d])
  BY <1>1, <1>2, Apart
<1>7. /\ Append(selfMsgQ[c], m) \in Seq(Msgs) /\ IsInjective(Append(selfMsgQ[c], m))
      /\ \A x : x \in Range(Append(selfMsgQ[c], m)) <=> x \in Range(selfMsgQ[c]) \/ x = m
  BY <1>5, <1>6, PutLast
<1>8. /\ selfMsgQ' \in [Cores -> Seq(Msgs)]
      /\ \A d \in Cores : selfMsgQ'[d] = IF d = c THEN Append(selfMsgQ[c], m) ELSE selfMsgQ[d]
  BY <1>1, <1>2, <1>3, <1>5, <1>7 DEF ToSelfMsgQ
<1>9. /\ SenderInv'
      /\ lock' \in [Cores -> Senders \cup {None}]
      /\ kpc' \in [Senders -> {"idle", "lock", "put", "ack", "lost", "assert"}]
      /\ call' \in [Senders -> Calls \cup {NoCall}]
      /\ sent' \in [Senders -> Msgs \cup {None}]
      /\ kpc'[k] \in {"ack", "idle"} /\ \A j \in Senders : j # k => kpc'[j] = kpc[j]
      /\ Waits(call[k].cmd) => kpc'[k] = "ack" /\ sent'[k] = m
      /\ \A j \in Senders : j # k => sent'[j] = sent[j]
  <2>1. CASE Waits(call[k].cmd)
    <3>1. /\ kpc' = [kpc EXCEPT ![k] = "ack"] /\ lock' = lock
          /\ call' = call /\ sent' = sent
      BY <2>1 DEF Put
    <3>2. ASSUME NEW j \in Senders, j # k PROVE SenderOK(j)'
      BY <1>1, <1>5, <3>1, <3>2, SameSender DEF IInv
    <3>3. SenderOK(k)'
      <4>1. SenderOK(k)
        BY DEF IInv, SenderInv
      <4> QED
        BY <1>1, <1>5, <2>1, <3>1, <4>1 DEF SenderOK
    <3> QED
      BY <1>2, <1>5, <3>1, <3>2, <3>3 DEF SenderInv
  <2>2. CASE ~Waits(call[k].cmd)
    <3>1. UnLock(k)
      BY <2>2 DEF Put
    <3> QED
      BY <1>1, <2>2, <3>1, UnLockKeeps
  <2> QED
    BY <2>1, <2>2
<1>10. TypeOK'
  BY <1>1, <1>8, <1>9 DEF IInv, TypeOK
<1>11. PlacesInv'
  <2>1. PutMsgs[k] = {m} /\ PutMsgs'[k] = {}
    BY <1>1, <1>2, <1>9 DEF PutMsgs
  <2>2. ASSUME NEW j \in Senders, j # k PROVE PutMsgs'[j] = PutMsgs[j]
    BY <1>9, <2>2 DEF PutMsgs
  <2>3. /\ <<"put", k>> # <<"self", c>>
        /\ \A j \in Senders : <<"put", j>> \notin {<<"put", k>>, <<"self", c>>} => j # k
        /\ \A d \in Cores : <<"self", d>> \notin {<<"put", k>>, <<"self", c>>} => d # c
    OBVIOUS
  <2>4. \A y \in Msgs : y \in At'[<<"put", k>>] <=> y \in At[<<"put", k>>] /\ y # m
    BY <2>1, AtHolds, AtHoldsNext
  <2>5. \A y \in Msgs : y \in At'[<<"self", c>>] <=> y \in At[<<"self", c>>] \/ y = m
    <3>1. At'[<<"self", c>>] = Range(selfMsgQ'[c]) /\ At[<<"self", c>>] = Range(selfMsgQ[c])
      BY AtHolds, AtHoldsNext
    <3>2. Range(selfMsgQ'[c]) = Range(Append(selfMsgQ[c], m))
      BY <1>8
    <3> QED
      BY <1>7, <3>1, <3>2
  <2>6. InOnePlace(At, Msgs) /\ m \in At[<<"put", k>>]
    BY <2>1, AtHolds DEF IInv, PlacesInv
  <2>7. \A d \in Cores : d # c => selfMsgQ'[d] = selfMsgQ[d]
    BY <1>8
  <2>8. <<"put", k>> \in Spots /\ <<"self", c>> \in Spots
    BY AtHolds
  <2>9. InOnePlace(At', Msgs)
    BY <1>1, <2>2, <2>3, <2>4, <2>5, <2>6, <2>7, <2>8, Moves
  <2>10. \A d \in Cores : IsInjective(selfMsgQ'[d]) /\ IsInjective(ackMsgQ'[d])
    BY <1>1, <1>5, <1>7, <1>8 DEF IInv, PlacesInv
  <2> QED
    BY <2>9, <2>10 DEF PlacesInv, InOnePlace
<1>12. MsgInv'
  <2>1. ASSUME NEW x \in Msgs PROVE MsgOK(x)'
    <3>1. MsgOK(x)
      BY DEF IInv, MsgInv
    <3>2. x \notin heap /\ Waits(msg[x].cmd) /\ msg[x].by = k => x = m /\ Waits(call[k].cmd)
      <4>1. x \notin heap /\ Waits(msg[x].cmd) /\ msg[x].by = k => x = m
        BY <1>1, <1>2, OwnMsg
      <4> QED
        BY <1>4, <4>1
    <3> QED
      BY <1>1, <1>9, <3>1, <3>2 DEF MsgOK
  <2> QED
    BY <2>1 DEF MsgInv
<1>13. AckInv'
  BY <1>1 DEF IInv, AckInv
<1>14. TaskInv'
  <2>1. ASSUME NEW d \in Cores, NEW x \in Range(selfMsgQ'[d]) PROVE CoreOf[msg[x].to] = d
    <3>1. msg[m].to = call[k].to
      BY <1>4
    <3>2. x \in Range(selfMsgQ[d]) \/ (d = c /\ x = m)
      BY <1>7, <1>8
    <3>3. x \in Range(selfMsgQ[d]) => CoreOf[msg[x].to] = d
      BY DEF IInv, TaskInv
    <3> QED
      BY <1>3, <3>1, <3>2, <3>3
  <2> QED
    BY <1>1, <2>1 DEF IInv, TaskInv
<1>15. LinkInv'
  BY <1>1, SameLinks DEF IInv
<1> QED
  BY <1>9, <1>10, <1>11, <1>12, <1>13, <1>14, <1>15 DEF IInv

(* A sender and a message that the step leaves alone, when no sender moves. *)
LEMMA SameSenders ==
  ASSUME IInv, UNCHANGED <<heap, msg, lock, senders>>
  PROVE  SenderInv' /\ MsgInv'
BY DEF IInv, SenderInv, SenderOK, MsgInv, MsgOK, senders

LEMMA GetKeeps ==
  ASSUME IInv, NEW c \in Cores, Get(c) PROVE IInv'
<1>1. PICK m : m = Head(selfMsgQ[c])
  OBVIOUS
<1>2. /\ tpc[c] = "get" /\ selfMsgQ[c] # <<>>
      /\ cur' = [cur EXCEPT ![c] = m] /\ selfMsgQ' = [selfMsgQ EXCEPT ![c] = Tail(@)]
      /\ tpc' = [tpc EXCEPT ![c] = IF msg[m].cmd = "GET_INFO" THEN "reply" ELSE "local"]
      /\ heap' = heap /\ msg' = msg /\ ackMsgQ' = ackMsgQ /\ lock' = lock
      /\ kpc' = kpc /\ call' = call /\ sent' = sent
      /\ recv' = recv /\ lpc' = lpc /\ handling' = handling
  BY <1>1 DEF Get, senders, links
<1>3. /\ selfMsgQ \in [Cores -> Seq(Msgs)] /\ \A d \in Cores : IsInjective(selfMsgQ[d])
      /\ cur \in [Cores -> Msgs \cup {None}] /\ None \notin Msgs
      /\ tpc \in [Cores -> {"get", "local", "wait", "reply"}]
      /\ \A d \in Cores : cur[d] = None <=> tpc[d] = "get"
  BY MsgQAssumption DEF IInv, TypeOK, PlacesInv
<1>4. /\ m \in Msgs /\ m \in Range(selfMsgQ[c])
      /\ Tail(selfMsgQ[c]) \in Seq(Msgs) /\ IsInjective(Tail(selfMsgQ[c]))
      /\ \A x : x \in Range(Tail(selfMsgQ[c])) <=> x \in Range(selfMsgQ[c]) /\ x # m
  BY <1>1, <1>2, <1>3, TakeHead
<1>5. /\ selfMsgQ' \in [Cores -> Seq(Msgs)] /\ cur' \in [Cores -> Msgs \cup {None}]
      /\ tpc' \in [Cores -> {"get", "local", "wait", "reply"}]
      /\ \A d \in Cores : selfMsgQ'[d] = IF d = c THEN Tail(selfMsgQ[c]) ELSE selfMsgQ[d]
      /\ \A d \in Cores : cur'[d] = IF d = c THEN m ELSE cur[d]
      /\ tpc'[c] \in {"reply", "local"} /\ \A d \in Cores : d # c => tpc'[d] = tpc[d]
  BY <1>2, <1>3, <1>4
<1>6. TypeOK'
  <2>1. \A d \in Cores : cur'[d] = None <=> tpc'[d] = "get"
    BY <1>3, <1>4, <1>5
  <2> QED
    BY <1>2, <1>5, <2>1 DEF IInv, TypeOK
<1>7. PlacesInv'
  <2>1. PutMsgs' = PutMsgs
    BY <1>2 DEF PutMsgs
  <2>2. <<"self", c>> # <<"task", c>>
    OBVIOUS
  <2>3. \A y \in Msgs : y \in At'[<<"self", c>>] <=> y \in At[<<"self", c>>] /\ y # m
    <3>1. At'[<<"self", c>>] = Range(selfMsgQ'[c]) /\ At[<<"self", c>>] = Range(selfMsgQ[c])
      BY AtHolds, AtHoldsNext
    <3>2. Range(selfMsgQ'[c]) = Range(Tail(selfMsgQ[c]))
      BY <1>5
    <3> QED
      BY <1>4, <3>1, <3>2
  <2>4. \A y \in Msgs : y \in At'[<<"task", c>>] <=> y \in At[<<"task", c>>] \/ y = m
    <3>1. At'[<<"task", c>>] = {m} /\ At[<<"task", c>>] = {None}
      BY <1>2, <1>3, <1>5, AtHolds, AtHoldsNext
    <3> QED
      BY <1>3, <3>1
  <2>5. InOnePlace(At, Msgs) /\ m \in At[<<"self", c>>]
    BY <1>4, AtHolds DEF IInv, PlacesInv
  <2>6. /\ \A d \in Cores : <<"self", d>> \notin {<<"self", c>>, <<"task", c>>} =>
                            selfMsgQ'[d] = selfMsgQ[d]
        /\ \A d \in Cores : <<"task", d>> \notin {<<"self", c>>, <<"task", c>>} =>
                            cur'[d] = cur[d]
    BY <1>5
  <2>7. <<"self", c>> \in Spots /\ <<"task", c>> \in Spots
    BY AtHolds
  <2>8. InOnePlace(At', Msgs)
    BY <1>2, <1>4, <2>1, <2>2, <2>3, <2>4, <2>5, <2>6, <2>7, Moves
  <2>9. \A d \in Cores : IsInjective(selfMsgQ'[d]) /\ IsInjective(ackMsgQ'[d])
    BY <1>2, <1>3, <1>4, <1>5 DEF IInv, PlacesInv
  <2> QED
    BY <2>8, <2>9 DEF PlacesInv, InOnePlace
<1>8. SenderInv' /\ MsgInv'
  BY <1>2, SameSenders DEF senders
<1>9. AckInv'
  BY <1>2 DEF IInv, AckInv
<1>10. TaskInv'
  <2>1. \A d \in Cores : \A x \in Range(selfMsgQ'[d]) : x \in Range(selfMsgQ[d])
    BY <1>4, <1>5
  <2>2. CoreOf[msg[m].to] = c
    BY <1>4 DEF IInv, TaskInv
  <2>3. \A d \in Cores : cur'[d] # None => CoreOf[msg[cur'[d]].to] = d
    BY <1>5, <2>2 DEF IInv, TaskInv
  <2> QED
    BY <1>2, <2>1, <2>3 DEF IInv, TaskInv
<1>11. LinkInv'
  <2>1. ASSUME NEW d \in Cores, tpc[d] = "wait"
        PROVE  tpc'[d] = "wait" /\ cur'[d] = cur[d] /\ msg'[cur[d]] = msg[cur[d]]
    BY <1>2, <1>5, <2>1
  <2> QED
    BY <1>2, <2>1, SameLinks DEF IInv
<1> QED
  BY <1>6, <1>7, <1>8, <1>9, <1>10, <1>11 DEF IInv

(* No link of core c has a command to acknowledge while its message task    *)
(* does not wait.                                                           *)
LEMMA NoneGiven ==
  ASSUME IInv, NEW l \in Links, tpc[CoreOf[l]] # "wait"
  PROVE  /\ ~Waits(handling[l].cmd)
         /\ \A i \in DOMAIN recv[l] : ~Waits(recv[l][i].cmd)
<1>1. LinkOK(l)
  BY DEF IInv, LinkInv
<1> QED
  BY <1>1 DEF LinkOK, Given

(* A command comes to the mailbox of link l, which has none to acknowledge. *)
LEMMA MailKeeps ==
  ASSUME IInv, NEW l \in Links, NEW e \in Commands,
         recv' = [recv EXCEPT ![l] = Append(@, e)],
         UNCHANGED <<heap, msg, lpc, handling, cur>>,
         Waits(e.cmd) => tpc[CoreOf[l]] # "wait" /\ Given(l, e)',
         \A c \in Cores : tpc[c] = "wait" => tpc'[c] = "wait"
  PROVE  LinkInv' /\ recv' \in [Links -> Seq(Commands)]
<1>1. recv \in [Links -> Seq(Commands)]
  BY DEF IInv, TypeOK
<1>2. PICK n \in Nat : n = Len(recv[l]) /\ DOMAIN recv[l] = 1 .. n
  BY <1>1, LenProperties
<1>3. /\ Append(recv[l], e) \in Seq(Commands) /\ DOMAIN Append(recv[l], e) = 1 .. n + 1
      /\ \A i \in 1 .. n : Append(recv[l], e)[i] = recv[l][i]
      /\ Append(recv[l], e)[n + 1] = e
  BY <1>1, <1>2, AppendProperties, LenProperties
<1>4. /\ recv' \in [Links -> Seq(Commands)]
      /\ \A j \in Links : recv'[j] = IF j = l THEN Append(recv[l], e) ELSE recv[j]
  BY <1>1, <1>3
<1>5. ASSUME NEW j \in Links, NEW x, Given(j, x) PROVE Given(j, x)'
  <2>1. CoreOf[j] \in Cores
    BY MsgQAssumption DEF Senders
  <2> QED
    BY <1>5, <2>1 DEF Given
<1>6. ASSUME NEW j \in Links PROVE LinkOK(j)'
  <2>1. LinkOK(j)
    BY DEF IInv, LinkInv
  <2>2. /\ lpc'[j] = "recv" => handling'[j] = NoCmd
        /\ Waits(handling'[j].cmd) => Given(j, handling[j])'
    <3>1. Waits(handling[j].cmd) => Given(j, handling[j])
      BY <2>1 DEF LinkOK
    <3>2. Waits(handling[j].cmd) => Given(j, handling[j])'
      BY <1>5, <3>1 DEF Given
    <3> QED
      BY <2>1, <3>2 DEF LinkOK
  <2>3. ASSUME NEW i \in DOMAIN recv[j], Waits(recv[j][i].cmd)
        PROVE  /\ Given(j, recv[j][i]) /\ ~Waits(handling[j].cmd)
               /\ tpc[CoreOf[j]] = "wait"
               /\ \A h \in DOMAIN recv[j] : Waits(recv[j][h].cmd) => i = h
    BY <2>1, <2>3 DEF LinkOK, Given
  <2>4. CASE j # l
    <3>1. ASSUME NEW i \in DOMAIN recv[j], Waits(recv[j][i].cmd)
          PROVE  Given(j, recv[j][i])'
      BY <1>4, <1>5, <2>3, <2>4, <3>1 DEF Given
    <3> QED
      BY <1>4, <2>2, <2>3, <2>4, <3>1 DEF LinkOK
  <2>5. CASE j = l
    <3>1. recv'[l] = Append(recv[l], e)
      BY <1>4
    <3>2. ASSUME NEW i \in 1 .. n + 1, Waits(recv'[l][i].cmd)
          PROVE  /\ Given(l, recv[l][i])' /\ ~Waits(handling'[l].cmd)
                 /\ \A h \in 1 .. n + 1 : Waits(recv'[l][h].cmd) => i = h
      <4>1. CASE i \in 1 .. n
        <5>1. /\ recv'[l][i] = recv[l][i] /\ Waits(recv[l][i].cmd)
              /\ i \in DOMAIN recv[l]
          BY <1>2, <1>3, <3>1, <3>2, <4>1
        <5>2. /\ Given(l, recv[l][i]) /\ ~Waits(handling[l].cmd)
              /\ tpc[CoreOf[l]] = "wait"
              /\ \A h \in DOMAIN recv[l] : Waits(recv[l][h].cmd) => i = h
          BY <2>3, <2>5, <5>1
        <5>3. ~Waits(e.cmd)
          BY <5>2
        <5>4. ASSUME NEW h \in 1 .. n + 1, Waits(recv'[l][h].cmd) PROVE i = h
          <6>1. h # n + 1
            BY <1>3, <3>1, <5>3, <5>4
          <6>2. h \in 1 .. n
            BY <6>1
          <6> QED
            BY <1>2, <1>3, <3>1, <5>2, <5>4, <6>2
        <5>5. Given(l, recv[l][i])'
          BY <1>5, <5>1, <5>2 DEF Given
        <5> QED
          BY <5>2, <5>4, <5>5
      <4>2. CASE i = n + 1
        <5>1. recv'[l][i] = e /\ Waits(e.cmd)
          BY <1>3, <3>1, <3>2, <4>2
        <5>2. tpc[CoreOf[l]] # "wait" /\ Given(l, e)'
          BY <5>1
        <5>3. Given(l, recv[l][i])'
          BY <5>1, <5>2 DEF Given
        <5>4. /\ ~Waits(handling[l].cmd)
              /\ \A h \in 1 .. n : ~Waits(recv[l][h].cmd)
          BY <1>2, <5>2, NoneGiven
        <5>5. ASSUME NEW h \in 1 .. n + 1, Waits(recv'[l][h].cmd) PROVE i = h
          <6>1. h \notin 1 .. n
            BY <1>3, <3>1, <5>4, <5>5
          <6> QED
            BY <4>2, <6>1
        <5> QED
          BY <5>3, <5>4, <5>5
      <4>3. i \in 1 .. n \/ i = n + 1
        BY <1>2
      <4> QED
        BY <4>1, <4>2, <4>3
    <3> QED
      BY <1>3, <2>2, <2>5, <3>1, <3>2 DEF LinkOK
  <2> QED
    BY <2>4, <2>5
<1> QED
  BY <1>4, <1>6 DEF LinkInv

LEMMA DataKeeps ==
  ASSUME IInv, NEW l \in Links, Data(l) PROVE IInv'
<1>1. /\ recv' = [recv EXCEPT ![l] = Append(@, NoCmd)]
      /\ heap' = heap /\ msg' = msg /\ selfMsgQ' = selfMsgQ /\ ackMsgQ' = ackMsgQ
      /\ lock' = lock /\ kpc' = kpc /\ call' = call /\ sent' = sent
      /\ tpc' = tpc /\ cur' = cur /\ lpc' = lpc /\ handling' = handling
  BY DEF Data, msgqs, senders
<1>2. NoCmd \in Commands /\ ~Waits(NoCmd.cmd)
  BY DEF NoCmd, Commands, Cmds, Waits
<1>3. LinkInv' /\ recv' \in [Links -> Seq(Commands)]
  BY <1>1, <1>2, MailKeeps
<1>4. TypeOK'
  BY <1>1, <1>3 DEF IInv, TypeOK
<1>5. PlacesInv'
  <2>1. PutMsgs' = PutMsgs
    BY <1>1 DEF PutMsgs
  <2> QED
    BY <1>1, <2>1, Stays DEF IInv
<1>6. SenderInv' /\ MsgInv'
  BY <1>1, SameSenders DEF senders
<1>7. AckInv' /\ TaskInv'
  BY <1>1 DEF IInv, AckInv, TaskInv
<1> QED
  BY <1>3, <1>4, <1>5, <1>6, <1>7 DEF IInv

LEMMA LocalKeeps ==
  ASSUME IInv, NEW c \in Cores, Local(c) PROVE IInv'
<1>1. PICK m : m = cur[c]
  OBVIOUS
<1>2. PICK l : l = msg[m].to
  OBVIOUS
<1>3. PICK e : e = [cmd |-> msg[m].cmd, prm |-> m]
  OBVIOUS
<1>4. /\ tpc[c] = "local" /\ recv' = [recv EXCEPT ![l] = Append(@, e)]
      /\ tpc' = [tpc EXCEPT ![c] = IF Waits(msg[m].cmd) THEN "wait" ELSE "reply"]
      /\ heap' = heap /\ msg' = msg /\ selfMsgQ' = selfMsgQ /\ ackMsgQ' = ackMsgQ
      /\ lock' = lock /\ kpc' = kpc /\ call' = call /\ sent' = sent
      /\ cur' = cur /\ lpc' = lpc /\ handling' = handling
  BY <1>1, <1>2, <1>3 DEF Local, ToMailbox, msgqs, senders
<1>5. /\ tpc \in [Cores -> {"get", "local", "wait", "reply"}]
      /\ cur \in [Cores -> Msgs \cup {None}]
      /\ \A d \in Cores : cur[d] = None <=> tpc[d] = "get"
      /\ msg \in [Msgs -> [by : Senders \cup {None}, to : Links \cup {None}, cmd : Cmds]]
  BY DEF IInv, TypeOK
<1>6. m \in Msgs /\ m \notin heap
  <2>1. m \in Msgs
    BY <1>1, <1>4, <1>5
  <2> QED
    BY <1>1, <2>1, Apart
<1>7. l \in Links /\ CoreOf[l] = c
  BY <1>1, <1>2, <1>6, MsgQAssumption DEF IInv, MsgInv, MsgOK, TaskInv
<1>8. e \in Commands
  BY <1>3, <1>5, <1>6 DEF Commands
<1>9. /\ tpc' \in [Cores -> {"get", "local", "wait", "reply"}]
      /\ tpc'[c] = (IF Waits(msg[m].cmd) THEN "wait" ELSE "reply")
      /\ \A d \in Cores : d # c => tpc'[d] = tpc[d]
  BY <1>4, <1>5
<1>10. Waits(e.cmd) => tpc[CoreOf[l]] # "wait" /\ Given(l, e)'
  BY <1>1, <1>2, <1>3, <1>4, <1>7, <1>9 DEF Given
<1>11. \A d \in Cores : tpc[d] = "wait" => tpc'[d] = "wait"
  BY <1>4, <1>9
<1>12. LinkInv' /\ recv' \in [Links -> Seq(Commands)]
  BY <1>4, <1>7, <1>8, <1>10, <1>11, MailKeeps
<1>13. TypeOK'
  <2>1. \A d \in Cores : cur'[d] = None <=> tpc'[d] = "get"
    BY <1>4, <1>5, <1>9
  <2> QED
    BY <1>4, <1>9, <1>12, <2>1 DEF IInv, TypeOK
<1>14. PlacesInv'
  <2>1. PutMsgs' = PutMsgs
    BY <1>4 DEF PutMsgs
  <2> QED
    BY <1>4, <2>1, Stays DEF IInv
<1>15. SenderInv' /\ MsgInv'
  BY <1>4, SameSenders DEF senders
<1>16. AckInv' /\ TaskInv'
  BY <1>4 DEF IInv, AckInv, TaskInv
<1> QED
  BY <1>12, <1>13, <1>14, <1>15, <1>16 DEF IInv

LEMMA RecvKeeps ==
  ASSUME IInv, NEW l \in Links, Recv(l) PROVE IInv'
<1>1. /\ lpc[l] = "recv" /\ recv[l] # <<>>
      /\ handling' = [handling EXCEPT ![l] = Head(recv[l])]
      /\ recv' = [recv EXCEPT ![l] = Tail(@)] /\ lpc' = [lpc EXCEPT ![l] = "handle"]
      /\ heap' = heap /\ msg' = msg /\ selfMsgQ' = selfMsgQ /\ ackMsgQ' = ackMsgQ
      /\ lock' = lock /\ kpc' = kpc /\ call' = call /\ sent' = sent
      /\ tpc' = tpc /\ cur' = cur
  BY DEF Recv, msgqs, senders
<1>2. /\ recv \in [Links -> Seq(Commands)] /\ handling \in [Links -> Commands]
      /\ lpc \in [Links -> {"recv", "handle", "called"}]
  BY DEF IInv, TypeOK
<1>3. PICK n \in Nat \ {0} : n = Len(recv[l]) /\ DOMAIN recv[l] = 1 .. n
  BY <1>1, <1>2, EmptySeq, LenProperties
<1>4. /\ Head(recv[l]) \in Commands /\ Head(recv[l]) = recv[l][1]
      /\ Tail(recv[l]) \in Seq(Commands) /\ DOMAIN Tail(recv[l]) = 1 .. n - 1
      /\ \A i \in 1 .. n - 1 : Tail(recv[l])[i] = recv[l][i + 1]
  <2>1. /\ Head(recv[l]) \in Commands /\ Head(recv[l]) = recv[l][1]
        /\ Tail(recv[l]) \in Seq(Commands) /\ Len(Tail(recv[l])) = n - 1
        /\ \A i \in 1 .. Len(Tail(recv[l])) : Tail(recv[l])[i] = recv[l][i + 1]
    BY <1>1, <1>2, <1>3, HeadTailProperties
  <2> QED
    BY <2>1, LenProperties
<1>5. /\ recv' \in [Links -> Seq(Commands)] /\ handling' \in [Links -> Commands]
      /\ lpc' \in [Links -> {"recv", "handle", "called"}]
      /\ \A j \in Links : j # l => recv'[j] = recv[j] /\ handling'[j] = handling[j]
      /\ recv'[l] = Tail(recv[l]) /\ handling'[l] = recv[l][1] /\ lpc'[l] = "handle"
      /\ \A j \in Links : j # l => lpc'[j] = lpc[j]
  BY <1>1, <1>2, <1>4
<1>6. TypeOK'
  BY <1>1, <1>5 DEF IInv, TypeOK
<1>7. \A j \in Links : \A x : Given(j, x)' <=> Given(j, x)
  BY <1>1 DEF Given
<1>8. ASSUME NEW j \in Links, j # l PROVE LinkOK(j)'
  <2>1. LinkOK(j)
    BY DEF IInv, LinkInv
  <2> QED
    BY <1>1, <1>5, <1>8, <2>1 DEF LinkOK, Given
<1>9. LinkOK(l)'
  <2>1. LinkOK(l)
    BY DEF IInv, LinkInv
  <2>2. 1 \in DOMAIN recv[l] /\ \A i \in 1 .. n - 1 : i + 1 \in DOMAIN recv[l] /\ i + 1 # 1
    BY <1>3
  <2>3. Waits(handling'[l].cmd) => Given(l, handling[l])'
    BY <1>1, <1>5, <2>1, <2>2 DEF LinkOK, Given
  <2>4. ASSUME NEW i \in 1 .. n - 1, Waits(recv'[l][i].cmd)
        PROVE  /\ Given(l, recv[l][i])' /\ ~Waits(handling'[l].cmd)
               /\ \A h \in 1 .. n - 1 : Waits(recv'[l][h].cmd) => i = h
    <3>1. recv'[l][i] = recv[l][i + 1] /\ i + 1 \in DOMAIN recv[l] /\ i + 1 # 1
      BY <1>4, <1>5, <2>2
    <3>2. /\ Given(l, recv[l][i + 1])
          /\ \A h \in DOMAIN recv[l] : Waits(recv[l][h].cmd) => i + 1 = h
      BY <2>1, <2>4, <3>1 DEF LinkOK
    <3>3. ~Waits(handling'[l].cmd)
      BY <1>5, <2>2, <3>1, <3>2
    <3>4. ASSUME NEW h \in 1 .. n - 1, Waits(recv'[l][h].cmd) PROVE i = h
      <4>1. recv'[l][h] = recv[l][h + 1] /\ h + 1 \in DOMAIN recv[l]
        BY <1>4, <1>5, <2>2
      <4>2. i + 1 = h + 1
        BY <3>2, <3>4, <4>1
      <4> QED
        BY <4>2
    <3>5. Given(l, recv[l][i])'
      BY <1>1, <3>1, <3>2 DEF Given
    <3> QED
      BY <3>3, <3>4, <3>5
  <2> QED
    BY <1>4, <1>5, <2>3, <2>4 DEF LinkOK
<1>10. PlacesInv'
  <2>1. PutMsgs' = PutMsgs
    BY <1>1 DEF PutMsgs
  <2> QED
    BY <1>1, <2>1, Stays DEF IInv
<1>11. SenderInv' /\ MsgInv'
  BY <1>1, SameSenders DEF senders
<1>12. AckInv' /\ TaskInv'
  BY <1>1 DEF IInv, AckInv, TaskInv
<1> QED
  BY <1>6, <1>8, <1>9, <1>10, <1>11, <1>12 DEF IInv, LinkInv

LEMMA FinishKeeps ==
  ASSUME IInv, NEW l \in Links, Finish(l) PROVE IInv'
<1>1. /\ lpc' = [lpc EXCEPT ![l] = "recv"] /\ handling' = [handling EXCEPT ![l] = NoCmd]
      /\ tpc' = IF Waits(handling[l].cmd) THEN [tpc EXCEPT ![CoreOf[l]] = "reply"] ELSE tpc
      /\ heap' = heap /\ msg' = msg /\ selfMsgQ' = selfMsgQ /\ ackMsgQ' = ackMsgQ
      /\ lock' = lock /\ kpc' = kpc /\ call' = call /\ sent' = sent
      /\ cur' = cur /\ recv' = recv
  BY DEF Finish, msgqs, senders
<1>2. /\ handling \in [Links -> Commands] /\ lpc \in [Links -> {"recv", "handle", "called"}]
      /\ tpc \in [Cores -> {"get", "local", "wait", "reply"}]
      /\ \A d \in Cores : cur[d] = None <=> tpc[d] = "get"
  BY DEF IInv, TypeOK
<1>3. NoCmd \in Commands /\ ~Waits(NoCmd.cmd)
  BY DEF NoCmd, Commands, Cmds, Waits
<1>4. /\ CoreOf[l] \in Cores /\ \A j \in Links : CoreOf[j] \in Cores
      /\ \A j \in Links : LinkOK(j)
  BY MsgQAssumption DEF IInv, LinkInv, Senders
<1>5. Waits(handling[l].cmd) => Given(l, handling[l])
  BY <1>4 DEF LinkOK
<1>6. /\ tpc' \in [Cores -> {"get", "local", "wait", "reply"}]
      /\ \A d \in Cores : tpc'[d] = IF Waits(handling[l].cmd) /\ d = CoreOf[l]
                                    THEN "reply" ELSE tpc[d]
      /\ handling' \in [Links -> Commands] /\ lpc' \in [Links -> {"recv", "handle", "called"}]
      /\ handling'[l] = NoCmd /\ \A j \in Links : j # l => /\ handling'[j] = handling[j]
                                                          /\ lpc'[j] = lpc[j]
  BY <1>1, <1>2, <1>3, <1>4
<1>7. TypeOK'
  <2>1. \A d \in Cores : cur'[d] = None <=> tpc'[d] = "get"
    BY <1>1, <1>2, <1>5, <1>6 DEF Given
  <2> QED
    BY <1>1, <1>6, <2>1 DEF IInv, TypeOK
<1>8. ASSUME NEW j \in Links, j # l, NEW x, Given(j, x)
      PROVE  tpc'[CoreOf[j]] = "wait" /\ cur'[CoreOf[j]] = x.prm
             /\ msg'[x.prm].to = j /\ msg'[x.prm].cmd = x.cmd
  <2>1. ~(Waits(handling[l].cmd) /\ CoreOf[j] = CoreOf[l])
    BY <1>5, <1>8 DEF Given
  <2> QED
    BY <1>1, <1>4, <1>6, <1>8, <2>1 DEF Given
<1>9. ASSUME NEW j \in Links, j # l PROVE LinkOK(j)'
  <2>1. LinkOK(j)
    BY <1>4
  <2>2. Waits(handling'[j].cmd) => Given(j, handling[j])'
    BY <1>6, <1>8, <1>9, <2>1 DEF LinkOK, Given
  <2>3. ASSUME NEW i \in DOMAIN recv[j], Waits(recv[j][i].cmd) PROVE Given(j, recv[j][i])'
    <3>1. Given(j, recv[j][i])
      BY <2>1, <2>3 DEF LinkOK
    <3> QED
      BY <1>1, <1>8, <1>9, <3>1 DEF Given
  <2> QED
    BY <1>1, <1>6, <1>9, <2>1, <2>2, <2>3 DEF LinkOK
<1>10. LinkOK(l)'
  <2>1. ASSUME NEW i \in DOMAIN recv[l], Waits(recv[l][i].cmd)
        PROVE  /\ Given(l, recv[l][i])'
               /\ \A h \in DOMAIN recv[l] : Waits(recv[l][h].cmd) => i = h
    <3>1. /\ Given(l, recv[l][i]) /\ ~Waits(handling[l].cmd)
          /\ \A h \in DOMAIN recv[l] : Waits(recv[l][h].cmd) => i = h
      BY <1>4, <2>1 DEF LinkOK
    <3>2. tpc' = tpc
      BY <1>1, <3>1
    <3> QED
      BY <1>1, <3>1, <3>2 DEF Given
  <2> QED
    BY <1>1, <1>3, <1>6, <2>1 DEF LinkOK
<1>11. PlacesInv'
  <2>1. PutMsgs' = PutMsgs
    BY <1>1 DEF PutMsgs
  <2> QED
    BY <1>1, <2>1, Stays DEF IInv
<1>12. SenderInv' /\ MsgInv'
  BY <1>1, SameSenders DEF senders
<1>13. AckInv' /\ TaskInv'
  BY <1>1 DEF IInv, AckInv, TaskInv
<1> QED
  BY <1>7, <1>9, <1>10, <1>11, <1>12, <1>13 DEF IInv, LinkInv

(* The message task goes on to the next message.                            *)
LEMMA ReplyKeeps ==
  ASSUME IInv, NEW c \in Cores, Reply(c) PROVE IInv'
<1>1. PICK m : m = cur[c]
  OBVIOUS
<1>2. /\ tpc[c] = "reply" /\ cur' = [cur EXCEPT ![c] = None] /\ tpc' = [tpc EXCEPT ![c] = "get"]
      /\ selfMsgQ' = selfMsgQ /\ lock' = lock /\ kpc' = kpc /\ call' = call /\ sent' = sent
      /\ recv' = recv /\ lpc' = lpc /\ handling' = handling
  BY DEF Reply, Answered, senders, links
<1>3. /\ tpc \in [Cores -> {"get", "local", "wait", "reply"}]
      /\ cur \in [Cores -> Msgs \cup {None}] /\ None \notin Msgs
      /\ \A d \in Cores : cur[d] = None <=> tpc[d] = "get"
      /\ ackMsgQ \in [Cores -> Seq(Msgs)] /\ selfMsgQ \in [Cores -> Seq(Msgs)]
      /\ \A d \in Cores : IsInjective(selfMsgQ[d]) /\ IsInjective(ackMsgQ[d])
  BY MsgQAssumption DEF IInv, TypeOK, PlacesInv
<1>4. /\ cur' \in [Cores -> Msgs \cup {None}]
      /\ tpc' \in [Cores -> {"get", "local", "wait", "reply"}]
      /\ \A d \in Cores : cur'[d] = IF d = c THEN None ELSE cur[d]
      /\ \A d \in Cores : tpc'[d] = IF d = c THEN "get" ELSE tpc[d]
      /\ \A d \in Cores : cur'[d] = None <=> tpc'[d] = "get"
  BY <1>2, <1>3
<1>5. m \in Msgs /\ m \notin heap
  <2>1. m \in Msgs
    BY <1>1, <1>2, <1>3
  <2> QED
    BY <1>1, <2>1, Apart
<1>6. /\ \A d \in Cores : m \notin Range(selfMsgQ[d]) /\ m \notin Range(ackMsgQ[d])
      /\ \A d \in Cores : d # c => m # cur[d]
      /\ \A k \in Senders : kpc[k] = "put" => sent[k] # m
  BY <1>1, <1>5, Apart
<1>7. PutMsgs' = PutMsgs
  BY <1>2 DEF PutMsgs
<1>8. /\ InOnePlace(At, Msgs) /\ m \in At[<<"task", c>>] /\ <<"task", c>> \in Spots
      /\ \A y \in Msgs : y \in At'[<<"task", c>>] <=> y \in At[<<"task", c>>] /\ y # m
  <2>1. At[<<"task", c>>] = {m} /\ At'[<<"task", c>>] = {None}
    BY <1>1, <1>4, AtHolds, AtHoldsNext
  <2> QED
    BY <1>3, <2>1, AtHolds DEF IInv, PlacesInv
<1>9. CASE Waits(msg[m].cmd)
  <2>1. PICK d : d = CoreOf[msg[m].by]
    OBVIOUS
  <2>2. /\ ackMsgQ' = [ackMsgQ EXCEPT ![d] = Append(@, m)] /\ heap' = heap /\ msg' = msg
    BY <1>1, <1>9, <2>1 DEF Reply
  <2>3. d \in Cores
    BY <1>5, <2>1, MsgQAssumption DEF IInv, MsgInv, MsgOK
  <2>4. /\ Append(ackMsgQ[d], m) \in Seq(Msgs) /\ IsInjective(Append(ackMsgQ[d], m))
        /\ \A x : x \in Range(Append(ackMsgQ[d], m)) <=> x \in Range(ackMsgQ[d]) \/ x = m
    BY <1>3, <1>5, <1>6, <2>3, PutLast
  <2>5. /\ ackMsgQ' \in [Cores -> Seq(Msgs)]
        /\ \A f \in Cores : ackMsgQ'[f] = IF f = d THEN Append(ackMsgQ[d], m) ELSE ackMsgQ[f]
    BY <1>3, <2>2, <2>3, <2>4
  <2>6. TypeOK'
    BY <1>2, <1>4, <2>2, <2>5 DEF IInv, TypeOK
  <2>7. PlacesInv'
    <3>1. <<"task", c>> # <<"ack", d>> /\ <<"ack", d>> \in Spots
      BY <2>3, AtHolds
    <3>2. \A y \in Msgs : y \in At'[<<"ack", d>>] <=> y \in At[<<"ack", d>>] \/ y = m
      <4>1. At'[<<"ack", d>>] = Range(ackMsgQ'[d]) /\ At[<<"ack", d>>] = Range(ackMsgQ[d])
        BY <2>3, AtHolds, AtHoldsNext
      <4>2. Range(ackMsgQ'[d]) = Range(Append(ackMsgQ[d], m))
        BY <2>3, <2>5
      <4> QED
        BY <2>4, <4>1, <4>2
    <3>3. /\ \A f \in Cores : <<"ack", f>> \notin {<<"task", c>>, <<"ack", d>>} =>
                                ackMsgQ'[f] = ackMsgQ[f]
          /\ \A f \in Cores : <<"task", f>> \notin {<<"task", c>>, <<"ack", d>>} =>
                                cur'[f] = cur[f]
      BY <1>4, <2>5
    <3>4. InOnePlace(At', Msgs)
      BY <1>2, <1>5, <1>7, <1>8, <2>2, <3>1, <3>2, <3>3, Moves
    <3>5. \A f \in Cores : IsInjective(selfMsgQ'[f]) /\ IsInjective(ackMsgQ'[f])
      BY <1>2, <1>3, <2>4, <2>5
    <3> QED
      BY <3>4, <3>5 DEF PlacesInv, InOnePlace
  <2>8. SenderInv' /\ MsgInv'
    BY <1>2, <2>2, SameSenders DEF senders
  <2>9. AckInv'
    <3>1. ASSUME NEW f \in Cores, NEW x \in Range(ackMsgQ'[f])
          PROVE  Waits(msg[x].cmd) /\ CoreOf[msg[x].by] = f
      <4>1. x \in Range(ackMsgQ[f]) \/ (x = m /\ f = d)
        BY <2>4, <2>5
      <4>2. x \in Range(ackMsgQ[f]) => Waits(msg[x].cmd) /\ CoreOf[msg[x].by] = f
        BY DEF IInv, AckInv
      <4> QED
        BY <1>9, <2>1, <4>1, <4>2
    <3> QED
      BY <2>2, <3>1 DEF AckInv
  <2>10. TaskInv'
    BY <1>2, <1>4, <2>2 DEF IInv, TaskInv
  <2>11. LinkInv'
    <3>1. ASSUME NEW f \in Cores, tpc[f] = "wait"
          PROVE  tpc'[f] = "wait" /\ cur'[f] = cur[f] /\ msg'[cur[f]] = msg[cur[f]]
      BY <1>2, <1>4, <2>2, <3>1
    <3> QED
      BY <1>2, <3>1, SameLinks DEF IInv
  <2> QED
    BY <2>6, <2>7, <2>8, <2>9, <2>10, <2>11 DEF IInv
<1>10. CASE ~Waits(msg[m].cmd)
  <2>1. Free(m) /\ ackMsgQ' = ackMsgQ
    BY <1>1, <1>10 DEF Reply
  <2>2. /\ heap' = heap \cup {m} /\ heap' \subseteq Msgs
        /\ msg' \in [Msgs -> [by : Senders \cup {None}, to : Links \cup {None}, cmd : Cmds]]
        /\ \A x \in Msgs : msg'[x] = IF x = m THEN Freed ELSE msg[x]
    BY <1>5, <2>1, FreeTypes DEF IInv
  <2>3. TypeOK'
    BY <1>2, <1>4, <2>1, <2>2 DEF IInv, TypeOK
  <2>4. PlacesInv'
    <3>1. <<"task", c>> # <<"heap", None>> /\ <<"heap", None>> \in Spots
      BY AtHolds
    <3>2. \A y \in Msgs : y \in At'[<<"heap", None>>] <=> y \in At[<<"heap", None>>] \/ y = m
      BY <2>2, AtHolds, AtHoldsNext
    <3>3. \A f \in Cores : <<"task", f>> \notin {<<"task", c>>, <<"heap", None>>} =>
                             cur'[f] = cur[f]
      BY <1>4
    <3>4. InOnePlace(At', Msgs)
      BY <1>2, <1>5, <1>7, <1>8, <2>1, <3>1, <3>2, <3>3, Moves
    <3>5. \A f \in Cores : IsInjective(selfMsgQ'[f]) /\ IsInjective(ackMsgQ'[f])
      BY <1>2, <1>3, <2>1
    <3> QED
      BY <3>4, <3>5 DEF PlacesInv, InOnePlace
  <2>5. ASSUME NEW j \in Senders, kpc[j] \in {"put", "ack"}
        PROVE  sent[j] \in Msgs /\ sent[j] # m
    <3>1. sent[j] \in Msgs /\ msg[sent[j]] = [by |-> j, to |-> call[j].to, cmd |-> call[j].cmd]
      BY <2>5, OwnMsg
    <3>2. kpc[j] = "ack" => Waits(call[j].cmd)
      BY DEF IInv, SenderInv, SenderOK
    <3> QED
      BY <1>6, <1>10, <2>5, <3>1, <3>2
  <2>6. SenderInv'
    <3>1. ASSUME NEW j \in Senders PROVE SenderOK(j)'
      <4>1. kpc[j] \in {"put", "ack"} => msg'[sent[j]] = msg[sent[j]]
        BY <2>2, <2>5
      <4> QED
        BY <1>2, <4>1, SameSender DEF IInv
    <3> QED
      BY <3>1 DEF SenderInv
  <2>7. MsgInv'
    <3>1. MsgOK(m)'
      BY <1>5, <2>2 DEF MsgOK
    <3>2. ASSUME NEW x \in Msgs, x # m PROVE MsgOK(x)'
      <4>1. MsgOK(x)
        BY DEF IInv, MsgInv
      <4> QED
        BY <1>2, <2>2, <3>2, <4>1 DEF MsgOK
    <3> QED
      BY <3>1, <3>2 DEF MsgInv
  <2>8. AckInv' /\ TaskInv'
    <3>1. ASSUME NEW f \in Cores
          PROVE  /\ \A x \in Range(selfMsgQ[f]) : msg'[x] = msg[x]
                 /\ \A x \in Range(ackMsgQ[f]) : msg'[x] = msg[x]
                 /\ cur'[f] # None => cur'[f] = cur[f] /\ msg'[cur[f]] = msg[cur[f]]
      <4>1. Range(selfMsgQ[f]) \subseteq Msgs /\ Range(ackMsgQ[f]) \subseteq Msgs
        BY <1>3, ListEmpty
      <4> QED
        BY <1>3, <1>4, <1>6, <2>2, <4>1
    <3> QED
      BY <1>2, <2>1, <3>1 DEF IInv, AckInv, TaskInv
  <2>9. LinkInv'
    <3>1. ASSUME NEW f \in Cores, tpc[f] = "wait"
          PROVE  tpc'[f] = "wait" /\ cur'[f] = cur[f] /\ msg'[cur[f]] = msg[cur[f]]
      BY <1>2, <1>3, <1>4, <1>6, <2>2, <3>1
    <3> QED
      BY <1>2, <3>1, SameLinks DEF IInv
  <2> QED
    BY <2>3, <2>4, <2>6, <2>7, <2>8, <2>9 DEF IInv
<1> QED
  BY <1>9, <1>10

(* The acknowledge cannot be sent: the message is freed, and its sender     *)
(* keeps waiting with the lock.                                             *)
LEMMA ReplyFailsKeeps ==
  ASSUME IInv, NEW c \in Cores, ReplyFails(c) PROVE IInv'
<1>1. PICK m : m = cur[c]
  OBVIOUS
<1>2. PICK k : k = msg[m].by
  OBVIOUS
<1>3. /\ tpc[c] = "reply" /\ cur' = [cur EXCEPT ![c] = None] /\ tpc' = [tpc EXCEPT ![c] = "get"]
      /\ Waits(msg[m].cmd) /\ Free(m) /\ kpc' = [kpc EXCEPT ![k] = "lost"]
      /\ selfMsgQ' = selfMsgQ /\ ackMsgQ' = ackMsgQ /\ lock' = lock
      /\ call' = call /\ sent' = sent
      /\ recv' = recv /\ lpc' = lpc /\ handling' = handling
  BY <1>1, <1>2 DEF ReplyFails, Answered, links
<1>4. /\ tpc \in [Cores -> {"get", "local", "wait", "reply"}]
      /\ cur \in [Cores -> Msgs \cup {None}] /\ None \notin Msgs
      /\ \A d \in Cores : cur[d] = None <=> tpc[d] = "get"
      /\ ackMsgQ \in [Cores -> Seq(Msgs)] /\ selfMsgQ \in [Cores -> Seq(Msgs)]
      /\ \A d \in Cores : IsInjective(selfMsgQ[d]) /\ IsInjective(ackMsgQ[d])
      /\ kpc \in [Senders -> {"idle", "lock", "put", "ack", "lost", "assert"}]
  BY MsgQAssumption DEF IInv, TypeOK, PlacesInv
<1>5. /\ cur' \in [Cores -> Msgs \cup {None}]
      /\ tpc' \in [Cores -> {"get", "local", "wait", "reply"}]
      /\ \A d \in Cores : cur'[d] = IF d = c THEN None ELSE cur[d]
      /\ \A d \in Cores : tpc'[d] = IF d = c THEN "get" ELSE tpc[d]
      /\ \A d \in Cores : cur'[d] = None <=> tpc'[d] = "get"
  BY <1>3, <1>4
<1>6. m \in Msgs /\ m \notin heap
  <2>1. m \in Msgs
    BY <1>1, <1>3, <1>4
  <2> QED
    BY <1>1, <2>1, Apart
<1>7. /\ \A d \in Cores : m \notin Range(selfMsgQ[d]) /\ m \notin Range(ackMsgQ[d])
      /\ \A d \in Cores : d # c => m # cur[d]
      /\ \A j \in Senders : kpc[j] = "put" => sent[j] # m
  BY <1>1, <1>6, Apart
<1>8. k \in Senders /\ kpc[k] = "ack" /\ sent[k] = m
  <2>1. MsgOK(m)
    BY <1>6 DEF IInv, MsgInv
  <2> QED
    BY <1>2, <1>3, <1>6, <1>7, <2>1 DEF MsgOK
<1>9. \A j \in Senders : kpc'[j] = IF j = k THEN "lost" ELSE kpc[j]
  BY <1>3, <1>4
<1>10. /\ heap' = heap \cup {m} /\ heap' \subseteq Msgs
       /\ msg' \in [Msgs -> [by : Senders \cup {None}, to : Links \cup {None}, cmd : Cmds]]
       /\ \A x \in Msgs : msg'[x] = IF x = m THEN Freed ELSE msg[x]
  BY <1>3, <1>6, FreeTypes DEF IInv
<1>11. TypeOK'
  <2>1. kpc' \in [Senders -> {"idle", "lock", "put", "ack", "lost", "assert"}]
    BY <1>3, <1>4
  <2> QED
    BY <1>3, <1>5, <1>10, <2>1 DEF IInv, TypeOK
<1>12. PlacesInv'
  <2>1. PutMsgs' = PutMsgs
    BY <1>3, <1>8, <1>9 DEF PutMsgs
  <2>2. /\ InOnePlace(At, Msgs) /\ m \in At[<<"task", c>>] /\ <<"task", c>> \in Spots
        /\ \A y \in Msgs : y \in At'[<<"task", c>>] <=> y \in At[<<"task", c>>] /\ y # m
    <3>1. At[<<"task", c>>] = {m} /\ At'[<<"task", c>>] = {None}
      BY <1>1, <1>5, AtHolds, AtHoldsNext
    <3> QED
      BY <1>4, <3>1, AtHolds DEF IInv, PlacesInv
  <2>3. <<"task", c>> # <<"heap", None>> /\ <<"heap", None>> \in Spots
    BY AtHolds
  <2>4. \A y \in Msgs : y \in At'[<<"heap", None>>] <=> y \in At[<<"heap", None>>] \/ y = m
    BY <1>10, AtHolds, AtHoldsNext
  <2>5. \A f \in Cores : <<"task", f>> \notin {<<"task", c>>, <<"heap", None>>} =>
                            cur'[f] = cur[f]
    BY <1>5
  <2>6. InOnePlace(At', Msgs)
    BY <1>3, <1>6, <2>1, <2>2, <2>3, <2>4, <2>5, Moves
  <2>7. \A f \in Cores : IsInjective(selfMsgQ'[f]) /\ IsInjective(ackMsgQ'[f])
    BY <1>3, <1>4
  <2> QED
    BY <2>6, <2>7 DEF PlacesInv, InOnePlace
<1>13. SenderInv'
  <2>1. SenderOK(k)'
    <3>1. SenderOK(k)
      BY <1>8 DEF IInv, SenderInv
    <3> QED
      BY <1>3, <1>8, <1>9, <3>1 DEF SenderOK
  <2>2. ASSUME NEW j \in Senders, j # k PROVE SenderOK(j)'
    <3>1. ASSUME kpc[j] \in {"put", "ack"} PROVE sent[j] \in Msgs /\ sent[j] # m
      BY <1>8, <2>2, <3>1, OwnMsg
    <3>2. kpc[j] \in {"put", "ack"} => msg'[sent[j]] = msg[sent[j]]
      BY <1>10, <3>1
    <3> QED
      BY <1>3, <1>9, <2>2, <3>2, SameSender DEF IInv
  <2> QED
    BY <2>1, <2>2 DEF SenderInv
<1>14. MsgInv'
  <2>1. MsgOK(m)'
    BY <1>6, <1>10 DEF MsgOK
  <2>2. ASSUME NEW x \in Msgs, x # m PROVE MsgOK(x)'
    <3>1. MsgOK(x)
      BY DEF IInv, MsgInv
    <3>2. x \notin heap /\ Waits(msg[x].cmd) => msg[x].by # k
      BY <1>8, <2>2, OwnMsg
    <3> QED
      BY <1>3, <1>9, <1>10, <2>2, <3>1, <3>2 DEF MsgOK
  <2> QED
    BY <2>1, <2>2 DEF MsgInv
<1>15. AckInv' /\ TaskInv'
  <2>1. ASSUME NEW f \in Cores
        PROVE  /\ \A x \in Range(selfMsgQ[f]) : msg'[x] = msg[x]
               /\ \A x \in Range(ackMsgQ[f]) : msg'[x] = msg[x]
               /\ cur'[f] # None => cur'[f] = cur[f] /\ msg'[cur[f]] = msg[cur[f]]
    <3>1. Range(selfMsgQ[f]) \subseteq Msgs /\ Range(ackMsgQ[f]) \subseteq Msgs
      BY <1>4, ListEmpty
    <3> QED
      BY <1>4, <1>5, <1>7, <1>10, <3>1
  <2> QED
    BY <1>3, <2>1 DEF IInv, AckInv, TaskInv
<1>16. LinkInv'
  <2>1. ASSUME NEW f \in Cores, tpc[f] = "wait"
        PROVE  tpc'[f] = "wait" /\ cur'[f] = cur[f] /\ msg'[cur[f]] = msg[cur[f]]
    BY <1>3, <1>4, <1>5, <1>7, <1>10, <2>1
  <2> QED
    BY <1>3, <2>1, SameLinks DEF IInv
<1> QED
  BY <1>11, <1>12, <1>13, <1>14, <1>15, <1>16 DEF IInv

LEMMA InitKeeps == Init => IInv
<1> SUFFICES ASSUME Init PROVE IInv
  OBVIOUS
<1>1. /\ heap = Msgs /\ msg = [m \in Msgs |-> Freed]
      /\ selfMsgQ = [c \in Cores |-> <<>>] /\ ackMsgQ = [c \in Cores |-> <<>>]
      /\ lock = [c \in Cores |-> None] /\ kpc = [k \in Senders |-> "idle"]
      /\ call = [k \in Senders |-> NoCall] /\ sent = [k \in Senders |-> None]
      /\ tpc = [c \in Cores |-> "get"] /\ cur = [c \in Cores |-> None]
      /\ recv = [l \in Links |-> <<>>]
      /\ lpc = [l \in Links |-> "recv"] /\ handling = [l \in Links |-> NoCmd]
  BY DEF Init
<1>2. /\ None \notin Msgs /\ None \notin Senders
      /\ \A k \in Senders : CoreOf[k] \in Cores
  BY MsgQAssumption
<1>3. TypeOK
  <2>1. /\ Freed \in [by : Senders \cup {None}, to : Links \cup {None}, cmd : Cmds]
        /\ NoCmd \in Commands
    BY DEF Freed, NoCmd, Commands, Cmds
  <2>2. <<>> \in Seq(Msgs) /\ <<>> \in Seq(Commands)
    BY ShortLists
  <2> QED
    BY <1>1, <2>1, <2>2 DEF TypeOK
<1>4. PlacesInv
  <2>1. \A m \in Msgs, p \in Spots : m \in At[p] <=> p = <<"heap", None>>
    <3>1. SUFFICES ASSUME NEW m \in Msgs, NEW p \in Spots, p # <<"heap", None>>
                   PROVE  m \notin At[p]
      <4>1. \A m \in Msgs : m \in At[<<"heap", None>>]
        BY <1>1, AtHolds
      <4> QED
        BY <4>1
    <3>2. CASE \E k \in Senders : p = <<"put", k>>
      <4>1. \A k \in Senders : PutMsgs[k] = {}
        BY <1>1 DEF PutMsgs
      <4> QED
        BY <3>2, <4>1, AtHolds
    <3>3. CASE \E c \in Cores : p = <<"task", c>>
      <4>1. PICK c \in Cores : p = <<"task", c>>
        BY <3>3
      <4>2. At[p] = {None}
        BY <1>1, <4>1, AtHolds
      <4> QED
        BY <1>2, <4>2
    <3>4. CASE \E c \in Cores : p = <<"self", c>>
      <4>1. \A c \in Cores : Range(selfMsgQ[c]) = {}
        BY <1>1, ShortLists
      <4> QED
        BY <3>4, <4>1, AtHolds
    <3>5. CASE \E c \in Cores : p = <<"ack", c>>
      <4>1. \A c \in Cores : Range(ackMsgQ[c]) = {}
        BY <1>1, ShortLists
      <4> QED
        BY <3>5, <4>1, AtHolds
    <3> QED
      BY <3>1, <3>2, <3>3, <3>4, <3>5 DEF Spots
  <2>2. InOnePlace(At, Msgs)
    BY <2>1, AtHolds DEF InOnePlace
  <2> QED
    BY <1>1, <2>2, ShortLists DEF PlacesInv
<1>5. SenderInv
  BY <1>1, <1>2 DEF SenderInv, SenderOK
<1>6. MsgInv
  BY <1>1 DEF MsgInv, MsgOK
<1>7. AckInv /\ TaskInv
  BY <1>1, ShortLists DEF AckInv, TaskInv
<1>8. LinkInv
  <2>1. DOMAIN <<>> = {} /\ ~Waits(NoCmd.cmd)
    BY DEF NoCmd, Waits
  <2> QED
    BY <1>1, <2>1 DEF LinkInv, LinkOK
<1> QED
  BY <1>3, <1>4, <1>5, <1>6, <1>7, <1>8 DEF IInv

LEMMA StutterKeeps == IInv /\ UNCHANGED vars => IInv'
<1> SUFFICES ASSUME IInv, UNCHANGED vars PROVE IInv'
  OBVIOUS
<1>1. /\ heap' = heap /\ msg' = msg /\ selfMsgQ' = selfMsgQ /\ ackMsgQ' = ackMsgQ
      /\ lock' = lock /\ kpc' = kpc /\ call' = call /\ sent' = sent
      /\ tpc' = tpc /\ cur' = cur /\ recv' = recv /\ lpc' = lpc /\ handling' = handling
  BY DEF vars, msgqs, senders, links
<1>2. PutMsgs' = PutMsgs
  BY <1>1 DEF PutMsgs
<1>3. TypeOK' /\ AckInv' /\ TaskInv'
  BY <1>1 DEF IInv, TypeOK, AckInv, TaskInv
<1>4. PlacesInv' /\ SenderInv' /\ MsgInv' /\ LinkInv'
  BY <1>1, <1>2, Stays, SameSenders, SameLinks DEF IInv, senders
<1> QED
  BY <1>3, <1>4 DEF IInv

LEMMA NextKeeps == IInv /\ [Next]_vars => IInv'
<1> SUFFICES ASSUME IInv, [Next]_vars PROVE IInv'
  OBVIOUS
<1>1. CASE \E a \in Apps : Call(a)
  BY <1>1, CallKeeps
<1>2. CASE \E k \in Senders : Alloc(k) \/ Send(k)
  BY <1>2, AllocKeeps, PutKeeps, PutFailsKeeps, GetAckKeeps DEF Send
<1>3. CASE \E c \in Cores : MsgQTask(c)
  BY <1>3, GetKeeps, LocalKeeps, ReplyKeeps, ReplyFailsKeeps DEF MsgQTask
<1>4. CASE \E l \in Links : Data(l) \/ Recv(l) \/ CallOut(l) \/ Finish(l)
  BY <1>4, DataKeeps, RecvKeeps, CallOutKeeps, FinishKeeps
<1> QED
  BY <1>1, <1>2, <1>3, <1>4, StutterKeeps DEF Next

LEMMA InvAlways == Spec => []IInv
  BY InitKeeps, NextKeeps, PTL DEF Spec

-----------------------------------------------------------------------------
(* What the model promises.                                                 *)

(* A message in a queue is there at one position.                           *)
LEMMA OnePosition ==
  ASSUME NEW s \in Seq(Msgs), IsInjective(s), NEW m, m \in Range(s)
  PROVE  \E i \in DOMAIN s : \A j \in DOMAIN s : s[j] = m <=> j = i
<1>1. PICK i \in DOMAIN s : s[i] = m
  BY DEF Range
<1>2. \A j \in DOMAIN s : s[j] = m => j = i
  BY <1>1 DEF IsInjective
<1> QED
  BY <1>1, <1>2

(* The places of a message, one by one.                                     *)
LEMMA InPlaces ==
  ASSUME NEW m
  PROVE  /\ \A y : y \in InHeap(m) <=> m \in heap /\ y = <<"heap", 0, 0>>
         /\ \A y : y \in AtSenders(m) <=>
              \E k \in Senders : kpc[k] = "put" /\ sent[k] = m /\ y = <<"put", k, 0>>
         /\ \A y : y \in AtTasks(m) <=>
              \E c \in Cores : cur[c] = m /\ y = <<"task", c, 0>>
  BY DEF InHeap, AtSenders, AtTasks

LEMMA InQueue ==
  ASSUME NEW name, NEW q, NEW m
  PROVE  \A y : y \in InQueues(name, q, m) <=>
           \E c \in Cores : \E i \in DOMAIN q[c] : q[c][i] = m /\ y = <<name, c, i>>
  BY DEF InQueues

(* A message of the shared heap is in one place, whatever fails.            *)
LEMMA OneOwnerHolds == IInv => OneOwner
<1> SUFFICES ASSUME IInv, NEW m \in Msgs PROVE Cardinality(Places(m)) = 1
  BY DEF OneOwner
<1> DEFINE H == InHeap(m)
           P == AtSenders(m)
           T == AtTasks(m)
           S == InQueues("self", selfMsgQ, m)
           A == InQueues("ack", ackMsgQ, m)
<1>1. Places(m) = H \cup P \cup T \cup S \cup A
  BY DEF Places
<1>2. /\ \A c \in Cores : selfMsgQ[c] \in Seq(Msgs) /\ ackMsgQ[c] \in Seq(Msgs)
      /\ \A c \in Cores : IsInjective(selfMsgQ[c]) /\ IsInjective(ackMsgQ[c])
  BY DEF IInv, TypeOK, PlacesInv
<1>3. PICK p \in Spots : \A q \in Spots : m \in At[q] <=> q = p
  BY AtHolds DEF IInv, PlacesInv, InOnePlace
<1>4. m \in heap <=> p = <<"heap", None>>
  BY <1>3, AtHolds
<1>5. ASSUME NEW k \in Senders
      PROVE  kpc[k] = "put" /\ sent[k] = m <=> p = <<"put", k>>
  <2>1. m \in PutMsgs[k] <=> p = <<"put", k>>
    BY <1>3, AtHolds
  <2> QED
    BY <2>1 DEF PutMsgs
<1>6. ASSUME NEW c \in Cores
      PROVE  /\ cur[c] = m <=> p = <<"task", c>>
             /\ p # <<"self", c>> => \A i \in DOMAIN selfMsgQ[c] : selfMsgQ[c][i] # m
             /\ p # <<"ack", c>> => \A i \in DOMAIN ackMsgQ[c] : ackMsgQ[c][i] # m
             /\ p = <<"self", c>> => m \in Range(selfMsgQ[c])
             /\ p = <<"ack", c>> => m \in Range(ackMsgQ[c])
  <2>1. m \in {cur[c]} <=> p = <<"task", c>>
    BY <1>3, AtHolds
  <2>2. m \in Range(selfMsgQ[c]) <=> p = <<"self", c>>
    BY <1>3, AtHolds
  <2>3. m \in Range(ackMsgQ[c]) <=> p = <<"ack", c>>
    BY <1>3, AtHolds
  <2> QED
    BY <2>1, <2>2, <2>3 DEF Range
<1>7. /\ p # <<"heap", None>> => H = {}
      /\ p = <<"heap", None>> => H = {<<"heap", 0, 0>>}
  BY <1>4, InPlaces
<1>8. (\A k \in Senders : p # <<"put", k>>) => P = {}
  BY <1>5, InPlaces
<1>9. (\A c \in Cores : p # <<"task", c>>) => T = {}
  BY <1>6, InPlaces
<1>10. (\A c \in Cores : p # <<"self", c>>) => S = {}
  <2>1. \A y : y \in S <=> \E c \in Cores : \E i \in DOMAIN selfMsgQ[c] :
                             selfMsgQ[c][i] = m /\ y = <<"self", c, i>>
    BY InQueue
  <2> QED
    BY <1>6, <2>1
<1>11. (\A c \in Cores : p # <<"ack", c>>) => A = {}
  <2>1. \A y : y \in A <=> \E c \in Cores : \E i \in DOMAIN ackMsgQ[c] :
                             ackMsgQ[c][i] = m /\ y = <<"ack", c, i>>
    BY InQueue
  <2> QED
    BY <1>6, <2>1
<1>12. ASSUME NEW k \in Senders, p = <<"put", k>> PROVE P = {<<"put", k, 0>>}
  <2>1. \A j \in Senders : kpc[j] = "put" /\ sent[j] = m <=> j = k
    BY <1>5, <1>12
  <2> QED
    BY <2>1, InPlaces
<1>13. ASSUME NEW c \in Cores, p = <<"task", c>> PROVE T = {<<"task", c, 0>>}
  <2>1. \A d \in Cores : cur[d] = m <=> d = c
    BY <1>6, <1>13
  <2> QED
    BY <2>1, InPlaces
<1>14. ASSUME NEW c \in Cores, p = <<"self", c>> PROVE \E i : S = {<<"self", c, i>>}
  <2>0. selfMsgQ[c] \in Seq(Msgs) /\ IsInjective(selfMsgQ[c]) /\ m \in Range(selfMsgQ[c])
    BY <1>2, <1>6, <1>14
  <2>1. PICK i \in DOMAIN selfMsgQ[c] : \A j \in DOMAIN selfMsgQ[c] : selfMsgQ[c][j] = m <=> j = i
    BY <2>0, OnePosition
  <2>2. \A d \in Cores : d # c => \A j \in DOMAIN selfMsgQ[d] : selfMsgQ[d][j] # m
    BY <1>6, <1>14
  <2>3. \A y : y \in S <=> \E d \in Cores : \E j \in DOMAIN selfMsgQ[d] :
                             selfMsgQ[d][j] = m /\ y = <<"self", d, j>>
    BY InQueue
  <2>4. \A y : y \in S <=> y = <<"self", c, i>>
    BY <2>1, <2>2, <2>3
  <2> HIDE DEF S
  <2>5. S = {<<"self", c, i>>}
    BY <2>4
  <2> QED
    BY <2>5
<1>15. ASSUME NEW c \in Cores, p = <<"ack", c>> PROVE \E i : A = {<<"ack", c, i>>}
  <2>0. ackMsgQ[c] \in Seq(Msgs) /\ IsInjective(ackMsgQ[c]) /\ m \in Range(ackMsgQ[c])
    BY <1>2, <1>6, <1>15
  <2>1. PICK i \in DOMAIN ackMsgQ[c] : \A j \in DOMAIN ackMsgQ[c] : ackMsgQ[c][j] = m <=> j = i
    BY <2>0, OnePosition
  <2>2. \A d \in Cores : d # c => \A j \in DOMAIN ackMsgQ[d] : ackMsgQ[d][j] # m
    BY <1>6, <1>15
  <2>3. \A y : y \in A <=> \E d \in Cores : \E j \in DOMAIN ackMsgQ[d] :
                             ackMsgQ[d][j] = m /\ y = <<"ack", d, j>>
    BY InQueue
  <2>4. \A y : y \in A <=> y = <<"ack", c, i>>
    BY <2>1, <2>2, <2>3
  <2> HIDE DEF A
  <2>5. A = {<<"ack", c, i>>}
    BY <2>4
  <2> QED
    BY <2>5
<1> HIDE DEF H, P, T, S, A
<1>16. \E x : Places(m) = {x}
  <2>1. CASE p = <<"heap", None>>
    <3>1. H = {<<"heap", 0, 0>>} /\ P = {} /\ T = {} /\ S = {} /\ A = {}
      BY <1>7, <1>8, <1>9, <1>10, <1>11, <2>1
    <3> QED
      BY <1>1, <3>1
  <2>2. CASE \E k \in Senders : p = <<"put", k>>
    <3>1. H = {} /\ T = {} /\ S = {} /\ A = {}
      BY <1>7, <1>9, <1>10, <1>11, <2>2
    <3>2. \E x : P = {x}
      BY <1>12, <2>2
    <3> QED
      BY <1>1, <3>1, <3>2
  <2>3. CASE \E c \in Cores : p = <<"task", c>>
    <3>1. H = {} /\ P = {} /\ S = {} /\ A = {}
      BY <1>7, <1>8, <1>10, <1>11, <2>3
    <3>2. \E x : T = {x}
      BY <1>13, <2>3
    <3> QED
      BY <1>1, <3>1, <3>2
  <2>4. CASE \E c \in Cores : p = <<"self", c>>
    <3>1. H = {} /\ P = {} /\ T = {} /\ A = {}
      BY <1>7, <1>8, <1>9, <1>11, <2>4
    <3>2. \E x : S = {x}
      BY <1>14, <2>4
    <3> QED
      BY <1>1, <3>1, <3>2
  <2>5. CASE \E c \in Cores : p = <<"ack", c>>
    <3>1. H = {} /\ P = {} /\ T = {} /\ S = {}
      BY <1>7, <1>8, <1>9, <1>10, <2>5
    <3>2. \E x : A = {x}
      BY <1>15, <2>5
    <3> QED
      BY <1>1, <3>1, <3>2
  <2> QED
    BY <2>1, <2>2, <2>3, <2>4, <2>5 DEF Spots
<1> QED
  BY <1>16, FS_Singleton

(* The state is well typed and every message of the heap that the cores     *)
(* share has one owner at a time: MessageQ_alloc, MessageQ_put and its      *)
(* failure, MessageQ_get on either side and MessageQ_free lose none and     *)
(* free none twice.                                                         *)
THEOREM MessagesAlwaysOK == Spec => []MessagesOK
<1>1. IInv => MessagesOK
  BY OneOwnerHolds DEF IInv, MessagesOK
<1> QED
  BY <1>1, InvAlways, PTL

(* The acknowledge that System_ipcMsgQSendMsg takes is that of its own      *)
(* command, though pAckMsg is not compared with pMsgCommon.                 *)
THEOREM AckAlwaysOwn == Spec => []AckIsOwn
<1>1. IInv => AckIsOwn
  BY HeadIsOwn DEF AckIsOwn
<1> QED
  BY <1>1, InvAlways, PTL

-----------------------------------------------------------------------------
(* Commands with parameters whose sender waits.                             *)

\* EVENT, the one command with parameters that its sender does not wait for,
\* is not sent to another core.
NoEvents ==
  /\ \A a \in Apps : \A c \in Sends[a] : c.cmd # "EVENT"
  /\ \A l \in Links, cmd \in Cmds : \A c \in Handles[l][cmd] : c.cmd # "EVENT"

EventsInv ==
  /\ \A k \in Senders : call[k].cmd # "EVENT"
  /\ \A m \in Msgs : msg[m].cmd # "EVENT"
  /\ \A l \in Links : handling[l].cmd # "EVENT"
  /\ \A l \in Links : \A e \in Range(recv[l]) : e.cmd # "EVENT"

\* A mailbox holds what it held and what is put, or less.
LEMMA MailboxRange ==
  ASSUME TypeOK, NEW l \in Links
  PROVE  /\ \A e \in Commands : Range(Append(recv[l], e)) = Range(recv[l]) \cup {e}
         /\ recv[l] # <<>> => /\ Range(Tail(recv[l])) \subseteq Range(recv[l])
                              /\ Head(recv[l]) \in Range(recv[l])
<1>1. recv[l] \in Seq(Commands)
  BY DEF TypeOK
<1>2. ASSUME NEW e \in Commands PROVE Range(Append(recv[l], e)) = Range(recv[l]) \cup {e}
  <2>1. /\ Append(recv[l], e) \in Seq(Commands) /\ Len(Append(recv[l], e)) = Len(recv[l]) + 1
        /\ \A i \in 1 .. Len(recv[l]) : Append(recv[l], e)[i] = recv[l][i]
        /\ Append(recv[l], e)[Len(recv[l]) + 1] = e /\ Len(recv[l]) \in Nat
    BY <1>1, AppendProperties, LenProperties
  <2>2. /\ DOMAIN recv[l] = 1 .. Len(recv[l])
        /\ DOMAIN Append(recv[l], e) = 1 .. Len(recv[l]) + 1
    BY <1>1, <2>1, LenProperties
  <2>3. \A i : i \in 1 .. Len(recv[l]) + 1 <=> i \in 1 .. Len(recv[l]) \/ i = Len(recv[l]) + 1
    BY <2>1
  <2> QED
    BY <2>1, <2>2, <2>3 DEF Range
<1>3. ASSUME recv[l] # <<>>
      PROVE  Range(Tail(recv[l])) \subseteq Range(recv[l]) /\ Head(recv[l]) \in Range(recv[l])
  <2>1. /\ Len(recv[l]) \in Nat \ {0} /\ DOMAIN recv[l] = 1 .. Len(recv[l])
        /\ Head(recv[l]) = recv[l][1] /\ Tail(recv[l]) \in Seq(Commands)
        /\ Len(Tail(recv[l])) = Len(recv[l]) - 1
        /\ \A i \in 1 .. Len(Tail(recv[l])) : Tail(recv[l])[i] = recv[l][i + 1]
    BY <1>1, <1>3, EmptySeq, LenProperties, HeadTailProperties
  <2>2. DOMAIN Tail(recv[l]) = 1 .. Len(recv[l]) - 1
    BY <2>1, LenProperties
  <2>3. \A i \in 1 .. Len(recv[l]) - 1 : Tail(recv[l])[i] = recv[l][i + 1]
                                         /\ i + 1 \in DOMAIN recv[l]
    BY <2>1
  <2>4. 1 \in DOMAIN recv[l]
    BY <2>1
  <2> QED
    BY <2>1, <2>2, <2>3, <2>4 DEF Range
<1> QED
  BY <1>2, <1>3

LEMMA NoEventsKeep ==
  ASSUME NoEvents, IInv, EventsInv, [Next]_vars
  PROVE  EventsInv'
<1> USE DEF Freed, NoCall, NoCmd
<1>1. /\ call \in [Senders -> Calls \cup {NoCall}] /\ heap \subseteq Msgs
      /\ msg \in [Msgs -> [by : Senders \cup {None}, to : Links \cup {None}, cmd : Cmds]]
      /\ recv \in [Links -> Seq(Commands)] /\ handling \in [Links -> Commands]
      /\ cur \in [Cores -> Msgs \cup {None}] /\ \A c \in Cores : cur[c] = None <=> tpc[c] = "get"
      /\ TypeOK
  BY DEF IInv, TypeOK
<1>2. CASE \E a \in Apps : Call(a)
  <2>1. PICK a \in Apps : Call(a)
    BY <1>2
  <2>2. PICK c \in Sends[a] : Start(a, c)
    BY <2>1 DEF Call
  <2>3. c.cmd # "EVENT" /\ call' = [call EXCEPT ![a] = c]
    BY <2>2 DEF NoEvents, Start
  <2>4. msg' = msg /\ recv' = recv /\ handling' = handling
    BY <2>1 DEF Call, msgqs, links
  <2> QED
    BY <1>1, <2>3, <2>4 DEF EventsInv
<1>3. ASSUME NEW k \in Senders, Alloc(k) PROVE EventsInv'
  <2>1. call' = call /\ recv' = recv /\ handling' = handling
    BY <1>3 DEF Alloc, links
  <2>2. msg' = msg \/ \E m : msg' = [msg EXCEPT ![m] = [by |-> k, to |-> call[k].to,
                                                         cmd |-> call[k].cmd]]
    BY <1>3 DEF Alloc
  <2> QED
    BY <1>1, <2>1, <2>2 DEF EventsInv
<1>4. ASSUME NEW k \in Senders, Send(k) PROVE EventsInv'
  <2>1. recv' = recv /\ handling' = handling
    BY <1>4 DEF Send, Put, PutFails, GetAck, links
  <2>2. msg' = msg \/ \E m : msg' = [msg EXCEPT ![m] = Freed]
    BY <1>4 DEF Send, Put, PutFails, GetAck, Free
  <2>3. call' = call \/ call' = [call EXCEPT ![k] = NoCall]
    BY <1>4 DEF Send, Put, PutFails, GetAck, UnLock
  <2>4. \A m \in Msgs : msg'[m].cmd # "EVENT"
    BY <1>1, <2>2 DEF EventsInv
  <2>5. \A j \in Senders : call'[j].cmd # "EVENT"
    BY <1>1, <2>3 DEF EventsInv
  <2> QED
    BY <2>1, <2>4, <2>5 DEF EventsInv
<1>5. ASSUME NEW c \in Cores, Get(c) \/ Reply(c) \/ ReplyFails(c) PROVE EventsInv'
  <2>1. recv' = recv /\ handling' = handling /\ call' = call
    BY <1>5 DEF Get, Reply, ReplyFails, senders, links
  <2>2. msg' = msg \/ \E m : msg' = [msg EXCEPT ![m] = Freed]
    BY <1>5 DEF Get, Reply, ReplyFails, Free
  <2> QED
    BY <1>1, <2>1, <2>2 DEF EventsInv
<1>6. ASSUME NEW l \in Links, NEW e \in Commands, e.cmd # "EVENT",
             recv' = [recv EXCEPT ![l] = Append(@, e)],
             UNCHANGED <<msg, call, handling>>
      PROVE  EventsInv'
  <2>1. Range(Append(recv[l], e)) = Range(recv[l]) \cup {e}
    BY <1>1, MailboxRange
  <2>2. \A j \in Links : recv'[j] = IF j = l THEN Append(recv[l], e) ELSE recv[j]
    BY <1>1, <1>6
  <2> QED
    BY <1>6, <2>1, <2>2 DEF EventsInv
<1>7. ASSUME NEW c \in Cores, Local(c) PROVE EventsInv'
  <2>1. PICK m : m = cur[c]
    OBVIOUS
  <2>2. PICK l : l = msg[m].to
    OBVIOUS
  <2>3. PICK e : e = [cmd |-> msg[m].cmd, prm |-> m]
    OBVIOUS
  <2>4. /\ tpc[c] = "local" /\ recv' = [recv EXCEPT ![l] = Append(@, e)]
        /\ UNCHANGED <<msg, call, handling>>
    BY <1>7, <2>1, <2>2, <2>3 DEF Local, ToMailbox, msgqs, senders
  <2>5. m \in Msgs /\ m \notin heap
    <3>1. m \in Msgs
      BY <1>1, <2>1, <2>4
    <3> QED
      BY <2>1, <3>1, Apart
  <2>6. l \in Links
    BY <2>2, <2>5 DEF IInv, MsgInv, MsgOK
  <2>7. e \in Commands /\ e.cmd # "EVENT"
    BY <1>1, <2>3, <2>5 DEF Commands, EventsInv
  <2> QED
    BY <1>6, <2>4, <2>6, <2>7
<1>8. ASSUME NEW l \in Links, Data(l) PROVE EventsInv'
  <2>1. recv' = [recv EXCEPT ![l] = Append(@, NoCmd)] /\ UNCHANGED <<msg, call, handling>>
    BY <1>8 DEF Data, msgqs, senders
  <2>2. NoCmd \in Commands /\ NoCmd.cmd # "EVENT"
    BY DEF Commands, Cmds
  <2> QED
    BY <1>6, <2>1, <2>2
<1>9. ASSUME NEW l \in Links, Recv(l) PROVE EventsInv'
  <2>1. /\ recv[l] # <<>> /\ recv' = [recv EXCEPT ![l] = Tail(@)]
        /\ handling' = [handling EXCEPT ![l] = Head(recv[l])] /\ UNCHANGED <<msg, call>>
    BY <1>9 DEF Recv, msgqs, senders
  <2>2. /\ Range(Tail(recv[l])) \subseteq Range(recv[l]) /\ Head(recv[l]) \in Range(recv[l])
    BY <1>1, <2>1, MailboxRange
  <2>3. /\ \A j \in Links : recv'[j] = IF j = l THEN Tail(recv[l]) ELSE recv[j]
        /\ \A j \in Links : handling'[j] = IF j = l THEN Head(recv[l]) ELSE handling[j]
    BY <1>1, <2>1
  <2>4. \A j \in Links : Range(recv'[j]) \subseteq Range(recv[j])
    BY <2>2, <2>3
  <2>5. \A j \in Links : handling'[j].cmd # "EVENT"
    BY <2>2, <2>3 DEF EventsInv
  <2> QED
    BY <2>1, <2>4, <2>5 DEF EventsInv
<1>10. ASSUME NEW l \in Links, CallOut(l) PROVE EventsInv'
  <2>1. PICK c \in Handles[l][handling[l].cmd] : Start(l, c)
    BY <1>10 DEF CallOut
  <2>2. handling[l].cmd \in Cmds
    BY <1>1 DEF Commands
  <2>3. c.cmd # "EVENT" /\ call' = [call EXCEPT ![l] = c]
    BY <2>1, <2>2 DEF NoEvents, Start
  <2>4. msg' = msg /\ recv' = recv /\ handling' = handling
    BY <1>10 DEF CallOut, msgqs
  <2> QED
    BY <1>1, <2>3, <2>4 DEF EventsInv
<1>11. ASSUME NEW l \in Links, Finish(l) PROVE EventsInv'
  <2>1. msg' = msg /\ recv' = recv /\ call' = call /\ handling' = [handling EXCEPT ![l] = NoCmd]
    BY <1>11 DEF Finish, msgqs, senders
  <2> QED
    BY <1>1, <2>1 DEF EventsInv
<1>12. CASE UNCHANGED vars
  BY <1>12 DEF vars, msgqs, senders, links, EventsInv
<1> QED
  BY <1>2, <1>3, <1>4, <1>5, <1>7, <1>8, <1>9, <1>10, <1>11, <1>12 DEF Next, MsgQTask

LEMMA LivePrm == NoEvents /\ IInv /\ EventsInv => PrmIsLive
<1> SUFFICES ASSUME IInv, EventsInv, NEW l \in Links, NEW e \in Range(recv[l]) \cup {handling[l]},
                    e.cmd # "NEW_DATA"
             PROVE  e.prm \notin heap /\ msg[e.prm].to = l /\ msg[e.prm].cmd = e.cmd
  BY DEF PrmIsLive
<1>1. /\ recv[l] \in Seq(Commands) /\ handling[l] \in Commands
      /\ CoreOf[l] \in Cores
      /\ \A c \in Cores : cur[c] = None <=> tpc[c] = "get"
  BY MsgQAssumption DEF IInv, TypeOK, Senders
<1>2. e \in Commands /\ e.cmd # "EVENT"
  <2>1. Range(recv[l]) \subseteq Commands
    BY <1>1, ListEmpty
  <2> QED
    BY <1>1, <2>1 DEF EventsInv
<1>3. Waits(e.cmd)
  BY <1>2 DEF Commands, Cmds, Waits
<1>4. LinkOK(l)
  BY DEF IInv, LinkInv
<1>5. Given(l, e)
  <2>1. CASE e = handling[l]
    BY <1>3, <1>4, <2>1 DEF LinkOK
  <2>2. CASE e \in Range(recv[l])
    BY <1>3, <1>4, <2>2 DEF LinkOK, Range
  <2> QED
    BY <2>1, <2>2
<1>6. cur[CoreOf[l]] \notin heap
  BY <1>1, Apart
<1> QED
  BY <1>5, <1>6 DEF Given

(* While a link handles a command, or it waits in the mailbox, the message  *)
(* its parameters lie in is still the command's, provided no EVENT goes to  *)
(* another core: with one it fails, as the run IpcEvent shows.              *)
THEOREM PrmAlwaysLive == ASSUME NoEvents PROVE Spec => []PrmIsLive
<1>1. Init => EventsInv
  <2>1. Range(<<>>) = {}
    BY ShortLists
  <2> QED
    BY <2>1 DEF Init, EventsInv, Freed, NoCall, NoCmd
<1>2. IInv /\ EventsInv /\ [Next]_vars => EventsInv'
  BY NoEventsKeep
<1>3. IInv /\ EventsInv => PrmIsLive
  BY LivePrm
<1> QED
  BY <1>1, <1>2, <1>3, InvAlways, PTL DEF Spec

-----------------------------------------------------------------------------
(* The heap.                                                                *)

(* Commands that are waited for take one message of the heap per core at    *)
(* most, whatever sends and acknowledges have failed before: the lock is    *)
(* held from MessageQ_alloc until the acknowledge is freed, for ever when   *)
(* it is lost.  What else is allocated belongs to notifications, whose      *)
(* number the code does not bound.                                          *)
THEOREM OneWaitedAlways == Spec => []OneWaitedPerCore
<1>1. ASSUME IInv, NEW m \in Msgs \ heap, NEW n \in Msgs \ heap,
             Waits(msg[m].cmd), Waits(msg[n].cmd),
             CoreOf[msg[m].by] = CoreOf[msg[n].by]
      PROVE  m = n
  <2>1. MsgOK(m) /\ MsgOK(n)
    BY <1>1 DEF IInv, MsgInv
  <2>2. /\ msg[m].by \in Senders /\ kpc[msg[m].by] \in {"put", "ack"} /\ sent[msg[m].by] = m
        /\ msg[n].by \in Senders /\ kpc[msg[n].by] \in {"put", "ack"} /\ sent[msg[n].by] = n
    BY <1>1, <2>1 DEF MsgOK
  <2>3. msg[m].by = msg[n].by
    BY <1>1, <2>2, OneHolder
  <2> QED
    BY <2>2, <2>3
<1>2. IInv => OneWaitedPerCore
  BY <1>1 DEF OneWaitedPerCore
<1> QED
  BY <1>2, InvAlways, PTL
=============================================================================
