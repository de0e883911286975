-------------------------- MODULE SelectLinkProofs --------------------------
(* Theorems about SelectLink for any channels, output queues, frames and    *)
(* picture sizes, and any sequence of routing commands.                     *)
EXTENDS SelectLink, QueueLemmas

-----------------------------------------------------------------------------
(* Where frames are.                                                        *)

Spots == {<<"up", 0>>, <<"upq", 0>>, <<"todo", 0>>, <<"unmapped", 0>>}
           \cup {<<"full", o>> : o \in Outs}
           \cup {<<"held", o>> : o \in Outs}

At == [p \in Spots |-> CASE p[1] = "up"       -> up
                         [] p[1] = "upq"      -> Range(upq)
                         [] p[1] = "todo"     -> Range(todo)
                         [] p[1] = "unmapped" -> unmapped
                         [] p[1] = "full"     -> Range(full[p[2]])
                         [] OTHER             -> held[p[2]]]

-----------------------------------------------------------------------------
(* The inductive invariant.                                                 *)

PlacesInv == /\ InOnePlace(At, Frames)
             /\ IsInjective(upq) /\ IsInjective(todo)
             /\ \A o \in Outs : IsInjective(full[o])

PointInv == tpc # "frames" => todo = <<>> /\ unmapped = {}

\* On the previous link's side a frame has the channel number it was made
\* with; on a next link's side it remembers it.
Outer(f) == frm[f].ch = frm[f].src
Inner(f) == frm[f].org = frm[f].src /\ frm[f].ch \in 1 .. MaxOutCh

MarkInv == /\ \A f \in up : Outer(f)
           /\ \A f \in unmapped : Outer(f)
           /\ \A f \in Range(upq) : Outer(f) /\ frm[f].info \in Sizes
           /\ \A f \in Range(todo) : Outer(f) /\ frm[f].info \in Sizes
           /\ \A o \in Outs : /\ \A f \in Range(full[o]) : Inner(f)
                              /\ \A f \in held[o] : Inner(f)

MapInv == \A c \in InChs : inCh[c].que \in Outs => inCh[c].out \in 1 .. MaxOutCh

IInv == TypeOK /\ PlacesInv /\ PointInv /\ MarkInv /\ MapInv

-----------------------------------------------------------------------------
(* What next links know of picture sizes.                                   *)

\* Whatever next link o knows last of channel k, from the first i frames of
\* its queue or from before them, is z.
Latest(o, i, k, z) ==
  /\ (\A h \in 1 .. i : frm[full[o][h]].ch # k) => view[o][k] = z
  /\ \A j \in 1 .. i :
       /\ frm[full[o][j]].ch = k
       /\ \A h \in j + 1 .. i : frm[full[o][h]].ch # k
       => frm[full[o][j]].pic = z

\* Sizes do not change: a frame has its channel's.
Sized(f) == /\ ~frm[f].flag /\ frm[f].info = frm[f].pic
            /\ frm[f].pic = size[frm[f].src]

\* Frame i of full queue o tells its size, or the next link knows it already.
FrameKnown(o, i) ==
  IF frm[full[o][i]].flag THEN frm[full[o][i]].info = frm[full[o][i]].pic
  ELSE Latest(o, i - 1, frm[full[o][i]].ch, frm[full[o][i]].pic)

\* The next link knows channel c's size, unless the next frame is to tell it.
RouteKnown(c) ==
  inCh[c].que \in Outs /\ ~inCh[c].upd =>
    Latest(inCh[c].que, Len(full[inCh[c].que]), inCh[c].out, size[c])

SizeInv == /\ \A c \in InChs : inCh[c].info = size[c]
           /\ \A f \in Range(upq) : Sized(f)
           /\ \A f \in Range(todo) : Sized(f)
           /\ \A o \in Outs : \A i \in 1 .. Len(full[o]) : FrameKnown(o, i)
           /\ \A c \in InChs : RouteKnown(c)

-----------------------------------------------------------------------------
(* The places.                                                              *)

LEMMA AtHolds ==
  /\ DOMAIN At = Spots
  /\ <<"up", 0>> \in Spots /\ At[<<"up", 0>>] = up
  /\ <<"upq", 0>> \in Spots /\ At[<<"upq", 0>>] = Range(upq)
  /\ <<"todo", 0>> \in Spots /\ At[<<"todo", 0>>] = Range(todo)
  /\ <<"unmapped", 0>> \in Spots /\ At[<<"unmapped", 0>>] = unmapped
  /\ \A o \in Outs : /\ <<"full", o>> \in Spots /\ At[<<"full", o>>] = Range(full[o])
                     /\ <<"held", o>> \in Spots /\ At[<<"held", o>>] = held[o]
BY DEF At, Spots

LEMMA AtHoldsNext ==
  /\ DOMAIN At' = Spots
  /\ At'[<<"up", 0>>] = up'
  /\ At'[<<"upq", 0>>] = Range(upq')
  /\ At'[<<"todo", 0>>] = Range(todo')
  /\ At'[<<"unmapped", 0>>] = unmapped'
  /\ \A o \in Outs : /\ At'[<<"full", o>>] = Range(full'[o])
                     /\ At'[<<"held", o>>] = held'[o]
BY DEF At, Spots

(* Places other than p and q hold what they held.                           *)
LEMMA Elsewhere ==
  ASSUME NEW p, NEW q,
         <<"up", 0>> \notin {p, q} => up' = up,
         <<"upq", 0>> \notin {p, q} => upq' = upq,
         <<"todo", 0>> \notin {p, q} => todo' = todo,
         <<"unmapped", 0>> \notin {p, q} => unmapped' = unmapped,
         \A o \in Outs : <<"full", o>> \notin {p, q} => full'[o] = full[o],
         \A o \in Outs : <<"held", o>> \notin {p, q} => held'[o] = held[o],
         NEW r \in Spots, r # p, r # q
  PROVE  At'[r] = At[r]
<1>1. CASE r \in {<<"up", 0>>, <<"upq", 0>>, <<"todo", 0>>, <<"unmapped", 0>>}
  BY <1>1, AtHolds, AtHoldsNext
<1>2. CASE \E o \in Outs : r = <<"full", o>>
  <2>1. PICK o \in Outs : r = <<"full", o>>
    BY <1>2
  <2>2. full'[o] = full[o]
    BY <2>1
  <2>3. At'[r] = Range(full'[o]) /\ At[r] = Range(full[o])
    BY <2>1, AtHolds, AtHoldsNext
  <2> QED
    BY <2>2, <2>3
<1>3. CASE \E o \in Outs : r = <<"held", o>>
  <2>1. PICK o \in Outs : r = <<"held", o>>
    BY <1>3
  <2>2. held'[o] = held[o]
    BY <2>1
  <2>3. At'[r] = held'[o] /\ At[r] = held[o]
    BY <2>1, AtHolds, AtHoldsNext
  <2> QED
    BY <2>2, <2>3
<1> QED
  BY <1>1, <1>2, <1>3 DEF Spots

(* No frame goes from one place to another.                                 *)
LEMMA Stays ==
  ASSUME PlacesInv, up' = up, upq' = upq, todo' = todo, unmapped' = unmapped,
         full' = full, held' = held
  PROVE  PlacesInv'
<1>1. At' = At
  BY DEF At
<1> QED
  BY <1>1 DEF PlacesInv, InOnePlace

(* A frame is in one place.                                                 *)
LEMMA Apart ==
  ASSUME IInv, NEW f \in Frames
  PROVE  /\ f \in up => /\ f \notin Range(upq) /\ f \notin Range(todo) /\ f \notin unmapped
                        /\ \A o \in Outs : f \notin Range(full[o]) /\ f \notin held[o]
         /\ f \in Range(todo) => /\ f \notin up /\ f \notin Range(upq) /\ f \notin unmapped
                                 /\ \A o \in Outs : f \notin Range(full[o]) /\ f \notin held[o]
         /\ f \in unmapped => \A o \in Outs : f \notin Range(full[o]) /\ f \notin held[o]
         /\ f \in unmapped => f \notin Range(upq) /\ f \notin Range(todo)
         /\ \A o \in Outs : f \in held[o] => 
              /\ f \notin up /\ f \notin Range(upq) /\ f \notin Range(todo) /\ f \notin unmapped
              /\ \A q \in Outs : f \notin Range(full[q]) /\ (q # o => f \notin held[q])
<1> USE AtHolds
<1>1. ASSUME NEW p \in Spots, NEW q \in Spots, f \in At[p], f \in At[q] PROVE p = q
  BY <1>1, SamePlace DEF IInv, PlacesInv
<1>2. ASSUME NEW p \in Spots, f \in At[p]
      PROVE  /\ p # <<"up", 0>> => f \notin up
             /\ p # <<"upq", 0>> => f \notin Range(upq)
             /\ p # <<"todo", 0>> => f \notin Range(todo)
             /\ p # <<"unmapped", 0>> => f \notin unmapped
             /\ \A o \in Outs : p # <<"full", o>> => f \notin Range(full[o])
             /\ \A o \in Outs : p # <<"held", o>> => f \notin held[o]
  <2>1. \A q \in Spots : p # q => f \notin At[q]
    BY <1>1, <1>2
  <2>2. ASSUME NEW o \in Outs
        PROVE  /\ p # <<"full", o>> => f \notin Range(full[o])
               /\ p # <<"held", o>> => f \notin held[o]
    <3>1. p # <<"full", o>> => f \notin At[<<"full", o>>]
      BY <2>1
    <3>2. p # <<"held", o>> => f \notin At[<<"held", o>>]
      BY <2>1
    <3> QED
      BY <3>1, <3>2
  <2> QED
    BY <2>1, <2>2
<1>3. ASSUME f \in up
      PROVE  /\ f \notin Range(upq) /\ f \notin Range(todo) /\ f \notin unmapped
             /\ \A o \in Outs : f \notin Range(full[o]) /\ f \notin held[o]
  <2>1. f \in At[<<"up", 0>>]
    BY <1>3
  <2> QED
    BY <1>2, <2>1
<1>4. ASSUME f \in Range(todo)
      PROVE  /\ f \notin up /\ f \notin Range(upq) /\ f \notin unmapped
             /\ \A o \in Outs : f \notin Range(full[o]) /\ f \notin held[o]
  <2>1. f \in At[<<"todo", 0>>]
    BY <1>4
  <2> QED
    BY <1>2, <2>1
<1>5. ASSUME f \in unmapped
      PROVE  /\ f \notin Range(upq) /\ f \notin Range(todo)
             /\ \A o \in Outs : f \notin Range(full[o]) /\ f \notin held[o]
  <2>1. f \in At[<<"unmapped", 0>>]
    BY <1>5
  <2> QED
    BY <1>2, <2>1
<1>6. ASSUME NEW o \in Outs, f \in held[o]
      PROVE  /\ f \notin up /\ f \notin Range(upq) /\ f \notin Range(todo) /\ f \notin unmapped
             /\ \A q \in Outs : f \notin Range(full[q]) /\ (q # o => f \notin held[q])
  <2>1. f \in At[<<"held", o>>]
    BY <1>6
  <2>2. \A q \in Outs : <<"held", o>> # <<"full", q>> /\ (q # o => <<"held", o>> # <<"held", q>>)
    OBVIOUS
  <2>3. /\ <<"held", o>> # <<"up", 0>> /\ <<"held", o>> # <<"upq", 0>>
        /\ <<"held", o>> # <<"todo", 0>> /\ <<"held", o>> # <<"unmapped", 0>>
    OBVIOUS
  <2> QED
    BY <1>2, <2>1, <2>2, <2>3
<1> QED
  BY <1>3, <1>4, <1>5, <1>6

-----------------------------------------------------------------------------
(* Routing.                                                                 *)

Maps == [InChs -> [que : Outs \cup {NotMapped}, out : 0 .. MaxOutCh,
                   upd : BOOLEAN, info : Sizes]]

(* The channel list of a command, and the place of a channel in it.         *)
LEMMA RouteFacts ==
  ASSUME NEW s \in Routes
  PROVE  /\ Range(s) \subseteq InChs /\ DOMAIN s \subseteq 1 .. MaxOutCh
         /\ \A i, j \in DOMAIN s : s[i] = s[j] => i = j
         /\ \A c \in Range(s) : LET i == CHOOSE i \in DOMAIN s : s[i] = c
                                IN  i \in DOMAIN s /\ s[i] = c
<1>1. PICK n \in 0 .. MaxOutCh : s \in Injection(1 .. n, InChs)
  BY DEF Routes
<1>2. s \in [1 .. n -> InChs] /\ \A i, j \in DOMAIN s : s[i] = s[j] => i = j
  BY <1>1 DEF Injection, IsInjective
<1>3. DOMAIN s \subseteq 1 .. MaxOutCh
  BY <1>2, SelectAssumption
<1>4. ASSUME NEW c \in Range(s)
      PROVE  LET i == CHOOSE i \in DOMAIN s : s[i] = c IN i \in DOMAIN s /\ s[i] = c
  <2>1. \E i \in DOMAIN s : s[i] = c
    BY <1>4 DEF Range
  <2> QED
    BY <2>1
<1> QED
  BY <1>2, <1>3, <1>4 DEF Range

(* What a command does to the map, channel by channel.                      *)
LEMMA MapFacts ==
  ASSUME NEW m \in Maps, NEW o \in Outs, NEW s \in Routes
  PROVE  /\ Mapped(m, o, s) \in Maps
         /\ \A c \in InChs :
              /\ c \notin Range(s) => Mapped(m, o, s)[c] = m[c]
              /\ c \in Range(s) => /\ Mapped(m, o, s)[c].que = o /\ Mapped(m, o, s)[c].upd
                                   /\ Mapped(m, o, s)[c].out \in DOMAIN s
                                   /\ s[Mapped(m, o, s)[c].out] = c
              /\ Mapped(m, o, s)[c].info = m[c].info
<1>1. ASSUME NEW c \in InChs, c \in Range(s)
      PROVE  /\ Mapped(m, o, s)[c].que = o /\ Mapped(m, o, s)[c].upd = TRUE
             /\ Mapped(m, o, s)[c].out \in DOMAIN s
             /\ s[Mapped(m, o, s)[c].out] = c
             /\ Mapped(m, o, s)[c].info = m[c].info
             /\ Mapped(m, o, s)[c] \in [que : Outs \cup {NotMapped}, out : 0 .. MaxOutCh,
                                        upd : BOOLEAN, info : Sizes]
  <2> DEFINE k == CHOOSE i \in DOMAIN s : s[i] = c
  <2>1. k \in DOMAIN s /\ s[k] = c
    BY <1>1, RouteFacts
  <2>2. k \in 0 .. MaxOutCh
    <3>1. k \in 1 .. MaxOutCh
      BY <2>1, RouteFacts
    <3> QED
      BY <3>1, SelectAssumption
  <2>3. Mapped(m, o, s)[c] = [m[c] EXCEPT !.que = o, !.upd = TRUE, !.out = k]
    BY <1>1 DEF Mapped
  <2> HIDE DEF k
  <2>4. m[c] \in [que : Outs \cup {NotMapped}, out : 0 .. MaxOutCh,
                  upd : BOOLEAN, info : Sizes]
    BY DEF Maps
  <2> QED
    BY <2>1, <2>2, <2>3, <2>4
<1>2. ASSUME NEW c \in InChs, c \notin Range(s) PROVE Mapped(m, o, s)[c] = m[c]
  BY <1>2 DEF Mapped
<1>3. Mapped(m, o, s) \in Maps
  <2>1. \A c \in InChs : Mapped(m, o, s)[c] \in [que : Outs \cup {NotMapped}, out : 0 .. MaxOutCh,
                                                 upd : BOOLEAN, info : Sizes]
    BY <1>1, <1>2 DEF Maps
  <2>2. Mapped(m, o, s) = [c \in InChs |-> Mapped(m, o, s)[c]]
    BY DEF Mapped
  <2> QED
    BY <2>1, <2>2 DEF Maps
<1> QED
  BY <1>1, <1>2, <1>3

LEMMA UnmapFacts ==
  ASSUME NEW m \in Maps, NEW o \in Outs
  PROVE  /\ Unmap(m, o) \in Maps
         /\ \A c \in InChs :
              /\ c \notin Range(prev[o]) => Unmap(m, o)[c] = m[c]
              /\ c \in Range(prev[o]) => Unmap(m, o)[c].que = NotMapped
              /\ Unmap(m, o)[c].info = m[c].info
<1>1. ASSUME NEW c \in InChs
      PROVE  /\ c \in Range(prev[o]) =>
                  Unmap(m, o)[c] = [m[c] EXCEPT !.que = NotMapped, !.upd = FALSE, !.out = 0]
             /\ c \notin Range(prev[o]) => Unmap(m, o)[c] = m[c]
             /\ m[c] \in [que : Outs \cup {NotMapped}, out : 0 .. MaxOutCh,
                          upd : BOOLEAN, info : Sizes]
  BY DEF Unmap, Maps
<1>2. 0 \in 0 .. MaxOutCh
  BY SelectAssumption
<1>3. \A c \in InChs : Unmap(m, o)[c] \in [que : Outs \cup {NotMapped}, out : 0 .. MaxOutCh,
                                           upd : BOOLEAN, info : Sizes]
  BY <1>1, <1>2
<1>4. Unmap(m, o) \in Maps
  <2>1. Unmap(m, o) = [c \in InChs |-> Unmap(m, o)[c]]
    BY DEF Unmap
  <2> QED
    BY <1>3, <2>1 DEF Maps
<1> QED
  BY <1>1, <1>4

LEMMA NotAQueue == NotMapped \notin Outs
BY SelectAssumption DEF Outs, NotMapped

-----------------------------------------------------------------------------
(* Every step keeps the invariant.                                          *)

(* A command changes the routing only.                                      *)
LEMMA CommandKeeps ==
  ASSUME IInv, NEW o \in Outs, NEW s \in Routes, SetOutQue(o, s) \/ SetOutQue2(o, s)
  PROVE  IInv'
<1>1. /\ inCh' = Mapped(inCh, o, s) \/ inCh' = Mapped(Unmap(inCh, o), o, s)
      /\ prev' = [prev EXCEPT ![o] = s]
      /\ size' = size /\ up' = up /\ upq' = upq /\ frm' = frm /\ tpc' = tpc /\ todo' = todo
      /\ unmapped' = unmapped /\ newData' = newData /\ full' = full /\ news' = news
      /\ busy' = busy /\ held' = held /\ view' = view
  BY DEF SetOutQue, SetOutQue2, source, task, next
<1>2. inCh \in Maps /\ prev \in [Outs -> Routes]
  BY DEF IInv, TypeOK, Maps
<1>3. PICK m \in Maps : inCh' = Mapped(m, o, s) /\ (m = inCh \/ m = Unmap(inCh, o))
  BY <1>1, <1>2, UnmapFacts
<1>4. inCh' \in Maps /\ prev' \in [Outs -> Routes]
  BY <1>1, <1>2, <1>3, MapFacts
<1>5. TypeOK'
  BY <1>1, <1>4 DEF IInv, TypeOK, Maps
<1>6. MapInv'
  <2>1. ASSUME NEW c \in InChs, m[c].que \in Outs PROVE m[c].out \in 1 .. MaxOutCh
    <3>1. m[c] = inCh[c]
      BY <1>2, <1>3, <2>1, UnmapFacts, NotAQueue
    <3> QED
      BY <2>1, <3>1 DEF IInv, MapInv
  <2>2. ASSUME NEW c \in InChs, inCh'[c].que \in Outs PROVE inCh'[c].out \in 1 .. MaxOutCh
    <3>1. CASE c \in Range(s)
      BY <1>3, <3>1, MapFacts, RouteFacts
    <3>2. CASE c \notin Range(s)
      BY <1>3, <2>1, <2>2, <3>2, MapFacts
    <3> QED
      BY <3>1, <3>2
  <2> QED
    BY <2>2 DEF MapInv
<1>7. PlacesInv'
  BY <1>1, Stays DEF IInv
<1>8. PointInv' /\ MarkInv'
  BY <1>1 DEF IInv, PointInv, MarkInv, Outer, Inner
<1> QED
  BY <1>5, <1>6, <1>7, <1>8 DEF IInv

Marks == [ch : InChs \cup (1 .. MaxOutCh), org : InChs, flag : BOOLEAN,
          info : Sizes \cup {NoSize}, src : InChs, pic : Sizes \cup {NoSize}]

(* The marks of frames that the step leaves alone.                          *)
LEMMA SameMarks ==
  ASSUME MarkInv,
         \A f \in up' : Outer(f)', \A f \in unmapped' : Outer(f)',
         \A f \in Range(upq') : f \in Range(upq) /\ frm'[f] = frm[f],
         \A f \in Range(todo') : f \in Range(todo) /\ frm'[f] = frm[f],
         \A o \in Outs : \A f \in Range(full'[o]) \cup held'[o] :
           f \in Range(full[o]) \cup held[o] /\ frm'[f] = frm[f]
  PROVE  MarkInv'
BY DEF MarkInv, Outer, Inner

LEMMA ProduceKeeps ==
  ASSUME IInv, NEW f \in Frames, NEW c \in InChs, NEW z \in Sizes, Produce(f, c, z)
  PROVE  IInv'
<1>1. /\ f \in up /\ size' = [size EXCEPT ![c] = z] /\ up' = up \ {f} /\ upq' = Append(upq, f)
      /\ frm' = [frm EXCEPT ![f] = [ch |-> c, org |-> c, flag |-> z # size[c],
                                    info |-> z, src |-> c, pic |-> z]]
      /\ inCh' = inCh /\ prev' = prev /\ tpc' = tpc /\ todo' = todo /\ unmapped' = unmapped
      /\ newData' = newData /\ full' = full /\ news' = news /\ busy' = busy /\ held' = held
      /\ view' = view
  BY DEF Produce, task, next
<1>2. /\ upq \in Seq(Frames) /\ frm \in [Frames -> Marks] /\ size \in [InChs -> Sizes]
      /\ up \subseteq Frames /\ IsInjective(upq) /\ IsInjective(todo)
      /\ \A o \in Outs : IsInjective(full[o])
      /\ todo \in Seq(Frames) /\ unmapped \subseteq Frames
      /\ \A o \in Outs : full[o] \in Seq(Frames) /\ held[o] \subseteq Frames
  BY DEF IInv, TypeOK, PlacesInv, Marks
<1>3. /\ f \notin Range(upq) /\ f \notin Range(todo) /\ f \notin unmapped
      /\ \A o \in Outs : f \notin Range(full[o]) /\ f \notin held[o]
  BY <1>1, Apart
<1>4. /\ Append(upq, f) \in Seq(Frames) /\ IsInjective(Append(upq, f))
      /\ \A x : x \in Range(Append(upq, f)) <=> x \in Range(upq) \/ x = f
  BY <1>2, <1>3, PutLast
<1>5. [ch |-> c, org |-> c, flag |-> z # size[c], info |-> z, src |-> c, pic |-> z] \in Marks
  BY DEF Marks
<1>6. /\ frm' \in [Frames -> Marks]
      /\ \A x \in Frames : x # f => frm'[x] = frm[x]
      /\ frm'[f].ch = c /\ frm'[f].src = c /\ frm'[f].info = z
  BY <1>1, <1>2, <1>5
<1>7. TypeOK'
  BY <1>1, <1>2, <1>4, <1>6 DEF IInv, TypeOK, Marks
<1>8. PlacesInv'
  <2>1. \A y \in Frames : y \in At'[<<"up", 0>>] <=> y \in At[<<"up", 0>>] /\ y # f
    BY <1>1, AtHolds, AtHoldsNext
  <2>2. \A y \in Frames : y \in At'[<<"upq", 0>>] <=> y \in At[<<"upq", 0>>] \/ y = f
    BY <1>1, <1>4, AtHolds, AtHoldsNext
  <2>3. \A r \in Spots : r # <<"up", 0>> /\ r # <<"upq", 0>> => At'[r] = At[r]
    BY <1>1, Elsewhere
  <2>4. InOnePlace(At, Frames) /\ f \in At[<<"up", 0>>] /\ <<"up", 0>> # <<"upq", 0>>
    BY <1>1, AtHolds DEF IInv, PlacesInv
  <2>5. InOnePlace(At', Frames)
    BY <2>1, <2>2, <2>3, <2>4, AtHolds, AtHoldsNext, MoveOne
  <2> QED
    BY <1>1, <1>2, <1>4, <2>5 DEF PlacesInv, InOnePlace
<1>9. MarkInv'
  <2>1. Range(upq) \subseteq Frames /\ Range(todo) \subseteq Frames
    BY <1>2, ListEmpty
  <2>2. \A o \in Outs : Range(full[o]) \subseteq Frames
    BY <1>2, ListEmpty
  <2>3. \A x \in Frames : x # f => (Outer(x)' <=> Outer(x)) /\ (Inner(x)' <=> Inner(x))
    BY <1>6 DEF Outer, Inner
  <2>4. Outer(f)'
    BY <1>6 DEF Outer
  <2>5. \A x \in up' : Outer(x)'
    BY <1>1, <1>2, <2>3 DEF IInv, MarkInv
  <2>6. \A x \in unmapped' : Outer(x)'
    BY <1>1, <1>2, <1>3, <2>3 DEF IInv, MarkInv
  <2>7. \A x \in Range(upq') : Outer(x)' /\ frm'[x].info \in Sizes
    BY <1>1, <1>4, <1>6, <2>1, <2>3, <2>4 DEF IInv, MarkInv
  <2>8. \A x \in Range(todo') : Outer(x)' /\ frm'[x].info \in Sizes
    BY <1>1, <1>3, <1>6, <2>1, <2>3 DEF IInv, MarkInv
  <2>9. \A o \in Outs : /\ \A x \in Range(full'[o]) : Inner(x)'
                        /\ \A x \in held'[o] : Inner(x)'
    BY <1>1, <1>2, <1>3, <2>2, <2>3 DEF IInv, MarkInv
  <2> QED
    BY <2>5, <2>6, <2>7, <2>8, <2>9 DEF MarkInv
<1>10. PointInv' /\ MapInv'
  BY <1>1 DEF IInv, PointInv, MapInv
<1> QED
  BY <1>7, <1>8, <1>9, <1>10 DEF IInv

(* The link task takes the whole full queue of the previous link.           *)
LEMMA GetFullKeeps ==
  ASSUME IInv, GetFull PROVE IInv'
<1>1. /\ tpc = "recv" /\ todo' = upq /\ upq' = <<>> /\ tpc' = "frames"
      /\ size' = size /\ up' = up /\ inCh' = inCh /\ prev' = prev /\ frm' = frm
      /\ unmapped' = unmapped /\ newData' = newData /\ full' = full /\ news' = news
      /\ busy' = busy /\ held' = held /\ view' = view
  BY DEF GetFull, next
<1>2. todo = <<>> /\ unmapped = {} /\ IsInjective(upq)
  BY <1>1 DEF IInv, PointInv, PlacesInv
<1>3. <<>> \in Seq(Frames) /\ Range(<<>>) = {} /\ IsInjective(<<>>)
  BY ShortLists
<1>4. TypeOK'
  BY <1>1, <1>3 DEF IInv, TypeOK
<1>5. PlacesInv'
  <2>1. \A y \in Frames : y \notin At'[<<"upq", 0>>]
    BY <1>1, <1>3, AtHoldsNext
  <2>2. \A y \in Frames : y \in At'[<<"todo", 0>>] <=> y \in At[<<"todo", 0>>] \/ y \in At[<<"upq", 0>>]
    BY <1>1, <1>2, <1>3, AtHolds, AtHoldsNext
  <2>3. \A r \in Spots : r # <<"upq", 0>> /\ r # <<"todo", 0>> => At'[r] = At[r]
    BY <1>1, Elsewhere
  <2>4. InOnePlace(At, Frames) /\ <<"upq", 0>> # <<"todo", 0>>
    BY DEF IInv, PlacesInv
  <2>5. InOnePlace(At', Frames)
    BY <2>1, <2>2, <2>3, <2>4, AtHolds, AtHoldsNext, MoveAll
  <2> QED
    BY <1>1, <1>2, <1>3, <2>5 DEF IInv, PlacesInv, InOnePlace
<1>6. PointInv' /\ MapInv'
  BY <1>1 DEF IInv, PointInv, MapInv
<1>7. MarkInv'
  BY <1>1, <1>3 DEF IInv, MarkInv, Outer, Inner
<1> QED
  BY <1>4, <1>5, <1>6, <1>7 DEF IInv

LEMMA SkipKeeps ==
  ASSUME IInv, Skip PROVE IInv'
<1>1. PICK f : f = Head(todo)
  OBVIOUS
<1>2. /\ tpc = "frames" /\ todo # <<>> /\ unmapped' = unmapped \cup {f} /\ todo' = Tail(todo)
      /\ size' = size /\ up' = up /\ upq' = upq /\ inCh' = inCh /\ prev' = prev /\ frm' = frm
      /\ tpc' = tpc /\ newData' = newData /\ full' = full /\ news' = news
      /\ busy' = busy /\ held' = held /\ view' = view
  BY <1>1 DEF Skip, source, next
<1>3. todo \in Seq(Frames) /\ IsInjective(todo) /\ unmapped \subseteq Frames
  BY DEF IInv, TypeOK, PlacesInv
<1>4. /\ f \in Frames /\ f \in Range(todo)
      /\ Tail(todo) \in Seq(Frames) /\ IsInjective(Tail(todo))
      /\ \A x : x \in Range(Tail(todo)) <=> x \in Range(todo) /\ x # f
  BY <1>1, <1>2, <1>3, TakeHead
<1>5. TypeOK'
  BY <1>2, <1>3, <1>4 DEF IInv, TypeOK
<1>6. PlacesInv'
  <2>1. \A y \in Frames : y \in At'[<<"todo", 0>>] <=> y \in At[<<"todo", 0>>] /\ y # f
    BY <1>2, <1>4, AtHolds, AtHoldsNext
  <2>2. \A y \in Frames : y \in At'[<<"unmapped", 0>>] <=> y \in At[<<"unmapped", 0>>] \/ y = f
    BY <1>2, AtHolds, AtHoldsNext
  <2>3. \A r \in Spots : r # <<"todo", 0>> /\ r # <<"unmapped", 0>> => At'[r] = At[r]
    BY <1>2, Elsewhere
  <2>4. InOnePlace(At, Frames) /\ f \in At[<<"todo", 0>>] /\ <<"todo", 0>> # <<"unmapped", 0>>
    BY <1>4, AtHolds DEF IInv, PlacesInv
  <2>5. InOnePlace(At', Frames)
    BY <1>4, <2>1, <2>2, <2>3, <2>4, AtHolds, AtHoldsNext, MoveOne
  <2> QED
    BY <1>2, <1>3, <1>4, <2>5 DEF IInv, PlacesInv, InOnePlace
<1>7. PointInv' /\ MapInv'
  BY <1>2 DEF IInv, PointInv, MapInv
<1>8. MarkInv'
  BY <1>2, <1>4 DEF IInv, MarkInv, Outer, Inner
<1> QED
  BY <1>5, <1>6, <1>7, <1>8 DEF IInv

(* Frames of channels that are not routed go back.                          *)
LEMMA FreeUnmappedKeeps ==
  ASSUME IInv, FreeUnmapped PROVE IInv'
<1>1. /\ todo = <<>> /\ up' = up \cup unmapped /\ unmapped' = {} /\ tpc' = "notify"
      /\ frm' = [f \in Frames |-> IF f \in unmapped
                                  THEN Returned(frm[f].ch, frm[f].src) ELSE frm[f]]
      /\ size' = size /\ upq' = upq /\ inCh' = inCh /\ prev' = prev /\ todo' = todo
      /\ newData' = newData /\ full' = full /\ news' = news
      /\ busy' = busy /\ held' = held /\ view' = view
  BY DEF FreeUnmapped, next
<1>2. /\ frm \in [Frames -> Marks] /\ up \subseteq Frames /\ unmapped \subseteq Frames
      /\ \A f \in unmapped : frm[f].ch = frm[f].src
      /\ upq \in Seq(Frames) /\ \A o \in Outs : full[o] \in Seq(Frames) /\ held[o] \subseteq Frames
  BY DEF IInv, TypeOK, Marks, MarkInv, Outer
<1>3. ASSUME NEW f \in unmapped
      PROVE  frm'[f].ch = frm'[f].src /\ frm'[f] \in Marks
  <2>1. frm'[f] = Returned(frm[f].ch, frm[f].src) /\ frm[f] \in Marks
    BY <1>1, <1>2
  <2> QED
    BY <1>2, <2>1 DEF Returned, Marks
<1>4. \A f \in Frames : f \notin unmapped => frm'[f] = frm[f] /\ frm'[f] \in Marks
  BY <1>1, <1>2
<1>5. frm' \in [Frames -> Marks]
  BY <1>1, <1>3, <1>4
<1>6. TypeOK'
  BY <1>1, <1>2, <1>5 DEF IInv, TypeOK, Marks
<1>7. PlacesInv'
  <2>1. \A y \in Frames : y \notin At'[<<"unmapped", 0>>]
    BY <1>1, AtHoldsNext
  <2>2. \A y \in Frames : y \in At'[<<"up", 0>>] <=> y \in At[<<"up", 0>>] \/ y \in At[<<"unmapped", 0>>]
    BY <1>1, AtHolds, AtHoldsNext
  <2>3. \A r \in Spots : r # <<"unmapped", 0>> /\ r # <<"up", 0>> => At'[r] = At[r]
    BY <1>1, Elsewhere
  <2>4. InOnePlace(At, Frames) /\ <<"unmapped", 0>> # <<"up", 0>>
    BY DEF IInv, PlacesInv
  <2>5. InOnePlace(At', Frames)
    BY <2>1, <2>2, <2>3, <2>4, AtHolds, AtHoldsNext, MoveAll
  <2> QED
    BY <1>1, <2>5 DEF IInv, PlacesInv, InOnePlace
<1>8. PointInv' /\ MapInv'
  BY <1>1 DEF IInv, PointInv, MapInv
<1>9. MarkInv'
  <2>1. Range(upq) \subseteq Frames /\ Range(todo) = {}
    BY <1>1, <1>2, ListEmpty, ShortLists
  <2>2. \A o \in Outs : Range(full[o]) \subseteq Frames
    BY <1>2, ListEmpty
  <2>3. \A f \in up' : Outer(f)'
    BY <1>1, <1>2, <1>3, <1>4 DEF IInv, MarkInv, Outer
  <2>4. \A f \in Range(upq') : f \in Range(upq) /\ frm'[f] = frm[f]
    BY <1>1, <1>4, <2>1, Apart
  <2>5. \A o \in Outs : \A f \in Range(full'[o]) \cup held'[o] :
          f \in Range(full[o]) \cup held[o] /\ frm'[f] = frm[f]
    BY <1>1, <1>2, <1>4, <2>2, Apart
  <2> QED
    BY <1>1, <2>1, <2>3, <2>4, <2>5 DEF IInv, MarkInv, Outer, Inner
<1> QED
  BY <1>6, <1>7, <1>8, <1>9 DEF IInv

(* What routing a frame f of channel c to queue o does; z is the size the   *)
(* channel then has.                                                        *)
Routed(f, c, o, z) ==
  /\ tpc = "frames" /\ todo # <<>> /\ f = Head(todo) /\ f \in Range(todo)
  /\ c = frm[f].ch /\ c = frm[f].src /\ o = inCh[c].que
  /\ z = IF frm[f].flag THEN frm[f].info ELSE inCh[c].info
  /\ inCh' \in Maps /\ \A d \in InChs : d # c => inCh'[d] = inCh[d]
  /\ inCh'[c].que = o /\ inCh'[c].out = inCh[c].out /\ inCh'[c].info = z
  /\ ~inCh'[c].upd
  /\ frm' \in [Frames -> Marks] /\ \A x \in Frames : x # f => frm'[x] = frm[x]
  /\ frm'[f].ch = inCh[c].out /\ frm'[f].org = c
  /\ frm'[f].flag = (frm[f].flag \/ inCh[c].upd)
  /\ frm'[f].info = IF inCh[c].upd THEN z ELSE frm[f].info
  /\ frm'[f].src = c /\ frm'[f].pic = frm[f].pic
  /\ full' = [full EXCEPT ![o] = Append(full[o], f)]
  /\ newData' = newData \cup {o} /\ todo' = Tail(todo)
  /\ size' = size /\ up' = up /\ upq' = upq /\ prev' = prev /\ tpc' = tpc
  /\ unmapped' = unmapped /\ news' = news /\ busy' = busy /\ held' = held /\ view' = view

LEMMA RouteDoes ==
  ASSUME IInv, Route
  PROVE  \E f \in Frames, c \in InChs, o \in Outs, z \in Sizes : Routed(f, c, o, z)
<1>1. PICK f : f = Head(todo)
  OBVIOUS
<1>2. PICK c : c = frm[f].ch
  OBVIOUS
<1>3. PICK in : in = inCh[c]
  OBVIOUS
<1>4. PICK z : z = IF frm[f].flag THEN frm[f].info ELSE in.info
  OBVIOUS
<1>5. /\ tpc = "frames" /\ todo # <<>> /\ in.que \in Outs
      /\ inCh' = [inCh EXCEPT ![c].upd = FALSE, ![c].info = z]
      /\ frm' = [frm EXCEPT ![f].flag = @ \/ in.upd, ![f].info = IF in.upd THEN z ELSE @,
                            ![f].org = c, ![f].ch = in.out]
      /\ full' = [full EXCEPT ![in.que] = Append(@, f)]
      /\ newData' = newData \cup {in.que} /\ todo' = Tail(todo)
      /\ size' = size /\ up' = up /\ upq' = upq /\ prev' = prev /\ tpc' = tpc
      /\ unmapped' = unmapped /\ news' = news /\ busy' = busy /\ held' = held /\ view' = view
  BY <1>1, <1>2, <1>3, <1>4 DEF Route, source, next
<1>6. /\ todo \in Seq(Frames) /\ IsInjective(todo) /\ frm \in [Frames -> Marks] /\ inCh \in Maps
      /\ full \in [Outs -> Seq(Frames)]
      /\ \A x \in Range(todo) : frm[x].ch = frm[x].src /\ frm[x].info \in Sizes
  BY DEF IInv, TypeOK, PlacesInv, Marks, Maps, MarkInv, Outer
<1>7. f \in Frames /\ f \in Range(todo)
  BY <1>1, <1>5, <1>6, TakeHead
<1>8. /\ c = frm[f].src /\ c \in InChs /\ frm[f] \in Marks
  BY <1>2, <1>6, <1>7 DEF Marks
<1>9. /\ in \in [que : Outs \cup {NotMapped}, out : 0 .. MaxOutCh, upd : BOOLEAN, info : Sizes]
      /\ z \in Sizes
  BY <1>3, <1>4, <1>6, <1>7, <1>8 DEF Maps
<1>10. /\ inCh' \in Maps /\ \A d \in InChs : d # c => inCh'[d] = inCh[d]
       /\ inCh'[c].que = in.que /\ inCh'[c].out = in.out /\ inCh'[c].info = z
       /\ ~inCh'[c].upd
  BY <1>3, <1>5, <1>6, <1>8, <1>9 DEF Maps
<1>11. /\ frm' \in [Frames -> Marks] /\ \A x \in Frames : x # f => frm'[x] = frm[x]
       /\ frm'[f].ch = in.out /\ frm'[f].org = c
       /\ frm'[f].flag = (frm[f].flag \/ in.upd)
       /\ frm'[f].info = IF in.upd THEN z ELSE frm[f].info
       /\ frm'[f].src = c /\ frm'[f].pic = frm[f].pic
  <2> DEFINE g == frm[f].flag \/ in.upd
             n == IF in.upd THEN z ELSE frm[f].info
  <2>1. g \in BOOLEAN /\ n \in Sizes \cup {NoSize} /\ in.out \in InChs \cup (1 .. MaxOutCh)
    BY <1>3, <1>5, <1>6, <1>8, <1>9 DEF Marks, IInv, MapInv
  <2>2. frm' = [frm EXCEPT ![f].flag = g, ![f].info = n, ![f].org = c, ![f].ch = in.out]
    BY <1>5, <1>6, <1>7 DEF Marks
  <2> HIDE DEF g, n
  <2>3. /\ frm' \in [Frames -> Marks] /\ \A x \in Frames : x # f => frm'[x] = frm[x]
        /\ frm'[f].ch = in.out /\ frm'[f].org = c /\ frm'[f].flag = g /\ frm'[f].info = n
        /\ frm'[f].src = frm[f].src /\ frm'[f].pic = frm[f].pic
    BY <1>6, <1>7, <1>8, <2>1, <2>2 DEF Marks
  <2> QED
    BY <1>8, <2>3 DEF g, n
<1>12. full' = [full EXCEPT ![in.que] = Append(full[in.que], f)]
  BY <1>5, <1>6
<1>13. PICK o \in Outs : o = in.que
  BY <1>5
<1>14. Routed(f, c, o, z)
  <2>1. /\ tpc = "frames" /\ todo # <<>> /\ f = Head(todo) /\ f \in Range(todo)
        /\ c = frm[f].ch /\ c = frm[f].src /\ o = inCh[c].que
        /\ z = IF frm[f].flag THEN frm[f].info ELSE inCh[c].info
        /\ full' = [full EXCEPT ![o] = Append(full[o], f)]
        /\ newData' = newData \cup {o} /\ todo' = Tail(todo)
    BY <1>1, <1>2, <1>3, <1>4, <1>5, <1>7, <1>8, <1>12, <1>13
  <2>2. /\ inCh'[c].que = o /\ inCh'[c].out = inCh[c].out /\ inCh'[c].info = z
        /\ ~inCh'[c].upd
    BY <1>3, <1>10, <1>13
  <2>3. /\ frm'[f].ch = inCh[c].out /\ frm'[f].org = c
        /\ frm'[f].flag = (frm[f].flag \/ inCh[c].upd)
        /\ frm'[f].info = IF inCh[c].upd THEN z ELSE frm[f].info
        /\ frm'[f].src = c /\ frm'[f].pic = frm[f].pic
    BY <1>3, <1>11
  <2> QED
    BY <1>5, <1>10, <1>11, <2>1, <2>2, <2>3 DEF Routed
<1>15. f \in Frames /\ c \in InChs /\ z \in Sizes
  BY <1>7, <1>8, <1>9
<1> QED
  BY <1>14, <1>15

LEMMA RouteKeeps ==
  ASSUME IInv, Route PROVE IInv'
<1>1. PICK f \in Frames, c \in InChs, o \in Outs, z \in Sizes : Routed(f, c, o, z)
  BY RouteDoes
<1>2. /\ todo \in Seq(Frames) /\ todo # <<>> /\ IsInjective(todo) /\ f = Head(todo)
      /\ full \in [Outs -> Seq(Frames)] /\ inCh \in Maps /\ IsInjective(full[o])
      /\ f \in Range(todo) /\ full' = [full EXCEPT ![o] = Append(full[o], f)]
      /\ todo' = Tail(todo) /\ newData' = newData \cup {o}
      /\ \A x \in Frames : x # f => frm'[x] = frm[x]
      /\ \A d \in InChs : d # c => inCh'[d] = inCh[d]
      /\ inCh'[c].que = o /\ inCh'[c].out = inCh[c].out
  BY <1>1 DEF IInv, TypeOK, PlacesInv, Maps, Routed
<1>3. /\ Tail(todo) \in Seq(Frames) /\ IsInjective(Tail(todo))
      /\ \A x : x \in Range(Tail(todo)) <=> x \in Range(todo) /\ x # f
  BY <1>2, TakeHead
<1>4. /\ f \notin up /\ f \notin Range(upq) /\ f \notin unmapped
      /\ \A q \in Outs : f \notin Range(full[q]) /\ f \notin held[q]
  BY <1>2, Apart
<1>5. /\ Append(full[o], f) \in Seq(Frames) /\ IsInjective(Append(full[o], f))
      /\ \A x : x \in Range(Append(full[o], f)) <=> x \in Range(full[o]) \/ x = f
  BY <1>2, <1>4, PutLast
<1>6. /\ full'[o] = Append(full[o], f)
      /\ \A q \in Outs : q # o => full'[q] = full[q]
      /\ full' \in [Outs -> Seq(Frames)]
  BY <1>2, <1>5
<1>7. TypeOK'
  BY <1>1, <1>2, <1>3, <1>6 DEF IInv, TypeOK, Routed, Maps, Marks
<1>8. PlacesInv'
  <2>1. \A y \in Frames : y \in At'[<<"todo", 0>>] <=> y \in At[<<"todo", 0>>] /\ y # f
    BY <1>2, <1>3, AtHolds, AtHoldsNext
  <2>2. \A y \in Frames : y \in At'[<<"full", o>>] <=> y \in At[<<"full", o>>] \/ y = f
    BY <1>5, <1>6, AtHolds, AtHoldsNext
  <2>3. \A r \in Spots : r # <<"todo", 0>> /\ r # <<"full", o>> => At'[r] = At[r]
    <3>1. /\ up' = up /\ upq' = upq /\ unmapped' = unmapped /\ held' = held
          /\ \A q \in Outs : <<"full", q>> \notin {<<"todo", 0>>, <<"full", o>>} => full'[q] = full[q]
      BY <1>1, <1>6 DEF Routed
    <3> DEFINE p == <<"todo", 0>>
               q == <<"full", o>>
    <3>2. /\ <<"up", 0>> \notin {p, q} => up' = up
          /\ <<"upq", 0>> \notin {p, q} => upq' = upq
          /\ <<"todo", 0>> \notin {p, q} => todo' = todo
          /\ <<"unmapped", 0>> \notin {p, q} => unmapped' = unmapped
          /\ \A x \in Outs : <<"full", x>> \notin {p, q} => full'[x] = full[x]
          /\ \A x \in Outs : <<"held", x>> \notin {p, q} => held'[x] = held[x]
      BY <3>1
    <3> HIDE DEF p, q
    <3>3. \A r \in Spots : r # p /\ r # q => At'[r] = At[r]
      BY <3>2, Elsewhere
    <3> QED
      BY <3>3 DEF p, q
  <2>4. /\ InOnePlace(At, Frames) /\ f \in At[<<"todo", 0>>]
        /\ <<"todo", 0>> # <<"full", o>>
    BY <1>2, AtHolds DEF IInv, PlacesInv
  <2>5. <<"full", o>> \in Spots
    BY AtHolds
  <2>6. InOnePlace(At', Frames)
    BY <2>1, <2>2, <2>3, <2>4, <2>5, AtHolds, AtHoldsNext, MoveOne
  <2> QED
    BY <1>1, <1>2, <1>3, <1>5, <1>6, <2>6 DEF IInv, PlacesInv, InOnePlace, Routed
<1>9. PointInv'
  BY <1>1 DEF PointInv, Routed
<1>10. MapInv'
  <2>1. inCh[c].out \in 1 .. MaxOutCh
    BY <1>1 DEF IInv, MapInv, Routed
  <2> QED
    BY <1>2, <2>1 DEF IInv, MapInv
<1>11. MarkInv'
  <2>1. \A x \in Frames : x # f => (Outer(x)' <=> Outer(x)) /\ (Inner(x)' <=> Inner(x))
    BY <1>2 DEF Outer, Inner
  <2>2. Inner(f)'
    <3>1. frm'[f].org = c /\ frm'[f].src = c /\ frm'[f].ch = inCh[c].out
      BY <1>1 DEF Routed
    <3>2. inCh[c].out \in 1 .. MaxOutCh
      BY <1>1 DEF IInv, MapInv, Routed
    <3> QED
      BY <3>1, <3>2 DEF Inner
  <2>3. up' = up /\ unmapped' = unmapped /\ upq' = upq /\ held' = held
    BY <1>1 DEF Routed
  <2>4. /\ up \subseteq Frames /\ unmapped \subseteq Frames /\ Range(upq) \subseteq Frames
        /\ Range(todo) \subseteq Frames
        /\ \A q \in Outs : Range(full[q]) \subseteq Frames /\ held[q] \subseteq Frames
    BY <1>2, ListEmpty DEF IInv, TypeOK
  <2>5. \A x \in up' \cup unmapped' : Outer(x)'
    BY <1>4, <2>1, <2>3, <2>4 DEF IInv, MarkInv
  <2>6. \A x \in Range(upq') : Outer(x)' /\ frm'[x].info \in Sizes
    BY <1>2, <1>4, <2>1, <2>3, <2>4 DEF IInv, MarkInv
  <2>7. \A x \in Range(todo') : Outer(x)' /\ frm'[x].info \in Sizes
    BY <1>2, <1>3, <2>1, <2>4 DEF IInv, MarkInv
  <2>8. ASSUME NEW q \in Outs
        PROVE  /\ \A x \in Range(full'[q]) : Inner(x)'
               /\ \A x \in held'[q] : Inner(x)'
    BY <1>4, <1>5, <1>6, <2>1, <2>2, <2>3, <2>4 DEF IInv, MarkInv
  <2> QED
    BY <2>5, <2>6, <2>7, <2>8 DEF MarkInv
<1> QED
  BY <1>7, <1>8, <1>9, <1>10, <1>11 DEF IInv

(* Steps that move no frame: the link task's notifications, and a next link *)
(* beginning and ending its fetch.                                          *)
LEMMA NewsKeeps ==
  ASSUME IInv, Notify \/ \E o \in Outs : BeginFetch(o) \/ EndFetch(o)
  PROVE  IInv'
<1>1. /\ size' = size /\ inCh' = inCh /\ prev' = prev /\ frm' = frm
      /\ up' = up /\ upq' = upq /\ todo' = todo /\ unmapped' = unmapped
      /\ full' = full /\ held' = held /\ view' = view
  BY DEF Notify, BeginFetch, EndFetch, source, task, next
<1>2. /\ busy' \in [Outs -> BOOLEAN] /\ news' \in [Outs -> BOOLEAN]
      /\ newData' \subseteq Outs /\ tpc' \in {"recv", "frames", "notify"}
      /\ tpc' # "frames" => tpc # "frames"
  BY DEF IInv, TypeOK, Notify, BeginFetch, EndFetch, source, task, next
<1>3. TypeOK'
  BY <1>1, <1>2 DEF IInv, TypeOK
<1>4. PlacesInv'
  BY <1>1, Stays DEF IInv
<1>5. PointInv' /\ MarkInv' /\ MapInv'
  BY <1>1, <1>2 DEF IInv, PointInv, MarkInv, MapInv, Outer, Inner
<1> QED
  BY <1>3, <1>4, <1>5 DEF IInv

(* A next link takes the frame at the head of its queue, of channel k, which *)
(* it takes to be of size z.                                                *)
Taken(o, f, k, z) ==
  /\ full[o] # <<>> /\ f = Head(full[o]) /\ f \in Range(full[o]) /\ f \in Frames
  /\ k = frm[f].ch /\ k \in 1 .. MaxOutCh /\ z = Seen(o, f)
  /\ view' = [view EXCEPT ![o][k] = z]
  /\ held' = [held EXCEPT ![o] = held[o] \cup {f}]
  /\ full' = [full EXCEPT ![o] = Tail(full[o])]
  /\ size' = size /\ inCh' = inCh /\ prev' = prev /\ frm' = frm
  /\ up' = up /\ upq' = upq /\ tpc' = tpc /\ todo' = todo /\ unmapped' = unmapped
  /\ newData' = newData /\ news' = news /\ busy' = busy

LEMMA TakeDoes ==
  ASSUME IInv, NEW o \in Outs, Take(o)
  PROVE  \E f \in Frames, k \in 1 .. MaxOutCh, z \in Sizes \cup {NoSize} : Taken(o, f, k, z)
<1>1. PICK f : f = Head(full[o])
  OBVIOUS
<1>2. PICK k : k = frm[f].ch
  OBVIOUS
<1>3. PICK z : z = Seen(o, f)
  OBVIOUS
<1>4. /\ full[o] # <<>> /\ view' = [view EXCEPT ![o][k] = z]
      /\ held' = [held EXCEPT ![o] = @ \cup {f}] /\ full' = [full EXCEPT ![o] = Tail(@)]
      /\ size' = size /\ inCh' = inCh /\ prev' = prev /\ frm' = frm
      /\ up' = up /\ upq' = upq /\ tpc' = tpc /\ todo' = todo /\ unmapped' = unmapped
      /\ newData' = newData /\ news' = news /\ busy' = busy
  BY <1>1, <1>2, <1>3 DEF Take, source, task
<1>5. /\ full \in [Outs -> Seq(Frames)] /\ IsInjective(full[o]) /\ held \in [Outs -> SUBSET Frames]
      /\ frm \in [Frames -> Marks] /\ view \in [Outs -> [1 .. MaxOutCh -> Sizes \cup {NoSize}]]
  BY DEF IInv, TypeOK, PlacesInv, Marks
<1>6. f \in Frames /\ f \in Range(full[o])
  BY <1>1, <1>4, <1>5, TakeHead
<1>7. k \in 1 .. MaxOutCh
  BY <1>2, <1>6 DEF IInv, MarkInv, Inner
<1>8. z \in Sizes \cup {NoSize}
  BY <1>2, <1>3, <1>5, <1>6, <1>7 DEF Seen, Marks
<1>9. /\ held' = [held EXCEPT ![o] = held[o] \cup {f}]
      /\ full' = [full EXCEPT ![o] = Tail(full[o])]
  BY <1>4, <1>5
<1>10. Taken(o, f, k, z)
  BY <1>1, <1>2, <1>3, <1>4, <1>6, <1>7, <1>9 DEF Taken
<1> QED
  BY <1>6, <1>7, <1>8, <1>10

LEMMA TakeKeeps ==
  ASSUME IInv, NEW o \in Outs, Take(o) PROVE IInv'
<1>1. PICK f \in Frames, k \in 1 .. MaxOutCh, z \in Sizes \cup {NoSize} : Taken(o, f, k, z)
  BY TakeDoes
<1>2. /\ full[o] # <<>> /\ f = Head(full[o]) /\ f \in Range(full[o])
      /\ view' = [view EXCEPT ![o][k] = z]
      /\ held' = [held EXCEPT ![o] = held[o] \cup {f}]
      /\ full' = [full EXCEPT ![o] = Tail(full[o])]
      /\ size' = size /\ inCh' = inCh /\ prev' = prev /\ frm' = frm
      /\ up' = up /\ upq' = upq /\ tpc' = tpc /\ todo' = todo /\ unmapped' = unmapped
      /\ newData' = newData /\ news' = news /\ busy' = busy
  BY <1>1 DEF Taken
<1>3. /\ full \in [Outs -> Seq(Frames)] /\ IsInjective(full[o]) /\ held \in [Outs -> SUBSET Frames]
      /\ view \in [Outs -> [1 .. MaxOutCh -> Sizes \cup {NoSize}]]
  BY DEF IInv, TypeOK, PlacesInv
<1>4. /\ Tail(full[o]) \in Seq(Frames) /\ IsInjective(Tail(full[o]))
      /\ \A x : x \in Range(Tail(full[o])) <=> x \in Range(full[o]) /\ x # f
  BY <1>2, <1>3, TakeHead
<1>5. /\ full' \in [Outs -> Seq(Frames)] /\ full'[o] = Tail(full[o])
      /\ \A q \in Outs : q # o => full'[q] = full[q] /\ held'[q] = held[q]
      /\ held' \in [Outs -> SUBSET Frames] /\ held'[o] = held[o] \cup {f}
      /\ view' \in [Outs -> [1 .. MaxOutCh -> Sizes \cup {NoSize}]]
  BY <1>2, <1>3, <1>4
<1>6. TypeOK'
  BY <1>2, <1>5 DEF IInv, TypeOK
<1>7. PlacesInv'
  <2> DEFINE p == <<"full", o>>
             q == <<"held", o>>
  <2>1. p \in Spots /\ q \in Spots /\ p # q /\ f \in At[p]
    BY <1>2, AtHolds
  <2>2. \A y \in Frames : y \in At'[p] <=> y \in At[p] /\ y # f
    BY <1>4, <1>5, AtHolds, AtHoldsNext
  <2>3. \A y \in Frames : y \in At'[q] <=> y \in At[q] \/ y = f
    BY <1>5, AtHolds, AtHoldsNext
  <2>4. /\ <<"up", 0>> \notin {p, q} => up' = up
        /\ <<"upq", 0>> \notin {p, q} => upq' = upq
        /\ <<"todo", 0>> \notin {p, q} => todo' = todo
        /\ <<"unmapped", 0>> \notin {p, q} => unmapped' = unmapped
        /\ \A x \in Outs : <<"full", x>> \notin {p, q} => full'[x] = full[x]
        /\ \A x \in Outs : <<"held", x>> \notin {p, q} => held'[x] = held[x]
    BY <1>2, <1>5
  <2> HIDE DEF p, q
  <2>5. \A r \in Spots : r # p /\ r # q => At'[r] = At[r]
    BY <2>4, Elsewhere
  <2>6. InOnePlace(At, Frames)
    BY DEF IInv, PlacesInv
  <2>7. InOnePlace(At', Frames)
    BY <2>1, <2>2, <2>3, <2>5, <2>6, AtHolds, AtHoldsNext, MoveOne
  <2> QED
    BY <1>2, <1>4, <1>5, <2>7 DEF IInv, PlacesInv
<1>8. PointInv' /\ MapInv'
  BY <1>2 DEF IInv, PointInv, MapInv
<1>9. MarkInv'
  <2>1. ASSUME NEW q \in Outs
        PROVE  /\ \A x \in Range(full'[q]) : Inner(x)
               /\ \A x \in held'[q] : Inner(x)
    BY <1>2, <1>4, <1>5 DEF IInv, MarkInv
  <2> QED
    BY <1>2, <2>1 DEF IInv, MarkInv, Outer, Inner
<1> QED
  BY <1>6, <1>7, <1>8, <1>9 DEF IInv

(* A frame a next link is done with goes back under its first number.       *)
LEMMA PutEmptyKeeps ==
  ASSUME IInv, NEW o \in Outs, NEW f \in Frames, PutEmpty(o, f)
  PROVE  IInv'
<1>1. /\ f \in held[o] /\ held' = [held EXCEPT ![o] = @ \ {f}]
      /\ frm' = [frm EXCEPT ![f] = Returned(frm[f].org, frm[f].src)] /\ up' = up \cup {f}
      /\ size' = size /\ upq' = upq /\ inCh' = inCh /\ prev' = prev /\ tpc' = tpc
      /\ todo' = todo /\ unmapped' = unmapped /\ newData' = newData /\ full' = full
      /\ news' = news /\ busy' = busy /\ view' = view
  BY DEF PutEmpty, Restored, task
<1>2. /\ held \in [Outs -> SUBSET Frames] /\ frm \in [Frames -> Marks] /\ up \subseteq Frames
      /\ upq \in Seq(Frames) /\ todo \in Seq(Frames) /\ unmapped \subseteq Frames
      /\ \A q \in Outs : full[q] \in Seq(Frames)
  BY DEF IInv, TypeOK, Marks
<1>3. /\ f \notin up /\ f \notin Range(upq) /\ f \notin Range(todo) /\ f \notin unmapped
      /\ \A q \in Outs : f \notin Range(full[q]) /\ (q # o => f \notin held[q])
  BY <1>1, Apart
<1>4. frm[f] \in Marks /\ frm[f].org = frm[f].src
  BY <1>1, <1>2 DEF IInv, MarkInv, Inner
<1>5. Returned(frm[f].org, frm[f].src) \in Marks
  BY <1>4 DEF Returned, Marks
<1>6. /\ frm' \in [Frames -> Marks] /\ frm'[f].ch = frm'[f].src
      /\ \A x \in Frames : x # f => frm'[x] = frm[x]
  BY <1>1, <1>2, <1>4, <1>5 DEF Returned
<1>7. /\ held' \in [Outs -> SUBSET Frames] /\ held'[o] = held[o] \ {f}
      /\ \A q \in Outs : q # o => held'[q] = held[q]
  BY <1>1, <1>2
<1>8. TypeOK'
  BY <1>1, <1>2, <1>6, <1>7 DEF IInv, TypeOK, Marks
<1>9. PlacesInv'
  <2> DEFINE p == <<"held", o>>
             q == <<"up", 0>>
  <2>1. p \in Spots /\ q \in Spots /\ p # q /\ f \in At[p]
    BY <1>1, AtHolds
  <2>2. \A y \in Frames : y \in At'[p] <=> y \in At[p] /\ y # f
    BY <1>7, AtHolds, AtHoldsNext
  <2>3. \A y \in Frames : y \in At'[q] <=> y \in At[q] \/ y = f
    BY <1>1, AtHolds, AtHoldsNext
  <2>4. /\ <<"up", 0>> \notin {p, q} => up' = up
        /\ <<"upq", 0>> \notin {p, q} => upq' = upq
        /\ <<"todo", 0>> \notin {p, q} => todo' = todo
        /\ <<"unmapped", 0>> \notin {p, q} => unmapped' = unmapped
        /\ \A x \in Outs : <<"full", x>> \notin {p, q} => full'[x] = full[x]
        /\ \A x \in Outs : <<"held", x>> \notin {p, q} => held'[x] = held[x]
    BY <1>1, <1>7
  <2> HIDE DEF p, q
  <2>5. \A r \in Spots : r # p /\ r # q => At'[r] = At[r]
    BY <2>4, Elsewhere
  <2>6. InOnePlace(At, Frames)
    BY DEF IInv, PlacesInv
  <2>7. InOnePlace(At', Frames)
    BY <2>1, <2>2, <2>3, <2>5, <2>6, AtHolds, AtHoldsNext, MoveOne
  <2> QED
    BY <1>1, <2>7 DEF IInv, PlacesInv
<1>10. PointInv' /\ MapInv'
  BY <1>1 DEF IInv, PointInv, MapInv
<1>11. MarkInv'
  <2>1. /\ Range(upq) \subseteq Frames /\ Range(todo) \subseteq Frames
        /\ \A q \in Outs : Range(full[q]) \subseteq Frames
    BY <1>2, ListEmpty
  <2>2. \A x \in up' : Outer(x)'
    BY <1>1, <1>2, <1>6 DEF IInv, MarkInv, Outer
  <2>3. \A x \in unmapped' : Outer(x)'
    BY <1>1, <1>2, <1>3, <1>6 DEF IInv, MarkInv, Outer
  <2>4. /\ \A x \in Range(upq') : x \in Range(upq) /\ frm'[x] = frm[x]
        /\ \A x \in Range(todo') : x \in Range(todo) /\ frm'[x] = frm[x]
    BY <1>1, <1>3, <1>6, <2>1
  <2>5. ASSUME NEW q \in Outs, NEW x \in Range(full'[q]) \cup held'[q]
        PROVE  x \in Range(full[q]) \cup held[q] /\ frm'[x] = frm[x]
    BY <1>1, <1>2, <1>3, <1>6, <1>7, <2>1
  <2> QED
    BY <2>2, <2>3, <2>4, <2>5, SameMarks DEF IInv
<1> QED
  BY <1>8, <1>9, <1>10, <1>11 DEF IInv

(* Every channel starts unmapped, or listed for the queue it is mapped to.  *)
LEMMA InitMap ==
  ASSUME Init, NEW d \in InChs
  PROVE  /\ inCh[d] \in [que : Outs \cup {NotMapped}, out : 0 .. MaxOutCh,
                         upd : BOOLEAN, info : Sizes]
         /\ inCh[d].que \in Outs => /\ inCh[d].out \in DOMAIN prev[inCh[d].que]
                                    /\ prev[inCh[d].que][inCh[d].out] = d
         /\ inCh[d].que \notin Outs => \A o \in Outs : d \notin Range(prev[o])
         /\ inCh[d].info = size[d]
         /\ inCh[d].upd \/ inCh[d].que \notin Outs
<1>5. size \in [InChs -> Sizes] /\ prev \in [Outs -> Routes]
  BY DEF Init
<1> DEFINE mine == {o \in Outs : d \in Range(prev[o])}
           q == CHOOSE x \in mine : TRUE
           i == CHOOSE x \in DOMAIN prev[q] : prev[q][x] = d
<1>1. inCh[d] = IF mine = {}
                THEN [que |-> NotMapped, out |-> 0, upd |-> FALSE, info |-> size[d]]
                ELSE [que |-> q, out |-> i, upd |-> TRUE, info |-> size[d]]
  BY DEF Init
<1>2. ASSUME mine # {}
      PROVE  q \in Outs /\ i \in DOMAIN prev[q] /\ prev[q][i] = d /\ i \in 0 .. MaxOutCh
  <2>1. q \in mine
    BY <1>2
  <2>2. q \in Outs /\ d \in Range(prev[q]) /\ prev[q] \in Routes
    BY <1>5, <2>1
  <2> HIDE DEF q
  <2>3. i \in DOMAIN prev[q] /\ prev[q][i] = d
    BY <2>2, RouteFacts
  <2>4. i \in 1 .. MaxOutCh
    BY <2>2, <2>3, RouteFacts
  <2>5. i \in 0 .. MaxOutCh
    BY <2>4, SelectAssumption
  <2> QED
    BY <2>2, <2>3, <2>5
<1>3. 0 \in 0 .. MaxOutCh /\ size[d] \in Sizes
  BY <1>5, SelectAssumption
<1>4. mine = {} <=> \A o \in Outs : d \notin Range(prev[o])
  OBVIOUS
<1> HIDE DEF mine, q, i
<1> QED
  BY <1>1, <1>2, <1>3, <1>4, NotAQueue

(* Every channel starts unmapped or listed for one queue, every frame with  *)
(* the previous link.                                                       *)
LEMMA InitKeeps ==
  ASSUME Init PROVE IInv
<1>1. PICK c \in InChs : frm = [f \in Frames |-> Returned(c, c)]
  BY DEF Init
<1>2. /\ size \in [InChs -> Sizes] /\ prev \in [Outs -> Routes]
      /\ up = Frames /\ upq = <<>> /\ tpc = "recv" /\ todo = <<>> /\ unmapped = {}
      /\ newData = {} /\ full = [o \in Outs |-> <<>>] /\ busy = [o \in Outs |-> FALSE]
      /\ news = [o \in Outs |-> FALSE] /\ held = [o \in Outs |-> {}]
  BY DEF Init
<1>3. <<>> \in Seq(Frames) /\ Range(<<>>) = {} /\ IsInjective(<<>>)
  BY ShortLists
<1>4. frm \in [Frames -> Marks] /\ \A f \in Frames : Outer(f)
  <2>1. Returned(c, c) \in Marks
    BY DEF Returned, Marks
  <2> QED
    BY <1>1, <2>1 DEF Outer, Returned
<1>5. \A d \in InChs :
        /\ inCh[d] \in [que : Outs \cup {NotMapped}, out : 0 .. MaxOutCh,
                        upd : BOOLEAN, info : Sizes]
        /\ inCh[d].que \in Outs => /\ inCh[d].out \in DOMAIN prev[inCh[d].que]
                                   /\ prev[inCh[d].que][inCh[d].out] = d
  BY InitMap
<1>6. inCh \in [InChs -> [que : Outs \cup {NotMapped}, out : 0 .. MaxOutCh,
                          upd : BOOLEAN, info : Sizes]]
  <2>1. inCh = [d \in InChs |-> inCh[d]]
    BY DEF Init
  <2> QED
    BY <1>5, <2>1
<1>7. view \in [Outs -> [1 .. MaxOutCh -> Sizes \cup {NoSize}]]
  <2>1. view = [o \in Outs |-> [k \in 1 .. MaxOutCh |->
                  IF k \in DOMAIN prev[o] THEN size[prev[o][k]] ELSE NoSize]]
    BY DEF Init
  <2>2. ASSUME NEW o \in Outs, NEW k \in 1 .. MaxOutCh, k \in DOMAIN prev[o]
        PROVE  size[prev[o][k]] \in Sizes
    <3>1. prev[o] \in Routes /\ prev[o][k] \in Range(prev[o])
      BY <1>2, <2>2 DEF Range
    <3>2. prev[o][k] \in InChs
      BY <3>1, RouteFacts
    <3> QED
      BY <1>2, <3>2
  <2> QED
    BY <2>1, <2>2
<1>8. TypeOK
  BY <1>2, <1>3, <1>4, <1>6, <1>7 DEF TypeOK, Marks
<1>9. PlacesInv
  <2>1. At[<<"up", 0>>] = Frames /\ <<"up", 0>> \in Spots
    BY <1>2, AtHolds
  <2>2. ASSUME NEW r \in Spots, r # <<"up", 0>> PROVE At[r] = {}
    <3>1. CASE r \in {<<"upq", 0>>, <<"todo", 0>>, <<"unmapped", 0>>}
      BY <1>2, <1>3, <3>1, AtHolds
    <3>2. CASE \E o \in Outs : r = <<"full", o>>
      <4>1. PICK o \in Outs : r = <<"full", o>>
        BY <3>2
      <4>2. At[r] = Range(full[o]) /\ full[o] = <<>>
        BY <1>2, <4>1, AtHolds
      <4> QED
        BY <1>3, <4>2
    <3>3. CASE \E o \in Outs : r = <<"held", o>>
      <4>1. PICK o \in Outs : r = <<"held", o>>
        BY <3>3
      <4> QED
        BY <1>2, <4>1, AtHolds
    <3> QED
      BY <2>2, <3>1, <3>2, <3>3 DEF Spots
  <2>3. InOnePlace(At, Frames)
    BY <2>1, <2>2, AtHolds DEF InOnePlace
  <2> QED
    BY <1>2, <1>3, <2>3 DEF PlacesInv
<1>10. PointInv /\ MarkInv
  BY <1>2, <1>3, <1>4 DEF PointInv, MarkInv
<1>11. MapInv
  <2>1. ASSUME NEW d \in InChs, inCh[d].que \in Outs PROVE inCh[d].out \in 1 .. MaxOutCh
    <3>1. prev[inCh[d].que] \in Routes /\ inCh[d].out \in DOMAIN prev[inCh[d].que]
      BY <1>2, <1>5, <2>1
    <3> QED
      BY <3>1, RouteFacts
  <2> QED
    BY <2>1 DEF MapInv
<1> QED
  BY <1>8, <1>9, <1>10, <1>11 DEF IInv

LEMMA NextKeeps ==
  ASSUME IInv, [Next]_vars PROVE IInv'
<1>1. CASE Next
  <2>1. ASSUME NEW o \in Outs, NEW s \in Routes, SetOutQue(o, s) \/ SetOutQue2(o, s) PROVE IInv'
    BY <2>1, CommandKeeps
  <2>2. ASSUME NEW f \in Frames, NEW c \in InChs, NEW z \in Sizes, Produce(f, c, z) PROVE IInv'
    BY <2>2, ProduceKeeps
  <2>3. CASE TaskStep
    BY <2>3, GetFullKeeps, SkipKeeps, RouteKeeps, FreeUnmappedKeeps, NewsKeeps DEF TaskStep
  <2>4. ASSUME NEW o \in Outs, NextStep(o) PROVE IInv'
    BY <2>4, NewsKeeps, TakeKeeps DEF NextStep
  <2>5. ASSUME NEW o \in Outs, NEW f \in Frames, PutEmpty(o, f) PROVE IInv'
    BY <2>5, PutEmptyKeeps
  <2> QED
    BY <1>1, <2>1, <2>2, <2>3, <2>4, <2>5 DEF Next
<1>2. CASE UNCHANGED vars
  <2>1. /\ size' = size /\ inCh' = inCh /\ prev' = prev /\ frm' = frm /\ up' = up /\ upq' = upq
        /\ tpc' = tpc /\ todo' = todo /\ unmapped' = unmapped /\ newData' = newData
        /\ full' = full /\ news' = news /\ busy' = busy /\ held' = held /\ view' = view
    BY <1>2 DEF vars, source, task, next
  <2>2. TypeOK' /\ PointInv' /\ MarkInv' /\ MapInv'
    BY <2>1 DEF IInv, TypeOK, PointInv, MarkInv, MapInv, Outer, Inner
  <2>3. PlacesInv'
    BY <2>1, Stays DEF IInv
  <2> QED
    BY <2>2, <2>3 DEF IInv
<1> QED
  BY <1>1, <1>2

LEMMA InvAlways == Spec => []IInv
BY InitKeeps, NextKeeps, PTL DEF Spec

(* Whatever routing commands came while a frame was out, it is back with    *)
(* the previous link under the channel number it was sent with: the link    *)
(* restores the number the frame carries, not one of the routing table.     *)
THEOREM ChannelAlwaysRestored == Spec => []ChannelRestored
<1>1. IInv => ChannelRestored
  BY DEF IInv, MarkInv, Outer, ChannelRestored
<1> QED
  BY <1>1, InvAlways, PTL

-----------------------------------------------------------------------------
(* The reported routing, when commands are all of the kind that removes the *)
(* routing it replaces.                                                     *)

Replacing == "SET" \notin Commands

LEMMA InitRouting ==
  ASSUME Init PROVE InfoIsRouting
<1>1. ASSUME NEW o \in Outs, NEW c \in InChs
      PROVE  \/ inCh[c].que # o /\ c \notin Range(prev[o])
             \/ /\ inCh[c].que = o
                /\ inCh[c].out \in DOMAIN prev[o] /\ prev[o][inCh[c].out] = c
  <2>1. CASE inCh[c].que = o
    BY <2>1, InitMap
  <2>2. CASE inCh[c].que \notin Outs
    BY <2>2, InitMap
  <2>3. CASE inCh[c].que \in Outs /\ inCh[c].que # o
    <3>1. PICK q \in Outs : q = inCh[c].que
      BY <2>3
    <3>2. c \in Range(prev[q])
      BY <3>1, InitMap DEF Range
    <3>3. Range(prev[o]) \cap Range(prev[q]) = {}
      BY <2>3, <3>1 DEF Init
    <3> QED
      BY <2>3, <3>2, <3>3
  <2> QED
    BY <2>1, <2>2, <2>3
<1> QED
  BY <1>1 DEF InfoIsRouting

LEMMA CommandKeepsRouting ==
  ASSUME IInv, InfoIsRouting, NEW o \in Outs, NEW s \in Routes, SetOutQue2(o, s)
  PROVE  InfoIsRouting'
<1>1. /\ Allowed(o, s) /\ inCh' = Mapped(Unmap(inCh, o), o, s)
      /\ prev' = [prev EXCEPT ![o] = s]
  BY DEF SetOutQue2
<1>2. inCh \in Maps /\ prev \in [Outs -> Routes]
  BY DEF IInv, TypeOK, Maps
<1>3. PICK m \in Maps : m = Unmap(inCh, o)
  BY <1>2, UnmapFacts
<1>4. prev'[o] = s /\ \A q \in Outs : q # o => prev'[q] = prev[q]
  BY <1>1, <1>2
<1>5. ASSUME NEW q \in Outs, NEW c \in InChs
      PROVE  \/ inCh'[c].que # q /\ c \notin Range(prev'[q])
             \/ /\ inCh'[c].que = q
                /\ inCh'[c].out \in DOMAIN prev'[q] /\ prev'[q][inCh'[c].out] = c
  <2>1. /\ c \in Range(prev[o]) <=> inCh[c].que = o
        /\ c \in Range(prev[q]) <=> inCh[c].que = q
    BY DEF InfoIsRouting, Range
  <2>2. CASE c \in Range(s)
    <3>1. inCh'[c].que = o /\ inCh'[c].out \in DOMAIN s /\ s[inCh'[c].out] = c
      BY <1>1, <1>3, <2>2, MapFacts
    <3>2. CASE q = o
      BY <1>4, <3>1, <3>2
    <3>3. CASE q # o
      BY <1>1, <1>4, <2>2, <3>1, <3>3 DEF Allowed
    <3> QED
      BY <3>2, <3>3
  <2>3. CASE c \notin Range(s) /\ c \in Range(prev[o])
    <3>1. inCh'[c].que = NotMapped
      <4>1. inCh'[c] = m[c]
        BY <1>1, <1>3, <2>3, MapFacts
      <4>2. m[c].que = NotMapped
        BY <1>2, <1>3, <2>3, UnmapFacts
      <4> QED
        BY <4>1, <4>2
    <3>2. inCh'[c].que # q
      BY <3>1, NotAQueue
    <3>3. c \notin Range(prev'[q])
      BY <1>4, <2>1, <2>3
    <3> QED
      BY <3>2, <3>3
  <2>4. CASE c \notin Range(s) /\ c \notin Range(prev[o])
    <3>1. inCh'[c] = inCh[c]
      <4>1. inCh'[c] = m[c]
        BY <1>1, <1>3, <2>4, MapFacts
      <4>2. m[c] = inCh[c]
        BY <1>2, <1>3, <2>4, UnmapFacts
      <4> QED
        BY <4>1, <4>2
    <3>2. CASE q = o
      BY <1>4, <2>1, <2>4, <3>1, <3>2
    <3>3. CASE q # o
      BY <1>4, <3>1, <3>3 DEF InfoIsRouting
    <3> QED
      BY <3>2, <3>3
  <2> QED
    BY <2>2, <2>3, <2>4
<1> QED
  BY <1>5 DEF InfoIsRouting

(* Nothing but a command changes the routing.                               *)
LEMMA RoutingKept ==
  ASSUME IInv, [Next]_vars, Replacing,
         ~ \E o \in Outs, s \in Routes : SetOutQue2(o, s)
  PROVE  /\ prev' = prev
         /\ \A c \in InChs : inCh'[c].que = inCh[c].que /\ inCh'[c].out = inCh[c].out
<1>1. CASE Route
  <2>1. PICK f \in Frames, c \in InChs, o \in Outs, z \in Sizes : Routed(f, c, o, z)
    BY <1>1, RouteDoes
  <2> QED
    BY <2>1 DEF Routed
<1>2. CASE ~Route
  <2>1. prev' = prev /\ inCh' = inCh
    BY <1>2 DEF Replacing, Next, SetOutQue, Produce, TaskStep, GetFull, Skip, FreeUnmapped,
                Notify, NextStep, BeginFetch, Take, EndFetch, PutEmpty, vars
  <2> QED
    BY <2>1
<1> QED
  BY <1>1, <1>2

LEMMA NextKeepsRouting ==
  ASSUME IInv, InfoIsRouting, [Next]_vars, Replacing
  PROVE  InfoIsRouting'
<1>1. CASE \E o \in Outs, s \in Routes : SetOutQue2(o, s)
  BY <1>1, CommandKeepsRouting
<1>2. CASE ~ \E o \in Outs, s \in Routes : SetOutQue2(o, s)
  <2>1. /\ prev' = prev
        /\ \A c \in InChs : inCh'[c].que = inCh[c].que /\ inCh'[c].out = inCh[c].out
    BY <1>2, RoutingKept
  <2> QED
    BY <2>1 DEF InfoIsRouting
<1> QED
  BY <1>1, <1>2

LEMMA RoutingAlways ==
  ASSUME Replacing PROVE Spec => [](IInv /\ InfoIsRouting)
<1>1. Init => IInv /\ InfoIsRouting
  BY InitKeeps, InitRouting
<1>2. IInv /\ InfoIsRouting /\ [Next]_vars => (IInv /\ InfoIsRouting)'
  BY NextKeeps, NextKeepsRouting
<1> QED
  BY <1>1, <1>2, PTL DEF Spec

(* The channels GET_OUT_QUE_CH_INFO reports for a queue are the ones routed *)
(* to it, in their order, at every moment and after any sequence of         *)
(* SET_OUT_QUE_CH_INFO2 commands.  SET_OUT_QUE_CH_INFO does not remove what *)
(* it replaces: after it a channel no longer listed can still be routed.    *)
THEOREM RoutingAlwaysOK ==
  ASSUME Replacing PROVE Spec => []RoutingOK
<1>1. IInv /\ InfoIsRouting => RoutingOK
  BY DEF IInv, RoutingOK
<1> QED
  BY <1>1, RoutingAlways, PTL

-----------------------------------------------------------------------------
(* Picture sizes, when they do not change.                                  *)

Steady == Replacing /\ Resizes = FALSE

(* What a next link knows from frames, and before them, that stay as they   *)
(* are.                                                                     *)
LEMMA LatestSame ==
  ASSUME NEW q \in Outs, NEW i \in Nat, NEW k, NEW z, view'[q] = view[q],
         \A h \in 1 .. i : full'[q][h] = full[q][h] /\ frm'[full[q][h]] = frm[full[q][h]]
  PROVE  Latest(q, i, k, z)' <=> Latest(q, i, k, z)
<1>1. \A h \in 1 .. i : /\ frm'[full'[q][h]].ch = frm[full[q][h]].ch
                        /\ frm'[full'[q][h]].pic = frm[full[q][h]].pic
  OBVIOUS
<1>2. \A j \in 1 .. i : \A h \in j + 1 .. i : h \in 1 .. i
  OBVIOUS
<1> QED
  BY <1>1, <1>2 DEF Latest

(* The frames queued for a next link.                                       *)
LEMMA Queued ==
  ASSUME IInv, NEW o \in Outs
  PROVE  /\ full[o] \in Seq(Frames) /\ Len(full[o]) \in Nat
         /\ \A i \in 1 .. Len(full[o]) : full[o][i] \in Frames /\ full[o][i] \in Range(full[o])
<1>1. full[o] \in Seq(Frames)
  BY DEF IInv, TypeOK
<1> QED
  BY <1>1, LenProperties DEF Range

(* A step that leaves the full queues and the frames in them as they are.   *)
LEMMA SizeStays ==
  ASSUME IInv, SizeInv, size' = size, full' = full, view' = view,
         \A o \in Outs : \A f \in Range(full[o]) : frm'[f] = frm[f],
         \A c \in InChs : inCh'[c].info = inCh[c].info,
         \A c \in InChs : inCh'[c].que \in Outs /\ ~inCh'[c].upd => inCh'[c] = inCh[c],
         \A f \in Range(upq') : Sized(f)', \A f \in Range(todo') : Sized(f)'
  PROVE  SizeInv'
<1>1. ASSUME NEW o \in Outs, NEW i \in 0 .. Len(full[o]), NEW k, NEW z
      PROVE  Latest(o, i, k, z)' <=> Latest(o, i, k, z)
  <2>1. /\ Len(full[o]) \in Nat
        /\ \A h \in 1 .. Len(full[o]) : full[o][h] \in Range(full[o])
    BY Queued
  <2>2. i \in Nat /\ \A h \in 1 .. i : h \in 1 .. Len(full[o])
    BY <2>1
  <2>3. view'[o] = view[o] /\ \A h \in 1 .. i : full'[o][h] = full[o][h] /\ frm'[full[o][h]] = frm[full[o][h]]
    BY <2>1, <2>2
  <2> QED
    BY <2>2, <2>3, LatestSame
<1>2. ASSUME NEW o \in Outs, NEW i \in 1 .. Len(full'[o]) PROVE FrameKnown(o, i)'
  <2>1. PICK f : f = full[o][i]
    OBVIOUS
  <2>2. Len(full[o]) \in Nat /\ f \in Range(full[o])
    BY <2>1, Queued
  <2>3. full'[o][i] = f /\ frm'[f] = frm[f] /\ i - 1 \in 0 .. Len(full[o])
    BY <2>1, <2>2
  <2>4. PICK k, z : k = frm[f].ch /\ z = frm[f].pic
    OBVIOUS
  <2>5. FrameKnown(o, i)
    BY DEF SizeInv
  <2>6. Latest(o, i - 1, k, z)' <=> Latest(o, i - 1, k, z)
    BY <1>1, <2>3
  <2> QED
    BY <2>1, <2>3, <2>4, <2>5, <2>6 DEF FrameKnown
<1>3. ASSUME NEW c \in InChs PROVE RouteKnown(c)'
  <2>1. CASE inCh'[c].que \in Outs /\ ~inCh'[c].upd
    <3>1. inCh'[c] = inCh[c]
      BY <2>1
    <3>2. PICK o \in Outs : o = inCh[c].que
      BY <2>1, <3>1
    <3> PICK k, z : k = inCh[c].out /\ z = size[c]
      OBVIOUS
    <3>3. PICK n \in Nat : n = Len(full[o])
      BY Queued
    <3>4. Latest(o, n, k, z)
      BY <2>1, <3>1, <3>2, <3>3 DEF SizeInv, RouteKnown
    <3>5. Latest(o, n, k, z)'
      BY <1>1, <3>3, <3>4
    <3> QED
      BY <3>1, <3>2, <3>3, <3>5 DEF RouteKnown
  <2> QED
    BY <2>1 DEF RouteKnown
<1> QED
  BY <1>2, <1>3 DEF SizeInv

LEMMA InitSize ==
  ASSUME Init PROVE SizeInv
<1>1. upq = <<>> /\ todo = <<>> /\ full = [o \in Outs |-> <<>>]
  BY DEF Init
<1>2. Range(<<>>) = {} /\ Len(<<>>) = 0
  BY DEF Range
<1>3. \A c \in InChs : inCh[c].info = size[c] /\ RouteKnown(c)
  BY InitMap DEF RouteKnown
<1>4. \A o \in Outs : \A i \in 1 .. Len(full[o]) : FrameKnown(o, i)
  BY <1>1, <1>2
<1> QED
  BY <1>1, <1>2, <1>3, <1>4 DEF SizeInv

(* A command: the channels it maps are to tell their size again.            *)
LEMMA CommandKeepsSize ==
  ASSUME IInv, SizeInv, NEW o \in Outs, NEW s \in Routes, SetOutQue2(o, s)
  PROVE  SizeInv'
<1>1. /\ inCh' = Mapped(Unmap(inCh, o), o, s)
      /\ size' = size /\ upq' = upq /\ frm' = frm /\ todo' = todo /\ full' = full /\ view' = view
  BY DEF SetOutQue2, source, task, next
<1>2. inCh \in Maps
  BY DEF IInv, TypeOK, Maps
<1>3. PICK m \in Maps : m = Unmap(inCh, o)
  BY <1>2, UnmapFacts
<1>4. ASSUME NEW c \in InChs
      PROVE  /\ inCh'[c].info = inCh[c].info
             /\ inCh'[c].que \in Outs /\ ~inCh'[c].upd => inCh'[c] = inCh[c]
  <2>1. /\ inCh'[c].info = m[c].info
        /\ c \in Range(s) => inCh'[c].upd
        /\ c \notin Range(s) => inCh'[c] = m[c]
    BY <1>1, <1>3, MapFacts
  <2>2. /\ m[c].info = inCh[c].info
        /\ c \in Range(prev[o]) => m[c].que = NotMapped
        /\ c \notin Range(prev[o]) => m[c] = inCh[c]
    BY <1>2, <1>3, UnmapFacts
  <2> QED
    BY <2>1, <2>2, NotAQueue
<1>5. /\ \A f \in Range(upq') : Sized(f)'
      /\ \A f \in Range(todo') : Sized(f)'
  BY <1>1 DEF SizeInv, Sized
<1> QED
  BY <1>1, <1>4, <1>5, SizeStays

(* A frame the previous link produces has the size its channel always has.  *)
LEMMA ProduceKeepsSize ==
  ASSUME IInv, SizeInv, Resizes = FALSE,
         NEW f \in Frames, NEW c \in InChs, NEW z \in Sizes, Produce(f, c, z)
  PROVE  SizeInv'
<1>1. /\ f \in up /\ z = size[c] /\ size' = [size EXCEPT ![c] = z] /\ upq' = Append(upq, f)
      /\ frm' = [frm EXCEPT ![f] = [ch |-> c, org |-> c, flag |-> z # size[c],
                                    info |-> z, src |-> c, pic |-> z]]
      /\ inCh' = inCh /\ todo' = todo /\ full' = full /\ view' = view
  BY DEF Produce, task, next
<1>2. /\ upq \in Seq(Frames) /\ size \in [InChs -> Sizes] /\ IsInjective(upq)
      /\ todo \in Seq(Frames) /\ \A o \in Outs : full[o] \in Seq(Frames)
      /\ frm \in [Frames -> Marks]
  BY DEF IInv, TypeOK, PlacesInv, Marks
<1>3. size' = size
  BY <1>1, <1>2
<1>4. /\ f \notin Range(upq) /\ f \notin Range(todo)
      /\ \A o \in Outs : f \notin Range(full[o])
  BY <1>1, Apart
<1>5. /\ Range(upq) \subseteq Frames /\ Range(todo) \subseteq Frames
      /\ \A o \in Outs : Range(full[o]) \subseteq Frames
  BY <1>2, ListEmpty
<1>6. \A x \in Range(Append(upq, f)) : x \in Range(upq) \/ x = f
  BY <1>2, <1>4, PutLast
<1>7. /\ \A x \in Frames : x # f => frm'[x] = frm[x]
      /\ frm'[f].flag = FALSE /\ frm'[f].info = z /\ frm'[f].pic = z /\ frm'[f].src = c
  BY <1>1, <1>2
<1>8. \A x \in Range(upq') : Sized(x)'
  BY <1>1, <1>3, <1>4, <1>5, <1>6, <1>7 DEF SizeInv, Sized
<1>9. \A x \in Range(todo') : Sized(x)'
  BY <1>1, <1>3, <1>4, <1>5, <1>7 DEF SizeInv, Sized
<1>10. \A o \in Outs : \A x \in Range(full[o]) : frm'[x] = frm[x]
  BY <1>4, <1>5, <1>7
<1> QED
  BY <1>1, <1>3, <1>8, <1>9, <1>10, SizeStays

(* Steps that touch no frame on its way to a next link.                     *)
LEMMA QuietKeepsSize ==
  ASSUME IInv, SizeInv,
         \/ GetFull \/ Skip \/ FreeUnmapped \/ Notify \/ UNCHANGED vars
         \/ \E o \in Outs : BeginFetch(o) \/ EndFetch(o)
         \/ \E o \in Outs, f \in Frames : PutEmpty(o, f)
  PROVE  SizeInv'
<1>1. size' = size /\ inCh' = inCh /\ full' = full /\ view' = view
  BY DEF GetFull, Skip, FreeUnmapped, Notify, BeginFetch, EndFetch, PutEmpty, vars,
         source, task, next
<1>2. /\ upq \in Seq(Frames) /\ todo \in Seq(Frames) /\ IsInjective(todo)
      /\ \A o \in Outs : full[o] \in Seq(Frames)
      /\ frm \in [Frames -> Marks] /\ unmapped \subseteq Frames
      /\ Range(<<>>) = {}
  BY ShortLists DEF IInv, TypeOK, PlacesInv, Marks
<1>3. /\ Range(upq) \subseteq Frames /\ Range(todo) \subseteq Frames
      /\ \A o \in Outs : Range(full[o]) \subseteq Frames
  BY <1>2, ListEmpty
<1>4. \A f \in Range(upq') \cup Range(todo') : f \in Range(upq) \cup Range(todo)
  <2>1. CASE GetFull
    BY <1>2, <2>1 DEF GetFull
  <2>2. CASE Skip
    BY <1>2, <2>2, TakeHead DEF Skip, source
  <2>3. CASE ~GetFull /\ ~Skip
    <3>1. upq' = upq /\ todo' = todo
      BY <2>3 DEF FreeUnmapped, Notify, BeginFetch, EndFetch, PutEmpty, vars,
                  source, task, next
    <3> QED
      BY <3>1
  <2> QED
    BY <2>1, <2>2, <2>3
<1>5. ASSUME NEW f \in Frames, \/ f \in Range(upq) \cup Range(todo)
                               \/ \E o \in Outs : f \in Range(full[o])
      PROVE  frm'[f] = frm[f]
  <2>1. f \notin unmapped /\ \A o \in Outs : f \notin held[o]
    BY <1>5, Apart
  <2>2. CASE FreeUnmapped
    BY <1>2, <2>1, <2>2 DEF FreeUnmapped
  <2>3. ASSUME NEW o \in Outs, NEW g \in Frames, PutEmpty(o, g) PROVE frm'[f] = frm[f]
    <3>1. g # f
      BY <2>1, <2>3 DEF PutEmpty
    <3> QED
      BY <1>2, <2>3, <3>1 DEF PutEmpty
  <2>4. CASE GetFull \/ Skip \/ Notify \/ UNCHANGED vars
             \/ \E o \in Outs : BeginFetch(o) \/ EndFetch(o)
    BY <2>4 DEF GetFull, Skip, Notify, BeginFetch, EndFetch, vars
  <2> QED
    BY <2>2, <2>3, <2>4
<1>6. ASSUME NEW f \in Range(upq') \cup Range(todo') PROVE Sized(f)'
  <2>1. Sized(f) /\ frm'[f] = frm[f]
    BY <1>3, <1>4, <1>5 DEF SizeInv
  <2> QED
    BY <1>1, <2>1 DEF Sized
<1>7. \A o \in Outs : \A f \in Range(full[o]) : frm'[f] = frm[f]
  BY <1>3, <1>5
<1> QED
  BY <1>1, <1>6, <1>7, SizeStays

(* The next link knows of a frame it takes what the frame says or what it   *)
(* knew: its size.                                                          *)
LEMMA HeadKnown ==
  ASSUME IInv, SizeInv, NEW o \in Outs, full[o] # <<>>
  PROVE  Seen(o, Head(full[o])) = frm[Head(full[o])].pic
<1>1. PICK f : f = full[o][1]
  OBVIOUS
<1>2. full[o] \in Seq(Frames) /\ 1 \in 1 .. Len(full[o]) /\ f = Head(full[o])
  BY <1>1 DEF IInv, TypeOK
<1>3. FrameKnown(o, 1)
  BY <1>2 DEF SizeInv
<1>4. Latest(o, 0, frm[f].ch, frm[f].pic) => view[o][frm[f].ch] = frm[f].pic
  BY DEF Latest
<1> QED
  BY <1>1, <1>2, <1>3, <1>4 DEF FrameKnown, Seen

(* Once the head is taken, the next link knows from one frame less.         *)
LEMMA LatestTaken ==
  ASSUME IInv, SizeInv, NEW o \in Outs, NEW f \in Frames, NEW kf \in 1 .. MaxOutCh,
         NEW zf \in Sizes \cup {NoSize}, Taken(o, f, kf, zf),
         NEW i \in 1 .. Len(full[o]), NEW k \in 1 .. MaxOutCh, NEW z, Latest(o, i, k, z)
  PROVE  Latest(o, i - 1, k, z)'
<1>1. /\ full[o] # <<>> /\ f = Head(full[o]) /\ kf = frm[f].ch /\ zf = Seen(o, f)
      /\ view' = [view EXCEPT ![o][kf] = zf]
      /\ full' = [full EXCEPT ![o] = Tail(full[o])] /\ frm' = frm
  BY DEF Taken
<1>2. /\ full \in [Outs -> Seq(Frames)]
      /\ view \in [Outs -> [1 .. MaxOutCh -> Sizes \cup {NoSize}]]
  BY DEF IInv, TypeOK
<1>3. PICK n \in Nat : n = Len(full[o]) /\ i \in 1 .. n /\ full'[o] = Tail(full[o])
  BY <1>1, <1>2
<1>4. f = full[o][1] /\ \A h \in 1 .. i - 1 : full'[o][h] = full[o][h + 1]
  BY <1>1, <1>2, <1>3
<1>5. zf = frm[f].pic
  BY <1>1, HeadKnown
<1>6. view'[o][kf] = zf /\ (k # kf => view'[o][k] = view[o][k])
  BY <1>1, <1>2
<1>7. \A h \in 1 .. i - 1 : /\ h + 1 \in 1 .. i
                            /\ frm'[full'[o][h]].ch = frm[full[o][h + 1]].ch
                            /\ frm'[full'[o][h]].pic = frm[full[o][h + 1]].pic
  BY <1>1, <1>3, <1>4
<1>8. ASSUME \A h \in 1 .. i - 1 : frm'[full'[o][h]].ch # k PROVE view'[o][k] = z
  <2>1. \A h \in 2 .. i : frm[full[o][h]].ch # k
    <3>1. ASSUME NEW h \in 2 .. i PROVE frm[full[o][h]].ch # k
      <4>1. h - 1 \in 1 .. i - 1 /\ (h - 1) + 1 = h
        BY <1>3
      <4> QED
        BY <1>7, <1>8, <4>1
    <3> QED
      BY <3>1
  <2>2. CASE k = kf
    <3>1. 1 \in 1 .. i /\ \A h \in 1 + 1 .. i : frm[full[o][h]].ch # k
      BY <1>3, <2>1
    <3>2. frm[full[o][1]].pic = z
      BY <1>1, <1>4, <2>2, <3>1 DEF Latest
    <3> QED
      BY <1>4, <1>5, <1>6, <2>2, <3>2
  <2>3. CASE k # kf
    <3>1. \A h \in 1 .. i : frm[full[o][h]].ch # k
      BY <1>1, <1>3, <1>4, <2>1, <2>3
    <3> QED
      BY <1>6, <2>3, <3>1 DEF Latest
  <2> QED
    BY <2>2, <2>3
<1>9. ASSUME NEW j \in 1 .. i - 1, frm'[full'[o][j]].ch = k,
             \A h \in j + 1 .. i - 1 : frm'[full'[o][h]].ch # k
      PROVE  frm'[full'[o][j]].pic = z
  <2>1. PICK l \in 1 .. i : l = j + 1
    BY <1>7
  <2>2. frm[full[o][l]].ch = k /\ frm'[full'[o][j]].pic = frm[full[o][l]].pic
    BY <1>7, <1>9, <2>1
  <2>3. ASSUME NEW h \in l + 1 .. i PROVE frm[full[o][h]].ch # k
    <3>1. h - 1 \in 1 .. i - 1 /\ h - 1 \in j + 1 .. i - 1 /\ (h - 1) + 1 = h
      BY <1>3, <2>1
    <3> QED
      BY <1>7, <1>9, <3>1
  <2> QED
    BY <2>2, <2>3 DEF Latest
<1> QED
  BY <1>8, <1>9 DEF Latest

LEMMA TakeKeepsSize ==
  ASSUME IInv, SizeInv, NEW o \in Outs, Take(o)
  PROVE  SizeInv'
<1>1. PICK f \in Frames, kf \in 1 .. MaxOutCh, zf \in Sizes \cup {NoSize} : Taken(o, f, kf, zf)
  BY TakeDoes
<1>2. /\ full[o] # <<>> /\ view' = [view EXCEPT ![o][kf] = zf]
      /\ full' = [full EXCEPT ![o] = Tail(full[o])]
      /\ size' = size /\ inCh' = inCh /\ frm' = frm /\ upq' = upq /\ todo' = todo
  BY <1>1 DEF Taken
<1>3. /\ full \in [Outs -> Seq(Frames)]
      /\ view \in [Outs -> [1 .. MaxOutCh -> Sizes \cup {NoSize}]]
  BY DEF IInv, TypeOK
<1>4. PICK n \in Nat : n = Len(full[o]) - 1 /\ full'[o] = Tail(full[o]) /\ Len(full'[o]) = n
  <2>1. full'[o] = Tail(full[o]) /\ full[o] \in Seq(Frames)
    BY <1>2, <1>3
  <2>2. Len(full[o]) - 1 \in Nat /\ Len(Tail(full[o])) = Len(full[o]) - 1
    BY <1>2, <2>1
  <2> QED
    BY <2>1, <2>2
<1>5. \A q \in Outs : q # o => full'[q] = full[q] /\ view'[q] = view[q]
  BY <1>2, <1>3
<1>6. ASSUME NEW q \in Outs, q # o, NEW i \in Nat, NEW k, NEW z, Latest(q, i, k, z)
      PROVE  Latest(q, i, k, z)'
  BY <1>2, <1>5, <1>6, LatestSame
<1>7. ASSUME NEW i \in 1 .. n + 1, NEW k \in 1 .. MaxOutCh, NEW z, Latest(o, i, k, z)
      PROVE  Latest(o, i - 1, k, z)'
  <2>1. i \in 1 .. Len(full[o])
    BY <1>2, <1>3, <1>4
  <2> QED
    BY <1>1, <1>7, <2>1, LatestTaken
<1>8. ASSUME NEW q \in Outs, NEW i \in 1 .. Len(full'[q]) PROVE FrameKnown(q, i)'
  <2>1. CASE q = o
    <3>1. PICK g : g = full[o][i + 1]
      OBVIOUS
    <3>2. PICK k, z : k = frm[g].ch /\ z = frm[g].pic
      OBVIOUS
    <3>3. full'[o][i] = g /\ i + 1 \in 1 .. Len(full[o]) /\ i \in 1 .. n + 1
      BY <1>3, <1>4, <2>1, <3>1
    <3>4. FrameKnown(o, i + 1) /\ (i + 1) - 1 = i
      BY <3>3 DEF SizeInv
    <3>5. IF frm[g].flag THEN frm[g].info = z ELSE Latest(o, i, k, z)
      BY <3>1, <3>2, <3>4 DEF FrameKnown
    <3>6. Latest(o, i, k, z) => Latest(o, i - 1, k, z)'
      <4>1. g \in Range(full[o])
        BY <3>1, <3>3, Queued
      <4>2. k \in 1 .. MaxOutCh
        BY <3>2, <4>1 DEF IInv, MarkInv, Inner
      <4> QED
        BY <1>7, <3>3, <4>2
    <3> QED
      BY <1>2, <2>1, <3>2, <3>3, <3>5, <3>6 DEF FrameKnown
  <2>2. CASE q # o
    <3>1. PICK g : g = full[q][i]
      OBVIOUS
    <3>2. PICK k, z : k = frm[g].ch /\ z = frm[g].pic
      OBVIOUS
    <3>3. full'[q] = full[q] /\ FrameKnown(q, i) /\ i - 1 \in Nat
      BY <1>3, <1>5, <2>2 DEF SizeInv
    <3>4. Latest(q, i - 1, k, z) => Latest(q, i - 1, k, z)'
      BY <1>6, <2>2, <3>3
    <3> QED
      BY <1>2, <3>1, <3>2, <3>3, <3>4 DEF FrameKnown
  <2> QED
    BY <2>1, <2>2
<1>9. ASSUME NEW c \in InChs PROVE RouteKnown(c)'
  <2>1. CASE inCh[c].que \in Outs /\ ~inCh[c].upd
    <3>1. PICK q \in Outs : q = inCh[c].que
      BY <2>1
    <3>2. PICK k, z : k = inCh[c].out /\ z = size[c]
      OBVIOUS
    <3>3. PICK m \in Nat : m = Len(full[q])
      BY Queued
    <3>4. Latest(q, m, k, z)
      BY <2>1, <3>1, <3>2, <3>3 DEF SizeInv, RouteKnown
    <3>5. CASE q = o
      <4>1. m \in 1 .. n + 1 /\ m - 1 = n
        BY <1>4, <3>3, <3>5
      <4>2. k \in 1 .. MaxOutCh
        BY <2>1, <3>2 DEF IInv, MapInv
      <4>3. Latest(o, m - 1, k, z)'
        BY <1>7, <3>4, <3>5, <4>1, <4>2
      <4> QED
        BY <1>2, <1>4, <3>1, <3>2, <3>5, <4>1, <4>3 DEF RouteKnown
    <3>6. CASE q # o
      <4>1. Latest(q, m, k, z)' /\ full'[q] = full[q]
        BY <1>5, <1>6, <3>4, <3>6
      <4> QED
        BY <1>2, <3>1, <3>2, <3>3, <4>1 DEF RouteKnown
    <3> QED
      BY <3>5, <3>6
  <2>2. CASE ~ (inCh[c].que \in Outs /\ ~inCh[c].upd)
    BY <1>2, <2>2 DEF RouteKnown
  <2> QED
    BY <2>1, <2>2
<1> QED
  BY <1>2, <1>8, <1>9 DEF SizeInv, Sized

(* A routed frame tells its size when the channel is newly mapped; then the *)
(* next link knows the channel's size.                                      *)
LEMMA RouteKeepsSize ==
  ASSUME IInv, InfoIsRouting, SizeInv, Route
  PROVE  SizeInv'
<1>1. PICK f \in Frames, c \in InChs, o \in Outs, zf \in Sizes : Routed(f, c, o, zf)
  BY RouteDoes
<1> PICK kf : kf = inCh[c].out
  OBVIOUS
<1>2. /\ todo # <<>> /\ f = Head(todo) /\ f \in Range(todo)
      /\ c = frm[f].src /\ o = inCh[c].que
      /\ zf = IF frm[f].flag THEN frm[f].info ELSE inCh[c].info
      /\ \A d \in InChs : d # c => inCh'[d] = inCh[d]
      /\ inCh'[c].que = o /\ inCh'[c].out = kf /\ inCh'[c].info = zf
      /\ \A x \in Frames : x # f => frm'[x] = frm[x]
      /\ frm'[f].ch = kf /\ frm'[f].pic = frm[f].pic
      /\ frm'[f].flag = (frm[f].flag \/ inCh[c].upd)
      /\ frm'[f].info = IF inCh[c].upd THEN zf ELSE frm[f].info
      /\ full' = [full EXCEPT ![o] = Append(full[o], f)] /\ todo' = Tail(todo)
      /\ size' = size /\ upq' = upq /\ view' = view
  BY <1>1 DEF Routed
<1>3. /\ full \in [Outs -> Seq(Frames)] /\ todo \in Seq(Frames) /\ IsInjective(todo)
      /\ Range(todo) \subseteq Frames /\ upq \in Seq(Frames)
  <2>1. /\ full \in [Outs -> Seq(Frames)] /\ todo \in Seq(Frames) /\ IsInjective(todo)
        /\ upq \in Seq(Frames)
    BY DEF IInv, TypeOK, PlacesInv
  <2> QED
    BY <2>1, ListEmpty
<1>4. PICK n \in Nat : n = Len(full[o])
  BY Queued
<1>5. /\ full'[o] = Append(full[o], f) /\ Len(full'[o]) = n + 1 /\ full'[o][n + 1] = f
      /\ \A h \in 1 .. n : full'[o][h] = full[o][h]
      /\ \A q \in Outs : q # o => full'[q] = full[q]
  <2>1. PICK q : q = full[o] /\ q \in Seq(Frames) /\ n = Len(q)
    BY <1>3, <1>4
  <2>2. /\ Len(Append(q, f)) = n + 1 /\ Append(q, f)[n + 1] = f
        /\ \A h \in 1 .. n : Append(q, f)[h] = q[h]
    BY <2>1, AppendProperties
  <2>3. /\ full'[o] = Append(q, f)
        /\ \A r \in Outs : r # o => full'[r] = full[r]
    BY <1>2, <1>3, <2>1
  <2> QED
    BY <2>1, <2>2, <2>3
<1>6. f \notin Range(upq) /\ \A q \in Outs : f \notin Range(full[q])
  BY <1>2, Apart
<1>7. ASSUME NEW q \in Outs, NEW h \in 1 .. Len(full[q])
      PROVE  full'[q][h] = full[q][h] /\ frm'[full[q][h]] = frm[full[q][h]]
  <2>1. full[q][h] \in Frames /\ full[q][h] # f
    BY <1>6, Queued
  <2> QED
    BY <1>2, <1>4, <1>5, <2>1
<1>8. ASSUME NEW q \in Outs, NEW i \in 0 .. Len(full[q]), NEW k, NEW z
      PROVE  Latest(q, i, k, z)' <=> Latest(q, i, k, z)
  <2>1. i \in Nat /\ \A h \in 1 .. i : h \in 1 .. Len(full[q])
    BY Queued
  <2>2. /\ view'[q] = view[q]
        /\ \A h \in 1 .. i : full'[q][h] = full[q][h] /\ frm'[full[q][h]] = frm[full[q][h]]
    BY <1>2, <1>7, <2>1
  <2> QED
    BY <2>1, <2>2, LatestSame
<1>9. zf = size[c] /\ frm[f].pic = size[c] /\ ~frm[f].flag
  BY <1>2 DEF SizeInv, Sized
<1>10. \A d \in InChs : inCh'[d].info = size'[d]
  BY <1>2, <1>9 DEF SizeInv
<1>11. /\ \A x \in Range(upq') : Sized(x)'
       /\ \A x \in Range(todo') : Sized(x)'
  <2>1. \A x \in Range(Tail(todo)) : x \in Range(todo) /\ x # f
    BY <1>2, <1>3, TakeHead
  <2>2. Range(upq) \subseteq Frames
    BY <1>3, ListEmpty
  <2>3. ASSUME NEW x \in Range(upq') \cup Range(todo') PROVE Sized(x) /\ frm'[x] = frm[x]
    <3>1. x \in Frames /\ x # f /\ x \in Range(upq) \cup Range(todo)
      BY <1>2, <1>3, <1>6, <2>1, <2>2
    <3> QED
      BY <1>2, <3>1 DEF SizeInv
  <2>4. ASSUME NEW x \in Range(upq') \cup Range(todo') PROVE Sized(x)'
    <3>1. Sized(x) /\ frm'[x] = frm[x] /\ size' = size
      BY <1>2, <2>3
    <3> QED
      BY <3>1 DEF Sized
  <2> QED
    BY <2>4
<1>12. ASSUME NEW q \in Outs, NEW i \in 1 .. Len(full[q]) PROVE FrameKnown(q, i)'
  <2>1. PICK g : g = full[q][i]
    OBVIOUS
  <2>2. PICK k, z : k = frm[g].ch /\ z = frm[g].pic
    OBVIOUS
  <2>3. full'[q][i] = g /\ frm'[g] = frm[g] /\ FrameKnown(q, i)
    BY <1>7, <2>1 DEF SizeInv
  <2>4. i - 1 \in 0 .. Len(full[q])
    BY Queued
  <2>5. Latest(q, i - 1, k, z)' <=> Latest(q, i - 1, k, z)
    BY <1>8, <2>4
  <2> QED
    BY <2>1, <2>2, <2>3, <2>5 DEF FrameKnown
<1>13. FrameKnown(o, n + 1)'
  <2>1. CASE inCh[c].upd
    <3>1. /\ frm'[full'[o][n + 1]].flag = TRUE
          /\ frm'[full'[o][n + 1]].info = zf /\ frm'[full'[o][n + 1]].pic = zf
      BY <1>2, <1>5, <1>9, <2>1
    <3> QED
      BY <3>1 DEF FrameKnown
  <2>2. CASE ~inCh[c].upd
    <3>1. PICK z : z = size[c]
      OBVIOUS
    <3>2. Latest(o, n, kf, z)
      BY <1>2, <1>4, <2>2, <3>1 DEF SizeInv, RouteKnown
    <3>3. Latest(o, n, kf, z)' /\ (n + 1) - 1 = n
      BY <1>4, <1>8, <3>2
    <3>4. frm'[full'[o][n + 1]].flag = FALSE /\ frm'[full'[o][n + 1]].ch = kf
          /\ frm'[full'[o][n + 1]].pic = z
      BY <1>2, <1>5, <1>9, <2>2, <3>1
    <3> QED
      BY <3>3, <3>4 DEF FrameKnown
  <2> QED
    BY <2>1, <2>2
<1>14. \A q \in Outs : \A i \in 1 .. Len(full'[q]) : FrameKnown(q, i)'
  <2>1. ASSUME NEW q \in Outs, NEW i \in 1 .. Len(full'[q]) PROVE FrameKnown(q, i)'
    <3>1. CASE q = o /\ i = n + 1
      BY <1>13, <3>1
    <3>2. CASE ~ (q = o /\ i = n + 1)
      <4>1. i \in 1 .. Len(full[q])
        BY <1>4, <1>5, <2>1, <3>2
      <4> QED
        BY <1>12, <4>1
    <3> QED
      BY <3>1, <3>2
  <2> QED
    BY <2>1
<1>15. ASSUME NEW k, NEW z, Latest(o, n, k, z), k # kf PROVE Latest(o, n + 1, k, z)'
  <2>1. Latest(o, n, k, z)'
    BY <1>4, <1>8, <1>15
  <2>2. frm'[full'[o][n + 1]].ch # k
    BY <1>2, <1>5, <1>15
  <2>3. \A h \in 1 .. n : h \in 1 .. n + 1
    OBVIOUS
  <2>4. \A j \in 1 .. n + 1 : /\ j = n + 1 \/ j \in 1 .. n
                              /\ \A h \in j + 1 .. n : h \in j + 1 .. n + 1
    OBVIOUS
  <2> QED
    BY <2>1, <2>2, <2>3, <2>4 DEF Latest
<1>16. ASSUME NEW z, z = size[c] PROVE Latest(o, n + 1, kf, z)'
  <2>1. frm'[full'[o][n + 1]].ch = kf /\ frm'[full'[o][n + 1]].pic = z
    BY <1>2, <1>5, <1>9, <1>16
  <2>2. n + 1 \in 1 .. n + 1 /\ \A j \in 1 .. n + 1 : j = n + 1 \/ n + 1 \in j + 1 .. n + 1
    OBVIOUS
  <2> QED
    BY <2>1, <2>2 DEF Latest
<1>17. ASSUME NEW d \in InChs PROVE RouteKnown(d)'
  <2> PICK z : z = size[d]
    OBVIOUS
  <2>1. CASE d = c
    <3>1. Latest(o, n + 1, kf, z)'
      BY <1>16, <2>1
    <3> QED
      BY <1>2, <1>5, <2>1, <3>1 DEF RouteKnown
  <2>2. CASE d # c /\ inCh[d].que \in Outs /\ ~inCh[d].upd
    <3>1. PICK q \in Outs : q = inCh[d].que
      BY <2>2
    <3> PICK k : k = inCh[d].out
      OBVIOUS
    <3>2. PICK m \in Nat : m = Len(full[q])
      BY Queued
    <3>3. Latest(q, m, k, z)
      BY <2>2, <3>1, <3>2 DEF SizeInv, RouteKnown
    <3>4. inCh'[d] = inCh[d]
      BY <1>2, <2>2
    <3>5. CASE q = o
      <4>1. prev[o][k] = d /\ prev[o][kf] = c
        <5>1. \A x \in InChs : inCh[x].que = o => prev[o][inCh[x].out] = x
          BY DEF InfoIsRouting
        <5>2. inCh[c].que = o /\ inCh[d].que = o
          BY <1>2, <3>1, <3>5
        <5> QED
          BY <5>1, <5>2
      <4>2. k # kf /\ m = n /\ Latest(o, n, k, z)
        BY <1>4, <2>2, <3>2, <3>3, <3>5, <4>1
      <4>3. Latest(o, n + 1, k, z)'
        BY <1>15, <4>2
      <4> QED
        BY <1>2, <1>5, <3>1, <3>4, <3>5, <4>3 DEF RouteKnown
    <3>6. CASE q # o
      <4>1. Latest(q, m, k, z)' /\ full'[q] = full[q]
        BY <1>5, <1>8, <3>2, <3>3, <3>6
      <4> QED
        BY <1>2, <3>1, <3>2, <3>4, <4>1 DEF RouteKnown
    <3> QED
      BY <3>5, <3>6
  <2>3. CASE d # c /\ ~ (inCh[d].que \in Outs /\ ~inCh[d].upd)
    BY <1>2, <2>3 DEF RouteKnown
  <2> QED
    BY <2>1, <2>2, <2>3
<1> QED
  BY <1>10, <1>11, <1>14, <1>17 DEF SizeInv

LEMMA NextKeepsSize ==
  ASSUME IInv, InfoIsRouting, SizeInv, [Next]_vars, Steady
  PROVE  SizeInv'
<1>1. ASSUME NEW o \in Outs, NEW s \in Routes, SetOutQue(o, s) \/ SetOutQue2(o, s) PROVE SizeInv'
  BY <1>1, CommandKeepsSize DEF SetOutQue, Steady, Replacing
<1>2. ASSUME NEW f \in Frames, NEW c \in InChs, NEW z \in Sizes, Produce(f, c, z) PROVE SizeInv'
  BY <1>2, ProduceKeepsSize DEF Steady
<1>3. CASE TaskStep
  BY <1>3, RouteKeepsSize, QuietKeepsSize DEF TaskStep
<1>4. ASSUME NEW o \in Outs, NextStep(o) PROVE SizeInv'
  BY <1>4, TakeKeepsSize, QuietKeepsSize DEF NextStep
<1>5. ASSUME NEW o \in Outs, NEW f \in Frames, PutEmpty(o, f) PROVE SizeInv'
  BY <1>5, QuietKeepsSize
<1>6. CASE UNCHANGED vars
  BY <1>6, QuietKeepsSize
<1> QED
  BY <1>1, <1>2, <1>3, <1>4, <1>5, <1>6 DEF Next

LEMMA SizeAlways ==
  ASSUME Steady PROVE Spec => []((IInv /\ InfoIsRouting) /\ SizeInv)
<1>1. Replacing
  BY DEF Steady
<1>2. Init => SizeInv
  BY InitSize
<1>3. IInv /\ InfoIsRouting /\ SizeInv /\ [Next]_vars => SizeInv'
  BY NextKeepsSize
<1>4. Spec => [](IInv /\ InfoIsRouting)
  BY <1>1, RoutingAlways
<1> QED
  BY <1>2, <1>3, <1>4, PTL DEF Spec

(* While sizes do not change, a next link never reads a picture with        *)
(* another size than it has, however often its channel numbers are given to *)
(* other channels: the first frame after a command tells the size.  When a  *)
(* channel changes its size while it is not routed it may not: run          *)
(* SelectStale.                                                             *)
THEOREM SizeAlwaysKnown ==
  ASSUME Steady PROVE Spec => []SizeIsKnown
<1>1. IInv /\ SizeInv => SizeIsKnown
  BY HeadKnown DEF SizeIsKnown
<1> QED
  BY <1>1, SizeAlways, PTL

=============================================================================
