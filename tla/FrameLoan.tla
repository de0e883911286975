----------------------------- MODULE FrameLoan -----------------------------
(* What a link that hands one input frame to several next links promises    *)
(* its previous link: the frame is lent to all of them at once, each gives  *)
(* it back once, and the frame goes home only when nobody holds it.         *)
CONSTANTS
  Frames,   \* frames of the previous link
  Outs      \* output queues they are lent through

VARIABLES
  home,     \* frames the previous link may overwrite
  loan      \* loan[f]: the outputs that have not given frame f back

vars == <<home, loan>>

Init == /\ home = Frames
        /\ loan = [f \in Frames |-> {}]

Lend(F) == /\ F \subseteq home /\ F # {}
           /\ home' = home \ F
           /\ loan' = [f \in Frames |-> IF f \in F THEN Outs ELSE loan[f]]

GiveBack(F, o) ==
  /\ F # {} /\ \A f \in F : o \in loan[f]
  /\ loan' = [f \in Frames |-> IF f \in F THEN loan[f] \ {o} ELSE loan[f]]
  /\ UNCHANGED home

Return(F) == /\ F # {} /\ F \cap home = {} /\ \A f \in F : loan[f] = {}
             /\ home' = home \cup F
             /\ UNCHANGED loan

Next == \/ \E F \in SUBSET Frames : Lend(F) \/ Return(F)
        \/ \E F \in SUBSET Frames, o \in Outs : GiveBack(F, o)

Spec == Init /\ [][Next]_vars
=============================================================================
