------------------------------- MODULE Channel -------------------------------
(***************************************************************************)
(* What the clones of an asynchronous Engine.IO client share, and nothing  *)
(* of how: a channel that can be opened and shut until somebody retires    *)
(* it, that carries one frame at a time, and whose last word is a Close    *)
(* frame of whoever retired it. A sender looks at the channel before it    *)
(* writes; no more than what it does at once escapes a retirement that     *)
(* comes between. EngineSocket implements it.                              *)
(***************************************************************************)
EXTENDS Naturals

CONSTANT Users

VARIABLES
  phase,    \* "open", "shut", or "retired" for good
  bound,    \* senders that found the channel in use and will write at once
  writing,  \* who has a frame under way
  closer,   \* who retired the channel and has not said so yet
  closes    \* Close frames begun

channelVars == <<phase, bound, writing, closer, closes>>

Init ==
  /\ phase = "shut" /\ closes = 0
  /\ bound = {} /\ writing = {} /\ closer = {}

(* connect(), and the end of a connection the peer closed.                  *)
Turn ==
  /\ phase # "retired" /\ phase' \in {"open", "shut"}
  /\ UNCHANGED <<bound, writing, closer, closes>>

(* A sender finds nobody writing and the channel not retired; another may   *)
(* come first.                                                              *)
Look(u) ==
  /\ phase # "retired" /\ writing = {}
  /\ bound' = bound \cup {u}
  /\ UNCHANGED <<phase, writing, closer, closes>>

StepBack(u) ==
  /\ writing # {}
  /\ bound' = bound \ {u}
  /\ UNCHANGED <<phase, writing, closer, closes>>

Begin(u) ==
  /\ u \in bound /\ writing = {}
  /\ bound' = bound \ {u} /\ writing' = {u}
  /\ UNCHANGED <<phase, closer, closes>>

(* Accepted, refused, or given up.                                          *)
End(u) ==
  /\ writing' = writing \ {u}
  /\ UNCHANGED <<phase, bound, closer, closes>>

Retire(u) ==
  /\ phase # "retired" /\ phase' = "retired"
  /\ closer' = {u}
  /\ UNCHANGED <<bound, writing, closes>>

Close(u) ==
  /\ u \in closer /\ writing = {}
  /\ closer' = {} /\ writing' = {u} /\ closes' = closes + 1
  /\ UNCHANGED <<phase, bound>>

(* No time is left for the Close frame.                                     *)
Leave(u) ==
  /\ closer' = closer \ {u}
  /\ UNCHANGED <<phase, bound, writing, closes>>

Next ==
  \/ Turn
  \/ \E u \in Users : \/ Look(u) \/ StepBack(u) \/ Begin(u) \/ End(u)
                      \/ Retire(u) \/ Close(u) \/ Leave(u)

Spec == Init /\ [][Next]_channelVars
=============================================================================
