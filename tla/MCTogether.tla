----------------------------- MODULE MCTogether -----------------------------
(* Together with one room: Paused for turns without frames, Attentive for  *)
(* the frames.                                                             *)
EXTENDS Together
CONSTANT r1
Paused == {<<"paused", FALSE>>, <<"paused", TRUE>>}
Attentive == {<<"ready", FALSE>>}
=============================================================================
