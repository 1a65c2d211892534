---------------------------- MODULE MCSceneLink ----------------------------
(* SceneLink up to what no later step and no property can tell apart: the  *)
(* tokens already given, the times of a lease that is closed or of a poll  *)
(* that is answered, the programs of a scene that is over, grants below    *)
(* the fence, and which earlier generation an order or an adoption is of.  *)
EXTENDS SceneLink

Over == status \in {"ended", "gone"}

ServerView ==
    IF Over THEN <<status, IF status = "gone" THEN 0 ELSE gen, revealed>>
    ELSE <<server, gen \in orders, orders \ {gen} # {},
           adopted \cap {believed, sound.version}>>

PhoneView ==
    IF Running
    THEN <<[run EXCEPT !.last = clock - @ >= Interval], deadline,
           IF run.poll = 0 THEN 0 ELSE requestedAt>>
    ELSE <<>>

View == <<clock, request, closed, ServerView, PhoneView, wire, reply, stopped,
          {g \in grants : g > closed[Scene]}>>
=============================================================================
