---------------------------- MODULE ModelContract ----------------------------
(***************************************************************************)
(* What the working model promises of the sources it learns from (a turn   *)
(* of chat, a reflection, an understanding of a room): each is learned at  *)
(* most once, whatever is retried, but for those that are given up to be   *)
(* learned again; and what is written over the present state of mind was   *)
(* written by someone who was shown just that state.                       *)
(***************************************************************************)
CONSTANTS Sources, Root

VARIABLES
    known,      \* sources that were learned, as a version or as a note
    again,      \* sources that may be learned again
    mind,       \* whose working model and whose desire are the heads
    shown       \* what the writer that works for a source was shown

vars == <<known, again, mind, shown>>

Minds == [model : Sources \cup {Root}, desire : Sources \cup {Root}]
Nobody == [model |-> Root, desire |-> Root]

Init == known = {} /\ again = {} /\ mind = Nobody /\ shown = [s \in Sources |-> {}]

Show(s) ==
    /\ shown' = [shown EXCEPT ![s] = {mind}]
    /\ UNCHANGED <<known, again, mind>>

Again(s) ==
    /\ again' = again \cup {s}
    /\ UNCHANGED <<known, mind, shown>>

(* Writers answer, are given up, or die together.                          *)
Drop(S) ==
    /\ shown' = [s \in Sources |-> IF s \in S THEN {} ELSE shown[s]]
    /\ UNCHANGED <<known, again, mind>>

Comes(s) == s \notin known \ again /\ known' = known \cup {s}

Remember(s) ==
    /\ Comes(s)
    /\ UNCHANGED <<again, mind, shown>>

Learn(s) ==
    /\ Comes(s)
    /\ UNCHANGED again
    /\ shown[s] = {mind} /\ shown' = [shown EXCEPT ![s] = {}]
    /\ mind' \in {[model |-> s, desire |-> mind.desire], [model |-> s, desire |-> s]}

Next ==
    \/ \E s \in Sources : Show(s) \/ Again(s) \/ Remember(s) \/ Learn(s)
    \/ \E S \in SUBSET Sources : Drop(S)

Spec == Init /\ [][Next]_vars
=============================================================================
