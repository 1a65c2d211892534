-------------------------- MODULE TogetherContract --------------------------
(***************************************************************************)
(* What companionship promises of its conversation, whatever tasks,        *)
(* cancellations, ticks, frames, shutdowns and restarts are involved.      *)
(* Rooms and ordinary chat exclude each other and there is one room at a   *)
(* time.  The Core takes its turns in a room one after the other: the      *)
(* earliest message that waits comes first, and only when none waits does  *)
(* it speak of its own accord.  A turn is completed together with the      *)
(* message it answers, or breaks off and gives the message back.  What has *)
(* ended stays as it is, and a message is taken back only from a turn that *)
(* is over.                                                                *)
(***************************************************************************)
EXTENDS Naturals

CONSTANTS Rooms, Messages, Turns,
          None      \* no room, no message

VARIABLES
    course,         \* what became of each room
    said,           \* the turns of the Core: room, message answered, words
    post,           \* the messages of the owner
    talking         \* an ordinary reply is being handled or generated

vars == <<course, said, post, talking>>

Silence == [is |-> "unused", room |-> None, msg |-> None, text |-> "none"]
Blank == [is |-> "unsent", room |-> None]

Init ==
    /\ course = [s \in Rooms |-> "absent"]
    /\ said = [t \in Turns |-> Silence]
    /\ post = [m \in Messages |-> Blank]
    /\ talking = FALSE

Unoccupied == \A s \in Rooms : course[s] # "active"
Speaks(t) == said[t].is = "running"
Waiting(s) == {m \in Messages : post[m].room = s /\ post[m].is = "queued"}

-----------------------------------------------------------------------------
Open(s) ==
    /\ course[s] = "absent" /\ Unoccupied /\ ~talking
    /\ course' = [course EXCEPT ![s] = "active"]
    /\ UNCHANGED <<said, post, talking>>

(* The owner writes; messages are numbered as they come.                   *)
Send(s, m) ==
    /\ course[s] = "active" /\ post[m].is = "unsent"
    /\ \A n \in Messages : n < m => post[n].is # "unsent"
    /\ post' = [post EXCEPT ![m] = [is |-> "queued", room |-> s]]
    /\ UNCHANGED <<course, said, talking>>

(* The Core takes a turn: with the earliest message, or of its own accord. *)
TakeTurn(s, t, m) ==
    /\ course[s] = "active" /\ said[t].is = "unused"
    /\ \A u \in Turns : Speaks(u) => said[u].room # s
    /\ \/ /\ m = None /\ Waiting(s) = {}
          /\ UNCHANGED post
       \/ /\ m \in Waiting(s) /\ \A n \in Waiting(s) : m <= n
          /\ post' = [post EXCEPT ![m].is = "running"]
    /\ said' = [said EXCEPT ![t] = [is |-> "running", room |-> s, msg |-> m, text |-> "none"]]
    /\ UNCHANGED <<course, talking>>

Settle(m, is) == post' = IF m = None THEN post ELSE [post EXCEPT ![m].is = is]

Complete(t) ==
    /\ Speaks(t) /\ course[said[t].room] = "active"
    /\ said' = [said EXCEPT ![t].is = "complete", ![t].text = "full"]
    /\ Settle(said[t].msg, "complete")
    /\ UNCHANGED <<course, talking>>

BreakOff(t) ==
    /\ Speaks(t) /\ course[said[t].room] = "active"
    /\ said' = [said EXCEPT ![t].is = "interrupted", ![t].text = "partial"]
    /\ \E is \in {"queued", "failed"} : Settle(said[t].msg, is)
    /\ UNCHANGED <<course, talking>>

Retry(m) ==
    /\ post[m].is = "failed" /\ course[post[m].room] = "active"
    /\ post' = [post EXCEPT ![m].is = "queued"]
    /\ UNCHANGED <<course, said, talking>>

Interrupted(T) ==
    [t \in Turns |-> IF t \in T /\ Speaks(t) THEN [said[t] EXCEPT !.is = "interrupted"] ELSE said[t]]

(* The room ends; what it was answering is left where it is.               *)
End(s) ==
    /\ course[s] = "active" /\ course' = [course EXCEPT ![s] = "ended"]
    /\ said' = Interrupted({t \in Turns : said[t].room = s})
    /\ UNCHANGED <<post, talking>>

(* After a restart nothing that was going on goes on.                      *)
Recover ==
    /\ said' = Interrupted(Turns)
    /\ post' = [m \in Messages |-> IF post[m].is = "running" THEN [post[m] EXCEPT !.is = "failed"]
                                   ELSE post[m]]
    /\ UNCHANGED <<course, talking>>

ChatBegins ==
    /\ ~talking /\ Unoccupied /\ talking' = TRUE
    /\ UNCHANGED <<course, said, post>>
ChatEnds ==
    /\ talking /\ talking' = FALSE
    /\ UNCHANGED <<course, said, post>>

Next ==
    \/ \E s \in Rooms : Open(s) \/ End(s)
    \/ \E s \in Rooms, m \in Messages : Send(s, m)
    \/ \E s \in Rooms, t \in Turns, m \in Messages \cup {None} : TakeTurn(s, t, m)
    \/ \E t \in Turns : Complete(t) \/ BreakOff(t)
    \/ \E m \in Messages : Retry(m)
    \/ Recover \/ ChatBegins \/ ChatEnds

Spec == Init /\ [][Next]_vars
=============================================================================
