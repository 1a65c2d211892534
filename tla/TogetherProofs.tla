--------------------------- MODULE TogetherProofs ---------------------------
(***************************************************************************)
(* Proofs about Together, for any number of rooms, messages, turns,        *)
(* captures, source changes and restarts.                                  *)
(*                                                                         *)
(* The argument: a message that is being answered and the turn that        *)
(* answers it name each other, so the message is completed by that turn,   *)
(* once, and only in the step that completes the turn; a task is cut by    *)
(* every step that makes what it does obsolete, and does nothing more.     *)
(***************************************************************************)
EXTENDS Together, TLAPS, FiniteSetTheorems, WellFoundedInduction

LEMMA EarliestIsFirst ==
    ASSUME NEW S \in SUBSET Nat, S # {}
    PROVE  Earliest(S) \in S /\ \A n \in S : Earliest(S) <= n
<1> DEFINE R == OpToRel(<, Nat)
<1>1. IsWellFoundedOn(R, Nat)
    BY NatLessThanWellFounded
<1>2. \A x, y \in Nat : y < x => <<y, x>> \in R
    BY DEF OpToRel
<1> HIDE DEF R
<1>3. PICK x \in S : \A y \in S : ~(<<y, x>> \in R)
    BY <1>1, WFMin
<1>4. ASSUME NEW y \in S PROVE x <= y
    <2>1. ~(y < x) /\ x \in Nat /\ y \in Nat
        BY <1>2, <1>3
    <2> QED BY <2>1
<1> QED BY <1>4 DEF Earliest

-----------------------------------------------------------------------------
(* Types *)

RoomRec == [is : {"absent", "active", "ended"}, online : BOOLEAN,
            expired : BOOLEAN, gen : Nat, source : Nat,
            capture : {"ready", "paused", "unavailable"}, opening : BOOLEAN,
            wake : {"none", "set", "due"}, busy : BOOLEAN]
TurnRec == [is : {"unused", "running", "complete", "interrupted"},
            room : Rooms \cup {None}, kind : {"opening", "message", "awake"},
            gen : Nat, msg : Messages \cup {None},
            text : {"none", "partial", "full"}]
MsgRec == [is : {"unsent", "queued", "running", "complete", "failed"},
           room : Rooms \cup {None}, photo : Captures \cup {None},
           turn : Turns \cup {None}]
CapRec == [is : {"unused", "ready", "attached", "failed", "consumed"} \cup Requested,
           room : Rooms \cup {None}, purpose : {"manual", "awake", "tool"},
           version : Nat, file : BOOLEAN, fresh : BOOLEAN]
TaskRec == [pc : {"none", "wanting", "claimed"} \cup RunningTurn,
            turn : Turns \cup {None}, cut : BOOLEAN,
            asked : Captures \cup {None}, looked : SUBSET {"awake", "tool"},
            frames : SUBSET Captures]

Tables ==
    /\ room \in [Rooms -> RoomRec]
    /\ turn \in [Turns -> TurnRec]
    /\ msg \in [Messages -> MsgRec]
    /\ cap \in [Captures -> CapRec]
Memory ==
    /\ task \in [Rooms -> TaskRec]
    /\ reason \in [Rooms -> {"source_changed", "other"}]
    /\ tick \in Rooms \cup {None}
    /\ ordinary \in {"idle", "handling", "generating"}
    /\ reserved \in BOOLEAN /\ enabled \in BOOLEAN /\ closed \in BOOLEAN /\ recovered \in BOOLEAN
    /\ restarts \in 0..MaxRestarts

LEMMA TypeParts == TypeOK <=> Tables /\ Memory
BY DEF TypeOK, Tables, Memory, RoomRec, TurnRec, MsgRec, CapRec, TaskRec

LEMMA Blank == NoTask \in TaskRec /\ [NoTask EXCEPT !.pc = "wanting"] \in TaskRec
               /\ NoCapture \in CapRec /\ NoRoom \in RoomRec
BY DEF NoTask, TaskRec, NoCapture, CapRec, NoRoom, RoomRec

(* The updates of a room that count up.                                    *)
LEMMA RoomUpdates ==
    ASSUME NEW r \in RoomRec
    PROVE  /\ r.source + 1 \in Nat /\ r.gen + 1 \in Nat
           /\ \A n \in Nat :
                 /\ [r EXCEPT !.source = n, !.capture = "paused"] \in RoomRec
                 /\ [r EXCEPT !.is = "ended", !.gen = n, !.wake = "none",
                              !.opening = FALSE, !.capture = "paused"] \in RoomRec
                 /\ [r EXCEPT !.online = FALSE, !.expired = TRUE, !.busy = FALSE,
                              !.capture = "paused", !.source = n] \in RoomRec
                 /\ [r EXCEPT !.online = FALSE, !.expired = TRUE, !.busy = FALSE,
                              !.capture = "unavailable", !.gen = n] \in RoomRec
<1>1. r.source + 1 \in Nat /\ r.gen + 1 \in Nat
    BY DEF RoomRec
<1>2. ASSUME NEW n \in Nat
      PROVE  /\ [r EXCEPT !.source = n, !.capture = "paused"] \in RoomRec
             /\ [r EXCEPT !.is = "ended", !.gen = n, !.wake = "none",
                          !.opening = FALSE, !.capture = "paused"] \in RoomRec
    BY DEF RoomRec
<1>3. ASSUME NEW n \in Nat
      PROVE  /\ [r EXCEPT !.online = FALSE, !.expired = TRUE, !.busy = FALSE,
                          !.capture = "paused", !.source = n] \in RoomRec
             /\ [r EXCEPT !.online = FALSE, !.expired = TRUE, !.busy = FALSE,
                          !.capture = "unavailable", !.gen = n] \in RoomRec
    BY DEF RoomRec
<1> QED BY <1>1, <1>2, <1>3

(* Numbers that stand for messages, turns and captures are not None.       *)
LEMMA Numbers == /\ Messages \subseteq Nat /\ Turns \subseteq Nat /\ Captures \subseteq Nat
                 /\ None \notin Messages /\ None \notin Turns /\ None \notin Captures
BY BoundsAssumption DEF Messages, Turns, Captures, None

(* What all but a room's own task does to tasks: it leaves them, cuts      *)
(* them, starts them or, at a restart, forgets them.                       *)
Fresh == [NoTask EXCEPT !.pc = "wanting"]
Calm(r) ==
    \/ task'[r] = task[r]
    \/ task'[r] = [task[r] EXCEPT !.cut = TRUE]
    \/ task[r].pc = "none" /\ task'[r] = Fresh
    \/ Restart /\ task'[r] = NoTask

LEMMA KickedTasks ==
    ASSUME NEW tasks \in [Rooms -> TaskRec], NEW s
    PROVE  /\ Kicked(tasks, s) \in [Rooms -> TaskRec]
           /\ \A r \in Rooms : \/ Kicked(tasks, s)[r] = tasks[r]
                               \/ tasks[r].pc = "none" /\ Kicked(tasks, s)[r] = Fresh
BY Blank DEF Kicked, Fresh

LEMMA CutTasks ==
    ASSUME NEW tasks \in [Rooms -> TaskRec], NEW s
    PROVE  /\ Cut(tasks, s) \in [Rooms -> TaskRec]
           /\ \A r \in Rooms : \/ Cut(tasks, s)[r] = tasks[r]
                               \/ Cut(tasks, s)[r] = [tasks[r] EXCEPT !.cut = TRUE]
<1>1. \A r \in Rooms : [tasks[r] EXCEPT !.cut = TRUE] \in TaskRec
    BY DEF TaskRec
<1>2. Cut(tasks, s) = tasks \/ Cut(tasks, s) = [tasks EXCEPT ![s] = [tasks[s] EXCEPT !.cut = TRUE]]
    BY DEF Cut
<1> QED BY <1>1, <1>2

(* Captures are invalidated, consumed or swept, and keep what they are of. *)
Keeps(c) ==
    /\ cap'[c].room = cap[c].room /\ cap'[c].purpose = cap[c].purpose
    /\ cap'[c].version = cap[c].version

LEMMA InvalidatedCaps ==
    ASSUME Tables, NEW s, NEW P, cap' = Invalidated(s, P)
    PROVE  /\ cap' \in [Captures -> CapRec]
           /\ \A c \in Captures :
                 \/ cap'[c] = cap[c]
                 \/ cap[c].is \in Requested /\ cap'[c] = [cap[c] EXCEPT !.is = "failed"]
<1>1. \A c \in Captures : cap[c] \in CapRec /\ [cap[c] EXCEPT !.is = "failed"] \in CapRec
    BY DEF Tables, CapRec
<1> QED BY <1>1 DEF Invalidated

LEMMA ConsumedCaps ==
    ASSUME Tables, NEW S
    PROVE  /\ Consumed(S) \in [Captures -> CapRec]
           /\ \A c \in Captures :
                 Consumed(S)[c] = IF c \in S THEN [cap[c] EXCEPT !.is = "consumed", !.file = FALSE]
                                             ELSE cap[c]
<1>1. \A c \in Captures : cap[c] \in CapRec /\ [cap[c] EXCEPT !.is = "consumed", !.file = FALSE] \in CapRec
    BY DEF Tables, CapRec
<1> QED BY <1>1 DEF Consumed

LEMMA NewCapture ==
    ASSUME Tables, NEW s \in Rooms, NEW purpose \in Purposes, CanCapture(s, purpose),
           cap' = WithCapture(s, purpose)
    PROVE  /\ cap' \in [Captures -> CapRec]
           /\ NextCapture \in Captures /\ cap[NextCapture].is = "unused"
           /\ cap'[NextCapture].is = "requested" /\ cap'[NextCapture].room = s
           /\ cap'[NextCapture].purpose = purpose /\ cap'[NextCapture].version = room[s].source
           /\ cap'[NextCapture].file = FALSE
           /\ \A c \in Captures \ {NextCapture} : cap'[c] = cap[c]
<1> DEFINE free == {c \in Captures : cap[c].is = "unused"}
           new == [NoCapture EXCEPT !.is = "requested", !.room = s,
                                    !.purpose = purpose, !.version = room[s].source]
<1>1. NextCapture \in Captures /\ cap[NextCapture].is = "unused"
    <2>1. free \in SUBSET Nat /\ free # {}
        BY Numbers DEF CanCapture
    <2>2. Earliest(free) \in free
        BY <2>1, EarliestIsFirst
    <2> QED BY <2>2 DEF NextCapture
<1>2. /\ new \in CapRec
      /\ new.is = "requested" /\ new.room = s /\ new.purpose = purpose
      /\ new.version = room[s].source /\ new.file = FALSE
    <2>1. room[s] \in RoomRec
        BY DEF Tables
    <2> QED BY <2>1, Blank DEF CapRec, RoomRec, Requested, Purposes, NoCapture
<1>3. cap' = [cap EXCEPT ![NextCapture] = new]
    BY DEF WithCapture
<1> HIDE DEF new
<1> QED BY <1>1, <1>2, <1>3 DEF Tables

(* Who works on what.                                                      *)
Posts ==
    /\ \A s \in Rooms :
          /\ task[s].pc \in {"claimed"} \cup RunningTurn => task[s].turn # None
          /\ task[s].turn # None => turn[task[s].turn].room = s /\ turn[task[s].turn].is # "unused"
          /\ task[s].pc = "asking" => task[s].asked # None
    /\ \A t \in Turns :
          /\ turn[t].is \in {"unused", "running"} => turn[t].text = "none"
          /\ turn[t].is # "unused" => turn[t].room \in Rooms
    /\ \A m \in Messages :
          /\ msg[m].is # "unsent" => msg[m].room \in Rooms
          /\ msg[m].is \in {"running", "complete", "failed"} => msg[m].turn # None

(* What all but a room's own task does to turns and messages.              *)
Settles(t) ==
    \/ turn'[t] = turn[t]
    \/ turn[t].is = "running" /\ turn'[t] = [turn[t] EXCEPT !.is = "interrupted"]
Posted(m) ==
    \/ msg'[m] = msg[m]
    \/ /\ msg[m].is = "unsent" /\ msg'[m].is = "queued" /\ msg'[m].turn = None
       /\ msg'[m].room \in Rooms
    \/ msg[m].is = "failed" /\ msg'[m] = [msg[m] EXCEPT !.is = "queued"]
    \/ /\ msg[m].is = "running" /\ msg'[m] = [msg[m] EXCEPT !.is = "failed"]
       /\ \A t \in Turns : turn'[t].is # "running"

Outside == Requests \/ Ticking \/ Time \/ Chat \/ Life \/ UNCHANGED vars

Moves == /\ Tables' /\ Memory'
         /\ \A r \in Rooms : Calm(r)
         /\ \A t \in Turns : Settles(t)
         /\ \A m \in Messages : Posted(m)

LEMMA StartMoves ==
    ASSUME TypeOK, NEW s \in Rooms, NEW wait \in BOOLEAN, Start(s, wait)
    PROVE  Moves
<1>1. room' \in [Rooms -> RoomRec]
    <2>1. room' = [room EXCEPT ![s] = [NoRoom EXCEPT !.is = "active", !.opening = TRUE,
                                                     !.online = ~wait, !.expired = wait]]
        BY DEF Start
    <2>2. [NoRoom EXCEPT !.is = "active", !.opening = TRUE, !.online = ~wait, !.expired = wait] \in RoomRec
        BY DEF NoRoom, RoomRec
    <2> QED BY <2>1, <2>2, TypeParts DEF Tables
<1>2. /\ task' = Kicked(task, s)
      /\ UNCHANGED <<turn, msg, cap, reason, tick, ordinary, reserved, enabled, closed, recovered, restarts>>
    BY DEF Start, chat, process
<1>3. task \in [Rooms -> TaskRec]
    BY TypeParts DEF Memory
<1>4. task' \in [Rooms -> TaskRec] /\ \A r \in Rooms : Calm(r)
    BY <1>2, <1>3, KickedTasks DEF Calm
<1> QED BY <1>1, <1>2, <1>4, TypeParts DEF Tables, Memory, Moves, Settles, Posted

LEMMA MessageMoves ==
    ASSUME TypeOK, NEW s \in Rooms, NEW photo \in Captures \cup {None}, Message(s, photo)
    PROVE  /\ Moves
           /\ \A c \in Captures : \/ cap'[c] = cap[c]
                                  \/ c = photo /\ Usable(c, s) /\ cap'[c] = [cap[c] EXCEPT !.is = "attached"]
           /\ \E n \in Messages :
                 /\ msg[n].is = "unsent"
                 /\ msg'[n] = [is |-> "queued", room |-> s, photo |-> photo, turn |-> None]
                 /\ \A m \in Messages \ {n} : msg'[m] = msg[m]
<1> DEFINE unsent == {m \in Messages : msg[m].is = "unsent"}
           n == Earliest(unsent)
           new == [is |-> "queued", room |-> s, photo |-> photo, turn |-> None]
<1>1. /\ unsent # {} /\ msg' = [msg EXCEPT ![n] = new]
      /\ cap' = IF photo = None THEN cap ELSE [cap EXCEPT ![photo].is = "attached"]
      /\ room' = [room EXCEPT ![s].wake = "none"]
      /\ photo # None => Usable(photo, s)
      /\ UNCHANGED <<turn, tick, ordinary, reserved, enabled, closed, recovered, restarts>>
    BY DEF Message, chat, process
<1>2. \/ task' = Cut(task, s) /\ reason' \in {reason, [reason EXCEPT ![s] = "other"]}
      \/ task' = Kicked(task, s) /\ reason' = reason
    BY DEF Message, CutFor
<1>3. n \in Messages /\ msg[n].is = "unsent"
    <2>1. unsent \in SUBSET Nat
        BY Numbers
    <2>2. n \in unsent
        BY <1>1, <2>1, EarliestIsFirst
    <2> QED BY <2>2
<1>4. new \in MsgRec
    BY DEF MsgRec
<1>5. /\ room \in [Rooms -> RoomRec] /\ msg \in [Messages -> MsgRec] /\ cap \in [Captures -> CapRec]
      /\ task \in [Rooms -> TaskRec] /\ reason \in [Rooms -> {"source_changed", "other"}]
    BY TypeParts DEF Tables, Memory
<1>6. msg' \in [Messages -> MsgRec] /\ msg'[n] = new /\ \A m \in Messages \ {n} : msg'[m] = msg[m]
    <2> HIDE DEF n, new
    <2> QED BY <1>1, <1>3, <1>4, <1>5
<1>7. room' \in [Rooms -> RoomRec]
    <2>1. [room[s] EXCEPT !.wake = "none"] \in RoomRec
        BY <1>5 DEF RoomRec
    <2> QED BY <1>1, <1>5, <2>1
<1>8. /\ cap' \in [Captures -> CapRec]
      /\ \A c \in Captures : \/ cap'[c] = cap[c]
                             \/ c = photo /\ Usable(c, s) /\ cap'[c] = [cap[c] EXCEPT !.is = "attached"]
    <2>1. CASE photo = None
        BY <1>1, <1>5, <2>1
    <2>2. CASE photo # None
        <3>1. photo \in Captures /\ [cap[photo] EXCEPT !.is = "attached"] \in CapRec
            BY <1>5, <2>2 DEF CapRec
        <3> QED BY <1>1, <1>5, <2>2, <3>1
    <2> QED BY <2>1, <2>2
<1>9. task' \in [Rooms -> TaskRec] /\ \A r \in Rooms : Calm(r)
    BY <1>2, <1>5, KickedTasks, CutTasks DEF Calm
<1>10. reason' \in [Rooms -> {"source_changed", "other"}]
    BY <1>2, <1>5
<1>11. \A m \in Messages : Posted(m)
    <2>1. new.is = "queued" /\ new.turn = None /\ new.room \in Rooms
        OBVIOUS
    <2> HIDE DEF n, new
    <2> QED BY <1>3, <1>6, <2>1 DEF Posted
<1>12. Tables' /\ Memory'
    <2> HIDE DEF n, new
    <2> QED BY <1>1, <1>6, <1>7, <1>8, <1>9, <1>10, TypeParts DEF Tables, Memory
<1>13. \A t \in Turns : Settles(t)
    BY <1>1 DEF Settles
<1> QED BY <1>3, <1>6, <1>8, <1>9, <1>11, <1>12, <1>13 DEF Moves

LEMMA PhoneMoves ==
    ASSUME TypeOK, NEW s \in Rooms,
           \/ \E report \in Reports : Heartbeat(s, report)
           \/ ChangeSource(s) \/ RetryOpening(s) \/ RequestPhoto(s)
    PROVE  Moves
<1>0. /\ room \in [Rooms -> RoomRec] /\ task \in [Rooms -> TaskRec]
      /\ reason \in [Rooms -> {"source_changed", "other"}] /\ room[s] \in RoomRec
    BY TypeParts DEF Tables, Memory
<1>1. ASSUME NEW report \in Reports, Heartbeat(s, report) PROVE Moves
    <2>1. report[2] \in BOOLEAN /\ report[1] \in {"ready", "paused", "unavailable"}
        BY BoundsAssumption
    <2>2. PICK capture \in {"ready", "paused", "unavailable"} :
             capture = IF enabled THEN report[1] ELSE "paused"
        BY <2>1
    <2>3. [room[s] EXCEPT !.online = TRUE, !.expired = FALSE, !.busy = report[2], !.capture = capture] \in RoomRec
        BY <1>0, <2>1 DEF RoomRec
    <2>4. /\ room' = [room EXCEPT ![s] = [room[s] EXCEPT !.online = TRUE, !.expired = FALSE, !.busy = report[2],
                                                         !.capture = capture]]
          /\ task' = Kicked(task, s)
          /\ UNCHANGED <<turn, msg, cap, reason, tick, ordinary, reserved, enabled, closed, recovered, restarts>>
        BY <1>0, <1>1, <2>2 DEF Heartbeat, chat, process
    <2>5. room' \in [Rooms -> RoomRec]
        BY <1>0, <2>3, <2>4
    <2>6. task' \in [Rooms -> TaskRec] /\ \A r \in Rooms : Calm(r)
        BY <1>0, <2>4, KickedTasks DEF Calm
    <2> QED BY <2>4, <2>5, <2>6, TypeParts DEF Tables, Memory, Moves, Settles, Posted
<1>2. CASE ChangeSource(s)
    <2>1. /\ room' = [room EXCEPT ![s] = [room[s] EXCEPT !.source = room[s].source + 1, !.capture = "paused"]]
          /\ cap' = Invalidated(s, Purposes)
          /\ reason' \in {reason, [reason EXCEPT ![s] = "source_changed"]}
          /\ task' = Kicked(Cut(task, s), s)
          /\ UNCHANGED <<turn, msg, tick, ordinary, reserved, enabled, closed, recovered, restarts>>
        BY <1>0, <1>2 DEF ChangeSource, chat, process
    <2>2. room' \in [Rooms -> RoomRec]
        <3>1. [room[s] EXCEPT !.source = room[s].source + 1, !.capture = "paused"] \in RoomRec
            BY <1>0, RoomUpdates
        <3> QED BY <1>0, <2>1, <3>1
    <2>3. cap' \in [Captures -> CapRec]
        BY <2>1, InvalidatedCaps, TypeParts
    <2>4. task' \in [Rooms -> TaskRec] /\ \A r \in Rooms : Calm(r)
        <3> DEFINE cut == Cut(task, s)
        <3>1. /\ cut \in [Rooms -> TaskRec]
              /\ \A r \in Rooms : cut[r] = task[r] \/ cut[r] = [task[r] EXCEPT !.cut = TRUE]
            BY <1>0, CutTasks
        <3>2. \A r \in Rooms : cut[r].pc = task[r].pc
            BY <1>0, <3>1 DEF TaskRec
        <3>3. task' = Kicked(cut, s)
            BY <2>1
        <3> HIDE DEF cut
        <3>4. /\ task' \in [Rooms -> TaskRec]
              /\ \A r \in Rooms : task'[r] = cut[r] \/ (cut[r].pc = "none" /\ task'[r] = Fresh)
            BY <3>1, <3>3, KickedTasks
        <3> QED BY <3>1, <3>2, <3>4 DEF Calm
    <2>5. reason' \in [Rooms -> {"source_changed", "other"}]
        BY <1>0, <2>1
    <2> QED BY <2>1, <2>2, <2>3, <2>4, <2>5, TypeParts DEF Tables, Memory, Moves, Settles, Posted
<1>3. CASE RetryOpening(s)
    <2>1. /\ room' = [room EXCEPT ![s] = [room[s] EXCEPT !.opening = TRUE]]
          /\ task' = Kicked(task, s)
          /\ UNCHANGED <<turn, msg, cap, reason, tick, ordinary, reserved, enabled, closed, recovered, restarts>>
        BY <1>0, <1>3 DEF RetryOpening, chat, process
    <2>2. [room[s] EXCEPT !.opening = TRUE] \in RoomRec
        BY <1>0 DEF RoomRec
    <2>3. room' \in [Rooms -> RoomRec]
        BY <1>0, <2>1, <2>2
    <2>4. task' \in [Rooms -> TaskRec] /\ \A r \in Rooms : Calm(r)
        BY <1>0, <2>1, KickedTasks DEF Calm
    <2> QED BY <2>1, <2>3, <2>4, TypeParts DEF Tables, Memory, Moves, Settles, Posted
<1>4. CASE RequestPhoto(s)
    <2>1. /\ cap' = WithCapture(s, "manual") /\ CanCapture(s, "manual") /\ "manual" \in Purposes
          /\ UNCHANGED <<room, turn, msg, task, reason, tick, ordinary, reserved, enabled, closed, recovered, restarts>>
        BY <1>4 DEF RequestPhoto, chat, process, Purposes
    <2>2. cap' \in [Captures -> CapRec]
        BY <2>1, NewCapture, TypeParts
    <2> QED BY <2>1, <2>2, TypeParts DEF Tables, Memory, Moves, Settles, Posted, Calm
<1> QED BY <1>1, <1>2, <1>3, <1>4

LEMMA RetryMoves ==
    ASSUME TypeOK, NEW m \in Messages, RetryMessage(m)
    PROVE  /\ Moves
           /\ msg[m].is = "failed" /\ msg'[m] = [msg[m] EXCEPT !.is = "queued"]
           /\ \A n \in Messages \ {m} : msg'[n] = msg[n]
<1>1. /\ msg[m].is = "failed" /\ msg' = [msg EXCEPT ![m] = [msg[m] EXCEPT !.is = "queued"]]
      /\ task' = Kicked(task, msg[m].room)
      /\ UNCHANGED <<room, turn, cap, reason, tick, ordinary, reserved, enabled, closed, recovered, restarts>>
    BY TypeParts DEF RetryMessage, chat, process, Tables
<1>2. [msg[m] EXCEPT !.is = "queued"] \in MsgRec
    BY TypeParts DEF Tables, MsgRec
<1>3. /\ msg' \in [Messages -> MsgRec] /\ msg'[m] = [msg[m] EXCEPT !.is = "queued"]
      /\ \A n \in Messages \ {m} : msg'[n] = msg[n]
    BY <1>1, <1>2, TypeParts DEF Tables
<1>4. task' \in [Rooms -> TaskRec] /\ \A r \in Rooms : Calm(r)
    BY <1>1, KickedTasks, TypeParts DEF Calm, Memory
<1> QED BY <1>1, <1>3, <1>4, TypeParts DEF Tables, Memory, Moves, Settles, Posted

LEMMA EndMoves ==
    ASSUME TypeOK, NEW s \in Rooms, End(s)
    PROVE  Moves
<1>0. /\ room \in [Rooms -> RoomRec] /\ task \in [Rooms -> TaskRec] /\ turn \in [Turns -> TurnRec]
      /\ reason \in [Rooms -> {"source_changed", "other"}] /\ room[s] \in RoomRec
    BY TypeParts DEF Tables, Memory
<1>1. /\ room' = [room EXCEPT ![s] = [room[s] EXCEPT !.is = "ended", !.gen = room[s].gen + 1, !.wake = "none",
                                                     !.opening = FALSE, !.capture = "paused"]]
      /\ turn' = [t \in Turns |-> IF turn[t].room = s /\ turn[t].is = "running"
                                  THEN [turn[t] EXCEPT !.is = "interrupted"] ELSE turn[t]]
      /\ cap' = Invalidated(s, Purposes)
      /\ task' = Cut(task, s) /\ reason' \in {reason, [reason EXCEPT ![s] = "other"]}
      /\ UNCHANGED <<msg, tick, ordinary, reserved, enabled, closed, recovered, restarts>>
    BY <1>0 DEF End, CutFor, chat, process
<1>2. room' \in [Rooms -> RoomRec]
    <2>1. [room[s] EXCEPT !.is = "ended", !.gen = room[s].gen + 1, !.wake = "none",
                          !.opening = FALSE, !.capture = "paused"] \in RoomRec
        BY <1>0, RoomUpdates
    <2> QED BY <1>0, <1>1, <2>1
<1>3. turn' \in [Turns -> TurnRec] /\ \A t \in Turns : Settles(t)
    <2>1. \A t \in Turns : turn[t] \in TurnRec /\ [turn[t] EXCEPT !.is = "interrupted"] \in TurnRec
        BY <1>0 DEF TurnRec
    <2> QED BY <1>1, <2>1 DEF Settles
<1>4. cap' \in [Captures -> CapRec]
    BY <1>1, InvalidatedCaps, TypeParts
<1>5. task' \in [Rooms -> TaskRec] /\ \A r \in Rooms : Calm(r)
    BY <1>0, <1>1, CutTasks DEF Calm
<1>6. reason' \in [Rooms -> {"source_changed", "other"}]
    BY <1>0, <1>1
<1> QED BY <1>1, <1>2, <1>3, <1>4, <1>5, <1>6, TypeParts DEF Tables, Memory, Moves, Posted

LEMMA ConfigureMoves ==
    ASSUME TypeOK, NEW on \in BOOLEAN, Configure(on)
    PROVE  Moves
<1>0. /\ room \in [Rooms -> RoomRec] /\ task \in [Rooms -> TaskRec]
      /\ reason \in [Rooms -> {"source_changed", "other"}]
    BY TypeParts DEF Tables, Memory
<1>1. /\ enabled' = on
      /\ UNCHANGED <<turn, msg, tick, ordinary, reserved, closed, recovered, restarts>>
    BY DEF Configure, chat, process
<1>2. CASE AnyActive /\ ~on
    <2>0. PICK s \in Rooms :
              /\ room' = [room EXCEPT ![s].online = FALSE, ![s].expired = TRUE,
                                      ![s].busy = FALSE, ![s].capture = "paused",
                                      ![s].source = @ + 1]
              /\ cap' = Invalidated(s, Purposes)
              /\ CutFor(s, "other")
        BY <1>2 DEF Configure
    <2>1. /\ room' = [room EXCEPT ![s] = [room[s] EXCEPT !.online = FALSE, !.expired = TRUE, !.busy = FALSE,
                                              !.capture = "paused", !.source = room[s].source + 1]]
          /\ cap' = Invalidated(s, Purposes)
          /\ task' = Cut(task, s) /\ reason' \in {reason, [reason EXCEPT ![s] = "other"]}
        BY <1>0, <2>0 DEF CutFor
    <2>2. room' \in [Rooms -> RoomRec]
        <3>1. [room[s] EXCEPT !.online = FALSE, !.expired = TRUE, !.busy = FALSE,
                              !.capture = "paused", !.source = room[s].source + 1] \in RoomRec
            BY <1>0, RoomUpdates
        <3> QED BY <1>0, <2>1, <3>1
    <2>3. cap' \in [Captures -> CapRec]
        BY <2>1, InvalidatedCaps, TypeParts
    <2>4. task' \in [Rooms -> TaskRec] /\ \A r \in Rooms : Calm(r)
        BY <1>0, <2>1, CutTasks DEF Calm
    <2>5. reason' \in [Rooms -> {"source_changed", "other"}]
        BY <1>0, <2>1
    <2> QED BY <1>1, <2>2, <2>3, <2>4, <2>5, TypeParts DEF Tables, Memory, Moves, Settles, Posted
<1>3. CASE ~(AnyActive /\ ~on)
    <2>1. UNCHANGED <<room, cap, task, reason>>
        BY <1>3 DEF Configure
    <2> QED BY <1>1, <2>1, TypeParts DEF Tables, Memory, Moves, Settles, Posted, Calm
<1> QED BY <1>2, <1>3

LEMMA ReceiveMoves ==
    ASSUME TypeOK, NEW c \in Captures, NEW error \in BOOLEAN, ReceiveCapture(c, error)
    PROVE  /\ Moves
           /\ cap[c].is = "requested" /\ cap'[c].is \in {"failed", "ready"} /\ Keeps(c)
           /\ cap'[c].is = "ready" => cap'[c].file = TRUE
           /\ \A d \in Captures \ {c} : cap'[d] = cap[d]
<1>1. /\ cap[c].is = "requested"
      /\ cap' = [cap EXCEPT ![c] = [cap[c] EXCEPT !.is = IF error THEN "failed" ELSE "ready", !.file = ~error]]
      /\ UNCHANGED <<room, turn, msg, task, reason, tick, ordinary, reserved, enabled, closed, recovered, restarts>>
    BY TypeParts DEF ReceiveCapture, chat, process, Tables
<1>2. PICK is \in {"failed", "ready"}, file \in BOOLEAN :
         is = (IF error THEN "failed" ELSE "ready") /\ file = ~error
    BY Zenon
<1>3. [cap[c] EXCEPT !.is = is, !.file = file] \in CapRec
    BY TypeParts DEF Tables, CapRec
<1>4. cap' = [cap EXCEPT ![c] = [cap[c] EXCEPT !.is = is, !.file = file]]
    BY <1>1, <1>2
<1>5. is = "ready" => file = TRUE
    BY <1>2
<1>6. /\ cap' \in [Captures -> CapRec]
      /\ cap'[c] = [cap[c] EXCEPT !.is = is, !.file = file]
      /\ \A d \in Captures \ {c} : cap'[d] = cap[d]
    BY <1>3, <1>4, TypeParts DEF Tables
<1>7. cap'[c].is = is /\ Keeps(c) /\ cap'[c].file = file
    BY <1>6, TypeParts DEF Tables, CapRec, Keeps
<1>8. Moves
    BY <1>1, <1>6, TypeParts DEF Tables, Memory, Moves, Settles, Posted, Calm
<1> QED BY <1>1, <1>5, <1>6, <1>7, <1>8

LEMMA TickMoves ==
    ASSUME TypeOK, Ticking
    PROVE  Moves
<1>0. /\ room \in [Rooms -> RoomRec] /\ task \in [Rooms -> TaskRec]
      /\ reason \in [Rooms -> {"source_changed", "other"}]
    BY TypeParts DEF Tables, Memory
<1>1. CASE Sweep
    <2> DEFINE gone == {c \in Captures : cap[c].file /\ Unneeded(c)}
    <2>1. /\ cap' = Swept(Consumed(gone))
          /\ UNCHANGED <<room, turn, msg, task, reason, tick, ordinary, reserved, enabled, closed, recovered, restarts>>
        BY <1>1 DEF Sweep, Service, chat, process
    <2>2. Consumed(gone) \in [Captures -> CapRec]
        BY ConsumedCaps, TypeParts
    <2> HIDE DEF gone
    <2>3. \A c \in Captures : Consumed(gone)[c] \in CapRec /\ [Consumed(gone)[c] EXCEPT !.is = "failed"] \in CapRec
        BY <2>2 DEF CapRec
    <2>4. cap' \in [Captures -> CapRec]
        BY <2>1, <2>3 DEF Swept
    <2> QED BY <2>1, <2>4, TypeParts DEF Tables, Memory, Moves, Settles, Posted, Calm
<1>2. ASSUME NEW s \in Rooms, TickKicks(s) PROVE Moves
    <2>1. /\ task' = Kicked(task, s)
          /\ UNCHANGED <<room, turn, msg, cap, reason, tick, ordinary, reserved, enabled, closed, recovered, restarts>>
        BY <1>2 DEF TickKicks, Service, tables, chat, process
    <2>2. task' \in [Rooms -> TaskRec] /\ \A r \in Rooms : Calm(r)
        BY <1>0, <2>1, KickedTasks DEF Calm
    <2> QED BY <2>1, <2>2, TypeParts DEF Tables, Memory, Moves, Settles, Posted
<1>3. ASSUME NEW s \in Rooms, TickExpires(s) PROVE Moves
    <2>1. /\ tick' = s
          /\ UNCHANGED <<turn, msg, task, reason, ordinary, reserved, enabled, closed, recovered, restarts>>
        BY <1>3 DEF TickExpires, chat, process
    <2>2. CASE UNCHANGED <<room, cap>>
        BY <2>1, <2>2, TypeParts DEF Tables, Memory, Moves, Settles, Posted, Calm
    <2>3. CASE ~UNCHANGED <<room, cap>>
        <3>1. /\ room' = [room EXCEPT ![s] = [room[s] EXCEPT !.expired = TRUE, !.busy = FALSE, !.capture = "unavailable"]]
              /\ cap' = Invalidated(s, Autonomous)
            BY <1>0, <1>3, <2>3 DEF TickExpires
        <3>2. [room[s] EXCEPT !.expired = TRUE, !.busy = FALSE, !.capture = "unavailable"] \in RoomRec
            <4>1. room[s] \in RoomRec
                BY <1>0
            <4> QED BY <4>1 DEF RoomRec
        <3>3. room' \in [Rooms -> RoomRec] /\ cap' \in [Captures -> CapRec]
            BY <1>0, <3>1, <3>2, InvalidatedCaps, TypeParts
        <3> QED BY <2>1, <3>3, TypeParts DEF Tables, Memory, Moves, Settles, Posted, Calm
    <2> QED BY <2>2, <2>3
<1>4. ASSUME NEW s \in Rooms, TickCuts(s) PROVE Moves
    <2>1. /\ tick' = None /\ task' = Cut(task, s) /\ reason' \in {reason, [reason EXCEPT ![s] = "other"]}
          /\ UNCHANGED <<room, turn, msg, cap, ordinary, reserved, enabled, closed, recovered, restarts>>
        BY <1>4 DEF TickCuts, CutFor, tables, chat, process
    <2>2. task' \in [Rooms -> TaskRec] /\ \A r \in Rooms : Calm(r)
        BY <1>0, <2>1, CutTasks DEF Calm
    <2>3. reason' \in [Rooms -> {"source_changed", "other"}]
        BY <1>0, <2>1
    <2> QED BY <2>1, <2>2, <2>3, TypeParts DEF Tables, Memory, Moves, Settles, Posted
<1> QED BY <1>1, <1>2, <1>3, <1>4 DEF Ticking

LEMMA TimeMoves ==
    ASSUME TypeOK, Time
    PROVE  Moves
<1>1. ASSUME NEW s \in Rooms, LeaseEnds(s) \/ WakeFallsDue(s) PROVE Moves
    <2>1. UNCHANGED <<turn, msg, cap, task, reason, tick, ordinary, reserved, enabled, closed, recovered, restarts>>
        BY <1>1 DEF LeaseEnds, WakeFallsDue, Service, chat, process
    <2>2. room[s] \in RoomRec /\ room \in [Rooms -> RoomRec]
        BY TypeParts DEF Tables
    <2>3. room' = [room EXCEPT ![s] = [room[s] EXCEPT !.online = FALSE]]
          \/ room' = [room EXCEPT ![s] = [room[s] EXCEPT !.wake = "due"]]
        BY <1>1, <2>2 DEF LeaseEnds, WakeFallsDue
    <2>4. [room[s] EXCEPT !.online = FALSE] \in RoomRec /\ [room[s] EXCEPT !.wake = "due"] \in RoomRec
        BY <2>2 DEF RoomRec
    <2>5. room' \in [Rooms -> RoomRec]
        BY <2>2, <2>3, <2>4
    <2> QED BY <2>1, <2>5, TypeParts DEF Tables, Memory, Moves, Settles, Posted, Calm
<1>2. ASSUME NEW c \in Captures, CaptureAges(c) PROVE Moves
    <2>1. UNCHANGED <<room, turn, msg, task, reason, tick, ordinary, reserved, enabled, closed, recovered, restarts>>
        BY <1>2 DEF CaptureAges, Service, chat, process
    <2>2. cap[c] \in CapRec /\ cap \in [Captures -> CapRec]
        BY TypeParts DEF Tables
    <2>3. cap' = [cap EXCEPT ![c] = [cap[c] EXCEPT !.is = "lapsed"]]
          \/ cap' = [cap EXCEPT ![c] = [cap[c] EXCEPT !.fresh = FALSE]]
        BY <1>2, <2>2 DEF CaptureAges
    <2>4. [cap[c] EXCEPT !.is = "lapsed"] \in CapRec /\ [cap[c] EXCEPT !.fresh = FALSE] \in CapRec
        BY <2>2 DEF CapRec, Requested
    <2>5. cap' \in [Captures -> CapRec]
        BY <2>2, <2>3, <2>4
    <2> QED BY <2>1, <2>5, TypeParts DEF Tables, Memory, Moves, Settles, Posted, Calm
<1> QED BY <1>1, <1>2 DEF Time

LEMMA RecoverMoves ==
    ASSUME TypeOK, Recover
    PROVE  Moves
<1>0. /\ room \in [Rooms -> RoomRec] /\ turn \in [Turns -> TurnRec] /\ msg \in [Messages -> MsgRec]
      /\ cap \in [Captures -> CapRec]
    BY TypeParts DEF Tables
<1>1. recovered' = TRUE /\ UNCHANGED <<task, reason, tick, ordinary, reserved, enabled, closed, restarts>>
    BY DEF Recover, chat
<1>2. room' \in [Rooms -> RoomRec]
    <2>1. ASSUME NEW s \in Rooms PROVE room'[s] \in RoomRec
        <3>1. room[s] \in RoomRec
            BY <1>0
        <3>2. \/ room'[s] = room[s]
              \/ room'[s] = [room[s] EXCEPT !.online = FALSE, !.expired = TRUE, !.busy = FALSE,
                                            !.capture = "unavailable", !.gen = room[s].gen + 1]
            BY DEF Recover
        <3> QED BY <3>1, <3>2, RoomUpdates
    <2> QED BY <2>1 DEF Recover
<1>3. turn' \in [Turns -> TurnRec] /\ \A t \in Turns : Settles(t) /\ turn'[t].is # "running"
    <2>1. \A t \in Turns : /\ turn[t] \in TurnRec /\ [turn[t] EXCEPT !.is = "interrupted"] \in TurnRec
                           /\ [turn[t] EXCEPT !.is = "interrupted"].is # "running"
        BY <1>0 DEF TurnRec
    <2>2. \A t \in Turns : turn'[t] = IF turn[t].is = "running" THEN [turn[t] EXCEPT !.is = "interrupted"] ELSE turn[t]
        BY DEF Recover
    <2> QED BY <2>1, <2>2 DEF Settles, Recover
<1>4. msg' \in [Messages -> MsgRec] /\ \A m \in Messages : Posted(m)
    <2>1. \A m \in Messages : msg[m] \in MsgRec /\ [msg[m] EXCEPT !.is = "failed"] \in MsgRec
        BY <1>0 DEF MsgRec
    <2>2. \A m \in Messages : msg'[m] = IF msg[m].is = "running" THEN [msg[m] EXCEPT !.is = "failed"] ELSE msg[m]
        BY DEF Recover
    <2> QED BY <1>3, <2>1, <2>2 DEF Posted, Recover
<1>5. cap' \in [Captures -> CapRec]
    <2>1. \A c \in Captures : cap[c] \in CapRec /\ [cap[c] EXCEPT !.is = "failed"] \in CapRec
        BY <1>0 DEF CapRec
    <2> QED BY <2>1 DEF Recover
<1> QED BY <1>1, <1>2, <1>3, <1>4, <1>5, TypeParts DEF Tables, Memory, Moves, Calm

LEMMA OutsideMoves ==
    ASSUME TypeOK, Outside
    PROVE  Moves
<1>1. CASE Requests
    BY <1>1, StartMoves, MessageMoves, PhoneMoves, EndMoves, RetryMoves, ConfigureMoves, ReceiveMoves
       DEF Requests
<1>2. CASE Ticking \/ Time
    BY <1>2, TickMoves, TimeMoves
<1>3. CASE Chat
    <2>1. UNCHANGED <<room, turn, msg, cap, task, reason, tick, enabled, closed, recovered, restarts>>
          /\ ordinary' \in {"idle", "handling", "generating"} /\ reserved' \in BOOLEAN
        BY <1>3 DEF Chat, OrdinaryBegins, HandlerReturns, GenerationEnds, tables, process
    <2> QED BY <2>1, TypeParts DEF Tables, Memory, Moves, Settles, Posted, Calm
<1>4. CASE Close
    <2>1. /\ closed' = TRUE /\ task' = [s \in Rooms |-> Cut(task, s)[s]]
          /\ UNCHANGED <<room, turn, msg, cap, reason, tick, ordinary, reserved, enabled, recovered, restarts>>
        BY <1>4 DEF Close, tables, chat
    <2>2. task \in [Rooms -> TaskRec]
        BY TypeParts DEF Memory
    <2>3. ASSUME NEW r \in Rooms PROVE Cut(task, r)[r] \in TaskRec /\ Calm(r)
        <3>1. Cut(task, r)[r] \in TaskRec
            BY <2>2, CutTasks
        <3>2. task'[r] = Cut(task, r)[r]
            BY <2>1
        <3>3. Cut(task, r)[r] = task[r] \/ Cut(task, r)[r] = [task[r] EXCEPT !.cut = TRUE]
            BY <2>2, CutTasks
        <3> QED BY <3>1, <3>2, <3>3 DEF Calm
    <2>4. task' \in [Rooms -> TaskRec]
        BY <2>1, <2>3
    <2> QED BY <2>1, <2>3, <2>4, TypeParts DEF Tables, Memory, Moves, Settles, Posted
<1>5. CASE Restart
    <2>1. /\ restarts' = restarts + 1 /\ restarts < MaxRestarts /\ closed' = FALSE /\ recovered' = FALSE
          /\ task' = [s \in Rooms |-> NoTask] /\ reason' = [s \in Rooms |-> "other"]
          /\ tick' = None /\ ordinary' = "idle" /\ reserved' = FALSE
          /\ UNCHANGED <<room, turn, msg, cap, enabled>>
        BY <1>5 DEF Restart, tables
    <2>2. restarts' \in 0..MaxRestarts
        BY <2>1, BoundsAssumption, TypeParts DEF Memory
    <2>3. task' \in [Rooms -> TaskRec] /\ \A r \in Rooms : Calm(r)
        BY <1>5, <2>1, Blank DEF Calm
    <2> QED BY <2>1, <2>2, <2>3, TypeParts DEF Tables, Memory, Moves, Settles, Posted
<1>6. CASE UNCHANGED vars
    BY <1>6, TypeParts DEF vars, Tables, Memory, Moves, Settles, Posted, Calm
<1> QED BY <1>1, <1>2, <1>3, <1>4, <1>5, <1>6, RecoverMoves DEF Outside, Life
-----------------------------------------------------------------------------
(* A room's own task *)

Others(s) ==
    /\ \A r \in Rooms \ {s} : task'[r] = task[r]
    /\ UNCHANGED <<tick, ordinary, reserved, enabled, closed, recovered, restarts>>

LEMMA TaskUpdates ==
    ASSUME NEW r \in TaskRec
    PROVE  /\ \A pc \in {"none", "wanting", "claimed"} \cup RunningTurn : [r EXCEPT !.pc = pc] \in TaskRec
           /\ \A pc \in {"none", "wanting", "claimed"} \cup RunningTurn :
                 [r EXCEPT !.pc = pc, !.cut = FALSE] \in TaskRec
BY DEF TaskRec

(* A turn is claimed, with the first message that waits.                   *)
Claims(s, t, kind, m) ==
    /\ turn[t].is = "unused"
    /\ turn'[t] = [is |-> "running", room |-> s, kind |-> kind,
                   gen |-> room[s].gen, msg |-> m, text |-> "none"]
    /\ \A u \in Turns \ {t} : turn'[u] = turn[u]
    /\ m = None => msg' = msg /\ Queued(s) = {} /\ kind # "message"
    /\ m # None => /\ msg'[m] = [msg[m] EXCEPT !.is = "running", !.turn = t]
                   /\ kind = "message"
    /\ \A n \in Messages \ {m} : msg'[n] = msg[n]
    /\ task'[s] = [task[s] EXCEPT !.pc = "claimed", !.turn = t]

LEMMA ClaimEffect ==
    ASSUME TypeOK, NEW s \in Rooms, Claim(s)
    PROVE  /\ Tables' /\ Memory' /\ Others(s)
           /\ UNCHANGED cap
           /\ \A r \in Rooms : room'[r].is = room[r].is /\ room'[r].source = room[r].source
           /\ task[s].pc = "wanting" /\ ~task[s].cut /\ Active(s)
           /\ \E t \in Turns, kind \in {"opening", "message", "awake"}, m \in Queued(s) \cup {None} :
                 Claims(s, t, kind, m)
<1>0. /\ room \in [Rooms -> RoomRec] /\ turn \in [Turns -> TurnRec] /\ msg \in [Messages -> MsgRec]
      /\ task \in [Rooms -> TaskRec]
    BY TypeParts DEF Tables, Memory
<1>1. PICK t \in Turns :
         /\ turn[t].is = "unused"
         /\ LET m == IF Queued(s) = {} THEN None ELSE Earliest(Queued(s)) IN
            /\ turn' = [turn EXCEPT ![t] = [is |-> "running", room |-> s, kind |-> ClaimKind(s),
                                            gen |-> room[s].gen, msg |-> m, text |-> "none"]]
            /\ msg' = IF m = None THEN msg
                      ELSE [msg EXCEPT ![m].is = "running", ![m].turn = t]
         /\ task' = [task EXCEPT ![s].pc = "claimed", ![s].turn = t]
    BY DEF Claim
<1>2. PICK m : m = IF Queued(s) = {} THEN None ELSE Earliest(Queued(s))
    OBVIOUS
<1>3. /\ m \in Queued(s) \cup {None} /\ m \in Messages \cup {None}
      /\ m = None <=> Queued(s) = {}
    <2>1. Queued(s) \in SUBSET Nat /\ Queued(s) \subseteq Messages
        BY Numbers DEF Queued
    <2>2. CASE Queued(s) = {}
        BY <1>2, <2>2
    <2>3. CASE Queued(s) # {}
        <3>1. Earliest(Queued(s)) \in Queued(s)
            BY <2>1, <2>3, EarliestIsFirst
        <3> QED BY <1>2, <2>1, <2>3, <3>1, Numbers
    <2> QED BY <2>2, <2>3
<1>4. PICK kind \in {"opening", "message", "awake"} :
         kind = ClaimKind(s) /\ (kind = "message" <=> Queued(s) # {})
    BY DEF Claim, Claimable, ClaimKind
<1> DEFINE new == [is |-> "running", room |-> s, kind |-> kind,
                   gen |-> room[s].gen, msg |-> m, text |-> "none"]
<1>5. new \in TurnRec
    <2>1. room[s].gen \in Nat
        BY <1>0 DEF RoomRec
    <2> QED BY <1>3, <2>1 DEF TurnRec
<1>6. /\ turn' = [turn EXCEPT ![t] = new]
      /\ msg' = IF m = None THEN msg ELSE [msg EXCEPT ![m].is = "running", ![m].turn = t]
    BY <1>1, <1>2, <1>4
<1> HIDE DEF new
<1>7. /\ turn' \in [Turns -> TurnRec] /\ turn'[t] = new
      /\ \A u \in Turns \ {t} : turn'[u] = turn[u]
    BY <1>0, <1>5, <1>6
<1>8. /\ msg' \in [Messages -> MsgRec]
      /\ \A n \in Messages \ {m} : msg'[n] = msg[n]
      /\ m = None => msg' = msg
      /\ m # None => msg'[m] = [msg[m] EXCEPT !.is = "running", !.turn = t]
    <2>1. CASE m = None
        BY <1>0, <1>6, <2>1, Numbers
    <2>2. CASE m # None
        <3>1. m \in Messages /\ [msg[m] EXCEPT !.is = "running", !.turn = t] \in MsgRec
            BY <1>0, <1>3, <2>2 DEF MsgRec
        <3>2. msg' = [msg EXCEPT ![m] = [msg[m] EXCEPT !.is = "running", !.turn = t]]
            BY <1>0, <1>6, <2>2, <3>1
        <3> QED BY <1>0, <2>2, <3>1, <3>2
    <2> QED BY <2>1, <2>2
<1>9. /\ task' = [task EXCEPT ![s] = [task[s] EXCEPT !.pc = "claimed", !.turn = t]]
      /\ [task[s] EXCEPT !.pc = "claimed", !.turn = t] \in TaskRec
    BY <1>0, <1>1 DEF TaskRec
<1>10. /\ room' = [room EXCEPT ![s] = [room[s] EXCEPT !.opening = FALSE, !.wake = "none"]]
       /\ [room[s] EXCEPT !.opening = FALSE, !.wake = "none"] \in RoomRec
    <2>1. room[s] \in RoomRec
        BY <1>0
    <2>2. [room[s] EXCEPT !.opening = FALSE, !.wake = "none"] \in RoomRec
        BY <2>1 DEF RoomRec
    <2>3. room' = [room EXCEPT ![s].opening = FALSE, ![s].wake = "none"]
        BY DEF Claim
    <2> QED BY <1>0, <2>2, <2>3
<1>11. \A r \in Rooms : room'[r].is = room[r].is /\ room'[r].source = room[r].source
    BY <1>0, <1>10 DEF RoomRec
<1>12. /\ UNCHANGED <<cap, reason, tick, ordinary, reserved, enabled, closed, recovered, restarts>>
       /\ task[s].pc = "wanting" /\ ~task[s].cut /\ Active(s)
    BY DEF Claim, At, Claimable, Service, chat, process
<1>13. Tables' /\ Memory' /\ Others(s)
    BY <1>0, <1>7, <1>8, <1>9, <1>10, <1>12, TypeParts DEF Tables, Memory, Others
<1>14. /\ m = None => msg' = msg /\ Queued(s) = {} /\ kind # "message"
       /\ m # None => msg'[m] = [msg[m] EXCEPT !.is = "running", !.turn = t] /\ kind = "message"
    BY <1>3, <1>4, <1>8
<1>15. task'[s] = [task[s] EXCEPT !.pc = "claimed", !.turn = t]
    BY <1>0, <1>9
<1>16. Claims(s, t, kind, m)
    BY <1>1, <1>7, <1>8, <1>14, <1>15 DEF new, Claims
<1> QED BY <1>3, <1>11, <1>12, <1>13, <1>16

(* Steps of the task that touch neither turns nor messages.                *)
Reads(s) ==
    \/ NothingToDo(s) \/ BeginTurn(s)
    \/ \E purpose \in Autonomous : Ask(s, purpose)
    \/ Answered(s) \/ FinishReturns(s) \/ TurnFails(s) \/ TurnInterrupted(s)
    \/ Cleanup(s) \/ TaskInterrupted(s)

Busy == {"claimed"} \cup RunningTurn       \* task[s].turn is its turn
Mild(s) ==
    /\ Tables' /\ Memory' /\ Others(s)
    /\ UNCHANGED <<room, turn, msg>>
    /\ task'[s].turn \in {task[s].turn, None}
    /\ task'[s].pc \in Busy => task[s].pc \in Busy /\ task'[s].turn = task[s].turn
    /\ task'[s].pc = "asking" => task'[s].asked # None

LEMMA MildSteps ==
    ASSUME TypeOK, NEW s \in Rooms, NEW new \in TaskRec,
           UNCHANGED <<room, turn, msg, tick, ordinary, reserved, enabled, closed, recovered, restarts>>,
           cap' \in [Captures -> CapRec], reason' \in [Rooms -> {"source_changed", "other"}],
           task' = [task EXCEPT ![s] = new],
           new.turn \in {task[s].turn, None},
           new.pc \in Busy => task[s].pc \in Busy /\ new.turn = task[s].turn,
           new.pc = "asking" => new.asked # None
    PROVE  Mild(s)
<1>1. task \in [Rooms -> TaskRec]
    BY TypeParts DEF Memory
<1>2. task'[s] = new /\ task' \in [Rooms -> TaskRec] /\ \A r \in Rooms \ {s} : task'[r] = task[r]
    BY <1>1
<1>3. Tables' /\ Memory' /\ Others(s)
    BY <1>2, TypeParts DEF Tables, Memory, Others
<1> QED BY <1>2, <1>3 DEF Mild

LEMMA ReadsEffect ==
    ASSUME TypeOK, Posts, NEW s \in Rooms, Reads(s)
    PROVE  Mild(s)
<1>0. /\ cap \in [Captures -> CapRec] /\ task \in [Rooms -> TaskRec] /\ task[s] \in TaskRec
      /\ reason \in [Rooms -> {"source_changed", "other"}]
    BY TypeParts DEF Tables, Memory
<1>2. CASE NothingToDo(s) \/ TaskInterrupted(s)
    <2>1. UNCHANGED <<room, turn, msg, cap, reason, tick, ordinary, reserved, enabled, closed, recovered, restarts>>
          /\ task' = [task EXCEPT ![s] = NoTask]
        BY <1>2 DEF NothingToDo, TaskInterrupted, Stop, Service, tables, chat, process
    <2>2. NoTask \in TaskRec /\ NoTask.turn = None /\ NoTask.pc \notin Busy /\ NoTask.pc # "asking"
        BY Blank DEF NoTask, Busy, RunningTurn
    <2> QED BY <1>0, MildSteps, <2>1, <2>2
<1>3. CASE BeginTurn(s)
    <2>1. PICK S : task' = [task EXCEPT ![s] = [task[s] EXCEPT !.pc = "calling",
                                !.frames = {c \in S : cap[c].is = "attached" /\ cap[c].file /\ cap[c].fresh}]]
                   /\ S = (IF turn[task[s].turn].msg = None THEN {} ELSE {msg[turn[task[s].turn].msg].photo} \ {None})
        BY <1>0, <1>3 DEF BeginTurn
    <2>2. S \subseteq Captures /\ task[s].pc = "claimed"
        <3>1. task[s].pc = "claimed"
            BY <1>3 DEF BeginTurn, At
        <3>2. task[s].turn \in Turns
            BY <1>0, <3>1 DEF Posts, TaskRec
        <3>3. turn[task[s].turn].msg \in Messages \cup {None}
            BY <3>2, TypeParts DEF Tables, TurnRec
        <3> QED BY <2>1, <3>1, <3>3, TypeParts DEF Tables, MsgRec
    <2> DEFINE F == {c \in S : cap[c].is = "attached" /\ cap[c].file /\ cap[c].fresh}
               new == [task[s] EXCEPT !.pc = "calling", !.frames = F]
    <2>3. F \in SUBSET Captures
        BY <2>2
    <2> HIDE DEF F
    <2>4. new \in TaskRec /\ new.turn = task[s].turn /\ new.pc = "calling"
        BY <1>0, <2>3 DEF TaskRec, RunningTurn
    <2>5. UNCHANGED <<room, turn, msg, cap, reason, tick, ordinary, reserved, enabled, closed, recovered, restarts>>
          /\ task' = [task EXCEPT ![s] = new]
        BY <1>3, <2>1 DEF BeginTurn, Service, tables, chat, process, F
    <2>6. new.pc \in Busy => task[s].pc \in Busy
        BY <2>2 DEF Busy
    <2>7. new.pc # "asking"
        BY <2>4
    <2> HIDE DEF new
    <2> QED BY <1>0, MildSteps, <2>4, <2>5, <2>6, <2>7
<1>4. ASSUME NEW purpose \in Autonomous, Ask(s, purpose) PROVE Mild(s)
    <2>1. cap' = WithCapture(s, purpose) /\ CanCapture(s, purpose) /\ purpose \in Purposes
        BY <1>4 DEF Ask, Purposes, Autonomous
    <2>2. cap' \in [Captures -> CapRec] /\ NextCapture \in Captures
        BY <2>1, NewCapture, TypeParts
    <2> DEFINE new == [task[s] EXCEPT !.pc = "asking", !.asked = NextCapture,
                                      !.looked = task[s].looked \cup {purpose}]
    <2>3. new \in TaskRec /\ new.turn = task[s].turn /\ new.pc = "asking" /\ new.asked = NextCapture
        BY <1>0, <2>2 DEF TaskRec, RunningTurn, Autonomous
    <2>4. UNCHANGED <<room, turn, msg, reason, tick, ordinary, reserved, enabled, closed, recovered, restarts>>
          /\ task' = [task EXCEPT ![s] = new] /\ task[s].pc = "calling"
        BY <1>0, <1>4 DEF Ask, At, Service, chat, process
    <2>5. task[s].pc \in Busy /\ NextCapture # None
        BY <2>2, <2>4, Numbers DEF Busy, RunningTurn
    <2> HIDE DEF new
    <2> QED BY <1>0, MildSteps, <2>2, <2>3, <2>4, <2>5
<1>5. CASE Answered(s)
    <2>1. PICK used \in (IF cap[task[s].asked].is = "ready" THEN {{task[s].asked}, {}} ELSE {{}}) :
             task' = [task EXCEPT ![s] = [task[s] EXCEPT !.pc = "calling", !.asked = None,
                                              !.frames = task[s].frames \cup used]]
        BY <1>0, <1>5 DEF Answered
    <2>2. /\ task[s].pc = "asking" /\ task[s].asked \in Captures
          /\ UNCHANGED <<room, turn, msg, reason, tick, ordinary, reserved, enabled, closed, recovered, restarts>>
          /\ cap' = cap \/ cap' = [cap EXCEPT ![task[s].asked] = [cap[task[s].asked] EXCEPT !.is = "failed"]]
        BY <1>0, <1>5 DEF Answered, At, Service, chat, process, Posts, TaskRec
    <2>3. cap' \in [Captures -> CapRec]
        <3>1. [cap[task[s].asked] EXCEPT !.is = "failed"] \in CapRec
            BY <1>0, <2>2 DEF CapRec
        <3> QED BY <1>0, <2>2, <3>1
    <2> DEFINE new == [task[s] EXCEPT !.pc = "calling", !.asked = None, !.frames = task[s].frames \cup used]
    <2>4. new \in TaskRec /\ new.turn = task[s].turn /\ new.pc = "calling"
        BY <1>0, <2>1, <2>2 DEF TaskRec, RunningTurn
    <2>5. task[s].pc \in Busy
        BY <2>2 DEF Busy, RunningTurn
    <2>6. task' = [task EXCEPT ![s] = new]
        BY <2>1
    <2> HIDE DEF new
    <2> QED BY <1>0, MildSteps, <2>2, <2>3, <2>4, <2>5, <2>6
<1>6. CASE FinishReturns(s) \/ TurnFails(s)
    <2>1. PICK pc \in {"completed", "aborting"} : task' = [task EXCEPT ![s] = [task[s] EXCEPT !.pc = pc]]
        BY <1>0, <1>6 DEF FinishReturns, TurnFails, Goto
    <2>2. UNCHANGED <<room, turn, msg, cap, reason, tick, ordinary, reserved, enabled, closed, recovered, restarts>>
          /\ task[s].pc \in {"finished", "calling", "completed"}
        BY <1>6 DEF FinishReturns, TurnFails, Noting, At, Service, tables, chat, process
    <2> DEFINE new == [task[s] EXCEPT !.pc = pc]
    <2>3. new \in TaskRec /\ new.turn = task[s].turn /\ new.pc = pc
        BY <1>0 DEF TaskRec, RunningTurn
    <2>4. task[s].pc \in Busy /\ task' = [task EXCEPT ![s] = new]
        BY <2>1, <2>2 DEF Busy, RunningTurn
    <2> HIDE DEF new
    <2> QED BY <1>0, MildSteps, <2>2, <2>3, <2>4
<1>7. CASE TurnInterrupted(s)
    <2>1. PICK pc \in {"requeuing", "aborting"} :
             task' = [task EXCEPT ![s] = [task[s] EXCEPT !.pc = pc, !.cut = FALSE]]
        BY <1>0, <1>7 DEF TurnInterrupted, Caught
    <2>2. /\ UNCHANGED <<room, turn, msg, cap, tick, ordinary, reserved, enabled, closed, recovered, restarts>>
          /\ task[s].pc \in {"calling", "asking", "finished", "completed"}
          /\ reason' = [reason EXCEPT ![s] = "other"]
        BY <1>7 DEF TurnInterrupted, Noting, Caught, At, tables, chat, process
    <2> DEFINE new == [task[s] EXCEPT !.pc = pc, !.cut = FALSE]
    <2>3. new \in TaskRec /\ new.turn = task[s].turn /\ new.pc = pc
        BY <1>0 DEF TaskRec, RunningTurn
    <2>4. task[s].pc \in Busy /\ task' = [task EXCEPT ![s] = new]
          /\ reason' \in [Rooms -> {"source_changed", "other"}]
        BY <1>0, <2>1, <2>2 DEF Busy, RunningTurn
    <2> HIDE DEF new
    <2> QED BY <1>0, MildSteps, <2>2, <2>3, <2>4
<1>8. CASE Cleanup(s)
    <2>1. PICK pc \in {"none", "wanting"} : task' = [task EXCEPT ![s] = [NoTask EXCEPT !.pc = pc]]
        BY <1>8 DEF Cleanup
    <2>2. cap' \in [Captures -> CapRec]
        BY <1>8, ConsumedCaps, TypeParts DEF Cleanup
    <2>3. UNCHANGED <<room, turn, msg, reason, tick, ordinary, reserved, enabled, closed, recovered, restarts>>
        BY <1>8 DEF Cleanup, Service, chat, process
    <2> DEFINE new == [NoTask EXCEPT !.pc = pc]
    <2>4. new \in TaskRec /\ new.turn = None /\ new.pc \notin Busy /\ new.pc # "asking"
        BY Blank DEF NoTask, TaskRec, Busy, RunningTurn
    <2>5. task' = [task EXCEPT ![s] = new]
        BY <2>1
    <2> HIDE DEF new
    <2> QED BY <1>0, MildSteps, <2>2, <2>3, <2>4, <2>5
<1> QED BY <1>2, <1>3, <1>4, <1>5, <1>6, <1>7, <1>8 DEF Reads

(* A turn is completed together with the message it answers.               *)
Completes(s, t, m) ==
    /\ t = task[s].turn /\ m = turn[t].msg /\ TurnCurrent(t)
    /\ task[s].pc = "calling" /\ ~task[s].cut
    /\ task'[s] = [task[s] EXCEPT !.pc = "finished"]
    /\ turn'[t] = [turn[t] EXCEPT !.is = "complete", !.text = "full"]
    /\ \A u \in Turns \ {t} : turn'[u] = turn[u]
    /\ m = None => msg' = msg
    /\ m # None => msg'[m] = [msg[m] EXCEPT !.is = "complete"]
    /\ \A n \in Messages \ {m} : msg'[n] = msg[n]

LEMMA FinishEffect ==
    ASSUME TypeOK, Posts, NEW s \in Rooms, NEW plans \in BOOLEAN, Finish(s, plans)
    PROVE  \/ Mild(s) /\ UNCHANGED cap /\ task'[s].frames = task[s].frames /\ task'[s].pc = "cleanup"
           \/ /\ Tables' /\ Memory' /\ Others(s) /\ UNCHANGED cap
              /\ \A r \in Rooms : room'[r].is = room[r].is /\ room'[r].source = room[r].source
              /\ \E t \in Turns, m \in Messages \cup {None} : Completes(s, t, m)
<1>0. /\ room \in [Rooms -> RoomRec] /\ turn \in [Turns -> TurnRec] /\ msg \in [Messages -> MsgRec]
      /\ cap \in [Captures -> CapRec] /\ task \in [Rooms -> TaskRec] /\ task[s] \in TaskRec
      /\ reason \in [Rooms -> {"source_changed", "other"}]
    BY TypeParts DEF Tables, Memory
<1>1. /\ task[s].pc = "calling" /\ ~task[s].cut
      /\ UNCHANGED <<cap, reason, tick, ordinary, reserved, enabled, closed, recovered, restarts>>
    BY DEF Finish, At, Service, chat, process
<1>2. task[s].turn \in Turns /\ task[s].pc \in Busy
    BY <1>0, <1>1 DEF Posts, RunningTurn, TaskRec, Busy
<1>3. PICK t \in Turns : t = task[s].turn
    BY <1>2
<1>4. PICK m \in Messages \cup {None} : m = turn[t].msg
    BY <1>0 DEF TurnRec
<1>5. CASE TurnCurrent(t)
    <2>1. /\ turn' = [turn EXCEPT ![t].is = "complete", ![t].text = "full"]
          /\ msg' = IF m = None THEN msg ELSE [msg EXCEPT ![m].is = "complete"]
          /\ room' \in {room, [room EXCEPT ![s].wake = "set"]}
          /\ task' = [task EXCEPT ![s].pc = "finished"]
        BY <1>3, <1>4, <1>5 DEF Finish, Goto
    <2>2. /\ turn' \in [Turns -> TurnRec]
          /\ turn'[t] = [turn[t] EXCEPT !.is = "complete", !.text = "full"]
          /\ \A u \in Turns \ {t} : turn'[u] = turn[u]
        <3>1. turn' = [turn EXCEPT ![t] = [turn[t] EXCEPT !.is = "complete", !.text = "full"]]
            BY <1>0, <2>1
        <3>2. [turn[t] EXCEPT !.is = "complete", !.text = "full"] \in TurnRec
            BY <1>0 DEF TurnRec
        <3> QED BY <1>0, <3>1, <3>2
    <2>3. /\ msg' \in [Messages -> MsgRec]
          /\ m = None => msg' = msg
          /\ m # None => msg'[m] = [msg[m] EXCEPT !.is = "complete"]
          /\ \A n \in Messages \ {m} : msg'[n] = msg[n]
        <3>1. CASE m = None
            BY <1>0, <2>1, <3>1, Numbers
        <3>2. CASE m # None
            <4>1. m \in Messages /\ [msg[m] EXCEPT !.is = "complete"] \in MsgRec
                BY <1>0, <3>2 DEF MsgRec
            <4> QED BY <1>0, <2>1, <3>2, <4>1
        <3> QED BY <3>1, <3>2
    <2>4. /\ task' \in [Rooms -> TaskRec] /\ task'[s] = [task[s] EXCEPT !.pc = "finished"]
          /\ \A r \in Rooms \ {s} : task'[r] = task[r]
        <3>1. [task[s] EXCEPT !.pc = "finished"] \in TaskRec
            BY <1>0 DEF TaskRec, RunningTurn
        <3> QED BY <1>0, <2>1, <3>1
    <2>5. /\ room' \in [Rooms -> RoomRec]
          /\ \A r \in Rooms : room'[r].is = room[r].is /\ room'[r].source = room[r].source
        <3>1. /\ room[s] \in RoomRec /\ [room[s] EXCEPT !.wake = "set"] \in RoomRec
              /\ [room[s] EXCEPT !.wake = "set"].is = room[s].is
              /\ [room[s] EXCEPT !.wake = "set"].source = room[s].source
            BY <1>0 DEF RoomRec
        <3>2. PICK new \in RoomRec : /\ new = [room[s] EXCEPT !.wake = "set"]
                                     /\ new.is = room[s].is /\ new.source = room[s].source
            BY <3>1
        <3>3. room' = room \/ room' = [room EXCEPT ![s] = new]
            BY <1>0, <2>1, <3>2
        <3> QED BY <1>0, <3>2, <3>3
    <2>6. Tables' /\ Memory' /\ Others(s)
        BY <1>1, <2>2, <2>3, <2>4, <2>5, TypeParts DEF Tables, Memory, Others
    <2>7. Completes(s, t, m)
        BY <1>1, <1>3, <1>4, <1>5, <2>2, <2>3, <2>4 DEF Completes
    <2> QED BY <1>1, <2>5, <2>6, <2>7
<1>6. CASE ~TurnCurrent(t)
    <2> DEFINE new == [task[s] EXCEPT !.pc = "cleanup"]
    <2>1. task' = [task EXCEPT ![s] = new] /\ UNCHANGED <<room, turn, msg>>
        <3>1. task' = [task EXCEPT ![s].pc = "cleanup"] /\ UNCHANGED <<room, turn, msg>>
            BY <1>3, <1>6 DEF Finish, Goto
        <3> QED BY <1>0, <3>1
    <2>2. new \in TaskRec /\ new.turn = task[s].turn /\ new.pc = "cleanup"
          /\ new.frames = task[s].frames
        BY <1>0 DEF TaskRec, RunningTurn
    <2>3. task'[s] = new
        BY <1>0, <2>1
    <2> HIDE DEF new
    <2>4. Mild(s)
        BY <1>0, <1>1, <1>2, <2>1, <2>2, MildSteps
    <2> QED BY <1>1, <2>2, <2>3, <2>4
<1> QED BY <1>5, <1>6

(* A turn is interrupted, and what it was answering waits or has failed.   *)
Interrupts(s, t, m) ==
    /\ t = task[s].turn /\ m = turn[t].msg /\ turn[t].is = "running"
    /\ turn'[t] = [turn[t] EXCEPT !.is = "interrupted",
                                  !.text = IF Active(s) THEN "partial" ELSE "none"]
    /\ \A u \in Turns \ {t} : turn'[u] = turn[u]
    /\ m = None \/ ~Active(s) => msg' = msg
    /\ m # None /\ Active(s) =>
          \E is \in {"queued", "failed"} : msg'[m] = [msg[m] EXCEPT !.is = is]
    /\ \A n \in Messages \ {m} : msg'[n] = msg[n]
    /\ cap' = Invalidated(s, Autonomous)

Leaves(s) ==
    /\ task[s].pc \in Aborting
    /\ \/ task'[s] = [task[s] EXCEPT !.pc = "cleanup"]
       \/ task'[s] = [task[s] EXCEPT !.pc = "dying", !.cut = FALSE]

LEMMA AbortEffect ==
    ASSUME TypeOK, Posts, NEW s \in Rooms, Abort(s) \/ AbortFails(s)
    PROVE  /\ Tables' /\ Memory' /\ Others(s) /\ Leaves(s) /\ UNCHANGED room
           /\ \/ UNCHANGED <<turn, msg, cap>>
              \/ \E t \in Turns, m \in Messages \cup {None} : Interrupts(s, t, m)
<1>0. /\ room \in [Rooms -> RoomRec] /\ turn \in [Turns -> TurnRec] /\ msg \in [Messages -> MsgRec]
      /\ cap \in [Captures -> CapRec] /\ task \in [Rooms -> TaskRec] /\ task[s] \in TaskRec
      /\ reason \in [Rooms -> {"source_changed", "other"}]
    BY TypeParts DEF Tables, Memory
<1>1. /\ task[s].pc \in Aborting
      /\ UNCHANGED <<reason, tick, ordinary, reserved, enabled, closed, recovered, restarts>>
      /\ \/ UNCHANGED tables
         \/ AbortTurn(task[s].turn, task[s].pc = "requeuing")
    BY DEF Abort, AbortFails, Service, chat, process
<1>2. task[s].turn \in Turns
    BY <1>0, <1>1 DEF Posts, RunningTurn, TaskRec, Aborting
<1>3. PICK t \in Turns : t = task[s].turn
    BY <1>2
<1>4. PICK m \in Messages \cup {None} : m = turn[t].msg
    BY <1>0 DEF TurnRec
<1>5. turn[t].room = s
    BY <1>3, Numbers DEF Posts
<1>6. /\ task' \in [Rooms -> TaskRec] /\ Leaves(s) /\ \A r \in Rooms \ {s} : task'[r] = task[r]
    <2>1. /\ [task[s] EXCEPT !.pc = "cleanup"] \in TaskRec
          /\ [task[s] EXCEPT !.pc = "dying", !.cut = FALSE] \in TaskRec
        BY <1>0 DEF TaskRec, RunningTurn
    <2>2. \/ task' = [task EXCEPT ![s] = [task[s] EXCEPT !.pc = "cleanup"]]
          \/ task' = [task EXCEPT ![s] = [task[s] EXCEPT !.pc = "dying", !.cut = FALSE]]
        BY <1>0 DEF Abort, AbortFails, Goto
    <2> QED BY <1>0, <1>1, <2>1, <2>2 DEF Leaves
<1>7. CASE UNCHANGED tables
    <2>1. UNCHANGED <<room, turn, msg, cap>>
        BY <1>7 DEF tables
    <2> QED BY <1>1, <1>6, <2>1, TypeParts DEF Tables, Memory, Others
<1>8. CASE AbortTurn(task[s].turn, task[s].pc = "requeuing") /\ ~UNCHANGED tables
    <2>1. /\ turn[t].is = "running"
          /\ turn' = [turn EXCEPT ![t].is = "interrupted",
                                  ![t].text = IF Active(s) THEN "partial" ELSE "none"]
          /\ cap' = Invalidated(s, Autonomous)
          /\ msg' = IF m = None \/ ~Active(s) THEN msg
                    ELSE [msg EXCEPT ![m].is = IF task[s].pc = "requeuing" THEN "queued" ELSE "failed"]
          /\ UNCHANGED room
        BY <1>3, <1>4, <1>5, <1>8 DEF AbortTurn
    <2>2. PICK text \in {"partial", "none"} : text = IF Active(s) THEN "partial" ELSE "none"
        OBVIOUS
    <2>3. PICK is \in {"queued", "failed"} : is = IF task[s].pc = "requeuing" THEN "queued" ELSE "failed"
        OBVIOUS
    <2>4. /\ turn' \in [Turns -> TurnRec]
          /\ turn'[t] = [turn[t] EXCEPT !.is = "interrupted", !.text = text]
          /\ \A u \in Turns \ {t} : turn'[u] = turn[u]
        <3>1. turn' = [turn EXCEPT ![t] = [turn[t] EXCEPT !.is = "interrupted", !.text = text]]
            BY <1>0, <2>1, <2>2
        <3>2. [turn[t] EXCEPT !.is = "interrupted", !.text = text] \in TurnRec
            <4>1. turn[t] \in TurnRec
                BY <1>0
            <4> QED BY <4>1 DEF TurnRec
        <3> QED BY <1>0, <3>1, <3>2
    <2>5. /\ msg' \in [Messages -> MsgRec]
          /\ m = None \/ ~Active(s) => msg' = msg
          /\ m # None /\ Active(s) => msg'[m] = [msg[m] EXCEPT !.is = is]
          /\ \A n \in Messages \ {m} : msg'[n] = msg[n]
        <3>1. CASE m = None \/ ~Active(s)
            BY <1>0, <2>1, <3>1
        <3>2. CASE ~(m = None \/ ~Active(s))
            <4>1. m \in Messages /\ [msg[m] EXCEPT !.is = is] \in MsgRec
                BY <1>0, <3>2 DEF MsgRec
            <4>2. msg' = [msg EXCEPT ![m] = [msg[m] EXCEPT !.is = is]]
                BY <1>0, <2>1, <2>3, <3>2, <4>1
            <4> QED BY <1>0, <3>2, <4>1, <4>2
        <3> QED BY <3>1, <3>2
    <2>6. cap' \in [Captures -> CapRec]
        BY <2>1, InvalidatedCaps, TypeParts
    <2>7. Tables' /\ Memory' /\ Others(s)
        BY <1>1, <1>6, <2>1, <2>4, <2>5, <2>6, TypeParts DEF Tables, Memory, Others
    <2>8. Interrupts(s, t, m)
        BY <1>3, <1>4, <2>1, <2>2, <2>4, <2>5 DEF Interrupts
    <2> QED BY <1>6, <2>1, <2>7, <2>8
<1> QED BY <1>1, <1>7, <1>8

-----------------------------------------------------------------------------
(* Messages and the turns that answer them *)

Ledger ==
    /\ \A t \in Turns : turn[t].msg # None =>
          /\ turn[t].is = "running" => msg[turn[t].msg].is = "running" /\ msg[turn[t].msg].turn = t
          /\ turn[t].is = "complete" => msg[turn[t].msg].is = "complete" /\ msg[turn[t].msg].turn = t
    /\ \A m \in Messages : msg[m].is = "complete" =>
          turn[msg[m].turn].is = "complete" /\ turn[msg[m].turn].msg = m

LEMMA MovesKeepBooks ==
    ASSUME TypeOK, Posts, Ledger, Moves
    PROVE  Posts' /\ Ledger'
<1>0. /\ turn \in [Turns -> TurnRec] /\ msg \in [Messages -> MsgRec] /\ task \in [Rooms -> TaskRec]
      /\ turn' \in [Turns -> TurnRec] /\ msg' \in [Messages -> MsgRec] /\ task' \in [Rooms -> TaskRec]
    BY TypeParts DEF Tables, Memory, Moves
<1>1. \A t \in Turns :
         /\ turn'[t].room = turn[t].room /\ turn'[t].msg = turn[t].msg /\ turn'[t].text = turn[t].text
         /\ \/ turn'[t].is = turn[t].is
            \/ turn[t].is = "running" /\ turn'[t].is = "interrupted"
    BY <1>0 DEF Moves, Settles, TurnRec
<1>2. \A m \in Messages :
         \/ msg'[m] = msg[m]
         \/ msg[m].is = "unsent" /\ msg'[m].is = "queued" /\ msg'[m].room \in Rooms
         \/ /\ msg[m].is = "failed" /\ msg'[m].is = "queued"
            /\ msg'[m].turn = msg[m].turn /\ msg'[m].room = msg[m].room
         \/ /\ msg[m].is = "running" /\ msg'[m].is = "failed"
            /\ msg'[m].turn = msg[m].turn /\ msg'[m].room = msg[m].room
            /\ \A t \in Turns : turn'[t].is # "running"
    BY <1>0 DEF Moves, Posted, MsgRec
<1>3. \A r \in Rooms :
         \/ task'[r].pc = task[r].pc /\ task'[r].turn = task[r].turn /\ task'[r].asked = task[r].asked
         \/ task'[r].pc \in {"none", "wanting"} /\ task'[r].turn = None
    BY <1>0 DEF Moves, Calm, TaskRec, Fresh, NoTask
<1>4. Posts'
    <2>1. ASSUME NEW s \in Rooms
          PROVE  /\ task'[s].pc \in {"claimed"} \cup RunningTurn => task'[s].turn # None
                 /\ task'[s].turn # None => turn'[task'[s].turn].room = s /\ turn'[task'[s].turn].is # "unused"
                 /\ task'[s].pc = "asking" => task'[s].asked # None
        <3>1. task'[s].turn # None => task'[s].turn \in Turns
            BY <1>0 DEF TaskRec
        <3> QED BY <1>0, <1>1, <1>3, <3>1 DEF Posts, RunningTurn
    <2>2. ASSUME NEW t \in Turns
          PROVE  /\ turn'[t].is \in {"unused", "running"} => turn'[t].text = "none"
                 /\ turn'[t].is # "unused" => turn'[t].room \in Rooms
        BY <1>0, <1>1 DEF Posts
    <2>3. ASSUME NEW m \in Messages
          PROVE  /\ msg'[m].is # "unsent" => msg'[m].room \in Rooms
                 /\ msg'[m].is \in {"running", "complete", "failed"} => msg'[m].turn # None
        BY <1>0, <1>2 DEF Posts
    <2> QED BY <2>1, <2>2, <2>3 DEF Posts
<1>5. ASSUME NEW t \in Turns, turn'[t].msg # None
      PROVE  /\ turn'[t].is = "running" => msg'[turn'[t].msg].is = "running" /\ msg'[turn'[t].msg].turn = t
             /\ turn'[t].is = "complete" => msg'[turn'[t].msg].is = "complete" /\ msg'[turn'[t].msg].turn = t
    <2>1. turn[t].msg \in Messages /\ turn'[t].msg = turn[t].msg
        BY <1>0, <1>1, <1>5 DEF TurnRec
    <2> QED BY <1>1, <1>2, <1>5, <2>1 DEF Ledger
<1>6. ASSUME NEW m \in Messages, msg'[m].is = "complete"
      PROVE  turn'[msg'[m].turn].is = "complete" /\ turn'[msg'[m].turn].msg = m
    <2>1. msg'[m] = msg[m] /\ msg[m].turn \in Turns
        BY <1>0, <1>2, <1>6 DEF Posts, MsgRec
    <2> QED BY <1>1, <1>6, <2>1 DEF Ledger
<1> QED BY <1>4, <1>5, <1>6 DEF Ledger

LEMMA MildKeepsBooks ==
    ASSUME TypeOK, Posts, Ledger, NEW s \in Rooms, Mild(s)
    PROVE  Posts' /\ Ledger'
<1>1. UNCHANGED <<turn, msg>> /\ \A r \in Rooms \ {s} : task'[r] = task[r]
    BY DEF Mild, Others
<1>2. /\ task'[s].turn \in {task[s].turn, None}
      /\ task'[s].pc \in {"claimed"} \cup RunningTurn =>
            task[s].pc \in {"claimed"} \cup RunningTurn /\ task'[s].turn = task[s].turn
      /\ task'[s].pc = "asking" => task'[s].asked # None
    BY DEF Mild, Busy
<1>3. Ledger'
    BY <1>1 DEF Ledger
<1>4. ASSUME NEW r \in Rooms
      PROVE  /\ task'[r].pc \in {"claimed"} \cup RunningTurn => task'[r].turn # None
             /\ task'[r].turn # None => turn'[task'[r].turn].room = r /\ turn'[task'[r].turn].is # "unused"
             /\ task'[r].pc = "asking" => task'[r].asked # None
    BY <1>1, <1>2 DEF Posts
<1> QED BY <1>1, <1>3, <1>4 DEF Posts

LEMMA ClaimKeepsBooks ==
    ASSUME TypeOK, Posts, Ledger, NEW s \in Rooms, Claim(s)
    PROVE  Posts' /\ Ledger'
<1>0. /\ turn \in [Turns -> TurnRec] /\ msg \in [Messages -> MsgRec] /\ task \in [Rooms -> TaskRec]
    BY TypeParts DEF Tables, Memory
<1>A. PICK t \in Turns, kind \in {"opening", "message", "awake"}, m \in Queued(s) \cup {None} :
          Claims(s, t, kind, m)
    BY ClaimEffect
<1>1. /\ turn[t].is = "unused"
      /\ turn'[t] = [is |-> "running", room |-> s, kind |-> kind,
                     gen |-> room[s].gen, msg |-> m, text |-> "none"]
      /\ \A u \in Turns \ {t} : turn'[u] = turn[u]
      /\ m = None => msg' = msg /\ Queued(s) = {} /\ kind # "message"
      /\ m # None => /\ msg'[m] = [msg[m] EXCEPT !.is = "running", !.turn = t]
                     /\ kind = "message"
      /\ \A n \in Messages \ {m} : msg'[n] = msg[n]
      /\ task'[s] = [task[s] EXCEPT !.pc = "claimed", !.turn = t]
    BY <1>A DEF Claims
<1>2. \A r \in Rooms \ {s} : task'[r] = task[r]
    BY ClaimEffect DEF Others
<1>3. /\ turn'[t].is = "running" /\ turn'[t].room = s /\ turn'[t].text = "none" /\ turn'[t].msg = m
      /\ task'[s].pc = "claimed" /\ task'[s].turn = t
    BY <1>0, <1>1 DEF TaskRec
<1>4. /\ t # None /\ None \notin Messages
      /\ m # None => m \in Messages /\ msg[m].is = "queued" /\ msg[m].room = s
    BY <1>1, Numbers DEF Queued
<1>5. m # None => /\ msg'[m].is = "running" /\ msg'[m].turn = t /\ msg'[m].room = s
    BY <1>0, <1>1, <1>4 DEF MsgRec
<1>6. ASSUME NEW r \in Rooms
      PROVE  /\ task'[r].pc \in {"claimed"} \cup RunningTurn => task'[r].turn # None
             /\ task'[r].turn # None => turn'[task'[r].turn].room = r /\ turn'[task'[r].turn].is # "unused"
             /\ task'[r].pc = "asking" => task'[r].asked # None
    <2>1. CASE r = s
        BY <1>3, <1>4, <2>1
    <2>2. CASE r # s
        <3>1. task'[r] = task[r] /\ task[r].turn \in Turns \cup {None}
            BY <1>0, <1>2, <2>2 DEF TaskRec
        <3>2. task[r].turn # None => turn'[task[r].turn] = turn[task[r].turn]
            BY <1>1, <3>1 DEF Posts
        <3> QED BY <3>1, <3>2 DEF Posts
    <2> QED BY <2>1, <2>2
<1>7. ASSUME NEW u \in Turns
      PROVE  /\ turn'[u].is \in {"unused", "running"} => turn'[u].text = "none"
             /\ turn'[u].is # "unused" => turn'[u].room \in Rooms
    BY <1>1, <1>3 DEF Posts
<1>8. ASSUME NEW n \in Messages
      PROVE  /\ msg'[n].is # "unsent" => msg'[n].room \in Rooms
             /\ msg'[n].is \in {"running", "complete", "failed"} => msg'[n].turn # None
    BY <1>1, <1>4, <1>5 DEF Posts
<1>9. ASSUME NEW u \in Turns, turn'[u].msg # None
      PROVE  /\ turn'[u].is = "running" => msg'[turn'[u].msg].is = "running" /\ msg'[turn'[u].msg].turn = u
             /\ turn'[u].is = "complete" => msg'[turn'[u].msg].is = "complete" /\ msg'[turn'[u].msg].turn = u
    <2>1. CASE u = t
        BY <1>3, <1>5, <1>9, <2>1
    <2>2. CASE u # t
        <3>1. turn'[u] = turn[u] /\ turn[u].msg \in Messages
            BY <1>0, <1>1, <1>9, <2>2 DEF TurnRec
        <3>2. turn[u].is \in {"running", "complete"} => msg'[turn[u].msg] = msg[turn[u].msg]
            BY <1>1, <1>4, <1>9, <3>1 DEF Ledger
        <3> QED BY <1>9, <3>1, <3>2 DEF Ledger
    <2> QED BY <2>1, <2>2
<1>10. ASSUME NEW n \in Messages, msg'[n].is = "complete"
       PROVE  turn'[msg'[n].turn].is = "complete" /\ turn'[msg'[n].turn].msg = n
    <2>1. n # m /\ msg'[n] = msg[n]
        BY <1>1, <1>5, <1>10, <1>4
    <2>2. msg[n].turn \in Turns /\ turn[msg[n].turn].is = "complete" /\ turn[msg[n].turn].msg = n
        BY <1>0, <1>10, <2>1 DEF Ledger, Posts, MsgRec
    <2> QED BY <1>1, <2>1, <2>2
<1>11. Posts'
    BY <1>6, <1>7, <1>8 DEF Posts
<1> QED BY <1>9, <1>10, <1>11 DEF Ledger

(* A step of the task that settles its own turn t, and the message m.      *)
LEMMA SettlingKeepsBooks ==
    ASSUME TypeOK, Posts, Ledger, NEW s \in Rooms, NEW t \in Turns, NEW m \in Messages \cup {None},
           t = task[s].turn, m = turn[t].msg, turn[t].is = "running",
           \A r \in Rooms \ {s} : task'[r] = task[r],
           task'[s].turn = t, task'[s].pc # "asking",
           turn'[t].is \in {"complete", "interrupted"}, turn'[t].msg = m, turn'[t].room = turn[t].room,
           \A u \in Turns \ {t} : turn'[u] = turn[u],
           m = None => msg' = msg,
           m # None => /\ msg'[m].room = msg[m].room /\ msg'[m].turn = msg[m].turn
                       /\ msg'[m].is \in {"running", "queued", "failed", "complete"}
                       /\ msg'[m].is = "complete" <=> turn'[t].is = "complete",
           \A n \in Messages \ {m} : msg'[n] = msg[n]
    PROVE  Posts' /\ Ledger'
<1>0. /\ turn \in [Turns -> TurnRec] /\ msg \in [Messages -> MsgRec] /\ task \in [Rooms -> TaskRec]
    BY TypeParts DEF Tables, Memory
<1>1. m # None => m \in Messages /\ msg[m].is = "running" /\ msg[m].turn = t
    BY DEF Ledger
<1>2. t # None /\ None \notin Messages
    BY Numbers
<1>3. turn'[t].room = s
    BY <1>2 DEF Posts
<1>4. ASSUME NEW r \in Rooms
      PROVE  /\ task'[r].pc \in {"claimed"} \cup RunningTurn => task'[r].turn # None
             /\ task'[r].turn # None => turn'[task'[r].turn].room = r /\ turn'[task'[r].turn].is # "unused"
             /\ task'[r].pc = "asking" => task'[r].asked # None
    <2>1. CASE r = s
        BY <1>2, <1>3, <2>1
    <2>2. CASE r # s
        <3>1. task'[r] = task[r] /\ task[r].turn \in Turns \cup {None}
            BY <1>0, <2>2 DEF TaskRec
        <3>2. task[r].turn # None => turn'[task[r].turn] = turn[task[r].turn]
            BY <1>3, <2>2, <3>1 DEF Posts
        <3> QED BY <3>1, <3>2 DEF Posts
    <2> QED BY <2>1, <2>2
<1>5. ASSUME NEW u \in Turns
      PROVE  /\ turn'[u].is \in {"unused", "running"} => turn'[u].text = "none"
             /\ turn'[u].is # "unused" => turn'[u].room \in Rooms
    BY <1>3 DEF Posts
<1>6. ASSUME NEW n \in Messages
      PROVE  /\ msg'[n].is # "unsent" => msg'[n].room \in Rooms
             /\ msg'[n].is \in {"running", "complete", "failed"} => msg'[n].turn # None
    BY <1>1, <1>2 DEF Posts
<1>7. ASSUME NEW u \in Turns, turn'[u].msg # None
      PROVE  /\ turn'[u].is = "running" => msg'[turn'[u].msg].is = "running" /\ msg'[turn'[u].msg].turn = u
             /\ turn'[u].is = "complete" => msg'[turn'[u].msg].is = "complete" /\ msg'[turn'[u].msg].turn = u
    <2>1. CASE u = t
        BY <1>1, <1>7, <2>1
    <2>2. CASE u # t
        <3>1. turn'[u] = turn[u] /\ turn[u].msg \in Messages
            BY <1>0, <1>7, <2>2 DEF TurnRec
        <3>2. turn[u].is \in {"running", "complete"} => msg'[turn[u].msg] = msg[turn[u].msg]
            BY <1>1, <1>7, <2>2, <3>1 DEF Ledger
        <3> QED BY <1>7, <3>1, <3>2 DEF Ledger
    <2> QED BY <2>1, <2>2
<1>8. ASSUME NEW n \in Messages, msg'[n].is = "complete"
      PROVE  turn'[msg'[n].turn].is = "complete" /\ turn'[msg'[n].turn].msg = n
    <2>1. CASE n = m
        BY <1>1, <1>2, <1>8, <2>1
    <2>2. CASE n # m
        <3>1. msg'[n] = msg[n]
            BY <2>2
        <3>2. msg[n].turn \in Turns /\ turn[msg[n].turn].is = "complete" /\ turn[msg[n].turn].msg = n
            BY <1>0, <1>8, <3>1 DEF Ledger, Posts, MsgRec
        <3> QED BY <3>1, <3>2
    <2> QED BY <2>1, <2>2
<1>9. Posts'
    BY <1>4, <1>5, <1>6 DEF Posts
<1> QED BY <1>7, <1>8, <1>9 DEF Ledger

LEMMA FinishKeepsBooks ==
    ASSUME TypeOK, Posts, Ledger, NEW s \in Rooms, NEW plans \in BOOLEAN, Finish(s, plans)
    PROVE  Tables' /\ Memory' /\ Posts' /\ Ledger'
<1>0. /\ turn \in [Turns -> TurnRec] /\ msg \in [Messages -> MsgRec] /\ task \in [Rooms -> TaskRec]
    BY TypeParts DEF Tables, Memory
<1>1. CASE Mild(s)
    BY <1>1, MildKeepsBooks DEF Mild
<1>2. ASSUME NEW t \in Turns, NEW m \in Messages \cup {None}, Completes(s, t, m), Others(s)
      PROVE  Posts' /\ Ledger'
    <2>1. /\ t = task[s].turn /\ m = turn[t].msg /\ turn[t].is = "running"
          /\ \A r \in Rooms \ {s} : task'[r] = task[r]
          /\ \A u \in Turns \ {t} : turn'[u] = turn[u]
          /\ \A n \in Messages \ {m} : msg'[n] = msg[n]
          /\ m = None => msg' = msg
        BY <1>2 DEF Completes, TurnCurrent, Others
    <2>2. task'[s].turn = t /\ task'[s].pc # "asking"
        BY <1>0, <1>2, <2>1 DEF Completes, TaskRec
    <2>3. turn'[t].is = "complete" /\ turn'[t].msg = m /\ turn'[t].room = turn[t].room
        BY <1>0, <1>2, <2>1 DEF Completes, TurnRec
    <2>4. m # None => /\ msg'[m].room = msg[m].room /\ msg'[m].turn = msg[m].turn
                      /\ msg'[m].is = "complete"
        <3> SUFFICES ASSUME m # None
                     PROVE  /\ msg'[m].room = msg[m].room /\ msg'[m].turn = msg[m].turn
                            /\ msg'[m].is = "complete"
            OBVIOUS
        <3>1. msg[m] \in MsgRec
            BY <1>0
        <3>2. msg'[m] = [msg[m] EXCEPT !.is = "complete"]
            BY <1>2 DEF Completes
        <3> QED BY <3>1, <3>2 DEF MsgRec
    <2> QED BY <2>1, <2>2, <2>3, <2>4, SettlingKeepsBooks
<1> QED BY <1>1, <1>2, FinishEffect

LEMMA AbortKeepsBooks ==
    ASSUME TypeOK, Posts, Ledger, NEW s \in Rooms, Abort(s) \/ AbortFails(s)
    PROVE  Tables' /\ Memory' /\ Posts' /\ Ledger'
<1>0. /\ turn \in [Turns -> TurnRec] /\ msg \in [Messages -> MsgRec] /\ task \in [Rooms -> TaskRec]
    BY TypeParts DEF Tables, Memory
<1>1. /\ Tables' /\ Memory' /\ \A r \in Rooms \ {s} : task'[r] = task[r]
      /\ task'[s].turn = task[s].turn /\ task'[s].pc \in {"cleanup", "dying"}
      /\ task[s].pc \in Aborting
    <2>1. Tables' /\ Memory' /\ Others(s) /\ Leaves(s)
        BY AbortEffect
    <2>2. task[s] \in TaskRec
        BY <1>0
    <2>3. task'[s].turn = task[s].turn /\ task'[s].pc \in {"cleanup", "dying"} /\ task[s].pc \in Aborting
        BY <2>1, <2>2 DEF Leaves, TaskRec
    <2> QED BY <2>1, <2>3 DEF Others
<1>2. CASE UNCHANGED <<turn, msg, cap>>
    <2>1. Ledger'
        BY <1>2 DEF Ledger
    <2>2. task[s].pc \in {"claimed"} \cup RunningTurn
        BY <1>1 DEF Aborting, RunningTurn
    <2>3. ASSUME NEW r \in Rooms
          PROVE  /\ task'[r].pc \in {"claimed"} \cup RunningTurn => task'[r].turn # None
                 /\ task'[r].turn # None => turn'[task'[r].turn].room = r /\ turn'[task'[r].turn].is # "unused"
                 /\ task'[r].pc = "asking" => task'[r].asked # None
        BY <1>1, <1>2, <2>2 DEF Posts
    <2> QED BY <1>1, <1>2, <2>1, <2>3 DEF Posts
<1>3. ASSUME NEW t \in Turns, NEW m \in Messages \cup {None}, Interrupts(s, t, m)
      PROVE  Posts' /\ Ledger'
    <2>1. /\ t = task[s].turn /\ m = turn[t].msg /\ turn[t].is = "running"
          /\ \A u \in Turns \ {t} : turn'[u] = turn[u]
          /\ \A n \in Messages \ {m} : msg'[n] = msg[n]
          /\ m = None => msg' = msg
        BY <1>3 DEF Interrupts
    <2>2. turn'[t].is = "interrupted" /\ turn'[t].msg = m /\ turn'[t].room = turn[t].room
        BY <1>0, <1>3, <2>1 DEF Interrupts, TurnRec
    <2>3. m # None => msg[m].is = "running"
        BY <2>1 DEF Ledger
    <2>4. m # None => /\ msg'[m].room = msg[m].room /\ msg'[m].turn = msg[m].turn
                      /\ msg'[m].is \in {"running", "queued", "failed"}
        BY <1>0, <1>3, <2>3 DEF Interrupts, MsgRec
    <2>5. task'[s].turn = t /\ task'[s].pc # "asking"
        BY <1>1, <2>1
    <2> QED BY <1>1, <2>1, <2>2, <2>4, <2>5, SettlingKeepsBooks
<1> QED BY <1>1, <1>2, <1>3, AbortEffect

-----------------------------------------------------------------------------
(* Every step is a step from outside, or one of a room's own task. *)

Books == TypeOK /\ Posts /\ Ledger

LEMMA Steps ==
    ASSUME [Next]_vars
    PROVE  \/ Outside
           \/ \E s \in Rooms : \/ Claim(s) \/ Reads(s) \/ Abort(s) \/ AbortFails(s)
                               \/ \E plans \in BOOLEAN : Finish(s, plans)
BY DEF Next, Worker, Reads, Outside

LEMMA BooksStart == Init => Books
<1> SUFFICES ASSUME Init PROVE Books
    OBVIOUS
<1>1. Tables
    BY DEF Init, Tables, RoomRec, TurnRec, MsgRec, CapRec, NoRoom, NoTurn, NoMessage, NoCapture
<1>2. Memory
    <2>1. 0 \in 0..MaxRestarts
        BY BoundsAssumption
    <2> QED BY <2>1, Blank DEF Init, Memory, None
<1>3. Posts /\ Ledger
    BY DEF Init, Posts, Ledger, NoTask, NoTurn, NoMessage, RunningTurn, None
<1> QED BY <1>1, <1>2, <1>3, TypeParts DEF Books

LEMMA BooksKept == Books /\ [Next]_vars => Books'
<1> SUFFICES ASSUME Books, [Next]_vars PROVE Tables' /\ Memory' /\ Posts' /\ Ledger'
    <2>1. (TypeOK <=> Tables /\ Memory)'
        BY DEF TypeOK, Tables, Memory, RoomRec, TurnRec, MsgRec, CapRec, TaskRec
    <2> QED BY <2>1 DEF Books
<1> USE DEF Books
<1>1. CASE Outside
    BY <1>1, OutsideMoves, MovesKeepBooks DEF Moves
<1>2. ASSUME NEW s \in Rooms, Claim(s) PROVE Tables' /\ Memory' /\ Posts' /\ Ledger'
    BY <1>2, ClaimEffect, ClaimKeepsBooks
<1>3. ASSUME NEW s \in Rooms, Reads(s) PROVE Tables' /\ Memory' /\ Posts' /\ Ledger'
    <2>1. Mild(s)
        BY <1>3, ReadsEffect
    <2> QED BY <2>1, MildKeepsBooks DEF Mild
<1>4. ASSUME NEW s \in Rooms, Abort(s) \/ AbortFails(s)
      PROVE  Tables' /\ Memory' /\ Posts' /\ Ledger'
    BY <1>4, AbortKeepsBooks
<1>5. ASSUME NEW s \in Rooms, NEW plans \in BOOLEAN, Finish(s, plans)
      PROVE  Tables' /\ Memory' /\ Posts' /\ Ledger'
    BY <1>5, FinishKeepsBooks
<1> QED BY <1>1, <1>2, <1>3, <1>4, <1>5, Steps

LEMMA BooksHold == Spec => []Books
<1> QED BY BooksStart, BooksKept, PTL DEF Spec

(* Every variable keeps its type, whatever the bounds: no status but those *)
(* the tables know is ever written.                                        *)
THEOREM TypesHold == Spec => []TypeOK
<1>1. Books => TypeOK
    BY DEF Books
<1> QED BY <1>1, BooksHold, PTL

(* A message is answered once or not at all, and counts as answered        *)
(* exactly when a turn that took it up is complete.                        *)
THEOREM AnsweredOnce == Spec => []OneAnswer
<1>1. ASSUME Books PROVE OneAnswer
    <2>1. turn \in [Turns -> TurnRec] /\ msg \in [Messages -> MsgRec] /\ None \notin Messages
        BY <1>1, TypeParts, Numbers DEF Books, Tables
    <2>2. ASSUME NEW m \in Messages
          PROVE  Cardinality(AnswersTo(m)) = IF msg[m].is = "complete" THEN 1 ELSE 0
        <3>1. CASE msg[m].is = "complete"
            <4>1. msg[m].turn \in Turns /\ turn[msg[m].turn].is = "complete" /\ turn[msg[m].turn].msg = m
                BY <1>1, <2>1, <3>1 DEF Books, Ledger, Posts, MsgRec
            <4>2. \A t \in AnswersTo(m) : t = msg[m].turn
                BY <1>1, <2>1 DEF AnswersTo, Books, Ledger
            <4>3. AnswersTo(m) = {msg[m].turn}
                BY <4>1, <4>2 DEF AnswersTo
            <4> QED BY <3>1, <4>3, FS_Singleton
        <3>2. CASE msg[m].is # "complete"
            <4>1. AnswersTo(m) = {}
                BY <1>1, <2>1, <3>2 DEF AnswersTo, Books, Ledger
            <4> QED BY <3>2, <4>1, FS_EmptySet
        <3> QED BY <3>1, <3>2
    <2> QED BY <2>2 DEF OneAnswer
<1> QED BY <1>1, BooksHold, PTL

(* No word is added to a room that has ended: a turn that was settled with *)
(* the room keeps silent, and one that is interrupted keeps its words only *)
(* while the room is active.                                               *)
THEOREM NothingSaidAfterEnd == Spec => EndedStaysSilent
<1>1. ASSUME Books, [Next]_vars, NEW t \in Turns, turn'[t].text # turn[t].text
      PROVE  turn[t].room \in Rooms /\ room[turn[t].room].is = "active"
    <2>0. turn \in [Turns -> TurnRec] /\ task \in [Rooms -> TaskRec] /\ msg \in [Messages -> MsgRec]
        BY <1>1, TypeParts DEF Books, Tables, Memory
    <2>1. CASE Outside
        <3>1. Settles(t)
            BY <1>1, <2>1, OutsideMoves DEF Books, Moves
        <3> QED BY <1>1, <2>0, <3>1 DEF Settles, TurnRec
    <2>2. ASSUME NEW s \in Rooms, Claim(s) PROVE FALSE
        <3>1. PICK u \in Turns, kind \in {"opening", "message", "awake"}, m \in Queued(s) \cup {None} :
                 Claims(s, u, kind, m)
            BY <1>1, <2>2, ClaimEffect DEF Books
        <3>2. turn[u].is = "unused" /\ turn'[u].text = "none" /\ \A v \in Turns \ {u} : turn'[v] = turn[v]
            BY <3>1 DEF Claims
        <3> QED BY <1>1, <3>2 DEF Books, Posts
    <2>3. ASSUME NEW s \in Rooms, Reads(s) PROVE FALSE
        <3>1. Mild(s)
            BY <1>1, <2>3, ReadsEffect DEF Books
        <3> QED BY <1>1, <3>1 DEF Mild
    <2>4. ASSUME NEW s \in Rooms, Abort(s) \/ AbortFails(s)
          PROVE  turn[t].room \in Rooms /\ room[turn[t].room].is = "active"
        <3>1. PICK u \in Turns, m \in Messages \cup {None} : Interrupts(s, u, m)
            BY <1>1, <2>4, AbortEffect DEF Books
        <3>2. /\ t = u /\ u = task[s].turn /\ turn[u].is = "running"
            BY <1>1, <3>1 DEF Interrupts
        <3>3. turn[t].room = s /\ turn[t].text = "none"
            BY <1>1, <3>2, Numbers DEF Books, Posts
        <3>4. Active(s)
            BY <1>1, <2>0, <3>1, <3>2, <3>3 DEF Interrupts, TurnRec
        <3> QED BY <3>3, <3>4 DEF Active
    <2>5. ASSUME NEW s \in Rooms, NEW plans \in BOOLEAN, Finish(s, plans)
          PROVE  turn[t].room \in Rooms /\ room[turn[t].room].is = "active"
        <3>1. CASE Mild(s)
            BY <1>1, <3>1 DEF Mild
        <3>2. ASSUME NEW u \in Turns, NEW m \in Messages \cup {None}, Completes(s, u, m)
              PROVE  turn[t].room \in Rooms /\ room[turn[t].room].is = "active"
            <4>1. t = u /\ u = task[s].turn /\ Active(turn[u].room)
                BY <1>1, <3>2 DEF Completes, TurnCurrent
            <4>2. turn[t].room = s
                BY <1>1, <4>1, Numbers DEF Books, Posts
            <4> QED BY <4>1, <4>2 DEF Active
        <3> QED BY <1>1, <2>5, <3>1, <3>2, FinishEffect DEF Books
    <2> QED BY <1>1, <2>1, <2>2, <2>3, <2>4, <2>5, Steps
<1>2. Books /\ [Next]_vars => [\A t \in Turns : turn'[t].text # turn[t].text
                                  => turn[t].room \in Rooms /\ room[turn[t].room].is = "active"]_vars
    BY <1>1
<1> QED BY <1>2, BooksHold, PTL DEF Spec, EndedStaysSilent

-----------------------------------------------------------------------------
(* Rooms and ordinary chat *)

(* What a step may do to the life and the source of a room.                *)
Same(r) == room'[r].is = room[r].is /\ room'[r].source = room[r].source
Opened(r) == /\ \E wait \in BOOLEAN : Start(r, wait)
             /\ room[r].is = "absent" /\ room'[r].is = "active" /\ ~reserved /\ ~AnyActive
             /\ UNCHANGED <<ordinary, reserved>>
Switched(r) == room[r].is = "active" /\ room'[r].is = "active"
               /\ (task[r].pc = "none" \/ task'[r].cut = TRUE)
Ended(r) == /\ End(r)
            /\ room[r].is = "active" /\ room'[r].is = "ended" /\ room'[r].source = room[r].source
            /\ \A t \in Turns : turn[t].room = r => turn'[t].is # "running"
RoomStep(r) == Same(r) \/ Opened(r) \/ Switched(r) \/ Ended(r)

LEMMA RequestRooms ==
    ASSUME TypeOK, Requests, NEW r \in Rooms
    PROVE  RoomStep(r)
<1>0. /\ room \in [Rooms -> RoomRec] /\ task \in [Rooms -> TaskRec] /\ room[r] \in RoomRec
    BY TypeParts DEF Tables, Memory
<1>1. ASSUME NEW s \in Rooms, NEW wait \in BOOLEAN, Start(s, wait) PROVE RoomStep(r)
    <2>1. /\ room' = [room EXCEPT ![s] = [NoRoom EXCEPT !.is = "active", !.opening = TRUE,
                                                        !.online = ~wait, !.expired = wait]]
          /\ room[s].is = "absent" /\ ~reserved /\ ~AnyActive /\ UNCHANGED <<ordinary, reserved>>
        BY <1>1 DEF Start, chat
    <2>2. CASE r = s
        <3>1. room'[s].is = "active"
            BY <1>0, <2>1 DEF NoRoom
        <3> QED BY <1>1, <2>1, <2>2, <3>1 DEF RoomStep, Opened
    <2>3. CASE r # s
        BY <1>0, <2>1, <2>3 DEF RoomStep, Same
    <2> QED BY <2>2, <2>3
<1>2. ASSUME NEW s \in Rooms, NEW photo \in Captures \cup {None}, Message(s, photo) PROVE RoomStep(r)
    <2>1. room' = [room EXCEPT ![s].wake = "none"]
        BY <1>2 DEF Message
    <2> QED BY <1>0, <2>1 DEF RoomStep, Same, RoomRec
<1>3. ASSUME NEW s \in Rooms, NEW report \in Reports, Heartbeat(s, report) PROVE RoomStep(r)
    <2>1. PICK capture, busy : room' = [room EXCEPT ![s].online = TRUE, ![s].expired = FALSE,
                                                    ![s].busy = busy, ![s].capture = capture]
        BY <1>3 DEF Heartbeat
    <2> QED BY <1>0, <2>1 DEF RoomStep, Same, RoomRec
<1>4. ASSUME NEW s \in Rooms, ChangeSource(s) PROVE RoomStep(r)
    <2>1. /\ room' = [room EXCEPT ![s].source = @ + 1, ![s].capture = "paused"]
          /\ task' = Kicked(Cut(task, s), s) /\ Active(s)
        BY <1>4 DEF ChangeSource
    <2>2. CASE r # s
        <3>1. room'[r] = room[r]
            BY <1>0, <2>1, <2>2
        <3> QED BY <3>1 DEF RoomStep, Same
    <2>3. CASE r = s
        <3>1. room[s].is = "active" /\ room'[s].is = "active"
            BY <1>0, <2>1 DEF Active, RoomRec
        <3>2. ASSUME task[s].pc # "none" PROVE task'[s].cut = TRUE
            <4>1. Cut(task, s) = [task EXCEPT ![s].cut = TRUE] /\ Cut(task, s)[s].pc = task[s].pc
                BY <1>0, <3>2 DEF Cut, TaskRec
            <4>2. task' = Cut(task, s)
                BY <2>1, <3>2, <4>1 DEF Kicked
            <4> QED BY <1>0, <4>1, <4>2 DEF TaskRec
        <3> QED BY <2>3, <3>1, <3>2 DEF RoomStep, Switched
    <2> QED BY <2>2, <2>3
<1>5. ASSUME NEW s \in Rooms, RetryOpening(s) PROVE RoomStep(r)
    <2>1. room' = [room EXCEPT ![s].opening = TRUE]
        BY <1>5 DEF RetryOpening
    <2> QED BY <1>0, <2>1 DEF RoomStep, Same, RoomRec
<1>6. ASSUME NEW s \in Rooms, End(s) PROVE RoomStep(r)
    <2>1. PICK gen : room' = [room EXCEPT ![s].is = "ended", ![s].gen = gen, ![s].wake = "none",
                                          ![s].opening = FALSE, ![s].capture = "paused"]
        BY <1>0, <1>6 DEF End
    <2>2. Active(s)
        BY <1>6 DEF End
    <2>3. \A t \in Turns : turn[t].room = s => turn'[t].is # "running"
        <3>1. turn \in [Turns -> TurnRec]
            BY TypeParts DEF Tables
        <3> QED BY <1>6, <3>1 DEF End, TurnRec
    <2>4. CASE r = s
        <3>1. room[s].is = "active" /\ room'[s].is = "ended" /\ room'[s].source = room[s].source
            BY <1>0, <2>1, <2>2 DEF RoomRec, Active
        <3> QED BY <1>6, <2>3, <2>4, <3>1 DEF RoomStep, Ended
    <2>5. CASE r # s
        <3>1. room'[r] = room[r]
            BY <1>0, <2>1, <2>5
        <3> QED BY <3>1 DEF RoomStep, Same
    <2> QED BY <2>4, <2>5
<1>7. ASSUME NEW on \in BOOLEAN, Configure(on) PROVE RoomStep(r)
    <2>1. CASE room' = room
        BY <2>1 DEF RoomStep, Same
    <2>2. CASE room' # room
        <3>1. PICK s \in Rooms :
                /\ Active(s)
                /\ room' = [room EXCEPT ![s].online = FALSE, ![s].expired = TRUE,
                                        ![s].busy = FALSE, ![s].capture = "paused",
                                        ![s].source = @ + 1]
                /\ task' = Cut(task, s)
            BY <1>7, <2>2 DEF Configure, CutFor
        <3>2. CASE r # s
            <4>1. room'[r] = room[r]
                BY <1>0, <3>1, <3>2
            <4> QED BY <4>1 DEF RoomStep, Same
        <3>3. CASE r = s
            <4>1. room[s].is = "active" /\ room'[s].is = "active"
                BY <1>0, <3>1 DEF Active, RoomRec
            <4>2. ASSUME task[s].pc # "none" PROVE task'[s].cut = TRUE
                BY <1>0, <3>1, <4>2 DEF Cut, TaskRec
            <4> QED BY <3>3, <4>1, <4>2 DEF RoomStep, Switched
        <3> QED BY <3>2, <3>3
    <2> QED BY <2>1, <2>2
<1>8. CASE room' = room
    BY <1>8 DEF RoomStep, Same
<1> QED BY <1>1, <1>2, <1>3, <1>4, <1>5, <1>6, <1>7, <1>8
        DEF Requests, RequestPhoto, RetryMessage, ReceiveCapture

LEMMA RoomSteps ==
    ASSUME Books, [Next]_vars, NEW r \in Rooms
    PROVE  RoomStep(r)
<1> USE DEF Books
<1>0. /\ room \in [Rooms -> RoomRec] /\ room[r] \in RoomRec
    BY TypeParts DEF Tables
<1>1. CASE Requests
    BY <1>1, RequestRooms
<1>2. CASE Ticking \/ Time
    <2>1. ASSUME NEW s \in Rooms, TickExpires(s) \/ LeaseEnds(s) \/ WakeFallsDue(s) PROVE RoomStep(r)
        <3>1. \/ room' = room
              \/ room' = [room EXCEPT ![s].expired = TRUE, ![s].busy = FALSE, ![s].capture = "unavailable"]
              \/ room' = [room EXCEPT ![s].online = FALSE]
              \/ room' = [room EXCEPT ![s].wake = "due"]
            BY <2>1 DEF TickExpires, LeaseEnds, WakeFallsDue
        <3> QED BY <1>0, <3>1 DEF RoomStep, Same, RoomRec
    <2>2. CASE room' = room
        BY <2>2 DEF RoomStep, Same
    <2> QED BY <1>2, <2>1, <2>2 DEF Ticking, Time, Sweep, TickKicks, TickCuts, CaptureAges, tables
<1>3. CASE Chat \/ Close \/ Restart \/ UNCHANGED vars
    <2>1. room' = room
        BY <1>3 DEF Chat, OrdinaryBegins, HandlerReturns, GenerationEnds, Close, Restart, tables, vars
    <2> QED BY <2>1 DEF RoomStep, Same
<1>4. CASE Recover
    <2>1. PICK gen : room'[r] = IF Active(r)
                  THEN [room[r] EXCEPT !.online = FALSE, !.expired = TRUE, !.busy = FALSE,
                                       !.capture = "unavailable", !.gen = gen]
                  ELSE room[r]
        BY <1>0, <1>4 DEF Recover
    <2> QED BY <1>0, <2>1 DEF RoomStep, Same, RoomRec
<1>5. ASSUME NEW s \in Rooms, \/ Claim(s) \/ Reads(s) \/ Abort(s) \/ AbortFails(s)
                              \/ \E plans \in BOOLEAN : Finish(s, plans)
      PROVE  RoomStep(r)
    <2>1. CASE Claim(s)
        BY <2>1, ClaimEffect DEF RoomStep, Same
    <2>2. CASE Reads(s)
        BY <2>2, ReadsEffect DEF RoomStep, Same, Mild
    <2>3. CASE Abort(s) \/ AbortFails(s)
        BY <2>3, AbortEffect DEF RoomStep, Same
    <2>4. CASE \E plans \in BOOLEAN : Finish(s, plans)
        BY <2>4, FinishEffect DEF RoomStep, Same, Mild
    <2> QED BY <1>5, <2>1, <2>2, <2>3, <2>4
<1> QED BY <1>1, <1>2, <1>3, <1>4, <1>5, Steps DEF Outside, Life

(* A claim of the gate for as long as the ordinary turn lasts.             *)
Gate == ordinary # "idle" => reserved = TRUE /\ ~AnyActive

LEMMA ChatSteps ==
    ASSUME Books, [Next]_vars
    PROVE  \/ UNCHANGED <<ordinary, reserved>>
           \/ /\ room' = room
              /\ \/ ordinary' = "idle"
                 \/ reserved' = TRUE /\ (ordinary # "idle" \/ ~AnyActive)
<1> USE DEF Books
<1>1. CASE Requests \/ Ticking \/ Time \/ Close \/ Recover \/ UNCHANGED vars
    <2>1. CASE Requests
        <3>1. ASSUME NEW s \in Rooms,
                     \/ \E wait \in BOOLEAN : Start(s, wait)
                     \/ \E photo \in Captures \cup {None} : Message(s, photo)
                     \/ \E report \in Reports : Heartbeat(s, report)
              PROVE  UNCHANGED <<ordinary, reserved>>
            BY <3>1 DEF Start, Message, Heartbeat, Service, chat
        <3>2. ASSUME NEW s \in Rooms, ChangeSource(s) \/ RetryOpening(s) \/ End(s) \/ RequestPhoto(s)
              PROVE  UNCHANGED <<ordinary, reserved>>
            BY <3>2 DEF ChangeSource, RetryOpening, End, RequestPhoto, Service, chat
        <3>3. ASSUME \/ \E m \in Messages : RetryMessage(m)
                     \/ \E on \in BOOLEAN : Configure(on)
                     \/ \E c \in Captures, error \in BOOLEAN : ReceiveCapture(c, error)
              PROVE  UNCHANGED <<ordinary, reserved>>
            BY <3>3 DEF RetryMessage, Configure, ReceiveCapture, Service, chat
        <3> QED BY <2>1, <3>1, <3>2, <3>3 DEF Requests
    <2>2. CASE Ticking \/ Time
        BY <2>2 DEF Ticking, Time, Sweep, TickKicks, TickExpires, TickCuts, LeaseEnds, WakeFallsDue,
                    CaptureAges, Service, chat
    <2>3. CASE Close \/ Recover \/ UNCHANGED vars
        BY <2>3 DEF Close, Recover, Service, vars, chat
    <2> QED BY <1>1, <2>1, <2>2, <2>3
<1>2. CASE Chat \/ Restart
    <2>1. CASE OrdinaryBegins \/ GenerationEnds \/ Restart
        BY <2>1 DEF OrdinaryBegins, GenerationEnds, Restart, tables
    <2>2. ASSUME NEW bound \in BOOLEAN, HandlerReturns(bound)
          PROVE  /\ room' = room
                 /\ \/ ordinary' = "idle"
                    \/ reserved' = TRUE /\ ordinary # "idle"
        <3>1. CASE bound = TRUE
            BY <2>2, <3>1 DEF HandlerReturns, tables
        <3>2. CASE bound = FALSE
            BY <2>2, <3>2 DEF HandlerReturns, tables
        <3> QED BY <3>1, <3>2
    <2> QED BY <1>2, <2>1, <2>2 DEF Chat
<1>3. ASSUME NEW s \in Rooms, \/ Claim(s) \/ Reads(s) \/ Abort(s) \/ AbortFails(s)
                              \/ \E plans \in BOOLEAN : Finish(s, plans)
      PROVE  UNCHANGED <<ordinary, reserved>>
    <2>1. Others(s)
        BY <1>3, ClaimEffect, ReadsEffect, AbortEffect, FinishEffect DEF Mild
    <2> QED BY <2>1 DEF Others
<1> QED BY <1>1, <1>2, <1>3, Steps DEF Outside, Life

LEMMA GateKept ==
    ASSUME Books, Gate, [Next]_vars
    PROVE  Gate'
<1>1. ASSUME ordinary' # "idle", NEW r \in Rooms, room'[r].is = "active" PROVE FALSE
    <2>1. RoomStep(r)
        BY RoomSteps
    <2>2. CASE Opened(r)
        BY <1>1, <2>2 DEF Opened, Gate
    <2>3. CASE ~Opened(r)
        <3>1. room[r].is = "active"
            BY <1>1, <2>1, <2>3 DEF RoomStep, Same, Switched, Ended
        <3> QED BY <1>1, <3>1, ChatSteps DEF Gate, AnyActive, Active
    <2> QED BY <2>2, <2>3
<1>2. ASSUME ordinary' # "idle" PROVE reserved' = TRUE
    BY <1>2, ChatSteps DEF Gate
<1> QED BY <1>1, <1>2 DEF Gate, AnyActive, Active

(* Ordinary chat and a room exclude each other: while an ordinary reply is *)
(* being generated its claim stands, no room is active and none opens.     *)
THEOREM NeverBoth == Spec => []RoomOrChat
<1>1. Init => Gate
    BY DEF Init, Gate
<1>2. Books /\ Gate /\ [Next]_vars => Gate'
    BY GateKept
<1>3. Gate => RoomOrChat
    BY DEF Gate, RoomOrChat
<1> QED BY <1>1, <1>2, <1>3, BooksHold, PTL DEF Spec

-----------------------------------------------------------------------------
(* How turns, messages and tasks move on *)

LEMMA TurnSteps ==
    ASSUME Books, [Next]_vars, NEW t \in Turns, turn[t].is # "unused"
    PROVE  /\ turn'[t].is # "unused" /\ turn'[t].room = turn[t].room
           /\ turn'[t].kind = turn[t].kind /\ turn'[t].msg = turn[t].msg
           /\ turn[t].is = "complete" => turn'[t].is = "complete"
<1> USE DEF Books
<1>0. turn[t] \in TurnRec
    BY TypeParts DEF Tables
<1>1. CASE Outside
    <2>1. Settles(t)
        BY <1>1, OutsideMoves DEF Moves
    <2> QED BY <1>0, <2>1 DEF Settles, TurnRec
<1>2. CASE turn'[t] = turn[t]
    BY <1>2
<1>3. ASSUME NEW s \in Rooms, Claim(s) PROVE turn'[t] = turn[t]
    BY <1>3, ClaimEffect DEF Claims
<1>4. ASSUME NEW s \in Rooms, Reads(s) PROVE turn'[t] = turn[t]
    BY <1>4, ReadsEffect DEF Mild
<1>5. ASSUME NEW s \in Rooms, NEW plans \in BOOLEAN, Finish(s, plans), turn'[t] # turn[t]
      PROVE  turn'[t] = [turn[t] EXCEPT !.is = "complete", !.text = "full"]
    BY <1>5, FinishEffect DEF Mild, Completes
<1>6. ASSUME NEW s \in Rooms, Abort(s) \/ AbortFails(s), turn'[t] # turn[t]
      PROVE  /\ turn[t].is = "running"
             /\ \E text \in {"partial", "none"} : turn'[t] = [turn[t] EXCEPT !.is = "interrupted", !.text = text]
    <2>1. PICK u \in Turns, m \in Messages \cup {None} : Interrupts(s, u, m)
        BY <1>6, AbortEffect
    <2>2. u = t
        BY <1>6, <2>1 DEF Interrupts
    <2>3. PICK text \in {"partial", "none"} : text = IF Active(s) THEN "partial" ELSE "none"
        OBVIOUS
    <2> QED BY <2>1, <2>2, <2>3 DEF Interrupts
<1> QED BY <1>0, <1>1, <1>2, <1>3, <1>4, <1>5, <1>6, Steps DEF TurnRec

Sends(m) ==
    \E s \in Rooms, photo \in Captures \cup {None} :
        /\ Message(s, photo) /\ msg[m].is = "unsent"
        /\ msg'[m] = [is |-> "queued", room |-> s, photo |-> photo, turn |-> None]
Handled(m) ==
    /\ msg[m].is \notin {"unsent", "complete"} /\ msg'[m].is # "unsent"
    /\ msg'[m].room = msg[m].room /\ msg'[m].photo = msg[m].photo /\ msg'[m].turn # None

LEMMA MessageSteps ==
    ASSUME Books, [Next]_vars, NEW m \in Messages
    PROVE  msg'[m] = msg[m] \/ Sends(m) \/ Handled(m)
<1> USE DEF Books
<1>0. msg[m] \in MsgRec /\ None \notin Turns
    BY TypeParts, Numbers DEF Tables
<1>1. ASSUME NEW s \in Rooms, NEW photo \in Captures \cup {None}, Message(s, photo)
      PROVE  msg'[m] = msg[m] \/ Sends(m)
    BY <1>1, MessageMoves DEF Sends
<1>2. ASSUME NEW n \in Messages, RetryMessage(n) PROVE msg'[m] = msg[m] \/ Handled(m)
    <2>0. /\ msg[n].is = "failed" /\ msg'[n] = [msg[n] EXCEPT !.is = "queued"]
          /\ \A k \in Messages \ {n} : msg'[k] = msg[k]
        BY <1>2, RetryMoves
    <2>1. CASE m = n
        <3>1. msg[m].turn # None
            BY <2>0, <2>1 DEF Posts
        <3>2. msg[m].is = "failed" /\ msg'[m] = [msg[m] EXCEPT !.is = "queued"]
            BY <2>0, <2>1
        <3> QED BY <1>0, <3>1, <3>2 DEF Handled, MsgRec
    <2>2. CASE m # n
        BY <2>0, <2>2
    <2> QED BY <2>1, <2>2
<1>3. CASE Recover
    BY <1>0, <1>3 DEF Recover, Posts, Handled, MsgRec
<1>4. ASSUME NEW s \in Rooms, Claim(s) PROVE msg'[m] = msg[m] \/ Handled(m)
    <2>0. PICK t \in Turns, kind \in {"opening", "message", "awake"}, n \in Queued(s) \cup {None} :
             Claims(s, t, kind, n)
        BY <1>4, ClaimEffect
    <2>1. /\ n = None => msg' = msg
          /\ n # None => msg'[n] = [msg[n] EXCEPT !.is = "running", !.turn = t]
          /\ \A k \in Messages \ {n} : msg'[k] = msg[k]
        BY <2>0 DEF Claims
    <2>2. CASE m # n
        BY <2>1, <2>2
    <2>3. CASE m = n /\ n = None
        BY <2>1, <2>3
    <2>4. CASE m = n /\ n # None
        <3>1. msg[m].is = "queued" /\ msg'[m] = [msg[m] EXCEPT !.is = "running", !.turn = t] /\ t # None
            BY <2>1, <2>4, Numbers DEF Queued
        <3> QED BY <1>0, <3>1 DEF Handled, MsgRec
    <2> QED BY <2>2, <2>3, <2>4
<1>5. ASSUME NEW s \in Rooms, Reads(s) PROVE msg'[m] = msg[m]
    BY <1>5, ReadsEffect DEF Mild
<1>6. ASSUME NEW s \in Rooms, NEW plans \in BOOLEAN, Finish(s, plans), msg'[m] # msg[m]
      PROVE  Handled(m)
    <2>0. PICK t \in Turns, n \in Messages \cup {None} : Completes(s, t, n)
        <3>1. ~Mild(s)
            BY <1>6 DEF Mild
        <3> QED BY <1>6, <3>1, FinishEffect
    <2>1. n = m /\ turn[t].is = "running" /\ turn[t].msg = m /\ m # None
          /\ msg'[m] = [msg[m] EXCEPT !.is = "complete"]
        BY <1>6, <2>0, Numbers DEF Completes, TurnCurrent
    <2>2. msg[m].is = "running" /\ msg[m].turn = t /\ t # None
        BY <2>1, Numbers DEF Ledger
    <2> QED BY <1>0, <2>1, <2>2 DEF Handled, MsgRec
<1>7. ASSUME NEW s \in Rooms, Abort(s) \/ AbortFails(s), msg'[m] # msg[m] PROVE Handled(m)
    <2>1. PICK t \in Turns, n \in Messages \cup {None} : Interrupts(s, t, n)
        BY <1>7, AbortEffect
    <2>2. n = m /\ m # None
        BY <1>7, <2>1, Numbers DEF Interrupts
    <2>3. PICK is \in {"queued", "failed"} : msg'[m] = [msg[m] EXCEPT !.is = is]
        BY <1>7, <2>1, <2>2 DEF Interrupts
    <2>4. msg[m].is = "running" /\ msg[m].turn = t /\ t # None
        <3>1. turn[t].is = "running" /\ turn[t].msg = m /\ t \in Turns
            BY <2>1, <2>2 DEF Interrupts
        <3> QED BY <2>2, <3>1, Numbers DEF Ledger
    <2> QED BY <1>0, <2>3, <2>4 DEF Handled, MsgRec
<1>8. CASE \/ Ticking \/ Time \/ Chat \/ Close \/ Restart \/ UNCHANGED vars
           \/ \E s \in Rooms : \/ \E wait \in BOOLEAN : Start(s, wait)
                               \/ \E report \in Reports : Heartbeat(s, report)
                               \/ ChangeSource(s) \/ RetryOpening(s) \/ End(s) \/ RequestPhoto(s)
           \/ \E on \in BOOLEAN : Configure(on)
           \/ \E c \in Captures, error \in BOOLEAN : ReceiveCapture(c, error)
    <2>1. msg' = msg
        BY <1>8 DEF Ticking, Time, Chat, Close, Restart, vars, tables, Start, Heartbeat, ChangeSource,
            RetryOpening, End, RequestPhoto, Configure, ReceiveCapture, Sweep, TickKicks, TickExpires,
            TickCuts, LeaseEnds, WakeFallsDue, CaptureAges, OrdinaryBegins, HandlerReturns, GenerationEnds
    <2> QED BY <2>1
<1> QED BY <1>1, <1>2, <1>3, <1>4, <1>5, <1>6, <1>7, <1>8, Steps DEF Outside, Life, Requests

(* A task at work was at work before, on the same turn, or claims it now.  *)
Early == {"claimed", "calling", "asking"}

LEMMA ReadsGoOn ==
    ASSUME Books, NEW s \in Rooms, Reads(s), task'[s].pc \in Early, task'[s].cut = FALSE
    PROVE  task[s].pc \in Early /\ task[s].cut = FALSE /\ task'[s].turn = task[s].turn
<1>0. task \in [Rooms -> TaskRec] /\ task[s] \in TaskRec
    BY TypeParts DEF Memory, Books
<1>1. CASE NothingToDo(s) \/ TaskInterrupted(s)
    BY <1>0, <1>1 DEF NothingToDo, TaskInterrupted, Stop, NoTask, Early
<1>2. CASE BeginTurn(s)
    <2>1. /\ task[s].pc = "claimed" /\ ~task[s].cut
          /\ \E F : task' = [task EXCEPT ![s].pc = "calling", ![s].frames = F]
        BY <1>2 DEF BeginTurn, At
    <2> QED BY <1>0, <2>1 DEF Early, TaskRec
<1>3. ASSUME NEW purpose \in Autonomous, Ask(s, purpose)
      PROVE  task[s].pc \in Early /\ task[s].cut = FALSE /\ task'[s].turn = task[s].turn
    BY <1>0, <1>3 DEF Ask, At, Early, TaskRec
<1>4. CASE Answered(s)
    BY <1>0, <1>4 DEF Answered, At, Early, TaskRec
<1>5. CASE FinishReturns(s) \/ TurnFails(s)
    BY <1>0, <1>5 DEF FinishReturns, TurnFails, Goto, Early, TaskRec
<1>6. CASE TurnInterrupted(s)
    BY <1>0, <1>6 DEF TurnInterrupted, Caught, Early, TaskRec
<1>7. CASE Cleanup(s)
    BY <1>0, <1>7 DEF Cleanup, NoTask, Early, TaskRec
<1> QED BY <1>1, <1>2, <1>3, <1>4, <1>5, <1>6, <1>7 DEF Reads

LEMMA TaskSteps ==
    ASSUME Books, [Next]_vars, NEW r \in Rooms, task'[r].pc \in Early, task'[r].cut = FALSE
    PROVE  \/ Claim(r)
           \/ task[r].pc \in Early /\ task[r].cut = FALSE /\ task'[r].turn = task[r].turn
<1> USE DEF Books
<1>0. task \in [Rooms -> TaskRec] /\ task[r] \in TaskRec
    BY TypeParts DEF Memory
<1>1. CASE Outside
    <2>1. Calm(r)
        BY <1>1, OutsideMoves DEF Moves
    <2>2. Fresh.pc = "wanting" /\ NoTask.pc = "none"
        BY DEF Fresh, NoTask
    <2>3. task'[r] # [task[r] EXCEPT !.cut = TRUE]
        BY <1>0 DEF TaskRec
    <2> QED BY <2>1, <2>2, <2>3 DEF Calm, Early
<1>2. ASSUME NEW s \in Rooms, s # r, \/ Claim(s) \/ Reads(s) \/ Abort(s) \/ AbortFails(s)
                                     \/ \E plans \in BOOLEAN : Finish(s, plans)
      PROVE  task'[r] = task[r]
    <2>1. Others(s)
        BY <1>2, ClaimEffect, ReadsEffect, AbortEffect, FinishEffect DEF Mild
    <2> QED BY <1>2, <2>1 DEF Others
<1>3. ASSUME Abort(r) \/ AbortFails(r) \/ \E plans \in BOOLEAN : Finish(r, plans)
      PROVE  FALSE
    <2>1. task'[r].pc \in {"cleanup", "dying", "finished"}
        BY <1>0, <1>3 DEF Abort, AbortFails, Finish, Goto, TaskRec
    <2> QED BY <2>1 DEF Early
<1> QED BY <1>0, <1>1, <1>2, <1>3, ReadsGoOn, Steps

-----------------------------------------------------------------------------
(* The owner comes first *)

Heeded ==
    \A s \in Rooms :
        /\ task[s].pc \in Early /\ task[s].cut = FALSE
        /\ turn[task[s].turn].kind # "message"
        => \A m \in Messages : msg[m].room = s /\ msg[m].is = "queued" => msg[m].turn # None

(* A turn nobody asked for does not go on once the owner has sent          *)
(* something new: a message finds the turn in service.running and cuts it, *)
(* or waits for the lock until it does.                                    *)
THEOREM OwnerHeeded == Spec => []OwnerComesFirst
<1>1. Init => Heeded
    BY DEF Init, Heeded, NoTask, Early
<1>2. ASSUME Books, Heeded, [Next]_vars PROVE Heeded'
    <2>0. turn \in [Turns -> TurnRec] /\ task \in [Rooms -> TaskRec] /\ None \notin Turns
        BY <1>2, TypeParts, Numbers DEF Books, Tables, Memory
    <2>1. ASSUME NEW s \in Rooms, task'[s].pc \in Early, task'[s].cut = FALSE,
                 turn'[task'[s].turn].kind # "message",
                 NEW m \in Messages, msg'[m].room = s, msg'[m].is = "queued"
          PROVE  msg'[m].turn # None
        <3>1. CASE Claim(s)
            <4>0. PICK t \in Turns, kind \in {"opening", "message", "awake"}, n \in Queued(s) \cup {None} :
                     Claims(s, t, kind, n)
                BY <1>2, <3>1, ClaimEffect DEF Books
            <4>1. /\ turn'[t] = [is |-> "running", room |-> s, kind |-> kind,
                                 gen |-> room[s].gen, msg |-> n, text |-> "none"]
                  /\ n = None => msg' = msg /\ Queued(s) = {} /\ kind # "message"
                  /\ n # None => kind = "message"
                  /\ task'[s] = [task[s] EXCEPT !.pc = "claimed", !.turn = t]
                BY <4>0 DEF Claims
            <4>2. task'[s].turn = t /\ turn'[t].kind = kind
                BY <2>0, <4>1 DEF TaskRec
            <4> QED BY <2>1, <4>1, <4>2 DEF Queued
        <3>2. CASE /\ task[s].pc \in Early /\ task[s].cut = FALSE /\ task'[s].turn = task[s].turn
            <4>1. task[s].turn \in Turns /\ turn[task[s].turn].is # "unused"
                BY <1>2, <2>0, <3>2 DEF Books, Posts, Early, RunningTurn, TaskRec
            <4>2. turn[task[s].turn].kind # "message"
                BY <1>2, <2>1, <3>2, <4>1, TurnSteps
            <4>3. CASE Sends(m)
                <5>1. PICK r \in Rooms, photo \in Captures \cup {None} :
                         Message(r, photo)
                         /\ msg'[m] = [is |-> "queued", room |-> r, photo |-> photo, turn |-> None]
                    BY <4>3 DEF Sends
                <5>2. r = s
                    BY <2>1, <5>1
                <5>3. task[s].pc # "claimed"
                    BY <5>1, <5>2 DEF Message, Serving, LockFree
                <5>4. task' = Cut(task, s) /\ task[s].pc # "none"
                    BY <3>2, <4>2, <5>1, <5>2, <5>3 DEF Message, Running, RunningTurn, Early, CutFor
                <5>5. task'[s].cut = TRUE
                    BY <2>0, <5>4 DEF Cut, TaskRec
                <5> QED BY <2>1, <5>5
            <4>4. CASE msg'[m] = msg[m]
                BY <1>2, <2>1, <3>2, <4>2, <4>4 DEF Heeded
            <4>5. CASE Handled(m)
                BY <4>5 DEF Handled
            <4> QED BY <1>2, <4>3, <4>4, <4>5, MessageSteps
        <3> QED BY <1>2, <2>1, <3>1, <3>2, TaskSteps
    <2> QED BY <2>1 DEF Heeded
<1>3. Heeded => OwnerComesFirst
    BY DEF Heeded, OwnerComesFirst, Early, Queued
<1> QED BY <1>1, <1>2, <1>3, BooksHold, PTL DEF Spec

-----------------------------------------------------------------------------
(* How captures move on *)

Late == {"attached", "failed", "consumed"}
Discards(c) == \/ \E s \in Rooms : Cleanup(s) /\ c \in Discarded(s)
               \/ Sweep /\ cap[c].file = TRUE /\ Unneeded(c)
Settled(c) == /\ cap[c].is \in Requested /\ Keeps(c) /\ cap'[c].is \in {"failed", "ready", "lapsed"}
              /\ cap'[c].is = "ready" => cap'[c].file = TRUE
Opening(c) == cap[c].is = "unused" /\ cap'[c].is = "requested"
Attached(c) == /\ \E s \in Rooms : Message(s, c)
               /\ cap[c].is = "ready" /\ cap'[c] = [cap[c] EXCEPT !.is = "attached"]
CapStep(c) ==
    \/ cap'[c] = cap[c] \/ Opening(c) \/ Settled(c) \/ Attached(c)
    \/ cap[c].is \in {"ready", "attached"} /\ cap'[c] = [cap[c] EXCEPT !.fresh = FALSE]
    \/ Discards(c) /\ cap'[c] = [cap[c] EXCEPT !.is = "consumed", !.file = FALSE]

LEMMA SettledCaps ==
    ASSUME Tables, NEW c \in Captures, cap[c].is \in Requested,
           \/ cap'[c] = [cap[c] EXCEPT !.is = "failed"]
           \/ cap'[c] = [cap[c] EXCEPT !.is = "lapsed"]
    PROVE  Settled(c)
<1>1. cap[c] \in CapRec
    BY DEF Tables
<1> QED BY <1>1 DEF Settled, Keeps, CapRec

LEMMA InvalidatedSteps ==
    ASSUME Tables, NEW s, NEW P, cap' = Invalidated(s, P), NEW c \in Captures
    PROVE  CapStep(c)
<1>1. \/ cap'[c] = cap[c]
      \/ cap[c].is \in Requested /\ cap'[c] = [cap[c] EXCEPT !.is = "failed"]
    BY InvalidatedCaps
<1> QED BY <1>1, SettledCaps DEF CapStep

LEMMA NewSteps ==
    ASSUME Tables, NEW s \in Rooms, NEW purpose \in Purposes, CanCapture(s, purpose),
           cap' = WithCapture(s, purpose), NEW c \in Captures
    PROVE  CapStep(c)
<1>1. CASE c = NextCapture
    BY <1>1, NewCapture DEF CapStep, Opening
<1>2. CASE c # NextCapture
    BY <1>2, NewCapture DEF CapStep
<1> QED BY <1>1, <1>2

LEMMA CapSteps ==
    ASSUME Books, [Next]_vars, NEW c \in Captures
    PROVE  CapStep(c)
<1>0. Tables /\ cap \in [Captures -> CapRec] /\ cap[c] \in CapRec /\ None \notin Captures
    BY TypeParts, Numbers DEF Books, Tables
<1>1. ASSUME NEW s \in Rooms, NEW photo \in Captures \cup {None}, Message(s, photo)
      PROVE  CapStep(c)
    <2>1. \/ cap'[c] = cap[c]
          \/ c = photo /\ Usable(c, s) /\ cap'[c] = [cap[c] EXCEPT !.is = "attached"]
        BY <1>1, MessageMoves DEF Books
    <2>2. ASSUME c = photo, Usable(c, s), cap'[c] = [cap[c] EXCEPT !.is = "attached"]
          PROVE  Attached(c)
        BY <1>1, <2>2 DEF Attached, Usable
    <2> QED BY <2>1, <2>2 DEF CapStep
<1>2. ASSUME NEW s \in Rooms, ChangeSource(s) \/ End(s) PROVE CapStep(c)
    <2>1. cap' = Invalidated(s, Purposes)
        BY <1>2 DEF ChangeSource, End
    <2> QED BY <1>0, <2>1, InvalidatedSteps
<1>3. ASSUME NEW s \in Rooms, RequestPhoto(s) PROVE CapStep(c)
    <2>1. CanCapture(s, "manual") /\ cap' = WithCapture(s, "manual") /\ "manual" \in Purposes
        BY <1>3 DEF RequestPhoto, Purposes
    <2> QED BY <1>0, <2>1, NewSteps
<1>4. ASSUME NEW on \in BOOLEAN, Configure(on) PROVE CapStep(c)
    <2>1. cap' = cap \/ \E s \in Rooms : cap' = Invalidated(s, Purposes)
        BY <1>4 DEF Configure
    <2>2. CASE cap' = cap
        BY <2>2 DEF CapStep
    <2> QED BY <1>0, <2>1, <2>2, InvalidatedSteps
<1>5. ASSUME NEW d \in Captures, NEW error \in BOOLEAN, ReceiveCapture(d, error) PROVE CapStep(c)
    <2>1. /\ cap[d].is = "requested" /\ cap'[d].is \in {"failed", "ready"} /\ Keeps(d)
          /\ cap'[d].is = "ready" => cap'[d].file = TRUE
          /\ \A e \in Captures \ {d} : cap'[e] = cap[e]
        BY <1>5, ReceiveMoves DEF Books
    <2>2. CASE c = d
        BY <2>1, <2>2 DEF CapStep, Settled, Requested
    <2>3. CASE c # d
        BY <2>1, <2>3 DEF CapStep
    <2> QED BY <2>2, <2>3
<1>6. CASE Sweep
    <2> DEFINE gone == {d \in Captures : cap[d].file /\ Unneeded(d)}
    <2>1. cap'[c] = IF Consumed(gone)[c].is = "lapsed" THEN [Consumed(gone)[c] EXCEPT !.is = "failed"]
                                                      ELSE Consumed(gone)[c]
        BY <1>6 DEF Sweep, Swept
    <2>2. Consumed(gone)[c] = IF c \in gone THEN [cap[c] EXCEPT !.is = "consumed", !.file = FALSE] ELSE cap[c]
        BY <1>0, ConsumedCaps
    <2>3. CASE c \in gone
        <3>1. cap[c].file = TRUE /\ Unneeded(c)
            BY <1>0, <2>3 DEF CapRec
        <3>2. [cap[c] EXCEPT !.is = "consumed", !.file = FALSE].is = "consumed"
            BY <1>0 DEF CapRec
        <3>3. cap'[c] = [cap[c] EXCEPT !.is = "consumed", !.file = FALSE]
            <4> HIDE DEF gone
            <4> QED BY <2>1, <2>2, <2>3, <3>2
        <3> QED BY <1>6, <3>1, <3>3 DEF CapStep, Discards
    <2>4. CASE c \notin gone
        <3>1. cap'[c] = IF cap[c].is = "lapsed" THEN [cap[c] EXCEPT !.is = "failed"] ELSE cap[c]
            <4> HIDE DEF gone
            <4> QED BY <2>1, <2>2, <2>4
        <3>2. CASE cap[c].is = "lapsed"
            <4>1. cap[c].is \in Requested /\ cap'[c] = [cap[c] EXCEPT !.is = "failed"]
                BY <3>1, <3>2 DEF Requested
            <4> QED BY <1>0, <4>1, SettledCaps DEF CapStep
        <3>3. CASE cap[c].is # "lapsed"
            BY <3>1, <3>3 DEF CapStep
        <3> QED BY <3>2, <3>3
    <2> QED BY <2>3, <2>4
<1>7. ASSUME NEW s \in Rooms, TickKicks(s) \/ TickExpires(s) \/ TickCuts(s) PROVE CapStep(c)
    <2>1. cap' = cap \/ cap' = Invalidated(s, Autonomous)
        BY <1>7 DEF TickKicks, TickExpires, TickCuts, tables
    <2>2. CASE cap' = cap
        BY <2>2 DEF CapStep
    <2> QED BY <1>0, <2>1, <2>2, InvalidatedSteps
<1>8. ASSUME NEW d \in Captures, CaptureAges(d) PROVE CapStep(c)
    <2>1. \/ cap[d].is = "requested" /\ cap' = [cap EXCEPT ![d] = [cap[d] EXCEPT !.is = "lapsed"]]
          \/ cap[d].is \in {"ready", "attached"} /\ cap' = [cap EXCEPT ![d] = [cap[d] EXCEPT !.fresh = FALSE]]
        BY <1>0, <1>8 DEF CaptureAges
    <2>2. CASE c # d
        <3>1. cap'[c] = cap[c]
            BY <1>0, <2>1, <2>2
        <3> QED BY <3>1 DEF CapStep
    <2>3. CASE c = d /\ cap[d].is = "requested" /\ cap' = [cap EXCEPT ![d] = [cap[d] EXCEPT !.is = "lapsed"]]
        <3>1. cap[c].is \in Requested /\ cap'[c] = [cap[c] EXCEPT !.is = "lapsed"]
            BY <1>0, <2>3 DEF Requested
        <3> QED BY <1>0, <3>1, SettledCaps DEF CapStep
    <2>4. CASE c = d /\ cap[d].is \in {"ready", "attached"}
               /\ cap' = [cap EXCEPT ![d] = [cap[d] EXCEPT !.fresh = FALSE]]
        <3>1. cap[c].is \in {"ready", "attached"} /\ cap'[c] = [cap[c] EXCEPT !.fresh = FALSE]
            BY <1>0, <2>4
        <3> QED BY <3>1 DEF CapStep
    <2> QED BY <2>1, <2>2, <2>3, <2>4
<1>9. CASE Recover
    <2>1. cap'[c] = IF cap[c].is \in Requested THEN [cap[c] EXCEPT !.is = "failed"] ELSE cap[c]
        BY <1>9 DEF Recover
    <2> QED BY <1>0, <2>1, SettledCaps DEF CapStep
<1>10. CASE \/ Chat \/ Close \/ Restart \/ UNCHANGED vars
            \/ \E s \in Rooms : \/ \E wait \in BOOLEAN : Start(s, wait)
                                \/ \E report \in Reports : Heartbeat(s, report)
                                \/ RetryOpening(s) \/ LeaseEnds(s) \/ WakeFallsDue(s)
            \/ \E m \in Messages : RetryMessage(m)
    <2>1. cap' = cap
        BY <1>10 DEF Chat, Close, Restart, vars, tables, Start, Heartbeat, RetryOpening, LeaseEnds,
            WakeFallsDue, RetryMessage, OrdinaryBegins, HandlerReturns, GenerationEnds
    <2> QED BY <2>1 DEF CapStep
<1>11. ASSUME NEW s \in Rooms, NEW purpose \in Autonomous, Ask(s, purpose) PROVE CapStep(c)
    <2>1. CanCapture(s, purpose) /\ cap' = WithCapture(s, purpose) /\ purpose \in Purposes
        BY <1>11 DEF Ask, Purposes, Autonomous
    <2> QED BY <1>0, <2>1, NewSteps
<1>12. ASSUME NEW s \in Rooms, Answered(s) PROVE CapStep(c)
    <2>1. \/ cap' = cap
          \/ cap[task[s].asked].is \in Requested /\ cap' = [cap EXCEPT ![task[s].asked].is = "failed"]
        BY <1>12 DEF Answered
    <2>2. cap'[c] = cap[c] \/ (cap[c].is \in Requested /\ cap'[c] = [cap[c] EXCEPT !.is = "failed"])
        BY <1>0, <2>1
    <2> QED BY <1>0, <2>2, SettledCaps DEF CapStep
<1>13. ASSUME NEW s \in Rooms, Cleanup(s) PROVE CapStep(c)
    <2>1. cap'[c] = IF c \in Discarded(s) THEN [cap[c] EXCEPT !.is = "consumed", !.file = FALSE] ELSE cap[c]
        BY <1>0, <1>13, ConsumedCaps DEF Cleanup
    <2>2. CASE c \in Discarded(s)
        <3>1. Discards(c)
            BY <1>13, <2>2 DEF Discards
        <3> QED BY <2>1, <2>2, <3>1 DEF CapStep
    <2>3. CASE c \notin Discarded(s)
        BY <2>1, <2>3 DEF CapStep
    <2> QED BY <2>2, <2>3
<1>14. ASSUME NEW s \in Rooms, Abort(s) \/ AbortFails(s) PROVE CapStep(c)
    <2>1. cap' = cap \/ cap' = Invalidated(s, Autonomous)
        BY <1>14, AbortEffect DEF Books, Interrupts
    <2>2. CASE cap' = cap
        BY <2>2 DEF CapStep
    <2> QED BY <1>0, <2>1, <2>2, InvalidatedSteps
<1>15. ASSUME NEW s \in Rooms, \/ Claim(s) \/ NothingToDo(s) \/ BeginTurn(s) \/ FinishReturns(s)
                               \/ TurnFails(s) \/ TurnInterrupted(s) \/ TaskInterrupted(s)
                               \/ \E plans \in BOOLEAN : Finish(s, plans)
       PROVE  CapStep(c)
    <2>1. cap' = cap
        BY <1>15 DEF Claim, NothingToDo, BeginTurn, FinishReturns, TurnFails, TurnInterrupted,
            TaskInterrupted, Finish, tables
    <2> QED BY <2>1 DEF CapStep
<1> QED BY <1>1, <1>2, <1>3, <1>4, <1>5, <1>6, <1>7, <1>8, <1>9, <1>10, <1>11, <1>12, <1>13, <1>14, <1>15,
           Steps DEF Outside, Requests, Ticking, Time, Life, Reads

-----------------------------------------------------------------------------
(* Photos and frames *)

Lives(m) == msg[m].is \in {"queued", "running", "failed"}
Photos ==
    /\ \A m \in Messages : msg[m].photo # None =>
          LET c == msg[m].photo IN
          /\ cap[c].is \in Late /\ cap[c].purpose = "manual" /\ cap[c].room = msg[m].room
          /\ \A n \in Messages : msg[n].photo = c => n = m
          /\ Lives(m) /\ room[msg[m].room].is # "ended" /\ cap[c].fresh = TRUE
                => cap[c].is = "attached" /\ cap[c].file = TRUE
    /\ \A c \in Captures : cap[c].is = "ready" => cap[c].file = TRUE

Taken(s, c) ==
    /\ cap[c].is # "unused"
    /\ cap[c].purpose = "manual" =>
          turn[task[s].turn].msg # None /\ msg[turn[task[s].turn].msg].photo = c
Frames ==
    /\ \A t \in Turns : turn[t].is # "unused" /\ turn[t].msg # None => msg[turn[t].msg].is # "unsent"
    /\ \A s \in Rooms :
          /\ task[s].pc \in {"none", "wanting"} => task[s].frames = {}
          /\ task[s].pc \in {"finished", "completed"} => turn[task[s].turn].is = "complete"
          /\ \A c \in task[s].frames : Taken(s, c)
          /\ task[s].pc = "asking" => cap[task[s].asked].is # "unused"
                                      /\ cap[task[s].asked].purpose # "manual"

(* How a task's frames may change.                                         *)
Idles(r) == task'[r].frames = {} /\ task'[r].pc \in {"none", "wanting"}
Goes(r) ==
    /\ task'[r].turn = task[r].turn /\ task'[r].frames = task[r].frames
    /\ task'[r].asked = task[r].asked
    /\ \/ task'[r].pc = task[r].pc /\ (task'[r].cut = FALSE => task[r].cut = FALSE)
       \/ /\ task'[r].pc \in {"finished", "completed", "aborting", "requeuing", "cleanup", "dying"}
          /\ task[r].pc \in Busy
          /\ task'[r].pc = "completed" => task[r].pc = "finished"
          /\ task'[r].pc = "finished" => turn'[task[r].turn].is = "complete"
TaskStep(r) ==
    \/ Idles(r) \/ Goes(r) \/ Claim(r) \/ BeginTurn(r) \/ Answered(r)
    \/ \E purpose \in Autonomous : Ask(r, purpose)

LEMMA ReadsTask ==
    ASSUME Books, NEW r \in Rooms, Reads(r)
    PROVE  TaskStep(r)
<1>0. task \in [Rooms -> TaskRec] /\ task[r] \in TaskRec
    BY TypeParts DEF Memory, Books
<1>1. CASE NothingToDo(r) \/ TaskInterrupted(r)
    BY <1>0, <1>1 DEF NothingToDo, TaskInterrupted, Stop, TaskStep, Idles, NoTask
<1>2. CASE FinishReturns(r) \/ TurnFails(r)
    <2>1. \/ task[r].pc = "finished" /\ task' = [task EXCEPT ![r] = [task[r] EXCEPT !.pc = "completed"]]
          \/ /\ task[r].pc \in {"calling", "completed"}
             /\ task' = [task EXCEPT ![r] = [task[r] EXCEPT !.pc = "aborting"]]
        BY <1>0, <1>2 DEF FinishReturns, TurnFails, Noting, Goto, At
    <2>2. Goes(r)
        BY <1>0, <2>1 DEF Goes, TaskRec, Busy, RunningTurn
    <2> QED BY <2>2 DEF TaskStep
<1>3. CASE TurnInterrupted(r)
    <2>1. /\ task[r].pc \in {"calling", "asking", "finished", "completed"}
          /\ \/ task' = [task EXCEPT ![r] = [task[r] EXCEPT !.pc = "requeuing", !.cut = FALSE]]
             \/ task' = [task EXCEPT ![r] = [task[r] EXCEPT !.pc = "aborting", !.cut = FALSE]]
        BY <1>0, <1>3 DEF TurnInterrupted, Noting, Caught, At
    <2>2. PICK pc \in {"requeuing", "aborting"} : task'[r] = [task[r] EXCEPT !.pc = pc, !.cut = FALSE]
        BY <1>0, <2>1
    <2>3. /\ task'[r].pc = pc /\ task'[r].turn = task[r].turn /\ task'[r].frames = task[r].frames
          /\ task'[r].asked = task[r].asked
        BY <1>0, <2>2 DEF TaskRec
    <2>4. task[r].pc \in Busy
        BY <2>1 DEF Busy, RunningTurn
    <2>5. Goes(r)
        BY <2>3, <2>4 DEF Goes
    <2> QED BY <2>5 DEF TaskStep
<1>4. CASE Cleanup(r)
    <2>1. \/ task' = [task EXCEPT ![r] = [NoTask EXCEPT !.pc = "none"]]
          \/ task' = [task EXCEPT ![r] = [NoTask EXCEPT !.pc = "wanting"]]
        BY <1>4 DEF Cleanup
    <2>2. Idles(r)
        BY <1>0, <2>1 DEF Idles, NoTask
    <2> QED BY <2>2 DEF TaskStep
<1> QED BY <1>1, <1>2, <1>3, <1>4 DEF Reads, TaskStep

LEMMA FrameSteps ==
    ASSUME Books, [Next]_vars, NEW r \in Rooms
    PROVE  TaskStep(r)
<1> USE DEF Books
<1>0. task \in [Rooms -> TaskRec] /\ task[r] \in TaskRec /\ turn \in [Turns -> TurnRec]
    BY TypeParts DEF Memory, Tables
<1>1. CASE task'[r] = task[r]
    BY <1>1 DEF TaskStep, Goes
<1>2. CASE Outside
    <2>1. Calm(r)
        BY <1>2, OutsideMoves DEF Moves
    <2>2. CASE task'[r] = [task[r] EXCEPT !.cut = TRUE]
        <3>1. Goes(r)
            BY <1>0, <2>2 DEF Goes, TaskRec
        <3> QED BY <3>1 DEF TaskStep
    <2>3. CASE task'[r] = NoTask \/ task'[r] = Fresh
        BY <2>3 DEF TaskStep, Idles, NoTask, Fresh
    <2> QED BY <1>1, <2>1, <2>2, <2>3 DEF Calm
<1>3. ASSUME NEW s \in Rooms, s # r, \/ Claim(s) \/ Reads(s) \/ Abort(s) \/ AbortFails(s)
                                     \/ \E plans \in BOOLEAN : Finish(s, plans)
      PROVE  task'[r] = task[r]
    <2>1. Others(s)
        BY <1>3, ClaimEffect, ReadsEffect, AbortEffect, FinishEffect DEF Mild
    <2> QED BY <1>3, <2>1 DEF Others
<1>4. CASE Abort(r) \/ AbortFails(r)
    <2>1. Leaves(r)
        BY <1>4, AbortEffect
    <2>2. Goes(r)
        BY <1>0, <2>1 DEF Leaves, Goes, TaskRec, Busy, RunningTurn, Aborting
    <2> QED BY <2>2 DEF TaskStep
<1>5. ASSUME NEW plans \in BOOLEAN, Finish(r, plans) PROVE TaskStep(r)
    <2>1. task[r].pc = "calling" /\ (task' = [task EXCEPT ![r] = [task[r] EXCEPT !.pc = "cleanup"]]
                                     \/ task' = [task EXCEPT ![r] = [task[r] EXCEPT !.pc = "finished"]])
        BY <1>0, <1>5 DEF Finish, Goto, At
    <2>2. task'[r].pc = "finished" => turn'[task[r].turn].is = "complete"
        <3>1. ASSUME task'[r].pc = "finished", ~ \E t \in Turns, m \in Messages \cup {None} : Completes(r, t, m)
              PROVE  FALSE
            BY <1>5, <3>1, FinishEffect
        <3>2. ASSUME NEW t \in Turns, NEW m \in Messages \cup {None}, Completes(r, t, m)
              PROVE  turn'[task[r].turn].is = "complete"
            BY <1>0, <3>2 DEF Completes, TurnRec
        <3> QED BY <3>1, <3>2
    <2>3. Goes(r)
        BY <1>0, <2>1, <2>2 DEF Goes, TaskRec, Busy, RunningTurn
    <2> QED BY <2>3 DEF TaskStep
<1> QED BY <1>1, <1>2, <1>3, <1>4, <1>5, ReadsTask, Steps DEF TaskStep

(* A capture keeps what it is of, and one that is used up stays so.        *)
LEMMA CapsKept ==
    ASSUME Books, [Next]_vars, NEW c \in Captures, cap[c].is # "unused"
    PROVE  /\ Keeps(c) /\ cap'[c].is # "unused"
           /\ cap[c].is \in Late => cap'[c].is \in Late
           /\ cap'[c].fresh = TRUE /\ cap[c].is \in Late =>
                 /\ cap[c].fresh = TRUE
                 /\ Discards(c) \/ cap'[c] = cap[c]
<1>0. cap[c] \in CapRec
    BY TypeParts DEF Books, Tables
<1>1. CapStep(c)
    BY CapSteps
<1>2. CASE cap'[c] = cap[c]
    BY <1>2 DEF Keeps
<1>3. CASE Settled(c)
    BY <1>0, <1>3 DEF Settled, Late, Requested, Keeps
<1>4. CASE Attached(c)
    <2>1. cap[c].is = "ready" /\ cap'[c] = [cap[c] EXCEPT !.is = "attached"]
        BY <1>4 DEF Attached
    <2> QED BY <1>0, <2>1 DEF Late, CapRec, Keeps
<1>5. CASE cap[c].is \in {"ready", "attached"} /\ cap'[c] = [cap[c] EXCEPT !.fresh = FALSE]
    BY <1>0, <1>5 DEF Late, CapRec, Keeps
<1>6. CASE Discards(c) /\ cap'[c] = [cap[c] EXCEPT !.is = "consumed", !.file = FALSE]
    BY <1>0, <1>6 DEF Late, CapRec, Keeps
<1> QED BY <1>1, <1>2, <1>3, <1>4, <1>5, <1>6 DEF CapStep, Opening

LEMMA UsedTurn ==
    ASSUME Books, Frames, NEW s \in Rooms,
           task[s].pc \notin {"none", "wanting"} \/ task[s].frames # {}
    PROVE  /\ task[s].pc \in Busy
           /\ task[s].turn \in Turns /\ task[s].turn # None /\ turn[task[s].turn].is # "unused"
           /\ turn[task[s].turn].room = s
           /\ turn[task[s].turn].msg \in Messages \cup {None}
<1>1. task[s] \in TaskRec /\ turn \in [Turns -> TurnRec]
    BY TypeParts DEF Books, Tables, Memory
<1>2. task[s].pc \in Busy
    BY <1>1 DEF Frames, TaskRec, Busy
<1>3. task[s].turn # None /\ task[s].turn \in Turns
    BY <1>1, <1>2 DEF Books, Posts, TaskRec, Busy
<1> QED BY <1>1, <1>2, <1>3 DEF Books, Posts, TurnRec

(* Photos are never discarded while their message waits for its answer.    *)
LEMMA PhotoSpared ==
    ASSUME Books, Photos, Frames, NEW m \in Messages, msg[m].photo # None,
           Lives(m), room[msg[m].room].is # "ended", cap[msg[m].photo].fresh = TRUE
    PROVE  ~Discards(msg[m].photo)
<1> DEFINE c == msg[m].photo
<1>0. /\ c \in Captures /\ cap[c].is = "attached" /\ cap[c].file = TRUE /\ cap[c].purpose = "manual"
      /\ cap[c].room = msg[m].room
      /\ \A n \in Messages : msg[n].photo = c => n = m
    BY TypeParts DEF Photos, Books, Tables, MsgRec
<1> HIDE DEF c
<1>1. ASSUME NEW s \in Rooms, Cleanup(s), c \in Discarded(s) PROVE FALSE
    <2>1. c \in task[s].frames /\ task[s].pc = "completed"
        BY <1>0, <1>1 DEF Discarded
    <2>2. turn[task[s].turn].is = "complete" /\ Taken(s, c)
        BY <2>1 DEF Frames
    <2>3. /\ task[s].turn \in Turns /\ turn[task[s].turn].msg \in Messages
          /\ msg[turn[task[s].turn].msg].photo = c /\ turn[task[s].turn].msg # None
        BY <1>0, <2>1, <2>2, UsedTurn DEF Taken
    <2>4. turn[task[s].turn].msg = m
        BY <1>0, <2>3
    <2>5. msg[m].is = "complete"
        BY <2>2, <2>3, <2>4 DEF Books, Ledger
    <2> QED BY <2>5 DEF Lives
<1>2. ~Unneeded(c)
    <2>1. Needed(c)
        BY <1>0 DEF Needed, Lives, c
    <2> QED BY <1>0, <2>1 DEF Unneeded
<1> QED BY <1>1, <1>2 DEF Discards, c

LEMMA PhotosKept ==
    ASSUME Books, Photos, Frames, [Next]_vars
    PROVE  Photos'
<1>0. /\ cap \in [Captures -> CapRec] /\ msg \in [Messages -> MsgRec] /\ None \notin Captures
      /\ cap' \in [Captures -> CapRec] /\ msg' \in [Messages -> MsgRec]
    <2>1. Books'
        BY BooksKept
    <2> QED BY <2>1, TypeParts, Numbers DEF Books, TypeOK, Tables, MsgRec, CapRec
<1>1. ASSUME NEW c \in Captures, cap'[c].is = "ready" PROVE cap'[c].file = TRUE
    <2>1. CapStep(c) /\ (cap[c].is = "ready" => cap[c].file = TRUE) /\ cap[c] \in CapRec
        BY <1>0, CapSteps DEF Photos
    <2>2. CASE Attached(c)
        BY <1>1, <2>1, <2>2 DEF Attached, CapRec
    <2>3. CASE ~Attached(c)
        BY <1>1, <2>1, <2>3 DEF CapStep, Settled, Opening, CapRec
    <2> QED BY <2>2, <2>3
(* who has which photo *)
<1>2. ASSUME NEW n \in Messages, msg'[n].photo # None, ~Sends(n)
      PROVE  /\ msg'[n].photo = msg[n].photo /\ msg'[n].room = msg[n].room
             /\ cap[msg'[n].photo].is \in Late
             /\ msg'[n].is \in {"queued", "running", "failed"} => Lives(n)
    <2>1. msg'[n] = msg[n] \/ Handled(n)
        BY <1>2, MessageSteps
    <2>2. msg'[n].photo = msg[n].photo /\ msg'[n].room = msg[n].room
        BY <2>1 DEF Handled
    <2>3. cap[msg'[n].photo].is \in Late
        BY <1>2, <2>2 DEF Photos
    <2>4. msg'[n].is \in {"queued", "running", "failed"} => Lives(n)
        BY <1>0, <2>1 DEF Handled, Lives, MsgRec
    <2> QED BY <2>2, <2>3, <2>4
<1>3. ASSUME NEW n \in Messages, msg'[n].photo # None, Sends(n)
      PROVE  LET c == msg'[n].photo IN
             /\ c \in Captures /\ cap[c].is = "ready"
             /\ cap'[c].is = "attached" /\ cap'[c].file = TRUE /\ cap'[c].purpose = "manual"
             /\ cap'[c].room = msg'[n].room
             /\ \A k \in Messages \ {n} : msg'[k] = msg[k]
    <2>1. PICK s \in Rooms, c \in Captures \cup {None} :
             /\ Message(s, c) /\ msg[n].is = "unsent"
             /\ msg'[n] = [is |-> "queued", room |-> s, photo |-> c, turn |-> None]
        BY <1>3 DEF Sends
    <2>2. msg'[n].photo = c /\ msg'[n].room = s /\ c # None /\ c \in Captures
        BY <1>3, <2>1
    <2>3. Usable(c, s) /\ cap' = [cap EXCEPT ![c].is = "attached"]
        BY <2>1, <2>2 DEF Message
    <2>4. cap[c].is = "ready" /\ cap[c].purpose = "manual" /\ cap[c].room = s /\ cap[c].file = TRUE
        BY <2>2, <2>3 DEF Usable, Photos
    <2>5. cap'[c].is = "attached" /\ cap'[c].file = TRUE /\ cap'[c].purpose = "manual" /\ cap'[c].room = s
        BY <1>0, <2>2, <2>3, <2>4 DEF CapRec
    <2>6. PICK k \in Messages : \A j \in Messages \ {k} : msg'[j] = msg[j]
        BY <2>1, MessageMoves DEF Books
    <2>7. k = n
        <3>1. msg'[n].is # msg[n].is
            BY <2>1
        <3> QED BY <2>6, <3>1
    <2> QED BY <2>2, <2>4, <2>5, <2>6, <2>7
<1>4. ASSUME NEW m \in Messages, msg'[m].photo # None
      PROVE  LET c == msg'[m].photo IN
             /\ cap'[c].is \in Late /\ cap'[c].purpose = "manual" /\ cap'[c].room = msg'[m].room
             /\ \A n \in Messages : msg'[n].photo = c => n = m
             /\ Lives(m)' /\ room'[msg'[m].room].is # "ended" /\ cap'[c].fresh = TRUE
                => cap'[c].is = "attached" /\ cap'[c].file = TRUE
    <2>1. PICK c \in Captures : c = msg'[m].photo
        BY <1>0, <1>4 DEF MsgRec
    <2>2. CASE Sends(m)
        <3>1. /\ cap[c].is = "ready" /\ cap'[c].is = "attached" /\ cap'[c].file = TRUE
              /\ cap'[c].purpose = "manual" /\ cap'[c].room = msg'[m].room
              /\ \A k \in Messages \ {m} : msg'[k] = msg[k]
            BY <1>3, <1>4, <2>1, <2>2
        <3>2. ASSUME NEW n \in Messages, msg'[n].photo = c, n # m PROVE FALSE
            <4>1. msg[n].photo = c
                BY <3>1, <3>2
            <4>2. cap[c].is \in Late
                BY <1>0, <4>1 DEF Photos
            <4> QED BY <3>1, <4>2 DEF Late
        <3> QED BY <2>1, <3>1, <3>2 DEF Late
    <2>3. CASE ~Sends(m)
        <3>1. /\ msg[m].photo = c /\ msg'[m].room = msg[m].room /\ cap[c].is \in Late
              /\ msg'[m].is \in {"queued", "running", "failed"} => Lives(m)
            BY <1>2, <1>4, <2>1, <2>3
        <3>2. /\ cap[c].purpose = "manual" /\ cap[c].room = msg[m].room
              /\ \A n \in Messages : msg[n].photo = c => n = m
              /\ Lives(m) /\ room[msg[m].room].is # "ended" /\ cap[c].fresh = TRUE
                    => cap[c].is = "attached" /\ cap[c].file = TRUE
            BY <1>0, <3>1 DEF Photos
        <3>3. cap[c].is # "unused"
            BY <3>1 DEF Late
        <3>4. cap'[c].is \in Late /\ cap'[c].purpose = "manual" /\ cap'[c].room = msg'[m].room
            BY <3>1, <3>2, <3>3, CapsKept DEF Keeps
        <3>5. ASSUME NEW n \in Messages, msg'[n].photo = c PROVE n = m
            <4>1. CASE Sends(n)
                <5>1. cap[c].is = "ready"
                    BY <1>0, <1>3, <3>5, <4>1
                <5> QED BY <3>1, <5>1 DEF Late
            <4>2. CASE ~Sends(n)
                <5>1. msg[n].photo = c
                    BY <1>0, <1>2, <3>5, <4>2
                <5> QED BY <3>2, <5>1
            <4> QED BY <4>1, <4>2
        <3>6. ASSUME msg'[m].is \in {"queued", "running", "failed"}, room'[msg'[m].room].is # "ended",
                     cap'[c].fresh = TRUE
              PROVE  cap'[c].is = "attached" /\ cap'[c].file = TRUE
            <4>1. Lives(m)
                BY <3>1, <3>6
            <4>2. msg[m].room \in Rooms
                BY <4>1 DEF Books, Posts, Lives
            <4>3. room[msg[m].room].is # "ended"
                BY <3>1, <3>6, <4>2, RoomSteps DEF RoomStep, Same, Opened, Switched, Ended
            <4>4. cap[c].fresh = TRUE /\ (Discards(c) \/ cap'[c] = cap[c])
                BY <3>1, <3>3, <3>6, CapsKept
            <4>5. ~Discards(c)
                BY <1>0, <3>1, <4>1, <4>3, <4>4, PhotoSpared
            <4> QED BY <3>2, <4>1, <4>3, <4>4, <4>5
        <3> QED BY <2>1, <3>4, <3>5, <3>6 DEF Lives
    <2> QED BY <2>2, <2>3
<1> QED BY <1>1, <1>4 DEF Photos

(* What a task took stays what it is, as long as its turn is the same.     *)
LEMMA TakenKept ==
    ASSUME Books, Frames, [Next]_vars, NEW s \in Rooms,
           task[s].pc \notin {"none", "wanting"} \/ task[s].frames # {},
           task'[s].turn = task[s].turn, NEW c \in Captures, Taken(s, c)
    PROVE  Taken(s, c)'
<1> DEFINE t == task[s].turn
<1>1. t \in Turns /\ turn[t].is # "unused" /\ turn[t].msg \in Messages \cup {None}
    BY UsedTurn
<1>2. turn'[t].msg = turn[t].msg
    BY <1>1, TurnSteps
<1>3. Keeps(c) /\ cap'[c].is # "unused" /\ cap[c].is # "unused"
    BY CapsKept DEF Taken
<1>4. ASSUME turn[t].msg # None PROVE msg'[turn[t].msg].photo = msg[turn[t].msg].photo
    <2>1. turn[t].msg \in Messages /\ msg[turn[t].msg].is # "unsent"
        BY <1>1, <1>4 DEF Frames
    <2> QED BY <2>1, MessageSteps DEF Sends, Handled
<1> HIDE DEF t
<1>5. cap'[c].purpose = "manual" => turn'[t].msg # None /\ msg'[turn'[t].msg].photo = c
    BY <1>2, <1>3, <1>4 DEF Keeps, Taken, t
<1> QED BY <1>3, <1>5 DEF Taken, t

LEMMA FramesKept ==
    ASSUME Books, Photos, Frames, [Next]_vars
    PROVE  Frames'
<1>0. /\ cap \in [Captures -> CapRec] /\ msg \in [Messages -> MsgRec] /\ turn \in [Turns -> TurnRec]
      /\ task \in [Rooms -> TaskRec] /\ None \notin Captures /\ None \notin Messages
      /\ turn' \in [Turns -> TurnRec] /\ task' \in [Rooms -> TaskRec]
    <2>1. Books'
        BY BooksKept
    <2> QED BY <2>1, TypeParts, Numbers DEF Books, TypeOK, Tables, Memory, TurnRec, TaskRec, RunningTurn
<1>1. ASSUME NEW t \in Turns, turn'[t].is # "unused", turn'[t].msg # None
      PROVE  msg'[turn'[t].msg].is # "unsent"
    <2>1. CASE turn[t].is # "unused"
        <3>1. turn'[t].msg = turn[t].msg /\ turn[t].msg \in Messages
            BY <1>0, <1>1, <2>1, TurnSteps DEF TurnRec
        <3>2. msg[turn[t].msg].is # "unsent"
            BY <1>1, <2>1, <3>1 DEF Frames
        <3> QED BY <3>1, <3>2, MessageSteps DEF Sends, Handled
    <2>2. CASE turn[t].is = "unused"
        <3>0. PICK s \in Rooms : Claim(s)
            <4>1. ASSUME Outside PROVE FALSE
                <5>1. Settles(t)
                    BY <4>1, OutsideMoves DEF Books, Moves
                <5> QED BY <1>1, <2>2, <5>1 DEF Settles
            <4>2. ASSUME NEW s \in Rooms, Reads(s) PROVE FALSE
                BY <1>1, <2>2, <4>2, ReadsEffect DEF Books, Mild
            <4>3. ASSUME NEW s \in Rooms, Abort(s) \/ AbortFails(s) PROVE FALSE
                BY <1>1, <2>2, <4>3, AbortEffect DEF Books, Interrupts
            <4>4. ASSUME NEW s \in Rooms, NEW plans \in BOOLEAN, Finish(s, plans) PROVE FALSE
                BY <1>1, <2>2, <4>4, FinishEffect DEF Books, Mild, Completes, TurnCurrent
            <4> QED BY <4>1, <4>2, <4>3, <4>4, Steps
        <3>1. PICK u \in Turns, kind \in {"opening", "message", "awake"}, m \in Queued(s) \cup {None} :
                 Claims(s, u, kind, m)
            BY <3>0, ClaimEffect DEF Books
        <3>2. u = t /\ turn'[t].msg = m /\ m \in Messages
            BY <1>1, <2>2, <3>1 DEF Claims, Queued
        <3>3. msg'[m] = [msg[m] EXCEPT !.is = "running", !.turn = t] /\ msg[m] \in MsgRec
            BY <1>0, <3>1, <3>2 DEF Claims
        <3>4. msg'[m].is = "running"
            BY <3>3 DEF MsgRec
        <3> QED BY <3>2, <3>4
    <2> QED BY <2>1, <2>2
<1>2. ASSUME NEW s \in Rooms
      PROVE  /\ task'[s].pc \in {"none", "wanting"} => task'[s].frames = {}
             /\ task'[s].pc \in {"finished", "completed"} => turn'[task'[s].turn].is = "complete"
             /\ \A c \in task'[s].frames : Taken(s, c)'
             /\ task'[s].pc = "asking" => cap'[task'[s].asked].is # "unused"
                                          /\ cap'[task'[s].asked].purpose # "manual"
    <2>0. task[s] \in TaskRec /\ task'[s] \in TaskRec
        BY <1>0
    <2>1. CASE Idles(s)
        BY <2>1 DEF Idles
    <2>2. CASE Goes(s)
        <3>1. task'[s].pc \in {"none", "wanting"} => task'[s].frames = {}
            BY <2>2 DEF Goes, Frames
        <3>2. ASSUME task'[s].pc \in {"finished", "completed"}
              PROVE  turn'[task'[s].turn].is = "complete"
            <4>1. CASE task[s].pc \in {"finished", "completed"}
                <5>1. turn[task[s].turn].is = "complete" /\ task[s].turn \in Turns
                    BY <4>1, UsedTurn DEF Frames
                <5> QED BY <2>2, <5>1, TurnSteps DEF Goes
            <4>2. CASE task[s].pc \notin {"finished", "completed"}
                BY <2>2, <3>2, <4>2 DEF Goes
            <4> QED BY <4>1, <4>2
        <3>3. ASSUME NEW c \in task'[s].frames PROVE Taken(s, c)'
            <4>1. c \in task[s].frames /\ task'[s].turn = task[s].turn /\ c \in Captures
                BY <2>0, <2>2, <3>3 DEF Goes, TaskRec
            <4>2. Taken(s, c)
                BY <4>1 DEF Frames
            <4> QED BY <4>1, <4>2, TakenKept
        <3>4. ASSUME task'[s].pc = "asking"
              PROVE  cap'[task'[s].asked].is # "unused" /\ cap'[task'[s].asked].purpose # "manual"
            <4>1. task[s].pc = "asking" /\ task'[s].asked = task[s].asked
                BY <2>2, <3>4 DEF Goes
            <4>2. task[s].asked \in Captures
                BY <2>0, <4>1 DEF Books, Posts, TaskRec
            <4>3. cap[task[s].asked].is # "unused" /\ cap[task[s].asked].purpose # "manual"
                BY <4>1 DEF Frames
            <4>4. Keeps(task[s].asked) /\ cap'[task[s].asked].is # "unused"
                BY <4>2, <4>3, CapsKept
            <4> QED BY <4>1, <4>3, <4>4 DEF Keeps
        <3> QED BY <3>1, <3>2, <3>3, <3>4
    <2>3. CASE Claim(s)
        <3>1. task[s].frames = {} /\ \E t : task'[s] = [task[s] EXCEPT !.pc = "claimed", !.turn = t]
            BY <2>3, ClaimEffect DEF Books, Frames, Claims
        <3>2. task'[s].frames = {} /\ task'[s].pc = "claimed"
            BY <2>0, <3>1 DEF TaskRec
        <3> QED BY <3>2
    <2>4. CASE BeginTurn(s)
        <3>1. /\ task[s].pc = "claimed" /\ UNCHANGED <<turn, msg, cap>>
              /\ task'[s].pc = "calling" /\ task'[s].turn = task[s].turn
              /\ \A c \in task'[s].frames :
                    /\ cap[c].is = "attached" /\ c # None /\ turn[task[s].turn].msg # None
                    /\ msg[turn[task[s].turn].msg].photo = c
            BY <1>0, <2>0, <2>4 DEF BeginTurn, At, tables, TaskRec
        <3>2. ASSUME NEW c \in task'[s].frames PROVE Taken(s, c)'
            BY <3>1, <3>2 DEF Taken
        <3> QED BY <3>1, <3>2
    <2>5. CASE Answered(s)
        <3>1. /\ task[s].pc = "asking" /\ task'[s].pc = "calling" /\ task'[s].turn = task[s].turn
              /\ task'[s].frames \subseteq task[s].frames \cup {task[s].asked}
            <4>1. PICK used \in SUBSET {task[s].asked} :
                     task' = [task EXCEPT ![s] = [task[s] EXCEPT !.pc = "calling", !.asked = None,
                                                      !.frames = task[s].frames \cup used]]
                BY <1>0, <2>5 DEF Answered
            <4>2. task[s].pc = "asking"
                BY <2>5 DEF Answered, At
            <4>3. task'[s] = [task[s] EXCEPT !.pc = "calling", !.asked = None,
                                             !.frames = task[s].frames \cup used]
                BY <1>0, <4>1
            <4> QED BY <2>0, <4>2, <4>3 DEF TaskRec
        <3>2. task[s].asked \in Captures /\ Taken(s, task[s].asked)
            BY <2>0, <3>1 DEF Books, Posts, TaskRec, Frames, Taken
        <3>3. ASSUME NEW c \in task'[s].frames PROVE Taken(s, c)'
            <4>1. c \in Captures /\ Taken(s, c)
                BY <2>0, <3>1, <3>2, <3>3 DEF Frames, TaskRec
            <4> QED BY <3>1, <4>1, TakenKept
        <3> QED BY <3>1, <3>3
    <2>6. ASSUME NEW purpose \in Autonomous, Ask(s, purpose)
          PROVE  /\ task'[s].pc = "asking" /\ \A c \in task'[s].frames : Taken(s, c)'
                 /\ cap'[task'[s].asked].is # "unused" /\ cap'[task'[s].asked].purpose # "manual"
        <3>1. CanCapture(s, purpose) /\ cap' = WithCapture(s, purpose) /\ purpose \in Purposes
              /\ purpose # "manual"
            BY <2>6 DEF Ask, Purposes, Autonomous
        <3>2. cap'[NextCapture].is = "requested" /\ cap'[NextCapture].purpose = purpose
            BY <3>1, NewCapture, TypeParts DEF Books
        <3>3. /\ task[s].pc = "calling" /\ task'[s].pc = "asking" /\ task'[s].turn = task[s].turn
              /\ task'[s].frames = task[s].frames /\ task'[s].asked = NextCapture
            BY <1>0, <2>0, <2>6 DEF Ask, At, TaskRec
        <3>4. ASSUME NEW c \in task'[s].frames PROVE Taken(s, c)'
            <4>1. c \in Captures /\ Taken(s, c)
                BY <2>0, <3>3, <3>4 DEF Frames, TaskRec
            <4> QED BY <3>3, <4>1, TakenKept
        <3> QED BY <3>1, <3>2, <3>3, <3>4
    <2> QED BY <2>1, <2>2, <2>3, <2>4, <2>5, <2>6, FrameSteps DEF TaskStep
<1> QED BY <1>1, <1>2 DEF Frames

LEMMA FramesStart == Init => Photos /\ Frames
BY DEF Init, Photos, Frames, NoTask, NoTurn, NoMessage, NoCapture, None

(* The photo of a message that still waits, or may be retried, is there    *)
(* until it expires: of the frames of an attempt only those it asked for   *)
(* itself are thrown away, and the sweep asks whether a message needs it.  *)
THEOREM PhotosAreKept == Spec => []PhotoKept
<1>1. ASSUME Books, Photos PROVE PhotoKept
    <2>1. \A c \in Captures : cap[c].fresh \in BOOLEAN /\ cap[c].file \in BOOLEAN
        BY <1>1, TypeParts DEF Books, Tables, CapRec
    <2>2. ASSUME NEW m \in Messages, msg[m].photo # None, msg[m].is \in {"queued", "running", "failed"},
                 Active(msg[m].room), cap[msg[m].photo].fresh
          PROVE  cap[msg[m].photo].is = "attached" /\ cap[msg[m].photo].file
        <3>1. PICK c \in Captures : c = msg[m].photo
            BY <1>1, <2>2, TypeParts DEF Books, Tables, MsgRec
        <3>2. cap[c].fresh = TRUE
            BY <2>1, <2>2, <3>1
        <3> QED BY <1>1, <2>2, <3>1, <3>2 DEF Photos, Lives, Active
    <2> QED BY <2>2 DEF PhotoKept
<1>2. Books /\ Photos /\ Frames /\ [Next]_vars => Photos' /\ Frames'
    BY PhotosKept, FramesKept
<1> QED BY <1>1, <1>2, FramesStart, BooksHold, PTL DEF Spec

-----------------------------------------------------------------------------
(* Frames of the source in use *)

Sources ==
    /\ \A t \in Turns : turn[t].is # "unused" => room[turn[t].room].is # "absent"
    /\ \A s \in Rooms : task[s].pc \in {"calling", "asking"} /\ task[s].cut = FALSE =>
          /\ \A c \in task[s].frames : cap[c].purpose # "manual" => cap[c].version = room[s].source
          /\ task[s].pc = "asking" => cap[task[s].asked].version = room[s].source

LEMMA SourcesKept ==
    ASSUME Books, Photos, Frames, Sources, [Next]_vars
    PROVE  Sources'
<1>0. /\ cap \in [Captures -> CapRec] /\ turn \in [Turns -> TurnRec] /\ task \in [Rooms -> TaskRec]
      /\ msg \in [Messages -> MsgRec] /\ None \notin Captures
      /\ turn' \in [Turns -> TurnRec]
    <2>1. Books'
        BY BooksKept
    <2> QED BY <2>1, TypeParts, Numbers DEF Books, TypeOK, Tables, Memory, TurnRec
<1>1. ASSUME NEW t \in Turns, turn'[t].is # "unused" PROVE room'[turn'[t].room].is # "absent"
    <2>1. CASE turn[t].is # "unused"
        <3>1. turn'[t].room = turn[t].room /\ turn[t].room \in Rooms /\ room[turn[t].room].is # "absent"
            BY <2>1, TurnSteps DEF Books, Posts, Sources
        <3> QED BY <3>1, RoomSteps DEF RoomStep, Same, Opened, Switched, Ended
    <2>2. CASE turn[t].is = "unused"
        <3>1. PICK s \in Rooms : Claim(s)
            <4>1. ASSUME Outside PROVE FALSE
                <5>1. Settles(t)
                    BY <4>1, OutsideMoves DEF Books, Moves
                <5> QED BY <1>1, <2>2, <5>1 DEF Settles
            <4>2. ASSUME NEW s \in Rooms, Reads(s) PROVE FALSE
                BY <1>1, <2>2, <4>2, ReadsEffect DEF Books, Mild
            <4>3. ASSUME NEW s \in Rooms, Abort(s) \/ AbortFails(s) PROVE FALSE
                BY <1>1, <2>2, <4>3, AbortEffect DEF Books, Interrupts
            <4>4. ASSUME NEW s \in Rooms, NEW plans \in BOOLEAN, Finish(s, plans) PROVE FALSE
                BY <1>1, <2>2, <4>4, FinishEffect DEF Books, Mild, Completes, TurnCurrent
            <4> QED BY <4>1, <4>2, <4>3, <4>4, Steps
        <3>2. PICK u \in Turns, kind \in {"opening", "message", "awake"}, m \in Queued(s) \cup {None} :
                 Claims(s, u, kind, m)
            BY <3>1, ClaimEffect DEF Books
        <3>3. u = t /\ turn'[t].room = s
            BY <1>1, <2>2, <3>2 DEF Claims
        <3>4. room'[s].is = room[s].is /\ room[s].is = "active"
            BY <3>1, ClaimEffect DEF Books, Active
        <3> QED BY <3>3, <3>4
    <2> QED BY <2>1, <2>2
<1>2. ASSUME NEW s \in Rooms, task'[s].pc \in {"calling", "asking"}, task'[s].cut = FALSE
      PROVE  /\ \A c \in task'[s].frames : cap'[c].purpose # "manual" => cap'[c].version = room'[s].source
             /\ task'[s].pc = "asking" => cap'[task'[s].asked].version = room'[s].source
    <2>0. task[s] \in TaskRec
        BY <1>0
    <2>1. /\ task[s].pc \in Early /\ task[s].cut = FALSE /\ task'[s].turn = task[s].turn
        <3>1. ~Claim(s)
            <4>1. ASSUME Claim(s) PROVE task'[s].pc = "claimed"
                <5>1. \E t : task'[s] = [task[s] EXCEPT !.pc = "claimed", !.turn = t]
                    BY <4>1, ClaimEffect DEF Books, Claims
                <5> QED BY <2>0, <5>1 DEF TaskRec
            <4> QED BY <1>2, <4>1
        <3> QED BY <1>2, <3>1, TaskSteps DEF Early
    <2>2. room'[s].source = room[s].source
        <3>1. room[s].is # "absent"
            BY <2>1, UsedTurn DEF Early, Sources
        <3> QED BY <1>2, <2>1, <3>1, RoomSteps DEF RoomStep, Same, Opened, Switched, Ended, Early
    <2>3. CASE Goes(s)
        <3>1. /\ task[s].pc = task'[s].pc /\ task'[s].frames = task[s].frames /\ task'[s].asked = task[s].asked
            BY <1>2, <2>3 DEF Goes
        <3>2. ASSUME NEW c \in task'[s].frames, cap'[c].purpose # "manual"
              PROVE  cap'[c].version = room'[s].source
            <4>1. c \in Captures /\ cap[c].is # "unused"
                BY <2>0, <3>1 DEF Frames, Taken, TaskRec
            <4> QED BY <1>2, <2>1, <2>2, <3>1, <3>2, <4>1, CapsKept DEF Keeps, Sources
        <3>3. ASSUME task'[s].pc = "asking" PROVE cap'[task'[s].asked].version = room'[s].source
            <4>1. task[s].asked \in Captures /\ cap[task[s].asked].is # "unused"
                BY <2>0, <3>1, <3>3 DEF Books, Posts, TaskRec, Frames
            <4> QED BY <1>2, <2>1, <2>2, <3>1, <3>3, <4>1, CapsKept DEF Keeps, Sources
        <3> QED BY <3>2, <3>3
    <2>4. CASE BeginTurn(s)
        <3>1. /\ UNCHANGED <<msg, cap>> /\ task'[s].pc = "calling"
              /\ \A c \in task'[s].frames : c # None /\ turn[task[s].turn].msg # None
                                            /\ msg[turn[task[s].turn].msg].photo = c
            BY <1>0, <2>0, <2>4 DEF BeginTurn, At, tables, TaskRec
        <3>2. turn[task[s].turn].msg \in Messages \cup {None}
            BY <2>4, UsedTurn DEF BeginTurn, At
        <3>3. \A c \in task'[s].frames : cap'[c].purpose = "manual"
            BY <3>1, <3>2 DEF Photos
        <3> QED BY <3>1, <3>3
    <2>5. CASE Answered(s)
        <3>1. /\ task[s].pc = "asking" /\ task'[s].pc = "calling"
              /\ task'[s].frames \subseteq task[s].frames \cup {task[s].asked}
            <4>1. PICK used \in SUBSET {task[s].asked} :
                     task' = [task EXCEPT ![s] = [task[s] EXCEPT !.pc = "calling", !.asked = None,
                                                      !.frames = task[s].frames \cup used]]
                BY <1>0, <2>5 DEF Answered
            <4>2. task[s].pc = "asking"
                BY <2>5 DEF Answered, At
            <4>3. task'[s] = [task[s] EXCEPT !.pc = "calling", !.asked = None,
                                             !.frames = task[s].frames \cup used]
                BY <1>0, <4>1
            <4> QED BY <2>0, <4>2, <4>3 DEF TaskRec
        <3>2. task[s].asked \in Captures /\ cap[task[s].asked].is # "unused"
            BY <2>0, <3>1 DEF Books, Posts, TaskRec, Frames
        <3>3. ASSUME NEW c \in task'[s].frames, cap'[c].purpose # "manual"
              PROVE  cap'[c].version = room'[s].source
            <4>1. c \in Captures /\ cap[c].is # "unused"
                BY <2>0, <3>1, <3>2, <3>3 DEF Frames, Taken, TaskRec
            <4>2. Keeps(c)
                BY <4>1, CapsKept
            <4>3. cap[c].version = room[s].source
                BY <2>1, <3>1, <3>3, <4>2 DEF Sources, Keeps
            <4> QED BY <2>2, <4>2, <4>3 DEF Keeps
        <3> QED BY <3>1, <3>3
    <2>6. ASSUME NEW purpose \in Autonomous, Ask(s, purpose)
          PROVE  /\ \A c \in task'[s].frames : cap'[c].purpose # "manual" => cap'[c].version = room'[s].source
                 /\ cap'[task'[s].asked].version = room'[s].source
        <3>1. CanCapture(s, purpose) /\ cap' = WithCapture(s, purpose) /\ purpose \in Purposes
            BY <2>6 DEF Ask, Purposes, Autonomous
        <3>2. cap'[NextCapture].version = room[s].source
            BY <3>1, NewCapture, TypeParts DEF Books
        <3>3. /\ task[s].pc = "calling"
              /\ task'[s].frames = task[s].frames /\ task'[s].asked = NextCapture
            BY <1>0, <2>0, <2>6 DEF Ask, At, TaskRec
        <3>4. ASSUME NEW c \in task'[s].frames, cap'[c].purpose # "manual"
              PROVE  cap'[c].version = room'[s].source
            <4>1. c \in Captures /\ cap[c].is # "unused"
                BY <2>0, <3>3, <3>4 DEF Frames, Taken, TaskRec
            <4> QED BY <2>1, <2>2, <3>3, <3>4, <4>1, CapsKept DEF Keeps, Sources
        <3> QED BY <2>2, <3>2, <3>3, <3>4
    <2>7. ~Idles(s) /\ ~Claim(s)
        <3>1. ~Idles(s)
            BY <1>2 DEF Idles
        <3>2. ~Claim(s)
            BY <2>1, ClaimEffect DEF Books, Early
        <3> QED BY <3>1, <3>2
    <2> QED BY <2>3, <2>4, <2>5, <2>6, <2>7, FrameSteps DEF TaskStep
<1> QED BY <1>1, <1>2 DEF Sources

(* What the Core says rests on frames of the source in use: a change of    *)
(* the source cuts the task, which then does not finish its turn.          *)
THEOREM FramesAreFresh == Spec => FreshFrames
<1>1. Init => Sources
    BY DEF Init, Sources, NoTask, NoTurn
<1>2. ASSUME Books, Photos, Frames, Sources, [Next]_vars, NEW s \in Rooms, task[s].turn # None,
             turn'[task[s].turn].is = "complete", turn[task[s].turn].is = "running",
             NEW c \in task[s].frames, cap[c].purpose # "manual"
      PROVE  cap[c].version = room'[s].source
    <2>0. /\ task[s] \in TaskRec /\ turn \in [Turns -> TurnRec] /\ task[s].turn \in Turns
        BY <1>2, TypeParts DEF Books, Tables, Memory, TaskRec
    <2>1. PICK t \in Turns : t = task[s].turn /\ turn[t].room = s
        BY <1>2, <2>0 DEF Books, Posts
    <2>2. ASSUME Outside PROVE FALSE
        <3>1. Settles(t)
            BY <1>2, <2>2, OutsideMoves DEF Books, Moves
        <3>2. [turn[t] EXCEPT !.is = "interrupted"].is = "interrupted"
            BY <2>0 DEF TurnRec
        <3> QED BY <1>2, <2>1, <3>1, <3>2 DEF Settles
    <2>3. ASSUME NEW r \in Rooms, Claim(r) PROVE FALSE
        BY <1>2, <2>1, <2>3, ClaimEffect DEF Books, Claims
    <2>4. ASSUME NEW r \in Rooms, Reads(r) PROVE FALSE
        BY <1>2, <2>1, <2>4, ReadsEffect DEF Books, Mild
    <2>5. ASSUME NEW r \in Rooms, Abort(r) \/ AbortFails(r) PROVE FALSE
        <3>1. PICK u \in Turns, m \in Messages \cup {None} : Interrupts(r, u, m)
            BY <1>2, <2>1, <2>5, AbortEffect DEF Books
        <3>2. u = t
            BY <1>2, <2>1, <3>1 DEF Interrupts
        <3>3. PICK text \in {"partial", "none"} : turn'[t] = [turn[t] EXCEPT !.is = "interrupted", !.text = text]
            BY <3>1, <3>2 DEF Interrupts
        <3>4. turn'[t].is = "interrupted"
            BY <2>0, <3>3 DEF TurnRec
        <3> QED BY <1>2, <2>1, <3>4
    <2>6. ASSUME NEW r \in Rooms, NEW plans \in BOOLEAN, Finish(r, plans)
          PROVE  cap[c].version = room'[s].source
        <3>1. ~Mild(r)
            BY <1>2, <2>1 DEF Mild
        <3>2. PICK u \in Turns, m \in Messages \cup {None} : Completes(r, u, m)
            BY <1>2, <2>6, <3>1, FinishEffect DEF Books
        <3>3. u = t /\ u = task[r].turn /\ task[r].pc = "calling" /\ task[r].cut = FALSE
            <4>1. task[r].cut \in BOOLEAN
                BY <1>2, TypeParts DEF Books, Memory, TaskRec
            <4> QED BY <1>2, <2>1, <3>2, <4>1 DEF Completes
        <3>4. r = s
            BY <1>2, <2>1, <3>3, Numbers DEF Books, Posts
        <3>5. room'[s].source = room[s].source
            BY <1>2, <2>6, <3>1, FinishEffect DEF Books
        <3> QED BY <1>2, <3>3, <3>4, <3>5 DEF Sources
    <2> QED BY <1>2, <2>2, <2>3, <2>4, <2>5, <2>6, Steps
<1>3. Books /\ Photos /\ Frames /\ Sources /\ [Next]_vars
      => [\A s \in Rooms :
            task[s].turn # None /\ turn'[task[s].turn].is = "complete"
              /\ turn[task[s].turn].is = "running"
            => \A c \in task[s].frames :
                 cap[c].purpose # "manual" => cap[c].version = room'[s].source]_vars
    BY <1>2
<1>4. Books /\ Photos /\ Frames /\ Sources /\ [Next]_vars => Photos' /\ Frames' /\ Sources'
    BY PhotosKept, FramesKept, SourcesKept
<1> QED BY <1>1, <1>3, <1>4, FramesStart, BooksHold, PTL DEF Spec, FreshFrames

-----------------------------------------------------------------------------
(* Together implements TogetherContract *)

Course == [s \in Rooms |-> room[s].is]
Said == [t \in Turns |-> [is |-> turn[t].is, room |-> turn[t].room,
                          msg |-> turn[t].msg, text |-> turn[t].text]]
Post == [m \in Messages |-> [is |-> msg[m].is, room |-> msg[m].room]]
Promised == Contract!Next \/ UNCHANGED Contract!vars

(* A turn runs only in an active room: the end of a room settles its turn. *)
TurnsInActive == \A t \in Turns : turn[t].is = "running" => Active(turn[t].room)

LEMMA RanBefore ==
    ASSUME Books, [Next]_vars, NEW t \in Turns, turn[t].is # "unused", turn'[t].is = "running"
    PROVE  turn[t].is = "running"
<1> USE DEF Books
<1>0. turn \in [Turns -> TurnRec]
    BY TypeParts DEF Tables
<1>1. CASE Outside
    BY <1>0, <1>1, OutsideMoves DEF Moves, Settles, TurnRec
<1>2. ASSUME NEW s \in Rooms, Claim(s) PROVE turn[t].is = "running" \/ turn[t].is = "unused"
    BY <1>2, ClaimEffect DEF Claims
<1>3. ASSUME NEW s \in Rooms, Reads(s) PROVE turn'[t] = turn[t]
    BY <1>3, ReadsEffect DEF Mild
<1>4. ASSUME NEW s \in Rooms, Abort(s) \/ AbortFails(s) PROVE turn'[t] = turn[t]
    BY <1>0, <1>4, AbortEffect DEF Interrupts, TurnRec
<1>5. ASSUME NEW s \in Rooms, NEW plans \in BOOLEAN, Finish(s, plans) PROVE turn'[t] = turn[t]
    <2>1. ASSUME NEW u \in Turns, NEW m \in Messages \cup {None}, Completes(s, u, m)
          PROVE  turn'[t] = turn[t]
        <3>1. t # u
            <4> SUFFICES ASSUME t = u PROVE FALSE
                OBVIOUS
            <4>1. turn[t] \in TurnRec /\ turn'[t] = [turn[t] EXCEPT !.is = "complete", !.text = "full"]
                BY <1>0, <2>1 DEF Completes
            <4>2. turn'[t].is = "complete"
                BY <4>1 DEF TurnRec
            <4> QED BY <4>2
        <3> QED BY <2>1, <3>1 DEF Completes
    <2>2. CASE Mild(s)
        BY <2>2 DEF Mild
    <2> QED BY <1>5, <2>1, <2>2, FinishEffect
<1> QED BY <1>1, <1>2, <1>3, <1>4, <1>5, Steps

LEMMA ActiveKept ==
    ASSUME Books, TurnsInActive, [Next]_vars
    PROVE  TurnsInActive'
<1> USE DEF Books
<1>0. /\ room \in [Rooms -> RoomRec] /\ turn \in [Turns -> TurnRec]
    BY TypeParts DEF Tables
<1> SUFFICES ASSUME NEW t \in Turns, turn'[t].is = "running" PROVE room'[turn'[t].room].is = "active"
    BY DEF TurnsInActive, Active
<1>1. CASE turn[t].is = "unused"
    <2>1. ASSUME NEW s \in Rooms, Claim(s) PROVE room'[turn'[t].room].is = "active"
        <3>1. PICK u \in Turns, kind \in {"opening", "message", "awake"}, m \in Queued(s) \cup {None} :
                 Claims(s, u, kind, m)
            BY <2>1, ClaimEffect
        <3>2. t = u /\ turn'[t].room = s
            BY <1>1, <3>1 DEF Claims
        <3> QED BY <2>1, <3>2, ClaimEffect DEF Active
    <2>2. CASE Outside
        <3>1. Settles(t)
            BY <2>2, OutsideMoves DEF Moves
        <3> QED BY <1>0, <1>1, <3>1 DEF Settles, TurnRec
    <2>3. ASSUME NEW s \in Rooms, Reads(s) PROVE FALSE
        BY <1>1, <2>3, ReadsEffect DEF Mild
    <2>4. ASSUME NEW s \in Rooms, Abort(s) \/ AbortFails(s) PROVE FALSE
        BY <1>0, <1>1, <2>4, AbortEffect DEF Interrupts, TurnRec
    <2>5. ASSUME NEW s \in Rooms, NEW plans \in BOOLEAN, Finish(s, plans) PROVE FALSE
        BY <1>0, <1>1, <2>5, FinishEffect DEF Mild, Completes, TurnCurrent
    <2> QED BY <2>1, <2>2, <2>3, <2>4, <2>5, Steps
<1>2. CASE turn[t].is # "unused"
    <2>1. turn'[t].room = turn[t].room /\ turn[t].room \in Rooms
        BY <1>2, TurnSteps DEF Posts
    <2>2. turn[t].is = "running"
        BY <1>2, RanBefore
    <2>3. room[turn[t].room].is = "active"
        BY <2>2 DEF TurnsInActive, Active
    <2>4. ~Ended(turn[t].room)
        BY <2>1 DEF Ended
    <2> QED BY <2>1, <2>3, <2>4, RoomSteps DEF RoomStep, Same, Opened, Switched
<1> QED BY <1>1, <1>2

LEMMA StillAsPromised ==
    ASSUME Books, \A r \in Rooms : room'[r].is = room[r].is, UNCHANGED <<turn, msg, ordinary>>
    PROVE  UNCHANGED Contract!vars
<1>1. Course' = Course /\ Said' = Said /\ Post' = Post
    BY DEF Course, Said, Post
<1>2. (ordinary # "idle")' = (ordinary # "idle")
    OBVIOUS
<1> QED BY <1>1, <1>2 DEF Contract!vars, Course, Said, Post

LEMMA StartPromised ==
    ASSUME Books, Gate, NEW s \in Rooms, NEW wait \in BOOLEAN, Start(s, wait)
    PROVE  Contract!Open(s)
<1>0. room \in [Rooms -> RoomRec]
    BY TypeParts DEF Books, Tables
<1>1. /\ room' = [room EXCEPT ![s] = [NoRoom EXCEPT !.is = "active", !.opening = TRUE,
                                                    !.online = ~wait, !.expired = wait]]
      /\ room[s].is = "absent" /\ ~reserved /\ ~AnyActive
      /\ UNCHANGED <<turn, msg, ordinary>>
    BY DEF Start, chat
<1>2. ordinary = "idle" /\ ordinary' = "idle"
    BY <1>1 DEF Gate
<1>3. \A r \in Rooms : room'[r].is = IF r = s THEN "active" ELSE room[r].is
    BY <1>0, <1>1 DEF NoRoom
<1>4. Course' = [Course EXCEPT ![s] = "active"]
    BY <1>3 DEF Course
<1>5. Said' = Said /\ Post' = Post /\ Course[s] = "absent"
    BY <1>1 DEF Said, Post, Course
<1>6. \A r \in Rooms : Course[r] # "active"
    BY <1>1 DEF Course, AnyActive, Active
<1> QED BY <1>2, <1>4, <1>5, <1>6 DEF Contract!Open, Contract!Unoccupied, Course, Said, Post

LEMMA EndPromised ==
    ASSUME Books, NEW s \in Rooms, End(s)
    PROVE  Contract!End(s)
<1>0. room \in [Rooms -> RoomRec] /\ turn \in [Turns -> TurnRec]
    BY TypeParts DEF Books, Tables
<1>1. /\ room[s].is = "active"
      /\ \A r \in Rooms : room'[r].is = IF r = s THEN "ended" ELSE room[r].is
    BY <1>0 DEF End, Active, RoomRec
<1>2. /\ turn' = [t \in Turns |-> IF turn[t].room = s /\ turn[t].is = "running"
                                  THEN [turn[t] EXCEPT !.is = "interrupted"] ELSE turn[t]]
      /\ UNCHANGED <<msg, ordinary>>
    BY DEF End, chat
<1>3. Course[s] = "active" /\ Course' = [Course EXCEPT ![s] = "ended"]
    BY <1>1 DEF Course
<1>4. Said' = Contract!Interrupted({t \in Turns : Said[t].room = s})
    <2>1. \A t \in Turns :
             /\ Said[t].room = turn[t].room /\ Said[t].is = turn[t].is
             /\ Said'[t] = IF turn[t].room = s /\ turn[t].is = "running"
                           THEN [Said[t] EXCEPT !.is = "interrupted"] ELSE Said[t]
        <3>1. \A t \in Turns : Said'[t] = [is |-> turn'[t].is, room |-> turn'[t].room,
                                           msg |-> turn'[t].msg, text |-> turn'[t].text]
            BY DEF Said
        <3> QED BY <1>0, <1>2, <3>1 DEF Said, TurnRec
    <2> QED BY <2>1 DEF Contract!Interrupted, Contract!Speaks, Said
<1>5. Post' = Post /\ (ordinary # "idle")' = (ordinary # "idle")
    BY <1>2 DEF Post
<1> QED BY <1>3, <1>4, <1>5 DEF Contract!End, Course, Said, Post

LEMMA MessagePromised ==
    ASSUME Books, NEW s \in Rooms, NEW photo \in Captures \cup {None}, Message(s, photo)
    PROVE  Promised
<1>0. /\ room \in [Rooms -> RoomRec] /\ msg \in [Messages -> MsgRec]
      /\ Messages \subseteq Nat
    BY TypeParts, Numbers DEF Books, Tables
<1> DEFINE unsent == {m \in Messages : msg[m].is = "unsent"}
           n == Earliest(unsent)
<1>2. /\ unsent # {} /\ room[s].is = "active"
      /\ msg' = [msg EXCEPT ![n] = [is |-> "queued", room |-> s, photo |-> photo, turn |-> None]]
      /\ room' = [room EXCEPT ![s].wake = "none"]
      /\ UNCHANGED <<turn, ordinary>>
    BY DEF Message, chat, Active
<1>3. n \in unsent /\ \A m \in unsent : n <= m
    <2>1. unsent \in SUBSET Nat
        BY <1>0
    <2> HIDE DEF unsent
    <2> QED BY <1>2, <2>1, EarliestIsFirst
<1>4. n \in Messages /\ msg[n].is = "unsent" /\ \A m \in Messages : m < n => msg[m].is # "unsent"
    <2> HIDE DEF n
    <2>1. n \in Messages /\ msg[n].is = "unsent"
        BY <1>3
    <2>2. ASSUME NEW m \in Messages, m < n PROVE msg[m].is # "unsent"
        <3>1. m \in Nat /\ n \in Nat /\ ~(n <= m)
            BY <1>0, <2>1, <2>2
        <3> QED BY <1>3, <3>1
    <2> QED BY <2>1, <2>2
<1> HIDE DEF n
<1>5. \A r \in Rooms : room'[r].is = room[r].is
    BY <1>0, <1>2 DEF RoomRec
<1>6. Post' = [Post EXCEPT ![n] = [is |-> "queued", room |-> s]]
    <2>1. \A m \in Messages : msg'[m] = IF m = n THEN [is |-> "queued", room |-> s, photo |-> photo, turn |-> None]
                                        ELSE msg[m]
        BY <1>0, <1>2, <1>4
    <2>2. \A m \in Messages : Post'[m] = IF m = n THEN [is |-> "queued", room |-> s] ELSE Post[m]
        BY <2>1 DEF Post
    <2> QED BY <1>4, <2>2 DEF Post
<1>7. Course' = Course /\ Said' = Said /\ (ordinary # "idle")' = (ordinary # "idle")
    BY <1>2, <1>5 DEF Course, Said
<1>8. Course[s] = "active" /\ \A m \in Messages : Post[m].is = msg[m].is
    BY <1>2 DEF Course, Post
<1>9. Contract!Send(s, n)
    BY <1>4, <1>6, <1>7, <1>8 DEF Contract!Send, Course, Said, Post
<1> QED BY <1>4, <1>9 DEF Promised, Contract!Next, Contract!Send

LEMMA RetryPromised ==
    ASSUME Books, NEW m \in Messages, RetryMessage(m)
    PROVE  Contract!Retry(m)
<1>0. msg \in [Messages -> MsgRec]
    BY TypeParts DEF Books, Tables
<1>1. /\ msg[m].is = "failed" /\ room[msg[m].room].is = "active" /\ msg[m].room \in Rooms
      /\ msg' = [msg EXCEPT ![m] = [msg[m] EXCEPT !.is = "queued"]]
      /\ UNCHANGED <<room, turn, ordinary>>
    <2>1. msg' = [msg EXCEPT ![m].is = "queued"]
        BY DEF RetryMessage
    <2> QED BY <1>0, <2>1 DEF RetryMessage, Active, chat, Books, Posts
<1>2. Post' = [Post EXCEPT ![m].is = "queued"]
    <2>1. \A n \in Messages : msg'[n] = IF n = m THEN [msg[m] EXCEPT !.is = "queued"] ELSE msg[n]
        BY <1>0, <1>1
    <2>2. \A n \in Messages : /\ msg'[n].is = IF n = m THEN "queued" ELSE msg[n].is
                              /\ msg'[n].room = msg[n].room
        BY <1>0, <2>1 DEF MsgRec
    <2>3. \A n \in Messages : Post'[n] = IF n = m THEN [Post[n] EXCEPT !.is = "queued"] ELSE Post[n]
        BY <2>2 DEF Post
    <2> QED BY <2>3 DEF Post
<1>3. Course' = Course /\ Said' = Said /\ (ordinary # "idle")' = (ordinary # "idle")
    BY <1>1 DEF Course, Said
<1>4. Post[m].is = "failed" /\ Course[Post[m].room] = "active"
    BY <1>1 DEF Course, Post
<1> QED BY <1>2, <1>3, <1>4 DEF Contract!Retry, Course, Said, Post

LEMMA RecoverPromised ==
    ASSUME Books, Recover
    PROVE  Contract!Recover
<1>0. room \in [Rooms -> RoomRec] /\ turn \in [Turns -> TurnRec] /\ msg \in [Messages -> MsgRec]
    BY TypeParts DEF Books, Tables
<1>1. /\ msg' = [m \in Messages |-> IF msg[m].is = "running" THEN [msg[m] EXCEPT !.is = "failed"]
                                    ELSE msg[m]]
      /\ turn' = [t \in Turns |-> IF turn[t].is = "running"
                                  THEN [turn[t] EXCEPT !.is = "interrupted"] ELSE turn[t]]
      /\ UNCHANGED ordinary
    BY DEF Recover, chat
<1>2. Course' = Course
    <2>1. \A s \in Rooms : room'[s].is = room[s].is
        BY <1>0 DEF Recover, RoomRec
    <2> QED BY <2>1 DEF Course
<1>3. Said' = Contract!Interrupted(Turns)
    <2>1. \A t \in Turns : Said'[t] = [is |-> turn'[t].is, room |-> turn'[t].room,
                                       msg |-> turn'[t].msg, text |-> turn'[t].text]
        BY DEF Said
    <2>2. \A t \in Turns :
             /\ Said[t].is = turn[t].is
             /\ Said'[t] = IF turn[t].is = "running" THEN [Said[t] EXCEPT !.is = "interrupted"] ELSE Said[t]
        BY <1>0, <1>1, <2>1 DEF Said, TurnRec
    <2> QED BY <2>2 DEF Contract!Interrupted, Contract!Speaks, Said
<1>4. Post' = [m \in Messages |-> IF Post[m].is = "running" THEN [Post[m] EXCEPT !.is = "failed"] ELSE Post[m]]
    <2>1. \A m \in Messages : Post'[m] = [is |-> msg'[m].is, room |-> msg'[m].room]
        BY DEF Post
    <2>2. \A m \in Messages :
             /\ Post[m].is = msg[m].is
             /\ Post'[m] = IF msg[m].is = "running" THEN [Post[m] EXCEPT !.is = "failed"] ELSE Post[m]
        BY <1>0, <1>1, <2>1 DEF Post, MsgRec
    <2> QED BY <2>2 DEF Post
<1>5. (ordinary # "idle")' = (ordinary # "idle")
    BY <1>1
<1> QED BY <1>2, <1>3, <1>4, <1>5 DEF Contract!Recover, Course, Said, Post

LEMMA ChatPromised ==
    ASSUME Books, Chat \/ Restart
    PROVE  Promised
<1>1. UNCHANGED <<room, turn, msg>>
    BY DEF Chat, OrdinaryBegins, HandlerReturns, GenerationEnds, Restart, tables
<1>2. Course' = Course /\ Said' = Said /\ Post' = Post
    BY <1>1 DEF Course, Said, Post
<1>3. \/ ordinary' = ordinary
      \/ ordinary # "idle" /\ ordinary' # "idle"
      \/ ordinary # "idle" /\ ordinary' = "idle"
      \/ ordinary = "idle" /\ ordinary' = "handling" /\ ~AnyActive
    <2>1. ASSUME NEW bound \in BOOLEAN, HandlerReturns(bound)
          PROVE  ordinary # "idle"
        BY <2>1 DEF HandlerReturns
    <2> QED BY <2>1 DEF Chat, OrdinaryBegins, GenerationEnds, Restart
<1>4. CASE \/ ordinary' = ordinary
           \/ ordinary # "idle" /\ ordinary' # "idle"
    <2>1. (ordinary # "idle")' = (ordinary # "idle")
        BY <1>4
    <2> QED BY <1>2, <2>1 DEF Promised, Contract!vars, Course, Said, Post
<1>5. CASE ordinary # "idle" /\ ordinary' = "idle"
    <2>1. Contract!ChatEnds
        BY <1>2, <1>5 DEF Contract!ChatEnds, Course, Said, Post
    <2> QED BY <2>1 DEF Promised, Contract!Next
<1>6. CASE ordinary = "idle" /\ ordinary' = "handling" /\ ~AnyActive
    <2>1. \A r \in Rooms : Course[r] # "active"
        BY <1>6 DEF Course, AnyActive, Active
    <2>2. Contract!ChatBegins
        BY <1>2, <1>6, <2>1 DEF Contract!ChatBegins, Contract!Unoccupied, Course, Said, Post
    <2> QED BY <2>2 DEF Promised, Contract!Next
<1> QED BY <1>3, <1>4, <1>5, <1>6

LEMMA ClaimPromised ==
    ASSUME Books, NEW s \in Rooms, Claim(s)
    PROVE  Promised
<1>0. /\ room \in [Rooms -> RoomRec] /\ turn \in [Turns -> TurnRec] /\ msg \in [Messages -> MsgRec]
      /\ Messages \subseteq Nat /\ None \notin Messages
    BY TypeParts, Numbers DEF Books, Tables
<1>1. PICK m : m = IF Queued(s) = {} THEN None ELSE Earliest(Queued(s))
    OBVIOUS
<1>2. PICK t \in Turns :
         /\ turn[t].is = "unused"
         /\ \E kind : turn' = [turn EXCEPT ![t] = [is |-> "running", room |-> s, kind |-> kind,
                                                   gen |-> room[s].gen, msg |-> m, text |-> "none"]]
         /\ msg' = IF m = None THEN msg ELSE [msg EXCEPT ![m].is = "running", ![m].turn = t]
    BY <1>1 DEF Claim
<1>3. /\ room' = [room EXCEPT ![s].opening = FALSE, ![s].wake = "none"]
      /\ room[s].is = "active" /\ ~TurnIsRunning(s) /\ UNCHANGED ordinary
    BY DEF Claim, Claimable, Active, Service, chat
<1>4. \A r \in Rooms : room'[r].is = room[r].is
    BY <1>0, <1>3 DEF RoomRec
<1>5. \/ m = None /\ Queued(s) = {}
      \/ m \in Queued(s) /\ \A n \in Queued(s) : m <= n
    <2>1. Queued(s) \in SUBSET Nat
        BY <1>0 DEF Queued
    <2> QED BY <1>1, <2>1, EarliestIsFirst
<1>6. Contract!Waiting(s) = Queued(s)
    BY DEF Contract!Waiting, Queued
<1>7. Said' = [Said EXCEPT ![t] = [is |-> "running", room |-> s, msg |-> m, text |-> "none"]]
    <2>1. PICK kind : turn' = [turn EXCEPT ![t] = [is |-> "running", room |-> s, kind |-> kind,
                                                   gen |-> room[s].gen, msg |-> m, text |-> "none"]]
        BY <1>2
    <2>2. \A u \in Turns : turn'[u] = IF u = t THEN [is |-> "running", room |-> s, kind |-> kind,
                                                   gen |-> room[s].gen, msg |-> m, text |-> "none"]
                                      ELSE turn[u]
        BY <1>0, <2>1
    <2>3. \A u \in Turns : Said'[u] = IF u = t THEN [is |-> "running", room |-> s, msg |-> m, text |-> "none"]
                                      ELSE Said[u]
        BY <2>2 DEF Said
    <2> QED BY <2>3 DEF Said
<1>8. Course' = Course /\ (ordinary # "idle")' = (ordinary # "idle")
    BY <1>3, <1>4 DEF Course
<1>9. Course[s] = "active" /\ Said[t].is = "unused"
    BY <1>2, <1>3 DEF Course, Said
<1>10. \A u \in Turns : Said[u].is = "running" => Said[u].room # s
    BY <1>3 DEF Said, TurnIsRunning
<1>11. CASE m = None /\ Queued(s) = {}
    <2>1. Post' = Post
        BY <1>2, <1>11 DEF Post
    <2>2. Contract!TakeTurn(s, t, m)
        BY <1>6, <1>7, <1>8, <1>9, <1>10, <1>11, <2>1
        DEF Contract!TakeTurn, Contract!Speaks, Course, Said, Post
    <2>3. m \in Messages \cup {None}
        BY <1>11
    <2> QED BY <2>2, <2>3 DEF Promised, Contract!Next, Contract!TakeTurn
<1>12. CASE m \in Queued(s) /\ \A n \in Queued(s) : m <= n
    <2>0. m \in Messages
        BY <1>12 DEF Queued
    <2>1. Post' = [Post EXCEPT ![m].is = "running"]
        <3>1. msg' = [msg EXCEPT ![m] = [msg[m] EXCEPT !.is = "running", !.turn = t]]
            BY <1>0, <1>2, <2>0
        <3>2. \A n \in Messages : msg'[n] = IF n = m THEN [msg[m] EXCEPT !.is = "running", !.turn = t]
                                            ELSE msg[n]
            BY <1>0, <2>0, <3>1
        <3>3. \A n \in Messages : /\ msg'[n].is = IF n = m THEN "running" ELSE msg[n].is
                                  /\ msg'[n].room = msg[n].room
            <4>1. msg[m] \in MsgRec
                BY <1>0, <2>0
            <4>2. msg'[m].is = "running" /\ msg'[m].room = msg[m].room
                BY <2>0, <3>2, <4>1 DEF MsgRec
            <4> QED BY <3>2, <4>2
        <3>4. \A n \in Messages : Post'[n] = IF n = m THEN [Post[n] EXCEPT !.is = "running"] ELSE Post[n]
            BY <3>3 DEF Post
        <3> QED BY <3>4 DEF Post
    <2>2. Contract!TakeTurn(s, t, m)
        BY <1>6, <1>7, <1>8, <1>9, <1>10, <1>12, <2>1
        DEF Contract!TakeTurn, Contract!Speaks, Course, Said, Post
    <2> QED BY <1>2, <2>0, <2>2 DEF Promised, Contract!Next, Contract!TakeTurn
<1> QED BY <1>5, <1>11, <1>12

(* What a turn answered is settled with it, whichever way.                 *)
LEMMA SettledPost ==
    ASSUME Books, NEW m \in Messages \cup {None},
           NEW is \in {"complete", "queued", "failed"},
           m = None => msg' = msg,
           m # None => msg'[m] = [msg[m] EXCEPT !.is = is],
           \A n \in Messages \ {m} : msg'[n] = msg[n]
    PROVE  Post' = IF m = None THEN Post ELSE [Post EXCEPT ![m].is = is]
<1>0. msg \in [Messages -> MsgRec]
    BY TypeParts DEF Books, Tables
<1>1. CASE m = None
    BY <1>1 DEF Post
<1>2. CASE m # None
    <2>1. \A n \in Messages : msg'[n] = IF n = m THEN [msg[m] EXCEPT !.is = is] ELSE msg[n]
        BY <1>2
    <2>2. \A n \in Messages : /\ msg'[n].is = IF n = m THEN is ELSE msg[n].is
                              /\ msg'[n].room = msg[n].room
        BY <1>0, <2>1 DEF MsgRec
    <2>3. \A n \in Messages : Post'[n] = IF n = m THEN [Post[n] EXCEPT !.is = is] ELSE Post[n]
        BY <2>2 DEF Post
    <2>4. /\ Post = [n \in Messages |-> Post[n]]
          /\ Post' = [n \in Messages |-> Post'[n]]
        BY DEF Post
    <2>5. Post' = [Post EXCEPT ![m].is = is]
        BY <2>3, <2>4
    <2> QED BY <1>2, <2>5
<1> QED BY <1>1, <1>2

LEMMA FinishPromised ==
    ASSUME Books, NEW s \in Rooms, NEW plans \in BOOLEAN, Finish(s, plans)
    PROVE  Promised
<1>0. turn \in [Turns -> TurnRec] /\ task[s] \in TaskRec
    BY TypeParts DEF Books, Tables, Memory
<1>1. CASE Mild(s)
    BY <1>1, StillAsPromised DEF Promised, Mild, Others
<1>2. ASSUME NEW t \in Turns, NEW m \in Messages \cup {None}, Completes(s, t, m),
             Others(s), \A r \in Rooms : room'[r].is = room[r].is
      PROVE  Promised
    <2>1. /\ m = turn[t].msg /\ turn[t].is = "running" /\ room[turn[t].room].is = "active"
          /\ turn'[t] = [turn[t] EXCEPT !.is = "complete", !.text = "full"]
          /\ \A u \in Turns \ {t} : turn'[u] = turn[u]
        BY <1>2 DEF Completes, TurnCurrent, Active
    <2>2. Post' = IF m = None THEN Post ELSE [Post EXCEPT ![m].is = "complete"]
        BY <1>2, SettledPost DEF Completes
    <2>3. Said' = [Said EXCEPT ![t].is = "complete", ![t].text = "full"]
        <3>1. \A u \in Turns : /\ turn'[u].is = IF u = t THEN "complete" ELSE turn[u].is
                               /\ turn'[u].text = IF u = t THEN "full" ELSE turn[u].text
                               /\ turn'[u].room = turn[u].room /\ turn'[u].msg = turn[u].msg
            <4>1. turn[t] \in TurnRec
                BY <1>0
            <4>2. /\ turn'[t].is = "complete" /\ turn'[t].text = "full"
                  /\ turn'[t].room = turn[t].room /\ turn'[t].msg = turn[t].msg
                BY <2>1, <4>1 DEF TurnRec
            <4> QED BY <2>1, <4>2
        <3>2. \A u \in Turns : Said'[u] = IF u = t THEN [Said[u] EXCEPT !.is = "complete", !.text = "full"]
                                          ELSE Said[u]
            BY <3>1 DEF Said
        <3> QED BY <3>2 DEF Said
    <2>4. Course' = Course /\ (ordinary # "idle")' = (ordinary # "idle")
        BY <1>2 DEF Course, Others
    <2>5. turn[t].room \in Rooms
        BY <2>1 DEF Books, Posts
    <2>6. Said[t].is = "running" /\ Said[t].msg = m /\ Course[Said[t].room] = "active"
        BY <2>1, <2>5 DEF Said, Course
    <2>7. Contract!Complete(t)
        BY <2>2, <2>3, <2>4, <2>6 DEF Contract!Complete, Contract!Speaks, Contract!Settle, Course, Said, Post
    <2> QED BY <2>7 DEF Promised, Contract!Next
<1> QED BY <1>1, <1>2, FinishEffect DEF Books

LEMMA AbortPromised ==
    ASSUME Books, TurnsInActive, NEW s \in Rooms, Abort(s) \/ AbortFails(s)
    PROVE  Promised
<1>0. turn \in [Turns -> TurnRec] /\ room' = room /\ Others(s)
    BY TypeParts, AbortEffect DEF Books, Tables
<1>1. CASE UNCHANGED <<turn, msg>>
    BY <1>0, <1>1, StillAsPromised DEF Promised, Others
<1>2. ASSUME NEW t \in Turns, NEW m \in Messages \cup {None}, Interrupts(s, t, m)
      PROVE  Promised
    <2>0. turn[t].is = "running" /\ turn[t].room = s /\ room[s].is = "active" /\ m = turn[t].msg
        <3>1. t = task[s].turn /\ t # None /\ turn[t].is = "running" /\ m = turn[t].msg
            BY <1>2, Numbers DEF Interrupts
        <3>2. turn[t].room = s
            BY <3>1 DEF Books, Posts
        <3>3. Active(turn[t].room)
            BY <3>1 DEF TurnsInActive
        <3> QED BY <3>1, <3>2, <3>3 DEF Active
    <2>1. /\ turn'[t] = [turn[t] EXCEPT !.is = "interrupted", !.text = "partial"]
          /\ \A u \in Turns \ {t} : turn'[u] = turn[u]
        BY <1>2, <2>0 DEF Interrupts, Active
    <2>2. PICK is \in {"queued", "failed"} :
             Post' = IF m = None THEN Post ELSE [Post EXCEPT ![m].is = is]
        <3>1. CASE m = None
            BY <1>2, <3>1, SettledPost DEF Interrupts
        <3>2. CASE m # None
            <4>1. PICK is \in {"queued", "failed"} : msg'[m] = [msg[m] EXCEPT !.is = is]
                BY <1>2, <2>0, <3>2 DEF Interrupts, Active
            <4>2. is \in {"complete", "queued", "failed"} /\ \A n \in Messages \ {m} : msg'[n] = msg[n]
                BY <1>2 DEF Interrupts
            <4>3. Post' = IF m = None THEN Post ELSE [Post EXCEPT ![m].is = is]
                BY <3>2, <4>1, <4>2, SettledPost
            <4> QED BY <4>3
        <3> QED BY <3>1, <3>2
    <2>3. Said' = [Said EXCEPT ![t].is = "interrupted", ![t].text = "partial"]
        <3>1. \A u \in Turns : /\ turn'[u].is = IF u = t THEN "interrupted" ELSE turn[u].is
                               /\ turn'[u].text = IF u = t THEN "partial" ELSE turn[u].text
                               /\ turn'[u].room = turn[u].room /\ turn'[u].msg = turn[u].msg
            <4>1. turn[t] \in TurnRec
                BY <1>0
            <4>2. /\ turn'[t].is = "interrupted" /\ turn'[t].text = "partial"
                  /\ turn'[t].room = turn[t].room /\ turn'[t].msg = turn[t].msg
                BY <2>1, <4>1 DEF TurnRec
            <4> QED BY <2>1, <4>2
        <3>2. \A u \in Turns : Said'[u] = IF u = t THEN [Said[u] EXCEPT !.is = "interrupted", !.text = "partial"]
                                          ELSE Said[u]
            BY <3>1 DEF Said
        <3> QED BY <3>2 DEF Said
    <2>4. Course' = Course /\ (ordinary # "idle")' = (ordinary # "idle")
        BY <1>0 DEF Course, Others
    <2>6. Said[t].is = "running" /\ Said[t].msg = m /\ Course[Said[t].room] = "active"
        BY <2>0 DEF Said, Course
    <2>7. Contract!BreakOff(t)
        BY <2>2, <2>3, <2>4, <2>6 DEF Contract!BreakOff, Contract!Speaks, Contract!Settle, Course, Said, Post
    <2> QED BY <2>7 DEF Promised, Contract!Next
<1> QED BY <1>1, <1>2, AbortEffect DEF Books

LEMMA OutsidePromised ==
    ASSUME Books, Gate, Outside, [Next]_vars
    PROVE  Promised
<1>0. room \in [Rooms -> RoomRec] /\ turn \in [Turns -> TurnRec]
    BY TypeParts DEF Books, Tables
<1>1. ASSUME NEW s \in Rooms, NEW wait \in BOOLEAN, Start(s, wait) PROVE Promised
    <2>1. Contract!Open(s)
        BY <1>1, StartPromised
    <2> QED BY <2>1 DEF Promised, Contract!Next, Contract!Open
<1>2. ASSUME NEW s \in Rooms, End(s) PROVE Promised
    <2>1. Contract!End(s)
        BY <1>2, EndPromised
    <2> QED BY <2>1 DEF Promised, Contract!Next, Contract!End
<1>3. ASSUME NEW m \in Messages, RetryMessage(m) PROVE Promised
    <2>1. Contract!Retry(m)
        BY <1>3, RetryPromised
    <2> QED BY <2>1 DEF Promised, Contract!Next, Contract!Retry
<1>4. CASE Recover
    BY <1>4, RecoverPromised DEF Promised, Contract!Next
<1>5. CASE \/ Ticking \/ Time \/ Close \/ UNCHANGED vars
           \/ \E s \in Rooms : \/ \E report \in Reports : Heartbeat(s, report)
                               \/ ChangeSource(s) \/ RetryOpening(s) \/ RequestPhoto(s)
           \/ \E on \in BOOLEAN : Configure(on)
           \/ \E c \in Captures, error \in BOOLEAN : ReceiveCapture(c, error)
    <2>1. UNCHANGED <<turn, msg, ordinary>>
        BY <1>5 DEF Ticking, Time, Close, vars, tables, chat, Service, Heartbeat, ChangeSource,
            RetryOpening, Configure, RequestPhoto, ReceiveCapture, Sweep, TickKicks, TickExpires,
            TickCuts, LeaseEnds, WakeFallsDue, CaptureAges
    <2>2. CASE \E r \in Rooms : Opened(r) \/ Ended(r)
        BY <1>1, <1>2, <2>2 DEF Opened, Ended
    <2>3. CASE ~ \E r \in Rooms : Opened(r) \/ Ended(r)
        <3>1. \A r \in Rooms : room'[r].is = room[r].is
            BY <2>3, RoomSteps DEF RoomStep, Same, Switched
        <3> QED BY <2>1, <3>1, StillAsPromised DEF Promised
    <2> QED BY <2>2, <2>3
<1> QED BY <1>1, <1>2, <1>3, <1>4, <1>5, MessagePromised, ChatPromised DEF Outside, Requests, Life

(* Every step of Together, whatever it is about, is a step of the          *)
(* conversation that TogetherContract allows, or none of it.               *)
THEOREM Refinement == Spec => Implements
<1>1. Init => Contract!Init
    <2> SUFFICES ASSUME Init PROVE Contract!Init
        OBVIOUS
    <2>1. Course = [s \in Rooms |-> "absent"] /\ Said = [t \in Turns |-> Contract!Silence]
          /\ Post = [m \in Messages |-> Contract!Blank]
        BY DEF Init, Course, Said, Post, NoRoom, NoTurn, NoMessage, Contract!Silence, Contract!Blank
    <2>2. (ordinary # "idle") = FALSE
        BY DEF Init
    <2> QED BY <2>1, <2>2 DEF Contract!Init, Course, Said, Post
<1>2. Init => Gate /\ TurnsInActive
    BY DEF Init, Gate, TurnsInActive, NoTurn
<1>3. Books /\ Gate /\ TurnsInActive /\ [Next]_vars => Gate' /\ TurnsInActive'
    BY GateKept, ActiveKept
<1>4. Books /\ Gate /\ TurnsInActive /\ [Next]_vars => [Contract!Next]_(Contract!vars)
    <2> SUFFICES ASSUME Books, Gate, TurnsInActive, [Next]_vars PROVE Promised
        BY DEF Promised
    <2>1. CASE Outside
        BY <2>1, OutsidePromised
    <2>2. ASSUME NEW s \in Rooms, Claim(s) PROVE Promised
        BY <2>2, ClaimPromised
    <2>3. ASSUME NEW s \in Rooms, Reads(s) PROVE Promised
        BY <2>3, ReadsEffect, StillAsPromised DEF Promised, Mild, Others, Books
    <2>4. ASSUME NEW s \in Rooms, Abort(s) \/ AbortFails(s) PROVE Promised
        BY <2>4, AbortPromised
    <2>5. ASSUME NEW s \in Rooms, NEW plans \in BOOLEAN, Finish(s, plans) PROVE Promised
        BY <2>5, FinishPromised
    <2> QED BY <2>1, <2>2, <2>3, <2>4, <2>5, Steps
<1> QED BY <1>1, <1>2, <1>3, <1>4, BooksHold, PTL DEF Spec, Implements, Contract!Spec

-----------------------------------------------------------------------------
(* What deserts a turn *)

(* A task that will complete, requeue or fail the turn.                    *)
Attends == {"claimed", "calling", "asking", "aborting", "requeuing"}
Attended(t) == \E s \in Rooms : task[s].turn = t /\ task[s].pc \in Attends

(* The task of the turn is cancelled before _run_turn has taken over, or   *)
(* its abort_turn is cancelled or fails.                                   *)
CutShort(t) ==
    \E s \in Rooms :
        /\ task[s].turn = t
        /\ \/ task[s].pc = "claimed" /\ TaskInterrupted(s)
           \/ task[s].pc \in Aborting /\ AbortFails(s)

Deserted(t) == turn[t].is = "running" /\ ~Attended(t)
OnlyCutsDesert ==
    [][\A t \in Turns : ~Deserted(t) /\ Deserted(t)' => Restart \/ CutShort(t)]_vars

Generations == \A t \in Turns : turn[t].is = "running" => room[turn[t].room].gen = turn[t].gen

LEMMA GenSteps ==
    ASSUME Books, [Next]_vars, NEW r \in Rooms, Active(r)
    PROVE  room'[r].gen = room[r].gen \/ End(r) \/ Recover
<1> USE DEF Books
<1>0. /\ room \in [Rooms -> RoomRec] /\ room[r] \in RoomRec
    BY TypeParts DEF Tables
<1>1. ASSUME NEW s \in Rooms, NEW wait \in BOOLEAN, Start(s, wait) PROVE FALSE
    BY <1>1 DEF Start, AnyActive
<1>2. ASSUME NEW s \in Rooms, NEW photo \in Captures \cup {None}, Message(s, photo)
      PROVE  room'[r].gen = room[r].gen
    BY <1>0, <1>2 DEF Message, RoomRec
<1>3. ASSUME NEW s \in Rooms, NEW report \in Reports, Heartbeat(s, report)
      PROVE  room'[r].gen = room[r].gen
    BY <1>0, <1>3 DEF Heartbeat, RoomRec
<1>4. ASSUME NEW s \in Rooms, ChangeSource(s) \/ RetryOpening(s) \/ RequestPhoto(s)
      PROVE  room'[r].gen = room[r].gen
    BY <1>0, <1>4 DEF ChangeSource, RetryOpening, RequestPhoto, RoomRec
<1>5. ASSUME NEW s \in Rooms, End(s) PROVE room'[r].gen = room[r].gen \/ End(r)
    BY <1>0, <1>5 DEF End, RoomRec
<1>6. ASSUME NEW on \in BOOLEAN, Configure(on) PROVE room'[r].gen = room[r].gen
    <2>1. CASE room' = room
        BY <2>1
    <2>2. CASE room' # room
        <3>1. PICK s \in Rooms :
                room' = [room EXCEPT ![s].online = FALSE, ![s].expired = TRUE, ![s].busy = FALSE,
                                     ![s].capture = "paused", ![s].source = @ + 1]
            BY <1>6, <2>2 DEF Configure
        <3> QED BY <1>0, <3>1 DEF RoomRec
    <2> QED BY <2>1, <2>2
<1>7. ASSUME NEW s \in Rooms, TickExpires(s) \/ LeaseEnds(s) \/ WakeFallsDue(s)
      PROVE  room'[r].gen = room[r].gen
    BY <1>0, <1>7 DEF TickExpires, LeaseEnds, WakeFallsDue, RoomRec
<1>8. ASSUME NEW s \in Rooms, Claim(s) PROVE room'[r].gen = room[r].gen
    BY <1>0, <1>8 DEF Claim, RoomRec
<1>9. ASSUME NEW s \in Rooms, Reads(s) \/ Abort(s) \/ AbortFails(s) PROVE room' = room
    BY <1>9, ReadsEffect, AbortEffect DEF Mild
<1>10. ASSUME NEW s \in Rooms, NEW plans \in BOOLEAN, Finish(s, plans)
       PROVE  room'[r].gen = room[r].gen
    <2>1. room' = room \/ room' = [room EXCEPT ![s].wake = "set"]
        BY <1>10 DEF Finish
    <2> QED BY <1>0, <2>1 DEF RoomRec
<1>11. CASE room' = room
    BY <1>11
<1>12. CASE Outside
    BY <1>1, <1>2, <1>3, <1>4, <1>5, <1>6, <1>7, <1>11, <1>12
       DEF Outside, Requests, RetryMessage, ReceiveCapture, Ticking, Time, Chat, Life, Sweep, TickKicks,
           TickCuts, CaptureAges, OrdinaryBegins, HandlerReturns, GenerationEnds, Close, Restart, tables, vars
<1> QED BY <1>8, <1>9, <1>10, <1>11, <1>12, Steps

LEMMA GenerationsKept ==
    ASSUME Books, TurnsInActive, Generations, [Next]_vars
    PROVE  Generations'
<1> USE DEF Books
<1>0. /\ room \in [Rooms -> RoomRec] /\ turn \in [Turns -> TurnRec]
    BY TypeParts DEF Tables
<1> SUFFICES ASSUME NEW t \in Turns, turn'[t].is = "running"
             PROVE  room'[turn'[t].room].gen = turn'[t].gen
    BY DEF Generations
<1>1. CASE turn[t].is = "unused"
    <2>1. PICK s \in Rooms : Claim(s)
        <3>1. ~Outside
            BY <1>0, <1>1, OutsideMoves DEF Moves, Settles, TurnRec
        <3>2. ASSUME NEW s \in Rooms, Reads(s) PROVE FALSE
            BY <1>1, <3>2, ReadsEffect DEF Mild
        <3>3. ASSUME NEW s \in Rooms, Abort(s) \/ AbortFails(s) PROVE FALSE
            BY <1>0, <1>1, <3>3, AbortEffect DEF Interrupts, TurnRec
        <3>4. ASSUME NEW s \in Rooms, NEW plans \in BOOLEAN, Finish(s, plans) PROVE FALSE
            BY <1>0, <1>1, <3>4, FinishEffect DEF Mild, Completes, TurnCurrent
        <3> QED BY <3>1, <3>2, <3>3, <3>4, Steps
    <2>2. PICK u \in Turns, kind \in {"opening", "message", "awake"}, m \in Queued(s) \cup {None} :
             Claims(s, u, kind, m)
        BY <2>1, ClaimEffect
    <2>3. turn'[t].room = s /\ turn'[t].gen = room[s].gen
        BY <1>1, <2>2 DEF Claims
    <2>4. room'[s].gen = room[s].gen
        BY <1>0, <2>1 DEF Claim, RoomRec
    <2> QED BY <2>3, <2>4
<1>2. CASE turn[t].is # "unused"
    <2>1. turn[t].is = "running" /\ turn'[t].room = turn[t].room /\ turn[t].room \in Rooms
        BY <1>2, RanBefore, TurnSteps DEF Posts
    <2>2. Active(turn[t].room) /\ room[turn[t].room].gen = turn[t].gen
        BY <2>1 DEF TurnsInActive, Generations
    <2>3. ~End(turn[t].room) /\ ~Recover
        <3>1. turn[t] \in TurnRec /\ [turn[t] EXCEPT !.is = "interrupted"].is = "interrupted"
            BY <1>0 DEF TurnRec
        <3>2. ASSUME End(turn[t].room) \/ Recover PROVE turn'[t] = [turn[t] EXCEPT !.is = "interrupted"]
            BY <2>1, <3>2 DEF End, Recover
        <3> QED BY <3>1, <3>2
    <2>4. turn'[t].gen = turn[t].gen
        <3>1. CASE Outside
            BY <1>0, <3>1, OutsideMoves DEF Moves, Settles, TurnRec
        <3>2. ASSUME NEW s \in Rooms, Claim(s) PROVE turn'[t] = turn[t]
            BY <1>2, <3>2, ClaimEffect DEF Claims
        <3>3. ASSUME NEW s \in Rooms, Reads(s) PROVE turn'[t] = turn[t]
            BY <3>3, ReadsEffect DEF Mild
        <3>4. ASSUME NEW s \in Rooms, Abort(s) \/ AbortFails(s) PROVE turn'[t] = turn[t]
            BY <1>0, <3>4, AbortEffect DEF Interrupts, TurnRec
        <3>5. ASSUME NEW s \in Rooms, NEW plans \in BOOLEAN, Finish(s, plans) PROVE turn'[t].gen = turn[t].gen
            <4>1. turn[t] \in TurnRec
                BY <1>0
            <4>2. turn'[t] = turn[t] \/ turn'[t] = [turn[t] EXCEPT !.is = "complete", !.text = "full"]
                BY <3>5, FinishEffect DEF Mild, Completes
            <4> QED BY <4>1, <4>2 DEF TurnRec
        <3> QED BY <3>1, <3>2, <3>3, <3>4, <3>5, Steps
    <2> QED BY <2>1, <2>2, <2>3, <2>4, GenSteps
<1> QED BY <1>1, <1>2

(* The room's own task lets a running turn go only when it is cut short.   *)
LEMMA ReadsAttend ==
    ASSUME Books, NEW s \in Rooms, Reads(s), NEW t \in Turns, task[s].turn = t,
           task[s].pc \in Attends, ~CutShort(t)
    PROVE  task'[s].turn = t /\ task'[s].pc \in Attends
<1>0. task \in [Rooms -> TaskRec] /\ task[s] \in TaskRec
    BY TypeParts DEF Books, Memory
<1>1. CASE NothingToDo(s) \/ FinishReturns(s) \/ Cleanup(s)
    BY <1>1 DEF NothingToDo, FinishReturns, Cleanup, At, Attends
<1>2. CASE BeginTurn(s) \/ Answered(s) \/ TurnFails(s) \/ (\E purpose \in Autonomous : Ask(s, purpose))
    BY <1>0, <1>2 DEF BeginTurn, Answered, TurnFails, Ask, At, Goto, Attends, TaskRec
<1>3. CASE TurnInterrupted(s)
    BY <1>0, <1>3 DEF TurnInterrupted, Caught, Attends, TaskRec
<1>4. CASE TaskInterrupted(s)
    BY <1>4 DEF TaskInterrupted, CutShort, Attends
<1> QED BY <1>1, <1>2, <1>3, <1>4 DEF Reads

(* The one disagreement of Together, delimited: a turn that runs is left   *)
(* without a task only by a crash, by a cancellation that finds the task   *)
(* between the claim and _run_turn, or by an abort_turn that is itself     *)
(* cancelled or fails; no finish, end, abort, recovery or failure of the   *)
(* turn leaves one behind.                                                 *)
THEOREM DesertedOnlyByCuts == Spec => OnlyCutsDesert
<1> DEFINE All == Books /\ Gate /\ TurnsInActive /\ Generations
<1>1. ASSUME All, [Next]_vars, NEW t \in Turns, ~Deserted(t), Deserted(t)', ~Restart, ~CutShort(t)
      PROVE  FALSE
    <2> USE <1>1 DEF Books
    <2>0. /\ task \in [Rooms -> TaskRec] /\ turn \in [Turns -> TurnRec] /\ None \notin Turns
        BY TypeParts, Numbers DEF Tables, Memory
    <2>1. turn'[t].is = "running" /\ \A s \in Rooms : task'[s].turn = t => task'[s].pc \notin Attends
        BY DEF Deserted, Attended
    <2>2. CASE turn[t].is = "unused"
        <3>1. ASSUME NEW s \in Rooms, Claim(s) PROVE FALSE
            <4>1. PICK u \in Turns, kind \in {"opening", "message", "awake"}, m \in Queued(s) \cup {None} :
                     Claims(s, u, kind, m)
                BY <3>1, ClaimEffect
            <4>2. u = t /\ task'[s] = [task[s] EXCEPT !.pc = "claimed", !.turn = t]
                BY <2>1, <2>2, <4>1 DEF Claims
            <4>3. task[s] \in TaskRec
                BY <2>0
            <4>4. task'[s].turn = t /\ task'[s].pc = "claimed"
                BY <4>2, <4>3 DEF TaskRec
            <4> QED BY <2>1, <4>4 DEF Attends
        <3>2. CASE Outside
            BY <2>0, <2>1, <2>2, <3>2, OutsideMoves DEF Moves, Settles, TurnRec
        <3>3. ASSUME NEW s \in Rooms, Reads(s) PROVE FALSE
            BY <2>1, <2>2, <3>3, ReadsEffect DEF Mild
        <3>4. ASSUME NEW s \in Rooms, Abort(s) \/ AbortFails(s) PROVE FALSE
            BY <2>0, <2>1, <2>2, <3>4, AbortEffect DEF Interrupts, TurnRec
        <3>5. ASSUME NEW s \in Rooms, NEW plans \in BOOLEAN, Finish(s, plans) PROVE FALSE
            BY <2>0, <2>1, <2>2, <3>5, FinishEffect DEF Mild, Completes, TurnCurrent
        <3> QED BY <3>1, <3>2, <3>3, <3>4, <3>5, Steps
    <2>3. CASE turn[t].is # "unused"
        <3>1. turn[t].is = "running"
            BY <2>1, <2>3, RanBefore
        <3>2. PICK r \in Rooms : task[r].turn = t /\ task[r].pc \in Attends
            BY <3>1 DEF Deserted, Attended
        <3>3. turn[t].room = r
            BY <2>0, <3>2 DEF Posts
        <3>4. task'[r] # task[r]
            BY <2>1, <3>2
        <3>5. task[r] \in TaskRec
            BY <2>0
        <3>6. CASE Outside
            <4>1. Calm(r)
                BY <3>6, OutsideMoves DEF Moves
            <4>2. task'[r] = [task[r] EXCEPT !.cut = TRUE]
                BY <3>2, <3>4, <4>1 DEF Calm, Attends
            <4>3. task'[r].turn = t /\ task'[r].pc \in Attends
                BY <3>2, <3>5, <4>2 DEF TaskRec
            <4> QED BY <2>1, <4>3
        <3>7. ASSUME NEW s \in Rooms, Claim(s) PROVE FALSE
            <4>1. task[s].pc = "wanting" /\ Others(s)
                BY <3>7, ClaimEffect
            <4>2. s # r
                BY <3>2, <4>1 DEF Attends
            <4> QED BY <3>4, <4>1, <4>2 DEF Others
        <3>8. ASSUME NEW s \in Rooms, Reads(s) PROVE FALSE
            <4>1. Others(s)
                BY <3>8, ReadsEffect DEF Mild
            <4>2. s = r
                BY <3>4, <4>1 DEF Others
            <4> QED BY <2>1, <3>2, <3>8, <4>2, ReadsAttend
        <3>9. ASSUME NEW s \in Rooms, Abort(s) \/ AbortFails(s) PROVE FALSE
            <4>1. Others(s)
                BY <3>9, AbortEffect
            <4>2. s = r
                BY <3>4, <4>1 DEF Others
            <4>3. Abort(r)
                BY <3>2, <3>9, <4>2 DEF CutShort, AbortFails
            <4>4. AbortTurn(t, task[r].pc = "requeuing")
                BY <3>2, <4>3 DEF Abort
            <4>5. turn'[t].is = "interrupted"
                BY <2>0, <3>1, <4>4 DEF AbortTurn, TurnRec
            <4> QED BY <2>1, <4>5
        <3>10. ASSUME NEW s \in Rooms, NEW plans \in BOOLEAN, Finish(s, plans) PROVE FALSE
            <4>1. Others(s)
                BY <3>10, FinishEffect DEF Mild
            <4>2. s = r
                BY <3>4, <4>1 DEF Others
            <4>3. TurnCurrent(t)
                BY <3>1 DEF TurnCurrent, TurnsInActive, Generations
            <4>4. turn' = [turn EXCEPT ![t].is = "complete", ![t].text = "full"]
                BY <3>2, <3>10, <4>2, <4>3 DEF Finish
            <4>5. turn'[t].is = "complete"
                BY <2>0, <4>4 DEF TurnRec
            <4> QED BY <2>1, <4>5
        <3> QED BY <3>6, <3>7, <3>8, <3>9, <3>10, Steps
    <2> QED BY <2>2, <2>3
<1>2. All /\ [Next]_vars =>
        [\A t \in Turns : ~Deserted(t) /\ Deserted(t)' => Restart \/ CutShort(t)]_vars
    BY <1>1
<1>3. Init => Gate /\ TurnsInActive /\ Generations
    BY DEF Init, Gate, TurnsInActive, Generations, NoTurn
<1>4. All /\ [Next]_vars => Gate' /\ TurnsInActive' /\ Generations'
    BY GateKept, ActiveKept, GenerationsKept
<1> QED BY <1>2, <1>3, <1>4, BooksHold, PTL DEF Spec, OnlyCutsDesert
=============================================================================
