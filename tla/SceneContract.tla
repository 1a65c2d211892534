--------------------------- MODULE SceneContract ---------------------------
(***************************************************************************)
(* What the server of a scene promises about the toys, whatever tasks,     *)
(* models and messages are involved.  A device plays only while the scene  *)
(* is active, and only what a turn asked for that began after the last     *)
(* withdrawal (a pause or an end) and not before the last wind-down.  The  *)
(* wishes for one device are carried out in the order of their turns, and  *)
(* every withdrawal and every return has a generation of its own.          *)
(***************************************************************************)
EXTENDS Naturals

CONSTANT Devices

VARIABLES status, generation,
          turn,       \* turns begun so far
          floor,      \* wishes of earlier turns are void
          arranged,   \* the turn whose wish was last carried out
          playing     \* the turn whose sequence plays, 0 if none

vars == <<status, generation, turn, floor, arranged, playing>>

Silent == [d \in Devices |-> 0]

Init ==
    /\ status = "preparing" /\ generation = 0
    /\ turn = 0 /\ floor = 0
    /\ arranged = Silent /\ playing = Silent

Enter ==
    /\ status = "preparing" /\ status' = "active"
    /\ UNCHANGED <<generation, turn, floor, arranged, playing>>

(* A pause or an end, which a scene that is over knows no more.            *)
Withdraw ==
    /\ status # "ended" /\ status' \in {"paused", "ended"}
    /\ generation' = generation + 1
    /\ floor' = turn + 1 /\ playing' = Silent
    /\ UNCHANGED <<turn, arranged>>

Resume ==
    /\ status = "paused" /\ status' = "active"
    /\ generation' = generation + 1
    /\ floor' = turn + 1
    /\ UNCHANGED <<turn, arranged, playing>>

Reveal ==
    /\ status = "ended" /\ generation' = generation + 1
    /\ UNCHANGED <<status, turn, floor, arranged, playing>>

BeginTurn ==
    /\ status \in {"active", "paused"}
    /\ turn' = turn + 1
    /\ UNCHANGED <<status, generation, floor, arranged, playing>>

(* A turn winds the scene down; it may still have wishes of its own.       *)
WindDown ==
    /\ turn >= floor
    /\ floor' = turn /\ playing' = Silent
    /\ UNCHANGED <<status, generation, turn, arranged>>

(* The wish of turn t is carried out: play it, stop, or go on as before.   *)
CarryOut(d, t) ==
    /\ status = "active" /\ t >= floor /\ t > arranged[d]
    /\ arranged' = [arranged EXCEPT ![d] = t]
    /\ \E p \in {t, 0, playing[d]} : playing' = [playing EXCEPT ![d] = p]
    /\ UNCHANGED <<status, generation, turn, floor>>

Next ==
    \/ Enter \/ Withdraw \/ Resume \/ Reveal \/ BeginTurn \/ WindDown
    \/ \E d \in Devices : \E t \in 1..turn : CarryOut(d, t)

Spec == Init /\ [][Next]_vars
=============================================================================
