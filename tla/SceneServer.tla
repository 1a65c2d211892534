---------------------------- MODULE SceneServer ----------------------------
(***************************************************************************)
(* The server's side of one scene (app/scenes/session.py): the worker that *)
(* talks with the model turn by turn, the compilers that make a sequence   *)
(* of each wish, the owner's messages, and everything that pauses.         *)
(*                                                                         *)
(* Every handler holds service.lock from its first read to its last write, *)
(* so a handler is one step.  Tasks live between the handlers: they wait   *)
(* for a model, or for the lock, and may be cancelled there.  A task that  *)
(* is cancelled before it ran once never reaches its finally.              *)
(*                                                                         *)
(* Time is abstract: the heartbeat or the phone's polls may be overdue at  *)
(* any time, and a return that was agreed on may be due at any time.  What *)
(* the phone makes of all this is SceneLink's matter.                      *)
(***************************************************************************)
EXTENDS Naturals

CONSTANTS
    Devices,            \* row["authorized_devices"]
    Messages,           \* what the owner may say, each message once
    MaxGeneration,      \* bounds of the checked instance: generations,
    MaxReturns          \* turns after which no agreed return falls due

ASSUME ServerAssumption == MaxGeneration \in Nat /\ MaxReturns \in Nat

VARIABLES
    status, generation, \* row["status"], row["generation"]
    phase, revealed,    \* row["phase"], row["revealed_at"]
    preparation,        \* the task that finds a card is under way
    wakes,              \* pending_wakes is not empty
    due,                \* due_at is set
    worker,             \* the task rt.worker refers to
    turn,               \* turns begun so far; the worker's is the last
    sent, inbox,        \* messages accepted; pending_messages of them
    compilers,          \* per device the compiler still to be heeded
    arranged,           \* rt.arrangements: the turn of the last wish done
    playing,            \* player.sequences: the turn that wished it, or 0
    floor,              \* history: wishes of earlier turns are void
    linked,             \* the phone vouches for every device
    late                \* what is overdue: "heartbeat", "output"

row == <<status, generation, phase, revealed>>
talk == <<wakes, due, worker, turn>>
mail == <<sent, inbox>>
toys == <<compilers, arranged, playing, floor>>
links == <<linked, late>>
vars == <<row, preparation, talk, mail, toys, links>>

Statuses == {"preparing", "active", "paused", "ended"}
Live == status \in {"preparing", "active"}
TurnAllowed == status \in {"active", "paused"}

(* A task: created and not run yet, about to take the lock at the top of   *)
(* its loop, in a turn, about to take it in its finally, or finished       *)
(* without that.                                                           *)
Task(g) == [pc |-> "new", gen |-> g, cancelled |-> FALSE]
NoTask == [pc |-> "none", gen |-> 0, cancelled |-> FALSE]
NoCompiler == [turn |-> 0, gen |-> 0]
Silent == [d \in Devices |-> 0]

Init ==
    /\ status = "preparing" /\ generation = 0
    /\ phase = "scene" /\ revealed = FALSE
    /\ preparation = TRUE
    /\ wakes = FALSE /\ due = FALSE /\ worker = NoTask /\ turn = 0
    /\ sent = {} /\ inbox = {}
    /\ compilers = [d \in Devices |-> NoCompiler]
    /\ arranged = Silent /\ playing = Silent /\ floor = 0
    /\ linked = TRUE /\ late = {}

-----------------------------------------------------------------------------
(* task.cancel() where the code calls it: a task that has not started, or  *)
(* waits for the lock in its finally, ends at once; one that is cancelled  *)
(* already is left to hand over.                                           *)
Cancelled(w) ==
    IF w.pc \in {"none", "dead"} \/ w.cancelled THEN w
    ELSE [w EXCEPT !.pc = IF w.pc \in {"new", "leaving"} THEN "dead" ELSE "leaving",
                   !.cancelled = TRUE]

Done(w) == w.pc \in {"none", "dead"}

(* _wake(): the worker that is there will see to it, or a new one.         *)
BadWoken(w, g) == IF w.pc = "none" THEN Task(g) ELSE w
Woken(w, g) == IF Done(w) THEN Task(g) ELSE w

(* _stop_devices(): every compiler begun before is cancelled and its        *)
(* version overtaken, so that none of them is heeded any more.             *)
BadUnheeded == compilers
Unheeded == [d \in Devices |-> NoCompiler]

(* _cancel_outputs(), but for the worker, in a new generation.             *)
CancelOutputs ==
    /\ generation' = generation + 1
    /\ preparation' = FALSE /\ due' = FALSE
    /\ playing' = Silent /\ compilers' = Unheeded /\ floor' = turn + 1
    /\ UNCHANGED <<phase, turn, arranged>>

(* _end_locked()                                                           *)
End(reveal) ==
    /\ status' = "ended" /\ revealed' = reveal
    /\ CancelOutputs
    /\ wakes' = FALSE /\ worker' = Cancelled(worker)
    /\ inbox' = {} /\ UNCHANGED sent

(* _pause_locked(): a scene still in preparation ends instead.  The task   *)
(* that pauses does not cancel itself.                                     *)
Pause(task) ==
    IF status = "preparing" THEN End(FALSE)
    ELSE /\ status' = "paused"
         /\ CancelOutputs
         /\ wakes' = FALSE /\ worker' = task
         /\ UNCHANGED <<revealed, mail>>

Room == generation < MaxGeneration

-----------------------------------------------------------------------------
(* The life of the session.                                                *)

(* _prepare(): a card was found, and consumed by this session alone.       *)
Enter ==
    /\ preparation /\ linked
    /\ preparation' = FALSE
    /\ status' = "active"
    /\ wakes' = TRUE /\ worker' = Woken(worker, generation)
    /\ UNCHANGED <<generation, phase, revealed, due, turn, mail, toys, links>>

(* _prepare(): no card, a card taken by another, a device gone.            *)
PreparationFails ==
    /\ preparation
    /\ End(FALSE)
    /\ UNCHANGED links

(* action("pause") and the notification's "end"; tick() and the scheduler  *)
(* when something is overdue or fails.                                     *)
Stop ==
    /\ Live /\ Room
    /\ Pause(Cancelled(worker))
    /\ UNCHANGED links

(* panic() and connect(): also a paused scene moves to a new generation.   *)
Panic ==
    /\ status = "paused" /\ Room
    /\ Pause(Cancelled(worker))
    /\ UNCHANGED links

(* tick(): the owner's page or the phone has been silent for too long.     *)
Overdue ==
    /\ Live /\ late # {}
    /\ Pause(Cancelled(worker))
    /\ UNCHANGED links

(* report_bridge(), output(): a device is no longer at the phone.          *)
Unplug ==
    /\ linked /\ linked' = FALSE /\ Room
    /\ IF Live THEN Pause(Cancelled(worker))
       ELSE UNCHANGED <<row, preparation, talk, mail, toys>>
    /\ UNCHANGED late

Plug ==
    /\ ~linked /\ linked' = TRUE
    /\ UNCHANGED <<row, preparation, talk, mail, toys, late>>

Resume ==
    /\ status = "paused" /\ linked /\ Room
    /\ CancelOutputs
    /\ status' = "active" /\ late' = {}
    /\ wakes' = TRUE /\ worker' = Woken(Cancelled(worker), generation + 1)
    /\ UNCHANGED <<revealed, mail, linked>>

(* action("finish"), configure(disabled), close(): with or without a look  *)
(* at the card; a scene that ended by itself may be revealed later.        *)
Finish ==
    /\ status # "ended"
    /\ \E reveal \in BOOLEAN : End(reveal)
    /\ UNCHANGED links

Reveal ==
    /\ status = "ended" /\ ~revealed
    /\ revealed' = TRUE /\ generation' = generation + 1
    /\ UNCHANGED <<status, phase, preparation, talk, mail, toys, links>>

(* The process dies; recover() of the next one ends the scene.             *)
Restart ==
    /\ status # "ended"
    /\ status' = "ended" /\ CancelOutputs
    /\ wakes' = FALSE /\ worker' = NoTask
    /\ inbox' = {} /\ UNCHANGED <<sent, revealed, links>>

-----------------------------------------------------------------------------
(* The owner, the phone, and the passing of time.                          *)

(* message(): the safeword pauses first, and the turn it calls for belongs *)
(* to the paused generation.                                               *)
Message(m, safeword) ==
    /\ TurnAllowed /\ m \notin sent
    /\ sent' = sent \cup {m} /\ wakes' = TRUE
    /\ IF safeword
       THEN /\ Room
            /\ status' = "paused" /\ CancelOutputs
            /\ worker' = Woken(Cancelled(worker), generation + 1)
            /\ UNCHANGED late
       ELSE /\ worker' = Woken(worker, generation)
            /\ late' = late \ {"heartbeat"}
            /\ UNCHANGED <<status, generation, phase, preparation, due, turn, toys>>
    /\ inbox' = inbox \cup {[id |-> m, gen |-> generation']}
    /\ UNCHANGED <<revealed, linked>>

Heartbeat ==
    /\ late' = late \ {"heartbeat"}
    /\ UNCHANGED <<row, preparation, talk, mail, toys, linked>>

(* output() with every device connected.                                   *)
Poll ==
    /\ Live /\ late' = {}
    /\ UNCHANGED <<row, preparation, talk, mail, toys, linked>>

Silence(what) ==
    /\ Live /\ late' = late \cup {what} /\ Room
    /\ UNCHANGED <<row, preparation, talk, mail, toys, linked>>

(* tick(): the agreed time to return, or the longest one may stay away.    *)
Return ==
    /\ status = "active" /\ due /\ turn < MaxReturns /\ late = {}
    /\ due' = FALSE
    /\ wakes' = TRUE /\ worker' = Woken(worker, generation)
    /\ UNCHANGED <<row, preparation, turn, mail, toys, links>>

-----------------------------------------------------------------------------
(* The worker.                                                             *)

TurnCurrent == worker.gen = generation /\ TurnAllowed

(* The task runs for the first time: from here on it reaches its finally.  *)
Begin ==
    /\ worker.pc = "new"
    /\ worker' = [worker EXCEPT !.pc = "looping"]
    /\ UNCHANGED <<row, preparation, wakes, due, turn, mail, toys, links>>

(* _run(), top of the loop: a turn for all that is pending, or leave.      *)
Loop ==
    /\ worker.pc = "looping"
    /\ IF TurnCurrent /\ wakes
       THEN /\ wakes' = FALSE /\ inbox' = {}
            /\ due' = (status = "active")
            /\ turn' = turn + 1
            /\ worker' = [worker EXCEPT !.pc = "talking"]
       ELSE /\ worker' = [worker EXCEPT !.pc = "leaving"]
            /\ UNCHANGED <<wakes, inbox, due, turn>>
    /\ UNCHANGED <<row, preparation, sent, toys, links>>

(* What _run() gives a compiler.                                           *)
BadWish == [turn |-> turn + 1, gen |-> generation]
Wish == [turn |-> turn, gen |-> generation]

(* _run(): the model has answered.  It may wind the scene down; its wishes *)
(* go to the compilers if the scene is active, in the place of older ones. *)
TurnDone(wished, ended) ==
    /\ worker.pc = "talking" /\ TurnCurrent
    /\ worker' = [worker EXCEPT !.pc = "looping"]
    /\ due' = (status = "active")
    /\ LET winds == ended /\ phase # "aftercare"
           kept == IF winds THEN Unheeded ELSE compilers
           asked == IF status = "active" THEN wished ELSE {}
       IN /\ phase' = IF winds THEN "aftercare" ELSE phase
          /\ playing' = IF winds THEN Silent ELSE playing
          /\ floor' = IF winds THEN turn ELSE floor
          /\ compilers' = [d \in Devices |->
                 IF d \in asked THEN Wish ELSE kept[d]]
    /\ UNCHANGED <<status, generation, revealed, preparation, wakes, turn, mail,
                   arranged, links>>

(* No answer in time, an empty or an ambiguous one.                        *)
TurnFails ==
    /\ worker.pc = "talking" /\ TurnCurrent /\ Room
    /\ Pause([worker EXCEPT !.pc = "leaving"])
    /\ UNCHANGED links

BadHandover == NoTask
(* _run(), finally: what came in meanwhile goes to a worker of the present *)
(* generation.                                                             *)
Handover == IF TurnAllowed /\ wakes THEN Task(generation) ELSE NoTask

Leave ==
    /\ worker.pc = "leaving"
    /\ worker' = Handover
    /\ UNCHANGED <<row, preparation, wakes, due, turn, mail, toys, links>>

-----------------------------------------------------------------------------
(* The compilers.                                                          *)

(* valid()                                                                 *)
Heeded(d) == status = "active" /\ compilers[d].gen = generation

(* _compile(): a sequence to play, a stop, or a hold of what plays.        *)
Compiled(d, result) ==
    /\ compilers[d] # NoCompiler
    /\ compilers' = [compilers EXCEPT ![d] = NoCompiler]
    /\ IF Heeded(d)
       THEN /\ arranged' = [arranged EXCEPT ![d] = compilers[d].turn]
            /\ playing' = [playing EXCEPT ![d] =
                   CASE result = "play" -> compilers[d].turn
                     [] result = "stop" -> 0
                     [] result = "hold" -> @]
       ELSE UNCHANGED <<arranged, playing>>
    /\ UNCHANGED <<row, preparation, talk, mail, floor, links>>

CompilerFails(d) ==
    /\ compilers[d] # NoCompiler /\ Heeded(d) /\ Room
    /\ Pause(Cancelled(worker))
    /\ UNCHANGED links

-----------------------------------------------------------------------------
Worker ==
    \/ Begin \/ Loop \/ TurnFails \/ Leave
    \/ \E wished \in SUBSET Devices, ended \in BOOLEAN : TurnDone(wished, ended)

Next ==
    \/ Enter \/ PreparationFails \/ Stop \/ Panic \/ Overdue
    \/ Unplug \/ Plug \/ Resume \/ Finish \/ Reveal \/ Restart
    \/ \E m \in Messages, safeword \in BOOLEAN : Message(m, safeword)
    \/ Heartbeat \/ Poll \/ Return
    \/ \E what \in {"heartbeat", "output"} : Silence(what)
    \/ Worker
    \/ \E d \in Devices :
          \/ \E result \in {"play", "stop", "hold"} : Compiled(d, result)
          \/ CompilerFails(d)

(* A task that may run runs, and a turn ends within its 150 seconds.       *)
Fairness == WF_vars(Worker)

Spec == Init /\ [][Next]_vars
LiveSpec == Spec /\ Fairness

-----------------------------------------------------------------------------
TypeOK ==
    /\ status \in Statuses /\ generation \in Nat
    /\ phase \in {"scene", "aftercare"} /\ revealed \in BOOLEAN
    /\ preparation \in BOOLEAN /\ wakes \in BOOLEAN /\ due \in BOOLEAN
    /\ worker \in [pc : {"none", "new", "looping", "talking", "leaving", "dead"},
                   gen : Nat, cancelled : BOOLEAN]
    /\ turn \in Nat
    /\ sent \subseteq Messages /\ inbox \subseteq [id : sent, gen : 0..generation]
    /\ compilers \in [Devices -> [turn : 0..turn, gen : 0..generation]]
    /\ arranged \in [Devices -> 0..turn] /\ playing \in [Devices -> 0..turn]
    /\ floor \in 0..(turn + 1)
    /\ linked \in BOOLEAN /\ late \subseteq {"heartbeat", "output"}

(* A scene never falls asleep: whatever is pending has a worker that will  *)
(* come to it, a message of the present generation is pending, and an      *)
(* active scene has a turn before it (the checks of _wake() and of the     *)
(* finally of _run()).                                                     *)
NeverAsleep ==
    /\ wakes => TurnAllowed /\ ~Done(worker)
    /\ \A r \in inbox : r.gen = generation => wakes
    /\ status = "active" => due \/ wakes

(* A message is put before the model, unless the scene is paused, resumed  *)
(* or ended after it was accepted: also one sent with the safeword, and    *)
(* also while a worker is about to leave.                                  *)
Heard ==
    \A m \in Messages :
        (\E r \in inbox : r = [id |-> m, gen |-> generation])
            ~> ~(\E r \in inbox : r = [id |-> m, gen |-> generation])

(* Whatever the tasks do, the toys do what the contract of a scene allows. *)
Contract == INSTANCE SceneContract
Implements == Contract!Spec
=============================================================================
