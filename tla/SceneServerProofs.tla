------------------------- MODULE SceneServerProofs -------------------------
(***************************************************************************)
(* Proofs about SceneServer, for any number of devices, messages and       *)
(* generations: its types, that a scene never falls asleep, and that the   *)
(* server implements the contract of a scene.                              *)
(*                                                                         *)
(* The argument: every withdrawal leaves the worker a generation behind    *)
(* and the compilers unheeded, so a wish that is still heeded comes from a *)
(* turn that began after it; and a turn gives its wishes away once, before *)
(* any later turn begins, so the wishes of a device come in their order.   *)
(***************************************************************************)
EXTENDS SceneServer, TLAPS

Order ==
    /\ preparation => status = "preparing"
    /\ status # "active" => playing = Silent
    /\ worker.gen <= generation
    /\ worker.pc = "talking" =>
          /\ \A d \in Devices : arranged[d] < turn /\ compilers[d].turn < turn
          /\ worker.gen = generation => floor <= turn
    /\ \A d \in Devices : compilers[d] # NoCompiler =>
          floor <= compilers[d].turn /\ arranged[d] < compilers[d].turn

Inv == TypeOK /\ NeverAsleep /\ Order

Kept == Inv' /\ [Contract!Next]_(Contract!vars)

-----------------------------------------------------------------------------
(* Tasks *)

WorkerRec == [pc : {"none", "new", "looping", "talking", "leaving", "dead"},
              gen : Nat, cancelled : BOOLEAN]

LEMMA Tasks ==
    /\ NoTask \in WorkerRec /\ NoTask.pc = "none" /\ NoTask.gen = 0
    /\ \A g \in Nat : Task(g) \in WorkerRec /\ Task(g).pc = "new" /\ Task(g).gen = g
BY DEF NoTask, Task, WorkerRec

LEMMA CancelledTask ==
    ASSUME NEW w \in WorkerRec
    PROVE  /\ Cancelled(w) \in WorkerRec /\ Cancelled(w).gen = w.gen
           /\ Cancelled(w).pc = "talking" => w.pc = "talking"
<1>1. CASE w.pc \in {"none", "dead"} \/ w.cancelled
    <2>1. Cancelled(w) = w
        BY <1>1 DEF Cancelled
    <2> QED BY <2>1
<1>2. CASE ~(w.pc \in {"none", "dead"} \/ w.cancelled)
    <2>1. PICK pc \in {"dead", "leaving"} : Cancelled(w) = [w EXCEPT !.pc = pc, !.cancelled = TRUE]
        BY <1>2 DEF Cancelled
    <2> QED BY <2>1 DEF WorkerRec
<1> QED BY <1>1, <1>2

LEMMA WokenTask ==
    ASSUME NEW w \in WorkerRec, NEW g \in Nat
    PROVE  /\ Woken(w, g) \in WorkerRec /\ ~Done(Woken(w, g))
           /\ Woken(w, g).gen \in {w.gen, g}
           /\ Woken(w, g).pc = "talking" => w.pc = "talking" /\ Woken(w, g).gen = w.gen
<1>1. CASE Done(w)
    <2>1. Woken(w, g) = Task(g)
        BY <1>1 DEF Woken
    <2> QED BY <2>1, Tasks DEF Done
<1>2. CASE ~Done(w)
    BY <1>2 DEF Woken
<1> QED BY <1>1, <1>2

(* The invariant without the names of its parts.                           *)
LEMMA Facts ==
    ASSUME Inv
    PROVE  /\ generation \in Nat /\ turn \in Nat /\ worker \in WorkerRec
           /\ arranged \in [Devices -> 0..turn] /\ playing \in [Devices -> 0..turn]
           /\ compilers \in [Devices -> [turn : 0..turn, gen : 0..generation]]
           /\ floor \in 0..(turn + 1) /\ worker.gen <= generation
           /\ status \in Statuses
BY DEF Inv, TypeOK, Order, WorkerRec

-----------------------------------------------------------------------------
(* Withdrawals and returns: a new generation in which nothing is heeded    *)

LEMMA Cancels ==
    ASSUME Inv, CancelOutputs, status' \in Statuses, revealed' \in BOOLEAN, wakes' \in BOOLEAN,
           worker' \in WorkerRec, worker'.gen <= generation + 1,
           worker'.pc = "talking" => worker.pc = "talking" /\ worker'.gen = worker.gen,
           sent' \subseteq Messages, inbox' \subseteq [id : sent', gen : 0..generation'],
           linked' \in BOOLEAN, late' \subseteq {"heartbeat", "output"}
    PROVE  /\ TypeOK' /\ Order'
           /\ generation' = generation + 1 /\ floor' = turn + 1 /\ playing' = Silent
           /\ due' = FALSE /\ UNCHANGED <<turn, arranged>>
<1>0. /\ generation' = generation + 1 /\ preparation' = FALSE /\ due' = FALSE
      /\ playing' = Silent /\ compilers' = Unheeded /\ floor' = turn + 1
      /\ UNCHANGED <<phase, turn, arranged>>
    BY DEF CancelOutputs
<1>1. /\ generation \in Nat /\ turn \in Nat /\ arranged \in [Devices -> 0..turn]
      /\ phase \in {"scene", "aftercare"} /\ worker.gen <= generation /\ worker \in WorkerRec
    BY Facts DEF Inv, TypeOK
<1>2. /\ Silent \in [Devices -> 0..turn]
      /\ Unheeded \in [Devices -> [turn : 0..turn, gen : 0..(generation + 1)]]
      /\ \A d \in Devices : Unheeded[d] = NoCompiler
    BY <1>1 DEF Silent, Unheeded, NoCompiler
<1>3. TypeOK'
    <2>1. preparation' \in BOOLEAN /\ due' \in BOOLEAN
        BY <1>0
    <2>2. /\ generation' \in Nat /\ turn' \in Nat /\ phase' \in {"scene", "aftercare"}
          /\ floor' \in 0..(turn' + 1)
        BY <1>0, <1>1
    <2>3. /\ compilers' \in [Devices -> [turn : 0..turn', gen : 0..generation']]
          /\ arranged' \in [Devices -> 0..turn'] /\ playing' \in [Devices -> 0..turn']
        BY <1>0, <1>1, <1>2
    <2> QED BY <2>1, <2>2, <2>3 DEF TypeOK, WorkerRec
<1>4. worker'.pc = "talking" =>
          /\ \A d \in Devices : arranged'[d] < turn' /\ compilers'[d].turn < turn'
          /\ worker'.gen # generation'
    <2>1. worker.gen # generation + 1
        BY <1>1 DEF WorkerRec
    <2>2. \A d \in Devices : compilers'[d].turn = 0 /\ arranged[d] \in 0..turn
        BY <1>0, <1>1, <1>2 DEF NoCompiler
    <2> QED BY <1>0, <1>1, <2>1, <2>2 DEF Inv, Order
<1>5. Order'
    BY <1>0, <1>2, <1>4 DEF Order
<1> QED BY <1>0, <1>3, <1>5

LEMMA Ending ==
    ASSUME Inv, status # "ended", NEW reveal \in BOOLEAN, End(reveal),
           linked' \in BOOLEAN, late' \subseteq {"heartbeat", "output"}
    PROVE  Kept
<1>0. /\ status' = "ended" /\ revealed' = reveal /\ CancelOutputs /\ wakes' = FALSE
      /\ worker' = Cancelled(worker) /\ inbox' = {} /\ sent' = sent
    BY DEF End
<1>1. worker \in WorkerRec /\ generation \in Nat /\ worker.gen <= generation /\ sent \subseteq Messages
    BY Facts DEF Inv, TypeOK
<1>2. /\ worker' \in WorkerRec /\ worker'.gen = worker.gen
      /\ worker'.pc = "talking" => worker.pc = "talking"
    BY <1>0, <1>1, CancelledTask
<1>3. worker'.gen <= generation + 1
    BY <1>1, <1>2 DEF WorkerRec
<1>4. /\ TypeOK' /\ Order'
      /\ generation' = generation + 1 /\ floor' = turn + 1 /\ playing' = Silent
      /\ UNCHANGED <<turn, arranged>>
    BY <1>0, <1>1, <1>2, <1>3, Cancels DEF Statuses
<1>5. NeverAsleep'
    BY <1>0 DEF NeverAsleep
<1>6. Contract!Withdraw
    BY <1>0, <1>4 DEF Contract!Withdraw, Contract!Silent, Silent
<1> QED BY <1>4, <1>5, <1>6 DEF Kept, Inv, Contract!Next

LEMMA Pausing ==
    ASSUME Inv, status # "ended", NEW task \in WorkerRec, task.gen = worker.gen,
           task.pc = "talking" => worker.pc = "talking", Pause(task),
           linked' \in BOOLEAN, late' \subseteq {"heartbeat", "output"}
    PROVE  Kept
<1>1. CASE status = "preparing"
    <2>1. End(FALSE)
        BY <1>1 DEF Pause
    <2> QED BY <2>1, Ending
<1>2. CASE status # "preparing"
    <2>0. /\ status' = "paused" /\ CancelOutputs /\ wakes' = FALSE
          /\ worker' = task /\ revealed' = revealed /\ inbox' = inbox /\ sent' = sent
        BY <1>2 DEF Pause, mail
    <2>1. /\ generation \in Nat /\ worker.gen <= generation /\ sent \subseteq Messages /\ revealed \in BOOLEAN
          /\ inbox \subseteq [id : sent, gen : 0..generation] /\ worker \in WorkerRec
        BY Facts DEF Inv, TypeOK
    <2>2. task.gen <= generation + 1 /\ generation' = generation + 1
        BY <2>0, <2>1 DEF WorkerRec, CancelOutputs
    <2>3. inbox' \subseteq [id : sent', gen : 0..generation']
        BY <2>0, <2>1, <2>2
    <2>4. /\ TypeOK' /\ Order'
          /\ floor' = turn + 1 /\ playing' = Silent /\ UNCHANGED <<turn, arranged>>
        BY <2>0, <2>1, <2>2, <2>3, Cancels DEF Statuses
    <2>5. NeverAsleep'
        <3>1. \A r \in inbox' : r.gen # generation'
            BY <2>0, <2>1, <2>2
        <3> QED BY <2>0, <3>1 DEF NeverAsleep
    <2>6. Contract!Withdraw
        BY <2>0, <2>2, <2>4 DEF Contract!Withdraw, Contract!Silent, Silent
    <2> QED BY <2>4, <2>5, <2>6 DEF Kept, Inv, Contract!Next
<1> QED BY <1>1, <1>2

(* What the contract does not see.                                         *)
LEMMA Unseen ==
    ASSUME UNCHANGED <<status, generation, turn, floor, arranged, playing>>
    PROVE  [Contract!Next]_(Contract!vars)
BY DEF Contract!vars

LEMMA Stops ==
    ASSUME Inv,
           \/ PreparationFails \/ Stop \/ Panic \/ Overdue \/ Unplug \/ Finish \/ TurnFails
           \/ \E d \in Devices : CompilerFails(d)
    PROVE  Kept
<1>0. /\ worker \in WorkerRec /\ linked \in BOOLEAN /\ late \subseteq {"heartbeat", "output"}
    BY Facts DEF Inv, TypeOK
<1>1. /\ Cancelled(worker) \in WorkerRec /\ Cancelled(worker).gen = worker.gen
      /\ Cancelled(worker).pc = "talking" => worker.pc = "talking"
    BY <1>0, CancelledTask
<1>2. CASE PreparationFails
    <2>1. preparation /\ status # "ended" /\ End(FALSE) /\ linked' = linked /\ late' = late
        BY <1>2 DEF PreparationFails, links, Inv, Order
    <2> QED BY <1>0, <2>1, Ending
<1>3. CASE Finish
    <2>1. PICK reveal \in BOOLEAN : status # "ended" /\ End(reveal) /\ linked' = linked /\ late' = late
        BY <1>3 DEF Finish, links
    <2> QED BY <1>0, <2>1, Ending
<1>4. CASE Stop \/ Panic \/ Overdue \/ \E d \in Devices : CompilerFails(d)
    <2>1. status # "ended" /\ Pause(Cancelled(worker)) /\ linked' = linked /\ late' = late
        BY <1>4 DEF Stop, Panic, Overdue, CompilerFails, Heeded, Live, links
    <2> QED BY <1>0, <1>1, <2>1, Pausing
<1>5. CASE Unplug /\ Live
    <2>1. status # "ended" /\ Pause(Cancelled(worker)) /\ linked' = FALSE /\ late' = late
        BY <1>5 DEF Unplug, Live
    <2> QED BY <1>0, <1>1, <2>1, Pausing
<1>6. CASE Unplug /\ ~Live
    <2>1. /\ linked' = FALSE /\ late' = late
          /\ UNCHANGED <<status, generation, phase, revealed, preparation, wakes, due, worker, turn,
                         sent, inbox, compilers, arranged, playing, floor>>
        BY <1>6 DEF Unplug, row, talk, mail, toys
    <2>2. TypeOK'
        BY <1>0, <2>1 DEF Inv, TypeOK
    <2>3. NeverAsleep' /\ Order'
        BY <2>1 DEF Inv, NeverAsleep, Order, Done, TurnAllowed
    <2> QED BY <2>1, <2>2, <2>3, Unseen DEF Kept, Inv
<1>7. CASE TurnFails
    <2> DEFINE new == [worker EXCEPT !.pc = "leaving"]
    <2>1. status # "ended" /\ Pause(new) /\ linked' = linked /\ late' = late
        BY <1>7 DEF TurnFails, TurnCurrent, TurnAllowed, links
    <2>2. new \in WorkerRec /\ new.gen = worker.gen /\ new.pc # "talking"
        BY <1>0 DEF WorkerRec
    <2> HIDE DEF new
    <2> QED BY <1>0, <2>1, <2>2, Pausing
<1> QED BY <1>2, <1>3, <1>4, <1>5, <1>6, <1>7

LEMMA Resumes ==
    ASSUME Inv, Resume
    PROVE  Kept
<1>0. /\ worker \in WorkerRec /\ generation \in Nat /\ worker.gen <= generation /\ sent \subseteq Messages
      /\ inbox \subseteq [id : sent, gen : 0..generation] /\ revealed \in BOOLEAN
    BY Facts DEF Inv, TypeOK
<1>1. /\ status = "paused" /\ CancelOutputs /\ status' = "active" /\ late' = {} /\ wakes' = TRUE
      /\ worker' = Woken(Cancelled(worker), generation + 1)
      /\ UNCHANGED <<revealed, sent, inbox>> /\ linked' = linked /\ linked \in BOOLEAN
    BY DEF Resume, mail, Inv, TypeOK
<1>2. /\ worker' \in WorkerRec /\ ~Done(worker') /\ worker'.gen \in {worker.gen, generation + 1}
      /\ worker'.pc = "talking" => worker.pc = "talking" /\ worker'.gen = worker.gen
    <2>1. /\ Cancelled(worker) \in WorkerRec /\ Cancelled(worker).gen = worker.gen
          /\ Cancelled(worker).pc = "talking" => worker.pc = "talking"
        BY <1>0, CancelledTask
    <2>2. generation + 1 \in Nat
        BY <1>0
    <2> QED BY <1>1, <2>1, <2>2, WokenTask
<1>3. worker'.gen <= generation + 1 /\ generation' = generation + 1
    BY <1>0, <1>1, <1>2 DEF WorkerRec, CancelOutputs
<1>4. inbox' \subseteq [id : sent', gen : 0..generation']
    BY <1>0, <1>1, <1>3
<1>5. /\ TypeOK' /\ Order'
      /\ floor' = turn + 1 /\ playing' = Silent /\ UNCHANGED <<turn, arranged>>
    BY <1>0, <1>1, <1>2, <1>3, <1>4, Cancels DEF Statuses
<1>6. NeverAsleep'
    BY <1>1, <1>2 DEF NeverAsleep, Done, TurnAllowed
<1>7. playing' = playing
    BY <1>1, <1>5 DEF Inv, Order
<1>8. Contract!Resume
    BY <1>1, <1>3, <1>5, <1>7 DEF Contract!Resume
<1> QED BY <1>5, <1>6, <1>8 DEF Kept, Inv, Contract!Next

LEMMA Dies ==
    ASSUME Inv, Restart
    PROVE  Kept
<1>0. /\ status # "ended" /\ status' = "ended" /\ CancelOutputs
      /\ wakes' = FALSE /\ worker' = NoTask /\ inbox' = {}
      /\ UNCHANGED <<sent, revealed, linked, late>>
      /\ sent \subseteq Messages /\ revealed \in BOOLEAN /\ linked \in BOOLEAN
      /\ late \subseteq {"heartbeat", "output"} /\ generation \in Nat
    BY DEF Restart, links, Inv, TypeOK
<1>1. NoTask.gen <= generation + 1
    BY <1>0, Tasks
<1>2. /\ TypeOK' /\ Order'
      /\ generation' = generation + 1 /\ floor' = turn + 1 /\ playing' = Silent
      /\ UNCHANGED <<turn, arranged>>
    BY <1>0, <1>1, Tasks, Cancels DEF Statuses
<1>3. NeverAsleep'
    BY <1>0 DEF NeverAsleep
<1>4. Contract!Withdraw
    BY <1>0, <1>2 DEF Contract!Withdraw, Contract!Silent, Silent
<1> QED BY <1>2, <1>3, <1>4 DEF Kept, Inv, Contract!Next

LEMMA Says ==
    ASSUME Inv, NEW m \in Messages, NEW safeword \in BOOLEAN, Message(m, safeword)
    PROVE  Kept
<1>0. /\ worker \in WorkerRec /\ generation \in Nat /\ worker.gen <= generation /\ sent \subseteq Messages
      /\ inbox \subseteq [id : sent, gen : 0..generation] /\ revealed \in BOOLEAN
      /\ linked \in BOOLEAN /\ late \subseteq {"heartbeat", "output"}
    BY Facts DEF Inv, TypeOK
<1>1. /\ status \in {"active", "paused"} /\ sent' = sent \cup {m} /\ wakes' = TRUE
      /\ inbox' = inbox \cup {[id |-> m, gen |-> generation']}
      /\ revealed' = revealed /\ linked' = linked
    BY DEF Message, TurnAllowed
<1>2. CASE safeword = TRUE
    <2>1. /\ status' = "paused" /\ CancelOutputs /\ late' = late
          /\ worker' = Woken(Cancelled(worker), generation + 1)
        BY <1>2 DEF Message
    <2>2. /\ worker' \in WorkerRec /\ ~Done(worker') /\ worker'.gen \in {worker.gen, generation + 1}
          /\ worker'.pc = "talking" => worker.pc = "talking" /\ worker'.gen = worker.gen
        <3>1. /\ Cancelled(worker) \in WorkerRec /\ Cancelled(worker).gen = worker.gen
              /\ Cancelled(worker).pc = "talking" => worker.pc = "talking"
            BY <1>0, CancelledTask
        <3>2. generation + 1 \in Nat
            BY <1>0
        <3> QED BY <2>1, <3>1, <3>2, WokenTask
    <2>3. worker'.gen <= generation + 1 /\ generation' = generation + 1
        BY <1>0, <2>1, <2>2 DEF WorkerRec, CancelOutputs
    <2>4. sent' \subseteq Messages /\ inbox' \subseteq [id : sent', gen : 0..generation']
        <3>1. inbox \subseteq [id : sent', gen : 0..generation']
            BY <1>0, <1>1, <2>3
        <3> QED BY <1>0, <1>1, <2>3, <3>1
    <2>5. /\ TypeOK' /\ Order'
          /\ floor' = turn + 1 /\ playing' = Silent /\ UNCHANGED <<turn, arranged>>
        BY <1>0, <1>1, <2>1, <2>2, <2>3, <2>4, Cancels DEF Statuses
    <2>6. NeverAsleep'
        BY <1>1, <2>1, <2>2 DEF NeverAsleep, Done, TurnAllowed
    <2>7. Contract!Withdraw
        BY <1>1, <2>1, <2>3, <2>5 DEF Contract!Withdraw, Contract!Silent, Silent
    <2> QED BY <2>5, <2>6, <2>7 DEF Kept, Inv, Contract!Next
<1>3. CASE safeword = FALSE
    <2>1. /\ worker' = Woken(worker, generation) /\ late' = late \ {"heartbeat"}
          /\ UNCHANGED <<status, generation, phase, preparation, due, turn, compilers, arranged, playing, floor>>
        BY <1>3 DEF Message, toys
    <2>2. /\ worker' \in WorkerRec /\ ~Done(worker') /\ worker'.gen \in {worker.gen, generation}
          /\ worker'.pc = "talking" => worker.pc = "talking" /\ worker'.gen = worker.gen
        BY <1>0, <2>1, WokenTask
    <2>3. inbox' \subseteq [id : sent', gen : 0..generation'] /\ sent' \subseteq Messages
        BY <1>0, <1>1, <2>1
    <2>4. TypeOK'
        BY <1>0, <1>1, <2>1, <2>2, <2>3 DEF Inv, TypeOK, WorkerRec
    <2>5. NeverAsleep'
        BY <1>1, <2>1, <2>2 DEF NeverAsleep, Done, TurnAllowed
    <2>6. Order'
        BY <1>0, <2>1, <2>2 DEF Inv, Order, WorkerRec
    <2> QED BY <2>1, <2>4, <2>5, <2>6, Unseen DEF Kept, Inv
<1> QED BY <1>2, <1>3

-----------------------------------------------------------------------------
(* Steps that leave the toys alone                                         *)

LEMMA Enters ==
    ASSUME Inv, Enter
    PROVE  Kept
<1>0. /\ preparation /\ preparation' = FALSE /\ status' = "active" /\ wakes' = TRUE
      /\ worker' = Woken(worker, generation)
      /\ UNCHANGED <<generation, phase, revealed, due, turn, sent, inbox, compilers, arranged,
                     playing, floor, linked, late>>
    BY DEF Enter, mail, toys, links
<1>1. /\ worker' \in WorkerRec /\ ~Done(worker') /\ worker'.gen \in {worker.gen, generation}
      /\ worker'.pc = "talking" => worker.pc = "talking" /\ worker'.gen = worker.gen
    BY <1>0, Facts, WokenTask
<1>2. TypeOK'
    BY <1>0, <1>1 DEF Inv, TypeOK, WorkerRec, Statuses
<1>3. NeverAsleep'
    BY <1>0, <1>1 DEF NeverAsleep, Done, TurnAllowed
<1>4. Order'
    <2>1. worker'.gen <= generation'
        BY <1>0, <1>1, Facts DEF WorkerRec
    <2> QED BY <1>0, <1>1, <2>1 DEF Inv, Order
<1>5. Contract!Enter
    BY <1>0 DEF Contract!Enter, Inv, Order
<1> QED BY <1>2, <1>3, <1>4, <1>5 DEF Kept, Inv, Contract!Next

LEMMA Reveals ==
    ASSUME Inv, Reveal
    PROVE  Kept
<1>0. /\ status = "ended" /\ revealed' = TRUE /\ generation' = generation + 1
      /\ UNCHANGED <<status, phase, preparation, wakes, due, worker, turn, sent, inbox, compilers,
                     arranged, playing, floor, linked, late>>
    BY DEF Reveal, talk, mail, toys, links
<1>1. generation \in Nat /\ worker \in WorkerRec /\ worker.gen <= generation
      /\ inbox \subseteq [id : sent, gen : 0..generation]
      /\ compilers \in [Devices -> [turn : 0..turn, gen : 0..generation]]
    BY Facts DEF Inv, TypeOK
<1>2. inbox' \subseteq [id : sent', gen : 0..generation']
    BY <1>0, <1>1
<1>3. compilers' \in [Devices -> [turn : 0..turn', gen : 0..generation']]
    BY <1>0, <1>1
<1>4. TypeOK'
    BY <1>0, <1>1, <1>2, <1>3 DEF Inv, TypeOK, WorkerRec
<1>5. NeverAsleep'
    <2>1. \A r \in inbox' : r.gen # generation'
        BY <1>0, <1>1
    <2> QED BY <1>0, <2>1 DEF Inv, NeverAsleep, TurnAllowed, Done
<1>6. Order'
    <2>1. worker.gen <= generation + 1 /\ worker.gen # generation + 1
        BY <1>1 DEF WorkerRec
    <2> QED BY <1>0, <2>1 DEF Inv, Order
<1>7. Contract!Reveal
    BY <1>0 DEF Contract!Reveal
<1> QED BY <1>4, <1>5, <1>6, <1>7 DEF Kept, Inv, Contract!Next

LEMMA Passes ==
    ASSUME Inv,
           \/ Plug \/ Heartbeat \/ Poll
           \/ \E what \in {"heartbeat", "output"} : Silence(what)
    PROVE  Kept
<1>0. /\ UNCHANGED <<status, generation, phase, revealed, preparation, wakes, due, worker, turn,
                     sent, inbox, compilers, arranged, playing, floor>>
      /\ linked' \in BOOLEAN /\ late' \subseteq {"heartbeat", "output"}
    <2>1. linked \in BOOLEAN /\ late \subseteq {"heartbeat", "output"}
        BY DEF Inv, TypeOK
    <2>2. CASE Plug
        BY <2>1, <2>2 DEF Plug, row, talk, mail, toys
    <2>3. CASE Heartbeat
        BY <2>1, <2>3 DEF Heartbeat, row, talk, mail, toys
    <2>4. CASE Poll
        BY <2>1, <2>4 DEF Poll, row, talk, mail, toys
    <2>5. CASE \E what \in {"heartbeat", "output"} : Silence(what)
        BY <2>1, <2>5 DEF Silence, row, talk, mail, toys
    <2> QED BY <2>2, <2>3, <2>4, <2>5
<1>1. TypeOK'
    BY <1>0 DEF Inv, TypeOK
<1>2. NeverAsleep' /\ Order'
    BY <1>0 DEF Inv, NeverAsleep, Order, Done, TurnAllowed
<1> QED BY <1>0, <1>1, <1>2, Unseen DEF Kept, Inv

LEMMA Returns ==
    ASSUME Inv, Return
    PROVE  Kept
<1>0. /\ status = "active" /\ due' = FALSE /\ wakes' = TRUE
      /\ worker' = Woken(worker, generation)
      /\ UNCHANGED <<status, generation, phase, revealed, preparation, turn, sent, inbox, compilers,
                     arranged, playing, floor, linked, late>>
    BY DEF Return, row, mail, toys, links
<1>1. /\ worker' \in WorkerRec /\ ~Done(worker') /\ worker'.gen \in {worker.gen, generation}
      /\ worker'.pc = "talking" => worker.pc = "talking" /\ worker'.gen = worker.gen
    BY <1>0, Facts, WokenTask
<1>2. TypeOK'
    BY <1>0, <1>1 DEF Inv, TypeOK, WorkerRec
<1>3. NeverAsleep'
    BY <1>0, <1>1 DEF NeverAsleep, Done, TurnAllowed
<1>4. Order'
    <2>1. worker'.gen <= generation'
        BY <1>0, <1>1, Facts DEF WorkerRec
    <2> QED BY <1>0, <1>1, <2>1 DEF Inv, Order
<1> QED BY <1>0, <1>2, <1>3, <1>4, Unseen DEF Kept, Inv

-----------------------------------------------------------------------------
(* The worker                                                              *)

LEMMA Begins ==
    ASSUME Inv, Begin
    PROVE  Kept
<1>0. /\ worker' = [worker EXCEPT !.pc = "looping"]
      /\ UNCHANGED <<status, generation, phase, revealed, preparation, wakes, due, turn, sent, inbox,
                     compilers, arranged, playing, floor, linked, late>>
    BY DEF Begin, row, mail, toys, links
<1>1. worker' \in WorkerRec /\ worker'.pc = "looping" /\ worker'.gen = worker.gen
    BY <1>0, Facts DEF WorkerRec
<1>2. TypeOK'
    BY <1>0, <1>1 DEF Inv, TypeOK, WorkerRec
<1>3. NeverAsleep' /\ Order'
    BY <1>0, <1>1 DEF Inv, NeverAsleep, Order, Done, TurnAllowed
<1> QED BY <1>0, <1>2, <1>3, Unseen DEF Kept, Inv

LEMMA Loops ==
    ASSUME Inv, Loop
    PROVE  Kept
<1>0. /\ worker.pc = "looping"
      /\ UNCHANGED <<status, generation, phase, revealed, preparation, sent, compilers, arranged,
                     playing, floor, linked, late>>
      /\ worker \in WorkerRec /\ turn \in Nat /\ inbox \subseteq [id : sent, gen : 0..generation]
    BY Facts DEF Loop, row, toys, links, Inv, TypeOK
<1>1. CASE TurnCurrent /\ wakes
    <2>0. /\ wakes' = FALSE /\ inbox' = {} /\ due' = (status = "active") /\ turn' = turn + 1
          /\ worker' = [worker EXCEPT !.pc = "talking"]
        BY <1>1 DEF Loop
    <2>1. worker' \in WorkerRec /\ worker'.pc = "talking" /\ worker'.gen = worker.gen
        BY <1>0, <2>0 DEF WorkerRec
    <2>2. /\ arranged' \in [Devices -> 0..turn'] /\ playing' \in [Devices -> 0..turn']
          /\ floor' \in 0..(turn' + 1)
          /\ compilers' \in [Devices -> [turn : 0..turn', gen : 0..generation']]
        BY <1>0, <2>0, Facts
    <2>3. TypeOK'
        <3>1. due' \in BOOLEAN
            BY <2>0
        <3>3. wakes' \in BOOLEAN
            BY <2>0
        <3>4. turn' = turn + 1 /\ turn' \in Nat
            <4>1. turn' = turn + 1
                BY <2>0
            <4> QED BY <1>0, <4>1
        <3>2. inbox' \subseteq [id : sent', gen : 0..generation']
            BY <2>0
        <3> QED BY <1>0, <2>1, <2>2, <3>1, <3>2, <3>3, <3>4 DEF Inv, TypeOK, WorkerRec
    <2>4. NeverAsleep'
        BY <1>0, <2>0 DEF NeverAsleep
    <2>5. Order'
        <3>1. floor <= turn' /\ \A d \in Devices : arranged[d] < turn' /\ compilers[d].turn < turn'
            BY <1>0, <2>0, Facts
        <3> QED BY <1>0, <2>0, <2>1, <3>1 DEF Inv, Order
    <2>6. Contract!BeginTurn
        BY <1>0, <1>1, <2>0 DEF Contract!BeginTurn, TurnCurrent, TurnAllowed
    <2> QED BY <2>3, <2>4, <2>5, <2>6 DEF Kept, Inv, Contract!Next
<1>2. CASE ~(TurnCurrent /\ wakes)
    <2>0. worker' = [worker EXCEPT !.pc = "leaving"] /\ UNCHANGED <<wakes, inbox, due, turn>>
        BY <1>2 DEF Loop
    <2>1. worker' \in WorkerRec /\ worker'.pc = "leaving" /\ worker'.gen = worker.gen
        BY <1>0, <2>0 DEF WorkerRec
    <2>2. TypeOK'
        BY <1>0, <2>0, <2>1 DEF Inv, TypeOK, WorkerRec
    <2>3. NeverAsleep' /\ Order'
        BY <1>0, <2>0, <2>1 DEF Inv, NeverAsleep, Order, Done, TurnAllowed
    <2> QED BY <1>0, <2>0, <2>2, <2>3, Unseen DEF Kept, Inv
<1> QED BY <1>1, <1>2

LEMMA Leaves ==
    ASSUME Inv, Leave
    PROVE  Kept
<1>0. /\ worker' = Handover
      /\ UNCHANGED <<status, generation, phase, revealed, preparation, wakes, due, turn, sent, inbox,
                     compilers, arranged, playing, floor, linked, late>>
    BY DEF Leave, row, mail, toys, links
<1>1. /\ worker' \in WorkerRec /\ worker'.pc # "talking" /\ worker'.gen \in {0, generation}
      /\ wakes => ~Done(worker')
    <2>1. CASE TurnAllowed /\ wakes
        <3>1. worker' = Task(generation)
            BY <1>0, <2>1 DEF Handover
        <3> QED BY <3>1, Tasks, Facts DEF Done
    <2>2. CASE ~(TurnAllowed /\ wakes)
        <3>1. worker' = NoTask /\ ~wakes
            BY <1>0, <2>2 DEF Handover, Inv, NeverAsleep
        <3> QED BY <3>1, Tasks
    <2> QED BY <2>1, <2>2
<1>2. TypeOK'
    BY <1>0, <1>1 DEF Inv, TypeOK, WorkerRec
<1>3. NeverAsleep'
    BY <1>0, <1>1 DEF Inv, NeverAsleep, TurnAllowed
<1>4. Order'
    <2>1. worker'.gen <= generation'
        BY <1>0, <1>1, Facts
    <2> QED BY <1>0, <1>1, <2>1 DEF Inv, Order
<1> QED BY <1>0, <1>2, <1>3, <1>4, Unseen DEF Kept, Inv

(* The wishes of a turn: newer than what was done and than the floor.      *)
LEMMA Wishes ==
    ASSUME Inv, NEW wished \in SUBSET Devices, NEW ended \in BOOLEAN, TurnDone(wished, ended)
    PROVE  Kept
<1> DEFINE winds == ended /\ phase # "aftercare"
           kept == IF winds THEN Unheeded ELSE compilers
           asked == IF status = "active" THEN wished ELSE {}
<1>0. /\ worker.pc = "talking" /\ worker.gen = generation /\ TurnAllowed
      /\ worker' = [worker EXCEPT !.pc = "looping"]
      /\ due' = (status = "active")
      /\ phase' = IF winds THEN "aftercare" ELSE phase
      /\ playing' = IF winds THEN Silent ELSE playing
      /\ floor' = IF winds THEN turn ELSE floor
      /\ compilers' = [d \in Devices |-> IF d \in asked THEN Wish ELSE kept[d]]
      /\ UNCHANGED <<status, generation, revealed, preparation, wakes, turn, sent, inbox, arranged,
                     linked, late>>
    BY DEF TurnDone, TurnCurrent, mail, links
<1>1. /\ generation \in Nat /\ turn \in Nat /\ worker \in WorkerRec
      /\ floor \in 0..(turn + 1) /\ floor <= turn
      /\ \A d \in Devices : arranged[d] < turn /\ arranged[d] \in 0..turn
      /\ compilers \in [Devices -> [turn : 0..turn, gen : 0..generation]]
      /\ playing \in [Devices -> 0..turn]
    BY <1>0, Facts DEF Inv, Order
<1>2. worker' \in WorkerRec /\ worker'.pc = "looping" /\ worker'.gen = worker.gen
    BY <1>0, <1>1 DEF WorkerRec
<1>3. floor' \in 0..(turn + 1) /\ floor' <= turn /\ playing' \in [Devices -> 0..turn]
    <2>1. CASE winds
        BY <1>0, <1>1, <2>1 DEF Silent
    <2>2. CASE ~winds
        BY <1>0, <1>1, <2>2
    <2> QED BY <2>1, <2>2
<1>4. /\ Wish \in [turn : 0..turn, gen : 0..generation] /\ Wish.turn = turn
      /\ Unheeded \in [Devices -> [turn : 0..turn, gen : 0..generation]]
      /\ \A d \in Devices : Unheeded[d] = NoCompiler
    BY <1>1 DEF Wish, Unheeded, NoCompiler
<1>5. kept \in [Devices -> [turn : 0..turn, gen : 0..generation]]
    BY <1>1, <1>4
<1>6. \A d \in Devices : kept[d] # NoCompiler =>
          floor' <= kept[d].turn /\ arranged[d] < kept[d].turn
    <2>1. CASE winds
        BY <1>4, <2>1
    <2>2. CASE ~winds
        BY <1>0, <2>2 DEF Inv, Order
    <2> QED BY <2>1, <2>2
<1>7. /\ compilers' \in [Devices -> [turn : 0..turn, gen : 0..generation]]
      /\ \A d \in Devices : compilers'[d] = Wish \/ compilers'[d] = kept[d]
    <2> HIDE DEF kept, asked
    <2> QED BY <1>0, <1>4, <1>5
<1>8. status # "active" => playing' = Silent
    BY <1>0 DEF Inv, Order
<1>9. phase' \in {"scene", "aftercare"}
    BY <1>0 DEF Inv, TypeOK
<1>10. [Contract!Next]_(Contract!vars)
    <2>1. CASE winds
        <3>1. Contract!WindDown
            BY <1>0, <1>1, <2>1 DEF Contract!WindDown, Contract!Silent, Silent
        <3> QED BY <3>1 DEF Contract!Next
    <2>2. CASE ~winds
        BY <1>0, <2>2, Unseen
    <2> QED BY <2>1, <2>2
<1> HIDE DEF kept, asked, winds
<1>11. TypeOK'
    <2>1. due' \in BOOLEAN
        BY <1>0
    <2> QED BY <1>0, <1>1, <1>2, <1>3, <1>7, <1>9, <2>1 DEF Inv, TypeOK, WorkerRec
<1>12. NeverAsleep'
    <2>1. status' = "active" => due'
        BY <1>0
    <2> QED BY <1>0, <1>2, <2>1 DEF Inv, NeverAsleep, Done, TurnAllowed
<1>13. Order'
    <2>1. \A d \in Devices : compilers'[d] # NoCompiler =>
              floor' <= compilers'[d].turn /\ arranged'[d] < compilers'[d].turn
        BY <1>0, <1>1, <1>3, <1>4, <1>6, <1>7
    <2> QED BY <1>0, <1>2, <1>8, <2>1 DEF Inv, Order
<1> QED BY <1>10, <1>11, <1>12, <1>13 DEF Kept, Inv

LEMMA Compiles ==
    ASSUME Inv, NEW d \in Devices, NEW result \in {"play", "stop", "hold"}, Compiled(d, result)
    PROVE  Kept
<1> DEFINE t == compilers[d].turn
<1>0. /\ compilers[d] # NoCompiler
      /\ compilers' = [compilers EXCEPT ![d] = NoCompiler]
      /\ UNCHANGED <<status, generation, phase, revealed, preparation, wakes, due, worker, turn, sent,
                     inbox, floor, linked, late>>
    BY DEF Compiled, row, talk, mail, links
<1>1. /\ generation \in Nat /\ turn \in Nat /\ t \in 0..turn /\ floor <= t /\ arranged[d] < t
      /\ compilers \in [Devices -> [turn : 0..turn, gen : 0..generation]]
      /\ arranged \in [Devices -> 0..turn] /\ playing \in [Devices -> 0..turn]
    BY <1>0, Facts DEF Inv, Order
<1>2. /\ compilers' \in [Devices -> [turn : 0..turn, gen : 0..generation]]
      /\ \A e \in Devices : compilers'[e] = IF e = d THEN NoCompiler ELSE compilers[e]
    BY <1>0, <1>1 DEF NoCompiler
<1>3. /\ arranged' \in [Devices -> 0..turn] /\ playing' \in [Devices -> 0..turn]
      /\ \A e \in Devices : e # d => arranged'[e] = arranged[e]
      /\ status # "active" => playing' = playing
      /\ [Contract!Next]_(Contract!vars)
      /\ arranged'[d] \in {arranged[d], t}
    <2>1. CASE Heeded(d)
        <3>1. PICK p \in {t, 0, playing[d]} :
                  arranged' = [arranged EXCEPT ![d] = t] /\ playing' = [playing EXCEPT ![d] = p]
            BY <1>1, <2>1 DEF Compiled
        <3>2. status = "active" /\ t \in 1..turn /\ p \in 0..turn
            BY <1>1, <2>1, <3>1 DEF Heeded
        <3>3. Contract!CarryOut(d, t)
            BY <1>0, <1>1, <3>1, <3>2 DEF Contract!CarryOut
        <3>4. Contract!Next
            BY <3>2, <3>3 DEF Contract!Next
        <3> HIDE DEF t
        <3> QED BY <1>1, <3>1, <3>2, <3>4
    <2>2. CASE ~Heeded(d)
        <3>1. UNCHANGED <<arranged, playing>>
            BY <2>2 DEF Compiled
        <3> QED BY <1>0, <1>1, <3>1, Unseen
    <2> QED BY <2>1, <2>2
<1>4. TypeOK'
    BY <1>0, <1>2, <1>3 DEF Inv, TypeOK
<1>5. NeverAsleep'
    BY <1>0 DEF Inv, NeverAsleep, Done, TurnAllowed
<1>6. Order'
    <2>1. worker'.pc = "talking" =>
              \A e \in Devices : arranged'[e] < turn' /\ compilers'[e].turn < turn'
        <3>1. worker.pc = "talking" => \A e \in Devices : arranged[e] < turn /\ compilers[e].turn < turn
            BY DEF Inv, Order
        <3>2. \A e \in Devices : arranged[e] < turn => NoCompiler.turn < turn
            BY <1>1 DEF NoCompiler
        <3>3. \A e \in Devices : arranged'[e] \in {arranged[e], compilers[e].turn}
            BY <1>3
        <3> QED BY <1>0, <1>1, <1>2, <3>1, <3>2, <3>3
    <2>2. \A e \in Devices : compilers'[e] # NoCompiler =>
              floor' <= compilers'[e].turn /\ arranged'[e] < compilers'[e].turn
        BY <1>0, <1>2, <1>3 DEF Inv, Order
    <2> QED BY <1>0, <1>3, <2>1, <2>2 DEF Inv, Order
<1> QED BY <1>3, <1>4, <1>5, <1>6 DEF Kept, Inv

-----------------------------------------------------------------------------
(* The specification *)

LEMMA InitInv == Init => Inv /\ Contract!Init
<1> SUFFICES ASSUME Init PROVE Inv /\ Contract!Init
    OBVIOUS
<1>0. /\ Silent \in [Devices -> 0..0] /\ NoCompiler \in [turn : 0..0, gen : 0..0]
    BY DEF Silent, NoCompiler
<1>1. TypeOK
    <2>1. worker \in WorkerRec
        BY Tasks DEF Init
    <2>2. compilers \in [Devices -> [turn : 0..turn, gen : 0..generation]]
        BY <1>0 DEF Init
    <2>3. revealed \in BOOLEAN /\ preparation \in BOOLEAN /\ linked \in BOOLEAN
        BY DEF Init
    <2>4. wakes \in BOOLEAN /\ due \in BOOLEAN
        BY DEF Init
    <2>5. /\ status \in Statuses /\ generation \in Nat /\ phase \in {"scene", "aftercare"}
          /\ turn \in Nat /\ floor \in 0..(turn + 1) /\ late = {} /\ sent = {} /\ inbox = {}
        BY DEF Init, Statuses
    <2>6. /\ arranged \in [Devices -> 0..turn] /\ playing \in [Devices -> 0..turn]
        BY <1>0 DEF Init
    <2> QED BY <2>1, <2>2, <2>3, <2>4, <2>5, <2>6 DEF TypeOK, WorkerRec
<1>2. NeverAsleep
    BY DEF Init, NeverAsleep
<1>3. Order
    BY Tasks DEF Init, Order
<1>4. Contract!Init
    BY DEF Init, Contract!Init, Contract!Silent, Silent
<1> QED BY <1>1, <1>2, <1>3, <1>4 DEF Inv

LEMMA InvKept ==
    ASSUME Inv, [Next]_vars
    PROVE  Kept
<1>1. CASE Enter
    BY <1>1, Enters
<1>2. CASE PreparationFails \/ Stop \/ Panic \/ Overdue \/ Unplug \/ Finish
    BY <1>2, Stops
<1>3. CASE Resume
    BY <1>3, Resumes
<1>4. CASE Reveal
    BY <1>4, Reveals
<1>5. CASE Restart
    BY <1>5, Dies
<1>6. CASE \E m \in Messages, safeword \in BOOLEAN : Message(m, safeword)
    BY <1>6, Says
<1>7. CASE Plug \/ Heartbeat \/ Poll \/ \E what \in {"heartbeat", "output"} : Silence(what)
    BY <1>7, Passes
<1>8. CASE Return
    BY <1>8, Returns
<1>9. CASE Worker
    <2>1. CASE Begin \/ Loop
        BY <2>1, Begins, Loops
    <2>2. CASE TurnFails
        BY <2>2, Stops
    <2>3. CASE Leave
        BY <2>3, Leaves
    <2>4. CASE \E wished \in SUBSET Devices, ended \in BOOLEAN : TurnDone(wished, ended)
        BY <2>4, Wishes
    <2> QED BY <1>9, <2>1, <2>2, <2>3, <2>4 DEF Worker
<1>10. CASE \E d \in Devices, result \in {"play", "stop", "hold"} : Compiled(d, result)
    BY <1>10, Compiles
<1>11. CASE \E d \in Devices : CompilerFails(d)
    BY <1>11, Stops
<1>12. CASE UNCHANGED vars
    <2>1. UNCHANGED <<status, generation, phase, revealed, preparation, wakes, due, worker, turn,
                      sent, inbox, compilers, arranged, playing, floor, linked, late>>
        BY <1>12 DEF vars, row, talk, mail, toys, links
    <2>2. TypeOK'
        BY <2>1 DEF Inv, TypeOK
    <2>3. NeverAsleep' /\ Order'
        BY <2>1 DEF Inv, NeverAsleep, Order, Done, TurnAllowed
    <2> QED BY <2>1, <2>2, <2>3, Unseen DEF Kept, Inv
<1> QED BY <1>1, <1>2, <1>3, <1>4, <1>5, <1>6, <1>7, <1>8, <1>9, <1>10, <1>11, <1>12 DEF Next

LEMMA Invariance == Spec => [](Inv /\ TypeOK /\ NeverAsleep)
<1>1. Inv /\ [Next]_vars => Inv'
    BY InvKept DEF Kept
<1>2. Inv => TypeOK /\ NeverAsleep
    BY DEF Inv
<1> QED BY InitInv, <1>1, <1>2, PTL DEF Spec

(* Every variable keeps its type: generations and turns count up, what a   *)
(* device does and what it is to do names a turn that has begun.           *)
THEOREM TypesHold == Spec => []TypeOK
BY Invariance, PTL

(* A scene never falls asleep: whatever is pending has a worker that will  *)
(* come to it, through every pause, cancellation and hand-over (_wake()    *)
(* and the finally of _run()).                                             *)
THEOREM StaysAwake == Spec => []NeverAsleep
BY Invariance, PTL

(* The server implements the contract of a scene: a device plays only what *)
(* a turn asked for that began after the last withdrawal, in the order of  *)
(* the turns.                                                              *)
THEOREM Refinement == Spec => Implements
<1>1. Inv /\ [Next]_vars => Inv' /\ [Contract!Next]_(Contract!vars)
    BY InvKept DEF Kept
<1> QED BY InitInv, <1>1, PTL DEF Spec, Implements, Contract!Spec

(* What the contract comes to, and with it the server: whatever pauses,    *)
(* safewords, failures and hand-overs happen, a device moves only while    *)
(* the scene is active, at the wish of a turn that began after the last    *)
(* withdrawal or wound the scene down itself, and never for a turn later   *)
(* than the last one whose wish for it was carried out.                    *)
PlaysAsAsked ==
    \A d \in Devices : playing[d] # 0 =>
        status = "active" /\ floor <= playing[d] /\ playing[d] <= arranged[d]

LEMMA ContractPlays ==
    ASSUME TypeOK, PlaysAsAsked, Contract!Next
    PROVE  PlaysAsAsked'
<1>0. /\ turn \in Nat /\ floor \in Nat
      /\ arranged \in [Devices -> Nat] /\ playing \in [Devices -> Nat]
    BY DEF TypeOK
<1>1. CASE Contract!Withdraw \/ Contract!WindDown
    <2>1. \A d \in Devices : playing'[d] = 0
        BY <1>1 DEF Contract!Withdraw, Contract!WindDown, Contract!Silent
    <2> QED BY <2>1 DEF PlaysAsAsked
<1>2. CASE Contract!Enter \/ Contract!Resume
    BY <1>2 DEF Contract!Enter, Contract!Resume, PlaysAsAsked
<1>3. CASE Contract!Reveal \/ Contract!BeginTurn
    BY <1>3 DEF Contract!Reveal, Contract!BeginTurn, PlaysAsAsked
<1>4. ASSUME NEW d \in Devices, NEW t \in 1..turn, Contract!CarryOut(d, t)
      PROVE  PlaysAsAsked'
    <2>1. PICK p \in {t, 0, playing[d]} : playing' = [playing EXCEPT ![d] = p]
        BY <1>4 DEF Contract!CarryOut
    <2>2. /\ status = "active" /\ floor <= t /\ arranged[d] < t
          /\ arranged' = [arranged EXCEPT ![d] = t]
          /\ UNCHANGED <<status, floor>>
        BY <1>0, <1>4 DEF Contract!CarryOut
    <2>3. p # 0 => floor <= p /\ p <= t
        BY <1>0, <2>1, <2>2 DEF PlaysAsAsked
    <2> QED BY <1>0, <2>1, <2>2, <2>3 DEF PlaysAsAsked
<1> QED BY <1>1, <1>2, <1>3, <1>4 DEF Contract!Next

THEOREM PlaysOnlyAsAsked == Spec => []PlaysAsAsked
<1>1. Init => PlaysAsAsked
    BY DEF Init, Silent, PlaysAsAsked
<1>2. Inv /\ PlaysAsAsked /\ [Next]_vars => PlaysAsAsked'
    <2> SUFFICES ASSUME Inv, PlaysAsAsked, [Next]_vars PROVE PlaysAsAsked'
        OBVIOUS
    <2>1. [Contract!Next]_(Contract!vars)
        BY InvKept DEF Kept
    <2>2. CASE UNCHANGED Contract!vars
        BY <2>2 DEF Contract!vars, PlaysAsAsked
    <2> QED BY <2>1, <2>2, ContractPlays DEF Inv
<1> QED BY <1>1, <1>2, Invariance, PTL DEF Spec
=============================================================================
