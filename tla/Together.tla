------------------------------ MODULE Together ------------------------------
(***************************************************************************)
(* Companionship ("Together"): a room in which owner and Core spend time.  *)
(* One asyncio task per room (service.py, _drain) claims a turn, calls the *)
(* model outside every lock, and writes the result back in one SQLite      *)
(* transaction (repository.py).  Requests, the one-second tick, shutdown   *)
(* and restart interrupt it by task.cancel(), which asyncio delivers at    *)
(* the task's next await: cut marks a cancellation not yet delivered, and  *)
(* a task that is cut takes no other step.                                 *)
(*                                                                         *)
(* Ordinary chat and a room exclude each other (chat_gate.py).             *)
(*                                                                         *)
(* Time is abstract: a lease, a capture request, a photo and a planned     *)
(* return run out at any moment after they were set.                       *)
(***************************************************************************)
EXTENDS Integers, FiniteSets

CONSTANTS
    Rooms,         \* session ids a run may create
    Reports,       \* bound: <<capture_state, input_busy>> a phone may report
    QueueLimit,    \* messages queued or running at once (50)
    MaxMessages,   \* bound: owner messages of a run
    MaxTurns,      \* bound: turns of a run
    MaxCaptures,   \* bound: captures of a run
    MaxSource,     \* bound: source_version of a room
    MaxRestarts    \* bound: shutdowns or crashes that are followed by a restart

ASSUME BoundsAssumption ==
    /\ Reports \subseteq {"ready", "paused", "unavailable"} \X BOOLEAN
    /\ QueueLimit \in Nat \ {0}
    /\ {MaxMessages, MaxTurns, MaxCaptures, MaxSource, MaxRestarts} \subseteq Nat

VARIABLES
    room,       \* together_sessions
    turn,       \* together_turns
    msg,        \* together_messages of the owner, in seq order
    cap,        \* together_captures
    task,       \* service.workers and service.running, one task per room
    reason,     \* service.cancel_reasons; no entry and every reason but
                \* source_changed lead to the same, "other"
    tick,       \* the room tick() has seen offline and is about to cancel
    ordinary,   \* the ordinary turn: its request, then its generation
    reserved,   \* chat_gate._running holds a claim
    enabled,    \* together.config "enabled"
    closed,     \* service.closed
    recovered,  \* this process has finished recover()
    restarts    \* bound

vars == <<room, turn, msg, cap, task, reason, tick, ordinary, reserved, enabled,
          closed, recovered, restarts>>
tables == <<room, turn, msg, cap>>
process == <<closed, recovered, restarts>>
chat == <<ordinary, reserved>>

Turns == 1..MaxTurns
Messages == 1..MaxMessages
Captures == 1..MaxCaptures
None == 0
NoRoom == [is |-> "absent", online |-> FALSE, expired |-> FALSE, gen |-> 0, source |-> 1,
           capture |-> "paused", opening |-> FALSE, wake |-> "none", busy |-> FALSE]
NoTurn == [is |-> "unused", room |-> None, kind |-> "opening", gen |-> 0, msg |-> None,
           text |-> "none"]
NoMessage == [is |-> "unsent", room |-> None, photo |-> None, turn |-> None]
NoCapture == [is |-> "unused", room |-> None, purpose |-> "manual", version |-> 0,
              file |-> FALSE, fresh |-> TRUE]
NoTask == [pc |-> "none", turn |-> None, cut |-> FALSE, asked |-> None,
           looked |-> {}, frames |-> {}]

Requested == {"requested", "lapsed"}       \* lapsed: its deadline has passed
RunningTurn == {"calling", "asking", "finished", "aborting", "requeuing", "cleanup",
                "completed", "dying"}      \* service.running holds the turn

TypeOK ==
    /\ room \in [Rooms -> [is : {"absent", "active", "ended"}, online : BOOLEAN,
                           expired : BOOLEAN, gen : Nat, source : Nat,
                           capture : {"ready", "paused", "unavailable"}, opening : BOOLEAN,
                           wake : {"none", "set", "due"}, busy : BOOLEAN]]
    /\ turn \in [Turns -> [is : {"unused", "running", "complete", "interrupted"},
                           room : Rooms \cup {None}, kind : {"opening", "message", "awake"},
                           gen : Nat, msg : Messages \cup {None},
                           text : {"none", "partial", "full"}]]
    /\ msg \in [Messages -> [is : {"unsent", "queued", "running", "complete", "failed"},
                             room : Rooms \cup {None}, photo : Captures \cup {None},
                             turn : Turns \cup {None}]]
    /\ cap \in [Captures -> [is : {"unused", "ready", "attached", "failed", "consumed"}
                                     \cup Requested,
                             room : Rooms \cup {None}, purpose : {"manual", "awake", "tool"},
                             version : Nat, file : BOOLEAN, fresh : BOOLEAN]]
    /\ task \in [Rooms -> [pc : {"none", "wanting", "claimed"} \cup RunningTurn,
                           turn : Turns \cup {None}, cut : BOOLEAN,
                           asked : Captures \cup {None}, looked : SUBSET {"awake", "tool"},
                           frames : SUBSET Captures]]
    /\ reason \in [Rooms -> {"source_changed", "other"}]
    /\ tick \in Rooms \cup {None}
    /\ ordinary \in {"idle", "handling", "generating"}
    /\ reserved \in BOOLEAN /\ enabled \in BOOLEAN /\ closed \in BOOLEAN /\ recovered \in BOOLEAN
    /\ restarts \in 0..MaxRestarts

Init ==
    /\ room = [s \in Rooms |-> NoRoom]
    /\ turn = [t \in Turns |-> NoTurn]
    /\ msg = [m \in Messages |-> NoMessage]
    /\ cap = [c \in Captures |-> NoCapture]
    /\ task = [s \in Rooms |-> NoTask]
    /\ reason = [s \in Rooms |-> "other"]
    /\ tick = None
    /\ ordinary = "idle" /\ reserved = FALSE
    /\ enabled = TRUE /\ closed = FALSE /\ recovered = TRUE
    /\ restarts = 0

-----------------------------------------------------------------------------
(* Shared pieces of the handlers.                                          *)

Active(s) == room[s].is = "active"
AnyActive == \E s \in Rooms : Active(s)

(* service.running is set only after the model has answered. *)
BadRunning(s) == task[s].pc \in RunningTurn \ {"calling", "asking"}
Running(s) == task[s].pc \in RunningTurn

(* service.lock: the worker holds it while claim_turn and finish_turn run. *)
LockFree == \A s \in Rooms : task[s].pc \notin {"claimed", "finished"}
Serving == ~closed /\ LockFree

(* kick: one task per room, none while disabled or closing. *)
Kicked(tasks, s) ==
    IF tasks[s].pc = "none" /\ enabled /\ ~closed
    THEN [tasks EXCEPT ![s] = [NoTask EXCEPT !.pc = "wanting"]]
    ELSE tasks

(* Only a task that waits for a frame is cancelled. *)
BadCut(tasks, s) ==
    IF tasks[s].pc = "asking" THEN [tasks EXCEPT ![s].cut = TRUE] ELSE tasks

(* _cancel: only a task that is not done is cancelled. *)
Cut(tasks, s) ==
    IF tasks[s].pc = "none" THEN tasks ELSE [tasks EXCEPT ![s].cut = TRUE]
CutFor(s, why) ==
    /\ task' = Cut(task, s)
    /\ reason' = IF task[s].pc = "none" THEN reason ELSE [reason EXCEPT ![s] = why]

(* invalidate_captures, and its narrower form that spares manual ones. *)
Invalidated(s, purposes) ==
    [c \in Captures |-> IF cap[c].room = s /\ cap[c].is \in Requested
                            /\ cap[c].purpose \in purposes
                        THEN [cap[c] EXCEPT !.is = "failed"] ELSE cap[c]]
Purposes == {"manual", "awake", "tool"}
Autonomous == {"awake", "tool"}

Queued(s) == {m \in Messages : msg[m].room = s /\ msg[m].is = "queued"}
Earliest(S) == CHOOSE m \in S : \A n \in S : m <= n
(* claim_turn asks the process instead of the table. *)
BadTurnIsRunning(s) == task[s].turn # None
TurnIsRunning(s) == \E t \in Turns : turn[t].room = s /\ turn[t].is = "running"

-----------------------------------------------------------------------------
(* Requests.                                                               *)

(* start, under control_mode_lock: refused while ordinary chat is busy. *)
Start(s, wait) ==
    /\ Serving /\ enabled /\ ~reserved
    /\ room[s].is = "absent" /\ ~AnyActive
    /\ room' = [room EXCEPT ![s] = [NoRoom EXCEPT !.is = "active", !.opening = TRUE,
                                                  !.online = ~wait, !.expired = wait]]
    /\ task' = Kicked(task, s)
    /\ UNCHANGED <<turn, msg, cap, reason, tick, chat, enabled, process>>

Usable(c, s) ==
    cap[c].room = s /\ cap[c].purpose = "manual" /\ cap[c].is = "ready" /\ cap[c].fresh

(* message: the same client_id sent again is found and changes nothing.  A *)
(* new message takes back the planned return and interrupts a turn that    *)
(* was not asked for.                                                      *)
Message(s, photo) ==
    /\ Serving /\ Active(s) /\ enabled
    /\ photo # None => Usable(photo, s)
    /\ Cardinality({m \in Messages : msg[m].room = s /\ msg[m].is \in {"queued", "running"}})
         < QueueLimit
    /\ LET unsent == {m \in Messages : msg[m].is = "unsent"}
       IN  /\ unsent # {}
           /\ msg' = [msg EXCEPT ![Earliest(unsent)] =
                        [is |-> "queued", room |-> s, photo |-> photo, turn |-> None]]
    /\ cap' = IF photo = None THEN cap ELSE [cap EXCEPT ![photo].is = "attached"]
    /\ room' = [room EXCEPT ![s].wake = "none"]
    /\ IF Running(s) /\ turn[task[s].turn].kind # "message"
       THEN CutFor(s, "other")
       ELSE task' = Kicked(task, s) /\ UNCHANGED reason
    /\ UNCHANGED <<turn, tick, chat, enabled, process>>

(* heartbeat: refused unless the phone names the current source_version. *)
Heartbeat(s, report) ==
    /\ Serving /\ Active(s)
    /\ room' = [room EXCEPT ![s].online = TRUE, ![s].expired = FALSE, ![s].busy = report[2],
                            ![s].capture = IF enabled THEN report[1] ELSE "paused"]
    /\ task' = Kicked(task, s)
    /\ UNCHANGED <<turn, msg, cap, reason, tick, chat, enabled, process>>

(* switch_source, pause_capture, resume_capture *)
ChangeSource(s) ==
    /\ Serving /\ Active(s) /\ room[s].source < MaxSource
    /\ room' = [room EXCEPT ![s].source = @ + 1, ![s].capture = "paused"]
    /\ cap' = Invalidated(s, Purposes)
    /\ reason' = IF task[s].pc = "none" THEN reason
                 ELSE [reason EXCEPT ![s] = "source_changed"]
    /\ task' = Kicked(Cut(task, s), s)
    /\ UNCHANGED <<turn, msg, tick, chat, enabled, process>>

RetryMessage(m) ==
    LET s == msg[m].room IN
    /\ Serving /\ msg[m].is = "failed" /\ Active(s)
    /\ msg' = [msg EXCEPT ![m].is = "queued"]
    /\ task' = Kicked(task, s)
    /\ UNCHANGED <<room, turn, cap, reason, tick, chat, enabled, process>>

RetryOpening(s) ==
    /\ Serving /\ Active(s) /\ ~Running(s)
    /\ room' = [room EXCEPT ![s].opening = TRUE]
    /\ task' = Kicked(task, s)
    /\ UNCHANGED <<turn, msg, cap, reason, tick, chat, enabled, process>>

(* finish: the room's turn is interrupted in the same transaction.  A      *)
(* message that was being answered stays "running".                        *)
End(s) ==
    /\ Serving /\ Active(s)
    /\ room' = [room EXCEPT ![s].is = "ended", ![s].gen = @ + 1, ![s].wake = "none",
                            ![s].opening = FALSE, ![s].capture = "paused"]
    /\ turn' = [t \in Turns |-> IF turn[t].room = s /\ turn[t].is = "running"
                                THEN [turn[t] EXCEPT !.is = "interrupted"] ELSE turn[t]]
    /\ cap' = Invalidated(s, Purposes)
    /\ CutFor(s, "other")
    /\ UNCHANGED <<msg, tick, chat, enabled, process>>

Configure(on) ==
    /\ Serving /\ on # enabled
    /\ enabled' = on
    /\ IF AnyActive /\ ~on
       THEN \E s \in Rooms :
              /\ Active(s) /\ room[s].source < MaxSource
              /\ room' = [room EXCEPT ![s].online = FALSE, ![s].expired = TRUE,
                                      ![s].busy = FALSE, ![s].capture = "paused",
                                      ![s].source = @ + 1]
              /\ cap' = Invalidated(s, Purposes)
              /\ CutFor(s, "other")
       ELSE UNCHANGED <<room, cap, task, reason>>
    /\ UNCHANGED <<turn, msg, tick, chat, process>>

(* create_capture: one open request per room. *)
CanCapture(s, purpose) ==
    /\ Active(s) /\ enabled /\ room[s].online /\ room[s].capture = "ready"
    /\ purpose = "manual" \/ ~room[s].busy
    /\ \A c \in Captures : cap[c].room = s => cap[c].is # "requested"
    /\ \E c \in Captures : cap[c].is = "unused"
NextCapture == Earliest({c \in Captures : cap[c].is = "unused"})
WithCapture(s, purpose) ==
    [cap EXCEPT ![NextCapture] = [NoCapture EXCEPT !.is = "requested", !.room = s,
                                    !.purpose = purpose, !.version = room[s].source]]

RequestPhoto(s) ==
    /\ Serving /\ CanCapture(s, "manual")
    /\ cap' = WithCapture(s, "manual")
    /\ UNCHANGED <<room, turn, msg, task, reason, tick, chat, enabled, process>>

(* receive_capture: a frame of an older source_version is refused. *)
ReceiveCapture(c, error) ==
    LET s == cap[c].room IN
    /\ Serving /\ cap[c].is = "requested"
    /\ Active(s) /\ enabled /\ room[s].online
    /\ room[s].source = cap[c].version /\ room[s].capture = "ready"
    /\ cap' = [cap EXCEPT ![c].is = IF error THEN "failed" ELSE "ready", ![c].file = ~error]
    /\ UNCHANGED <<room, turn, msg, task, reason, tick, chat, enabled, process>>

-----------------------------------------------------------------------------
(* The room's task.                                                        *)

At(s, pc) == task[s].pc = pc /\ ~task[s].cut
Goto(s, pc) == task' = [task EXCEPT ![s].pc = pc]
Stop(s) == task' = [task EXCEPT ![s] = NoTask]
Service == <<reason, tick, chat, enabled, process>>

ClaimKind(s) ==
    CASE Queued(s) # {} -> "message"
      [] Queued(s) = {} /\ room[s].opening -> "opening"
      [] Queued(s) = {} /\ ~room[s].opening /\ room[s].wake = "due" /\ ~room[s].busy -> "awake"
      [] OTHER -> "nothing"
Claimable(s) ==
    enabled /\ ~closed /\ Active(s) /\ room[s].online /\ ~TurnIsRunning(s) /\ ClaimKind(s) # "nothing"

(* claim_turn, under service.lock *)
Claim(s) ==
    /\ At(s, "wanting") /\ LockFree /\ Claimable(s)
    /\ \E t \in Turns :
         /\ turn[t].is = "unused" /\ \A u \in 1..(t - 1) : turn[u].is # "unused"
         /\ LET m == IF Queued(s) = {} THEN None ELSE Earliest(Queued(s)) IN
            /\ turn' = [turn EXCEPT ![t] = [is |-> "running", room |-> s, kind |-> ClaimKind(s),
                                            gen |-> room[s].gen, msg |-> m, text |-> "none"]]
            /\ msg' = IF m = None THEN msg
                      ELSE [msg EXCEPT ![m].is = "running", ![m].turn = t]
         /\ task' = [task EXCEPT ![s].pc = "claimed", ![s].turn = t]
    /\ room' = [room EXCEPT ![s].opening = FALSE, ![s].wake = "none"]
    /\ UNCHANGED <<cap, Service>>

NothingToDo(s) ==
    /\ At(s, "wanting") /\ LockFree /\ ~Claimable(s)
    /\ Stop(s)
    /\ UNCHANGED <<tables, Service>>

(* claim_turn returns, service.running is set and the lock released; the   *)
(* message's photo is read.                                                *)
BeginTurn(s) ==
    /\ At(s, "claimed")
    /\ LET m == turn[task[s].turn].msg
           photo == IF m = None THEN {} ELSE {msg[m].photo} \ {None}
       IN  task' = [task EXCEPT ![s].pc = "calling",
                                ![s].frames = {c \in photo : cap[c].is = "attached"
                                                               /\ cap[c].file /\ cap[c].fresh}]
    /\ UNCHANGED <<tables, Service>>

(* _wait_capture: a planned return may bring one frame, and every turn but *)
(* the opening may look once more.                                         *)
Ask(s, purpose) ==
    /\ At(s, "calling") /\ LockFree /\ CanCapture(s, purpose)
    /\ purpose \notin task[s].looked
    /\ IF purpose = "awake" THEN turn[task[s].turn].kind = "awake" /\ task[s].looked = {}
       ELSE turn[task[s].turn].kind # "opening"
    /\ cap' = WithCapture(s, purpose)
    /\ task' = [task EXCEPT ![s].pc = "asking", ![s].asked = NextCapture,
                            ![s].looked = @ \cup {purpose}]
    /\ UNCHANGED <<room, turn, msg, Service>>

(* The frame is there, or it failed, or the wait ran out (in which case a  *)
(* frame that arrived with the deadline is not used).                      *)
Answered(s) ==
    /\ At(s, "asking")
    /\ LET c == task[s].asked IN
       \E used \in (IF cap[c].is = "ready" THEN {{c}, {}} ELSE {{}}) :
         /\ task' = [task EXCEPT ![s].pc = "calling", ![s].asked = None,
                                 ![s].frames = @ \cup used]
         /\ cap' = IF cap[c].is \in Requested THEN [cap EXCEPT ![c].is = "failed"] ELSE cap
    /\ UNCHANGED <<room, turn, msg, Service>>

TurnCurrent(t) ==
    turn[t].is = "running" /\ Active(turn[t].room) /\ room[turn[t].room].gen = turn[t].gen

(* finish_turn, under service.lock: a planned return is installed only if  *)
(* no message is waiting.  A turn may stay silent; here it always says     *)
(* something, and so does a turn that is interrupted.                      *)
Finish(s, plans) ==
    /\ At(s, "calling") /\ LockFree
    /\ LET t == task[s].turn
           m == turn[t].msg IN
       IF TurnCurrent(t)
       THEN /\ turn' = [turn EXCEPT ![t].is = "complete", ![t].text = "full"]
            /\ msg' = IF m = None THEN msg ELSE [msg EXCEPT ![m].is = "complete"]
            /\ room' = IF plans /\ Queued(s) = {}
                       THEN [room EXCEPT ![s].wake = "set"] ELSE room
            /\ Goto(s, "finished")
       ELSE Goto(s, "cleanup") /\ UNCHANGED <<room, turn, msg>>
    /\ UNCHANGED <<cap, Service>>

FinishReturns(s) ==
    /\ At(s, "finished")
    /\ Goto(s, "completed")
    /\ UNCHANGED <<tables, Service>>

(* A return that was planned may leave a note in heart_works once its turn *)
(* is complete, still inside the try of _run_turn.                         *)
Noting(s) == task[s].pc = "completed" /\ turn[task[s].turn].kind = "awake"

(* The model, the identity, a file or that note failed, or the model timed *)
(* out.                                                                    *)
TurnFails(s) ==
    /\ ~task[s].cut
    /\ task[s].pc = "calling" \/ Noting(s)
    /\ Goto(s, "aborting")
    /\ UNCHANGED <<tables, Service>>

(* except CancelledError: the reason is consumed before abort_turn.  It is *)
(* raised by a cancellation, or by a delta that finds its turn settled.    *)
Caught(s) ==
    /\ task' = [task EXCEPT ![s].cut = FALSE,
                  ![s].pc = IF reason[s] = "source_changed" THEN "requeuing" ELSE "aborting"]
    /\ reason' = [reason EXCEPT ![s] = "other"]
TurnInterrupted(s) ==
    /\ \/ task[s].pc \in {"calling", "asking", "finished"} /\ task[s].cut
       \/ Noting(s) /\ task[s].cut
       \/ At(s, "calling") /\ LockFree /\ ~TurnCurrent(task[s].turn)
    /\ Caught(s)
    /\ UNCHANGED <<tables, tick, chat, enabled, process>>

(* abort_turn does not ask whether the turn still runs. *)
BadUnguardedAbort(t, retry) ==
    LET m == turn[t].msg IN
    /\ turn' = [turn EXCEPT ![t].is = IF @ = "complete" THEN @ ELSE "interrupted"]
    /\ cap' = Invalidated(turn[t].room, Autonomous)
    /\ msg' = IF m = None THEN msg
              ELSE [msg EXCEPT ![m].is = IF retry THEN "queued" ELSE "failed"]
    /\ UNCHANGED room
(* abort_turn saves the words so far whatever became of turn and room. *)
BadTalkativeAbort(t, retry) ==
    /\ turn' = [turn EXCEPT ![t].is = "interrupted", ![t].text = "partial"]
    /\ UNCHANGED <<room, msg, cap>>
(* abort_turn: nothing unless the turn still runs, and no text, requeue or *)
(* failure once the room has ended.                                        *)
AbortTurn(t, retry) ==
    LET s == turn[t].room
        m == turn[t].msg IN
    IF turn[t].is # "running" THEN UNCHANGED tables
    ELSE /\ turn' = [turn EXCEPT ![t].is = "interrupted",
                                 ![t].text = IF Active(s) THEN "partial" ELSE "none"]
         /\ cap' = Invalidated(s, Autonomous)
         /\ msg' = IF m = None \/ ~Active(s) THEN msg
                   ELSE [msg EXCEPT ![m].is = IF retry THEN "queued" ELSE "failed"]
         /\ UNCHANGED room

Aborting == {"aborting", "requeuing"}
Abort(s) ==
    /\ task[s].pc \in Aborting /\ ~task[s].cut
    /\ AbortTurn(task[s].turn, task[s].pc = "requeuing")
    /\ Goto(s, "cleanup")
    /\ UNCHANGED Service

(* A failure of the database inside abort_turn, or a second cancellation,  *)
(* which comes before or after the transaction was committed, escapes      *)
(* _run_turn: the task ends after the finally block.                       *)
AbortFails(s) ==
    /\ task[s].pc \in Aborting
    /\ \/ UNCHANGED tables
       \/ task[s].cut /\ AbortTurn(task[s].turn, task[s].pc = "requeuing")
    /\ task' = [task EXCEPT ![s].pc = "dying", ![s].cut = FALSE]
    /\ UNCHANGED Service

(* The finally block consumes the photo of a message not yet answered. *)
BadDiscarded(s) == task[s].frames

(* The finally block of _run_turn, then _drain's: frames are consumed, the *)
(* photo of a message that was not answered is kept for the next attempt.  *)
Discarded(s) == {c \in task[s].frames : cap[c].purpose # "manual" \/ task[s].pc = "completed"}
Consumed(S) == [c \in Captures |-> IF c \in S THEN [cap[c] EXCEPT !.is = "consumed", !.file = FALSE]
                                   ELSE cap[c]]
Cleanup(s) ==
    /\ task[s].pc \in {"cleanup", "completed", "dying"} /\ ~task[s].cut
    /\ cap' = Consumed(Discarded(s))
    /\ task' = [task EXCEPT ![s] = [NoTask EXCEPT !.pc = IF task[s].pc = "dying" THEN "none"
                                                         ELSE "wanting"]]
    /\ UNCHANGED <<room, turn, msg, Service>>

(* A cancellation delivered anywhere else ends the task: while it waits    *)
(* for the lock, before claim_turn has returned, or in the finally block.  *)
TaskInterrupted(s) ==
    /\ task[s].pc \in {"wanting", "claimed", "cleanup", "completed", "dying"} /\ task[s].cut
    /\ Stop(s)
    /\ UNCHANGED <<tables, Service>>

-----------------------------------------------------------------------------
(* The tick (outside service.lock), and what time does by itself.          *)

TickKicks(s) ==
    /\ tick = None /\ recovered /\ ~closed /\ Active(s) /\ room[s].online
    /\ task' = Kicked(task, s) /\ task' # task
    /\ UNCHANGED <<tables, Service>>

(* The room is seen offline: expire_connection, once per loss, and then,   *)
(* after an await in which a heartbeat may come, _cancel.                  *)
TickExpires(s) ==
    /\ tick = None /\ recovered /\ ~closed /\ Active(s) /\ ~room[s].online
    /\ tick' = s
    /\ IF room[s].expired THEN UNCHANGED <<room, cap>>
       ELSE /\ room' = [room EXCEPT ![s].expired = TRUE, ![s].busy = FALSE,
                                    ![s].capture = "unavailable"]
            /\ cap' = Invalidated(s, Autonomous)
    /\ UNCHANGED <<turn, msg, task, reason, chat, enabled, process>>

TickCuts(s) ==
    /\ tick = s
    /\ tick' = None
    /\ CutFor(s, "other")
    /\ UNCHANGED <<tables, chat, enabled, process>>

(* cleanup_media *)
Needed(c) ==
    \E m \in Messages : /\ msg[m].photo = c /\ msg[m].room = cap[c].room
                        /\ \/ msg[m].is = "running"
                           \/ msg[m].is \in {"queued", "failed"} /\ cap[c].fresh
Unneeded(c) ==
    \/ room[cap[c].room].is = "ended"
    \/ cap[c].is \in {"failed", "consumed"}
    \/ cap[c].is = "ready" /\ ~cap[c].fresh
    \/ cap[c].is = "attached" /\ ~Needed(c)
Swept(caps) ==
    [c \in Captures |-> IF caps[c].is = "lapsed" THEN [caps[c] EXCEPT !.is = "failed"] ELSE caps[c]]
Sweep ==
    /\ recovered /\ ~closed
    /\ cap' = Swept(Consumed({c \in Captures : cap[c].file /\ Unneeded(c)}))
    /\ cap' # cap
    /\ UNCHANGED <<room, turn, msg, task, Service>>

LeaseEnds(s) ==
    /\ Active(s) /\ room[s].online
    /\ room' = [room EXCEPT ![s].online = FALSE]
    /\ UNCHANGED <<turn, msg, cap, task, Service>>

WakeFallsDue(s) ==
    /\ room[s].wake = "set"
    /\ room' = [room EXCEPT ![s].wake = "due"]
    /\ UNCHANGED <<turn, msg, cap, task, Service>>

CaptureAges(c) ==
    /\ \/ cap[c].is = "requested" /\ cap' = [cap EXCEPT ![c].is = "lapsed"]
       \/ cap[c].is \in {"ready", "attached"} /\ cap[c].fresh
          /\ cap' = [cap EXCEPT ![c].fresh = FALSE]
    /\ UNCHANGED <<room, turn, msg, task, Service>>

-----------------------------------------------------------------------------
(* Ordinary chat (ordinary_turn, bind_generation).                         *)

OrdinaryBegins ==
    /\ ~closed /\ ordinary = "idle" /\ ~AnyActive
    /\ ordinary' = "handling" /\ reserved' = TRUE
    /\ UNCHANGED <<tables, task, reason, tick, enabled, process>>

(* The claim of an ordinary turn is released when its request returns. *)
BadHandlerReturns(bound) ==
    /\ ordinary = "handling"
    /\ ordinary' = IF bound THEN "generating" ELSE "idle"
    /\ reserved' = FALSE
    /\ UNCHANGED <<tables, task, reason, tick, enabled, process>>
HandlerReturns(bound) ==
    /\ ordinary = "handling"
    /\ ordinary' = IF bound THEN "generating" ELSE "idle"
    /\ reserved' = bound
    /\ UNCHANGED <<tables, task, reason, tick, enabled, process>>
GenerationEnds ==
    /\ ordinary = "generating"
    /\ ordinary' = "idle" /\ reserved' = FALSE
    /\ UNCHANGED <<tables, task, reason, tick, enabled, process>>

-----------------------------------------------------------------------------
(* Shutdown, crash and restart.  recover() runs in a background task, so   *)
(* requests may come before it.                                            *)

Close ==
    /\ restarts < MaxRestarts /\ ~closed
    /\ closed' = TRUE
    /\ task' = [s \in Rooms |-> Cut(task, s)[s]]
    /\ UNCHANGED <<tables, reason, tick, chat, enabled, recovered, restarts>>

Restart ==
    /\ restarts < MaxRestarts
    /\ restarts' = restarts + 1
    /\ closed' = FALSE /\ recovered' = FALSE
    /\ task' = [s \in Rooms |-> NoTask]
    /\ reason' = [s \in Rooms |-> "other"]
    /\ tick' = None
    /\ ordinary' = "idle" /\ reserved' = FALSE
    /\ UNCHANGED <<tables, enabled>>

Recover ==
    /\ ~recovered /\ ~closed /\ recovered' = TRUE
    /\ msg' = [m \in Messages |-> IF msg[m].is = "running" THEN [msg[m] EXCEPT !.is = "failed"]
                                  ELSE msg[m]]
    /\ turn' = [t \in Turns |-> IF turn[t].is = "running"
                                THEN [turn[t] EXCEPT !.is = "interrupted"] ELSE turn[t]]
    /\ room' = [s \in Rooms |-> IF Active(s)
                  THEN [room[s] EXCEPT !.online = FALSE, !.expired = TRUE, !.busy = FALSE,
                                       !.capture = "unavailable", !.gen = @ + 1]
                  ELSE room[s]]
    /\ cap' = [c \in Captures |-> IF cap[c].is \in Requested
                                  THEN [cap[c] EXCEPT !.is = "failed"] ELSE cap[c]]
    /\ UNCHANGED <<task, reason, tick, chat, enabled, closed, restarts>>

-----------------------------------------------------------------------------
Requests ==
    \/ \E s \in Rooms : \/ \E wait \in BOOLEAN : Start(s, wait)
                        \/ \E photo \in Captures \cup {None} : Message(s, photo)
                        \/ \E report \in Reports : Heartbeat(s, report)
                        \/ ChangeSource(s) \/ RetryOpening(s) \/ End(s) \/ RequestPhoto(s)
    \/ \E m \in Messages : RetryMessage(m)
    \/ \E on \in BOOLEAN : Configure(on)
    \/ \E c \in Captures, error \in BOOLEAN : ReceiveCapture(c, error)
Worker(s) ==
    \/ Claim(s) \/ NothingToDo(s) \/ BeginTurn(s)
    \/ \E purpose \in Autonomous : Ask(s, purpose)
    \/ Answered(s)
    \/ \E plans \in BOOLEAN : Finish(s, plans)
    \/ FinishReturns(s) \/ TurnFails(s) \/ TurnInterrupted(s)
    \/ Abort(s) \/ AbortFails(s) \/ Cleanup(s) \/ TaskInterrupted(s)
Ticking == Sweep \/ \E s \in Rooms : TickKicks(s) \/ TickExpires(s) \/ TickCuts(s)
Time ==
    \/ \E s \in Rooms : LeaseEnds(s) \/ WakeFallsDue(s)
    \/ \E c \in Captures : CaptureAges(c)
Chat == OrdinaryBegins \/ (\E bound \in BOOLEAN : HandlerReturns(bound)) \/ GenerationEnds
Life == Close \/ Restart \/ Recover

Next == Requests \/ (\E s \in Rooms : Worker(s)) \/ Ticking \/ Time \/ Chat \/ Life
Spec == Init /\ [][Next]_vars

-----------------------------------------------------------------------------
(* A message is answered at most once, and counts as answered exactly when *)
(* a turn that took it up is complete: no interruption, late abort, retry, *)
(* shutdown or restart makes the Core answer it again or forget its answer *)
(* (claim_turn, finish_turn, abort_turn, recover).                         *)
AnswersTo(m) == {t \in Turns : turn[t].msg = m /\ turn[t].is = "complete"}
OneAnswer ==
    \A m \in Messages : Cardinality(AnswersTo(m)) = IF msg[m].is = "complete" THEN 1 ELSE 0

(* A turn nobody asked for does not go on once the owner has sent          *)
(* something new: it is being interrupted (service.message reads           *)
(* service.running, which the task sets before it releases the lock).      *)
OwnerComesFirst ==
    \A s \in Rooms :
        /\ task[s].pc \in {"calling", "asking"} /\ ~task[s].cut
        /\ turn[task[s].turn].kind # "message"
        => \A m \in Queued(s) : msg[m].turn # None

(* Ordinary chat and a room exclude each other for as long as the ordinary *)
(* reply is generated, not only until its request has returned             *)
(* (chat_gate.py, service.start).                                          *)
RoomOrChat == ordinary # "idle" => ~AnyActive

(* The photo of a message that still waits for its answer, or may be       *)
(* retried, is not deleted before it expires, whatever became of the       *)
(* attempts so far (finally of _run_turn, cleanup_media, recover).         *)
PhotoKept ==
    \A m \in Messages :
        /\ msg[m].photo # None /\ msg[m].is \in {"queued", "running", "failed"}
        /\ Active(msg[m].room) /\ cap[msg[m].photo].fresh
        => cap[msg[m].photo].is = "attached" /\ cap[msg[m].photo].file

(* Nothing is said in a room that has ended, not even the words a turn had *)
(* when it was interrupted (finish, abort_turn, finish_turn).              *)
EndedStaysSilent ==
    [][\A t \in Turns : turn'[t].text # turn[t].text
         => turn[t].room \in Rooms /\ room[turn[t].room].is = "active"]_vars

(* What the Core says rests on frames of the source in use when it says    *)
(* it: a frame asked for by the turn itself and overtaken by a source      *)
(* change never reaches a finished turn (action, receive_capture).         *)
FreshFrames ==
    [][\A s \in Rooms :
         task[s].turn # None /\ turn'[task[s].turn].is = "complete"
           /\ turn[task[s].turn].is = "running"
         => \A c \in task[s].frames :
              cap[c].purpose # "manual" => cap[c].version = room'[s].source]_vars

(* Once the phone has reported and the room's task has nothing left to do, *)
(* the model was called for the room: its first turn is not lost between   *)
(* claim_turn and _run_turn (tests/test_together.py, the permission        *)
(* handoff; service.tick).                                                 *)
FirstReplyGiven ==
    \A s \in Rooms :
        Active(s) /\ room[s].online /\ ~room[s].opening /\ task[s].pc = "none"
        => \E t \in Turns : turn[t].room = s /\ turn[t].text # "none"

(* Tasks, cancellations, leases, sources, frames, shutdowns and restarts   *)
(* aside, the conversation goes as TogetherContract promises: one turn at  *)
(* a time, the earliest message first, each message given back or answered *)
(* by the turn that took it, nothing after the end (repository.py).        *)
Contract == INSTANCE TogetherContract WITH
    course <- [s \in Rooms |-> room[s].is],
    said <- [t \in Turns |-> [is |-> turn[t].is, room |-> turn[t].room,
                              msg |-> turn[t].msg, text |-> turn[t].text]],
    post <- [m \in Messages |-> [is |-> msg[m].is, room |-> msg[m].room]],
    talking <- ordinary # "idle"
Implements == Contract!Spec
=============================================================================
