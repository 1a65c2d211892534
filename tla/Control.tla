------------------------------ MODULE Control ------------------------------
(***************************************************************************)
(* Control sessions of one conversation (app/control/service.py), the      *)
(* pages that hold them (static/js/chat/control_runtime.js) and the lock   *)
(* they share with the scenes (app/control/ownership.py).                  *)
(*                                                                         *)
(* Every operation reads the session, awaits, and writes it by its id      *)
(* alone.  start, heartbeat and snapshot do so under control_mode_lock;    *)
(* end, and the readers that find a session stale or timed out, take no    *)
(* lock.  A page has its timer's heartbeat under way beside one thing the  *)
(* user asked for; each request, or its answer, may be lost.  An answer is *)
(* taken whenever it comes, whatever the page has done since it asked.     *)
(*                                                                         *)
(* Time is the age of a session's last heartbeat, in three steps: fresh,   *)
(* older than STALE_AFTER_SECONDS, older than TIMEOUT_AFTER_SECONDS.       *)
(* Sessions are numbered in the order of started_at.  Sessions of kind     *)
(* "tide" and the commands sent under a session are not modelled here.     *)
(***************************************************************************)
EXTENDS Naturals

CONSTANTS
    Clients,        \* owner_client_id of the pages
    MaxSessions,    \* bounds of the checked instance: sessions started,
    MaxEpoch,       \* safety stops of one session,
    None            \* no request, no row, no holder of the lock
VARIABLES
    rows,           \* control_sessions, by number
    lock,           \* the request that holds control_mode_lock
    scene,          \* get_scene_service().occupies_control()
    requests,       \* per page: its timer's request, and the user's
    page            \* per page the session it holds, or 0

vars == <<rows, lock, scene, requests, page>>

Sessions == 1..MaxSessions
Slots == Clients \X {"beat", "act"}
Scenes == <<None, "scene">>     \* holds the lock while a scene starts

Fresh == 0          \* the three ages of last_heartbeat_at
Stale == 1
Lapsed == 2
Older(age) == IF age = Lapsed THEN Lapsed ELSE age + 1

Row == [status : {"active", "stale", "ended"}, owner : Clients, age : {Fresh, Stale, Lapsed},
        epoch : Nat, reason : {"none", "ordinary", "safety"}]
AtWork == {"read", "marked", "resuming", "done"}
RequestType ==
    [op : {"heartbeat", "current", "start", "end"}, session : 0..MaxSessions,
     reason : {"none", "ordinary", "safety"}, at : {"sent", "back"} \cup AtWork,
     seen : [Sessions -> Row \cup {None}], live : BOOLEAN]

ASSUME ControlAssumption ==
    /\ MaxSessions \in Nat /\ MaxEpoch \in Nat
    /\ None \notin Slots \cup {Scenes} \cup Row \cup RequestType

BadLive(r) == r # None
Live(r) == r # None /\ r.status \in {"active", "stale"}
LiveSessions == {s \in Sessions : Live(rows[s])}
Known == {s \in Sessions : rows[s] # None}
MaxOf(S) == CHOOSE x \in S : \A y \in S : y <= x

(* close_reason is looked at in ended rows only. *)
Ended(r, reason, epoch) == [r EXCEPT !.status = "ended", !.reason = reason, !.epoch = epoch]
MarkedStale(r) == [r EXCEPT !.status = "stale", !.reason = "none"]
Resumed(r) == [r EXCEPT !.status = "active", !.reason = "none", !.age = Fresh]

Owned(c) == page[c] # 0 /\ rows[page[c]].owner = c

Nothing == [t \in Sessions |-> None]
Request(op, s, reason) ==
    [op |-> op, session |-> s, reason |-> reason, at |-> "sent",
     seen |-> Nothing, live |-> FALSE]

Init ==
    /\ rows = [s \in Sessions |-> None]
    /\ lock = None /\ scene = FALSE
    /\ requests = [q \in Slots |-> None]
    /\ page = [c \in Clients |-> 0]

-----------------------------------------------------------------------------
(* What a page asks for.                                                   *)

Ask(q, r) == requests[q] = None /\ requests' = [requests EXCEPT ![q] = r]

(* The timer of a page that owns its session; also a page shown again.     *)
Beat(c) ==
    /\ Owned(c)
    /\ Ask(<<c, "beat">>, Request("heartbeat", page[c], "none"))
    /\ UNCHANGED <<rows, lock, scene, page>>

(* A snapshot refreshes the session as a heartbeat does.                   *)
AskSnapshot(c) ==
    /\ Owned(c)
    /\ Ask(<<c, "act">>, Request("heartbeat", page[c], "none"))
    /\ UNCHANGED <<rows, lock, scene, page>>

AskRecover(c) ==
    /\ ~Owned(c)
    /\ Ask(<<c, "act">>, Request("current", 0, "none"))
    /\ UNCHANGED <<rows, lock, scene, page>>

AskStart(c) ==
    /\ ~Owned(c) /\ Known # Sessions
    /\ Ask(<<c, "act">>, Request("start", 0, "none"))
    /\ UNCHANGED <<rows, lock, scene, page>>

(* The page lets go of its session before the server hears of it.          *)
AskEnd(c, reason) ==
    /\ Owned(c)
    /\ reason = "safety" => rows[page[c]].epoch < MaxEpoch
    /\ Ask(<<c, "act">>, Request("end", page[c], reason))
    /\ page' = [page EXCEPT ![c] = 0]
    /\ UNCHANGED <<rows, lock, scene>>

-----------------------------------------------------------------------------
(* What the server does with a request.                                    *)

BadLocked(op) == op = "start"
Locked(op) == op \in {"heartbeat", "start"}

(* What was read is used in the next step and never again.                 *)
To(q, at) ==
    requests' = [requests EXCEPT ![q].at = at, ![q].seen = Nothing, ![q].reason = "none"]
Back(q, live) ==
    requests' = [requests EXCEPT ![q].at = "back", ![q].seen = Nothing,
                                 ![q].reason = "none", ![q].live = live]
Release(q) == lock' = IF lock = q THEN None ELSE lock
Copy(S) == [t \in Sessions |-> IF t \in S THEN rows[t] ELSE None]
See(q, s, S) ==
    requests' = [requests EXCEPT ![q].session = s, ![q].at = "read", ![q].seen = Copy(S)]

(* A page whose request failed recovers what the server has; one whose     *)
(* recovery failed holds nothing.                                          *)
Failed(r) == IF r # None /\ Locked(r.op) THEN Request("current", 0, "none") ELSE None
Forgets(r) == r # None /\ r.op = "current"
Fail(Q) ==
    /\ requests' = [q \in Slots |-> IF q \in Q THEN Failed(requests[q]) ELSE requests[q]]
    /\ page' = [c \in Clients |->
                  IF \E q \in Q : q[1] = c /\ Forgets(requests[q]) THEN 0 ELSE page[c]]

(* legacy_control_mode() takes the lock and looks at the scene, before the *)
(* session is read.                                                        *)
Refused(q) ==
    /\ requests[q].at = "sent" /\ Locked(requests[q].op) /\ lock = None /\ scene
    /\ Fail({q})
    /\ UNCHANGED <<rows, lock, scene>>

Read(q) ==
    LET r == requests[q]
        s == IF r.op = "current" THEN MaxOf(LiveSessions \cup {0}) ELSE r.session
    IN  /\ r.at = "sent"
        /\ Locked(r.op) => lock = None /\ ~scene
        /\ IF r.op = "start"
           THEN Known # Sessions /\ See(q, MaxOf(Known \cup {0}) + 1, Known) /\ lock' = q
           ELSE IF s \in LiveSessions
           THEN See(q, s, {s}) /\ lock' = IF Locked(r.op) THEN q ELSE lock
           ELSE Back(q, FALSE) /\ UNCHANGED lock
        /\ UNCHANGED <<rows, scene, page>>

(* _refresh_status judges the row that was read, and writes the present    *)
(* one; a heartbeat then makes it active.                                  *)
Refresh(q) ==
    LET r == requests[q]
        s == r.session
        seen == r.seen[s]
    IN  /\ r.at = "read" /\ r.op \in {"heartbeat", "current"}
        /\ \/ /\ seen.age = Lapsed
              /\ rows' = [rows EXCEPT ![s] = Ended(@, "ordinary", seen.epoch)]
              /\ To(q, "done")
           \/ /\ seen.age = Stale /\ seen.status # "stale"
              /\ rows' = [rows EXCEPT ![s] = MarkedStale(@)]
              /\ To(q, "marked")
           \/ /\ seen.age = Fresh \/ (seen.age = Stale /\ seen.status = "stale")
              /\ r.op = "heartbeat"
              /\ rows' = [rows EXCEPT ![s] = Resumed(@)]
              /\ To(q, "done")
           \/ /\ seen.age = Fresh \/ (seen.age = Stale /\ seen.status = "stale")
              /\ r.op = "current"
              /\ Back(q, TRUE) /\ UNCHANGED rows
        /\ UNCHANGED <<lock, scene, page>>

(* The session is read again after it was marked stale.                    *)
Reread(q) ==
    LET r == requests[q]
        s == r.session
    IN  /\ r.at = "marked"
        /\ IF r.op = "heartbeat" /\ Live(rows[s])
           THEN requests' = [requests EXCEPT ![q].at = "resuming", ![q].seen = Copy({s})]
           ELSE To(q, "done")
        /\ UNCHANGED <<rows, lock, scene, page>>

Resume(q) ==
    LET r == requests[q]
    IN  /\ r.at = "resuming"
        /\ rows' = [rows EXCEPT ![r.session] = Resumed(@)]
        /\ To(q, "done")
        /\ UNCHANGED <<lock, scene, page>>

(* One transaction ends what was live when it was read, and inserts.       *)
Start(q) ==
    LET r == requests[q]
        epochs == {0} \cup {r.seen[t].epoch : t \in {u \in Sessions : r.seen[u] # None}}
        new(epoch) == [status |-> "active", owner |-> q[1], epoch |-> epoch,
                       age |-> Fresh, reason |-> "none"]
    IN  /\ r.at = "read" /\ r.op = "start"
        /\ \E epoch \in epochs :
              /\ \A e \in epochs : e <= epoch
              /\ rows' = [t \in Sessions |->
                            IF t = r.session THEN new(epoch)
                            ELSE IF Live(r.seen[t])
                                 THEN Ended(rows[t], "ordinary", r.seen[t].epoch)
                                 ELSE rows[t]]
        /\ To(q, "done")
        /\ UNCHANGED <<lock, scene, page>>

End(q) ==
    LET r == requests[q]
        s == r.session
        epoch == r.seen[s].epoch + (IF r.reason = "safety" THEN 1 ELSE 0)
    IN  /\ r.at = "read" /\ r.op = "end"
        /\ rows' = [rows EXCEPT ![s] = Ended(@, r.reason, epoch)]
        /\ To(q, "done")
        /\ UNCHANGED <<lock, scene, page>>

(* The row is read once more for the answer, and the lock released.        *)
Answer(q) ==
    LET r == requests[q]
    IN  /\ r.at = "done"
        /\ Back(q, Live(rows[r.session]))
        /\ Release(q)
        /\ UNCHANGED <<rows, scene, page>>

Serve(q) ==
    /\ requests[q] # None
    /\ Refused(q) \/ Read(q) \/ Refresh(q) \/ Reread(q) \/ Resume(q)
       \/ Start(q) \/ End(q) \/ Answer(q)

-----------------------------------------------------------------------------
(* What becomes of the answer.                                             *)

Free(q) == requests' = [requests EXCEPT ![q] = None]

BadTake(q) ==
    LET r == requests[q]
    IN  /\ r # None /\ r.at = "back"
        /\ page' = IF r.op # "end" /\ r.live THEN [page EXCEPT ![q[1]] = r.session] ELSE page
        /\ Free(q)
        /\ UNCHANGED <<rows, lock, scene>>

(* _setSession(answer)                                                     *)
Take(q) ==
    LET r == requests[q]
    IN  /\ r # None /\ r.at = "back"
        /\ page' = IF r.op = "end" THEN page
                   ELSE [page EXCEPT ![q[1]] = IF r.live THEN r.session ELSE 0]
        /\ Free(q)
        /\ UNCHANGED <<rows, lock, scene>>

Lose(q) ==
    /\ requests[q] # None /\ requests[q].at \in {"sent", "back"}
    /\ Fail({q})
    /\ UNCHANGED <<rows, lock, scene>>

-----------------------------------------------------------------------------
(* SceneService.start: it looks for live sessions, awaits more, and then   *)
(* occupies control or gives up, all of it under the lock.                 *)
SceneAsks ==
    /\ lock = None /\ ~scene
    /\ \A s \in LiveSessions : rows[s].age = Lapsed
    /\ lock' = Scenes
    /\ UNCHANGED <<rows, scene, requests, page>>

SceneEnters ==
    /\ lock = Scenes
    /\ lock' = None /\ scene' \in BOOLEAN
    /\ UNCHANGED <<rows, requests, page>>

SceneEnds == scene /\ scene' = FALSE /\ UNCHANGED <<rows, lock, requests, page>>

(* The process dies: requests in hand fail, and no scene survives.         *)
Restart ==
    /\ Fail({q \in Slots : requests[q] # None /\ requests[q].at \notin {"sent", "back"}})
    /\ lock' = None /\ scene' = FALSE
    /\ UNCHANGED rows

Aged(f) == [s \in Sessions |->
              IF f[s] # None THEN [f[s] EXCEPT !.age = Older(@)] ELSE None]

Tick ==
    /\ rows' = Aged(rows)
    /\ requests' = [q \in Slots |->
                      IF requests[q] # None THEN [requests[q] EXCEPT !.seen = Aged(@)]
                      ELSE None]
    /\ UNCHANGED <<lock, scene, page>>

Next ==
    \/ \E c \in Clients : \/ Beat(c) \/ AskSnapshot(c) \/ AskRecover(c) \/ AskStart(c)
                          \/ \E reason \in {"ordinary", "safety"} : AskEnd(c, reason)
    \/ \E q \in Slots : Serve(q) \/ Take(q) \/ Lose(q)
    \/ SceneAsks \/ SceneEnters \/ SceneEnds \/ Restart \/ Tick

Spec == Init /\ [][Next]_vars

(* The timer of a page that holds a session goes on; the server works on   *)
(* what it has, and asyncio.Lock serves who waits in turn (hence SF); an   *)
(* answer that is not lost is taken; a scene that starts comes to an end   *)
(* of it.                                                                  *)
Fairness ==
    /\ WF_vars(SceneEnters)
    /\ \A c \in Clients : WF_vars(Beat(c))
    /\ \A c \in Clients : /\ SF_vars(Serve(<<c, "beat">>) \/ Take(<<c, "beat">>))
                         /\ WF_vars(Serve(<<c, "act">>) \/ Take(<<c, "act">>))
LiveSpec == Spec /\ Fairness

-----------------------------------------------------------------------------
(* Every variable has its type, and the lock is held by a request at work. *)
TypeOK ==
    /\ rows \in [Sessions -> Row \cup {None}]
    /\ lock \in Slots \cup {Scenes, None} /\ scene \in BOOLEAN
    /\ requests \in [Slots -> RequestType \cup {None}]
    /\ page \in [Clients -> 0..MaxSessions]
    /\ \A q \in Slots :
          lock = q <=> requests[q] # None /\ Locked(requests[q].op) /\ requests[q].at \in AtWork

(* A scene and a session of legacy control never command the toys at the   *)
(* same time: while a scene occupies control no session is active within   *)
(* its heartbeat's time, although end and the readers' timeouts, which     *)
(* take no lock, may change the session between any two steps of a         *)
(* heartbeat, a start or the scene's entry (ownership.py).                 *)
SceneAlone ==
    scene => \A s \in LiveSessions : rows[s].status = "active" => rows[s].age = Lapsed

(* A page does not hold a session for ever that the server has ended,      *)
(* whatever late answer put it there and whatever is lost: its heartbeat   *)
(* goes on until it learns better (control_runtime.js).                    *)
Deceived(c) == page[c] # 0 /\ rows[page[c]].status = "ended"
PageLearns == \A c \in Clients : Deceived(c) /\ Owned(c) ~> ~Deceived(c)

(* An ended session, and with it the tombstone of a safety stop that keeps *)
(* control out of the prompts for twenty minutes, only grows older: no     *)
(* request touches it but one that read the row while it was live and has  *)
(* yet to write it, whatever end, start, timeouts and heartbeats do in     *)
(* between.  (That one does undo it: see README, Control.)                 *)
Overtaken(q, s) ==
    LET r == requests[q]
    IN  /\ r # None /\ r.at \in {"read", "resuming"}
        /\ r.op # "start" => r.session = s
        /\ r.seen[s] # None /\ r.seen[s].status # "ended"
TombstoneStands ==
    [][\A s \in Sessions :
          /\ rows[s] # None /\ rows[s].status = "ended"
          /\ \A q \in Slots : ~Overtaken(q, s)
          => rows'[s] = [rows[s] EXCEPT !.age = rows'[s].age]]_vars

=============================================================================
