------------------------------ MODULE SelfWake ------------------------------
(***************************************************************************)
(* Self-Wake: the Core leaves a time and an intention for its future self. *)
(* Rows live in SQLite (app/self_wake/repository.py); a scan claims due    *)
(* rows and starts one task per row (app/self_wake/service.py), each task  *)
(* asks the model once (app/self_wake/trigger.py).  A companionship        *)
(* ("Together") session suspends all of it (app/together/coexist.py) and   *)
(* diverts replies already on their way (app/together/delivery.py).        *)
(* Daily chat gives the relationship a new conversation every day, so one  *)
(* relationship spans several origin_refs (app/daily_chat/service.py).     *)
(*                                                                         *)
(* Every action is one SQLite transaction, or one stretch of a task        *)
(* between two awaits.                                                     *)
(***************************************************************************)
EXTENDS Integers, FiniteSets

CONSTANTS
    Wakes,         \* row ids a run may create
    Convs,         \* conversations (origin_ref)
    FirstConv,     \* the conversation daily chat starts from
    Limit,         \* MAX_SELF_WAKE_ATTEMPTS_PER_DAY
    Expiry,        \* WAKE_EXPIRY_SECONDS, in clock units
    Horizon,       \* MAX_WAKE_HORIZON_DAYS, in clock units
    DayLength,     \* an owner-local day, in clock units
    Offset,        \* the owner's timezone: clock units local time is ahead
    MaxAttempts,   \* bound: claims of one row
    MaxTime,       \* bound: last clock value
    MaxSessions,   \* bound: times companionship becomes active
    MaxStops       \* bound: shutdowns and crashes

ASSUME WakesAssumption == IsFiniteSet(Wakes)
ASSUME ConvsAssumption == FirstConv \in Convs
ASSUME NumbersAssumption ==
    /\ Limit \in Nat
    /\ Expiry \in Nat \ {0}
    /\ Horizon \in Nat \ {0}
    /\ DayLength \in Nat \ {0}
    /\ Offset \in Nat
    /\ MaxAttempts \in Nat \ {0}

VARIABLES
    now,        \* time.time()
    wake,       \* the self_wakes table
    holds,      \* the self_wake rows of together_holds
    pc,         \* pc[w][k]: the task started by the k-th claim of w
    attempts,   \* attempts[w]: claims of w so far
    called,     \* ghost: <<w, k>> whose provider call was started
    target,     \* target[w][k]: the conversation the k-th claim of w writes to
    outbox,     \* undelivered together_deliveries, by task
    chat,       \* wake replies in the messages table, by task
    active,     \* a Together session is active and its lease runs
    current,    \* daily chat's active conversation
    retired,    \* conversations redirected to it
    today,      \* daily chat's day_key
    known,      \* the redirects this process holds in memory
    loads,      \* ghost: the redirects that its reloads may have read
    deleted,    \* conversations the owner deleted
    erased,     \* ghost: wake replies the owner deleted from the chat
    up,         \* the backend runs / closes / is down
    sessions,   \* bound: how often active became TRUE
    stops       \* bound: shutdowns and crashes so far

vars == <<now, wake, holds, pc, attempts, called, target, outbox, chat, active,
          current, retired, today, known, loads, deleted, erased, up, sessions, stops>>
tables == <<wake, holds, outbox, chat>>
taskVars == <<pc, attempts, called, target>>
envVars == <<active, sessions>>
convVars == <<current, retired, today, known, loads, deleted, erased>>
procVars == <<up, stops>>

Never == -1
Attempts == 1..MaxAttempts
Tasks == Wakes \X Attempts
Day(t) == (t + Offset) \div DayLength

States == {"none", "pending", "consumed", "invalidated", "expired"}
Outcomes == {"unfinished", "deferred_together", "cancelled_on_shutdown",
             "not_called", "silent", "succeeded"}
Steps == {"idle", "preparing", "prepared", "failed", "checked", "deferred", "calling",
          "silent", "replying", "replied", "cancelled", "cleanup", "gone"}
Rows == [state : States, origin : Convs, conv : Convs, wakeAt : Nat, expiresAt : Nat,
         consumedAt : Nat \cup {Never}, outcome : Outcomes]
Holds == [wake : Wakes, started : Nat, expires : Nat]
Redirects == [retired : SUBSET Convs, target : Convs]

TypeOK ==
    /\ now \in Nat
    /\ wake \in [Wakes -> Rows]
    /\ holds \subseteq Holds
    /\ pc \in [Wakes -> [Attempts -> Steps]]
    /\ attempts \in [Wakes -> 0..MaxAttempts]
    /\ called \subseteq Tasks
    /\ target \in [Wakes -> [Attempts -> Convs]]
    /\ outbox \subseteq Tasks
    /\ chat \subseteq Tasks
    /\ active \in BOOLEAN
    /\ current \in Convs
    /\ retired \subseteq Convs
    /\ today \in Nat
    /\ loads \subseteq Redirects
    /\ known \in loads
    /\ deleted \subseteq Convs
    /\ erased \subseteq Tasks
    /\ up \in {"running", "closing", "down"}
    /\ sessions \in Nat
    /\ stops \in Nat

NoRow == [state |-> "none", origin |-> FirstConv, conv |-> FirstConv,
          wakeAt |-> 0, expiresAt |-> 0, consumedAt |-> Never, outcome |-> "unfinished"]

(* the rows of daily_chat_successors: every retired window redirects to    *)
(* the current one                                                         *)
Stored == [retired |-> retired, target |-> current]

Init ==
    /\ now = 0
    /\ wake = [w \in Wakes |-> NoRow]
    /\ holds = {}
    /\ pc = [w \in Wakes |-> [k \in Attempts |-> "idle"]]
    /\ attempts = [w \in Wakes |-> 0]
    /\ target = [w \in Wakes |-> [k \in Attempts |-> FirstConv]]
    /\ called = {} /\ outbox = {} /\ chat = {}
    /\ active = FALSE
    /\ current = FirstConv /\ retired = {} /\ today = Day(0)
    /\ known = Stored /\ loads = {Stored}
    /\ deleted = {} /\ erased = {}
    /\ up = "running"
    /\ sessions = 0 /\ stops = 0

-----------------------------------------------------------------------------
(* Reading the tables *)

Pending(rows) == {w \in Wakes : rows[w].state = "pending"}

(* resolve_conversation_id: a retired window stands for today's, as far as *)
(* the redirects in memory know                                            *)
Resolved(c) == IF c \in known.retired THEN known.target ELSE c

(* conversation_scope_ids: every window of the daily conversation is one *)
(* scope, any other conversation is a scope of its own.                  *)
Scope(c) == IF c \in known.retired \cup {known.target}
            THEN known.retired \cup {known.target} ELSE {c}

PendingIn(rows, c) == {w \in Pending(rows) : rows[w].origin \in Scope(c)}

(* Mistakes the runs must notice are named Bad... and stand before the     *)
(* definition they would replace; no action uses them.                     *)
BadSetState(rows, w, s) == [rows EXCEPT ![w].state = "replaced"]
SetState(rows, w, s) == [rows EXCEPT ![w].state = s]

ConsumedOn(rows, d) ==
    {w \in Wakes : rows[w].state = "consumed" /\ Day(rows[w].consumedAt) = d}

(* sync_holds_in_tx while companionship is active: INSERT OR IGNORE *)
HoldsTaken(rows) ==
    holds \cup {[wake |-> w, started |-> now, expires |-> rows[w].expiresAt] :
                   w \in {v \in Pending(rows) :
                             /\ rows[v].expiresAt > now
                             /\ \A h \in holds : h.wake # v}}

(* ... and while it is not: give back the time each hold has lasted.     *)
(* Used together with holds' = {}.                                       *)
BadElapsed(h) == 0
Elapsed(h) == IF now > h.started THEN now - h.started ELSE 0
HoldsReleased(rows) ==
    [w \in Wakes |->
        IF rows[w].state = "pending" /\ \E h \in holds : h.wake = w
        THEN LET h == CHOOSE x \in holds : x.wake = w
             IN  [rows[w] EXCEPT !.expiresAt = h.expires + Elapsed(h)]
        ELSE rows[w]]

-----------------------------------------------------------------------------
(* Tools the chat and Opportunity turns may use (service.py), each one     *)
(* transaction of the repository                                           *)

(* schedule_or_replace: the SELECT returns one pending row of the scope;   *)
(* the unique index refuses a second pending row of the same origin_ref.   *)
(* A turn that started before a rollover still names the old conversation, *)
(* and while the redirects in memory are older than the rollover so does   *)
(* the new row.  The times offered are bounded by MaxTime.                 *)
Replacements(c) ==
    IF PendingIn(wake, c) = {} THEN {wake}
    ELSE {SetState(wake, old, "invalidated") : old \in PendingIn(wake, c)}

NewRow(c, at) ==
    [state |-> "pending", origin |-> c, conv |-> Resolved(c), wakeAt |-> at, expiresAt |-> at + Expiry,
     consumedAt |-> Never, outcome |-> "unfinished"]

ScheduleOrReplace(c, w) ==
    /\ up = "running"
    /\ c \notin deleted
    /\ wake[w].state = "none"
    /\ \E rows \in Replacements(c), at \in (now + 1)..(now + Horizon) :
          /\ at <= MaxTime
          /\ \A v \in Pending(rows) : rows[v].origin # c
          /\ wake' = [rows EXCEPT ![w] = NewRow(c, at)]
    /\ UNCHANGED <<now, holds, outbox, chat, taskVars, envVars, convVars, procVars>>

CancelPending(c, w) ==
    /\ up = "running"
    /\ w \in PendingIn(wake, c)
    /\ wake' = SetState(wake, w, "invalidated")
    /\ UNCHANGED <<now, holds, outbox, chat, taskVars, envVars, convVars, procVars>>

(* delete_conversation with invalidate_origin_in_tx: the claimed wakes of *)
(* the conversation are left alone, its messages go with it               *)
Erase(replies) == chat' = chat \ replies /\ erased' = erased \cup replies

BadOrphaned(w, c) == wake[w].state \in {"pending", "consumed"} /\ wake[w].origin = c
Orphaned(w, c) == wake[w].state = "pending" /\ wake[w].origin = c

DeleteConversation(c) ==
    /\ up = "running"
    /\ c \notin deleted
    /\ deleted' = deleted \cup {c}
    /\ wake' = [w \in Wakes |-> IF Orphaned(w, c)
                                THEN [wake[w] EXCEPT !.state = "invalidated"]
                                ELSE wake[w]]
    /\ Erase({r \in chat : target[r[1]][r[2]] = c})
    /\ UNCHANGED <<now, holds, outbox, taskVars, envVars, current, retired, today, known, loads,
                  procVars>>

(* The owner deletes or regenerates one message *)
DeleteMessage(r) ==
    /\ up = "running" /\ r \in chat
    /\ Erase({r})
    /\ UNCHANGED <<now, wake, holds, outbox, taskVars, envVars, current, retired, today, known,
                  loads, deleted, procVars>>

(* ensure_current with _rollover: on a new day, or when the owner deleted  *)
(* the current window, a new one; the old ones redirect to it, and the     *)
(* conversation it follows when the current one is gone.  The transaction  *)
(* changes the tables only.                                                *)
Previous(c) == IF current \in deleted THEN {{p} : p \in Convs \ (deleted \cup {c})} \cup {{}}
               ELSE {{}}

(* _carry_live_state: UPDATE self_wakes SET conv_id=? *)
BadCarried(gone, c) == wake
Carried(gone, c) ==
    [w \in Wakes |->
        IF wake[w].conv \in gone /\ wake[w].state \in {"pending", "consumed"}
        THEN [wake[w] EXCEPT !.conv = c] ELSE wake[w]]

Rollover(c) ==
    /\ up = "running"
    /\ Day(now) > today \/ current \in deleted
    /\ c \notin retired \cup deleted \cup {current}
    /\ \A w \in Wakes : wake[w].state # "none" => wake[w].origin # c
    /\ \E previous \in Previous(c) :
          /\ retired' = retired \cup {current} \cup previous
          /\ wake' = Carried(retired', c)
    /\ current' = c
    /\ today' = Day(now)
    /\ loads' = loads \cup {Stored'}
    /\ UNCHANGED <<now, holds, outbox, chat, taskVars, envVars, known, deleted, erased, procVars>>

(* _load_cache reads the redirects and stores them after further awaits.   *)
(* Every caller of ensure_current reloads, so one that was overtaken puts  *)
(* redirects back that are older than those in memory.                     *)
Reload ==
    /\ up = "running"
    /\ known' \in loads \ {known}
    /\ UNCHANGED <<now, tables, taskVars, envVars, current, retired, today, loads, deleted,
                  erased, procVars>>

-----------------------------------------------------------------------------
(* The scan (SelfWakeRunner.scan_once over claim_due_batch)                *)

BadOverdue(rows) == {}
Overdue(rows) == {w \in Pending(rows) : rows[w].expiresAt <= now}
Due(rows) == {w \in Pending(rows) : rows[w].wakeAt <= now /\ rows[w].expiresAt > now}

BadRemaining(rows) == Limit
Remaining(rows) ==
    LET used == Cardinality(ConsumedOn(rows, Day(now)))
    IN  IF used < Limit THEN Limit - used ELSE 0

(* due[:remaining], ordered by wake_at *)
IsClaim(rows, S) ==
    /\ S \subseteq Due(rows)
    /\ Cardinality(S) <= Remaining(rows)
    /\ S # Due(rows) => Cardinality(S) = Remaining(rows)
    /\ \A w \in S : \A v \in Due(rows) \ S : rows[w].wakeAt <= rows[v].wakeAt

Claimed(rows, S) ==
    [w \in Wakes |->
        CASE w \in S -> [rows[w] EXCEPT !.state = "consumed", !.consumedAt = now]
          [] w \in (Overdue(rows) \cup Due(rows)) \ S ->
                 [rows[w] EXCEPT !.state = "expired"]
          [] OTHER -> rows[w]]

(* The scan stands aside while companionship is active: it only takes holds *)
ScanHeld ==
    /\ up = "running" /\ active
    /\ holds' = HoldsTaken(wake)
    /\ UNCHANGED <<now, wake, outbox, chat, taskVars, envVars, convVars, procVars>>

ClaimTx(S) ==
    /\ ~active
    /\ IsClaim(HoldsReleased(wake), S)
    /\ \A w \in S : attempts[w] < MaxAttempts
    /\ wake' = Claimed(HoldsReleased(wake), S)
    /\ holds' = {}
    /\ attempts' = [w \in Wakes |-> IF w \in S THEN attempts[w] + 1 ELSE attempts[w]]
    /\ target' = [w \in Wakes |->
                    IF w \in S THEN [target[w] EXCEPT ![attempts[w] + 1] = wake[w].conv]
                    ELSE target[w]]

ScanOnce(S) ==
    /\ up = "running"
    /\ ClaimTx(S)
    /\ pc' = [w \in Wakes |->
                IF w \in S THEN [pc[w] EXCEPT ![attempts[w] + 1] = "preparing"]
                ELSE pc[w]]
    /\ UNCHANGED <<now, called, outbox, chat, envVars, convVars, procVars>>

-----------------------------------------------------------------------------
(* One task: fire_claimed_wake                                             *)

Goto(w, k, from, to) ==
    /\ up # "down"
    /\ pc[w][k] = from
    /\ pc' = [pc EXCEPT ![w][k] = to]

(* prepare_self_wake_turn finds the conversation that the row's one stands *)
(* for now (_load_target) ...                                              *)
Prepare(w, k) ==
    /\ Resolved(target[w][k]) \notin deleted
    /\ Goto(w, k, "preparing", "prepared")
    /\ UNCHANGED <<now, tables, attempts, called, target, envVars, convVars, procVars>>

(* ... or raises, as anything up to the provider call may *)
PrepareFails(w, k) ==
    /\ \E from \in {"preparing", "prepared", "checked"} : Goto(w, k, from, "failed")
    /\ UNCHANGED <<now, tables, attempts, called, target, envVars, convVars, procVars>>

(* `if await together_active() and ...': the read that decides *)
CheckTogether(w, k) ==
    /\ IF active
       THEN /\ Goto(w, k, "prepared", "checked")
            /\ UNCHANGED called
       ELSE /\ Goto(w, k, "prepared", "calling")
            /\ called' = called \cup {<<w, k>>}
    /\ UNCHANGED <<now, tables, attempts, target, envVars, convVars, procVars>>

(* defer_unstarted found companionship over again: go on and call *)
DeferRefused(w, k) ==
    /\ ~active
    /\ Goto(w, k, "checked", "calling")
    /\ called' = called \cup {<<w, k>>}
    /\ UNCHANGED <<now, tables, attempts, target, envVars, convVars, procVars>>

(* The claim is undone only while the row is still this unfinished claim; *)
(* "newer" looks at the row's own origin_ref.                             *)
Undoable(w) == wake[w].state = "consumed" /\ wake[w].outcome = "unfinished"
BadHasNewer(w) == FALSE
HasNewer(w) == \E v \in Pending(wake) : wake[v].origin = wake[w].origin
Undone(w) ==
    [wake EXCEPT ![w].state = IF HasNewer(w) THEN "invalidated" ELSE "pending",
                 ![w].consumedAt = Never]

DeferUnstarted(w, k) ==
    /\ active
    /\ Goto(w, k, "checked", "deferred")
    /\ IF Undoable(w)
       THEN /\ wake' = Undone(w)
            /\ holds' = HoldsTaken(Undone(w))
       ELSE UNCHANGED <<wake, holds>>
    /\ UNCHANGED <<now, outbox, chat, attempts, called, target, envVars, convVars, procVars>>

(* The provider failed, answered nothing usable, or only used tools *)
BadCallSilent(w, k) ==
    /\ Goto(w, k, "calling", "silent")
    /\ wake' = [wake EXCEPT ![w].state = "pending", ![w].consumedAt = Never]
    /\ UNCHANGED <<now, holds, outbox, chat, attempts, called, target, envVars, convVars, procVars>>

CallSilent(w, k) ==
    /\ Goto(w, k, "calling", "silent")
    /\ UNCHANGED <<now, tables, attempts, called, target, envVars, convVars, procVars>>

CallReplies(w, k) ==
    /\ Goto(w, k, "calling", "replying")
    /\ UNCHANGED <<now, tables, attempts, called, target, envVars, convVars, procVars>>

(* _persist_visible_message with defer_in_tx: one transaction, refused if  *)
(* it would write to a conversation that is gone.  It names the row's own  *)
(* conversation, not the one that was resolved for the prompt.             *)
BadReturn(w, k) == /\ outbox' = (IF active THEN outbox \cup {<<w, k>>} ELSE outbox)
                   /\ chat' = chat \cup {<<w, k>>}
BadChannel(w, k) == chat' = chat \cup {<<w, k>>} /\ UNCHANGED outbox
Delivered(w, k) ==
    IF active THEN /\ outbox' = outbox \cup {<<w, k>>} /\ UNCHANGED chat
              ELSE /\ chat' = chat \cup {<<w, k>>} /\ UNCHANGED outbox

PersistVisible(w, k) ==
    /\ active \/ target[w][k] \notin deleted
    /\ Goto(w, k, "replying", "replied")
    /\ Delivered(w, k)
    /\ UNCHANGED <<now, wake, holds, attempts, called, target, envVars, convVars, procVars>>

BadPersistFails(w, k) ==
    /\ Goto(w, k, "replying", "replied")
    /\ UNCHANGED <<now, tables, attempts, called, target, envVars, convVars, procVars>>

PersistFails(w, k) ==
    /\ Goto(w, k, "replying", "silent")
    /\ UNCHANGED <<now, tables, attempts, called, target, envVars, convVars, procVars>>

(* conclude -> finish_trigger: WHERE id=? AND state='consumed'.  What      *)
(* follows the reply may still raise: 'trigger_failed' counts as silent.   *)
BadFinished(w, o) ==
    IF wake[w].state = "consumed" /\ o = "succeeded"
    THEN [wake EXCEPT ![w].outcome = o] ELSE wake
Finished(w, o) ==
    IF wake[w].state = "consumed" THEN [wake EXCEPT ![w].outcome = o] ELSE wake

Ends == {<<"failed", "not_called">>, <<"deferred", "deferred_together">>,
         <<"silent", "silent">>, <<"replied", "succeeded">>, <<"replied", "silent">>,
         <<"cancelled", "cancelled_on_shutdown">>}

Conclude(w, k) ==
    \E end \in Ends :
        /\ Goto(w, k, end[1], "cleanup")
        /\ wake' = Finished(w, end[2])
        /\ UNCHANGED <<now, holds, outbox, chat, attempts, called, target, envVars, convVars, procVars>>

(* The finally block: release_feedback, settle and record_turn are awaited *)
Cleanup(w, k) ==
    /\ Goto(w, k, "cleanup", "gone")
    /\ UNCHANGED <<now, tables, attempts, called, target, envVars, convVars, procVars>>

-----------------------------------------------------------------------------
(* The process *)

Live(w, k) == pc[w][k] \notin {"idle", "gone"}

(* SelfWakeRunner.shutdown: every task not done is cancelled at its await, *)
(* in the finally block too, and then writes 'cancelled_on_shutdown'       *)
Cancelled == [w \in Wakes |-> [k \in Attempts |->
                 IF Live(w, k) THEN "cancelled" ELSE pc[w][k]]]

Shutdown ==
    /\ up = "running" /\ stops < MaxStops
    /\ up' = "closing" /\ stops' = stops + 1
    /\ pc' = Cancelled
    /\ UNCHANGED <<now, tables, attempts, called, target, envVars, convVars>>

(* The scan loop is cancelled inside claim_due_batch: the rows are already *)
(* committed as consumed and no task will ever be started for them.        *)
ShutdownDuringScan(S) ==
    /\ up = "running" /\ stops < MaxStops
    /\ S # {} /\ ClaimTx(S)
    /\ up' = "closing" /\ stops' = stops + 1
    /\ pc' = [w \in Wakes |->
                IF w \in S THEN [Cancelled[w] EXCEPT ![attempts[w] + 1] = "gone"]
                ELSE Cancelled[w]]
    /\ UNCHANGED <<now, called, outbox, chat, envVars, convVars>>

Exit ==
    /\ up = "closing"
    /\ \A w \in Wakes, k \in Attempts : ~Live(w, k)
    /\ up' = "down"
    /\ UNCHANGED <<now, tables, taskVars, envVars, convVars, stops>>

(* The process dies: tasks vanish, committed rows stay as they are *)
Crash ==
    /\ up # "down" /\ stops < MaxStops
    /\ up' = "down" /\ stops' = stops + 1
    /\ pc' = [w \in Wakes |-> [k \in Attempts |->
                IF pc[w][k] = "idle" THEN "idle" ELSE "gone"]]
    /\ UNCHANGED <<now, tables, attempts, called, target, envVars, convVars>>

(* TogetherRepository.recover revokes the lease: heartbeat_at=0.  The      *)
(* lifespan awaits ensure_current before anything that resolves.           *)
Restart ==
    /\ up = "down"
    /\ up' = "running"
    /\ active' = FALSE
    /\ known' = Stored /\ loads' = {Stored}
    /\ UNCHANGED <<now, tables, taskVars, sessions, current, retired, today, deleted, erased, stops>>

-----------------------------------------------------------------------------
(* Together, as Self-Wake sees it, and the clock *)

(* create or heartbeat: the session's lease (re)starts, holds in that tx *)
TogetherActivate ==
    /\ up = "running" /\ ~active /\ sessions < MaxSessions
    /\ active' = TRUE /\ sessions' = sessions + 1
    /\ holds' = HoldsTaken(wake)
    /\ UNCHANGED <<now, wake, outbox, chat, taskVars, convVars, procVars>>

(* The lease runs out, or the feature is switched off: nothing is written *)
TogetherLapse ==
    /\ active /\ active' = FALSE
    /\ UNCHANGED <<now, tables, taskVars, sessions, convVars, procVars>>

(* TogetherRepository.finish: ended and holds released in one transaction *)
TogetherFinish ==
    /\ up = "running" /\ active
    /\ active' = FALSE
    /\ wake' = HoldsReleased(wake) /\ holds' = {}
    /\ UNCHANGED <<now, outbox, chat, taskVars, sessions, convVars, procVars>>

(* TogetherService.tick, first transaction, while companionship is over *)
TickReleases ==
    /\ up = "running" /\ ~active /\ holds # {}
    /\ wake' = HoldsReleased(wake) /\ holds' = {}
    /\ UNCHANGED <<now, outbox, chat, taskVars, envVars, convVars, procVars>>

(* TogetherService.tick, second transaction: delivery.drain.  It asks no   *)
(* conversation whether it still exists, and its connection enforces no    *)
(* foreign key.                                                            *)
BadTickDrains ==
    /\ up = "running" /\ ~active /\ outbox # {}
    /\ outbox' = {}
    /\ UNCHANGED <<now, wake, holds, chat, taskVars, envVars, convVars, procVars>>

TickDrains ==
    /\ up = "running" /\ ~active /\ outbox # {}
    /\ chat' = chat \cup outbox /\ outbox' = {}
    /\ UNCHANGED <<now, wake, holds, taskVars, envVars, convVars, procVars>>

ClockTick ==
    /\ now < MaxTime
    /\ now' = now + 1
    /\ UNCHANGED <<tables, taskVars, envVars, convVars, procVars>>

-----------------------------------------------------------------------------
TaskStep(w, k) ==
    \/ Prepare(w, k)
    \/ PrepareFails(w, k)
    \/ CheckTogether(w, k)
    \/ DeferRefused(w, k)
    \/ DeferUnstarted(w, k)
    \/ CallSilent(w, k)
    \/ CallReplies(w, k)
    \/ PersistVisible(w, k)
    \/ PersistFails(w, k)
    \/ Conclude(w, k)
    \/ Cleanup(w, k)

Next ==
    \/ \E c \in Convs, w \in Wakes : ScheduleOrReplace(c, w) \/ CancelPending(c, w)
    \/ \E c \in Convs : DeleteConversation(c) \/ Rollover(c)
    \/ \E r \in Tasks : DeleteMessage(r)
    \/ Reload
    \/ ScanHeld
    \/ \E S \in SUBSET Wakes : ScanOnce(S) \/ ShutdownDuringScan(S)
    \/ \E w \in Wakes, k \in Attempts : TaskStep(w, k)
    \/ Shutdown \/ Exit \/ Crash \/ Restart
    \/ TogetherActivate \/ TogetherLapse \/ TogetherFinish
    \/ TickReleases \/ TickDrains
    \/ ClockTick

Spec == Init /\ [][Next]_vars

(* The loops the server runs forever (a scan every ten seconds, a Together *)
(* tick every second), tasks that the event loop always resumes and whose  *)
(* provider call has a timeout, a supervisor that restarts the process,    *)
(* and time.                                                               *)
Fairness ==
    /\ WF_vars(\E S \in SUBSET Wakes : ScanOnce(S))
    /\ \A w \in Wakes, k \in Attempts : WF_vars(TaskStep(w, k))
    /\ WF_vars(Exit) /\ WF_vars(Restart)
    /\ WF_vars(TickDrains) /\ WF_vars(TickReleases)
    /\ WF_vars(ClockTick)

FairSpec == Spec /\ Fairness

-----------------------------------------------------------------------------
(* What must hold *)

(* The model is asked for a turn at most once for a wake, however often    *)
(* its claim was undone and taken again ("This function never retries      *)
(* it").  A turn's own supplement that picks a sticker is not counted.     *)
AtMostOneCall ==
    \A w \in Wakes : \A j, k \in Attempts :
        <<w, j>> \in called /\ <<w, k>> \in called => j = k

(* A wake the model was asked for stays consumed: no cancellation, no      *)
(* deletion and no companionship gives its place in the quota back.        *)
CallNeverRefunded ==
    [][\A w \in Wakes : (\E k \in Attempts : <<w, k>> \in called)
          => wake'[w].state = "consumed"]_vars

(* No owner-local day ever counts more than Limit claimed wakes, also when *)
(* claims are handed back and taken again on another day.                  *)
DailyQuota ==
    \A w \in Wakes : wake[w].state = "consumed" =>
        Cardinality(ConsumedOn(wake, Day(wake[w].consumedAt))) <= Limit

(* Two pending wakes never share an origin_ref: the unique index is never  *)
(* met by the claim that defer_unstarted hands back.                       *)
OnePendingPerOrigin ==
    \A v, w \in Pending(wake) : wake[v].origin = wake[w].origin => v = w

(* A wake that may still speak names a window daily chat has left in one   *)
(* way only: it was scheduled after the rollover with redirects that are   *)
(* older.  No claim, undone claim or rollover leaves one behind, and the   *)
(* next rollover collects those.                                           *)
Strays == {w \in Wakes : wake[w].state \in {"pending", "consumed"} /\ wake[w].conv \in retired}
CarriedAlong ==
    [][ /\ current' # current => Strays' = {}
        /\ \A w \in Strays' \ Strays : wake[w].state = "none" /\ known # Stored ]_vars

(* A reply is in the messages table, waits for it or was deleted from it   *)
(* by the owner, one of the three: a drain brings no deleted one back.  It *)
(* comes from a call that was made, and is the wake's only one.            *)
Replies == outbox \cup chat \cup erased
Apart == outbox \cap chat = {} /\ erased \cap (outbox \cup chat) = {}
RepliesOnce ==
    /\ Apart
    /\ Replies \subseteq called
    /\ \A r, s \in Replies : r[1] = s[1] => r = s

(* The outcome 'succeeded' in the table means that the wake's reply is in  *)
(* the chat or kept until companionship is over, unless the owner has      *)
(* deleted it, alone or with its conversation.                             *)
SucceededReplied ==
    \A w \in Wakes : wake[w].outcome = "succeeded" =>
        \E k \in Attempts : <<w, k>> \in Replies

(* Nothing appears in the ordinary chat while companionship is active.     *)
SilentDuringTogether == [][~(chat' \subseteq chat) => ~active]_vars

(* The minutes a held wake had left when companionship began are the       *)
(* minutes it has left when its hold is released, however the release      *)
(* comes about; the same transaction may claim it or find the quota used   *)
(* up, but never finds it overdue.                                         *)
HoldsPreserveGrace ==
    [][\A h \in holds :
          h \notin holds' /\ wake[h.wake].state = "pending" =>
              /\ wake'[h.wake].expiresAt - now' = h.expires - h.started
              /\ wake'[h.wake].state = "expired" => wake[h.wake].wakeAt <= now]_vars

(* Once no companionship session starts any more, every wake left for      *)
(* later is claimed or closed ...                                          *)
EveryWakeSettles ==
    <>[](~active) => \A w \in Wakes :
        (wake[w].state = "pending") ~> (wake[w].state # "pending")

(* ... and every reply kept back reaches the chat.                         *)
RepliesArrive ==
    <>[](~active) => \A r \in Tasks : (r \in outbox) ~> (r \in chat)

(* While the process is neither stopped nor killed, a claimed wake gets an *)
(* outcome or its claim is undone.                                         *)
ClaimsConclude ==
    [](stops = 0) => \A w \in Wakes :
        (wake[w].state = "consumed" /\ wake[w].outcome = "unfinished") ~>
        ~(wake[w].state = "consumed" /\ wake[w].outcome = "unfinished")

-----------------------------------------------------------------------------
(* The contract this implements *)

Called(w) == \E k \in Attempts : <<w, k>> \in called
phase == [w \in Wakes |->
            CASE Called(w) -> "called"
              [] ~Called(w) /\ wake[w].state = "consumed" -> "claimed"
              [] ~Called(w) /\ wake[w].state \in {"invalidated", "expired"} -> "closed"
              [] OTHER -> wake[w].state]
asked == [w \in Wakes |-> Cardinality({k \in Attempts : <<w, k>> \in called})]

Contract == INSTANCE WakeContract WITH phase <- phase, asked <- asked
Implements == Contract!Spec

-----------------------------------------------------------------------------
(* What the comments and tests promise and the code does not keep *)

(* "Undo a claim if companionship began before the actual provider call"   *)
(* (repository.py:278): when the task stands down, its wake is not charged.*)
StandingDownRefunds ==
    [][\A w \in Wakes, k \in Attempts :
          pc[w][k] = "checked" /\ pc'[w][k] = "deferred"
             => wake'[w].state # "consumed"]_vars

(* "Rewriting the same terminal outcome is harmless" (service.py:311): the *)
(* shutdown rewrites an outcome with the same outcome only.                *)
OutcomeIsFinal ==
    [][\A w \in Wakes : wake[w].outcome = "succeeded"
          => wake'[w].outcome = "succeeded"]_vars
=============================================================================
