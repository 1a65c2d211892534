# obsidian-vow in TLA+

obsidian-vow is a private companion: a FastAPI/asyncio backend over SQLite
(`src/obsidian-chat`), an Android app (`src/ObsidianApp`), browser pages, and a
Windows agent (`src/pc_agent`). A language model, the *Core*, talks to one owner,
wakes itself up, shares a room with the owner ("Together"), and drives toys in
timed "scenes". This directory models the parts of it whose correctness depends
on the order in which tasks, requests, messages, crashes and clocks meet.

Contents: 1 inventory - 2 Self-Wake - 3 Together - 4 scene lease - 5 scene link -
6 scene server - 7 Control - 8 working model - 9 runs, bounds and fairness -
10 proofs - 11 where code and words disagree - 12 what is not modelled - 13 plan.

## 1 Inventory

Three facts shape every part of the backend. It is one asyncio process, so code
between two `await`s is atomic and everything else interleaves. SQLite
transactions opened with `BEGIN IMMEDIATE` are serialised. `task.cancel()` takes
effect at the task's next `await`, including one inside a `finally`.

### Components that keep state and run concurrently

| component | state | operations | hard behaviour | correct when |
|---|---|---|---|---|
| Self-Wake (`app/self_wake`) | rows `pending/consumed/invalidated/expired`, outcome, daily quota | schedule or replace, cancel, scan, task of a claimed row, shutdown, restart | claim, undo and late writes of two tasks for one row; local days; crash after claim | one model call per wake, quota never exceeded, reply delivered once |
| Daily chat (`app/daily_chat`) | active conversation, redirects, day key | rollover, resolve, scope | rollover while wakes are pending or in flight | nothing keeps pointing at a window left behind |
| Together, coexistence (`together/coexist.py`, `delivery.py`) | holds, deliveries | take and release holds, defer, drain | lease lapses without writing anything | replies neither lost, doubled nor shown during companionship |
| Together, room (`together/service.py`, `repository.py`, `chat_gate.py`) | session, turns, messages, captures; worker per room, lock, cancel reasons | start, message, heartbeat, source change, retry, end, worker, tick, sweep, recovery | cancellation at any await; tick acting on what it read before an await | each message answered at most once, owner first, no words after the end, photos kept |
| Together, writeback (`together/writeback.py`) | outbox row per finished room | claim, complete, fail, retry | crash between provider call and commit | at most once, explicit retry |
| Scene lease (`core/SceneLease.java`) | token, generation, deadline, newest frame, fences | open, request, renew, frame, permits, close | any thread, any old token, late answers | nothing revoked is permitted again |
| Scene phone (`SceneDeviceBridge`, `SceneOutputPlayer`) | one run, its poll, its program | begin, pulse, poll, receive, stop, panic, observe | lost and late polls and replies; death of the app | plays only what the server vouched for lately |
| Scene server (`app/scenes/session.py`) | status, generation, program, belief, wakes, worker, compilers | start, messages, action, output, tick, end, recover | it can only answer polls; cancelled tasks; results of old compilers | stale generations change nothing, no message is left without a worker |
| Scene transports (`SceneSk*`, `BleBridge`) | queue per driver, write epochs | send, stop, reconfigure | a stop overtaken by a queued write | the last write of a stop stands |
| Control and modes (`app/control`, `app/modes`) | session owner, epoch, heartbeat | start, heartbeat, recover, end, command | read, await, then write by id; some without the lock | never beside a scene; what a safety stop leaves stands |
| Presence (`app/presence`, `pc_agent/presence_worker.py`) | sprite events queued, dispatched, accepted, expired | queue, poll, acknowledge, expire | lost poll, late acknowledgement | shown at most once, or expired |
| Memory v3 (`app/memory_v3`) | pending recall per conversation; card versions | queue, bind, consume, supersede | a recall chosen for one message, consumed by another | consumed once, by the right message |
| Working Model (`app/working_model`, with `desire`, `reflection`) | requests, versions of model and desire, notes | claim, gate, writer, terminal outcome | two providers awaited between transactions; crash in any of them | each source learned once, over what its writer was shown |
| Schedule (`app/schedule`) | alarms, last trigger | tick, fire, CRUD | marked before fired; tick cut after 120 s | every alarm fires once |

The other components (prompting, retrieval, stickers, images, location,
documents, web search and push, tools, device registry, operations, the rest of
the clients) are in `PROJECT.json` with the reason each is left out: they are
pure computation, provider I/O, or single transactions guarded by a version.

Modelled: Self-Wake, the room with its chat gate and its writeback, the scene's
lease, phone and server, the control sessions, the working model with desire and
the reflection's handoff. Partly: daily chat and coexistence (what Self-Wake meets
of them), control (no commands), reflection, the web pages. Not yet: transports,
modes, presence, memory v3, schedule (section 13).

### How they interact

* The Self-Wake scan, a Self-Wake task and chat commands all read *is Together
  active* inside their own transactions (`active_in_tx`); a room's create, heartbeat
  and finish take and release holds in theirs. Active means: the session row is
  active **and** its heartbeat lease runs, so it can become false with no write.
* A Self-Wake reply goes to `messages`, or, during companionship, to
  `together_deliveries`, which Together's tick drains.
* Daily chat moves the pending wakes of the old window to the new one in the
  rollover transaction.
* An ordinary chat turn and a room exclude each other through
  `together/chat_gate.py`: a set of ordinary turns whose generation still runs, and
  a refusal while a session row is active, both under `control_mode_lock`.
* Control, the scenes, and the room's start share `control_mode_lock`; a scene enters
  only while no control session is active within its heartbeat's time
  (`app/control/ownership.py`).
* A finished room leaves jobs in its outbox; the drain hands understandings to the
  working model's pipeline, which chat turns and reflections enter too.
* The scene server never calls the phone. The phone polls; a reply renews the
  lease and carries status and program; stops travel as *orders* that page and
  phone retry.

## 2 Self-Wake: `WakeContract`, `SelfWake`, `SelfWakeProofs`, `SelfWakeRowsProofs`, `MCSelfWake`

`SelfWake.tla` models the table, the scan, the task of each claim, daily chat and
companionship as Self-Wake sees it. Every action is one transaction, or one
stretch of a task between two awaits.

| state | code |
|---|---|
| `wake[w]` | row of `self_wakes`: state, origin_ref, conversation_id, wake_at, expires_at, consumed_at, outcome |
| `holds` | `together_holds` of kind self_wake: what it held, since when, its expiry |
| `pc[w][k]`, `attempts` | the task started for the k-th claim of `w` |
| `outbox`, `chat`, `erased` | undelivered `together_deliveries`; wake replies in `messages`; those the owner deleted from it (history) |
| `active` | `active_in_tx`: session active and lease running |
| `current`, `retired`, `today`, `deleted` | daily chat's conversation, redirects, day, as the tables have them; conversations deleted by the owner |
| `known`, `loads` | the redirects in memory; all that were ever in the tables (history), any of which a late reload may put back |
| `up` | running, closing (inside `shutdown`), down |
| `called`, `target` | history: which task asked the model; where it writes |

| action | code |
|---|---|
| `ScheduleOrReplace`, `CancelPending` | `schedule_or_replace`, `cancel_pending` |
| `DeleteConversation`, `DeleteMessage` | the chat's deletes: `invalidate_origin_in_tx` in the same transaction, and the messages go with the conversation |
| `Rollover` | `ensure_current`'s `_rollover` transaction: new window, redirects, pending wakes carried along |
| `Reload` | `_load_cache`, after the commit and several awaits: until then wakes are scheduled with the redirects of before |
| `ScanHeld`, `ScanOnce(S)` | `claim_due_batch`: one transaction that syncs holds, expires what is overdue and claims the due rows the quota leaves room for; then a task for each |
| `Prepare` .. `Cleanup` | `trigger.py`: context, `CheckTogether`, `DeferUnstarted` (undo of a claim), the model call, `PersistVisible`, `Conclude` (`finish_trigger`), `finally` |
| `Shutdown`, `ShutdownDuringScan`, `Exit`, `Crash`, `Restart` | `SelfWakeRunner.shutdown` and the lifecycle |
| `TogetherActivate/Lapse/Finish`, `TickReleases`, `TickDrains` | create or heartbeat, lease end, `finish`, the tick's two transactions |

`WakeContract.tla` is the promise per wake: *left for later, claimed, perhaps
handed back while the model was not asked, asked at most once, never undone
after that*. `SelfWake` implements it under the mapping `phase`, `asked`.

Properties: `AtMostOneCall`, `CallNeverRefunded`, `DailyQuota` (per owner-local
day, although claims are undone and repeated on other days), `OnePendingPerOrigin`,
`CarriedAlong` (a rollover leaves no wake behind, and afterwards only a wake *scheduled with
older redirects* names a window already left), `RepliesOnce`, `SucceededReplied` (the reply
is there, or kept, or the owner deleted it), `SilentDuringTogether`,
`HoldsPreserveGrace`, `Implements`; with fairness `EveryWakeSettles`,
`RepliesArrive`, `ClaimsConclude`.

## 3 Together: `TogetherContract`, `Together`, `TogetherProofs`, `MCTogether`

One asyncio task per room claims a turn under `service.lock`, calls the model
outside every lock and writes back in one transaction. `task[s].cut` marks a
cancellation asyncio has not yet delivered: a cut task takes no other step, and
where it stands decides which handler sees the `CancelledError`.

| state | code |
|---|---|
| `room`, `turn`, `msg`, `cap` | `together_sessions`, `_turns`, owner's `_messages`, `_captures` |
| `task`, `reason` | `service.workers` and `service.running`; `service.cancel_reasons` |
| `tick` | the room `tick()` has seen offline before its `await` and will cancel |
| `ordinary`, `reserved` | `chat_gate`: an ordinary turn's request, then its generation; its claim in `_running` |
| `enabled`, `closed`, `recovered` | configuration; `service.closed`; `recover()` has run |

Actions: requests `Start Message Heartbeat ChangeSource RetryMessage RetryOpening
End Configure RequestPhoto ReceiveCapture`; the worker `Claim NothingToDo
BeginTurn Ask Answered Finish FinishReturns TurnFails TurnInterrupted Abort
AbortFails Cleanup TaskInterrupted`; the tick `TickKicks TickExpires
TickCuts Sweep`; time `LeaseEnds WakeFallsDue CaptureAges`; ordinary chat
`OrdinaryBegins HandlerReturns GenerationEnds`; life `Close Restart Recover`.

Time is abstract: a lease, a capture request, a photo and a planned return run
out at any moment after they were set, which covers every real duration. A model
call may also return anything; what it says is kept as *none, partial, full*. `Noting` is
the one stretch of `_run_turn`'s `try` that lies after completion: a planned return writes
to `heart_works`, and a failure or a cancellation there still goes through `abort_turn`,
which must leave the completed turn alone. `AbortFails` is a failing database, or a second
cancellation, inside `abort_turn` itself.

`TogetherContract.tla` is what companionship promises of its conversation, without
tasks, locks, ticks, frames and the process: *one room at a time and none beside an
ordinary reply; turns one after the other, the earliest waiting message first and a word
of the Core's own only when none waits; a turn is completed together with the message it
answers, or breaks off and gives it back; what has ended stays as it is*. `Together`
implements it: `course`, `said`, `post` and `talking` read rooms, turns, messages and
the gate.

Properties: `Implements`, `OneAnswer`, `OwnerComesFirst`, `RoomOrChat`, `EndedStaysSilent`,
`PhotoKept`, `FreshFrames`. Not modelled: `set_model` (one column), transcription,
cleanup of transcripts, the account of active seconds, trimming of old rows.

## 4 Scene lease: `SceneLease`, `SceneLeaseProofs`, `MCSceneLease`

`core/SceneLease.java` is the phone's own authority: whatever the server or the
network does, no toy moves unless `permits()` says so. Each method is
`synchronized`, so one call is one step, and callers are *any* threads with *any*
token or nonce ever handed out. A token, a random UUID, is the number of its
opening; `opened`, `asked`, `answered` are history that no guard reads.

`Open Request Renew Frame Close Tick` are the methods and the clock. Properties:
`GenerationsRise` (a stopped generation never gets a token again, whichever
session held the lease in between), `SilenceBound` (a lease ends TTL after its
opening or after the *sending* of a poll that was answered in time),
`AnswersInOrder`, `RevokedForGood` (a frame that may not go out never may again).

## 5 Scene link: `SceneLink`, `SceneLinkProofs`, `MCSceneLink`

One scene from start to end: server, network, page and phone. It uses SceneLease
as the phone's lease (`Lease == INSTANCE SceneLease`), so a poll is
`Lease!Request`, an accepted reply `Lease!Renew`, a stop `Lease!Close`.

| state | code |
|---|---|
| `status`, `gen`, `waning`, `revealed` | `row["status"]` (`gone` after the process died: it answers 404), `row["generation"]`, aftercare, card revealed |
| `sound`, `believed` | the player's version and whether it plays; the version the prompts are told is playing (`actual_output`) |
| `wire`, `reply`, `orders`, `grants` | polls on their way; the answer to the waiting poll; generations to be paused; generations the page may start |
| `run` | the bridge's `Run`: generation, poll, loaded program, and the reply that vouched for it |
| `stopped`, `adopted` | history |

The server (`Enter Arrange WindDown ServerPauses Resume End ServerDies
HandleOrder HandlePoll`) takes its decisions at any time the status allows: a
compiled sequence, a safeword, a failed model and a tick that misses the phone
are reasons of `Arrange` and `ServerPauses`, and *when* the tick fires is not
modelled. Polls and replies may be arbitrarily late or lost: a poll that is never
handled, or handled when its run is gone, is the lost one. The phone and the page are
`Begin PageAsks Poll Expire Accept Reject PollFails PhoneStops Observe PhoneDies`.

Properties: `Vouched` (whatever plays, the server said less than TTL ago that
this very program of this generation is to be played), `StoppedForGood` (across
late and repeated grants and the death of the app), `ReportsWhatPlayed` (the
prompts are told only of programs the phone played), and
`DelayedPausesSpareTheResumed` (an order or poll of an earlier generation changes
nothing).

## 6 Scene server: `SceneContract`, `SceneServer`, `SceneServerProofs`

The other half of the scene server: SceneLink leaves open when it arranges, pauses
and ends; `SceneServer.tla` is the machinery that decides it. Every handler of
`app/scenes/session.py` holds `service.lock` from its first read to its last write,
so a handler is one step; what lives between handlers are tasks that wait for a
model or for the lock, and they may be cancelled there.

| state | code |
|---|---|
| `status`, `generation`, `phase`, `revealed` | the row of `scene_sessions` |
| `preparation` | the task that finds a card |
| `wakes`, `due`, `inbox` | `pending_wakes` not empty, `due_at` set, `pending_messages` with the generation that accepted them |
| `worker` | the task `rt.worker` refers to: where it stands, its generation, cancelled or not |
| `compilers[d]` | the compiler of device d that `valid()` would still heed: its turn and generation |
| `arranged[d]`, `playing[d]` | the last wish carried out, and whose sequence plays, each named by its turn |
| `linked`, `late` | the phone vouches for all devices; which clock is overdue |
| `turn`, `floor`, `sent` | history |

Two rules of asyncio make this hard. A task cancelled before its first step never
enters its `try`, so its `finally` hands nothing over: `_wake` must look at
`.done()`, not at whether a task is there. And a handler that cancels
a task holds the lock and awaits the database afterwards: the cancellation is delivered
before the handler lets go, so the cancelled task takes no further step but its `finally`.
A worker is therefore *new* until its first step (`Begin`), and only then waits for the lock.

Actions: `Enter PreparationFails Stop Panic Overdue Unplug Plug Resume Finish Reveal
Restart` (life), `Message Heartbeat Poll Silence Return` (owner, phone, time), `Begin Loop
TurnDone TurnFails Leave` (worker), `Compiled CompilerFails`. `CancelOutputs` is
`_cancel_outputs`, part of each action that pauses, resumes or ends.

`SceneContract.tla` is what is promised about the toys: *a device plays only while
the scene is active, only what a turn asked for that began after the last withdrawal
and not before the last wind-down, and the wishes of one device are carried out in
the order of their turns*. `SceneServer` implements it.

Properties: `NeverAsleep` (whatever is pending has a worker that will come to it),
`Implements`, and with fairness `Heard` (a message is put before the model unless
the scene is paused, resumed or ended after it was accepted). The exception in
`Heard` is the code's: `_pause_locked` forgets the wakes and keeps the messages, which
then stay unanswered until the next message or the resumption.

## 7 Control: `Control`, `ControlProofs`

`Control.tla` models the control sessions of one conversation
(`app/control/service.py`), the page that holds them
(`static/js/chat/control_runtime.js`), and the lock they share with scenes.

| state | code |
|---|---|
| `rows[s]` | `control_sessions`: status, owner, age of the heartbeat (fresh, stale, timed out), safety epoch, close reason |
| `lock`, `scene` | `control_mode_lock`; `occupies_control()` |
| `requests[c, slot]` | the timer's heartbeat and one request of the user: where it stands, and the rows it has read (`seen`) |
| `page[c]` | the page's session |

A request reads, awaits, and writes *by id alone*. `Read` and `Refresh` are the reads
and writes of heartbeat and snapshot, `Reread` and `Resume` those of recovery
(`get_current`), `Start` and `End` the rest; start, heartbeat and snapshot hold the
lock, `end` and the readers that find a session timed out do not. `Take` is the
page's handling of an answer, `Lose` a lost request or answer; `SceneAsks SceneEnters
SceneEnds Restart Tick` are what surrounds them.

Properties: `SceneAlone` (a scene and an active session never command the toys
together, though two writers take no lock), `TombstoneStands` (what ended only grows older,
unless a request stands at its write that had read the row *while it was live*),
`PageLearns` (liveness: a page that holds a session the server has ended learns it, whatever
answer is late or lost).

## 8 Working model: `ModelContract`, `WorkingModel`, `WorkingModelProofs`

`WorkingModel.tla` models how a statement changes the working model and the desire
(`app/working_model/runtime.py`, `app/desire/`), with the three ways in: a chat
turn, a reflection whose verdict is *conflicts*, and the outbox of a room
(`together/writeback.py`).

| state | code |
|---|---|
| `request[q]` | `working_model_requests`: status; `q` is source and attempt, as the id is their hash |
| `model`, `desire` | the version tables in the order of their rows |
| `notes`, `log` | requests a note is linked to; the reflection's outcome and link |
| `task[s]` | the coroutine of the source's pipeline: step, request, the heads its writer was shown, round |
| `job`, `drain`, `retry` | `together_writebacks`; what the drain has read and has in hand; the retries under way, from any page |
| `written`, `event` | memories that exist; the room's event told, its transcript cleaned |
| `overtaken`, `unread` | history: jobs whose retry was overtaken by another between its read and its write; reflections whose log could not be read after a failure |

`Claim` .. `Conflict` are the pipeline's transactions (claim, load, gate, writer,
`persist_integrated`, whose conflict sends the writer once more); `Raises` a failure of
the pipeline's own bookkeeping, after which `run_reflection` writes `handoff_failed`
(`HandoffFails`); `DrainReads` .. `Ack` the outbox, of which a drain reads `Batch` jobs (16 in
the code, `writeback.py:46`); `RetryReads RetryWrites` the button; `Restart` a crash between any two of
them and the repair of jobs left running. A provider may answer anything or fail.

`ModelContract.tla`: *each source is learned at most once, whatever is retried, and
what is written over the present state of mind was written by someone who was shown
just that state*. Retries may overlap without limit: the page disables the button of a
retry, but rebuilds it enabled with the next list and enables it after an answer it did not
hear (`static/settings.html:1099-1118`), and the server limits nothing. So the contract
names the one exception, `again`: a source is free to be learned again when a new attempt
was given by a retry that another one overtook (`overtaken`; item 7 of section 11).

Properties: `Implements`, and `OutcomesHold` (request, job and reflection rows say what was
really written, also after a failed transaction or a crash; a linked reflection is called
*handoff_failed* only if its log could not be read at that moment).

## 9 Runs, bounds and fairness

| run | instance | states | shows |
|---|---|---|---|
| `SelfWakeSafety` | 2 wakes, 2 conversations, quota 1, days of 2 ticks shifted by 1, clock to 2, 2 claims per wake, 1 companionship, 1 stop or crash | 890 146 | all safety properties, and the contract |
| `SelfWakeLive` | 1 wake, 1 conversation, clock to 3 | 12 698 | liveness under `FairSpec` |
| `SelfWakeStandDown`, `SelfWakeRewrite` | 1 wake | - | two counterexamples, section 11 |
| `TogetherTurns` | 1 room, 2 messages, 2 turns, no camera, 2 sources, 1 restart | 1 097 339 | answers, priority, exclusion, silence, and the contract |
| `TogetherFrames` | 1 room, 1 message with photo, 2 turns, 1 capture, 2 sources | 1 313 732 | photos and frames |
| `TogetherHandoff` | 1 room, 1 message, 1 turn | - | counterexample, section 11 |
| `SceneLease` | 2 interchangeable sessions, 1 driver, TTL 3, RTT 1, clock to 5, 2 polls, generations 0..1 | 914 206 | the four lease properties |
| `SceneLink` | TTL 2, RTT 1, clock to 3, generations 0..3, versions to 4, 3 polls | 934 986 | the four link properties |
| `SceneServer` | 2 devices, 2 messages, generations to 2, a return after the first turn | 339 073 | `NeverAsleep`, the contract, and liveness under `LiveSpec` |
| `Control` | 1 page with its timer and its user, 2 sessions, 1 safety stop each | 567 209 | exclusion, tombstones, and liveness under `LiveSpec` |
| `WorkingModel` | of 2 chats, 1 reflection and an outbox of an understanding, a note and an event, the combinations of `Casts`; 2 attempts after the first, 2 retries under way, batches of 1 | 221 126 | outcomes and the contract |

Why they are enough. *Self-Wake*: two wakes compete for a quota of one; two
claims of a row are the least with which a late write of the first can meet the
second; an offset of 1 in a day of 2 puts a day boundary inside the run, and two
conversations are one rollover. *Together*: two messages are a queue and a retry,
two turns an interrupted one and its successor; rooms are sequential by
the check in `start`, and two rooms in succession were run once (5.6 million states,
no error) but are too slow to repeat every time. The camera is a run of its own because
no property about turns reads a capture. *Scene lease*: TTL 3 with RTT 1 leaves
room for a poll answered in time, one answered late, and an expiry, all within 5
ticks (the code's ratio is 2 to 1, which `SceneLink` keeps); a second session is
needed for a fence to be crossed by another holder.
*Scene link*: generations 0, 1, 2 are running, paused, resumed; generation 3 is
an end; four versions are one that plays, the silence of the pause and of the
resumption, and one that plays again; 3 ticks are a lease, its renewal, and an
expiry. *Scene server*: two messages are one with the safeword and one that arrives
while the worker of the other leaves; two devices are a wish that is replaced and one
that is not; generations 0, 1, 2 are active, paused, resumed (an end may always
follow); a return after the first turn is a turn nobody's message called for. *Control*: two
sessions are one that ended and its successor, and a page has two requests under way, so every
pair of operations overlaps; one safety stop is one epoch to lose. Two pages exceed 5.5
million states; a page takes part only by its requests and the session it holds, and
the two safety theorems of section 10 hold for any number. *Working model*: `Casts` are the sets of
sources and jobs that take part in one behaviour: two chats and a reflection are three writers
that see each other's heads, and each pair of a source or job with an understanding, or of an
event with a note, meets in one cast. Two retries under way and two further attempts are the
least with which one retry overtakes another; a batch of 1 leaves work for a second drain.

`SelfWakeSafety` and `SceneLease` use symmetry over ids that only name rows or
sessions; no liveness property is checked with it. `SceneLink` uses a VIEW: it
forgets times of a closed lease or an answered poll, programs of a scene that is
over, grants below the fence, and *which* earlier generation an order is of
(generations never fall, so none of them can become current again). `run.last` is
kept as *may poll now*, all that a guard asks of it. Deadlock is checked in every
passing run but `SceneLink`, `SceneServer` and `Control`: a dead server with a stopped phone
and a spent clock, a scene that is over and revealed, and a conversation whose
sessions are all used up are legitimate ends.

**Fairness.** `SelfWakeLive`: the scan loop and Together's tick run forever and
swallow their exceptions; the event loop resumes every task and the provider call has
a timeout, so each task takes its next step; the process supervisor restarts a
process that is down; time passes. Nothing is assumed of the owner, of
companionship or of rollover. `EveryWakeSettles` and `RepliesArrive` are
conditional on companionship eventually being over, `ClaimsConclude` on a process
that is neither stopped nor killed: after a crash a claimed row stays claimed by
design (at-most-once).

`SceneServer`: weak fairness of the worker alone. A task that may run runs, and a turn
ends within the 150 seconds of its `wait_for`. Nothing is assumed of owner, phone, compilers or
restarts.

`Control`: the page's timer goes on (weak fairness of `Beat`); the server works on what
it has, and an answer that is not lost is taken. For the timer's request this is
*strong* fairness, because each step needs the lock, which scenes and the
user's request take again and again; `asyncio.Lock` is first come, first served. A
scene that is entering comes to an end of it. Every request may still be lost, without
end: `PageLearns` holds because a lost heartbeat sends the page to recovery.

## 10 Proofs

All theorems hold for every value of the constants allowed by the named
assumptions: finitely many wakes, `FirstConv \in Convs`, natural numbers, for
the lease `0 < TTL` and `MaxRtt < 2 * TTL` (the code has 3000 and 1500 ms; the second is
why `-2 * TTL_MS` marks an answered poll), for the working model that sources and jobs are
apart. Every safety property a passing run checks is proved, and so are the four
refinements; `PROJECT.json` lists which theorem
states which. Some theorems state what no run checks: Together's types, how a scene uses
its lease, that histories do not fork, and *how far the disagreements of section 11 reach*.
TLC was asked about each of those formulas on a small instance before it was proved.

* `SelfWakeProofs`. `TypeCorrect`; then the inductive `Inv`: a task that may still
  call the model, or has called it, owns its row (`OwnedIsConsumed`), no row has
  two owners (`OneOwner`), attempts not yet made are idle and uncalled
  (`FutureIdle`), starters have not called (`StartersHaveNotCalled`), a call in
  flight has no reply yet (`AnswersAwaitDelivery`), replies come from calls.
  `AtMostOneCall` alone is not inductive: it needs that the claim undone by
  `defer_unstarted` is the task's own. From it: `OneCall`, `OneReply`,
  `NoRefundAfterCall`, and `Refinement` (step by step to `WakeContract`). `Quota`
  uses a second invariant: *every* day, not only days of claimed rows, is within
  the limit; the claim adds at most `Remaining` rows to today, and all other
  steps only shrink a day.
* `SelfWakeRowsProofs`. A row is written once with its origin; only a new row and an
  undone claim become pending, and both look for another pending row of that origin
  first (`OnePending`). A rollover moves every row that may still speak, to a window that
  is never one it left; `NoneLeftBehind` shows that afterwards a row names such a window only
  if it is new and the redirects in memory were not those of the tables. `SuccessIsAReply` (what the
  owner deletes is followed in `erased`), `QuietDuringTogether`; and
  `GraceIsKept`: each wake has one hold, taken before its grace ran out, and what a
  release adds is exactly what was held. `NotesInv` is about late notes: of the tasks of a
  row at most one is at work, from its claim to the line before its `conclude`, and while it
  is, the row has no outcome, or only a `deferred_together` noted late by the task of an
  earlier claim. `ChargedOnlyByLateNotes`: that note is the *only* way a task that stands
  down leaves its wake charged. `OutcomesLostToLateNotes`: only the shutdown and that note
  ever overwrite an outcome that says how a claim ended, and nothing overwrites the
  shutdown's.
* `TogetherProofs`. The books: a message being answered and the turn answering it
  *name each other* (`Posts`, `Ledger`), so only that turn completes it, once, in the
  step that completes the turn (`AnsweredOnce`). Every step that makes a task's work
  obsolete cuts it, and a cut task does nothing more (`NothingSaidAfterEnd`,
  `OwnerHeeded`, `FramesAreFresh`: frames of an uncut task have the room's source). A photo
  is discarded only once its message is complete or the room is over (`PhotosAreKept`).
  `NeverBoth` needs the gate: an ordinary turn's claim outlives its request until its
  generation ends. `Refinement` maps every step to a step of `TogetherContract` or to
  none; the claim's guards come from the repository's own checks (no other running turn, the
  earliest queued message), the settlement of a turn together with its message from the
  books. `DesertedOnlyByCuts`: a turn that runs is left without a task only by a crash,
  by a cancellation that finds the task between the claim and `_run_turn` (the window of
  `TogetherHandoff`), or by an `abort_turn` that is itself cancelled or fails.
* `SceneLeaseProofs`. `closed` lies above every generation that ever had a token
  but the holder's (`OpenedCovered`), and the time a poll was sent is kept
  only until its answer is used (`AskedAt`, `AnswersToPolls`). From it:
  `TypeCorrect`, `NoGenerationTwice`, `SilenceStops`, `OnceEach`, `RevokedIsFinal`.
* `SceneLinkProofs`. `PlaysOnlyWhatIsVouched`: a reply is written after its poll
  was sent (`Asked`), so a lease counted from the sending ends within TTL of the
  writing; and the server's version never falls while phone, reply and server
  follow one another (`Follows`), so the program a reply leaves in place is the one
  it offers. `Bound` is `Vouched` without the living lease, which makes it inductive.
  `StoppedStaysStopped`: a stop leaves a fence, or, if the app died and with it the
  fence, no grant. `ReportsArePlayed`: a poll says of the version on offer only what was
  played. `OldMessagesAreSpared` compares generations, which never fall. The lease is proved
  in its own module for callers who may do anything; here `UsesTheLease` shows that bridge,
  page and timer are such callers: every step of the scene makes at most one call of the
  lease, or the app was killed (`Forgets`), which the module does not know. So the lease's
  promises carry over, with the kills: `SilenceStopsTheScene`, `AnswersCountOnce`.
* `SceneServerProofs`. Every withdrawal leaves the worker a generation behind and all
  compilers unheeded. While a turn is under way everything arranged or being compiled is of
  an earlier turn, and a worker of the present generation is not below the floor; it gives its
  wishes away in the step that ends the turn, so wishes come in order (`Order`, without which the
  contract's guards cannot be shown). `StaysAwake` and `Refinement` follow from the same
  invariant. `PlaysOnlyAsAsked` is argued on the contract and carried to the server: a
  device moves only while the scene is active, for a turn that no withdrawal or wind-down
  has voided.
* `ControlProofs`. Only the holder of the lock makes a session active, the lock is taken
  while no scene is on, and what `end` and the timeouts do meanwhile leaves no session
  active that was not (`Apart`): `ScenesAreAlone`, which is about sessions *active within
  their heartbeat's time*; a row that recovery revives to *stale* may stand beside a scene.
  `TombstonesStand` needs to know what each request has read of each row, and which rows
  exist: sessions are numbered without gaps, since only one start at a time
  counts them (`Counted`).
* `WorkingModelProofs`. A request at work is *processing* and belongs to its source's
  one task, so an outcome is never written over (`OutcomesAreTrue`). Of the attempts of an
  understanding, those before the present one have failed and those after it do not exist, because
  the drain hands out the attempt a retry made current, unless a retry was overtaken; so what
  is being learned has not been learned, or the contract's exception holds (`Refinement`, for
  any number of retries at once). `NoForks` needs none of this: the version a writer
  replaces is compared in the transaction that writes, so each row's base is the row before it
  and no request has two rows.

Only model-checked: liveness (`EveryWakeSettles`, `RepliesArrive`, `ClaimsConclude`,
`Heard`, `PageLearns`), which is beyond the prover, as are ENABLED and what a
recursive definition computes; no module here declares a recursive operator.

## 11 Where code and words disagree

Three counterexamples are runs:

1. `SelfWakeStandDown`. `defer_unstarted` (`self_wake/repository.py:278`) promises to
   undo a claim if companionship began before the call. The late
   `finish_trigger` of an *earlier* undone claim matches by id and state only
   and can stamp the second claim, whose own undo then finds it finished: the wake
   is lost and charged although the model was never asked. There is no other way
   (`ChargedOnlyByLateNotes`).
2. `SelfWakeRewrite`. `shutdown` calls rewriting an outcome harmless
   (`self_wake/service.py:311`). A task cancelled inside its `finally`, after it
   concluded *succeeded*, is rewritten as *cancelled_on_shutdown*. The late note
   of item 1 can overwrite it too, and nothing else can (`OutcomesLostToLateNotes`).
3. `TogetherHandoff`. `tick` (`together/service.py:519-523`) sees a room offline,
   awaits, then cancels its task without the lock and without looking again. A
   first heartbeat in between kicks the task; cancelled while `claim_turn` closes its
   connection after the commit, it leaves a turn *running* that nobody runs, and
   the room stays mute. `tests/test_together.py:496` expects a first reply. Such a cut
   does it at two places of the task only, before `_run_turn` and inside `abort_turn`
   (`DesertedOnlyByCuts`).

Others were met while modelling. They are not runs of their own; where a property would
fail, it is stated with the exception, and the comment at the property says so.

4. *Control.* A heartbeat or snapshot that read its session before a safety stop
   writes `status='active'` by id afterwards (`control/service.py:213-216`), so the
   tombstone that `tests/test_control_session_service.py:609` promises is lost;
   recovery's update to *stale* revives an ended session the same way, and then two
   sessions may live. `_mark_ended`, from a start or a timeout, overwrites reason and epoch of a
   concurrent safety stop. Hence the `Overtaken` in `TombstoneStands`: it asks for a request
   that read *this* row before it ended; all others, those that read the tombstone included,
   leave it alone.
5. *Control, page.* A late heartbeat's answer replaces whatever session the page holds by
   then; `PageLearns` says that this heals. The page's own twenty-minute guard only blocks toy
   commands.
6. *Scene server.* A message accepted just before a pause has no worker until the scene
   is resumed or another message comes (`scenes/session.py:497`).
7. *Working model.* An understanding whose request was interrupted in *processing* can
   not succeed by retry: its id is the same, and the job fails as
   *together_cognition_unfinished* (`tests/test_working_model_v2_cp2.py:867` shows the
   state). Overlapping retries of one job, from one settings page or several, read the
   same attempt, and the increment of the later one, stale by then, asks a writer again for
   what was learned, against *avoiding a second writer call* (`together/writeback.py:99-101`).
   The contract's `again` is exactly this case.
8. *Reflection.* When the pipeline raises, `run_reflection` reads its log again so as not to
   write `handoff_failed` over a linked one. If that read fails it falls back on the row from before
   the pipeline, which is not linked, and overwrites the outcome of a linked log
   (`reflection/service.py:346-366`). `OutcomesHold` states the exception with `unread`.
9. *Daily chat.* Between the rollover's commit and the reload of the redirects
   (`daily_chat/service.py:121-122`) a wake is scheduled under the window just left, and a
   reload overtaken by another puts older redirects back. `CarriedAlong` delimits it, and
   the next rollover collects such wakes.

## 12 Not modelled, and why

Text, prompts, rankings and the model's words are data. Radio, browser UI and
provider clients are I/O. Per module:

* *Self-Wake*: the sticker supplement (`self_wake/trigger.py:645-652`, `stickers/chat.py:48`),
  a second request to the provider inside the same task after the reply exists: `AtMostOneCall`
  counts calls for a reply.
* *Together*: see section 3. Its writeback is in `WorkingModel`; writes of the drain's
  own bookkeeping do not fail there (a job would stay *running* until the restart).
* *Scene phone*: which frame of a program is due, the device list, how long an order is
  retried. One device stands for all there, one scene for all (the lease alone is
  checked with two).
* *Scene server*: failures of the database, event broadcasting, the queue of scene memories, the
  notes writer. Its clocks are nondeterministic: overdue at any time.
* *Control*: tide sessions and the renderer, commands (`gateway`, `toy_capability`),
  agenda, outcome and digest, the device bridge.
* *Working model*: embeddings, broadcasting; how a reflection comes to its verdict; the lock under
  which notes are compared, which covers one write here.

Most of the repository by lines is retrieval, prompting, provider adapters, rendering and
user interface: single passes over data with no state between calls for a model checker to explore. Every such
component is listed with its reason in `PROJECT.json`.

Operators named `Bad...` are plausible mistakes, next to the definition each
would replace; no action uses them. They document what a property guards against.

## 13 Plan

Done: `SelfWake`, `Together`, `SceneLease`, `SceneLink`, `SceneServer`, `Control`,
`WorkingModel`, their four contracts, and the safety proofs of all of them.

What would come next, in order:

1. `Commands`: a control command between capability check and send
   (`control/gateway.py:95`), over `Control`; with tide sessions.
2. `Presence`: an event queued, dispatched, accepted late or again, and the transaction that
   expires it (`presence/service.py:674`).
3. `Schedule`: marked before fired, a tick cut off after 120 s (`schedule/store.py:72`,
   `manager.py:98`).
4. `PendingRecall` of memory v3: cancelled, rebound or superseded before it is consumed
   (`memory_v3/repository.py:421`).
5. `SceneStop`: stop packets and write epochs of the transports (`BleBridge.java:260`,
   `SceneSkScheduler.java:36`).

Liveness of Together (a queued message of an online room is answered or fails)
follows once the worker's fairness is stated; `TogetherHandoff` shows why it does
not hold of the code as it is.
