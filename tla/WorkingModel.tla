---------------------------- MODULE WorkingModel ----------------------------
(***************************************************************************)
(* How the working model and the desire change (app/working_model/,        *)
(* app/desire/): a request per statement, from its claim through gate and  *)
(* writer, which are providers' calls, to a terminal outcome.  It comes    *)
(* from a turn of chat, from a reflection (app/reflection/), or from the   *)
(* outbox of a room (app/together/writeback.py), which also writes the     *)
(* room's event and notes.  Requests run concurrently; every write is a    *)
(* transaction of its own, and what a task knows it read in an earlier     *)
(* one.  The process may die between any two steps.                        *)
(*                                                                         *)
(* A request's id is a hash of its source and attempt.  A provider answers *)
(* whatever it likes, or fails.  What comes before a reflection's verdict  *)
(* and what the statements say is not modelled; nor the lock under which   *)
(* notes are compared, which covers a single write here.                   *)
(***************************************************************************)
EXTENDS Naturals, Sequences, FiniteSets

CONSTANTS
    Chats,              \* assistant messages that carry a statement
    Logs,               \* reflections whose verdict is "conflicts"
    Understandings,     \* jobs in the outbox of one room, by kind
    Notes,
    Events,
    MaxAttempts,        \* bound: attempts after the first of one job
    Batch,              \* jobs that drain reads at a time
    Retries,            \* bound: retries under way at a time
    Casts,              \* bound: sets of sources and jobs, one of which holds
                        \* all that take part in a behaviour
    Root,               \* the root versions
    None

Jobs == Understandings \cup Notes \cup Events
Sources == Chats \cup Logs \cup Understandings
Requests == ((Chats \cup Logs) \X {0}) \cup (Understandings \X (0..MaxAttempts))
SourceOf(q) == q[1]
Retry == [job : Jobs, attempts : 0..MaxAttempts, increment : {0, 1}]

ASSUME ModelAssumption ==
    /\ MaxAttempts \in Nat /\ Batch \in Nat \ {0}
    /\ Chats \cap (Logs \cup Jobs) = {} /\ Logs \cap Jobs = {}
    /\ Understandings \cap (Notes \cup Events) = {} /\ Notes \cap Events = {}
    /\ Root \notin Requests /\ None \notin Requests \cup {Root} \cup Jobs \cup Retry

VARIABLES
    request,    \* working_model_requests: status, with its route if "routed"
    model,      \* working_model_versions, in the order of their rows
    desire,     \* desire_versions
    notes,      \* requests that a note is linked to
    log,        \* reflection_log: outcome, and whether it is linked
    task,       \* the coroutine that runs a source's pipeline
    job,        \* together_writebacks
    drain,      \* Writebacks.drain: the jobs it read, and the one in hand
    retry,      \* the retries under way, of any page: what each has read
    written,    \* jobs whose memory exists
    event,      \* whether the event's message is told, the transcript cleaned
    overtaken,  \* history: jobs given a new attempt by a retry that had read
                \* an earlier attempt than the last
    unread      \* history: logs that could not be read after their pipeline
                \* had failed

vars == <<request, model, desire, notes, log, task, job, drain, retry, written, event,
          overtaken, unread>>
learning == <<request, model, desire, notes, log, unread>>
outbox == <<job, drain, retry, written, event, overtaken>>

NoTask == [at |-> "idle", of |-> None, saw |-> {}, round |-> 1]
NoDrain == [read |-> {}, job |-> None, at |-> "idle"]

Init ==
    /\ request = [q \in Requests |-> "none"]
    /\ model = <<[by |-> Root, prev |-> None]>>
    /\ desire = <<[by |-> Root, prev |-> None]>>
    /\ notes = {}
    /\ log = [l \in Logs |-> [outcome |-> "none", linked |-> FALSE]]
    /\ task = [s \in Sources |-> NoTask]
    /\ job = [j \in Jobs |-> [is |-> "none", attempts |-> 0]]
    /\ drain = NoDrain
    /\ retry = [p \in Retries |-> None]
    /\ written = {}
    /\ event = [told |-> FALSE, cleaned |-> FALSE]
    /\ overtaken = {} /\ unread = {}

-----------------------------------------------------------------------------
(* The pipeline of a request.                                              *)

(* get_head: the newest version that no version is written over, which is  *)
(* the last row, since a row names an earlier one as its predecessor.      *)
HeadOf(versions) == versions[Len(versions)].by
Heads == [model |-> HeadOf(model), desire |-> HeadOf(desire)]

At(s, step) == task[s].at = step
Goes(s, step) == task' = [task EXCEPT ![s].at = step, ![s].saw = {}]
Returns(s) ==
    task' = [task EXCEPT ![s] = IF s \in Jobs THEN [NoTask EXCEPT !.at = "returned", !.of = task[s].of]
                                ELSE NoTask]
Starts(s, q) == task' = [task EXCEPT ![s] = [NoTask EXCEPT !.at = "claim", !.of = q]]

(* _set_request_outcome compares nothing with the present status. *)
SetOutcome(s, status) ==
    /\ request' = [request EXCEPT ![task[s].of] = status]
    /\ Returns(s)
    /\ UNCHANGED <<model, desire, notes, log, unread>>

Started == {c \in Chats : ~At(c, "idle") \/ request[<<c, 0>>] # "none"}
           \cup {l \in Logs : log[l].outcome # "none"} \cup {j \in Jobs : job[j].is # "none"}
Joins(x) == \E cast \in Casts : Started \cup {x} \subseteq cast

(* The assistant message is committed; a task is created for it. *)
Schedule(c) ==
    /\ At(c, "idle") /\ request[<<c, 0>>] = "none" /\ Joins(c)
    /\ Starts(c, <<c, 0>>)
    /\ UNCHANGED <<learning, outbox>>

(* The verdict is "conflicts": the log says so before the request exists. *)
Reflect(l) ==
    /\ At(l, "idle") /\ log[l].outcome = "none" /\ Joins(l)
    /\ log' = [log EXCEPT ![l].outcome = "ok"]
    /\ Starts(l, <<l, 0>>)
    /\ UNCHANGED <<request, model, desire, notes, unread, outbox>>

(* A request that exists is not run again, finished or not. *)
Claim(s) ==
    /\ At(s, "claim")
    /\ IF request[task[s].of] = "none"
       THEN request' = [request EXCEPT ![task[s].of] = "processing"] /\ Goes(s, "source")
       ELSE UNCHANGED request /\ Returns(s)
    /\ UNCHANGED <<model, desire, notes, log, unread, outbox>>

(* A write of the pipeline's own bookkeeping fails.  run_reflection reads   *)
(* its log again and says so in it, unless the log is linked with the       *)
(* request by then; if it cannot read it, it takes it for unlinked.  That   *)
(* write may fail as well.                                                  *)
HandoffFails(l) ==
    /\ log' = [log EXCEPT ![l].outcome = "handoff_failed"]
    /\ \/ ~log[l].linked /\ UNCHANGED unread
       \/ unread' = unread \cup {l}

Raises(s) ==
    /\ ~At(s, "idle") /\ ~At(s, "returned")
    /\ UNCHANGED <<log, unread>> \/ (s \in Logs /\ HandoffFails(s))
    /\ Returns(s)
    /\ UNCHANGED <<request, model, desire, notes, outbox>>

(* The source is loaded again; a reflection is linked with its request. *)
Load(s) ==
    /\ At(s, "source")
    /\ log' = [l \in Logs |-> IF l = s THEN [log[l] EXCEPT !.linked = TRUE] ELSE log[l]]
    /\ Goes(s, "gate")
    /\ UNCHANGED <<request, model, desire, notes, unread, outbox>>

LinkFails(l) ==
    /\ At(l, "source")
    /\ log' = [log EXCEPT ![l].outcome = "handoff_failed"]
    /\ Goes(l, "unlinked")
    /\ UNCHANGED <<request, model, desire, notes, unread, outbox>>

LoadFails(s) ==
    /\ IF s \in Logs THEN At(s, "unlinked") ELSE At(s, "source")
    /\ SetOutcome(s, "failed")
    /\ UNCHANGED outbox

(* The gate rejects the statement, or fails. *)
GateStops(s) ==
    /\ At(s, "gate")
    /\ \E status \in {"declined", "failed"} : SetOutcome(s, status)
    /\ UNCHANGED outbox

(* The writer is asked, and shown the heads there are. *)
AsksWriter(s, round) ==
    task' = [task EXCEPT ![s].at = "writing", ![s].saw = {Heads}, ![s].round = round]

(* The gate makes it a memory, or lets the writer decide. *)
GateRoutes(s) ==
    /\ At(s, "gate")
    /\ Goes(s, "note") \/ AsksWriter(s, 1)
    /\ UNCHANGED <<learning, outbox>>

PersistMemory(s) ==
    LET q == task[s].of
    IN  /\ At(s, "note")
        /\ IF request[q] = "processing"
           THEN request' = [request EXCEPT ![q] = "noted"] /\ notes' = notes \cup {q}
           ELSE UNCHANGED <<request, notes>>
        /\ Returns(s)
        /\ UNCHANGED <<model, desire, log, unread, outbox>>

MemoryFails(s) ==
    /\ At(s, "note")
    /\ SetOutcome(s, "failed")
    /\ UNCHANGED outbox

(* The writer fails or wants no change, or its answer cannot be stored. *)
WriterStops(s) ==
    /\ At(s, "writing")
    /\ \E status \in {"declined", "failed"} : SetOutcome(s, status)
    /\ UNCHANGED outbox

WriterRemembers(s) ==
    /\ At(s, "writing")
    /\ Goes(s, "note")
    /\ UNCHANGED <<learning, outbox>>

BadUnchanged(s) == TRUE
Unchanged(s) == task[s].saw = {Heads}

(* The versions of both are written over the heads the writer was shown.   *)
PersistIntegrated(s) ==
    LET q == task[s].of
    IN  /\ At(s, "writing") /\ request[q] = "processing" /\ Unchanged(s)
        /\ model' = Append(model, [by |-> q, prev |-> Heads.model])
        /\ desire' \in {desire, Append(desire, [by |-> q, prev |-> Heads.desire])}
        /\ request' = [request EXCEPT ![q] = "applied"]
        /\ Returns(s)
        /\ UNCHANGED <<notes, log, unread, outbox>>

(* The request is over, or another was faster: the writer is asked once    *)
(* more, then never again.                                                 *)
Conflict(s) ==
    LET processing == request[task[s].of] = "processing"
    IN  /\ At(s, "writing") /\ ~(processing /\ Unchanged(s))
        /\ CASE ~processing -> Returns(s) /\ UNCHANGED learning
             [] processing /\ task[s].round = 1 -> AsksWriter(s, 2) /\ UNCHANGED learning
             [] OTHER -> SetOutcome(s, "failed")
        /\ UNCHANGED outbox

Run(s) ==
    \/ Claim(s) \/ Raises(s) \/ Load(s) \/ (s \in Logs /\ LinkFails(s)) \/ LoadFails(s)
    \/ GateStops(s) \/ GateRoutes(s) \/ PersistMemory(s) \/ MemoryFails(s)
    \/ WriterStops(s) \/ WriterRemembers(s)
    \/ PersistIntegrated(s) \/ Conflict(s)

-----------------------------------------------------------------------------
(* The outbox of a room.                                                   *)

(* A turn leaves notes and understandings; the end of the room its event.  *)
Leave(j) ==
    /\ job[j].is = "none" /\ Joins(j)
    /\ j \in Events \/ \A e \in Events : job[e].is = "none"
    /\ job' = [job EXCEPT ![j].is = "pending"]
    /\ UNCHANGED <<learning, task, drain, retry, written, event, overtaken>>

(* Some of what is pending, events first.                                  *)
Pending == {j \in Jobs : job[j].is = "pending"}
DrainReads ==
    /\ drain = NoDrain /\ Pending # {}
    /\ \E S \in SUBSET Pending :
          /\ S = Pending \/ Cardinality(S) = Batch
          /\ S \subseteq Events \/ Pending \cap Events \subseteq S
          /\ drain' = [drain EXCEPT !.read = {<<j, job[j].attempts>> : j \in S}]
    /\ UNCHANGED <<learning, task, job, retry, written, event, overtaken>>

First(j) ==
    CASE j \in Events -> "message" [] j \in Notes -> "memory" [] OTHER -> "pipeline"

(* Events come first.  What was read of a job is what is written. *)
DrainTakes(j, n) ==
    /\ drain.job = None /\ <<j, n>> \in drain.read
    /\ j \in Events \/ \A e \in Events : <<e, 0>> \notin drain.read
    /\ IF job[j].is = "pending"
       THEN /\ job' = [job EXCEPT ![j].is = "running"]
            /\ drain' = [read |-> drain.read \ {<<j, n>>}, job |-> j, at |-> First(j)]
            /\ IF j \in Understandings THEN Starts(j, <<j, n>>) ELSE UNCHANGED task
       ELSE /\ drain' = [drain EXCEPT !.read = @ \ {<<j, n>>}]
            /\ UNCHANGED <<job, task>>
    /\ UNCHANGED <<learning, retry, written, event, overtaken>>

(* The job's row is written, and the transcript cleaned if it may be. *)
Settles(j, status) ==
    /\ job' = [job EXCEPT ![j].is = status]
    /\ drain' = [drain EXCEPT !.job = None, !.at = "idle"]
    /\ event' = [event EXCEPT !.cleaned = @ \/ event.told]

WriteMessage(j) ==
    /\ drain.job = j /\ drain.at = "message"
    /\ event' = [event EXCEPT !.told = TRUE]
    /\ drain' = [drain EXCEPT !.at = "memory"]
    /\ UNCHANGED <<learning, task, job, retry, written, overtaken>>

(* The memory's id is a hash of the job's: a second one is the first. *)
WriteMemory(j) ==
    /\ drain.job = j /\ drain.at = "memory"
    /\ written' = written \cup {j}
    /\ drain' = [drain EXCEPT !.at = "ack"]
    /\ UNCHANGED <<learning, task, job, retry, event, overtaken>>

WriteFails(j) ==
    /\ drain.job = j /\ drain.at \in {"message", "memory"}
    /\ Settles(j, "failed")
    /\ UNCHANGED <<learning, task, retry, written, overtaken>>

(* Writing is switched off: there is no request. *)
WriteDisabled(j) ==
    /\ drain.job = j /\ At(j, "claim")
    /\ task' = [task EXCEPT ![j] = NoTask]
    /\ Settles(j, "failed")
    /\ UNCHANGED <<learning, retry, written, overtaken>>

BadSucceeded(q) == request[q] # "failed"
Succeeded(q) == request[q] \in {"declined", "noted", "applied"}

PipelineReturns(j) ==
    /\ drain.job = j /\ drain.at = "pipeline" /\ At(j, "returned")
    /\ task' = [task EXCEPT ![j] = NoTask]
    /\ IF Succeeded(task[j].of)
       THEN drain' = [drain EXCEPT !.at = "ack"] /\ UNCHANGED <<job, event>>
       ELSE Settles(j, "failed")
    /\ UNCHANGED <<learning, retry, written, overtaken>>

(* The job is acknowledged, or that write fails. *)
Ack(j) ==
    /\ drain.job = j /\ drain.at = "ack"
    /\ \E status \in {"done", "failed"} : Settles(j, status)
    /\ UNCHANGED <<learning, task, retry, written, overtaken>>

(* A new attempt only if the last one's request has failed.  The page      *)
(* disables the button that asks for it, but draws it anew with the next   *)
(* list, and enables it again if it hears no answer: retries of a job may  *)
(* overlap.                                                                *)
Increment(j) ==
    IF j \in Understandings /\ request[<<j, job[j].attempts>>] = "failed" THEN 1 ELSE 0

RetryReads(p, j) ==
    LET n == job[j].attempts
    IN  /\ retry[p] = None /\ job[j].is = "failed"
        /\ n + Increment(j) <= MaxAttempts
        /\ retry' = [retry EXCEPT ![p] = [job |-> j, attempts |-> n, increment |-> Increment(j)]]
        /\ UNCHANGED <<learning, task, job, drain, written, event, overtaken>>

(* The row is written if it is failed, whatever became of it meanwhile.    *)
RetryWrites(p) ==
    LET r == retry[p]
        n == job[r.job].attempts + r.increment
    IN  /\ r # None
        /\ IF job[r.job].is = "failed" /\ n <= MaxAttempts
           THEN /\ job' = [job EXCEPT ![r.job] = [is |-> "pending", attempts |-> n]]
                /\ overtaken' = IF r.increment = 1 /\ job[r.job].attempts # r.attempts
                                THEN overtaken \cup {r.job} ELSE overtaken
           ELSE UNCHANGED <<job, overtaken>>
        /\ retry' = [retry EXCEPT ![p] = None]
        /\ UNCHANGED <<learning, task, drain, written, event>>

Outbox ==
    \/ DrainReads
    \/ \E j \in Jobs : \/ Leave(j) \/ WriteMessage(j) \/ WriteMemory(j) \/ WriteFails(j) \/ Ack(j)
                       \/ \E n \in 0..MaxAttempts : DrainTakes(j, n)
                       \/ \E p \in Retries : RetryReads(p, j)
    \/ \E j \in Understandings : WriteDisabled(j) \/ PipelineReturns(j)
    \/ \E p \in Retries : RetryWrites(p)

(* The process stops or dies: jobs in hand fail, at once (and then drain's *)
(* finally cleans the transcript) or at the next start; requests in hand   *)
(* stay as they are.                                                       *)
Restart ==
    /\ task' = [s \in Sources |-> NoTask]
    /\ drain' = NoDrain
    /\ retry' = [p \in Retries |-> None]
    /\ job' = [j \in Jobs |-> IF job[j].is = "running" THEN [job[j] EXCEPT !.is = "failed"]
                              ELSE job[j]]
    /\ event' \in {event, [event EXCEPT !.cleaned = @ \/ (drain.job # None /\ event.told)]}
    /\ UNCHANGED <<learning, written, overtaken>>

Next ==
    \/ \E c \in Chats : Schedule(c)
    \/ \E l \in Logs : Reflect(l)
    \/ \E s \in Sources : Run(s)
    \/ Outbox
    \/ Restart

Spec == Init /\ [][Next]_vars

-----------------------------------------------------------------------------
(* What was written says the same as what is said to be written: a request *)
(* has its version or its note exactly if its outcome says so, also when a *)
(* transaction failed or the process died; a job that is done has left     *)
(* what it is for; a reflection that is not linked has changed nothing,    *)
(* and one that is linked is not said to have failed unless its log could  *)
(* not be read at that moment (run_reflection).                            *)
VersionsBy(versions, q) == {i \in DOMAIN versions : versions[i].by = q}

OutcomesHold ==
    /\ \A q \in Requests :
          /\ request[q] = "applied" <=> VersionsBy(model, q) # {}
          /\ VersionsBy(desire, q) # {} => request[q] = "applied"
          /\ request[q] = "noted" <=> q \in notes
    /\ \A j \in Understandings : job[j].is = "done" =>
          request[<<j, job[j].attempts>>] \in {"declined", "noted", "applied"}
    /\ \A j \in Notes \cup Events : job[j].is = "done" => j \in written
    /\ \A l \in Logs :
          /\ log[l].outcome = "handoff_failed" /\ l \notin unread => ~log[l].linked
          /\ ~log[l].linked => request[<<l, 0>>] \in {"none", "processing", "failed"}
    /\ event.cleaned => event.told

(* Each source is learned once and over what its writer was shown: the     *)
(* pipeline, its conflicts and retries and the outbox implement            *)
(* ModelContract (idx_wm_successor, "avoiding a second writer call" in     *)
(* writeback.py).  The only sources it lets be learned again are those     *)
(* whose retry another one overtook between its reading and its writing.   *)
Whose(by) == IF by = Root THEN Root ELSE SourceOf(by)
MindOf(heads) == [model |-> Whose(heads.model), desire |-> Whose(heads.desire)]
Contract == INSTANCE ModelContract WITH
    known <- {SourceOf(q) : q \in {r \in Requests : request[r] \in {"applied", "noted"}}},
    mind <- MindOf(Heads),
    again <- overtaken,
    shown <- [s \in Sources |-> {MindOf(heads) : heads \in task[s].saw}]
Implements == Contract!Spec
=============================================================================
