------------------------- MODULE WorkingModelProofs -------------------------
(***************************************************************************)
(* Proofs about WorkingModel, for any number of chats, reflections, jobs,  *)
(* attempts and retries that overlap.                                      *)
(*                                                                         *)
(* The argument: a request at work is "processing" and belongs to one      *)
(* task, so an outcome once written is never written over.  Of the         *)
(* attempts of one understanding, those after the present one do not       *)
(* exist, because drain hands out the attempt that a retry made current;   *)
(* those before it have failed, unless a retry was overtaken by another,   *)
(* so that a source that is being learned has not been learned.            *)
(***************************************************************************)
EXTENDS WorkingModel, SequenceTheorems, TLAPS

AtWork == {"source", "unlinked", "gate", "note", "writing"}
Statuses == {"none", "processing", "declined", "noted", "applied", "failed"}
Version == [by : Requests \cup {Root}, prev : Requests \cup {Root, None}]
HeadsType == [model : Requests \cup {Root}, desire : Requests \cup {Root}]
LogType == [outcome : {"none", "ok", "handoff_failed"}, linked : BOOLEAN]
TaskType ==
    [at : AtWork \cup {"idle", "claim", "returned"}, of : Requests \cup {None},
     saw : SUBSET HeadsType, round : {1, 2}]
JobType == [is : {"none", "pending", "running", "done", "failed"}, attempts : 0..MaxAttempts]
DrainType ==
    [read : SUBSET (Jobs \X (0..MaxAttempts)), job : Jobs \cup {None},
     at : {"idle", "pipeline", "message", "memory", "ack"}]

LearningTypes ==
    /\ request \in [Requests -> Statuses] /\ notes \subseteq Requests
    /\ model \in Seq(Version) \ {<<>>} /\ desire \in Seq(Version) \ {<<>>}
    /\ log \in [Logs -> LogType]
OutboxTypes ==
    /\ job \in [Jobs -> JobType] /\ drain \in DrainType
    /\ retry \in [Retries -> Retry \cup {None}]
    /\ written \subseteq Jobs /\ event \in [told : BOOLEAN, cleaned : BOOLEAN]
    /\ overtaken \subseteq Jobs
Types == LearningTypes /\ OutboxTypes /\ task \in [Sources -> TaskType]

Current(j) == <<j, job[j].attempts>>

(* A task works on a request of its source; a job's task is drain's.       *)
TaskHolds(s) ==
    /\ task[s].saw # {} => task[s].at = "writing"
    /\ task[s].at # "idle" => task[s].of \in Requests /\ SourceOf(task[s].of) = s
    /\ task[s].at \in AtWork => request[task[s].of] = "processing"
    /\ task[s].at # "idle" /\ s \in Understandings =>
          drain.job = s /\ drain.at = "pipeline" /\ task[s].of = Current(s)
Tasks == \A s \in Sources : TaskHolds(s)

InHand ==
    /\ drain.job # None => job[drain.job].is = "running"
    /\ drain.at \in {"message", "memory"} => drain.job \notin Understandings
Reading == \A r \in drain.read : job[r[1]].is = "pending" /\ job[r[1]].attempts = r[2]
Acknowledged ==
    drain.at = "ack" => /\ drain.job \in Understandings => Succeeded(Current(drain.job))
                        /\ drain.job \in Notes \cup Events => drain.job \in written
Done ==
    /\ \A j \in Understandings : job[j].is = "done" => Succeeded(Current(j))
    /\ \A j \in Notes \cup Events : job[j].is = "done" => j \in written
Retrying ==
    \A p \in Retries : retry[p] # None /\ retry[p].increment = 1 =>
       /\ retry[p].job \in Understandings
       /\ request[<<retry[p].job, retry[p].attempts>>] = "failed"
Attempts ==
    \A u \in Understandings, n \in 0..MaxAttempts :
       /\ u \notin overtaken /\ n < job[u].attempts => request[<<u, n>>] = "failed"
       /\ n > job[u].attempts => request[<<u, n>>] = "none"

(* The rows agree with each other.                                         *)
Rows ==
    \A q \in Requests :
       /\ request[q] = "applied" <=> VersionsBy(model, q) # {}
       /\ VersionsBy(desire, q) # {} => request[q] = "applied"
       /\ request[q] = "noted" <=> q \in notes
LogHolds(l) ==
    /\ log[l].linked => log[l].outcome # "none"
    /\ log[l].linked /\ l \notin unread => log[l].outcome = "ok"
    /\ task[l].at \in {"claim", "source"} => log[l].outcome = "ok" /\ ~log[l].linked
    /\ task[l].at \in {"gate", "note", "writing"} => log[l].linked
    /\ ~log[l].linked => request[<<l, 0>>] \in {"none", "processing", "failed"}
LogsHold == \A l \in Logs : LogHolds(l)
Cleaned == event.cleaned => event.told

OutboxInv == InHand /\ Reading /\ Acknowledged /\ Done /\ Retrying /\ Attempts /\ Cleaned
Inv == Types /\ Tasks /\ OutboxInv /\ Rows /\ LogsHold

-----------------------------------------------------------------------------
LEMMA SourceFacts ==
    /\ Jobs = Understandings \cup Notes \cup Events
    /\ Chats \cap Jobs = {} /\ Logs \cap Jobs = {} /\ Chats \cap Logs = {}
    /\ Understandings \cap (Notes \cup Events) = {} /\ Notes \cap Events = {}
    /\ Understandings \subseteq Sources /\ Chats \subseteq Sources /\ Logs \subseteq Sources
    /\ \A s \in Sources : s \in Jobs => s \in Understandings
    /\ None \notin Jobs
BY ModelAssumption DEF Jobs, Sources

LEMMA RequestFacts ==
    /\ \A q \in Requests : q # None /\ q # Root /\ SourceOf(q) \in Sources
    /\ \A q \in Requests : SourceOf(q) \in Chats \cup Logs => q = <<SourceOf(q), 0>>
    /\ \A q \in Requests : SourceOf(q) \in Understandings =>
          \E n \in 0..MaxAttempts : q = <<SourceOf(q), n>>
    /\ \A s \in Chats \cup Logs : <<s, 0>> \in Requests /\ SourceOf(<<s, 0>>) = s
    /\ \A u \in Understandings, n \in 0..MaxAttempts :
          <<u, n>> \in Requests /\ SourceOf(<<u, n>>) = u
    /\ Root # None
<1>1. ASSUME NEW q \in Requests
      PROVE  \/ q \in (Chats \cup Logs) \X {0} /\ SourceOf(q) \in Chats \cup Logs /\ q = <<SourceOf(q), 0>>
             \/ /\ q \in Understandings \X (0..MaxAttempts) /\ SourceOf(q) \in Understandings
                /\ \E n \in 0..MaxAttempts : q = <<SourceOf(q), n>>
    BY DEF Requests, SourceOf
<1>2. \A q \in Requests : q # None /\ q # Root
    BY ModelAssumption
<1>3. \A q \in Requests : SourceOf(q) \in Sources
    BY <1>1, SourceFacts DEF Sources
<1>4. \A s \in Chats \cup Logs : <<s, 0>> \in Requests /\ SourceOf(<<s, 0>>) = s
    BY DEF Requests, SourceOf
<1>5. \A u \in Understandings, n \in 0..MaxAttempts : <<u, n>> \in Requests /\ SourceOf(<<u, n>>) = u
    BY DEF Requests, SourceOf
<1>6. Root # None
    BY ModelAssumption
<1>7. \A q \in Requests : SourceOf(q) \in Chats \cup Logs => q = <<SourceOf(q), 0>>
    BY <1>1, SourceFacts DEF Jobs
<1>8. \A q \in Requests : SourceOf(q) \in Understandings => \E n \in 0..MaxAttempts : q = <<SourceOf(q), n>>
    BY <1>1, SourceFacts DEF Jobs
<1> QED BY <1>2, <1>3, <1>4, <1>5, <1>6, <1>7, <1>8

LEMMA CurrentFacts ==
    ASSUME OutboxTypes, NEW j \in Understandings
    PROVE  /\ job[j].attempts \in 0..MaxAttempts
           /\ Current(j) \in Requests /\ SourceOf(Current(j)) = j
<1>1. job[j].attempts \in 0..MaxAttempts
    BY SourceFacts DEF OutboxTypes, JobType
<1> QED BY <1>1, RequestFacts DEF Current

(* A step of the pipeline that works for s on its request q.               *)
LEMMA PipelineStep ==
    ASSUME Inv, NEW s \in Sources, NEW q \in Requests, SourceOf(q) = s,
           s \in Understandings => task[s].at # "idle" /\ task[s].of = q,
           UNCHANGED outbox, LearningTypes', Rows',
           NEW t \in TaskType, task' = [task EXCEPT ![s] = t],
           t.saw # {} => t.at = "writing", t.at # "idle" => t.of = q,
           \A r \in Requests : r # q => request'[r] = request[r],
           request[q] \in {"none", "processing"} \/ request'[q] = request[q],
           t.at \in AtWork => request'[q] = "processing",
           \A l \in Logs : l # s => log'[l] = log[l] /\ (l \in unread' <=> l \in unread),
           s \in Logs => LogHolds(s)'
    PROVE  Inv'
<1>1. /\ job' = job /\ drain' = drain /\ retry' = retry /\ written' = written /\ event' = event
      /\ overtaken' = overtaken
    BY DEF outbox
<1>2. task' \in [Sources -> TaskType] /\ task'[s] = t /\ \A r \in Sources : r # s => task'[r] = task[r]
    BY DEF Inv, Types
<1>3. Types'
    BY <1>1, <1>2 DEF Inv, Types, OutboxTypes
<1>4. ASSUME NEW r \in Requests, SourceOf(r) # s PROVE request'[r] = request[r]
    BY <1>4
<1>5. s \in Understandings => drain.job = s /\ drain.at = "pipeline" /\ job[s].is = "running" /\ q = Current(s)
    <2> SUFFICES ASSUME s \in Understandings PROVE drain.job = s /\ drain.at = "pipeline" /\ job[s].is = "running" /\ q = Current(s)
        OBVIOUS
    <2>1. drain.job = s /\ drain.at = "pipeline" /\ q = Current(s)
        BY DEF Inv, Tasks, TaskHolds
    <2>2. s # None
        BY SourceFacts
    <2> QED BY <2>1, <2>2 DEF Inv, OutboxInv, InHand
<1>6. Tasks'
    <2> SUFFICES ASSUME NEW r \in Sources PROVE TaskHolds(r)'
        BY DEF Tasks
    <2>1. CASE r = s
        <3>1. task'[r] = t
            BY <1>2, <2>1
        <3>2. t.at # "idle" /\ s \in Understandings => drain'.job = s /\ drain'.at = "pipeline" /\ t.of = Current(s)'
            BY <1>1, <1>5 DEF Current
        <3>3. t.at \in AtWork => t.at # "idle"
            BY DEF AtWork
        <3>4. t.at \in AtWork => request'[t.of] = "processing"
            BY <3>3
        <3> QED BY <2>1, <3>1, <3>2, <3>4, Zenon DEF TaskHolds
    <2>2. CASE r # s
        <3>1. task'[r] = task[r] /\ TaskHolds(r)
            BY <1>2, <2>2 DEF Inv, Tasks
        <3>2. task[r].at # "idle" => request'[task[r].of] = request[task[r].of]
            BY <1>4, <2>2, <3>1 DEF TaskHolds
        <3>3. Current(r)' = Current(r)
            BY <1>1 DEF Current
        <3>4. task[r].at \in AtWork => task[r].at # "idle"
            BY DEF AtWork
        <3> QED BY <1>1, <3>1, <3>2, <3>3, <3>4 DEF TaskHolds
    <2> QED BY <2>1, <2>2
<1>7. ASSUME NEW j \in Understandings, job[j].is # "running" \/ drain.at # "pipeline"
      PROVE  Current(j)' = Current(j) /\ request'[Current(j)] = request[Current(j)]
    <2>1. Current(j) \in Requests /\ SourceOf(Current(j)) = j
        BY CurrentFacts DEF Inv, Types
    <2>2. j # s
        BY <1>5, <1>7
    <2> QED BY <1>1, <1>4, <2>1, <2>2 DEF Current
<1>8. InHand' /\ Reading' /\ Cleaned'
    BY <1>1 DEF Inv, OutboxInv, InHand, Reading, Cleaned
<1>9. Acknowledged'
    BY <1>1, <1>7 DEF Inv, OutboxInv, Acknowledged, Succeeded
<1>10. Done'
    BY <1>1, <1>7 DEF Inv, OutboxInv, Done, Succeeded
<1>11. Retrying'
    <2> SUFFICES ASSUME NEW p \in Retries, retry[p] # None, retry[p].increment = 1
                 PROVE  /\ retry[p].job \in Understandings
                        /\ request'[<<retry[p].job, retry[p].attempts>>] = "failed"
        BY <1>1 DEF Retrying
    <2> DEFINE r == <<retry[p].job, retry[p].attempts>>
    <2>1. retry[p].job \in Understandings /\ request[r] = "failed"
        BY DEF Inv, OutboxInv, Retrying
    <2>2. r \in Requests
        BY <2>1, RequestFacts DEF Inv, Types, OutboxTypes, Retry
    <2>3. request'[r] = request[r]
        <3> HIDE DEF r
        <3> QED BY <2>1, <2>2
    <2> QED BY <2>1, <2>3
<1>12. Attempts'
    <2> SUFFICES ASSUME NEW u \in Understandings, NEW n \in 0..MaxAttempts
                 PROVE  /\ u \notin overtaken /\ n < job[u].attempts => request'[<<u, n>>] = "failed"
                        /\ n > job[u].attempts => request'[<<u, n>>] = "none"
        BY <1>1 DEF Attempts
    <2> SUFFICES ASSUME n # job[u].attempts
                 PROVE  request'[<<u, n>>] = request[<<u, n>>]
        <3>1. job[u].attempts \in Nat
            BY CurrentFacts, ModelAssumption DEF Inv, Types
        <3>2. /\ u \notin overtaken /\ n < job[u].attempts => request[<<u, n>>] = "failed"
              /\ n > job[u].attempts => request[<<u, n>>] = "none"
            BY DEF Inv, OutboxInv, Attempts
        <3> QED BY <3>1, <3>2
    <2>1. <<u, n>> \in Requests /\ SourceOf(<<u, n>>) = u
        BY RequestFacts
    <2>2. CASE u # s
        BY <1>4, <2>1, <2>2
    <2>3. CASE u = s
        BY <1>5, <2>1, <2>3 DEF Current
    <2> QED BY <2>2, <2>3
<1>13. LogsHold'
    <2> SUFFICES ASSUME NEW l \in Logs, l # s PROVE LogHolds(l)'
        BY DEF LogsHold
    <2>1. <<l, 0>> \in Requests /\ SourceOf(<<l, 0>>) = l /\ l \in Sources
        BY RequestFacts, SourceFacts
    <2>2. /\ log'[l] = log[l] /\ task'[l] = task[l] /\ request'[<<l, 0>>] = request[<<l, 0>>]
          /\ l \in unread' <=> l \in unread
        BY <1>2, <1>4, <2>1
    <2> QED BY <2>2 DEF LogHolds, Inv, LogsHold
<1> QED BY <1>3, <1>6, <1>8, <1>9, <1>10, <1>11, <1>12, <1>13 DEF Inv, OutboxInv

(* A step of the outbox, which writes nothing the pipeline has.            *)
LEMMA OutboxStep ==
    ASSUME Inv, UNCHANGED learning, OutboxTypes', task' \in [Sources -> TaskType],
           \A s \in Chats \cup Logs : task'[s] = task[s] \/ task'[s] = NoTask,
           \A u \in Understandings : TaskHolds(u)',
           InHand', Reading', Acknowledged', Done', Retrying', Attempts', Cleaned'
    PROVE  Inv'
<1>1. /\ request' = request /\ model' = model /\ desire' = desire
      /\ notes' = notes /\ log' = log /\ unread' = unread
    BY DEF learning
<1>2. Types' /\ Rows'
    BY <1>1 DEF Inv, Types, LearningTypes, Rows, VersionsBy
<1>3. \A s \in Chats \cup Logs : task'[s] = task[s] \/ (task'[s].at = "idle" /\ task'[s].saw = {})
    BY DEF NoTask
<1>4. Tasks'
    <2> SUFFICES ASSUME NEW s \in Chats \cup Logs PROVE TaskHolds(s)'
        BY DEF Tasks, Sources
    <2>1. TaskHolds(s) /\ s \notin Understandings
        BY SourceFacts DEF Inv, Tasks
    <2> QED BY <1>1, <1>3, <2>1 DEF TaskHolds, AtWork
<1>5. LogsHold'
    BY <1>1, <1>3 DEF Inv, LogsHold, LogHolds
<1> QED BY <1>2, <1>4, <1>5 DEF Inv, OutboxInv

LEMMA RowsKept ==
    ASSUME Rows, UNCHANGED <<model, desire, notes>>,
           \A r \in Requests : \/ request'[r] = request[r]
                               \/ {request[r], request'[r]} \cap {"applied", "noted"} = {}
    PROVE  Rows'
BY DEF Rows, VersionsBy

LEMMA HeadsTyped ==
    ASSUME LearningTypes
    PROVE  Heads \in HeadsType
<1>1. ASSUME NEW v \in Seq(Version), v # <<>> PROVE HeadOf(v) \in Requests \cup {Root}
    <2>1. Len(v) \in 1..Len(v)
        BY <1>1, EmptySeq
    <2>2. v[Len(v)] \in Version
        BY <1>1, <2>1, ElementOfSeq
    <2> QED BY <2>2 DEF HeadOf, Version
<1> QED BY <1>1 DEF LearningTypes, Heads, HeadsType

(* What a task becomes.                                                    *)
LEMMA GoesTask ==
    ASSUME task \in [Sources -> TaskType], NEW s \in Sources,
           NEW step \in AtWork \cup {"claim"}, Goes(s, step)
    PROVE  \E t \in TaskType : /\ task' = [task EXCEPT ![s] = t]
                               /\ t.at = step /\ t.of = task[s].of /\ t.saw = {}
<1> DEFINE t == [task[s] EXCEPT !.at = step, !.saw = {}]
<1>1. task[s] \in TaskType
    OBVIOUS
<1>2. t \in TaskType /\ t.at = step /\ t.of = task[s].of /\ t.saw = {}
    BY <1>1 DEF TaskType
<1>3. task' = [task EXCEPT ![s] = t]
    BY DEF Goes
<1> QED BY <1>2, <1>3

LEMMA ReturnsTask ==
    ASSUME task \in [Sources -> TaskType], NEW s \in Sources, Returns(s)
    PROVE  \E t \in TaskType : /\ task' = [task EXCEPT ![s] = t]
                               /\ t.at \in {"idle", "returned"} /\ t.saw = {}
                               /\ t.at # "idle" => t.of = task[s].of
<1> DEFINE t == IF s \in Jobs THEN [NoTask EXCEPT !.at = "returned", !.of = task[s].of] ELSE NoTask
<1>1. task[s] \in TaskType
    OBVIOUS
<1>2. t \in TaskType /\ t.at \in {"idle", "returned"} /\ t.saw = {} /\ (t.at # "idle" => t.of = task[s].of)
    BY <1>1 DEF TaskType, NoTask
<1>3. task' = [task EXCEPT ![s] = t]
    BY DEF Returns
<1> QED BY <1>2, <1>3

LEMMA AsksTask ==
    ASSUME task \in [Sources -> TaskType], LearningTypes, NEW s \in Sources,
           NEW n \in {1, 2}, AsksWriter(s, n)
    PROVE  \E t \in TaskType : /\ task' = [task EXCEPT ![s] = t]
                               /\ t.at = "writing" /\ t.of = task[s].of
<1> DEFINE t == [task[s] EXCEPT !.at = "writing", !.saw = {Heads}, !.round = n]
<1>1. task[s] \in TaskType /\ {Heads} \in SUBSET HeadsType
    BY HeadsTyped
<1>2. t \in TaskType /\ t.at = "writing" /\ t.of = task[s].of
    BY <1>1 DEF TaskType, AtWork
<1>3. task' = [task EXCEPT ![s] = t]
    BY DEF AsksWriter
<1> QED BY <1>2, <1>3

LEMMA StartsTask ==
    ASSUME task \in [Sources -> TaskType], NEW s \in Sources, NEW q \in Requests, Starts(s, q)
    PROVE  \E t \in TaskType : /\ task' = [task EXCEPT ![s] = t]
                               /\ t.at = "claim" /\ t.of = q /\ t.saw = {}
<1> DEFINE t == [NoTask EXCEPT !.at = "claim", !.of = q]
<1>1. t \in TaskType /\ t.at = "claim" /\ t.of = q /\ t.saw = {}
    BY DEF TaskType, NoTask
<1>2. task' = [task EXCEPT ![s] = t]
    BY DEF Starts
<1> QED BY <1>1, <1>2

-----------------------------------------------------------------------------
(* The pipeline, action by action.                                         *)
LEMMA TaskFacts ==
    ASSUME Inv, NEW s \in Sources, task[s].at # "idle"
    PROVE  /\ task[s].of \in Requests /\ SourceOf(task[s].of) = s
           /\ task[s].at \in AtWork => request[task[s].of] = "processing"
           /\ s \in Logs => task[s].of = <<s, 0>> /\ LogHolds(s)
           /\ task \in [Sources -> TaskType] /\ LearningTypes /\ Rows
           /\ task[s].saw # {} => task[s].at = "writing"
BY RequestFacts DEF Inv, Types, Tasks, TaskHolds, LogsHold

LEMMA ScheduleInv ==
    ASSUME Inv, NEW c \in Chats, Schedule(c)
    PROVE  Inv'
<1> DEFINE q == <<c, 0>>
<1>1. q \in Requests /\ SourceOf(q) = c /\ c \in Sources /\ c \notin Understandings /\ c \notin Logs
    BY RequestFacts, SourceFacts
<1>2. PICK t \in TaskType : task' = [task EXCEPT ![c] = t] /\ t.at = "claim" /\ t.of = q /\ t.saw = {}
    BY <1>1, StartsTask DEF Schedule, Inv, Types
<1>3. UNCHANGED outbox /\ UNCHANGED <<request, model, desire, notes, log, unread>>
    BY DEF Schedule, learning
<1>4. LearningTypes' /\ Rows'
    BY <1>3, RowsKept DEF LearningTypes, Inv, Types
<1> QED BY <1>1, <1>2, <1>3, <1>4, PipelineStep DEF AtWork

LEMMA ReflectInv ==
    ASSUME Inv, NEW l \in Logs, Reflect(l)
    PROVE  Inv'
<1> DEFINE q == <<l, 0>>
<1>1. q \in Requests /\ SourceOf(q) = l /\ l \in Sources /\ l \notin Understandings
    BY RequestFacts, SourceFacts
<1>2. PICK t \in TaskType : task' = [task EXCEPT ![l] = t] /\ t.at = "claim" /\ t.of = q /\ t.saw = {}
    BY <1>1, StartsTask DEF Reflect, Inv, Types
<1>3. UNCHANGED outbox /\ UNCHANGED <<request, model, desire, notes, unread>>
    BY DEF Reflect
<1>4. log' \in [Logs -> LogType] /\ log'[l] = [log[l] EXCEPT !.outcome = "ok"]
      /\ \A r \in Logs : r # l => log'[r] = log[r]
    <2>1. [log[l] EXCEPT !.outcome = "ok"] \in LogType
        BY DEF Inv, Types, LearningTypes, LogType
    <2>2. log' = [log EXCEPT ![l] = [log[l] EXCEPT !.outcome = "ok"]]
        BY DEF Reflect
    <2> QED BY <2>1, <2>2 DEF Inv, Types, LearningTypes
<1>5. LearningTypes' /\ Rows'
    BY <1>3, <1>4, RowsKept DEF LearningTypes, Inv, Types
<1>6. LogHolds(l)'
    <2>1. log[l] \in LogType /\ LogHolds(l) /\ log[l].outcome = "none"
        BY DEF Inv, Types, LearningTypes, LogsHold, Reflect
    <2>2. log'[l].outcome = "ok" /\ log'[l].linked = log[l].linked
        BY <1>4, <2>1 DEF LogType
    <2>3. ~log[l].linked
        BY <2>1 DEF LogHolds
    <2>4. task'[l].at = "claim"
        BY <1>1, <1>2 DEF Inv, Types
    <2>5. request'[q] = request[q]
        BY <1>3
    <2> QED BY <2>1, <2>2, <2>3, <2>4, <2>5, Zenon DEF LogHolds
<1> QED BY <1>1, <1>2, <1>3, <1>4, <1>5, <1>6, PipelineStep DEF AtWork

(* A step that writes nothing but the request and the task.                *)
LEMMA RequestOnly ==
    ASSUME Inv, NEW s \in Sources, task[s].at # "idle", UNCHANGED outbox,
           UNCHANGED <<model, desire, notes, log, unread>>,
           NEW t \in TaskType, task' = [task EXCEPT ![s] = t],
           t.saw # {} => t.at = "writing", t.at # "idle" => t.of = task[s].of,
           NEW status \in Statuses,
           request' = [request EXCEPT ![task[s].of] = status],
           \/ status = request[task[s].of]
           \/ request[task[s].of] \in {"none", "processing"} /\ status \notin {"applied", "noted"},
           t.at \in AtWork => status = "processing",
           t.at \in AtWork \cup {"claim"} =>
              \/ t.at = "source" /\ task[s].at = "claim"
              \/ {t.at, task[s].at} \subseteq {"gate", "note", "writing"},
           status = "declined" => task[s].at \in {"gate", "writing"} \/ status = request[task[s].of]
    PROVE  Inv'
<1> DEFINE q == task[s].of
<1>1. /\ q \in Requests /\ SourceOf(q) = s /\ (s \in Logs => q = <<s, 0>> /\ LogHolds(s))
      /\ task \in [Sources -> TaskType] /\ LearningTypes /\ Rows
    BY TaskFacts
<1>2. request' \in [Requests -> Statuses] /\ request'[q] = status /\ \A r \in Requests : r # q => request'[r] = request[r]
    BY <1>1 DEF LearningTypes
<1>3. Rows'
    BY <1>1, <1>2, RowsKept
<1>4. LearningTypes'
    BY <1>1, <1>2 DEF LearningTypes
<1>5. s \in Logs => LogHolds(s)'
    <2> SUFFICES ASSUME s \in Logs PROVE LogHolds(s)'
        OBVIOUS
    <2>1. /\ q = <<s, 0>> /\ LogHolds(s) /\ task'[s] = t
          /\ log'[s] = log[s] /\ unread' = unread
        BY <1>1
    <2>2. task[s].at \in {"gate", "note", "writing"} => log[s].linked
        BY <2>1 DEF LogHolds
    <2>3. status \in {"none", "processing", "failed"} \/ log[s].linked \/ status = request[q]
        BY <2>2 DEF Statuses
    <2>4. t.at \in {"claim", "source"} => task[s].at = "claim"
        BY DEF AtWork
    <2>5. t.at \in {"gate", "note", "writing"} => task[s].at \in {"gate", "note", "writing"}
        BY DEF AtWork
    <2> QED BY <1>2, <2>1, <2>2, <2>3, <2>4, <2>5 DEF LogHolds
<1> QED BY <1>1, <1>2, <1>3, <1>4, <1>5, PipelineStep

(* The same for one that leaves the request alone, and for SetOutcome.     *)
LEMMA TaskOnly ==
    ASSUME Inv, NEW s \in Sources, task[s].at # "idle", UNCHANGED outbox, UNCHANGED learning,
           NEW t \in TaskType, task' = [task EXCEPT ![s] = t],
           t.saw # {} => t.at = "writing", t.at # "idle" => t.of = task[s].of,
           t.at \in AtWork \cup {"claim"} => {t.at, task[s].at} \subseteq {"gate", "note", "writing"}
    PROVE  Inv'
<1> DEFINE q == task[s].of
<1>1. /\ q \in Requests /\ task \in [Sources -> TaskType] /\ LearningTypes
      /\ task[s].at \in AtWork => request[q] = "processing"
    BY TaskFacts
<1>2. PICK status \in Statuses : status = request[q] /\ request' = [request EXCEPT ![q] = status]
    BY <1>1 DEF LearningTypes, learning
<1>3. UNCHANGED <<model, desire, notes, log, unread>>
    BY DEF learning
<1>4. t.at \in AtWork => status = "processing"
    BY <1>1, <1>2 DEF AtWork
<1> QED BY <1>2, <1>3, <1>4, RequestOnly

LEMMA OutcomeInv ==
    ASSUME Inv, NEW s \in Sources, task[s].at \in AtWork, UNCHANGED outbox,
           NEW status \in {"declined", "failed"}, SetOutcome(s, status),
           status = "declined" => task[s].at \in {"gate", "writing"}
    PROVE  Inv'
<1>1. /\ task[s].at # "idle" /\ task \in [Sources -> TaskType] /\ request[task[s].of] = "processing"
    BY TaskFacts DEF AtWork
<1>2. PICK t \in TaskType : /\ task' = [task EXCEPT ![s] = t]
                            /\ t.at \in {"idle", "returned"} /\ t.saw = {}
                            /\ t.at # "idle" => t.of = task[s].of
    BY <1>1, ReturnsTask DEF SetOutcome
<1>3. /\ UNCHANGED <<model, desire, notes, log, unread>>
      /\ request' = [request EXCEPT ![task[s].of] = status]
    BY DEF SetOutcome
<1>4. status \in Statuses /\ status \notin {"applied", "noted"}
    BY DEF Statuses
<1>5. t.at \notin AtWork /\ t.at # "claim"
    BY <1>2 DEF AtWork
<1> QED BY <1>1, <1>2, <1>3, <1>4, <1>5, RequestOnly

LEMMA ClaimInv ==
    ASSUME Inv, NEW s \in Sources, Claim(s)
    PROVE  Inv'
<1> DEFINE q == task[s].of
<1>1. task[s].at = "claim" /\ task[s].at # "idle" /\ task \in [Sources -> TaskType] /\ UNCHANGED outbox
    BY TaskFacts DEF Claim, At
<1>2. UNCHANGED <<model, desire, notes, log, unread>>
    BY DEF Claim
<1>3. CASE request[q] = "none"
    <2>1. request' = [request EXCEPT ![q] = "processing"] /\ Goes(s, "source")
        BY <1>3 DEF Claim
    <2>2. PICK t \in TaskType : task' = [task EXCEPT ![s] = t] /\ t.at = "source" /\ t.of = q /\ t.saw = {}
        BY <1>1, <2>1, GoesTask DEF AtWork
    <2>3. PICK status \in Statuses : status = "processing"
        BY DEF Statuses
    <2>4. t.at \in AtWork /\ t.saw = {} /\ t.at = "source" /\ task[s].at = "claim"
        BY <1>1, <2>2 DEF AtWork
    <2>5. /\ request' = [request EXCEPT ![task[s].of] = status]
          /\ request[task[s].of] \in {"none", "processing"} /\ status \notin {"applied", "noted"}
          /\ status # "declined"
        BY <1>3, <2>1, <2>3
    <2> HIDE DEF q
    <2> QED BY <1>1, <1>2, <2>2, <2>3, <2>4, <2>5, RequestOnly DEF q
<1>4. CASE request[q] # "none"
    <2>1. UNCHANGED request /\ Returns(s)
        BY <1>4 DEF Claim
    <2>2. PICK t \in TaskType : /\ task' = [task EXCEPT ![s] = t]
                                /\ t.at \in {"idle", "returned"} /\ t.saw = {}
                                /\ t.at # "idle" => t.of = q
        BY <1>1, <2>1, ReturnsTask
    <2>3. t.at \notin AtWork \cup {"claim"}
        BY <2>2 DEF AtWork
    <2>4. UNCHANGED learning
        BY <1>2, <2>1 DEF learning
    <2> QED BY <1>1, <2>2, <2>3, <2>4, TaskOnly
<1> QED BY <1>3, <1>4

LEMMA GateInv ==
    ASSUME Inv, NEW s \in Sources, GateRoutes(s) \/ WriterRemembers(s)
    PROVE  Inv'
<1>1. /\ task[s].at \in {"gate", "writing"} /\ UNCHANGED learning /\ UNCHANGED outbox
      /\ Goes(s, "note") \/ AsksWriter(s, 1)
    BY DEF GateRoutes, WriterRemembers, At
<1>2. task[s].at # "idle" /\ task \in [Sources -> TaskType] /\ LearningTypes
    BY <1>1, TaskFacts
<1>3. CASE Goes(s, "note")
    <2>1. PICK t \in TaskType : task' = [task EXCEPT ![s] = t] /\ t.at = "note" /\ t.of = task[s].of /\ t.saw = {}
        BY <1>2, <1>3, GoesTask DEF AtWork
    <2> QED BY <1>1, <1>2, <2>1, TaskOnly
<1>4. CASE AsksWriter(s, 1)
    <2>1. PICK t \in TaskType : task' = [task EXCEPT ![s] = t] /\ t.at = "writing" /\ t.of = task[s].of
        BY <1>2, <1>4, AsksTask
    <2> QED BY <1>1, <1>2, <2>1, TaskOnly
<1> QED BY <1>1, <1>3, <1>4

LEMMA StopsInv ==
    ASSUME Inv, NEW s \in Sources, LoadFails(s) \/ GateStops(s) \/ MemoryFails(s) \/ WriterStops(s)
    PROVE  Inv'
<1>1. /\ UNCHANGED outbox /\ task[s].at \in AtWork
      /\ \/ SetOutcome(s, "failed")
         \/ task[s].at \in {"gate", "writing"} /\ SetOutcome(s, "declined")
    BY DEF LoadFails, GateStops, MemoryFails, WriterStops, At, AtWork
<1> QED BY <1>1, OutcomeInv

LEMMA ConflictInv ==
    ASSUME Inv, NEW s \in Sources, Conflict(s)
    PROVE  Inv'
<1>1. /\ task[s].at = "writing" /\ UNCHANGED outbox
      /\ \/ Returns(s) /\ UNCHANGED learning
         \/ AsksWriter(s, 2) /\ UNCHANGED learning
         \/ SetOutcome(s, "failed")
    BY DEF Conflict, At
<1>2. task[s].at # "idle" /\ task[s].at \in AtWork /\ task \in [Sources -> TaskType] /\ LearningTypes
    BY <1>1, TaskFacts DEF AtWork
<1>3. CASE Returns(s) /\ UNCHANGED learning
    <2>1. PICK t \in TaskType : /\ task' = [task EXCEPT ![s] = t]
                                /\ t.at \in {"idle", "returned"} /\ t.saw = {}
                                /\ t.at # "idle" => t.of = task[s].of
        BY <1>2, <1>3, ReturnsTask
    <2>2. t.at \notin AtWork \cup {"claim"}
        BY <2>1 DEF AtWork
    <2> QED BY <1>1, <1>2, <1>3, <2>1, <2>2, TaskOnly
<1>4. CASE AsksWriter(s, 2) /\ UNCHANGED learning
    <2>1. PICK t \in TaskType : task' = [task EXCEPT ![s] = t] /\ t.at = "writing" /\ t.of = task[s].of
        BY <1>2, <1>4, AsksTask
    <2> QED BY <1>1, <1>2, <1>4, <2>1, TaskOnly
<1>5. CASE SetOutcome(s, "failed")
    BY <1>1, <1>2, <1>5, OutcomeInv
<1> QED BY <1>1, <1>3, <1>4, <1>5

(* A step that writes the log, and leaves the request as it is.            *)
LEMMA LogOnly ==
    ASSUME Inv, NEW s \in Sources, task[s].at # "idle", UNCHANGED outbox,
           UNCHANGED <<request, model, desire, notes>>,
           NEW t \in TaskType, task' = [task EXCEPT ![s] = t], t.saw = {},
           t.at # "idle" => t.of = task[s].of,
           t.at \in AtWork => task[s].at \in AtWork,
           log' \in [Logs -> LogType],
           \A l \in Logs : l # s => log'[l] = log[l] /\ (l \in unread' <=> l \in unread),
           s \in Logs => LogHolds(s)'
    PROVE  Inv'
<1> DEFINE q == task[s].of
<1>1. /\ q \in Requests /\ SourceOf(q) = s /\ LearningTypes /\ Rows
      /\ task[s].at \in AtWork => request[q] = "processing"
    BY TaskFacts
<1>2. LearningTypes' /\ Rows'
    BY <1>1, RowsKept DEF LearningTypes
<1> QED BY <1>1, <1>2, PipelineStep

LEMMA LoadInv ==
    ASSUME Inv, NEW s \in Sources, Load(s)
    PROVE  Inv'
<1>1. /\ task[s].at = "source" /\ UNCHANGED outbox
      /\ UNCHANGED <<request, model, desire, notes, unread>>
      /\ task[s].at # "idle" /\ task[s].at \in AtWork /\ Goes(s, "gate")
    BY DEF Load, At, AtWork
<1>2. /\ task \in [Sources -> TaskType] /\ log \in [Logs -> LogType]
      /\ s \in Logs => LogHolds(s)
    BY <1>1, TaskFacts DEF LearningTypes
<1>3. PICK t \in TaskType : task' = [task EXCEPT ![s] = t] /\ t.at = "gate" /\ t.of = task[s].of /\ t.saw = {}
    BY <1>1, <1>2, GoesTask DEF AtWork
<1>4. ASSUME NEW l \in Logs
      PROVE  log'[l] \in LogType /\ (l # s => log'[l] = log[l])
             /\ (l = s => log'[l].linked /\ log'[l].outcome = log[l].outcome)
    <2>1. log[l] \in LogType
        BY <1>2
    <2>2. log'[l] = IF l = s THEN [log[l] EXCEPT !.linked = TRUE] ELSE log[l]
        BY DEF Load
    <2> QED BY <2>1, <2>2 DEF LogType
<1>5. log' \in [Logs -> LogType]
    <2>1. log' = [l \in Logs |-> IF l = s THEN [log[l] EXCEPT !.linked = TRUE] ELSE log[l]]
        BY DEF Load
    <2>2. log' = [l \in Logs |-> log'[l]]
        BY <2>1
    <2> QED BY <1>4, <2>2
<1>6. s \in Logs => LogHolds(s)'
    <2>1. s \in Logs => log[s].outcome = "ok"
        BY <1>1, <1>2 DEF LogHolds
    <2>2. task'[s].at = "gate"
        BY <1>2, <1>3
    <2> QED BY <1>1, <1>4, <2>1, <2>2 DEF LogHolds
<1> QED BY <1>1, <1>3, <1>4, <1>5, <1>6, LogOnly

LEMMA LinkFailsInv ==
    ASSUME Inv, NEW l \in Logs, LinkFails(l)
    PROVE  Inv'
<1>1. /\ task[l].at = "source" /\ UNCHANGED outbox
      /\ UNCHANGED <<request, model, desire, notes, unread>>
      /\ task[l].at # "idle" /\ task[l].at \in AtWork /\ Goes(l, "unlinked") /\ l \in Sources
    BY SourceFacts DEF LinkFails, At, AtWork
<1>2. task \in [Sources -> TaskType] /\ log \in [Logs -> LogType] /\ LogHolds(l)
    BY <1>1, TaskFacts DEF LearningTypes
<1>3. PICK t \in TaskType : task' = [task EXCEPT ![l] = t] /\ t.at = "unlinked" /\ t.of = task[l].of /\ t.saw = {}
    BY <1>1, <1>2, GoesTask DEF AtWork
<1>4. /\ log' \in [Logs -> LogType] /\ \A r \in Logs : r # l => log'[r] = log[r]
      /\ log'[l].outcome = "handoff_failed" /\ log'[l].linked = log[l].linked
    <2>1. log' = [log EXCEPT ![l] = [log[l] EXCEPT !.outcome = "handoff_failed"]]
        BY DEF LinkFails
    <2>2. log[l] \in LogType /\ [log[l] EXCEPT !.outcome = "handoff_failed"] \in LogType
        BY <1>2 DEF LogType
    <2> QED BY <1>2, <2>1, <2>2 DEF LogType
<1>5. LogHolds(l)'
    <2>1. ~log[l].linked
        BY <1>1, <1>2 DEF LogHolds
    <2>2. task'[l].at = "unlinked"
        BY <1>1, <1>2, <1>3
    <2>3. ~log'[l].linked /\ request'[<<l, 0>>] = request[<<l, 0>>]
        BY <1>1, <1>4, <2>1
    <2> QED BY <1>2, <1>4, <2>1, <2>2, <2>3 DEF LogHolds
<1> QED BY <1>1, <1>3, <1>4, <1>5, LogOnly

LEMMA RaisesInv ==
    ASSUME Inv, NEW s \in Sources, Raises(s)
    PROVE  Inv'
<1>1. /\ task[s].at # "idle" /\ UNCHANGED outbox /\ UNCHANGED <<request, model, desire, notes>>
      /\ Returns(s)
    BY DEF Raises, At
<1>2. /\ task \in [Sources -> TaskType] /\ log \in [Logs -> LogType]
      /\ s \in Logs => LogHolds(s)
    BY <1>1, TaskFacts DEF LearningTypes
<1>3. PICK t \in TaskType : /\ task' = [task EXCEPT ![s] = t]
                            /\ t.at \in {"idle", "returned"} /\ t.saw = {}
                            /\ t.at # "idle" => t.of = task[s].of
    BY <1>1, <1>2, ReturnsTask
<1>4. t.at \notin AtWork
    BY <1>3 DEF AtWork
<1>5. task'[s].at \notin {"claim", "source", "gate", "note", "writing"}
    BY <1>2, <1>3
<1>6. ASSUME UNCHANGED <<log, unread>>
      PROVE  Inv'
    <2>1. s \in Logs => LogHolds(s)'
        BY <1>1, <1>2, <1>5, <1>6 DEF LogHolds
    <2> QED BY <1>1, <1>2, <1>3, <1>4, <1>6, <2>1, LogOnly
<1>7. ASSUME s \in Logs, HandoffFails(s)
      PROVE  Inv'
    <2> DEFINE entry == [log[s] EXCEPT !.outcome = "handoff_failed"]
    <2>1. log[s] \in LogType
        BY <1>2, <1>7
    <2>2. entry \in LogType /\ entry.outcome = "handoff_failed" /\ entry.linked = log[s].linked
        BY <2>1 DEF LogType
    <2>3. log' = [log EXCEPT ![s] = entry]
        BY <1>7 DEF HandoffFails
    <2> HIDE DEF entry
    <2>4. /\ log' \in [Logs -> LogType] /\ log'[s] = entry
          /\ \A l \in Logs : l # s => log'[l] = log[l]
        BY <1>2, <1>7, <2>2, <2>3
    <2>5. \/ ~log[s].linked /\ unread' = unread
          \/ unread' = unread \cup {s}
        BY <1>7 DEF HandoffFails
    <2>6. LogHolds(s)'
        <3>1. LogHolds(s) /\ request'[<<s, 0>>] = request[<<s, 0>>]
            BY <1>1, <1>2, <1>7
        <3>2. log'[s].linked => s \in unread'
            BY <2>2, <2>4, <2>5
        <3> QED BY <1>5, <2>2, <2>4, <3>1, <3>2 DEF LogHolds
    <2>7. \A l \in Logs : l # s => log'[l] = log[l] /\ (l \in unread' <=> l \in unread)
        BY <2>4, <2>5
    <2> QED BY <1>1, <1>3, <1>4, <2>4, <2>6, <2>7, LogOnly
<1> QED BY <1>6, <1>7 DEF Raises

LEMMA PersistMemoryInv ==
    ASSUME Inv, NEW s \in Sources, PersistMemory(s)
    PROVE  Inv'
<1> DEFINE q == task[s].of
<1>1. /\ task[s].at = "note" /\ UNCHANGED outbox /\ UNCHANGED <<model, desire, log, unread>>
      /\ task[s].at # "idle" /\ task[s].at \in AtWork /\ Returns(s)
    BY DEF PersistMemory, At, AtWork
<1>2. /\ q \in Requests /\ SourceOf(q) = s /\ task \in [Sources -> TaskType] /\ LearningTypes /\ Rows
      /\ request[q] = "processing" /\ (s \in Logs => q = <<s, 0>> /\ LogHolds(s))
    BY <1>1, TaskFacts
<1>3. PICK t \in TaskType : /\ task' = [task EXCEPT ![s] = t]
                            /\ t.at \in {"idle", "returned"} /\ t.saw = {}
                            /\ t.at # "idle" => t.of = task[s].of
    BY <1>1, <1>2, ReturnsTask
<1>4. request' = [request EXCEPT ![q] = "noted"] /\ notes' = notes \cup {q}
    BY <1>2 DEF PersistMemory
<1>5. request'[q] = "noted" /\ \A r \in Requests : r # q => request'[r] = request[r]
    BY <1>2, <1>4 DEF LearningTypes
<1>6. LearningTypes'
    BY <1>1, <1>2, <1>4 DEF LearningTypes, Statuses
<1>7. Rows'
    BY <1>1, <1>2, <1>4, <1>5 DEF Rows, VersionsBy
<1>8. s \in Logs => LogHolds(s)'
    <2> SUFFICES ASSUME s \in Logs PROVE LogHolds(s)'
        OBVIOUS
    <2>1. LogHolds(s) /\ log'[s] = log[s] /\ unread' = unread /\ task'[s] = t
        BY <1>1, <1>2, <1>3
    <2> QED BY <1>1, <1>3, <2>1 DEF LogHolds
<1>9. t.at \notin AtWork
    BY <1>3 DEF AtWork
<1> QED BY <1>1, <1>2, <1>3, <1>5, <1>6, <1>7, <1>8, <1>9, PipelineStep

(* A version is added.                                                     *)
LEMMA Appended ==
    ASSUME NEW versions \in Seq(Version) \ {<<>>}, NEW v \in Version
    PROVE  /\ Append(versions, v) \in Seq(Version) \ {<<>>}
           /\ HeadOf(Append(versions, v)) = v.by
           /\ \A r : VersionsBy(Append(versions, v), r) # {} <=> (VersionsBy(versions, r) # {} \/ r = v.by)
<1> DEFINE w == Append(versions, v)
<1>1. /\ w \in Seq(Version) /\ Len(w) = Len(versions) + 1 /\ w[Len(versions) + 1] = v
      /\ \A i \in 1..Len(versions) : w[i] = versions[i]
    BY AppendProperties
<1>2. Len(versions) \in Nat /\ DOMAIN versions = 1..Len(versions) /\ DOMAIN w = 1..(Len(versions) + 1)
    BY <1>1, LenProperties
<1>3. w # <<>> /\ HeadOf(w) = v.by
    BY <1>1, <1>2 DEF HeadOf
<1> HIDE DEF w
<1>4. ASSUME NEW r PROVE VersionsBy(w, r) # {} <=> (VersionsBy(versions, r) # {} \/ r = v.by)
    <2>1. ASSUME VersionsBy(w, r) # {} PROVE VersionsBy(versions, r) # {} \/ r = v.by
        <3>1. PICK i \in 1..(Len(versions) + 1) : w[i].by = r
            BY <1>2, <2>1 DEF VersionsBy
        <3>2. CASE i = Len(versions) + 1
            BY <1>1, <3>1, <3>2
        <3>3. CASE i # Len(versions) + 1
            <4>1. i \in 1..Len(versions)
                BY <1>2, <3>3
            <4>2. versions[i].by = r
                BY <1>1, <3>1, <4>1
            <4> QED BY <1>2, <4>1, <4>2 DEF VersionsBy
        <3> QED BY <3>2, <3>3
    <2>2. ASSUME VersionsBy(versions, r) # {} PROVE VersionsBy(w, r) # {}
        <3>1. PICK i \in 1..Len(versions) : versions[i].by = r
            BY <1>2, <2>2 DEF VersionsBy
        <3>2. i \in DOMAIN w /\ w[i].by = r
            BY <1>1, <1>2, <3>1
        <3> QED BY <3>2 DEF VersionsBy
    <2>3. ASSUME r = v.by PROVE VersionsBy(w, r) # {}
        <3>1. Len(versions) + 1 \in DOMAIN w /\ w[Len(versions) + 1].by = r
            BY <1>1, <1>2, <2>3
        <3> QED BY <3>1 DEF VersionsBy
    <2> QED BY <2>1, <2>2, <2>3
<1>5. Append(versions, v) = w
    BY DEF w
<1> QED BY <1>1, <1>3, <1>4, <1>5

LEMMA PersistIntegratedInv ==
    ASSUME Inv, NEW s \in Sources, PersistIntegrated(s)
    PROVE  Inv'
<1> DEFINE q == task[s].of
           v == [by |-> q, prev |-> Heads.model]
           d == [by |-> q, prev |-> Heads.desire]
<1>1. /\ task[s].at = "writing" /\ UNCHANGED outbox /\ UNCHANGED <<notes, log, unread>>
      /\ task[s].at # "idle" /\ task[s].at \in AtWork /\ Returns(s)
    BY DEF PersistIntegrated, At, AtWork
<1>2. /\ q \in Requests /\ SourceOf(q) = s /\ task \in [Sources -> TaskType] /\ LearningTypes /\ Rows
      /\ request[q] = "processing" /\ (s \in Logs => q = <<s, 0>> /\ LogHolds(s))
    BY <1>1, TaskFacts
<1>3. PICK t \in TaskType : /\ task' = [task EXCEPT ![s] = t]
                            /\ t.at \in {"idle", "returned"} /\ t.saw = {}
                            /\ t.at # "idle" => t.of = task[s].of
    BY <1>1, <1>2, ReturnsTask
<1>4. /\ request' = [request EXCEPT ![q] = "applied"]
      /\ model' = Append(model, v) /\ desire' \in {desire, Append(desire, d)}
    BY DEF PersistIntegrated
<1>5. request'[q] = "applied" /\ \A r \in Requests : r # q => request'[r] = request[r]
    BY <1>2, <1>4 DEF LearningTypes
<1>6. v \in Version /\ v.by = q /\ d \in Version /\ d.by = q
    BY <1>2, HeadsTyped DEF Version, HeadsType
<1>7. /\ model' \in Seq(Version) \ {<<>>}
      /\ \A r : VersionsBy(model', r) # {} <=> (VersionsBy(model, r) # {} \/ r = q)
    <2> HIDE DEF v
    <2>1. model \in Seq(Version) \ {<<>>}
        BY <1>2 DEF LearningTypes
    <2>2. /\ Append(model, v) \in Seq(Version) \ {<<>>}
          /\ \A r : VersionsBy(Append(model, v), r) # {} <=> (VersionsBy(model, r) # {} \/ r = v.by)
        BY <1>6, <2>1, Appended
    <2> QED BY <1>4, <1>6, <2>2, Zenon
<1>8. /\ desire' \in Seq(Version) \ {<<>>}
      /\ \A r : VersionsBy(desire', r) # {} => (VersionsBy(desire, r) # {} \/ r = q)
    <2> HIDE DEF d
    <2> QED BY <1>2, <1>4, <1>6, Appended DEF LearningTypes
<1>9. LearningTypes'
    BY <1>1, <1>2, <1>4, <1>7, <1>8 DEF LearningTypes, Statuses
<1>10. Rows'
    <2> SUFFICES ASSUME NEW r \in Requests
                 PROVE  /\ request'[r] = "applied" <=> VersionsBy(model', r) # {}
                        /\ VersionsBy(desire', r) # {} => request'[r] = "applied"
                        /\ request'[r] = "noted" <=> r \in notes'
        BY Zenon DEF Rows
    <2>1. notes' = notes
        BY <1>1
    <2> HIDE DEF q
    <2>2. /\ request[r] = "applied" <=> VersionsBy(model, r) # {}
          /\ VersionsBy(desire, r) # {} => request[r] = "applied"
          /\ request[r] = "noted" <=> r \in notes
        BY <1>2, Zenon DEF Rows
    <2> QED BY <1>2, <1>5, <1>7, <1>8, <2>1, <2>2
<1>11. s \in Logs => LogHolds(s)'
    <2> SUFFICES ASSUME s \in Logs PROVE LogHolds(s)'
        OBVIOUS
    <2>1. LogHolds(s) /\ log'[s] = log[s] /\ unread' = unread /\ task'[s] = t
        BY <1>1, <1>2, <1>3
    <2> QED BY <1>1, <1>3, <2>1 DEF LogHolds
<1>12. t.at \notin AtWork
    BY <1>3 DEF AtWork
<1> HIDE DEF v, d
<1> QED BY <1>1, <1>2, <1>3, <1>5, <1>9, <1>10, <1>11, <1>12, PipelineStep

-----------------------------------------------------------------------------
(* The outbox, action by action.                                           *)
LEMMA OutboxFacts ==
    ASSUME Inv
    PROVE  /\ OutboxTypes /\ task \in [Sources -> TaskType] /\ OutboxInv
           /\ job \in [Jobs -> JobType] /\ drain \in DrainType
           /\ \A u \in Understandings : task[u].at # "idle" =>
                 drain.job = u /\ drain.at = "pipeline" /\ job[u].is = "running"
           /\ \A u \in Understandings : task[u].saw # {} => task[u].at # "idle"
<1>1. \A u \in Understandings : TaskHolds(u) /\ u # None
    BY SourceFacts DEF Inv, Tasks
<1>2. \A u \in Understandings : task[u].at # "idle" =>
                 drain.job = u /\ drain.at = "pipeline" /\ job[u].is = "running"
    BY <1>1 DEF Inv, TaskHolds, OutboxInv, InHand
<1>3. \A u \in Understandings : task[u].saw # {} => task[u].at # "idle"
    BY <1>1 DEF TaskHolds
<1> QED BY <1>2, <1>3 DEF Inv, Types, OutboxTypes

LEMMA JobStep ==
    ASSUME job \in [Jobs -> JobType], NEW j \in Jobs,
           NEW x \in {"none", "pending", "running", "done", "failed"},
           job' = [job EXCEPT ![j].is = x]
    PROVE  /\ job' \in [Jobs -> JobType] /\ job'[j].is = x
           /\ \A k \in Jobs : k # j => job'[k] = job[k]
           /\ \A k \in Jobs : job'[k].attempts = job[k].attempts
           /\ \A k \in Jobs : Current(k)' = Current(k)
<1> DEFINE r == [job[j] EXCEPT !.is = x]
<1>1. job[j] \in JobType
    OBVIOUS
<1>2. r \in JobType /\ r.is = x /\ r.attempts = job[j].attempts
    BY <1>1 DEF JobType
<1>3. job' = [job EXCEPT ![j] = r]
    OBVIOUS
<1>4. job' \in [Jobs -> JobType] /\ job'[j].is = x /\ \A k \in Jobs : k # j => job'[k] = job[k]
    BY <1>2, <1>3
<1>5. \A k \in Jobs : job'[k].attempts = job[k].attempts
    BY <1>2, <1>3
<1> QED BY <1>4, <1>5 DEF Current

LEMMA LeaveInv ==
    ASSUME Inv, NEW j \in Jobs, Leave(j)
    PROVE  Inv'
<1>1. /\ UNCHANGED learning /\ UNCHANGED <<task, drain, retry, written, event, overtaken>>
      /\ job[j].is = "none" /\ job' = [job EXCEPT ![j].is = "pending"]
    BY DEF Leave
<1>2. /\ job' \in [Jobs -> JobType] /\ job'[j].is = "pending"
      /\ \A k \in Jobs : k # j => job'[k] = job[k]
      /\ \A k \in Jobs : job'[k].attempts = job[k].attempts /\ Current(k)' = Current(k)
    BY <1>1, JobStep, OutboxFacts
<1>3. request' = request
    BY <1>1 DEF learning
<1>4. OutboxTypes' /\ task' \in [Sources -> TaskType]
    BY <1>1, <1>2, OutboxFacts DEF OutboxTypes
<1>5. ASSUME NEW u \in Understandings PROVE TaskHolds(u)'
    <2>1. TaskHolds(u) /\ u \in Jobs
        BY SourceFacts DEF Inv, Tasks
    <2> QED BY <1>1, <1>2, <1>3, <2>1 DEF TaskHolds
<1>6. InHand'
    BY <1>1, <1>2, OutboxFacts DEF OutboxInv, InHand, DrainType
<1>7. Reading'
    BY <1>1, <1>2, OutboxFacts DEF OutboxInv, Reading, DrainType
<1>8. Acknowledged' /\ Done'
    BY <1>1, <1>2, <1>3, OutboxFacts, SourceFacts DEF OutboxInv, Acknowledged, Done, Succeeded
<1>9. Retrying'
    BY <1>1, <1>2, <1>3, OutboxFacts, SourceFacts DEF OutboxInv, Retrying, OutboxTypes, Retry
<1>10. Attempts' /\ Cleaned'
    BY <1>1, <1>2, <1>3, OutboxFacts, SourceFacts DEF OutboxInv, Attempts, Cleaned
<1> QED BY <1>1, <1>4, <1>5, <1>6, <1>7, <1>8, <1>9, <1>10, OutboxStep

LEMMA DrainReadsInv ==
    ASSUME Inv, DrainReads
    PROVE  Inv'
<1>0. PICK S \in SUBSET Pending : drain' = [drain EXCEPT !.read = {<<j, job[j].attempts>> : j \in S}]
    BY DEF DrainReads
<1> DEFINE read == {<<j, job[j].attempts>> : j \in S}
<1>1. /\ UNCHANGED learning /\ UNCHANGED <<task, job, retry, written, event, overtaken>>
      /\ drain' = [drain EXCEPT !.read = read]
    BY <1>0 DEF DrainReads
<1>2. read \in SUBSET (Jobs \X (0..MaxAttempts))
    BY OutboxFacts DEF JobType, Pending
<1>3. drain' \in DrainType /\ drain'.read = read /\ drain'.job = drain.job /\ drain'.at = drain.at
    BY <1>1, <1>2, OutboxFacts DEF DrainType
<1>4. request' = request /\ \A k : Current(k)' = Current(k)
    BY <1>1 DEF learning, Current
<1>5. OutboxTypes' /\ task' \in [Sources -> TaskType]
    BY <1>1, <1>3, OutboxFacts DEF OutboxTypes
<1>6. ASSUME NEW u \in Understandings PROVE TaskHolds(u)'
    <2>1. TaskHolds(u)
        BY SourceFacts DEF Inv, Tasks
    <2> QED BY <1>1, <1>3, <1>4, <2>1 DEF TaskHolds
<1>7. Reading'
    <2>1. \A r \in read : job[r[1]].is = "pending" /\ job[r[1]].attempts = r[2]
        BY DEF Pending
    <2> HIDE DEF read
    <2> QED BY <1>1, <1>3, <2>1 DEF Reading
<1>8. InHand' /\ Acknowledged' /\ Done'
    BY <1>1, <1>3, <1>4, OutboxFacts DEF OutboxInv, InHand, Acknowledged, Done, Succeeded
<1>9. Retrying' /\ Attempts' /\ Cleaned'
    BY <1>1, <1>4, OutboxFacts DEF OutboxInv, Retrying, Attempts, Cleaned
<1> HIDE DEF read
<1> QED BY <1>1, <1>5, <1>6, <1>7, <1>8, <1>9, OutboxStep

LEMMA DrainTakesInv ==
    ASSUME Inv, NEW j \in Jobs, NEW n \in 0..MaxAttempts, DrainTakes(j, n)
    PROVE  Inv'
<1>1. /\ UNCHANGED learning /\ UNCHANGED <<retry, written, event, overtaken>>
      /\ drain.job = None /\ <<j, n>> \in drain.read
    BY DEF DrainTakes
<1>2. job[j].is = "pending" /\ job[j].attempts = n
    BY <1>1, OutboxFacts DEF OutboxInv, Reading
<1>3. /\ job' = [job EXCEPT ![j].is = "running"]
      /\ drain' = [read |-> drain.read \ {<<j, n>>}, job |-> j, at |-> First(j)]
      /\ IF j \in Understandings THEN Starts(j, <<j, n>>) ELSE UNCHANGED task
    BY <1>1, <1>2 DEF DrainTakes
<1>4. /\ job' \in [Jobs -> JobType] /\ job'[j].is = "running"
      /\ \A k \in Jobs : k # j => job'[k] = job[k]
      /\ \A k \in Jobs : job'[k].attempts = job[k].attempts /\ Current(k)' = Current(k)
    BY <1>3, JobStep, OutboxFacts
<1>5. /\ First(j) \in {"message", "memory", "pipeline"}
      /\ j \in Understandings => First(j) = "pipeline"
    BY SourceFacts DEF First
<1>6. drain' \in DrainType /\ drain'.job = j /\ drain'.at = First(j) /\ drain'.read = drain.read \ {<<j, n>>}
    BY <1>3, <1>5, OutboxFacts DEF DrainType
<1>7. request' = request
    BY <1>1 DEF learning
<1>8. \A u \in Understandings : task[u].at = "idle" /\ task[u].saw = {}
    BY <1>1, OutboxFacts, SourceFacts
<1>9. /\ task' \in [Sources -> TaskType] /\ \A s \in Sources : s # j => task'[s] = task[s]
      /\ j \in Understandings => task'[j].at = "claim" /\ task'[j].of = <<j, n>> /\ task'[j].saw = {}
    <2>1. CASE j \in Understandings
        <3>1. <<j, n>> \in Requests /\ j \in Sources
            BY <2>1, RequestFacts, SourceFacts
        <3>2. PICK t \in TaskType : task' = [task EXCEPT ![j] = t] /\ t.at = "claim" /\ t.of = <<j, n>> /\ t.saw = {}
            BY <1>3, <2>1, <3>1, StartsTask, OutboxFacts
        <3> QED BY <3>1, <3>2, OutboxFacts
    <2>2. CASE j \notin Understandings
        BY <1>3, <2>2, OutboxFacts
    <2> QED BY <2>1, <2>2
<1>10. OutboxTypes'
    BY <1>1, <1>4, <1>6, OutboxFacts DEF OutboxTypes
<1>11. ASSUME NEW u \in Understandings PROVE TaskHolds(u)'
    <2>1. u \in Sources /\ u \in Jobs
        BY SourceFacts
    <2>2. CASE u = j
        <3>1. <<j, n>> = Current(j) /\ <<j, n>> \in Requests /\ SourceOf(<<j, n>>) = j
            BY <1>2, <2>2, RequestFacts DEF Current
        <3> QED BY <1>4, <1>5, <1>6, <1>9, <2>1, <2>2, <3>1 DEF TaskHolds, AtWork
    <2>3. CASE u # j
        BY <1>8, <1>9, <2>1, <2>3 DEF TaskHolds, AtWork
    <2> QED BY <2>2, <2>3
<1>12. InHand'
    BY <1>4, <1>5, <1>6 DEF InHand
<1>13. Reading'
    <2> SUFFICES ASSUME NEW r \in drain.read, r # <<j, n>>
                 PROVE  job'[r[1]].is = "pending" /\ job'[r[1]].attempts = r[2]
        BY <1>6 DEF Reading
    <2>1. job[r[1]].is = "pending" /\ job[r[1]].attempts = r[2] /\ r[1] \in Jobs /\ r = <<r[1], r[2]>>
        BY OutboxFacts DEF OutboxInv, Reading, DrainType
    <2>2. r[1] # j
        BY <1>2, <2>1
    <2> QED BY <1>4, <2>1, <2>2
<1>14. Acknowledged' /\ Done'
    BY <1>1, <1>4, <1>5, <1>6, <1>7, OutboxFacts, SourceFacts DEF OutboxInv, Acknowledged, Done, Succeeded
<1>15. Retrying'
    BY <1>1, <1>2, <1>4, <1>7, OutboxFacts, SourceFacts DEF OutboxInv, Retrying, OutboxTypes, Retry
<1>16. Attempts' /\ Cleaned'
    BY <1>1, <1>4, <1>7, OutboxFacts, SourceFacts DEF OutboxInv, Attempts, Cleaned
<1>17. \A s \in Chats \cup Logs : task'[s] = task[s]
    BY <1>9, SourceFacts
<1> QED BY <1>1, <1>9, <1>10, <1>11, <1>12, <1>13, <1>14, <1>15, <1>16, <1>17, OutboxStep

(* Drain goes on with the job in hand, while its task is idle.             *)
LEMMA DrainGoes ==
    ASSUME Inv, UNCHANGED learning, UNCHANGED <<job, retry, overtaken>>,
           NEW step \in {"memory", "ack"}, drain' = [drain EXCEPT !.at = step],
           step = "memory" => drain.job \notin Understandings,
           written' \subseteq Jobs, written \subseteq written', Cleaned',
           event' \in [told : BOOLEAN, cleaned : BOOLEAN],
           task' \in [Sources -> TaskType], \A s \in Chats \cup Logs : task'[s] = task[s],
           \A u \in Understandings : task'[u].at = "idle" /\ task'[u].saw = {},
           Acknowledged'
    PROVE  Inv'
<1>1. drain' \in DrainType /\ drain'.read = drain.read /\ drain'.job = drain.job /\ drain'.at = step
    BY OutboxFacts DEF DrainType
<1>2. request' = request /\ \A k : Current(k)' = Current(k)
    BY DEF learning, Current
<1>3. OutboxTypes'
    BY <1>1, OutboxFacts DEF OutboxTypes
<1>4. \A u \in Understandings : TaskHolds(u)'
    BY DEF TaskHolds, AtWork
<1>5. InHand' /\ Reading'
    BY <1>1, OutboxFacts DEF OutboxInv, InHand, Reading
<1>6. Done'
    BY <1>2, OutboxFacts DEF OutboxInv, Done, Succeeded
<1>7. Retrying' /\ Attempts'
    BY <1>2, OutboxFacts DEF OutboxInv, Retrying, Attempts
<1> QED BY <1>3, <1>4, <1>5, <1>6, <1>7, OutboxStep

LEMMA WriteMessageInv ==
    ASSUME Inv, NEW j \in Jobs, WriteMessage(j)
    PROVE  Inv'
<1>1. /\ UNCHANGED learning /\ UNCHANGED <<task, job, retry, written, overtaken>>
      /\ drain.job = j /\ drain.at = "message"
      /\ drain' = [drain EXCEPT !.at = "memory"] /\ event' = [event EXCEPT !.told = TRUE]
    BY DEF WriteMessage
<1>2. event' \in [told : BOOLEAN, cleaned : BOOLEAN] /\ Cleaned'
    BY <1>1, OutboxFacts DEF OutboxTypes, Cleaned
<1>3. \A u \in Understandings : task[u].at = "idle" /\ task[u].saw = {}
    BY <1>1, OutboxFacts
<1>4. drain'.at = "memory" /\ j \notin Understandings
    BY <1>1, OutboxFacts DEF DrainType, OutboxInv, InHand
<1>5. Acknowledged'
    BY <1>4 DEF Acknowledged
<1>6. written \subseteq Jobs
    BY OutboxFacts DEF OutboxTypes
<1> QED BY <1>1, <1>2, <1>3, <1>4, <1>5, <1>6, OutboxFacts, DrainGoes

LEMMA WriteMemoryInv ==
    ASSUME Inv, NEW j \in Jobs, WriteMemory(j)
    PROVE  Inv'
<1>1. /\ UNCHANGED learning /\ UNCHANGED <<task, job, retry, event, overtaken>>
      /\ drain.job = j /\ drain.at = "memory"
      /\ drain' = [drain EXCEPT !.at = "ack"] /\ written' = written \cup {j}
    BY DEF WriteMemory
<1>2. event' \in [told : BOOLEAN, cleaned : BOOLEAN] /\ Cleaned'
    BY <1>1, OutboxFacts DEF OutboxTypes, OutboxInv, Cleaned
<1>3. \A u \in Understandings : task[u].at = "idle" /\ task[u].saw = {}
    BY <1>1, OutboxFacts
<1>4. drain'.job = j /\ drain'.at = "ack" /\ j \in written' /\ j \notin Understandings
    BY <1>1, OutboxFacts DEF DrainType, OutboxInv, InHand
<1>6. written' \subseteq Jobs /\ written \subseteq written'
    BY <1>1, OutboxFacts DEF OutboxTypes
<1>5. Acknowledged'
    BY <1>4 DEF Acknowledged
<1> QED BY <1>1, <1>2, <1>3, <1>4, <1>5, <1>6, OutboxFacts, DrainGoes

(* The job in hand is over.                                                *)
LEMMA SettlesInv ==
    ASSUME Inv, UNCHANGED learning, UNCHANGED <<retry, written, overtaken>>,
           NEW j \in Jobs, drain.job = j,
           NEW status \in {"done", "failed"}, Settles(j, status),
           status = "done" => drain.at = "ack",
           task' \in [Sources -> TaskType], \A s \in Chats \cup Logs : task'[s] = task[s],
           \A u \in Understandings : task'[u].at = "idle" /\ task'[u].saw = {}
    PROVE  Inv'
<1>1. /\ job' = [job EXCEPT ![j].is = status]
      /\ drain' = [drain EXCEPT !.job = None, !.at = "idle"]
      /\ event' = [event EXCEPT !.cleaned = event.cleaned \/ event.told]
    BY DEF Settles
<1>2. /\ job' \in [Jobs -> JobType] /\ job'[j].is = status
      /\ \A k \in Jobs : k # j => job'[k] = job[k]
      /\ \A k \in Jobs : job'[k].attempts = job[k].attempts /\ Current(k)' = Current(k)
    BY <1>1, JobStep, OutboxFacts
<1>3. drain' \in DrainType /\ drain'.job = None /\ drain'.at = "idle" /\ drain'.read = drain.read
    BY <1>1, OutboxFacts DEF DrainType
<1>4. event' \in [told : BOOLEAN, cleaned : BOOLEAN] /\ Cleaned'
    BY <1>1, OutboxFacts DEF OutboxTypes, OutboxInv, Cleaned
<1>5. request' = request
    BY DEF learning
<1>6. OutboxTypes'
    BY <1>2, <1>3, <1>4, OutboxFacts DEF OutboxTypes
<1>7. \A u \in Understandings : TaskHolds(u)'
    BY DEF TaskHolds, AtWork
<1>8. job[j].is = "running" /\ j # None
    BY OutboxFacts, SourceFacts DEF OutboxInv, InHand
<1>9. InHand' /\ Acknowledged'
    BY <1>3 DEF InHand, Acknowledged
<1>10. Reading'
    BY <1>2, <1>3, <1>8, OutboxFacts DEF OutboxInv, Reading, DrainType
<1>11. Done'
    <2>1. status = "done" => /\ j \in Understandings => Succeeded(Current(j))
                             /\ j \in Notes \cup Events => j \in written
        BY OutboxFacts DEF OutboxInv, Acknowledged
    <2> QED BY <1>2, <1>5, <2>1, OutboxFacts, SourceFacts DEF OutboxInv, Done, Succeeded
<1>12. Retrying'
    BY <1>2, <1>5, <1>8, OutboxFacts, SourceFacts DEF OutboxInv, Retrying, OutboxTypes, Retry
<1>13. Attempts'
    <2>1. \A u \in Understandings : job'[u].attempts = job[u].attempts
        BY <1>2, SourceFacts
    <2>2. Attempts
        BY OutboxFacts DEF OutboxInv
    <2> QED BY <1>5, <2>1, <2>2 DEF Attempts
<1> QED BY <1>4, <1>6, <1>7, <1>9, <1>10, <1>11, <1>12, <1>13, OutboxStep

LEMMA AckInv ==
    ASSUME Inv, NEW j \in Jobs, WriteFails(j) \/ Ack(j)
    PROVE  Inv'
<1>1. /\ UNCHANGED learning /\ UNCHANGED <<task, retry, written, overtaken>> /\ drain.job = j
      /\ drain.at # "pipeline"
      /\ \/ Settles(j, "failed")
         \/ Settles(j, "done") /\ drain.at = "ack"
    BY DEF WriteFails, Ack
<1>2. \A u \in Understandings : task'[u].at = "idle" /\ task'[u].saw = {}
    BY <1>1, OutboxFacts
<1>3. task' \in [Sources -> TaskType] /\ \A s \in Chats \cup Logs : task'[s] = task[s]
    BY <1>1, OutboxFacts
<1>4. CASE Settles(j, "failed")
    BY <1>1, <1>2, <1>3, <1>4, SettlesInv
<1>5. CASE Settles(j, "done") /\ drain.at = "ack"
    BY <1>1, <1>2, <1>3, <1>5, SettlesInv
<1> QED BY <1>1, <1>4, <1>5

(* The pipeline of the job in hand has returned, or never began.           *)
LEMMA ReturnedTask ==
    ASSUME Inv, NEW j \in Understandings, drain.job = j, task' = [task EXCEPT ![j] = NoTask]
    PROVE  /\ task' \in [Sources -> TaskType] /\ \A s \in Chats \cup Logs : task'[s] = task[s]
           /\ \A u \in Understandings : task'[u].at = "idle" /\ task'[u].saw = {}
<1>1. NoTask \in TaskType /\ NoTask.at = "idle" /\ NoTask.saw = {}
    BY DEF NoTask, TaskType
<1>2. task' \in [Sources -> TaskType]
    BY <1>1, OutboxFacts
<1>3. \A s \in Chats \cup Logs : task'[s] = task[s]
    BY OutboxFacts, SourceFacts
<1>4. ASSUME NEW u \in Understandings PROVE task'[u].at = "idle" /\ task'[u].saw = {}
    <2>1. u \in Sources /\ (u # j => task[u].at = "idle" /\ task[u].saw = {})
        BY OutboxFacts, SourceFacts
    <2>2. task'[u] = IF u = j THEN NoTask ELSE task[u]
        BY <2>1, OutboxFacts
    <2> QED BY <1>1, <2>1, <2>2
<1> QED BY <1>2, <1>3, <1>4

LEMMA WriteDisabledInv ==
    ASSUME Inv, NEW j \in Understandings, WriteDisabled(j)
    PROVE  Inv'
<1>1. /\ UNCHANGED learning /\ UNCHANGED <<retry, written, overtaken>> /\ drain.job = j
      /\ task' = [task EXCEPT ![j] = NoTask] /\ Settles(j, "failed")
    BY DEF WriteDisabled
<1>2. j \in Jobs
    BY SourceFacts
<1> QED BY <1>1, <1>2, ReturnedTask, SettlesInv

LEMMA PipelineReturnsInv ==
    ASSUME Inv, NEW j \in Understandings, PipelineReturns(j)
    PROVE  Inv'
<1>1. /\ UNCHANGED learning /\ UNCHANGED <<retry, written, overtaken>> /\ drain.job = j
      /\ task[j].at = "returned" /\ task' = [task EXCEPT ![j] = NoTask]
    BY DEF PipelineReturns, At
<1>2. j \in Jobs /\ j \in Sources
    BY SourceFacts
<1>3. /\ task' \in [Sources -> TaskType] /\ \A s \in Chats \cup Logs : task'[s] = task[s]
      /\ \A u \in Understandings : task'[u].at = "idle" /\ task'[u].saw = {}
    BY <1>1, ReturnedTask
<1>4. CASE Succeeded(task[j].of)
    <2>1. drain' = [drain EXCEPT !.at = "ack"] /\ UNCHANGED <<job, event>>
        BY <1>4 DEF PipelineReturns
    <2>2. drain'.job = j /\ drain'.at = "ack"
        BY <1>1, <2>1, OutboxFacts DEF DrainType
    <2>3. task[j].of = Current(j)
        BY <1>1, <1>2 DEF Inv, Tasks, TaskHolds
    <2>4. Acknowledged'
        BY <1>1, <1>4, <2>1, <2>2, <2>3, SourceFacts DEF Acknowledged, Succeeded, Current, learning
    <2>5. written \subseteq Jobs /\ event \in [told : BOOLEAN, cleaned : BOOLEAN] /\ Cleaned
        BY OutboxFacts DEF OutboxTypes, OutboxInv
    <2>6. Cleaned'
        BY <2>1, <2>5 DEF Cleaned
    <2> QED BY <1>1, <1>3, <2>1, <2>4, <2>5, <2>6, DrainGoes
<1>5. CASE ~Succeeded(task[j].of)
    <2>1. Settles(j, "failed")
        BY <1>5 DEF PipelineReturns
    <2> QED BY <1>1, <1>2, <1>3, <2>1, SettlesInv
<1> QED BY <1>4, <1>5

LEMMA RetryReadsInv ==
    ASSUME Inv, NEW p \in Retries, NEW j \in Jobs, RetryReads(p, j)
    PROVE  Inv'
<1> DEFINE r == [job |-> j, attempts |-> job[j].attempts, increment |-> Increment(j)]
<1>1. /\ UNCHANGED learning /\ UNCHANGED <<task, job, drain, written, event, overtaken>>
      /\ job[j].is = "failed" /\ retry' = [retry EXCEPT ![p] = r]
    BY DEF RetryReads
<1>2. /\ Increment(j) \in {0, 1}
      /\ Increment(j) = 1 => j \in Understandings /\ request[Current(j)] = "failed"
    BY DEF Increment, Current
<1>3. r \in Retry /\ r.job = j /\ r.attempts = job[j].attempts /\ r.increment = Increment(j)
    BY <1>2, OutboxFacts DEF Retry, JobType
<1> HIDE DEF r
<1>4. /\ retry' \in [Retries -> Retry \cup {None}] /\ retry'[p] = r
      /\ \A o \in Retries : o # p => retry'[o] = retry[o]
    BY <1>1, <1>3, OutboxFacts DEF OutboxTypes
<1>5. request' = request /\ \A k : Current(k)' = Current(k)
    BY <1>1 DEF learning, Current
<1>6. OutboxTypes' /\ task' \in [Sources -> TaskType]
    BY <1>1, <1>4, OutboxFacts DEF OutboxTypes
<1>7. ASSUME NEW u \in Understandings PROVE TaskHolds(u)'
    <2>1. TaskHolds(u)
        BY SourceFacts DEF Inv, Tasks
    <2> QED BY <1>1, <1>5, <2>1 DEF TaskHolds
<1>8. InHand' /\ Reading' /\ Cleaned'
    BY <1>1, OutboxFacts DEF OutboxInv, InHand, Reading, Cleaned
<1>9. Acknowledged' /\ Done' /\ Attempts'
    BY <1>1, <1>5, OutboxFacts DEF OutboxInv, Acknowledged, Done, Succeeded, Attempts
<1>10. Retrying'
    <2> SUFFICES ASSUME NEW o \in Retries, retry'[o] # None, retry'[o].increment = 1
                 PROVE  /\ retry'[o].job \in Understandings
                        /\ request[<<retry'[o].job, retry'[o].attempts>>] = "failed"
        BY <1>5 DEF Retrying
    <2>1. CASE o = p
        BY <1>2, <1>3, <1>4, <2>1 DEF Current
    <2>2. CASE o # p
        BY <1>4, <2>2, OutboxFacts DEF OutboxInv, Retrying
    <2> QED BY <2>1, <2>2
<1> QED BY <1>1, <1>6, <1>7, <1>8, <1>9, <1>10, OutboxStep

LEMMA RetryWritesInv ==
    ASSUME Inv, NEW p \in Retries, RetryWrites(p)
    PROVE  Inv'
<1> DEFINE j == retry[p].job
           n == job[j].attempts + retry[p].increment
           r == [is |-> "pending", attempts |-> n]
<1>1. /\ UNCHANGED learning /\ UNCHANGED <<task, drain, written, event>>
      /\ retry[p] # None /\ retry' = [retry EXCEPT ![p] = None]
      /\ \/ /\ job[j].is = "failed" /\ n <= MaxAttempts /\ job' = [job EXCEPT ![j] = r]
            /\ overtaken' = IF retry[p].increment = 1 /\ job[j].attempts # retry[p].attempts
                            THEN overtaken \cup {j} ELSE overtaken
         \/ UNCHANGED <<job, overtaken>>
    BY DEF RetryWrites
<1>2. j \in Jobs /\ retry[p].increment \in {0, 1} /\ retry[p].attempts \in 0..MaxAttempts
    BY <1>1, OutboxFacts DEF OutboxTypes, Retry
<1>3. retry[p].increment = 1 => /\ j \in Understandings
                                /\ request[<<j, retry[p].attempts>>] = "failed"
    BY <1>1, OutboxFacts DEF OutboxInv, Retrying
<1>4. /\ retry' \in [Retries -> Retry \cup {None}]
      /\ \A o \in Retries : retry'[o] = None \/ retry'[o] = retry[o]
    BY <1>1, OutboxFacts DEF OutboxTypes
<1>5. request' = request
    BY <1>1 DEF learning
<1>6. task' \in [Sources -> TaskType]
    BY <1>1, OutboxFacts
<1>7. Retrying' /\ Cleaned'
    BY <1>1, <1>4, <1>5, OutboxFacts DEF Retrying, OutboxInv, Cleaned
<1>8. CASE UNCHANGED <<job, overtaken>>
    <2>1. \A k : Current(k)' = Current(k)
        BY <1>8 DEF Current
    <2>2. OutboxTypes'
        BY <1>1, <1>4, <1>8, OutboxFacts DEF OutboxTypes
    <2>3. ASSUME NEW u \in Understandings PROVE TaskHolds(u)'
        <3>1. TaskHolds(u)
            BY SourceFacts DEF Inv, Tasks
        <3> QED BY <1>1, <1>5, <2>1, <3>1 DEF TaskHolds
    <2>4. InHand' /\ Reading'
        BY <1>1, <1>8, OutboxFacts DEF OutboxInv, InHand, Reading
    <2>5. Acknowledged' /\ Done' /\ Attempts'
        BY <1>1, <1>5, <1>8, <2>1, OutboxFacts DEF OutboxInv, Acknowledged, Done, Succeeded, Attempts
    <2> QED BY <1>1, <1>6, <1>7, <2>2, <2>3, <2>4, <2>5, OutboxStep
<1>9. CASE /\ job[j].is = "failed" /\ n <= MaxAttempts /\ job' = [job EXCEPT ![j] = r]
           /\ overtaken' = IF retry[p].increment = 1 /\ job[j].attempts # retry[p].attempts
                           THEN overtaken \cup {j} ELSE overtaken
    <2>1. n \in 0..MaxAttempts /\ job[j].attempts \in 0..MaxAttempts
        BY <1>2, <1>9, OutboxFacts, ModelAssumption DEF JobType
    <2>2. r \in JobType /\ r.is = "pending" /\ r.attempts = n
        BY <2>1 DEF JobType
    <2>3. /\ job' \in [Jobs -> JobType] /\ job'[j] = r
          /\ \A k \in Jobs : k # j => job'[k] = job[k] /\ Current(k)' = Current(k)
        <3> HIDE DEF r, j
        <3> QED BY <1>2, <1>9, <2>2, OutboxFacts DEF Current
    <2>4. OutboxTypes'
        <3>1. overtaken' \subseteq Jobs
            BY <1>2, <1>9, OutboxFacts DEF OutboxTypes
        <3> QED BY <1>1, <1>4, <2>3, <3>1, OutboxFacts DEF OutboxTypes
    <2>5. drain.job # j
        BY <1>2, <1>9, OutboxFacts, SourceFacts DEF OutboxInv, InHand
    <2>6. ASSUME NEW u \in Understandings PROVE TaskHolds(u)'
        <3>1. TaskHolds(u) /\ u \in Jobs
            BY SourceFacts DEF Inv, Tasks
        <3>2. CASE u = j
            <4>1. task[u].at = "idle" /\ task[u].saw = {}
                BY <2>5, <3>2, OutboxFacts
            <4> QED BY <1>1, <4>1 DEF TaskHolds, AtWork
        <3>3. CASE u # j
            <4>1. Current(u)' = Current(u)
                BY <2>3, <3>1, <3>3
            <4> QED BY <1>1, <1>5, <3>1, <4>1 DEF TaskHolds
        <3> QED BY <3>2, <3>3
    <2>7. InHand'
        BY <1>1, <2>3, <2>5, OutboxFacts DEF OutboxInv, InHand, DrainType
    <2>8. Reading'
        BY <1>1, <1>9, <2>3, OutboxFacts DEF OutboxInv, Reading, DrainType
    <2>9. Acknowledged'
        BY <1>1, <1>5, <2>3, <2>5, OutboxFacts, SourceFacts DEF OutboxInv, Acknowledged, Succeeded
    <2>10. Done'
        BY <1>1, <1>5, <2>2, <2>3, OutboxFacts, SourceFacts DEF OutboxInv, Done, Succeeded
    <2>11. Attempts'
        <3> SUFFICES ASSUME NEW u \in Understandings, NEW m \in 0..MaxAttempts
                     PROVE  /\ u \notin overtaken' /\ m < job'[u].attempts => request[<<u, m>>] = "failed"
                            /\ m > job'[u].attempts => request[<<u, m>>] = "none"
            BY <1>5 DEF Attempts
        <3>1. /\ u \notin overtaken' /\ m < job[u].attempts => request[<<u, m>>] = "failed"
              /\ m > job[u].attempts => request[<<u, m>>] = "none"
            BY <1>9, OutboxFacts DEF OutboxInv, Attempts
        <3>2. CASE u # j
            BY <2>3, <3>1, <3>2, SourceFacts
        <3>3. CASE u = j
            <4>1. job'[u].attempts = n /\ job[u].attempts \in Nat
                BY <2>1, <2>2, <2>3, <3>3
            <4>2. m < n => m < job[u].attempts \/ (m = job[u].attempts /\ retry[p].increment = 1)
                BY <1>2, <2>1, <3>3
            <4>3. m > n => m > job[u].attempts
                BY <1>2, <2>1, <3>3
            <4>4. u \notin overtaken' /\ m = job[u].attempts /\ retry[p].increment = 1 =>
                     request[<<u, m>>] = "failed"
                BY <1>3, <1>9, <3>3
            <4> QED BY <3>1, <4>1, <4>2, <4>3, <4>4
        <3> QED BY <3>2, <3>3
    <2> QED BY <1>1, <1>6, <1>7, <2>4, <2>6, <2>7, <2>8, <2>9, <2>10, <2>11, OutboxStep
<1> QED BY <1>1, <1>8, <1>9

LEMMA RestartInv ==
    ASSUME Inv, Restart
    PROVE  Inv'
<1>1. UNCHANGED learning /\ UNCHANGED <<written, overtaken>> /\ drain' = NoDrain
    BY DEF Restart
<1>2. task' \in [Sources -> TaskType] /\ \A s \in Sources : task'[s] = NoTask
    BY DEF Restart, NoTask, TaskType
<1>3. \A j \in Jobs : /\ job'[j] \in JobType /\ job'[j].attempts = job[j].attempts
                      /\ job'[j].is = IF job[j].is = "running" THEN "failed" ELSE job[j].is
    <2> SUFFICES ASSUME NEW j \in Jobs
                 PROVE  /\ job'[j] \in JobType /\ job'[j].attempts = job[j].attempts
                        /\ job'[j].is = IF job[j].is = "running" THEN "failed" ELSE job[j].is
        OBVIOUS
    <2>1. job[j] \in JobType
        BY OutboxFacts
    <2>2. job'[j] = IF job[j].is = "running" THEN [job[j] EXCEPT !.is = "failed"] ELSE job[j]
        BY DEF Restart
    <2> QED BY <2>1, <2>2 DEF JobType
<1>4. job' \in [Jobs -> JobType]
    <2>1. job' = [j \in Jobs |-> job'[j]]
        BY DEF Restart
    <2> QED BY <1>3, <2>1
<1>5. retry' \in [Retries -> Retry \cup {None}] /\ \A p \in Retries : retry'[p] = None
    BY DEF Restart
<1>6. event' \in [told : BOOLEAN, cleaned : BOOLEAN] /\ Cleaned'
    BY OutboxFacts DEF Restart, OutboxTypes, OutboxInv, Cleaned
<1>7. drain' \in DrainType /\ drain'.job = None /\ drain'.read = {} /\ drain'.at = "idle"
    BY <1>1 DEF NoDrain, DrainType
<1>8. request' = request /\ \A j \in Jobs : Current(j)' = Current(j)
    BY <1>1, <1>3 DEF learning, Current
<1>9. OutboxTypes'
    BY <1>1, <1>4, <1>5, <1>6, <1>7, OutboxFacts DEF OutboxTypes
<1>10. \A u \in Understandings : TaskHolds(u)'
    BY <1>2, SourceFacts DEF TaskHolds, AtWork, NoTask
<1>11. InHand' /\ Reading' /\ Acknowledged' /\ Retrying'
    BY <1>5, <1>7 DEF InHand, Reading, Acknowledged, Retrying
<1>12. Done'
    BY <1>1, <1>3, <1>8, OutboxFacts, SourceFacts DEF OutboxInv, Done, Succeeded
<1>13. Attempts'
    <2>1. \A u \in Understandings : job'[u].attempts = job[u].attempts
        BY <1>3, SourceFacts
    <2>2. Attempts
        BY OutboxFacts DEF OutboxInv
    <2> QED BY <1>1, <1>8, <2>1, <2>2 DEF Attempts
<1>14. \A s \in Chats \cup Logs : task'[s] = NoTask
    BY <1>2 DEF Sources
<1> QED BY <1>1, <1>2, <1>6, <1>9, <1>10, <1>11, <1>12, <1>13, <1>14, OutboxStep

-----------------------------------------------------------------------------
LEMMA InitInv == Init => Inv
<1> SUFFICES ASSUME Init PROVE Inv
    OBVIOUS
<1>1. NoTask \in TaskType /\ NoTask.at = "idle" /\ NoTask.saw = {}
    BY DEF NoTask, TaskType
<1>2. NoDrain \in DrainType /\ NoDrain.job = None /\ NoDrain.at = "idle" /\ NoDrain.read = {}
    BY DEF NoDrain, DrainType
<1>3. task \in [Sources -> TaskType] /\ \A s \in Sources : task[s] = NoTask
    BY <1>1 DEF Init
<1>4. LET root == [by |-> Root, prev |-> None]
      IN  /\ root \in Version /\ <<root>> \in Seq(Version) \ {<<>>}
          /\ \A q \in Requests : VersionsBy(<<root>>, q) = {}
    <2> DEFINE root == [by |-> Root, prev |-> None]
    <2>1. root \in Version /\ root.by = Root
        BY DEF Version
    <2> HIDE DEF root
    <2>2. <<root>> \in Seq(Version) /\ <<root>> # <<>> /\ DOMAIN <<root>> = {1} /\ <<root>>[1] = root
        BY <2>1
    <2>3. \A q \in Requests : VersionsBy(<<root>>, q) = {}
        BY <2>1, <2>2, RequestFacts DEF VersionsBy
    <2> QED BY <2>1, <2>2, <2>3 DEF root
<1>5. LearningTypes
    BY <1>4 DEF Init, LearningTypes, Statuses, LogType
<1>6. OutboxTypes
    BY <1>2, ModelAssumption DEF Init, OutboxTypes, JobType
<1>7. Tasks
    BY <1>1, <1>3 DEF Tasks, TaskHolds, AtWork
<1>8. Rows
    BY <1>4 DEF Init, Rows
<1>9. LogsHold
    <2> SUFFICES ASSUME NEW l \in Logs PROVE LogHolds(l)
        BY DEF LogsHold
    <2>1. task[l].at = "idle" /\ <<l, 0>> \in Requests
        BY <1>1, <1>3, RequestFacts, SourceFacts
    <2>2. log[l].linked = FALSE /\ request[<<l, 0>>] = "none"
        BY <2>1 DEF Init
    <2> QED BY <2>1, <2>2 DEF LogHolds
<1>10. InHand /\ Reading /\ Acknowledged /\ Retrying /\ Cleaned
    BY <1>2 DEF Init, InHand, Reading, Acknowledged, Retrying, Cleaned
<1>11. Done
    BY SourceFacts DEF Init, Done
<1>12. Attempts
    <2> SUFFICES ASSUME NEW u \in Understandings, NEW n \in 0..MaxAttempts
                 PROVE  job[u].attempts = 0 /\ request[<<u, n>>] = "none" /\ ~(n < 0)
        BY DEF Attempts
    <2> QED BY RequestFacts, SourceFacts DEF Init
<1> QED BY <1>3, <1>5, <1>6, <1>7, <1>8, <1>9, <1>10, <1>11, <1>12 DEF Inv, Types, OutboxInv

LEMMA RunInv ==
    ASSUME Inv, NEW s \in Sources, Run(s)
    PROVE  Inv'
<1>1. CASE Claim(s) \/ Raises(s) \/ Load(s)
    BY <1>1, ClaimInv, RaisesInv, LoadInv
<1>2. CASE s \in Logs /\ LinkFails(s)
    BY <1>2, LinkFailsInv
<1>3. CASE LoadFails(s) \/ GateStops(s) \/ MemoryFails(s) \/ WriterStops(s)
    BY <1>3, StopsInv
<1>4. CASE GateRoutes(s) \/ WriterRemembers(s)
    BY <1>4, GateInv
<1>5. CASE PersistMemory(s) \/ PersistIntegrated(s) \/ Conflict(s)
    BY <1>5, PersistMemoryInv, PersistIntegratedInv, ConflictInv
<1> QED BY <1>1, <1>2, <1>3, <1>4, <1>5 DEF Run

LEMMA OutboxInvHolds ==
    ASSUME Inv, Outbox
    PROVE  Inv'
<1>1. CASE DrainReads
    BY <1>1, DrainReadsInv
<1>2. ASSUME NEW j \in Jobs,
             \/ Leave(j) \/ WriteMessage(j) \/ WriteMemory(j) \/ WriteFails(j) \/ Ack(j)
             \/ \E n \in 0..MaxAttempts : DrainTakes(j, n)
             \/ \E p \in Retries : RetryReads(p, j)
      PROVE  Inv'
    BY <1>2, LeaveInv, WriteMessageInv, WriteMemoryInv, AckInv, DrainTakesInv, RetryReadsInv
<1>3. ASSUME NEW j \in Understandings, WriteDisabled(j) \/ PipelineReturns(j) PROVE Inv'
    BY <1>3, WriteDisabledInv, PipelineReturnsInv
<1>4. ASSUME NEW p \in Retries, RetryWrites(p) PROVE Inv'
    BY <1>4, RetryWritesInv
<1> QED BY <1>1, <1>2, <1>3, <1>4 DEF Outbox

LEMMA NextInv == Inv /\ [Next]_vars => Inv'
<1> SUFFICES ASSUME Inv, [Next]_vars PROVE Inv'
    OBVIOUS
<1>1. ASSUME NEW c \in Chats, Schedule(c) PROVE Inv'
    BY <1>1, ScheduleInv
<1>2. ASSUME NEW l \in Logs, Reflect(l) PROVE Inv'
    BY <1>2, ReflectInv
<1>3. ASSUME NEW s \in Sources, Run(s) PROVE Inv'
    BY <1>3, RunInv
<1>4. CASE Outbox
    BY <1>4, OutboxInvHolds
<1>5. CASE Restart
    BY <1>5, RestartInv
<1>6. CASE UNCHANGED vars
    <2>1. UNCHANGED learning /\ UNCHANGED <<task, job, drain, retry, written, event, overtaken>>
        BY <1>6 DEF vars, learning
    <2>2. request' = request /\ \A k : Current(k)' = Current(k)
        BY <2>1 DEF learning, Current
    <2>3. OutboxTypes' /\ task' \in [Sources -> TaskType]
        BY <2>1, OutboxFacts DEF OutboxTypes
    <2>4. ASSUME NEW u \in Understandings PROVE TaskHolds(u)'
        <3>1. TaskHolds(u)
            BY SourceFacts DEF Inv, Tasks
        <3> QED BY <2>1, <2>2, <3>1 DEF TaskHolds
    <2>5. InHand' /\ Reading' /\ Cleaned' /\ Acknowledged' /\ Done' /\ Attempts' /\ Retrying'
        BY <2>1, <2>2, OutboxFacts
        DEF OutboxInv, InHand, Reading, Cleaned, Acknowledged, Done, Succeeded, Attempts, Retrying
    <2> QED BY <2>1, <2>3, <2>4, <2>5, OutboxStep
<1> QED BY <1>1, <1>2, <1>3, <1>4, <1>5, <1>6 DEF Next

THEOREM InvHolds == Spec => []Inv
BY InitInv, NextInv, PTL DEF Spec

-----------------------------------------------------------------------------
(* What is written is what is said to be written: a request has its        *)
(* version or note exactly if its outcome says so, a job that is done left *)
(* what it is for, a reflection that is not linked changed nothing, one    *)
(* that is linked is said to have failed only where its log could not be   *)
(* read, and a transcript is cleaned only after its event was told.        *)
THEOREM OutcomesAreTrue == Spec => []OutcomesHold
<1>1. Inv => OutcomesHold
    <2> SUFFICES ASSUME Inv PROVE OutcomesHold
        OBVIOUS
    <2>1. ASSUME NEW l \in Logs
          PROVE  /\ log[l].outcome = "handoff_failed" /\ l \notin unread => ~log[l].linked
                 /\ ~log[l].linked => request[<<l, 0>>] \in {"none", "processing", "failed"}
        BY DEF Inv, LogsHold, LogHolds
    <2>2. \A j \in Understandings : job[j].is = "done" =>
             request[<<j, job[j].attempts>>] \in {"declined", "noted", "applied"}
        BY DEF Inv, OutboxInv, Done, Succeeded, Current
    <2>3. /\ \A j \in Notes \cup Events : job[j].is = "done" => j \in written
          /\ event.cleaned => event.told
        BY DEF Inv, OutboxInv, Done, Cleaned
    <2> QED BY <2>1, <2>2, <2>3, Zenon DEF OutcomesHold, Inv, Rows
<1> QED BY <1>1, InvHolds, PTL

-----------------------------------------------------------------------------
(* The history of a mind is one line: every version names the one before   *)
(* it, and no request has two.                                             *)
Line(versions) ==
    /\ \A i, j \in DOMAIN versions : versions[i].by = versions[j].by => i = j
    /\ \A i \in DOMAIN versions : i > 1 => versions[i].prev = versions[i - 1].by
HistoryIsALine == Line(model) /\ Line(desire)

LEMMA LineGrows ==
    ASSUME NEW versions \in Seq(Version) \ {<<>>}, NEW v \in Version, Line(versions),
           VersionsBy(versions, v.by) = {}, v.prev = HeadOf(versions)
    PROVE  Line(Append(versions, v))
<1> DEFINE w == Append(versions, v)
<1>1. /\ w \in Seq(Version) /\ Len(w) = Len(versions) + 1 /\ w[Len(versions) + 1] = v
      /\ \A i \in 1..Len(versions) : w[i] = versions[i]
    BY AppendProperties
<1>2. /\ Len(versions) \in Nat /\ Len(versions) # 0
      /\ DOMAIN versions = 1..Len(versions) /\ DOMAIN w = 1..(Len(versions) + 1)
    BY <1>1, LenProperties, EmptySeq
<1>3. \A i \in 1..Len(versions) : versions[i].by # v.by
    BY <1>2 DEF VersionsBy
<1> HIDE DEF w
<1>4. ASSUME NEW i \in DOMAIN w, NEW j \in DOMAIN w, w[i].by = w[j].by
      PROVE  i = j
    <2>1. ASSUME NEW k \in DOMAIN w PROVE k = Len(versions) + 1 \/ k \in 1..Len(versions)
        BY <1>2
    <2>2. CASE i \in 1..Len(versions) /\ j \in 1..Len(versions)
        BY <1>1, <1>2, <1>4, <2>2 DEF Line
    <2>3. CASE i = Len(versions) + 1 \/ j = Len(versions) + 1
        BY <1>1, <1>3, <1>4, <2>1, <2>3
    <2> QED BY <2>1, <2>2, <2>3
<1>5. ASSUME NEW i \in DOMAIN w, i > 1
      PROVE  w[i].prev = w[i - 1].by
    <2>1. i - 1 \in 1..Len(versions) /\ w[i - 1] = versions[i - 1]
        BY <1>1, <1>2, <1>5
    <2>2. CASE i = Len(versions) + 1
        BY <1>1, <1>2, <2>1, <2>2 DEF HeadOf
    <2>3. CASE i # Len(versions) + 1
        <3>1. i \in 1..Len(versions)
            BY <1>2, <1>5, <2>3
        <3> QED BY <1>1, <1>2, <1>5, <2>1, <3>1 DEF Line
    <2> QED BY <2>2, <2>3
<1> QED BY <1>4, <1>5 DEF Line, w

LEMMA LineKept ==
    ASSUME Inv, HistoryIsALine, NEW s \in Sources, PersistIntegrated(s)
    PROVE  HistoryIsALine'
<1> DEFINE q == task[s].of
           v == [by |-> q, prev |-> Heads.model]
           d == [by |-> q, prev |-> Heads.desire]
<1>1. task[s].at # "idle" /\ task[s].at \in AtWork
    BY DEF PersistIntegrated, At, AtWork
<1>2. q \in Requests /\ request[q] = "processing" /\ LearningTypes /\ Rows
    BY <1>1, TaskFacts
<1>3. VersionsBy(model, q) = {} /\ VersionsBy(desire, q) = {}
    BY <1>2, Zenon DEF Rows
<1>4. v \in Version /\ v.by = q /\ d \in Version /\ d.by = q
    BY <1>2, HeadsTyped DEF Version, HeadsType
<1>5. v.prev = HeadOf(model) /\ d.prev = HeadOf(desire)
    BY DEF Heads
<1>6. model' = Append(model, v) /\ desire' \in {desire, Append(desire, d)}
    BY DEF PersistIntegrated
<1>7. model \in Seq(Version) \ {<<>>} /\ desire \in Seq(Version) \ {<<>>}
    BY <1>2 DEF LearningTypes
<1> HIDE DEF v, d, q
<1>8. Line(Append(model, v)) /\ Line(Append(desire, d))
    BY <1>3, <1>4, <1>5, <1>7, LineGrows DEF HistoryIsALine
<1>9. Line(model') /\ Line(desire')
    BY <1>6, <1>8 DEF HistoryIsALine
<1> QED BY <1>9 DEF HistoryIsALine, Line

(* However many writers answer at once and however often a statement is    *)
(* retried, versions neither fork nor repeat a request, so that the last   *)
(* row is the one head that get_head looks for (idx_wm_successor).         *)
THEOREM NoForks == Spec => []HistoryIsALine
<1>1. Init => HistoryIsALine
    <2> SUFFICES ASSUME NEW r PROVE Line(<<r>>)
        BY DEF Init, HistoryIsALine
    <2> QED BY DEF Line
<1>2. Inv /\ HistoryIsALine /\ [Next]_vars => HistoryIsALine'
    <2> SUFFICES ASSUME Inv, HistoryIsALine, [Next]_vars PROVE HistoryIsALine'
        OBVIOUS
    <2>1. CASE UNCHANGED <<model, desire>>
        BY <2>1 DEF HistoryIsALine, Line
    <2>2. CASE Outbox \/ Restart \/ UNCHANGED vars
        <3>1. UNCHANGED <<model, desire>>
            BY <2>2 DEF Outbox, Restart, DrainReads, Leave, WriteMessage, WriteMemory, WriteFails, Ack,
                        DrainTakes, RetryReads, WriteDisabled, PipelineReturns, RetryWrites, learning, vars
        <3> QED BY <2>1, <3>1
    <2>3. CASE (\E c \in Chats : Schedule(c)) \/ (\E l \in Logs : Reflect(l))
        BY <2>1, <2>3 DEF Schedule, Reflect, learning
    <2>4. ASSUME NEW s \in Sources, Run(s) PROVE HistoryIsALine'
        <3>1. CASE PersistIntegrated(s)
            BY <3>1, LineKept
        <3>2. CASE ~PersistIntegrated(s)
            <4>1. UNCHANGED <<model, desire>>
                BY <2>4, <3>2 DEF Run, Claim, Raises, Load, LinkFails, LoadFails, GateStops, GateRoutes,
                    PersistMemory, MemoryFails, WriterStops, WriterRemembers, Conflict, SetOutcome, learning
            <4> QED BY <2>1, <4>1
        <3> QED BY <3>1, <3>2
    <2> QED BY <2>2, <2>3, <2>4 DEF Next
<1> QED BY <1>1, <1>2, InvHolds, PTL DEF Spec

-----------------------------------------------------------------------------
(* The pipeline implements ModelContract.                                  *)
Learned == {q \in Requests : request[q] \in {"applied", "noted"}}
Known == {SourceOf(q) : q \in Learned}
Mind == MindOf(Heads)
Shown == [s \in Sources |-> {MindOf(heads) : heads \in task[s].saw}]

(* A source whose request is at work has not been learned, unless a retry  *)
(* of it was overtaken.                                                    *)
LEMMA NotYetKnown ==
    ASSUME Inv, NEW s \in Sources, task[s].at \in AtWork
    PROVE  s \notin Known \ overtaken
<1> SUFFICES ASSUME s \notin overtaken PROVE s \notin Known
    OBVIOUS
<1> DEFINE q == task[s].of
<1>1. q \in Requests /\ SourceOf(q) = s /\ request[q] = "processing" /\ task[s].at # "idle"
    BY TaskFacts DEF AtWork
<1>2. ASSUME NEW r \in Requests, SourceOf(r) = s, r # q
      PROVE  request[r] \in {"failed", "none"}
    <2>1. CASE s \in Chats \cup Logs
        BY <1>1, <1>2, <2>1, RequestFacts
    <2>2. CASE s \in Understandings
        <3>1. PICK n \in 0..MaxAttempts : r = <<s, n>>
            BY <1>2, <2>2, RequestFacts
        <3>2. q = <<s, job[s].attempts>> /\ job[s].attempts \in 0..MaxAttempts
            BY <1>1, <2>2, CurrentFacts DEF Inv, Tasks, TaskHolds, Types, Current
        <3>3. n < job[s].attempts \/ n > job[s].attempts
            BY <1>2, <3>1, <3>2
        <3> QED BY <2>2, <3>1, <3>3 DEF Inv, OutboxInv, Attempts
    <2> QED BY <2>1, <2>2 DEF Sources
<1>3. \A r \in Requests : SourceOf(r) = s => request[r] \notin {"applied", "noted"}
    BY <1>1, <1>2
<1> HIDE DEF q
<1> QED BY <1>3 DEF Known, Learned

LEMMA ShowStep ==
    ASSUME NEW s \in Sources, UNCHANGED overtaken,
           Known' = Known, Mind' = Mind, Shown' = [Shown EXCEPT ![s] = {Mind}]
    PROVE  Contract!Next
<1>1. Contract!Show(s)
    BY DEF Contract!Show, Known, Learned, Mind, Shown
<1> QED BY <1>1 DEF Contract!Next, Contract!Show

LEMMA AgainStep ==
    ASSUME NEW s \in Sources, overtaken' = overtaken \cup {s},
           Known' = Known, Mind' = Mind, Shown' = Shown
    PROVE  Contract!Next
<1>1. Contract!Again(s)
    BY DEF Contract!Again, Known, Learned, Mind, Shown
<1> QED BY <1>1 DEF Contract!Next, Contract!Again

LEMMA RememberStep ==
    ASSUME NEW s \in Sources, UNCHANGED overtaken, s \notin Known \ overtaken,
           Known' = Known \cup {s}, Mind' = Mind, Shown' = Shown
    PROVE  Contract!Next
<1>1. Contract!Remember(s)
    BY DEF Contract!Remember, Contract!Comes, Known, Learned, Mind, Shown
<1> QED BY <1>1 DEF Contract!Next, Contract!Remember

LEMMA LearnStep ==
    ASSUME NEW s \in Sources, UNCHANGED overtaken, s \notin Known \ overtaken,
           Known' = Known \cup {s}, Shown[s] = {Mind}, Shown' = [Shown EXCEPT ![s] = {}],
           Mind' \in {[model |-> s, desire |-> Mind.desire], [model |-> s, desire |-> s]}
    PROVE  Contract!Next
<1>1. Contract!Learn(s)
    BY DEF Contract!Learn, Contract!Comes, Known, Learned, Mind, Shown
<1> QED BY <1>1 DEF Contract!Next, Contract!Learn

(* A step that learns nothing, and shows nothing to a writer.              *)
LEMMA DropStep ==
    ASSUME Heads' = Heads, Learned' = Learned, UNCHANGED overtaken,
           \A s \in Sources : task'[s].saw = task[s].saw \/ task'[s].saw = {}
    PROVE  Contract!Next
<1> DEFINE S == {s \in Sources : task'[s].saw = {}}
<1>1. Known' = Known /\ Mind' = Mind
    BY DEF Known, Mind
<1>2. \A s \in Sources : Shown'[s] = IF s \in S THEN {} ELSE Shown[s]
    BY DEF Shown
<1>3. Shown' = [s \in Sources |-> Shown'[s]]
    BY DEF Shown
<1>4. Shown' = [s \in Sources |-> IF s \in S THEN {} ELSE Shown[s]]
    BY <1>2, <1>3
<1>6. S \in SUBSET Sources
    OBVIOUS
<1> HIDE DEF S
<1>5. Contract!Drop(S)
    BY <1>1, <1>4 DEF Contract!Drop, Known, Learned, Mind, Shown
<1> QED BY <1>5, <1>6 DEF Contract!Next, Contract!Drop

(* What an action does to the task of its source.                          *)
LEMMA TaskMoves ==
    ASSUME task \in [Sources -> TaskType], NEW s \in Sources
    PROVE  /\ \A step : Goes(s, step) => task'[s].saw = {} /\ \A r \in Sources : r # s => task'[r] = task[r]
           /\ Returns(s) => task'[s].saw = {} /\ \A r \in Sources : r # s => task'[r] = task[r]
           /\ \A q : Starts(s, q) => task'[s].saw = {} /\ \A r \in Sources : r # s => task'[r] = task[r]
           /\ \A n : AsksWriter(s, n) => task'[s].saw = {Heads} /\ \A r \in Sources : r # s => task'[r] = task[r]
<1>1. task[s] \in TaskType
    OBVIOUS
<1>2. ASSUME NEW step, Goes(s, step)
      PROVE  task'[s].saw = {} /\ \A r \in Sources : r # s => task'[r] = task[r]
    BY <1>1, <1>2 DEF Goes, TaskType
<1>3. ASSUME Returns(s)
      PROVE  task'[s].saw = {} /\ \A r \in Sources : r # s => task'[r] = task[r]
    BY <1>1, <1>3 DEF Returns, NoTask, TaskType
<1>4. ASSUME NEW q, Starts(s, q)
      PROVE  task'[s].saw = {} /\ \A r \in Sources : r # s => task'[r] = task[r]
    BY <1>1, <1>4 DEF Starts, NoTask, TaskType
<1>5. ASSUME NEW n, AsksWriter(s, n)
      PROVE  task'[s].saw = {Heads} /\ \A r \in Sources : r # s => task'[r] = task[r]
    BY <1>1, <1>5 DEF AsksWriter, TaskType
<1> QED BY <1>2, <1>3, <1>4, <1>5

LEMMA HeadsKept ==
    ASSUME UNCHANGED <<model, desire>>
    PROVE  Heads' = Heads
BY DEF Heads

(* The outcome of a request at work is not a learned one.                  *)
LEMMA FailingKeeps ==
    ASSUME Inv, NEW s \in Sources, task[s].at \in AtWork, UNCHANGED overtaken,
           NEW status \in Statuses \ {"applied", "noted"}, SetOutcome(s, status)
    PROVE  Contract!Next
<1>1. /\ task[s].of \in Requests /\ request[task[s].of] = "processing" /\ LearningTypes
      /\ task \in [Sources -> TaskType]
    BY TaskFacts DEF AtWork
<1>2. request' = [request EXCEPT ![task[s].of] = status]
    BY DEF SetOutcome
<1>3. Learned' = Learned
    BY <1>1, <1>2 DEF Learned, LearningTypes
<1>4. \A r \in Sources : task'[r].saw = task[r].saw \/ task'[r].saw = {}
    BY <1>1, TaskMoves DEF SetOutcome
<1>5. Heads' = Heads
    BY HeadsKept DEF SetOutcome
<1> QED BY <1>3, <1>4, <1>5, DropStep

LEMMA AskingShows ==
    ASSUME Inv, NEW s \in Sources, NEW n, AsksWriter(s, n), UNCHANGED learning, UNCHANGED overtaken
    PROVE  Contract!Next
<1>1. task'[s].saw = {Heads} /\ \A r \in Sources : r # s => task'[r] = task[r]
    BY TaskMoves DEF Inv, Types
<1>2. Known' = Known /\ Mind' = Mind
    BY HeadsKept DEF learning, Known, Learned, Mind
<1>3. Shown' = [Shown EXCEPT ![s] = {Mind}]
    <2>1. {MindOf(heads) : heads \in task'[s].saw} = {Mind}
        BY <1>1 DEF Mind
    <2>2. Shown' = [r \in Sources |-> IF r = s THEN {Mind} ELSE Shown[r]]
        BY <1>1, <2>1 DEF Shown
    <2>3. Shown = [r \in Sources |-> Shown[r]]
        BY DEF Shown
    <2> HIDE DEF Shown
    <2> QED BY <2>2, <2>3
<1> QED BY <1>2, <1>3, ShowStep

(* The outbox learns nothing, but for a retry that was overtaken: it lets  *)
(* its job's source be learned again.                                      *)
LEMMA OvertakenImplements ==
    ASSUME Inv, NEW p \in Retries, RetryWrites(p), overtaken' # overtaken
    PROVE  Contract!Next
<1> DEFINE j == retry[p].job
<1>1. overtaken' = overtaken \cup {j} /\ retry[p] # None /\ retry[p].increment = 1
    BY DEF RetryWrites
<1>2. j \in Sources
    BY <1>1, OutboxFacts, SourceFacts DEF OutboxInv, Retrying
<1>3. UNCHANGED learning /\ UNCHANGED task
    BY DEF RetryWrites
<1>4. Known' = Known /\ Mind' = Mind /\ Shown' = Shown
    BY <1>3, HeadsKept DEF learning, Known, Learned, Mind, Shown
<1> HIDE DEF j
<1> QED BY <1>1, <1>2, <1>4, AgainStep

LEMMA OutboxKeeps ==
    ASSUME Inv, Outbox \/ Restart
    PROVE  Contract!Next
<1> SUFFICES ASSUME UNCHANGED overtaken PROVE Contract!Next
    <2>1. ASSUME overtaken' # overtaken PROVE \E p \in Retries : RetryWrites(p)
        BY <2>1 DEF Outbox, Restart, DrainReads, Leave, WriteMessage, WriteMemory, WriteFails, Ack,
           DrainTakes, RetryReads, WriteDisabled, PipelineReturns
    <2> QED BY <2>1, OvertakenImplements
<1>1. UNCHANGED learning
    BY DEF Outbox, Restart, DrainReads, Leave, WriteMessage, WriteMemory, WriteFails, Ack, DrainTakes,
           RetryReads, WriteDisabled, PipelineReturns, RetryWrites
<1>2. task \in [Sources -> TaskType] /\ Understandings \subseteq Sources
    BY SourceFacts DEF Inv, Types
<1>3. \A s \in Sources : task'[s].saw = task[s].saw \/ task'[s].saw = {}
    <2>1. CASE UNCHANGED task
        BY <2>1
    <2>2. CASE Restart
        BY <2>2 DEF Restart, NoTask
    <2>3. ASSUME NEW j \in Jobs, NEW n \in 0..MaxAttempts, DrainTakes(j, n)
          PROVE  \A s \in Sources : task'[s].saw = task[s].saw \/ task'[s].saw = {}
        <3>1. UNCHANGED task \/ (j \in Understandings /\ Starts(j, <<j, n>>))
            BY <2>3 DEF DrainTakes
        <3> QED BY <1>2, <3>1, TaskMoves
    <2>4. ASSUME NEW j \in Understandings, WriteDisabled(j) \/ PipelineReturns(j)
          PROVE  \A s \in Sources : task'[s].saw = task[s].saw \/ task'[s].saw = {}
        <3>1. task' = [task EXCEPT ![j] = NoTask] /\ NoTask.saw = {}
            BY <2>4 DEF WriteDisabled, PipelineReturns, NoTask
        <3> QED BY <1>2, <3>1
    <2> QED BY <2>1, <2>2, <2>3, <2>4
        DEF Outbox, DrainReads, Leave, WriteMessage, WriteMemory, WriteFails, Ack, RetryReads, RetryWrites
<1>4. Heads' = Heads /\ Learned' = Learned
    BY <1>1, HeadsKept DEF learning, Learned
<1> QED BY <1>3, <1>4, DropStep

LEMMA QuietImplements ==
    ASSUME Inv, NEW s \in Sources, UNCHANGED <<model, desire, overtaken>>, Learned' = Learned,
           (\E step : Goes(s, step)) \/ Returns(s) \/ (\E q : Starts(s, q))
    PROVE  Contract!Next
<1>1. task \in [Sources -> TaskType]
    BY DEF Inv, Types
<1>2. \A r \in Sources : task'[r].saw = task[r].saw \/ task'[r].saw = {}
    BY <1>1, TaskMoves
<1>3. Heads' = Heads
    BY HeadsKept
<1> QED BY <1>2, <1>3, DropStep

LEMMA ClaimImplements ==
    ASSUME Inv, NEW s \in Sources, Claim(s)
    PROVE  Contract!Next
<1>1. task[s].of \in Requests /\ LearningTypes
    BY TaskFacts DEF Claim, At
<1>2. UNCHANGED <<model, desire, overtaken>> /\ (Goes(s, "source") \/ Returns(s))
    BY DEF Claim, outbox
<1>3. \/ UNCHANGED request
      \/ request[task[s].of] = "none" /\ request' = [request EXCEPT ![task[s].of] = "processing"]
    BY DEF Claim
<1>4. Learned' = Learned
    BY <1>1, <1>3 DEF Learned, LearningTypes
<1> QED BY <1>2, <1>4, QuietImplements

LEMMA NotedImplements ==
    ASSUME Inv, NEW s \in Sources, PersistMemory(s)
    PROVE  Contract!Next
<1> DEFINE q == task[s].of
<1>1. task[s].at = "note" /\ task[s].at \in AtWork /\ task[s].at # "idle"
    BY DEF PersistMemory, At, AtWork
<1>2. /\ q \in Requests /\ SourceOf(q) = s /\ request[q] = "processing" /\ LearningTypes
      /\ task \in [Sources -> TaskType] /\ task[s].saw = {}
    BY <1>1, TaskFacts
<1>3. /\ UNCHANGED <<model, desire, overtaken>>
      /\ Returns(s) /\ request' = [request EXCEPT ![q] = "noted"]
    BY <1>2 DEF PersistMemory, outbox
<1>4. Learned' = Learned \cup {q}
    BY <1>2, <1>3 DEF Learned, LearningTypes
<1>5. Known' = Known \cup {s}
    BY <1>2, <1>4 DEF Known
<1>6. s \notin Known \ overtaken /\ Mind' = Mind
    BY <1>1, <1>3, NotYetKnown, HeadsKept DEF Mind
<1>7. \A r \in Sources : task'[r].saw = task[r].saw
    BY <1>2, <1>3, TaskMoves
<1>8. Shown' = Shown
    BY <1>7 DEF Shown
<1> QED BY <1>3, <1>5, <1>6, <1>8, RememberStep

LEMMA LearnedImplements ==
    ASSUME Inv, NEW s \in Sources, PersistIntegrated(s)
    PROVE  Contract!Next
<1> DEFINE q == task[s].of
           v == [by |-> q, prev |-> Heads.model]
           d == [by |-> q, prev |-> Heads.desire]
<1>1. task[s].at = "writing" /\ task[s].at \in AtWork /\ task[s].at # "idle"
    BY DEF PersistIntegrated, At, AtWork
<1>2. /\ q \in Requests /\ SourceOf(q) = s /\ request[q] = "processing" /\ LearningTypes
      /\ task \in [Sources -> TaskType] /\ q # Root
    BY <1>1, TaskFacts, RequestFacts
<1>3. /\ Returns(s) /\ task[s].saw = {Heads} /\ request' = [request EXCEPT ![q] = "applied"]
      /\ model' = Append(model, v) /\ desire' \in {desire, Append(desire, d)}
      /\ UNCHANGED overtaken
    BY DEF PersistIntegrated, Unchanged, outbox
<1>4. Learned' = Learned \cup {q}
    BY <1>2, <1>3 DEF Learned, LearningTypes
<1>5. Known' = Known \cup {s} /\ s \notin Known \ overtaken
    BY <1>1, <1>2, <1>4, NotYetKnown DEF Known
<1>6. v \in Version /\ v.by = q /\ d \in Version /\ d.by = q
    BY <1>2, HeadsTyped DEF Version, HeadsType
<1>7. HeadOf(model') = q
    <2> HIDE DEF v, q
    <2>1. HeadOf(Append(model, v)) = v.by
        BY <1>2, <1>6, Appended DEF LearningTypes
    <2> QED BY <1>3, <1>6, <2>1
<1>8. HeadOf(desire') = HeadOf(desire) \/ HeadOf(desire') = q
    <2> HIDE DEF d, q
    <2>1. HeadOf(Append(desire, d)) = d.by
        BY <1>2, <1>6, Appended DEF LearningTypes
    <2> QED BY <1>3, <1>6, <2>1
<1>9. Mind' \in {[model |-> s, desire |-> Mind.desire], [model |-> s, desire |-> s]}
    <2>1. Mind' = [model |-> Whose(HeadOf(model')), desire |-> Whose(HeadOf(desire'))]
        BY DEF Mind, MindOf, Heads
    <2>2. Mind.desire = Whose(HeadOf(desire))
        BY DEF Mind, MindOf, Heads
    <2>3. Whose(q) = s
        BY <1>2 DEF Whose
    <2> HIDE DEF q
    <2> QED BY <1>7, <1>8, <2>1, <2>2, <2>3
<1>10. Shown[s] = {Mind}
    BY <1>3 DEF Shown, Mind
<1>11. Shown' = [Shown EXCEPT ![s] = {}]
    <2>1. task'[s].saw = {} /\ \A r \in Sources : r # s => task'[r] = task[r]
        BY <1>2, <1>3, TaskMoves
    <2>2. Shown' = [r \in Sources |-> IF r = s THEN {} ELSE Shown[r]]
        BY <2>1 DEF Shown
    <2>3. Shown = [r \in Sources |-> Shown[r]]
        BY DEF Shown
    <2> HIDE DEF Shown
    <2> QED BY <2>2, <2>3
<1> QED BY <1>3, <1>5, <1>9, <1>10, <1>11, LearnStep

LEMMA RunImplements ==
    ASSUME Inv, NEW s \in Sources, Run(s)
    PROVE  Contract!Next
<1>0. UNCHANGED overtaken
    BY DEF Run, Claim, Raises, Load, LinkFails, LoadFails, GateStops, GateRoutes, PersistMemory,
           MemoryFails, WriterStops, WriterRemembers, PersistIntegrated, Conflict, outbox
<1>1. CASE Claim(s)
    BY <1>1, ClaimImplements
<1>2. CASE Raises(s) \/ Load(s) \/ LinkFails(s) \/ WriterRemembers(s)
    <2>1. /\ UNCHANGED <<model, desire>> /\ UNCHANGED request
          /\ Returns(s) \/ Goes(s, "gate") \/ Goes(s, "unlinked") \/ Goes(s, "note")
        BY <1>2 DEF Raises, Load, LinkFails, WriterRemembers, learning
    <2>2. Learned' = Learned
        BY <2>1 DEF Learned
    <2> QED BY <1>0, <2>1, <2>2, QuietImplements
<1>3. CASE LoadFails(s) \/ GateStops(s) \/ MemoryFails(s) \/ WriterStops(s)
    <2>1. task[s].at \in AtWork /\ (SetOutcome(s, "failed") \/ SetOutcome(s, "declined"))
        BY <1>3 DEF LoadFails, GateStops, MemoryFails, WriterStops, At, AtWork
    <2>2. {"failed", "declined"} \subseteq Statuses \ {"applied", "noted"}
        BY DEF Statuses
    <2> QED BY <1>0, <2>1, <2>2, FailingKeeps
<1>4. CASE GateRoutes(s)
    <2>1. UNCHANGED learning /\ (Goes(s, "note") \/ AsksWriter(s, 1))
        BY <1>4 DEF GateRoutes
    <2>2. UNCHANGED <<model, desire>> /\ Learned' = Learned
        BY <2>1 DEF learning, Learned
    <2> QED BY <1>0, <2>1, <2>2, QuietImplements, AskingShows
<1>5. CASE PersistMemory(s) \/ PersistIntegrated(s)
    BY <1>5, NotedImplements, LearnedImplements
<1>6. CASE Conflict(s)
    <2>1. /\ task[s].at \in AtWork
          /\ \/ Returns(s) /\ UNCHANGED learning
             \/ AsksWriter(s, 2) /\ UNCHANGED learning
             \/ SetOutcome(s, "failed")
        BY <1>6 DEF Conflict, At, AtWork
    <2>2. UNCHANGED learning => UNCHANGED <<model, desire>> /\ Learned' = Learned
        BY DEF learning, Learned
    <2>3. "failed" \in Statuses \ {"applied", "noted"}
        BY DEF Statuses
    <2> QED BY <1>0, <2>1, <2>2, <2>3, QuietImplements, AskingShows, FailingKeeps
<1> QED BY <1>1, <1>2, <1>3, <1>4, <1>5, <1>6 DEF Run

(* Every source is learned over exactly what its writer was shown, and at  *)
(* most once, whatever is retried or cut off: only a retry that another    *)
(* one overtook between its reading and its writing lets its source be     *)
(* learned again.                                                          *)
THEOREM Refinement == Spec => Implements
<1>1. Init => Contract!Init
    <2> SUFFICES ASSUME Init PROVE Contract!Init
        OBVIOUS
    <2>1. Learned = {} /\ \A s \in Sources : task[s].saw = {}
        BY DEF Init, Learned, NoTask
    <2>2. Known = {} /\ Shown = [s \in Sources |-> {}]
        BY <2>1 DEF Known, Shown
    <2>3. HeadOf(model) = Root /\ HeadOf(desire) = Root
        BY DEF Init, HeadOf
    <2>4. Mind = [model |-> Root, desire |-> Root]
        BY <2>3 DEF Mind, MindOf, Heads, Whose
    <2>5. overtaken = {}
        BY DEF Init
    <2> QED BY <2>2, <2>4, <2>5 DEF Contract!Init, Contract!Nobody, Known, Learned, Mind, Shown
<1>2. Inv /\ [Next]_vars => [Contract!Next]_(Contract!vars)
    <2> SUFFICES ASSUME Inv, [Next]_vars, ~UNCHANGED Contract!vars PROVE Contract!Next
        OBVIOUS
    <2>1. ASSUME NEW c \in Chats, Schedule(c) PROVE Contract!Next
        <3>1. /\ UNCHANGED <<model, desire, overtaken>> /\ Learned' = Learned
              /\ Starts(c, <<c, 0>>) /\ c \in Sources
            BY <2>1, SourceFacts DEF Schedule, learning, outbox, Learned
        <3> QED BY <3>1, QuietImplements
    <2>2. ASSUME NEW l \in Logs, Reflect(l) PROVE Contract!Next
        <3>1. /\ UNCHANGED <<model, desire, overtaken>> /\ Learned' = Learned
              /\ Starts(l, <<l, 0>>) /\ l \in Sources
            BY <2>2, SourceFacts DEF Reflect, outbox, Learned
        <3> QED BY <3>1, QuietImplements
    <2>3. ASSUME NEW s \in Sources, Run(s) PROVE Contract!Next
        BY <2>3, RunImplements
    <2>4. CASE Outbox \/ Restart
        BY <2>4, OutboxKeeps
    <2>5. CASE UNCHANGED vars
        BY <2>5 DEF vars, Contract!vars, Heads
    <2> QED BY <2>1, <2>2, <2>3, <2>4, <2>5 DEF Next
<1> QED BY <1>1, <1>2, InvHolds, PTL DEF Spec, Implements, Contract!Spec
=============================================================================
