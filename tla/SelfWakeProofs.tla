--------------------------- MODULE SelfWakeProofs ---------------------------
(***************************************************************************)
(* Proofs about SelfWake, for any number of wakes, conversations, sessions *)
(* and restarts.                                                           *)
(*                                                                         *)
(* The argument for the single call: a task owns its wake from its claim   *)
(* until it stands down without having called, and for ever once it has    *)
(* called.  A wake has one owner, and an owned wake is a consumed row, so  *)
(* the scan, which claims pending rows only, never makes a second one.     *)
(***************************************************************************)
EXTENDS SelfWake, TLAPS, FiniteSetTheorems

LEMMA HoldsReleasedType ==
    ASSUME TypeOK
    PROVE  /\ HoldsReleased(wake) \in [Wakes -> Rows]
           /\ \A w \in Wakes :
                 /\ HoldsReleased(wake)[w].state = wake[w].state
                 /\ HoldsReleased(wake)[w].consumedAt = wake[w].consumedAt
<1> SUFFICES ASSUME NEW w \in Wakes
             PROVE  /\ HoldsReleased(wake)[w] \in Rows
                    /\ HoldsReleased(wake)[w].state = wake[w].state
                    /\ HoldsReleased(wake)[w].consumedAt = wake[w].consumedAt
    BY DEF HoldsReleased
<1> wake[w] \in Rows
    BY DEF TypeOK
<1>1. CASE wake[w].state = "pending" /\ \E h \in holds : h.wake = w
    <2> DEFINE h == CHOOSE x \in holds : x.wake = w
    <2>1. h \in holds
        BY <1>1
    <2>2. h.expires + Elapsed(h) \in Nat
        BY <2>1 DEF TypeOK, Holds, Elapsed
    <2>3. HoldsReleased(wake)[w] = [wake[w] EXCEPT !.expiresAt = h.expires + Elapsed(h)]
        BY <1>1 DEF HoldsReleased
    <2> QED BY <2>2, <2>3 DEF Rows
<1>2. CASE ~(wake[w].state = "pending" /\ \E h \in holds : h.wake = w)
    BY <1>2 DEF HoldsReleased
<1> QED BY <1>1, <1>2

LEMMA HoldsTakenType ==
    ASSUME TypeOK, NEW rows \in [Wakes -> Rows]
    PROVE  HoldsTaken(rows) \subseteq Holds
BY DEF TypeOK, HoldsTaken, Holds, Rows, Pending

LEMMA ClaimedType ==
    ASSUME TypeOK, NEW S \in SUBSET Wakes, ClaimTx(S)
    PROVE  /\ wake' \in [Wakes -> Rows]
           /\ \A w \in S : /\ wake[w].state = "pending"
                           /\ wake'[w].state = "consumed"
                           /\ wake'[w].consumedAt = now
           /\ \A w \in Wakes \ S :
                 \/ /\ wake'[w].state = wake[w].state
                    /\ wake'[w].consumedAt = wake[w].consumedAt
                 \/ wake[w].state = "pending" /\ wake'[w].state = "expired"
<1> DEFINE rows == HoldsReleased(wake)
<1>1. /\ rows \in [Wakes -> Rows]
      /\ \A w \in Wakes : rows[w].state = wake[w].state /\ rows[w].consumedAt = wake[w].consumedAt
    BY HoldsReleasedType
<1>2. wake' = Claimed(rows, S) /\ S \subseteq Due(rows)
    BY DEF ClaimTx, IsClaim
<1>3. now \in Nat
    BY DEF TypeOK
<1> HIDE DEF rows
<1>4. ASSUME NEW w \in Wakes
      PROVE  /\ wake'[w] \in Rows
             /\ w \in S => /\ wake[w].state = "pending"
                           /\ wake'[w].state = "consumed"
                           /\ wake'[w].consumedAt = now
             /\ w \notin S =>
                 \/ wake'[w].state = wake[w].state /\ wake'[w].consumedAt = wake[w].consumedAt
                 \/ wake[w].state = "pending" /\ wake'[w].state = "expired"
    <2>1. CASE w \in S
        <3>1. wake'[w] = [rows[w] EXCEPT !.state = "consumed", !.consumedAt = now]
            BY <1>2, <2>1 DEF Claimed
        <3>2. rows[w].state = "pending"
            BY <1>2, <2>1 DEF Due, Pending
        <3> QED BY <1>1, <1>3, <2>1, <3>1, <3>2 DEF Rows, States
    <2>2. CASE w \in (Overdue(rows) \cup Due(rows)) \ S
        <3>1. wake'[w] = [rows[w] EXCEPT !.state = "expired"]
            BY <1>2, <2>2 DEF Claimed
        <3>2. rows[w].state = "pending"
            BY <2>2 DEF Due, Overdue, Pending
        <3> QED BY <1>1, <2>2, <3>1, <3>2 DEF Rows, States
    <2>3. CASE w \notin S \cup Overdue(rows) \cup Due(rows)
        <3>1. wake'[w] = rows[w]
            BY <1>2, <2>3 DEF Claimed
        <3> QED BY <1>1, <2>3, <3>1
    <2> QED BY <2>1, <2>2, <2>3
<1>5. wake' \in [Wakes -> Rows]
    BY <1>2, <1>4 DEF Claimed
<1> QED BY <1>4, <1>5

LEMMA GotoType ==
    ASSUME TypeOK, NEW w \in Wakes, NEW k \in Attempts, NEW from, NEW to \in Steps,
           Goto(w, k, from, to)
    PROVE  /\ pc' \in [Wakes -> [Attempts -> Steps]]
           /\ pc[w][k] = from
           /\ \A v \in Wakes, j \in Attempts :
                 pc'[v][j] = IF v = w /\ j = k THEN to ELSE pc[v][j]
BY DEF TypeOK, Goto

(* What one step can do to a row: only a pending or a new row changes      *)
(* hands, except that the task that has not called yet may give its row    *)
(* back.                                                                   *)
RowMoves(w) ==
    \/ wake'[w].state = wake[w].state /\ wake'[w].consumedAt = wake[w].consumedAt
    \/ wake[w].state = "none" /\ wake'[w].state = "pending"
    \/ wake[w].state = "pending" /\ wake'[w].state \in {"invalidated", "expired"}

LEMMA ScheduleMoves ==
    ASSUME TypeOK, NEW c \in Convs, NEW w \in Wakes, ScheduleOrReplace(c, w)
    PROVE  wake' \in [Wakes -> Rows] /\ \A v \in Wakes : RowMoves(v)
<1>1. PICK rows \in Replacements(c), at \in (now + 1)..(now + Horizon) :
          wake' = [rows EXCEPT ![w] = NewRow(c, at)]
    BY DEF ScheduleOrReplace
<1>2. /\ rows \in [Wakes -> Rows]
      /\ \A v \in Wakes :
            \/ rows[v] = wake[v]
            \/ wake[v].state = "pending" /\ rows[v].state = "invalidated"
    <2>1. CASE rows = wake
        BY <2>1 DEF TypeOK
    <2>2. CASE rows # wake
        <3>1. PICK old \in PendingIn(wake, c) : rows = SetState(wake, old, "invalidated")
            BY <2>2 DEF Replacements
        <3>2. old \in Wakes /\ wake[old].state = "pending"
            BY DEF PendingIn, Pending
        <3>3. wake[old] \in Rows
            BY <3>2 DEF TypeOK
        <3>4. rows = [wake EXCEPT ![old] = [wake[old] EXCEPT !.state = "invalidated"]]
            BY <3>1, <3>2 DEF SetState, TypeOK
        <3>5. [wake[old] EXCEPT !.state = "invalidated"] \in Rows
            BY <3>3 DEF Rows, States
        <3> QED BY <3>2, <3>4, <3>5 DEF TypeOK
    <2> QED BY <2>1, <2>2
<1>3. at \in Nat /\ at + Expiry \in Nat
    BY NumbersAssumption DEF TypeOK
<1>4. wake[w].state = "none"
    BY DEF ScheduleOrReplace
<1>5. NewRow(c, at) \in Rows /\ NewRow(c, at).state = "pending"
    <2>1. known \in Redirects
        BY DEF TypeOK
    <2>2. Resolved(c) \in Convs
        BY <2>1 DEF Resolved, Redirects
    <2> QED BY <1>3, <2>2 DEF NewRow, Rows, States, Outcomes
<1>6. wake' \in [Wakes -> Rows]
    BY <1>1, <1>2, <1>5
<1>7. ASSUME NEW v \in Wakes PROVE RowMoves(v)
    BY <1>1, <1>2, <1>4, <1>5 DEF RowMoves
<1> QED BY <1>6, <1>7

LEMMA ReleaseMoves ==
    ASSUME TypeOK, wake' = HoldsReleased(wake)
    PROVE  wake' \in [Wakes -> Rows] /\ \A v \in Wakes : RowMoves(v)
BY HoldsReleasedType DEF RowMoves

LEMMA DeferMoves ==
    ASSUME TypeOK, NEW w \in Wakes, NEW k \in Attempts, DeferUnstarted(w, k)
    PROVE  /\ wake' \in [Wakes -> Rows]
           /\ holds' \subseteq Holds
           /\ \A v \in Wakes \ {w} : wake'[v] = wake[v]
           /\ \/ wake'[w] = wake[w]
              \/ wake[w].state = "consumed" /\ wake'[w].state \in {"pending", "invalidated"}
<1>1. CASE Undoable(w)
    <2>1. Undone(w) \in [Wakes -> Rows]
        <3>1. wake[w] \in Rows
            BY DEF TypeOK
        <3>2. PICK st \in {"invalidated", "pending"} :
                 Undone(w) = [wake EXCEPT ![w] = [wake[w] EXCEPT !.state = st, !.consumedAt = Never]]
            BY DEF Undone, TypeOK
        <3>3. [wake[w] EXCEPT !.state = st, !.consumedAt = Never] \in Rows
            BY <3>1 DEF Rows, States
        <3> QED BY <3>2, <3>3 DEF TypeOK
    <2>2. wake' = Undone(w) /\ holds' = HoldsTaken(Undone(w))
        BY <1>1 DEF DeferUnstarted
    <2>3. holds' \subseteq Holds
        BY <2>1, <2>2, HoldsTakenType
    <2>4. /\ \A v \in Wakes \ {w} : Undone(w)[v] = wake[v]
          /\ Undone(w)[w].state \in {"pending", "invalidated"}
        BY DEF Undone, TypeOK, Rows
    <2> QED BY <1>1, <2>1, <2>2, <2>3, <2>4 DEF Undoable
<1>2. CASE ~Undoable(w)
    BY <1>2 DEF DeferUnstarted, TypeOK
<1> QED BY <1>1, <1>2

LEMMA ConcludeMoves ==
    ASSUME TypeOK, NEW w \in Wakes, NEW o \in Outcomes, wake' = Finished(w, o)
    PROVE  wake' \in [Wakes -> Rows] /\ \A v \in Wakes : RowMoves(v)
BY DEF TypeOK, Finished, Rows, RowMoves

-----------------------------------------------------------------------------
(* Type correctness *)

LEMMA InitType == Init => TypeOK
<1> SUFFICES ASSUME Init PROVE TypeOK
    OBVIOUS
<1>1. NoRow \in Rows
    BY ConvsAssumption DEF NoRow, Rows, States, Outcomes
<1>2. wake \in [Wakes -> Rows]
    BY <1>1 DEF Init
<1>3. pc \in [Wakes -> [Attempts -> Steps]]
    BY DEF Init, Steps
<1>4. attempts \in [Wakes -> 0..MaxAttempts]
    BY NumbersAssumption DEF Init
<1>5. target \in [Wakes -> [Attempts -> Convs]]
    BY ConvsAssumption DEF Init
<1>6. today \in Nat
    <2>1. Offset \in Nat /\ DayLength \in Nat /\ DayLength > 0 /\ today = (0 + Offset) \div DayLength
        BY NumbersAssumption DEF Init, Day
    <2>2. (0 + Offset) \div DayLength \in Nat
        BY <2>1
    <2> QED BY <2>1, <2>2
<1>7. known \in loads /\ loads \subseteq Redirects
    BY ConvsAssumption DEF Init, Stored, Redirects
<1> QED BY <1>2, <1>3, <1>4, <1>5, <1>6, <1>7, ConvsAssumption DEF Init, TypeOK

LEMMA ClaimStepType ==
    ASSUME TypeOK, NEW S \in SUBSET Wakes, ScanOnce(S) \/ ShutdownDuringScan(S)
    PROVE  TypeOK'
<1>1. ClaimTx(S)
    BY DEF ScanOnce, ShutdownDuringScan
<1>2. wake' \in [Wakes -> Rows]
    BY <1>1, ClaimedType
<1>3. attempts' \in [Wakes -> 0..MaxAttempts]
    BY <1>1, NumbersAssumption DEF TypeOK, ClaimTx
<1>4. holds' \subseteq Holds
    BY <1>1 DEF ClaimTx
<1>5. pc' \in [Wakes -> [Attempts -> Steps]]
    <2>1. ASSUME NEW w \in Wakes, NEW k \in Attempts
          PROVE  Cancelled[w][k] \in Steps
        BY DEF Cancelled, Live, TypeOK, Steps
    <2>2. ASSUME NEW w \in Wakes PROVE pc'[w] \in [Attempts -> Steps]
        <3>1. Cancelled[w] \in [Attempts -> Steps]
            BY <2>1 DEF Cancelled
        <3>2. pc[w] \in [Attempts -> Steps]
            BY DEF TypeOK
        <3>3. CASE ScanOnce(S)
            BY <3>2, <3>3 DEF ScanOnce, Steps
        <3>4. CASE ShutdownDuringScan(S)
            BY <3>1, <3>4 DEF ShutdownDuringScan, Steps
        <3> QED BY <3>3, <3>4
    <2> QED BY <2>2 DEF ScanOnce, ShutdownDuringScan
<1>6. up' \in {"running", "closing", "down"} /\ stops' \in Nat
    BY DEF ScanOnce, ShutdownDuringScan, TypeOK, procVars
<1>7. target' \in [Wakes -> [Attempts -> Convs]]
    <2>1. \A w \in Wakes : wake[w].conv \in Convs
        BY DEF TypeOK, Rows
    <2> QED BY <1>1, <2>1 DEF ClaimTx, TypeOK
<1> QED BY <1>2, <1>3, <1>4, <1>5, <1>6, <1>7
        DEF ScanOnce, ShutdownDuringScan, TypeOK, envVars, convVars

LEMMA TaskStepType ==
    ASSUME TypeOK, NEW w \in Wakes, NEW k \in Attempts, TaskStep(w, k)
    PROVE  TypeOK'
<1> USE DEF tables, envVars, convVars, procVars
<1>0. <<w, k>> \in Tasks
    BY DEF Tasks
<1>1. CASE Prepare(w, k) \/ PrepareFails(w, k)
    <2>1. pc' \in [Wakes -> [Attempts -> Steps]]
        BY <1>1, GotoType DEF Prepare, PrepareFails, Steps
    <2> QED BY <1>1, <2>1 DEF Prepare, PrepareFails, TypeOK
<1>2. CASE CheckTogether(w, k)
    <2>1. pc' \in [Wakes -> [Attempts -> Steps]] /\ called' \subseteq Tasks
        <3>1. CASE active
            BY <1>2, <3>1, GotoType DEF CheckTogether, TypeOK, Steps
        <3>2. CASE ~active
            <4>1. Goto(w, k, "prepared", "calling") /\ called' = called \cup {<<w, k>>}
                BY <1>2, <3>2 DEF CheckTogether
            <4>2. pc' \in [Wakes -> [Attempts -> Steps]]
                BY <4>1, GotoType DEF Steps
            <4>3. called' \subseteq Tasks
                BY <1>0, <4>1 DEF TypeOK
            <4> QED BY <4>2, <4>3
        <3> QED BY <3>1, <3>2
    <2> QED BY <1>2, <2>1 DEF CheckTogether, TypeOK
<1>3. CASE DeferRefused(w, k)
    <2>1. pc' \in [Wakes -> [Attempts -> Steps]]
        BY <1>3, GotoType DEF DeferRefused, Steps
    <2> QED BY <1>0, <1>3, <2>1 DEF DeferRefused, TypeOK
<1>4. CASE DeferUnstarted(w, k)
    <2>1. pc' \in [Wakes -> [Attempts -> Steps]]
        BY <1>4, GotoType DEF DeferUnstarted, Steps
    <2>2. wake' \in [Wakes -> Rows] /\ holds' \subseteq Holds
        BY <1>4, DeferMoves
    <2> QED BY <1>4, <2>1, <2>2 DEF DeferUnstarted, TypeOK
<1>5. CASE CallSilent(w, k) \/ CallReplies(w, k) \/ PersistFails(w, k) \/ Cleanup(w, k)
    <2>1. pc' \in [Wakes -> [Attempts -> Steps]]
        BY <1>5, GotoType DEF CallSilent, CallReplies, PersistFails, Cleanup, Steps
    <2> QED BY <1>5, <2>1 DEF CallSilent, CallReplies, PersistFails, Cleanup, TypeOK
<1>6. CASE PersistVisible(w, k)
    <2>1. pc' \in [Wakes -> [Attempts -> Steps]]
        BY <1>6, GotoType DEF PersistVisible, Steps
    <2>2. outbox' \subseteq Tasks /\ chat' \subseteq Tasks
        BY <1>0, <1>6 DEF PersistVisible, Delivered, TypeOK
    <2> QED BY <1>6, <2>1, <2>2 DEF PersistVisible, TypeOK
<1>7. CASE Conclude(w, k)
    <2>1. PICK end \in Ends : /\ Goto(w, k, end[1], "cleanup")
                              /\ wake' = Finished(w, end[2])
                              /\ UNCHANGED <<now, holds, outbox, chat, attempts, called, target,
                                             envVars, convVars, procVars>>
        BY <1>7 DEF Conclude
    <2>2. end[2] \in Outcomes
        BY DEF Ends, Outcomes
    <2>3. pc' \in [Wakes -> [Attempts -> Steps]]
        BY <2>1, GotoType DEF Steps
    <2>4. wake' \in [Wakes -> Rows]
        BY <2>1, <2>2, ConcludeMoves
    <2> QED BY <2>1, <2>3, <2>4 DEF TypeOK
<1> QED BY <1>1, <1>2, <1>3, <1>4, <1>5, <1>6, <1>7 DEF TaskStep

(* Tools, conversations, companionship, process and clock *)
Surroundings ==
    \/ \E c \in Convs, w \in Wakes : ScheduleOrReplace(c, w) \/ CancelPending(c, w)
    \/ \E c \in Convs : DeleteConversation(c) \/ Rollover(c)
    \/ \E r \in Tasks : DeleteMessage(r)
    \/ Reload
    \/ ScanHeld
    \/ Shutdown \/ Exit \/ Crash \/ Restart
    \/ TogetherActivate \/ TogetherLapse \/ TogetherFinish
    \/ TickReleases \/ TickDrains
    \/ ClockTick
    \/ UNCHANGED vars

LEMMA NextCases ==
    ASSUME [Next]_vars
    PROVE  \/ \E S \in SUBSET Wakes : ScanOnce(S) \/ ShutdownDuringScan(S)
           \/ \E w \in Wakes, k \in Attempts : TaskStep(w, k)
           \/ Surroundings
BY DEF Next, Surroundings

(* What the owner deletes was in the chat.                                 *)
LEMMA ErasedReplies ==
    ASSUME NEW gone \in SUBSET chat, Erase(gone), outbox' = outbox
    PROVE  Replies' = Replies /\ (Apart => Apart')
BY DEF Erase, Replies, Apart

LEMMA StoredType == TypeOK => Stored \in Redirects
BY DEF TypeOK, Stored, Redirects

(* None of these touches a task's right to call, except by ending tasks. *)
LEMMA SurroundingsMove ==
    ASSUME TypeOK, Surroundings
    PROVE  /\ TypeOK'
           /\ \A w \in Wakes : RowMoves(w)
           /\ UNCHANGED <<attempts, called>>
           /\ Replies' = Replies
           /\ Apart => Apart'
           /\ \A w \in Wakes, k \in Attempts :
                 pc'[w][k] = pc[w][k] \/ (pc'[w][k] \in {"cancelled", "gone"} /\ pc[w][k] # "idle")
<1> USE DEF tables, taskVars, envVars, convVars, procVars
<1>0. UNCHANGED <<outbox, chat, erased>> => Replies' = Replies /\ (Apart => Apart')
    BY DEF Replies, Apart
<1>1. CASE \E c \in Convs, w \in Wakes : ScheduleOrReplace(c, w)
    <2> PICK c \in Convs, w \in Wakes : ScheduleOrReplace(c, w)
        BY <1>1
    <2>1. wake' \in [Wakes -> Rows] /\ \A v \in Wakes : RowMoves(v)
        BY ScheduleMoves
    <2> QED BY <1>0, <2>1 DEF ScheduleOrReplace, TypeOK
<1>2. CASE \E c \in Convs, w \in Wakes : CancelPending(c, w)
    <2> PICK c \in Convs, w \in Wakes : CancelPending(c, w)
        BY <1>2
    <2>1. wake[w] \in Rows /\ wake[w].state = "pending"
        BY DEF CancelPending, PendingIn, Pending, TypeOK
    <2>2. wake' \in [Wakes -> Rows] /\ \A v \in Wakes : RowMoves(v)
        BY <2>1 DEF CancelPending, SetState, TypeOK, Rows, States, RowMoves
    <2> QED BY <1>0, <2>2 DEF CancelPending, TypeOK
<1>3. CASE \E c \in Convs : DeleteConversation(c)
    <2> PICK c \in Convs : DeleteConversation(c)
        BY <1>3
    <2>1. ASSUME NEW w \in Wakes
          PROVE  wake'[w] \in Rows /\ RowMoves(w)
        <3>1. wake[w] \in Rows
            BY DEF TypeOK
        <3>2. \/ wake'[w] = wake[w]
              \/ /\ wake[w].state = "pending"
                 /\ wake'[w] = [wake[w] EXCEPT !.state = "invalidated"]
            BY DEF DeleteConversation, Orphaned, TypeOK
        <3> QED BY <3>1, <3>2 DEF Rows, States, RowMoves
    <2>2. wake' \in [Wakes -> Rows]
        BY <2>1 DEF DeleteConversation
    <2> DEFINE gone == {r \in chat : target[r[1]][r[2]] = c}
    <2>3. Replies' = Replies /\ (Apart => Apart')
        BY ErasedReplies DEF DeleteConversation
    <2>4. chat' \subseteq Tasks /\ erased' \subseteq Tasks
        BY DEF DeleteConversation, Erase, TypeOK
    <2> HIDE DEF gone
    <2> QED BY <2>1, <2>2, <2>3, <2>4 DEF DeleteConversation, TypeOK
<1>4. CASE \E c \in Convs : Rollover(c)
    <2> PICK c \in Convs : Rollover(c)
        BY <1>4
    <2>1. ASSUME NEW w \in Wakes
          PROVE  wake'[w] \in Rows /\ RowMoves(w)
        <3>1. wake[w] \in Rows
            BY DEF TypeOK
        <3>2. wake'[w] = wake[w] \/ wake'[w] = [wake[w] EXCEPT !.conv = c]
            BY DEF Rollover, Carried
        <3> QED BY <3>1, <3>2 DEF Rows, RowMoves
    <2>2. wake' \in [Wakes -> Rows]
        BY <2>1 DEF Rollover, Carried
    <2>3. retired' \subseteq Convs
        <3>1. PICK previous \in Previous(c) : retired' = retired \cup {current} \cup previous
            BY DEF Rollover
        <3>2. previous \subseteq Convs
            BY DEF Previous
        <3> QED BY <3>1, <3>2 DEF TypeOK
    <2>4. today' \in Nat
        <3>1. today' = (now + Offset) \div DayLength
            BY DEF Rollover, Day
        <3>2. now + Offset \in Nat /\ DayLength \in Nat /\ DayLength > 0
            BY NumbersAssumption DEF TypeOK
        <3>3. (now + Offset) \div DayLength \in Nat
            BY <3>2
        <3> QED BY <3>1, <3>3
    <2>5. loads' \subseteq Redirects /\ known' \in loads'
        <3>1. loads' = loads \cup {Stored'} /\ known' = known /\ current' = c
            BY DEF Rollover
        <3>2. Stored' \in Redirects
            BY <2>3, <3>1 DEF Stored, Redirects
        <3> QED BY <3>1, <3>2 DEF TypeOK
    <2> QED BY <1>0, <2>1, <2>2, <2>3, <2>4, <2>5 DEF Rollover, TypeOK
<1>5. CASE ScanHeld \/ TogetherActivate
    <2>1. holds' \subseteq Holds
        BY <1>5, HoldsTakenType DEF ScanHeld, TogetherActivate, TypeOK
    <2>2. CASE ScanHeld
        BY <1>0, <2>1, <2>2 DEF ScanHeld, TypeOK, RowMoves
    <2>3. CASE TogetherActivate
        <3>1. /\ wake' = wake /\ pc' = pc /\ attempts' = attempts /\ called' = called
              /\ UNCHANGED <<outbox, chat, erased>>
            BY <2>3 DEF TogetherActivate
        <3>2. TypeOK'
            BY <2>1, <2>3 DEF TogetherActivate, TypeOK
        <3> QED BY <1>0, <3>1, <3>2 DEF RowMoves
    <2> QED BY <1>5, <2>2, <2>3
<1>6. CASE TogetherFinish \/ TickReleases
    <2>1. wake' \in [Wakes -> Rows] /\ \A v \in Wakes : RowMoves(v)
        BY <1>6, ReleaseMoves DEF TogetherFinish, TickReleases
    <2> QED BY <1>0, <1>6, <2>1 DEF TogetherFinish, TickReleases, TypeOK
<1>7. CASE Shutdown \/ Crash
    <2>1. pc' \in [Wakes -> [Attempts -> Steps]]
        BY <1>7 DEF Shutdown, Crash, Cancelled, TypeOK, Steps
    <2>2. \A w \in Wakes, k \in Attempts :
             pc'[w][k] = pc[w][k] \/ (pc'[w][k] \in {"cancelled", "gone"} /\ pc[w][k] # "idle")
        BY <1>7 DEF Shutdown, Crash, Cancelled, Live, TypeOK
    <2> QED BY <1>0, <1>7, <2>1, <2>2 DEF Shutdown, Crash, TypeOK, RowMoves
<1>8. CASE Exit \/ Restart \/ Reload \/ TogetherLapse \/ ClockTick \/ UNCHANGED vars
    <2>1. /\ wake' = wake /\ pc' = pc /\ attempts' = attempts /\ called' = called
          /\ UNCHANGED <<outbox, chat, erased>>
        BY <1>8 DEF Exit, Restart, Reload, TogetherLapse, ClockTick, vars
    <2>2. TypeOK'
        <3>1. CASE Exit
            BY <3>1 DEF Exit, TypeOK
        <3>2. CASE Restart
            BY <3>2, StoredType DEF Restart, TypeOK
        <3>6. CASE Reload
            BY <3>6 DEF Reload, TypeOK
        <3>3. CASE TogetherLapse
            BY <3>3 DEF TogetherLapse, TypeOK
        <3>4. CASE ClockTick
            BY <3>4 DEF ClockTick, TypeOK
        <3>5. CASE UNCHANGED vars
            BY <3>5 DEF vars, TypeOK
        <3> QED BY <1>8, <3>1, <3>2, <3>3, <3>4, <3>5, <3>6
    <2> QED BY <1>0, <2>1, <2>2 DEF RowMoves
<1>9. CASE TickDrains
    BY <1>9 DEF TickDrains, TypeOK, RowMoves, Replies, Apart
<1>10. CASE \E r \in Tasks : DeleteMessage(r)
    <2> PICK r \in Tasks : DeleteMessage(r)
        BY <1>10
    <2>1. Replies' = Replies /\ (Apart => Apart')
        BY ErasedReplies DEF DeleteMessage
    <2>2. /\ wake' = wake /\ UNCHANGED taskVars
          /\ chat' \subseteq Tasks /\ erased' \subseteq Tasks
        BY DEF DeleteMessage, Erase, TypeOK
    <2>3. TypeOK'
        BY <2>2 DEF DeleteMessage, TypeOK
    <2> QED BY <2>1, <2>2, <2>3 DEF RowMoves
<1> QED BY <1>1, <1>2, <1>3, <1>4, <1>5, <1>6, <1>7, <1>8, <1>9, <1>10 DEF Surroundings

(* Every variable keeps its type. *)
THEOREM TypeCorrect == Spec => []TypeOK
<1>1. TypeOK /\ [Next]_vars => TypeOK'
    BY NextCases, ClaimStepType, TaskStepType, SurroundingsMove
<1> QED BY InitType, <1>1, PTL DEF Spec

-----------------------------------------------------------------------------
(* One call for each wake *)

Starters == {"preparing", "prepared", "checked"}
USE DEF Starters

Owner(w, k) == pc[w][k] \in Starters \/ <<w, k>> \in called

OwnedIsConsumed ==
    \A w \in Wakes, k \in Attempts : Owner(w, k) => wake[w].state = "consumed"

OneOwner ==
    \A w \in Wakes : \A j, k \in Attempts : Owner(w, j) /\ Owner(w, k) => j = k

FutureIdle ==
    \A w \in Wakes, k \in Attempts :
        k > attempts[w] => pc[w][k] = "idle" /\ <<w, k>> \notin called

StartersHaveNotCalled ==
    \A w \in Wakes, k \in Attempts :
        pc[w][k] \in Starters => <<w, k>> \notin called

AnswersAwaitDelivery ==
    \A w \in Wakes, k \in Attempts :
        pc[w][k] \in {"calling", "replying"} => <<w, k>> \in called \ Replies

RepliesFromCalls == Replies \subseteq called /\ Apart

Inv == /\ TypeOK
       /\ OwnedIsConsumed
       /\ OneOwner
       /\ FutureIdle
       /\ StartersHaveNotCalled
       /\ AnswersAwaitDelivery
       /\ RepliesFromCalls

LEMMA InitInv == Init => Inv
BY InitType DEF Init, Inv, OwnedIsConsumed, OneOwner, Owner, FutureIdle,
   StartersHaveNotCalled, AnswersAwaitDelivery, RepliesFromCalls, Replies, Apart

(* The tasks a claim starts, and those the shutdown ends meanwhile.        *)
LEMMA ClaimTasks ==
    ASSUME TypeOK, NEW S \in SUBSET Wakes, ScanOnce(S) \/ ShutdownDuringScan(S)
    PROVE  /\ \A w \in Wakes : attempts'[w] = IF w \in S THEN attempts[w] + 1 ELSE attempts[w]
           /\ \A w \in S : attempts[w] + 1 \in Attempts
           /\ \A w \in Wakes, k \in Attempts :
                 \/ pc'[w][k] = pc[w][k]
                 \/ pc'[w][k] \in {"cancelled", "gone"} /\ pc[w][k] # "idle"
                 \/ w \in S /\ k = attempts[w] + 1 /\ pc'[w][k] \in {"preparing", "gone"}
           /\ ShutdownDuringScan(S) =>
                 \A w \in Wakes, k \in Attempts : pc'[w][k] \in {"idle", "cancelled", "gone"}
<1>2. ClaimTx(S)
    BY DEF ScanOnce, ShutdownDuringScan
<1>4. \A w \in Wakes : attempts'[w] = IF w \in S THEN attempts[w] + 1 ELSE attempts[w]
    BY <1>2 DEF ClaimTx
<1>5. \A w \in Wakes : attempts[w] \in 0..MaxAttempts
    BY DEF TypeOK
<1>6. \A w \in S : attempts[w] + 1 \in Attempts
    BY <1>2, <1>5, NumbersAssumption DEF ClaimTx, Attempts
<1>7. \A w \in Wakes, k \in Attempts :
         \/ pc'[w][k] = pc[w][k]
         \/ pc'[w][k] \in {"cancelled", "gone"} /\ pc[w][k] # "idle"
         \/ w \in S /\ k = attempts[w] + 1 /\ pc'[w][k] \in {"preparing", "gone"}
    <2>1. CASE ScanOnce(S)
        BY <2>1, <1>6 DEF ScanOnce, TypeOK
    <2>2. CASE ShutdownDuringScan(S)
        <3>1. ASSUME NEW w \in Wakes, NEW k \in Attempts
              PROVE  /\ Cancelled[w][k] = IF Live(w, k) THEN "cancelled" ELSE pc[w][k]
                     /\ pc'[w][k] = IF w \in S /\ k = attempts[w] + 1
                                    THEN "gone" ELSE Cancelled[w][k]
            <4>1. Cancelled[w] = [j \in Attempts |-> IF Live(w, j) THEN "cancelled" ELSE pc[w][j]]
                BY DEF Cancelled
            <4>2. pc'[w] = IF w \in S THEN [Cancelled[w] EXCEPT ![attempts[w] + 1] = "gone"]
                                      ELSE Cancelled[w]
                BY <2>2 DEF ShutdownDuringScan
            <4> QED BY <1>6, <4>1, <4>2
        <3> QED BY <3>1 DEF Live
    <2> QED BY <2>1, <2>2
<1>8. ASSUME ShutdownDuringScan(S), NEW w \in Wakes, NEW k \in Attempts
      PROVE  pc'[w][k] \in {"idle", "cancelled", "gone"}
    <2>1. Cancelled[w] = [j \in Attempts |-> IF Live(w, j) THEN "cancelled" ELSE pc[w][j]]
        BY DEF Cancelled
    <2>2. pc'[w] = IF w \in S THEN [Cancelled[w] EXCEPT ![attempts[w] + 1] = "gone"]
                              ELSE Cancelled[w]
        BY <1>8 DEF ShutdownDuringScan
    <2> QED BY <1>6, <2>1, <2>2 DEF Live
<1> QED BY <1>4, <1>6, <1>7, <1>8

LEMMA ClaimInv ==
    ASSUME Inv, NEW S \in SUBSET Wakes, ScanOnce(S) \/ ShutdownDuringScan(S)
    PROVE  Inv'
<1> USE DEF Inv
<1>1. TypeOK'
    BY ClaimStepType
<1>2. ClaimTx(S) /\ called' = called /\ Replies' = Replies /\ (Apart => Apart')
    BY DEF ScanOnce, ShutdownDuringScan, convVars, Replies, Apart
<1>3. /\ \A w \in S : wake[w].state = "pending" /\ wake'[w].state = "consumed"
      /\ \A w \in Wakes \ S : wake[w].state = "consumed" => wake'[w].state = "consumed"
    BY <1>2, ClaimedType
<1>4. \A w \in Wakes : attempts'[w] = IF w \in S THEN attempts[w] + 1 ELSE attempts[w]
    BY ClaimTasks
<1>5. \A w \in Wakes : attempts[w] \in 0..MaxAttempts
    BY DEF TypeOK
<1>7. \A w \in Wakes, k \in Attempts :
         \/ pc'[w][k] = pc[w][k]
         \/ pc'[w][k] \in {"cancelled", "gone"} /\ pc[w][k] # "idle"
         \/ w \in S /\ k = attempts[w] + 1 /\ pc'[w][k] \in {"preparing", "gone"}
    BY ClaimTasks
<1>8. ASSUME NEW w \in Wakes, NEW k \in Attempts, Owner(w, k)'
      PROVE  \/ Owner(w, k) /\ w \notin S
             \/ w \in S /\ k = attempts[w] + 1
    <2>1. w \in S => ~Owner(w, k)
        BY <1>3 DEF OwnedIsConsumed
    <2> QED BY <2>1, <1>2, <1>7, <1>8 DEF Owner
<1>9. OwnedIsConsumed' /\ OneOwner'
    BY <1>3, <1>8 DEF OwnedIsConsumed, OneOwner
<1>10. FutureIdle'
    <2> SUFFICES ASSUME NEW w \in Wakes, NEW k \in Attempts, k > attempts'[w]
                 PROVE  pc'[w][k] = "idle" /\ <<w, k>> \notin called
        BY <1>2 DEF FutureIdle
    <2>1. k > attempts[w] /\ ~(w \in S /\ k = attempts[w] + 1)
        BY <1>4, <1>5 DEF Attempts
    <2> QED BY <2>1, <1>7 DEF FutureIdle
<1>11. StartersHaveNotCalled'
    <2> SUFFICES ASSUME NEW w \in Wakes, NEW k \in Attempts, pc'[w][k] \in Starters
                 PROVE  <<w, k>> \notin called
        BY <1>2 DEF StartersHaveNotCalled
    <2>1. CASE pc'[w][k] = pc[w][k]
        BY <2>1 DEF StartersHaveNotCalled
    <2>2. CASE w \in S /\ k = attempts[w] + 1
        <3>1. k > attempts[w]
            BY <2>2, <1>5
        <3> QED BY <3>1 DEF FutureIdle
    <2> QED BY <1>7, <2>1, <2>2
<1>12. AnswersAwaitDelivery' /\ RepliesFromCalls'
    BY <1>2, <1>7 DEF AnswersAwaitDelivery, RepliesFromCalls
<1> QED BY <1>1, <1>9, <1>10, <1>11, <1>12

LEMMA SurroundingsInv ==
    ASSUME Inv, Surroundings
    PROVE  Inv'
<1> USE DEF Inv
<1>1. /\ TypeOK'
      /\ \A w \in Wakes : RowMoves(w)
      /\ attempts' = attempts /\ called' = called
      /\ Replies' = Replies /\ Apart'
      /\ \A w \in Wakes, k \in Attempts :
            pc'[w][k] = pc[w][k] \/ (pc'[w][k] \in {"cancelled", "gone"} /\ pc[w][k] # "idle")
    BY SurroundingsMove DEF RepliesFromCalls
<1>2. \A w \in Wakes, k \in Attempts : Owner(w, k)' => Owner(w, k)
    BY <1>1 DEF Owner
<1>3. OwnedIsConsumed'
    BY <1>1, <1>2 DEF OwnedIsConsumed, RowMoves
<1>4. OneOwner'
    BY <1>2 DEF OneOwner
<1>5. FutureIdle' /\ StartersHaveNotCalled' /\ AnswersAwaitDelivery' /\ RepliesFromCalls'
    BY <1>1 DEF FutureIdle, StartersHaveNotCalled, AnswersAwaitDelivery, RepliesFromCalls
<1> QED BY <1>1, <1>3, <1>4, <1>5

(* A task step is one of three things: it starts the call, it stands down, *)
(* or it moves on without touching who owns the wake.                      *)
MovesOn(w, k) ==
    /\ called' = called /\ attempts' = attempts
    /\ \A v \in Wakes : RowMoves(v)
    /\ \A v \in Wakes, j \in Attempts :
          \/ pc'[v][j] = pc[v][j]
          \/ /\ v = w /\ j = k /\ pc[v][j] # "idle"
             /\ \/ pc'[v][j] \notin {"idle", "calling", "replying"} \cup Starters
                \/ pc[v][j] \in Starters /\ pc'[v][j] \in Starters
                \/ pc[v][j] = "calling" /\ pc'[v][j] = "replying"

Calls(w, k) ==
    /\ pc[w][k] \in Starters
    /\ \A v \in Wakes, j \in Attempts :
          pc'[v][j] = IF v = w /\ j = k THEN "calling" ELSE pc[v][j]
    /\ called' = called \cup {<<w, k>>}
    /\ UNCHANGED <<wake, attempts, outbox, chat, erased>>

LEMMA CallsInv ==
    ASSUME Inv, NEW w \in Wakes, NEW k \in Attempts, Calls(w, k), TypeOK'
    PROVE  Inv'
<1> USE DEF Inv
<1>1. \A v \in Wakes, j \in Attempts : Owner(v, j)' <=> Owner(v, j)
    BY DEF Calls, Owner
<1>2. OwnedIsConsumed' /\ OneOwner'
    BY <1>1 DEF OwnedIsConsumed, OneOwner, Calls
<1>3. <<w, k>> \notin Replies
    BY DEF RepliesFromCalls, StartersHaveNotCalled, Calls
<1>4. FutureIdle'
    <2>1. ~(k > attempts[w])
        BY DEF FutureIdle, Calls
    <2> QED BY <2>1 DEF FutureIdle, Calls
<1>5. StartersHaveNotCalled' /\ AnswersAwaitDelivery' /\ RepliesFromCalls'
    BY <1>3 DEF StartersHaveNotCalled, AnswersAwaitDelivery, RepliesFromCalls, Calls, Replies, Apart
<1> QED BY <1>2, <1>4, <1>5

LEMMA MovesOnInv ==
    ASSUME Inv, NEW w \in Wakes, NEW k \in Attempts, MovesOn(w, k), TypeOK',
           \/ UNCHANGED <<outbox, chat, erased>>
           \/ /\ pc[w][k] = "replying" /\ pc'[w][k] = "replied"
              /\ Delivered(w, k) /\ erased' = erased
    PROVE  Inv'
<1> USE DEF Inv
<1>1. \A v \in Wakes, j \in Attempts : Owner(v, j)' => Owner(v, j)
    BY DEF MovesOn, Owner
<1>2. OwnedIsConsumed'
    BY <1>1 DEF OwnedIsConsumed, MovesOn, RowMoves
<1>3. OneOwner'
    BY <1>1 DEF OneOwner
<1>4. FutureIdle' /\ StartersHaveNotCalled'
    BY DEF FutureIdle, StartersHaveNotCalled, MovesOn
<1>5. AnswersAwaitDelivery' /\ RepliesFromCalls'
    <2>1. CASE UNCHANGED <<outbox, chat, erased>>
        BY <2>1 DEF AnswersAwaitDelivery, RepliesFromCalls, MovesOn, Replies, Apart
    <2>2. CASE /\ pc[w][k] = "replying" /\ pc'[w][k] = "replied"
               /\ Delivered(w, k) /\ erased' = erased
        <3>1. <<w, k>> \in called \ Replies
            BY <2>2 DEF AnswersAwaitDelivery
        <3>2. Replies' = Replies \cup {<<w, k>>} /\ Apart'
            BY <2>2, <3>1 DEF Delivered, RepliesFromCalls, Replies, Apart
        <3>3. RepliesFromCalls'
            BY <3>1, <3>2 DEF RepliesFromCalls, MovesOn
        <3>4. AnswersAwaitDelivery'
            BY <2>2, <3>2 DEF AnswersAwaitDelivery, MovesOn
        <3> QED BY <3>3, <3>4
    <2> QED BY <2>1, <2>2
<1> QED BY <1>2, <1>3, <1>4, <1>5

LEMMA DeferInv ==
    ASSUME Inv, NEW w \in Wakes, NEW k \in Attempts, DeferUnstarted(w, k), TypeOK'
    PROVE  Inv'
<1> USE DEF Inv
<1>1. /\ pc[w][k] = "checked"
      /\ \A v \in Wakes, j \in Attempts :
            pc'[v][j] = IF v = w /\ j = k THEN "deferred" ELSE pc[v][j]
    BY GotoType DEF DeferUnstarted, Steps
<1>2. /\ called' = called /\ attempts' = attempts
      /\ UNCHANGED <<outbox, chat, erased>>
      /\ \A v \in Wakes \ {w} : wake'[v] = wake[v]
    BY DeferMoves DEF DeferUnstarted, convVars
<1>3. \A j \in Attempts : ~Owner(w, j)'
    BY <1>1, <1>2 DEF OneOwner, Owner, StartersHaveNotCalled
<1>4. \A v \in Wakes, j \in Attempts : Owner(v, j)' => Owner(v, j) /\ v # w
    BY <1>1, <1>2, <1>3 DEF Owner
<1>5. OwnedIsConsumed' /\ OneOwner'
    BY <1>2, <1>4 DEF OwnedIsConsumed, OneOwner
<1>6. FutureIdle' /\ StartersHaveNotCalled' /\ AnswersAwaitDelivery' /\ RepliesFromCalls'
    BY <1>1, <1>2 DEF FutureIdle, StartersHaveNotCalled, AnswersAwaitDelivery, RepliesFromCalls,
                      Replies, Apart
<1> QED BY <1>5, <1>6

LEMMA TaskKinds ==
    ASSUME TypeOK, NEW w \in Wakes, NEW k \in Attempts, TaskStep(w, k)
    PROVE  \/ Calls(w, k)
           \/ DeferUnstarted(w, k)
           \/ /\ MovesOn(w, k)
              /\ \/ UNCHANGED <<outbox, chat, erased>>
                 \/ /\ pc[w][k] = "replying" /\ pc'[w][k] = "replied"
                    /\ Delivered(w, k) /\ erased' = erased
<1> USE DEF tables, convVars
<1>1. CASE (CheckTogether(w, k) /\ ~active) \/ DeferRefused(w, k)
    <2>1. PICK from \in Starters : Goto(w, k, from, "calling")
        BY <1>1 DEF CheckTogether, DeferRefused
    <2>2. called' = called \cup {<<w, k>>} /\ UNCHANGED <<wake, attempts, outbox, chat, erased>>
        BY <1>1 DEF CheckTogether, DeferRefused
    <2> QED BY <2>1, <2>2, GotoType DEF Calls, Steps
<1>2. CASE \/ (CheckTogether(w, k) /\ active)
           \/ Prepare(w, k) \/ PrepareFails(w, k)
           \/ CallSilent(w, k) \/ CallReplies(w, k) \/ PersistFails(w, k) \/ Cleanup(w, k)
    <2>1. /\ called' = called /\ attempts' = attempts /\ wake' = wake
          /\ UNCHANGED <<outbox, chat, erased>>
        BY <1>2 DEF CheckTogether, Prepare, PrepareFails, CallSilent, CallReplies, PersistFails, Cleanup
    <2>2. PICK from, to : /\ Goto(w, k, from, to)
                          /\ <<from, to>> \in {<<"preparing", "prepared">>, <<"prepared", "checked">>,
                                  <<"preparing", "failed">>, <<"prepared", "failed">>,
                                  <<"checked", "failed">>,
                                  <<"calling", "silent">>, <<"calling", "replying">>,
                                  <<"replying", "silent">>, <<"cleanup", "gone">>}
        BY <1>2 DEF CheckTogether, Prepare, PrepareFails, CallSilent, CallReplies, PersistFails, Cleanup
    <2>3. to \in Steps
        BY <2>2 DEF Steps
    <2>4. /\ pc[w][k] = from
          /\ \A v \in Wakes, j \in Attempts : pc'[v][j] = IF v = w /\ j = k THEN to ELSE pc[v][j]
        BY <2>2, <2>3, GotoType
    <2> QED BY <2>1, <2>2, <2>4 DEF MovesOn, RowMoves
<1>3. CASE PersistVisible(w, k)
    <2>1. /\ pc[w][k] = "replying"
          /\ \A v \in Wakes, j \in Attempts :
                pc'[v][j] = IF v = w /\ j = k THEN "replied" ELSE pc[v][j]
        BY <1>3, GotoType DEF PersistVisible, Steps
    <2> QED BY <1>3, <2>1 DEF PersistVisible, MovesOn, RowMoves
<1>4. CASE Conclude(w, k)
    <2>1. PICK end \in Ends : /\ Goto(w, k, end[1], "cleanup")
                              /\ wake' = Finished(w, end[2])
                              /\ UNCHANGED <<now, holds, outbox, chat, attempts, called, target,
                                             envVars, convVars, procVars>>
        BY <1>4 DEF Conclude
    <2>2. end[2] \in Outcomes /\ end[1] # "idle"
        BY DEF Ends, Outcomes
    <2>3. \A v \in Wakes : RowMoves(v)
        BY <2>1, <2>2, ConcludeMoves
    <2>4. /\ pc[w][k] = end[1]
          /\ \A v \in Wakes, j \in Attempts :
                pc'[v][j] = IF v = w /\ j = k THEN "cleanup" ELSE pc[v][j]
        BY <2>1, GotoType DEF Steps
    <2> QED BY <2>1, <2>2, <2>3, <2>4 DEF MovesOn
<1> QED BY <1>1, <1>2, <1>3, <1>4 DEF TaskStep

LEMMA StepInv == Inv /\ [Next]_vars => Inv'
<1> SUFFICES ASSUME Inv, [Next]_vars PROVE Inv'
    OBVIOUS
<1>1. CASE \E S \in SUBSET Wakes : ScanOnce(S) \/ ShutdownDuringScan(S)
    BY <1>1, ClaimInv
<1>2. CASE \E w \in Wakes, k \in Attempts : TaskStep(w, k)
    <2> PICK w \in Wakes, k \in Attempts : TaskStep(w, k)
        BY <1>2
    <2>1. TypeOK'
        BY TaskStepType DEF Inv
    <2> QED BY <2>1, TaskKinds, CallsInv, DeferInv, MovesOnInv DEF Inv
<1>3. CASE Surroundings
    BY <1>3, SurroundingsInv
<1> QED BY <1>1, <1>2, <1>3, NextCases

THEOREM Invariance == Spec => []Inv
BY InitInv, StepInv, PTL DEF Spec

(* The model is asked at most once for each wake. *)
THEOREM OneCall == Spec => []AtMostOneCall
<1>1. Inv => AtMostOneCall
    BY DEF Inv, OneOwner, Owner, AtMostOneCall
<1> QED BY <1>1, Invariance, PTL

(* Replies come from calls, are never stored twice, never come back once   *)
(* the owner deleted them, and are the wake's only ones.                   *)
THEOREM OneReply == Spec => []RepliesOnce
<1>1. Inv => RepliesOnce
    <2> SUFFICES ASSUME Inv, NEW r \in Replies, NEW s \in Replies, r[1] = s[1]
                 PROVE  r = s
        BY DEF Inv, RepliesFromCalls, RepliesOnce
    <2>1. r \in called /\ s \in called /\ called \subseteq Tasks
        BY DEF Inv, RepliesFromCalls, TypeOK
    <2>2. PICK w \in Wakes, j \in Attempts : r = <<w, j>>
        BY <2>1 DEF Tasks
    <2>3. PICK k \in Attempts : s = <<w, k>>
        BY <2>1, <2>2 DEF Tasks
    <2>4. j = k
        BY <2>1, <2>2, <2>3 DEF Inv, OneOwner, Owner
    <2> QED BY <2>2, <2>3, <2>4
<1> QED BY <1>1, Invariance, PTL

LEMMA CalledGrows ==
    ASSUME TypeOK, [Next]_vars
    PROVE  called \subseteq called'
<1>1. CASE \E S \in SUBSET Wakes : ScanOnce(S) \/ ShutdownDuringScan(S)
    BY <1>1 DEF ScanOnce, ShutdownDuringScan
<1>2. CASE \E w \in Wakes, k \in Attempts : TaskStep(w, k)
    BY <1>2, TaskKinds DEF Calls, DeferUnstarted, MovesOn
<1>3. CASE Surroundings
    BY <1>3, SurroundingsMove
<1> QED BY <1>1, <1>2, <1>3, NextCases

(* Once the model has been asked, the row stays consumed and counted. *)
THEOREM NoRefundAfterCall == Spec => CallNeverRefunded
<1>1. Inv /\ Inv' /\ [Next]_vars =>
        [\A w \in Wakes : (\E k \in Attempts : <<w, k>> \in called)
            => wake'[w].state = "consumed"]_vars
    <2> SUFFICES ASSUME Inv, Inv', [Next]_vars,
                        NEW w \in Wakes, NEW k \in Attempts, <<w, k>> \in called
                 PROVE  wake'[w].state = "consumed"
        OBVIOUS
    <2>1. <<w, k>> \in called'
        BY CalledGrows DEF Inv
    <2> QED BY <2>1 DEF Inv, OwnedIsConsumed, Owner
<1> QED BY <1>1, Invariance, PTL DEF Spec, CallNeverRefunded

-----------------------------------------------------------------------------
(* The daily quota *)

QuotaInv == \A d : Cardinality(ConsumedOn(wake, d)) <= Limit

LEMMA ConsumedOnFinite ==
    ASSUME NEW rows, NEW d
    PROVE  IsFiniteSet(ConsumedOn(rows, d)) /\ Cardinality(ConsumedOn(rows, d)) \in Nat
<1>1. ConsumedOn(rows, d) \subseteq Wakes
    BY DEF ConsumedOn
<1> QED BY <1>1, WakesAssumption, FS_Subset, FS_CardinalityType

LEMMA QuotaShrinks ==
    ASSUME QuotaInv,
           \A w \in Wakes : wake'[w].state = "consumed" =>
               wake[w].state = "consumed" /\ wake'[w].consumedAt = wake[w].consumedAt
    PROVE  QuotaInv'
<1> SUFFICES ASSUME NEW d PROVE Cardinality(ConsumedOn(wake', d)) <= Limit
    BY DEF QuotaInv
<1>1. ConsumedOn(wake', d) \subseteq ConsumedOn(wake, d)
    BY DEF ConsumedOn
<1>2. Cardinality(ConsumedOn(wake', d)) <= Cardinality(ConsumedOn(wake, d))
    BY <1>1, ConsumedOnFinite, FS_Subset
<1> QED BY <1>2, ConsumedOnFinite, NumbersAssumption DEF QuotaInv

LEMMA ClaimQuota ==
    ASSUME TypeOK, QuotaInv, NEW S \in SUBSET Wakes, ClaimTx(S)
    PROVE  QuotaInv'
<1> SUFFICES ASSUME NEW d PROVE Cardinality(ConsumedOn(wake', d)) <= Limit
    BY DEF QuotaInv
<1>1. /\ \A w \in S : wake[w].state = "pending" /\ wake'[w].consumedAt = now
      /\ \A w \in Wakes \ S : wake'[w].state = "consumed" =>
            wake[w].state = "consumed" /\ wake'[w].consumedAt = wake[w].consumedAt
    BY ClaimedType
<1>2. CASE d # Day(now)
    <2>1. ConsumedOn(wake', d) \subseteq ConsumedOn(wake, d)
        BY <1>1, <1>2 DEF ConsumedOn
    <2>2. Cardinality(ConsumedOn(wake', d)) <= Cardinality(ConsumedOn(wake, d))
        BY <2>1, ConsumedOnFinite, FS_Subset
    <2> QED BY <2>2, ConsumedOnFinite, NumbersAssumption DEF QuotaInv
<1>3. CASE d = Day(now)
    <2> DEFINE used == Cardinality(ConsumedOn(wake, d))
    <2>1. ConsumedOn(HoldsReleased(wake), d) = ConsumedOn(wake, d)
        BY HoldsReleasedType DEF ConsumedOn
    <2>2. Cardinality(S) <= IF used < Limit THEN Limit - used ELSE 0
        BY <1>3, <2>1 DEF ClaimTx, IsClaim, Remaining
    <2>3. IsFiniteSet(S) /\ Cardinality(S) \in Nat
        BY WakesAssumption, FS_Subset, FS_CardinalityType
    <2>4. ConsumedOn(wake', d) \subseteq ConsumedOn(wake, d) \cup S
        BY <1>1 DEF ConsumedOn
    <2>5. /\ IsFiniteSet(ConsumedOn(wake, d) \cup S)
          /\ Cardinality(ConsumedOn(wake, d) \cup S) <= used + Cardinality(S)
        <3>1. /\ IsFiniteSet(ConsumedOn(wake, d) \cup S)
              /\ Cardinality(ConsumedOn(wake, d) \cup S) =
                   used + Cardinality(S) - Cardinality(ConsumedOn(wake, d) \cap S)
            BY <2>3, ConsumedOnFinite, FS_Union
        <3>2. Cardinality(ConsumedOn(wake, d) \cap S) \in Nat
            BY <2>3, FS_Subset, FS_CardinalityType
        <3> QED BY <3>1, <3>2, <2>3, ConsumedOnFinite
    <2>6. Cardinality(ConsumedOn(wake', d)) <= Cardinality(ConsumedOn(wake, d) \cup S)
        BY <2>4, <2>5, FS_Subset
    <2>7. used \in Nat /\ used <= Limit
        BY ConsumedOnFinite DEF QuotaInv
    <2>8. Cardinality(ConsumedOn(wake, d) \cup S) \in Nat
        BY <2>5, FS_CardinalityType
    <2> HIDE DEF used
    <2> QED BY <2>2, <2>3, <2>5, <2>6, <2>7, <2>8, ConsumedOnFinite, NumbersAssumption
<1> QED BY <1>2, <1>3

(* No day ever counts more than Limit claimed wakes. *)
THEOREM Quota == Spec => []DailyQuota
<1>1. Init => QuotaInv
    <2> SUFFICES ASSUME Init, NEW d PROVE Cardinality(ConsumedOn(wake, d)) <= Limit
        BY DEF QuotaInv
    <2>1. ConsumedOn(wake, d) = {}
        BY DEF Init, NoRow, ConsumedOn
    <2> QED BY <2>1, FS_EmptySet, NumbersAssumption
<1>2. TypeOK /\ QuotaInv /\ [Next]_vars => QuotaInv'
    <2> SUFFICES ASSUME TypeOK, QuotaInv, [Next]_vars PROVE QuotaInv'
        OBVIOUS
    <2>1. CASE \E S \in SUBSET Wakes : ScanOnce(S) \/ ShutdownDuringScan(S)
        BY <2>1, ClaimQuota DEF ScanOnce, ShutdownDuringScan
    <2>2. CASE \E w \in Wakes, k \in Attempts : TaskStep(w, k)
        <3> PICK w \in Wakes, k \in Attempts : TaskStep(w, k)
            BY <2>2
        <3>1. \A v \in Wakes : wake'[v].state = "consumed" =>
                 wake[v].state = "consumed" /\ wake'[v].consumedAt = wake[v].consumedAt
            BY TaskKinds, DeferMoves DEF Calls, MovesOn, RowMoves
        <3> QED BY <3>1, QuotaShrinks
    <2>3. CASE Surroundings
        BY <2>3, SurroundingsMove, QuotaShrinks DEF RowMoves
    <2> QED BY <2>1, <2>2, <2>3, NextCases
<1>3. QuotaInv => DailyQuota
    BY DEF QuotaInv, DailyQuota
<1> QED BY <1>1, <1>2, <1>3, TypeCorrect, PTL DEF Spec

-----------------------------------------------------------------------------
(* SelfWake implements WakeContract *)

AskedOnce(w) == asked[w] = IF Called(w) THEN 1 ELSE 0

LEMMA AskedCount ==
    ASSUME Inv
    PROVE  \A w \in Wakes : AskedOnce(w)
<1> SUFFICES ASSUME NEW w \in Wakes
             PROVE  Cardinality({k \in Attempts : <<w, k>> \in called})
                      = IF Called(w) THEN 1 ELSE 0
    BY DEF AskedOnce, asked
<1>1. CASE Called(w)
    <2>1. PICK k \in Attempts : <<w, k>> \in called
        BY <1>1 DEF Called
    <2>2. {j \in Attempts : <<w, j>> \in called} = {k}
        BY <2>1 DEF Inv, OneOwner, Owner
    <2> QED BY <1>1, <2>2, FS_Singleton
<1>2. CASE ~Called(w)
    <2>1. {j \in Attempts : <<w, j>> \in called} = {}
        BY <1>2 DEF Called
    <2> QED BY <1>2, <2>1, FS_EmptySet
<1> QED BY <1>1, <1>2

LEMMA PhaseOf ==
    ASSUME TypeOK, NEW w \in Wakes
    PROVE  /\ Called(w) => phase[w] = "called"
           /\ ~Called(w) /\ wake[w].state = "consumed" => phase[w] = "claimed"
           /\ ~Called(w) /\ wake[w].state \in {"invalidated", "expired"} => phase[w] = "closed"
           /\ ~Called(w) /\ wake[w].state = "pending" => phase[w] = "pending"
           /\ ~Called(w) /\ wake[w].state = "none" => phase[w] = "none"
           /\ wake[w].state \in States
BY DEF TypeOK, Rows, States, phase

LEMMA PhaseEdges ==
    ASSUME Inv, Inv', NEW w \in Wakes,
           Called(w) => Called(w)',
           Called(w)' /\ ~Called(w) => wake[w].state = "consumed",
           \/ RowMoves(w)
           \/ wake[w].state = "pending" /\ wake'[w].state = "consumed"
           \/ wake[w].state = "consumed" /\ wake'[w].state \in {"pending", "invalidated"}
    PROVE  phase'[w] # phase[w] => <<phase[w], phase'[w]>> \in Contract!Edges
<1>1. /\ Called(w)' => phase'[w] = "called"
      /\ ~Called(w)' /\ wake'[w].state = "consumed" => phase'[w] = "claimed"
      /\ ~Called(w)' /\ wake'[w].state \in {"invalidated", "expired"} => phase'[w] = "closed"
      /\ ~Called(w)' /\ wake'[w].state = "pending" => phase'[w] = "pending"
      /\ ~Called(w)' /\ wake'[w].state = "none" => phase'[w] = "none"
      /\ wake'[w].state \in States
    BY DEF Inv, TypeOK, Rows, States, phase
<1> QED BY <1>1, PhaseOf DEF Inv, RowMoves, States, Contract!Edges

LEMMA StepEdges ==
    ASSUME Inv, Inv', [Next]_vars, NEW w \in Wakes
    PROVE  phase'[w] # phase[w] => <<phase[w], phase'[w]>> \in Contract!Edges
<1>1. Called(w) => Called(w)'
    BY CalledGrows DEF Inv, Called
<1>2. CASE \E S \in SUBSET Wakes : ScanOnce(S) \/ ShutdownDuringScan(S)
    <2> PICK S \in SUBSET Wakes : ScanOnce(S) \/ ShutdownDuringScan(S)
        BY <1>2
    <2>1. ClaimTx(S) /\ called' = called
        BY DEF ScanOnce, ShutdownDuringScan
    <2>2. \/ RowMoves(w)
          \/ wake[w].state = "pending" /\ wake'[w].state = "consumed"
        BY <2>1, ClaimedType DEF Inv, RowMoves
    <2> QED BY <1>1, <2>1, <2>2, PhaseEdges DEF Called
<1>3. CASE \E v \in Wakes, k \in Attempts : TaskStep(v, k)
    <2> PICK v \in Wakes, k \in Attempts : TaskStep(v, k)
        BY <1>3
    <2>1. CASE Calls(v, k)
        <3>1. wake' = wake /\ (Called(w)' /\ ~Called(w) => w = v)
            BY <2>1 DEF Calls, Called
        <3>2. wake[v].state = "consumed"
            BY <2>1 DEF Calls, Inv, OwnedIsConsumed, Owner
        <3> QED BY <1>1, <3>1, <3>2, PhaseEdges DEF RowMoves
    <2>2. CASE DeferUnstarted(v, k)
        <3>1. /\ called' = called
              /\ \/ RowMoves(w)
                 \/ wake[w].state = "consumed" /\ wake'[w].state \in {"pending", "invalidated"}
            BY <2>2, DeferMoves DEF DeferUnstarted, Inv, RowMoves
        <3> QED BY <1>1, <3>1, PhaseEdges DEF Called
    <2>3. CASE MovesOn(v, k)
        BY <1>1, <2>3, PhaseEdges DEF MovesOn, Called
    <2> QED BY <2>1, <2>2, <2>3, TaskKinds DEF Inv
<1>4. CASE Surroundings
    BY <1>1, <1>4, SurroundingsMove, PhaseEdges DEF Inv, Called
<1> QED BY <1>2, <1>3, <1>4, NextCases

AskedMatchesPhase ==
    /\ asked = [w \in Wakes |-> IF phase[w] = "called" THEN 1 ELSE 0]
    /\ phase \in [Wakes -> Contract!Phases]

LEMMA AskedType == Inv => AskedMatchesPhase
<1> SUFFICES ASSUME Inv PROVE AskedMatchesPhase
    OBVIOUS
<1>1. \A w \in Wakes : phase[w] \in Contract!Phases /\ (phase[w] = "called" <=> Called(w))
    BY PhaseOf DEF Inv, States, Contract!Phases
<1>2. asked = [w \in Wakes |-> asked[w]] /\ phase = [w \in Wakes |-> phase[w]]
    BY DEF asked, phase
<1> QED BY <1>1, <1>2, AskedCount DEF AskedOnce, AskedMatchesPhase

(* Every step of the rows and tasks is a step of the contract, or none. *)
THEOREM Refinement == Spec => Implements
<1>1. Init => Contract!Init
    <2> SUFFICES ASSUME Init PROVE Contract!Init
        OBVIOUS
    <2>1. \A w \in Wakes : ~Called(w) /\ wake[w].state = "none"
        BY DEF Init, Called, NoRow
    <2>2. \A w \in Wakes : phase[w] = "none"
        BY <2>1, InitInv, PhaseOf DEF Inv
    <2>3. phase = [w \in Wakes |-> "none"]
        BY <2>2 DEF phase
    <2>4. asked = [w \in Wakes |-> 0]
        BY <2>2, InitInv, AskedType DEF AskedMatchesPhase
    <2> QED BY <2>3, <2>4 DEF Contract!Init
<1>2. Inv /\ Inv' /\ AskedMatchesPhase' /\ [Next]_vars => [Contract!Move]_(Contract!vars)
    <2> SUFFICES ASSUME Inv, Inv', AskedMatchesPhase', [Next]_vars PROVE Contract!Move
        OBVIOUS
    <2>1. \A w \in Wakes : phase'[w] # phase[w] => <<phase[w], phase'[w]>> \in Contract!Edges
        BY StepEdges
    <2>2. /\ phase' \in [Wakes -> Contract!Phases]
          /\ asked' = [w \in Wakes |-> IF phase'[w] = "called" THEN 1 ELSE 0]
        BY DEF AskedMatchesPhase
    <2> QED BY <2>1, <2>2 DEF Contract!Move
<1> QED BY <1>1, <1>2, AskedType, Invariance, PTL DEF Spec, Implements, Contract!Spec
=============================================================================
