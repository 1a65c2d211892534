------------------------- MODULE SelfWakeRowsProofs -------------------------
(***************************************************************************)
(* What the rows of Self-Wake say of each other, of their conversation, of *)
(* their reply and of their time.                                          *)
(*                                                                         *)
(* The argument: a row is written once with its origin; only a new row and *)
(* the claim that is undone become pending, and both look for another      *)
(* pending row of that origin first.  A rollover moves every row that may  *)
(* still speak; the window it moves them to is never one it left.          *)
(***************************************************************************)
EXTENDS SelfWakeProofs

(* What a row was scheduled with, and how it ended.                        *)
Same(w) ==
    /\ wake'[w].origin = wake[w].origin
    /\ wake'[w].conv = wake[w].conv
    /\ wake'[w].outcome = wake[w].outcome

(* No row becomes one that may speak.                                      *)
Fades(w) ==
    /\ wake'[w].state = "pending" => wake[w].state = "pending"
    /\ wake'[w].state = "consumed" => wake[w].state \in {"pending", "consumed"}

Settled(w) == Same(w) /\ Fades(w)

LEMMA ReleasedSame ==
    ASSUME TypeOK, NEW w \in Wakes
    PROVE  LET row == HoldsReleased(wake)[w]
           IN  /\ row.state = wake[w].state /\ row.wakeAt = wake[w].wakeAt
               /\ row.origin = wake[w].origin /\ row.conv = wake[w].conv
               /\ row.outcome = wake[w].outcome
<1>1. wake[w] \in Rows
    BY DEF TypeOK
<1>2. \/ HoldsReleased(wake)[w] = wake[w]
      \/ \E e : HoldsReleased(wake)[w] = [wake[w] EXCEPT !.expiresAt = e]
    BY DEF HoldsReleased
<1> QED BY <1>1, <1>2 DEF Rows

LEMMA ClaimSettled ==
    ASSUME TypeOK, NEW S \in SUBSET Wakes, ClaimTx(S)
    PROVE  \A w \in Wakes : Settled(w)
<1> DEFINE rows == HoldsReleased(wake)
<1> SUFFICES ASSUME NEW w \in Wakes PROVE Settled(w)
    OBVIOUS
<1>1. /\ rows[w] \in Rows /\ rows[w].state = wake[w].state
      /\ rows[w].origin = wake[w].origin /\ rows[w].conv = wake[w].conv
      /\ rows[w].outcome = wake[w].outcome
    BY HoldsReleasedType, ReleasedSame
<1>2. wake' = Claimed(rows, S) /\ S \subseteq Due(rows)
    BY DEF ClaimTx, IsClaim
<1> HIDE DEF rows
<1>3. wake'[w] \in {[rows[w] EXCEPT !.state = "consumed", !.consumedAt = now],
                    [rows[w] EXCEPT !.state = "expired"], rows[w]}
    BY <1>2 DEF Claimed
<1>4. Same(w)
    BY <1>1, <1>3 DEF Same, Rows
<1>5. wake'[w].state = "pending" => wake[w].state = "pending"
    BY <1>1, <1>3 DEF Rows
<1>6. wake'[w].state = "consumed" => wake[w].state \in {"pending", "consumed"}
    <2>1. CASE w \in S
        BY <1>1, <1>2, <2>1 DEF Due, Pending
    <2>2. CASE w \notin S
        <3>1. wake'[w] \in {[rows[w] EXCEPT !.state = "expired"], rows[w]}
            BY <1>2, <2>2 DEF Claimed
        <3> QED BY <1>1, <3>1 DEF Rows
    <2> QED BY <2>1, <2>2
<1> QED BY <1>4, <1>5, <1>6 DEF Settled, Fades

(* Steps that write no row, or only end some.                              *)
Plain ==
    \/ \E c \in Convs, w \in Wakes : CancelPending(c, w)
    \/ \E c \in Convs : DeleteConversation(c)
    \/ \E r \in Tasks : DeleteMessage(r)
    \/ Reload
    \/ ScanHeld
    \/ Shutdown \/ Exit \/ Crash \/ Restart
    \/ TogetherActivate \/ TogetherLapse \/ TogetherFinish
    \/ TickReleases \/ TickDrains
    \/ ClockTick
    \/ UNCHANGED vars

LEMMA PlainSettled ==
    ASSUME TypeOK, Plain
    PROVE  \A w \in Wakes : Settled(w)
<1> SUFFICES ASSUME NEW v \in Wakes PROVE Settled(v)
    OBVIOUS
<1>0. wake[v] \in Rows
    BY DEF TypeOK
<1>1. CASE wake' = wake
    BY <1>1 DEF Settled, Same, Fades
<1>2. ASSUME NEW c \in Convs, NEW w \in Wakes, CancelPending(c, w) PROVE Settled(v)
    <2>1. wake'[v] = wake[v] \/ wake'[v] = [wake[v] EXCEPT !.state = "invalidated"]
        BY <1>2 DEF CancelPending, SetState, TypeOK
    <2> QED BY <1>0, <2>1 DEF Settled, Same, Fades, Rows
<1>3. ASSUME NEW c \in Convs, DeleteConversation(c) PROVE Settled(v)
    <2>1. wake'[v] = wake[v] \/ wake'[v] = [wake[v] EXCEPT !.state = "invalidated"]
        BY <1>3 DEF DeleteConversation
    <2> QED BY <1>0, <2>1 DEF Settled, Same, Fades, Rows
<1>4. CASE wake' = HoldsReleased(wake)
    BY <1>4, ReleasedSame DEF Settled, Same, Fades
<1>5. CASE TogetherFinish \/ TickReleases
    BY <1>4, <1>5 DEF TogetherFinish, TickReleases
<1>6. CASE (\E r \in Tasks : DeleteMessage(r)) \/ Reload \/ ScanHeld \/ Shutdown \/ Exit
           \/ Crash \/ Restart \/ TogetherActivate \/ TogetherLapse \/ TickDrains \/ ClockTick
           \/ UNCHANGED vars
    BY <1>1, <1>6 DEF DeleteMessage, Reload, ScanHeld, Shutdown, Exit, Crash, Restart, TogetherActivate, TogetherLapse,
                      TickDrains, ClockTick, tables, vars
<1> QED BY <1>2, <1>3, <1>5, <1>6 DEF Plain

(* Steps of a task that write no row.                                      *)
Quiet(w, k) ==
    \/ Prepare(w, k) \/ PrepareFails(w, k) \/ CheckTogether(w, k) \/ DeferRefused(w, k)
    \/ CallSilent(w, k) \/ CallReplies(w, k)
    \/ PersistVisible(w, k) \/ PersistFails(w, k) \/ Cleanup(w, k)

LEMMA QuietSettled ==
    ASSUME NEW w \in Wakes, NEW k \in Attempts, Quiet(w, k)
    PROVE  \A v \in Wakes : Settled(v)
<1>1. wake' = wake
    BY DEF Quiet, Prepare, PrepareFails, CheckTogether, DeferRefused, CallSilent, CallReplies,
           PersistVisible, PersistFails, Cleanup, tables
<1> QED BY <1>1 DEF Settled, Same, Fades

(* Undoing a claim, the row becomes pending only if its origin has no      *)
(* other pending row.                                                      *)
LEMMA UndoneRows ==
    ASSUME TypeOK, NEW w \in Wakes, NEW k \in Attempts, DeferUnstarted(w, k)
    PROVE  /\ \A v \in Wakes : Same(v)
           /\ \A v \in Wakes \ {w} : wake'[v] = wake[v]
           /\ wake'[w] = wake[w] \/ wake[w].state = "consumed"
           /\ wake'[w].state = "pending" /\ wake'[w] # wake[w] => ~HasNewer(w)
           /\ wake'[w].state = "consumed" => wake'[w] = wake[w]
<1>1. CASE Undoable(w)
    <2>1. wake' = [wake EXCEPT ![w] = [wake[w] EXCEPT
                      !.state = IF HasNewer(w) THEN "invalidated" ELSE "pending", !.consumedAt = Never]]
        BY <1>1 DEF DeferUnstarted, Undone, TypeOK
    <2>2. wake[w] \in Rows /\ wake[w].state = "consumed"
        BY <1>1 DEF TypeOK, Undoable
    <2>3. \A v \in Wakes \ {w} : wake'[v] = wake[v]
        BY <2>1 DEF TypeOK
    <2>4. /\ wake'[w].state = IF HasNewer(w) THEN "invalidated" ELSE "pending"
          /\ Same(w)
        BY <2>1, <2>2 DEF Same, Rows, TypeOK
    <2> QED BY <2>2, <2>3, <2>4 DEF Same
<1>2. CASE ~Undoable(w)
    BY <1>2 DEF DeferUnstarted, Same
<1> QED BY <1>1, <1>2

(* Ending, a task writes how, and nothing else.                            *)
LEMMA ConcludedRows ==
    ASSUME TypeOK, NEW w \in Wakes, NEW k \in Attempts, Conclude(w, k)
    PROVE  /\ \A v \in Wakes : /\ wake'[v].state = wake[v].state
                               /\ wake'[v].origin = wake[v].origin
                               /\ wake'[v].conv = wake[v].conv
           /\ \A v \in Wakes \ {w} : wake'[v] = wake[v]
           /\ \/ wake'[w].outcome = wake[w].outcome
              \/ wake'[w].outcome = "succeeded" => pc[w][k] = "replied"
<1>1. PICK end \in Ends : Goto(w, k, end[1], "cleanup") /\ wake' = Finished(w, end[2])
    BY DEF Conclude
<1>2. \/ wake' = wake
      \/ wake' = [wake EXCEPT ![w] = [wake[w] EXCEPT !.outcome = end[2]]]
    BY <1>1 DEF Finished, TypeOK
<1>3. wake[w] \in Rows /\ \A v \in Wakes : wake[v] \in Rows
    BY DEF TypeOK
<1>4. end[2] = "succeeded" => pc[w][k] = "replied"
    BY <1>1 DEF Goto, Ends
<1>5. CASE wake' = wake
    BY <1>5
<1>6. CASE wake' = [wake EXCEPT ![w] = [wake[w] EXCEPT !.outcome = end[2]]]
    <2>1. /\ wake'[w] = [wake[w] EXCEPT !.outcome = end[2]]
          /\ \A v \in Wakes \ {w} : wake'[v] = wake[v]
        BY <1>6 DEF TypeOK
    <2>2. /\ wake'[w].state = wake[w].state /\ wake'[w].origin = wake[w].origin
          /\ wake'[w].conv = wake[w].conv /\ wake'[w].outcome = end[2]
        BY <1>3, <2>1 DEF Rows
    <2> QED BY <1>4, <2>1, <2>2
<1> QED BY <1>2, <1>5, <1>6

-----------------------------------------------------------------------------
(* One pending row for each origin *)

LEMMA PendingStep == TypeOK /\ OnePendingPerOrigin /\ [Next]_vars => OnePendingPerOrigin'
<1> SUFFICES ASSUME TypeOK, OnePendingPerOrigin, [Next]_vars PROVE OnePendingPerOrigin'
    OBVIOUS
<1>1. CASE \A w \in Wakes : Settled(w)
    BY <1>1 DEF OnePendingPerOrigin, Pending, Settled, Same, Fades
<1>2. ASSUME NEW c \in Convs, NEW w \in Wakes, ScheduleOrReplace(c, w) PROVE OnePendingPerOrigin'
    <2>1. PICK rows \in Replacements(c), at \in (now + 1)..(now + Horizon) :
             /\ \A v \in Pending(rows) : rows[v].origin # c
             /\ wake' = [rows EXCEPT ![w] = NewRow(c, at)]
        BY <1>2 DEF ScheduleOrReplace
    <2>2. /\ rows \in [Wakes -> Rows]
          /\ \A v \in Wakes : /\ rows[v].origin = wake[v].origin
                              /\ rows[v].state = "pending" => wake[v].state = "pending"
        <3>1. CASE rows = wake
            BY <3>1 DEF TypeOK
        <3>2. CASE rows # wake
            <4>1. PICK old \in PendingIn(wake, c) : rows = SetState(wake, old, "invalidated")
                BY <3>2 DEF Replacements
            <4>2. old \in Wakes /\ wake[old] \in Rows
                BY DEF PendingIn, Pending, TypeOK
            <4>3. rows = [wake EXCEPT ![old] = [wake[old] EXCEPT !.state = "invalidated"]]
                BY <4>1, <4>2 DEF SetState, TypeOK
            <4>4. [wake[old] EXCEPT !.state = "invalidated"] \in Rows
                BY <4>2 DEF Rows, States
            <4> QED BY <4>2, <4>3, <4>4 DEF TypeOK, Rows
        <3> QED BY <3>1, <3>2
    <2>3. /\ wake'[w].origin = c
          /\ \A v \in Wakes \ {w} : wake'[v] = rows[v]
        BY <2>1, <2>2 DEF NewRow
    <2>4. \A v \in Pending(wake)' \ {w} : v \in Pending(rows) /\ v \in Pending(wake) /\ wake'[v].origin = wake[v].origin /\ wake'[v].origin # c
        BY <2>1, <2>2, <2>3 DEF Pending
    <2> QED BY <2>3, <2>4 DEF OnePendingPerOrigin
<1>3. ASSUME NEW c \in Convs, Rollover(c) PROVE OnePendingPerOrigin'
    <2>1. ASSUME NEW v \in Wakes
          PROVE  wake'[v].origin = wake[v].origin /\ wake'[v].state = wake[v].state
        <3>1. wake[v] \in Rows
            BY DEF TypeOK
        <3>2. wake'[v] = wake[v] \/ wake'[v] = [wake[v] EXCEPT !.conv = c]
            BY <1>3 DEF Rollover, Carried
        <3> QED BY <3>1, <3>2 DEF Rows
    <2> QED BY <2>1 DEF OnePendingPerOrigin, Pending
<1>4. ASSUME NEW w \in Wakes, NEW k \in Attempts, DeferUnstarted(w, k) PROVE OnePendingPerOrigin'
    <2>1. /\ \A v \in Wakes : Same(v)
          /\ \A v \in Wakes \ {w} : wake'[v] = wake[v]
          /\ wake'[w].state = "pending" /\ wake'[w] # wake[w] => ~HasNewer(w)
        BY <1>4, UndoneRows
    <2>2. CASE wake'[w] = wake[w]
        BY <2>1, <2>2 DEF OnePendingPerOrigin, Pending
    <2>3. CASE wake'[w] # wake[w] /\ wake'[w].state = "pending"
        <3>1. \A v \in Pending(wake) : wake[v].origin # wake[w].origin
            BY <2>1, <2>3 DEF HasNewer
        <3> QED BY <2>1, <3>1 DEF OnePendingPerOrigin, Pending, Same
    <2>4. CASE wake'[w].state # "pending"
        BY <2>1, <2>4 DEF OnePendingPerOrigin, Pending
    <2> QED BY <2>2, <2>3, <2>4
<1>5. ASSUME NEW w \in Wakes, NEW k \in Attempts, Conclude(w, k) PROVE OnePendingPerOrigin'
    BY <1>5, ConcludedRows DEF OnePendingPerOrigin, Pending
<1>6. ASSUME NEW w \in Wakes, NEW k \in Attempts, TaskStep(w, k) PROVE OnePendingPerOrigin'
    <2>1. Quiet(w, k) \/ DeferUnstarted(w, k) \/ Conclude(w, k)
        BY <1>6 DEF TaskStep, Quiet
    <2> QED BY <1>1, <1>4, <1>5, <2>1, QuietSettled
<1>7. ASSUME NEW S \in SUBSET Wakes, ScanOnce(S) \/ ShutdownDuringScan(S) PROVE OnePendingPerOrigin'
    BY <1>1, <1>7, ClaimSettled DEF ScanOnce, ShutdownDuringScan
<1>8. CASE Plain
    BY <1>1, <1>8, PlainSettled
<1> QED BY <1>2, <1>3, <1>6, <1>7, <1>8 DEF Next, Plain

(* Two pending wakes never share an origin_ref, also when a claim is       *)
(* handed back (schedule_or_replace, defer_unstarted).                     *)
THEOREM OnePending == Spec => []OnePendingPerOrigin
<1>1. Init => OnePendingPerOrigin
    BY DEF Init, OnePendingPerOrigin, Pending, NoRow
<1> QED BY <1>1, PendingStep, TypeCorrect, PTL DEF Spec

-----------------------------------------------------------------------------
(* The conversation a row names *)

(* Daily chat's window of today is not one it has left.                    *)
TargetKept == current \notin retired

(* Only a rollover retires a window.                                       *)
LEMMA ConvsKept ==
    ASSUME [Next]_vars, \A c \in Convs : ~Rollover(c)
    PROVE  UNCHANGED <<current, retired>>
<1>1. ASSUME NEW w \in Wakes, NEW k \in Attempts, TaskStep(w, k) PROVE UNCHANGED <<current, retired>>
    BY <1>1 DEF TaskStep, Prepare, PrepareFails, CheckTogether, DeferRefused, DeferUnstarted, CallSilent,
                CallReplies, PersistVisible, PersistFails, Conclude, Cleanup, convVars
<1>2. ASSUME NEW S \in SUBSET Wakes, ScanOnce(S) \/ ShutdownDuringScan(S)
      PROVE  UNCHANGED <<current, retired>>
    BY <1>2 DEF ScanOnce, ShutdownDuringScan, convVars
<1>3. ASSUME NEW c \in Convs, NEW w \in Wakes, ScheduleOrReplace(c, w) \/ CancelPending(c, w)
      PROVE  UNCHANGED <<current, retired>>
    BY <1>3 DEF ScheduleOrReplace, CancelPending, convVars
<1>4. ASSUME NEW c \in Convs, DeleteConversation(c) PROVE UNCHANGED <<current, retired>>
    BY <1>4 DEF DeleteConversation
<1>5. CASE (\E r \in Tasks : DeleteMessage(r)) \/ Reload \/ ScanHeld \/ Shutdown \/ Exit \/ Crash
           \/ Restart \/ TogetherActivate \/ TogetherLapse
           \/ TogetherFinish \/ TickReleases \/ TickDrains \/ ClockTick \/ UNCHANGED vars
    BY <1>5 DEF DeleteMessage, Reload, ScanHeld, Shutdown, Exit, Crash, Restart, TogetherActivate,
                TogetherLapse, TogetherFinish, TickReleases, TickDrains, ClockTick, convVars, vars
<1> QED BY <1>1, <1>2, <1>3, <1>4, <1>5 DEF Next

(* The step in which a row may come to name a retired window.              *)
NoStray(w) == w \in Strays' => w \in Strays \/ (wake[w].state = "none" /\ known # Stored)

LEMMA SettledNoStray ==
    ASSUME UNCHANGED <<current, retired>>, NEW w \in Wakes, Settled(w)
    PROVE  NoStray(w)
BY DEF NoStray, Strays, Settled, Same, Fades

(* A window the process has not heard of is the only one it can be wrong   *)
(* about: with the redirects that are stored a new row names today's.      *)
LEMMA ScheduledStray ==
    ASSUME TypeOK, TargetKept, NEW c \in Convs, NEW w \in Wakes, ScheduleOrReplace(c, w)
    PROVE  \A v \in Wakes : NoStray(v)
<1>1. UNCHANGED <<current, retired>> /\ wake[w].state = "none"
    BY DEF ScheduleOrReplace, convVars
<1>2. PICK rows \in Replacements(c), at \in (now + 1)..(now + Horizon) :
         wake' = [rows EXCEPT ![w] = NewRow(c, at)]
    BY DEF ScheduleOrReplace
<1>3. /\ rows \in [Wakes -> Rows]
      /\ \A v \in Wakes :
            /\ rows[v].conv = wake[v].conv
            /\ rows[v].state \in {"pending", "consumed"} => wake[v].state = rows[v].state
    <2>1. CASE rows = wake
        BY <2>1 DEF TypeOK
    <2>2. CASE rows # wake
        <3>1. PICK old \in PendingIn(wake, c) : rows = SetState(wake, old, "invalidated")
            BY <2>2 DEF Replacements
        <3>2. old \in Wakes /\ wake[old] \in Rows
            BY DEF PendingIn, Pending, TypeOK
        <3>3. rows = [wake EXCEPT ![old] = [wake[old] EXCEPT !.state = "invalidated"]]
            BY <3>1, <3>2 DEF SetState, TypeOK
        <3>4. [wake[old] EXCEPT !.state = "invalidated"] \in Rows
            BY <3>2 DEF Rows, States
        <3> QED BY <3>2, <3>3, <3>4 DEF TypeOK, Rows
    <2> QED BY <2>1, <2>2
<1>4. wake'[w] = NewRow(c, at) /\ \A v \in Wakes \ {w} : wake'[v] = rows[v]
    BY <1>2, <1>3
<1>5. ASSUME known = Stored PROVE NewRow(c, at).conv \notin retired
    BY <1>5 DEF NewRow, Resolved, Stored, TargetKept
<1> QED BY <1>1, <1>3, <1>4, <1>5 DEF NoStray, Strays

(* A rollover leaves no row behind in any window that is retired then,     *)
(* those included that were scheduled with older redirects.                *)
LEMMA RolloverCollects ==
    ASSUME TypeOK, NEW c \in Convs, Rollover(c)
    PROVE  TargetKept' /\ Strays' = {}
<1>1. PICK previous \in Previous(c) :
         /\ retired' = retired \cup {current} \cup previous
         /\ wake' = Carried(retired', c)
    BY DEF Rollover
<1>2. current' = c /\ c \notin retired \cup {current}
    BY DEF Rollover
<1>3. c \notin retired'
    BY <1>1, <1>2 DEF Previous
<1>4. ASSUME NEW v \in Wakes, wake'[v].state \in {"pending", "consumed"}
      PROVE  wake'[v].conv \notin retired'
    <2>1. wake[v] \in Rows
        BY DEF TypeOK
    <2>2. CASE wake[v].conv \in retired' /\ wake[v].state \in {"pending", "consumed"}
        <3>1. wake'[v] = [wake[v] EXCEPT !.conv = c]
            BY <1>1, <2>2 DEF Carried
        <3> QED BY <1>3, <2>1, <3>1 DEF Rows
    <2>3. CASE ~(wake[v].conv \in retired' /\ wake[v].state \in {"pending", "consumed"})
        <3>1. wake'[v] = wake[v]
            BY <1>1, <2>3 DEF Carried
        <3> QED BY <1>4, <2>3, <3>1
    <2> QED BY <2>2, <2>3
<1> QED BY <1>2, <1>3, <1>4 DEF TargetKept, Strays

LEMMA StrayStep ==
    ASSUME TypeOK, TargetKept, [Next]_vars
    PROVE  /\ TargetKept'
           /\ current' # current => Strays' = {}
           /\ \A v \in Wakes : NoStray(v)
<1>1. ASSUME UNCHANGED <<current, retired>>, \A v \in Wakes : NoStray(v)
      PROVE  /\ TargetKept'
             /\ current' # current => Strays' = {}
             /\ \A v \in Wakes : NoStray(v)
    BY <1>1 DEF TargetKept
<1>2. CASE \E c \in Convs : Rollover(c)
    BY <1>2, RolloverCollects DEF NoStray
<1>3. CASE \A c \in Convs : ~Rollover(c)
    <2>1. UNCHANGED <<current, retired>>
        BY <1>3, ConvsKept
    <2>2. ASSUME NEW c \in Convs, NEW w \in Wakes, ScheduleOrReplace(c, w)
          PROVE  \A v \in Wakes : NoStray(v)
        BY <2>2, ScheduledStray
    <2>3. ASSUME NEW w \in Wakes, NEW k \in Attempts, TaskStep(w, k)
          PROVE  \A v \in Wakes : NoStray(v)
        <3>1. CASE Quiet(w, k)
            BY <2>1, <3>1, QuietSettled, SettledNoStray
        <3>2. CASE DeferUnstarted(w, k)
            <4>1. \A v \in Wakes : /\ wake'[v].conv = wake[v].conv
                                   /\ wake'[v].state \in {"pending", "consumed"}
                                        => wake[v].state \in {"pending", "consumed"}
                BY <3>2, UndoneRows DEF Same
            <4> QED BY <2>1, <4>1 DEF NoStray, Strays
        <3>3. CASE Conclude(w, k)
            BY <2>1, <3>3, ConcludedRows DEF NoStray, Strays
        <3> QED BY <2>3, <3>1, <3>2, <3>3 DEF TaskStep, Quiet
    <2>4. ASSUME NEW S \in SUBSET Wakes, ScanOnce(S) \/ ShutdownDuringScan(S)
          PROVE  \A v \in Wakes : NoStray(v)
        BY <2>1, <2>4, ClaimSettled, SettledNoStray DEF ScanOnce, ShutdownDuringScan
    <2>5. ASSUME Plain PROVE \A v \in Wakes : NoStray(v)
        BY <2>1, <2>5, PlainSettled, SettledNoStray
    <2> QED BY <1>1, <1>3, <2>1, <2>2, <2>3, <2>4, <2>5 DEF Next, Plain
<1> QED BY <1>2, <1>3

(* A wake that may still speak comes to name a window daily chat has left  *)
(* behind only as a new row scheduled with redirects older than the        *)
(* rollover, and no rollover leaves one behind (_rollover,                 *)
(* _carry_live_state, _load_cache).                                        *)
THEOREM NoneLeftBehind == Spec => CarriedAlong
<1>1. Init => TargetKept
    BY DEF Init, TargetKept
<1>2. TypeOK /\ TargetKept /\ [Next]_vars => TargetKept'
    BY StrayStep
<1>3. TypeOK /\ TargetKept /\ [Next]_vars =>
         [ /\ current' # current => Strays' = {}
           /\ \A w \in Strays' \ Strays : wake[w].state = "none" /\ known # Stored ]_vars
    BY StrayStep DEF NoStray, Strays
<1> QED BY <1>1, <1>2, <1>3, TypeCorrect, PTL DEF Spec, CarriedAlong

-----------------------------------------------------------------------------
(* The reply an outcome speaks of *)

Told ==
    /\ SucceededReplied
    /\ \A w \in Wakes, k \in Attempts : pc[w][k] = "replied" => <<w, k>> \in Replies

(* Outside the tasks, only a new row changes how it ended.                 *)
LEMMA SurroundingsOutcomes ==
    ASSUME TypeOK, Surroundings, NEW v \in Wakes
    PROVE  \/ wake'[v].outcome = wake[v].outcome
           \/ wake[v].state = "none" /\ wake'[v].outcome = "unfinished"
<1>1. CASE Plain
    BY <1>1, PlainSettled DEF Settled, Same
<1>2. ASSUME NEW c \in Convs, NEW w \in Wakes, ScheduleOrReplace(c, w)
      PROVE  \/ wake'[v].outcome = wake[v].outcome
             \/ wake[v].state = "none" /\ wake'[v].outcome = "unfinished"
    <2>1. PICK rows \in Replacements(c), at \in (now + 1)..(now + Horizon) :
             wake' = [rows EXCEPT ![w] = NewRow(c, at)]
        BY <1>2 DEF ScheduleOrReplace
    <2>2. rows \in [Wakes -> Rows] /\ rows[v].outcome = wake[v].outcome
        <3>1. CASE rows = wake
            BY <3>1 DEF TypeOK
        <3>2. CASE rows # wake
            <4>1. PICK old \in PendingIn(wake, c) : rows = SetState(wake, old, "invalidated")
                BY <3>2 DEF Replacements
            <4>2. old \in Wakes /\ wake[old] \in Rows
                BY DEF PendingIn, Pending, TypeOK
            <4>3. rows = [wake EXCEPT ![old] = [wake[old] EXCEPT !.state = "invalidated"]]
                BY <4>1, <4>2 DEF SetState, TypeOK
            <4>4. [wake[old] EXCEPT !.state = "invalidated"] \in Rows
                BY <4>2 DEF Rows, States
            <4> QED BY <4>2, <4>3, <4>4 DEF TypeOK, Rows
        <3> QED BY <3>1, <3>2
    <2>3. v # w => wake'[v] = rows[v]
        BY <2>1, <2>2
    <2>4. /\ NewRow(c, at).outcome = "unfinished"
          /\ v = w => wake'[v] = NewRow(c, at) /\ wake[v].state = "none"
        BY <1>2, <2>1, <2>2 DEF NewRow, ScheduleOrReplace
    <2> QED BY <2>2, <2>3, <2>4
<1>3. ASSUME NEW c \in Convs, Rollover(c)
      PROVE  wake'[v].outcome = wake[v].outcome
    <2>1. wake[v] \in Rows
        BY DEF TypeOK
    <2>2. wake'[v] = wake[v] \/ wake'[v] = [wake[v] EXCEPT !.conv = c]
        BY <1>3 DEF Rollover, Carried
    <2> QED BY <2>1, <2>2 DEF Rows
<1> QED BY <1>1, <1>2, <1>3 DEF Surroundings, Plain

LEMMA ToldStep == TypeOK /\ Told /\ [Next]_vars => Told'
<1> SUFFICES ASSUME TypeOK, Told, [Next]_vars PROVE Told'
    OBVIOUS
<1>1. ASSUME Replies \subseteq Replies',
             \A w \in Wakes : wake'[w].outcome = "succeeded" => wake[w].outcome = "succeeded",
             \A w \in Wakes, k \in Attempts : pc'[w][k] = "replied" => pc[w][k] = "replied"
      PROVE  Told'
    BY <1>1, Zenon DEF Told, SucceededReplied
<1>2. CASE Surroundings
    <2>1. /\ Replies' = Replies
          /\ \A w \in Wakes, k \in Attempts : pc'[w][k] = "replied" => pc[w][k] = "replied"
        BY <1>2, SurroundingsMove
    <2>2. \A w \in Wakes : wake'[w].outcome = "succeeded" => wake[w].outcome = "succeeded"
        BY <1>2, SurroundingsOutcomes
    <2> QED BY <1>1, <2>1, <2>2
<1>3. ASSUME NEW S \in SUBSET Wakes, ScanOnce(S) \/ ShutdownDuringScan(S) PROVE Told'
    <2>1. ClaimTx(S) /\ Replies' = Replies
        BY <1>3 DEF ScanOnce, ShutdownDuringScan, convVars, Replies
    <2>2. \A w \in Wakes, k \in Attempts : pc'[w][k] = "replied" => pc[w][k] = "replied"
        <3> SUFFICES ASSUME NEW w \in Wakes, NEW k \in Attempts, pc'[w][k] = "replied"
                     PROVE  pc[w][k] = "replied"
            OBVIOUS
        <3>1. Cancelled[w] \in [Attempts -> Steps] /\ pc[w] \in [Attempts -> Steps]
            BY DEF TypeOK, Cancelled, Steps
        <3>2. Cancelled[w][k] \in {"cancelled", pc[w][k]}
            BY DEF Cancelled
        <3>3. CASE ScanOnce(S)
            BY <3>1, <3>3 DEF ScanOnce
        <3>4. CASE ShutdownDuringScan(S)
            BY <3>1, <3>2, <3>4 DEF ShutdownDuringScan
        <3> QED BY <1>3, <3>3, <3>4
    <2> QED BY <1>1, <2>1, <2>2, ClaimSettled DEF Settled, Same
<1>4. ASSUME NEW w \in Wakes, NEW k \in Attempts, Quiet(w, k) \/ DeferUnstarted(w, k) PROVE Told'
    <2>1. \A v \in Wakes : wake'[v].outcome = wake[v].outcome
        BY <1>4, QuietSettled, UndoneRows DEF Settled, Same
    <2>2. CASE PersistVisible(w, k)
        <3>1. Replies' = Replies \cup {<<w, k>>}
            BY <2>2 DEF PersistVisible, Delivered, convVars, Replies
        <3>2. \A v \in Wakes, j \in Attempts :
                 pc'[v][j] = "replied" => pc[v][j] = "replied" \/ (v = w /\ j = k)
            BY <2>2, GotoType DEF PersistVisible, Steps
        <3> QED BY <2>1, <3>1, <3>2 DEF Told, SucceededReplied
    <2>3. CASE ~PersistVisible(w, k)
        <3>1. Replies' = Replies
            BY <1>4, <2>3 DEF Quiet, Prepare, PrepareFails, CheckTogether, DeferRefused, CallSilent,
               CallReplies, PersistFails, Cleanup, DeferUnstarted, tables, convVars, Replies
        <3>2. \E from \in Steps, to \in Steps \ {"replied"} : Goto(w, k, from, to)
            BY <1>4, <2>3 DEF Quiet, Prepare, PrepareFails, CheckTogether, DeferRefused, CallSilent,
               CallReplies, PersistFails, Cleanup, DeferUnstarted, Steps
        <3>3. \A v \in Wakes, j \in Attempts : pc'[v][j] = "replied" => pc[v][j] = "replied"
            BY <3>2, GotoType
        <3> QED BY <1>1, <2>1, <3>1, <3>3
    <2> QED BY <2>2, <2>3
<1>5. ASSUME NEW w \in Wakes, NEW k \in Attempts, Conclude(w, k) PROVE Told'
    <2>1. Replies' = Replies /\ \E from : Goto(w, k, from, "cleanup")
        BY <1>5 DEF Conclude, convVars, Replies
    <2>2. \A v \in Wakes, j \in Attempts : pc'[v][j] = "replied" => pc[v][j] = "replied"
        BY <2>1, GotoType DEF Steps
    <2>3. /\ \A v \in Wakes \ {w} : wake'[v] = wake[v]
          /\ \/ wake'[w].outcome = wake[w].outcome
             \/ wake'[w].outcome = "succeeded" => pc[w][k] = "replied"
        BY <1>5, ConcludedRows
    <2>4. CASE wake'[w].outcome = wake[w].outcome
        BY <1>1, <2>1, <2>2, <2>3, <2>4
    <2>5. CASE wake'[w].outcome = "succeeded" => pc[w][k] = "replied"
        BY <2>1, <2>2, <2>3, <2>5 DEF Told, SucceededReplied
    <2> QED BY <2>3, <2>4, <2>5
<1>6. ASSUME NEW w \in Wakes, NEW k \in Attempts, TaskStep(w, k) PROVE Told'
    <2>1. Quiet(w, k) \/ DeferUnstarted(w, k) \/ Conclude(w, k)
        BY <1>6 DEF TaskStep, Quiet
    <2> QED BY <1>4, <1>5, <2>1
<1> QED BY <1>2, <1>3, <1>6, NextCases

(* The outcome 'succeeded' means that the wake's reply is in the chat or   *)
(* kept for it, or that the owner deleted it (_persist_visible_message,    *)
(* finish_trigger, delete_conversation).                                   *)
THEOREM SuccessIsAReply == Spec => []SucceededReplied
<1>1. Init => Told
    BY DEF Init, Told, SucceededReplied, NoRow
<1>2. Told => SucceededReplied
    BY DEF Told
<1> QED BY <1>1, <1>2, ToldStep, TypeCorrect, PTL DEF Spec

-----------------------------------------------------------------------------
(* Companionship: the chat, and the time of the wakes that are held *)

(* Nothing appears in the ordinary chat while companionship is active      *)
(* (defer_in_tx, drain).                                                   *)
THEOREM QuietDuringTogether == Spec => SilentDuringTogether
<1>1. [Next]_vars => [~(chat' \subseteq chat) => ~active]_vars
    <2> SUFFICES ASSUME Next, ~(chat' \subseteq chat) PROVE ~active
        OBVIOUS
    <2>1. ASSUME NEW w \in Wakes, NEW k \in Attempts, TaskStep(w, k) PROVE ~active
        BY <2>1 DEF TaskStep, Prepare, PrepareFails, CheckTogether, DeferRefused, DeferUnstarted, CallSilent,
           CallReplies, PersistVisible, Delivered, PersistFails, Conclude, Cleanup, tables
    <2>2. ASSUME NEW S \in SUBSET Wakes PROVE ~(ScanOnce(S) \/ ShutdownDuringScan(S))
        BY DEF ScanOnce, ShutdownDuringScan
    <2>3. ASSUME NEW c \in Convs, NEW w \in Wakes PROVE ~(ScheduleOrReplace(c, w) \/ CancelPending(c, w))
        BY DEF ScheduleOrReplace, CancelPending
    <2>4. ASSUME NEW c \in Convs PROVE ~(DeleteConversation(c) \/ Rollover(c))
        BY DEF DeleteConversation, Erase, Rollover
    <2>7. ~(Reload \/ \E r \in Tasks : DeleteMessage(r))
        BY DEF DeleteMessage, Reload, Erase, tables
    <2>5. ~(\/ ScanHeld \/ Shutdown \/ Exit \/ Crash \/ Restart \/ TogetherActivate \/ TogetherLapse
            \/ TogetherFinish \/ TickReleases \/ ClockTick)
        BY DEF ScanHeld, Shutdown, Exit, Crash, Restart, TogetherActivate, TogetherLapse,
           TogetherFinish, TickReleases, ClockTick, tables
    <2>6. CASE TickDrains
        BY <2>6 DEF TickDrains
    <2> QED BY <2>1, <2>2, <2>3, <2>4, <2>5, <2>6, <2>7 DEF Next
<1> QED BY <1>1, PTL DEF Spec, SilentDuringTogether

(* Each wake has one hold at most, taken before its grace was used up.     *)
HeldOnce ==
    /\ \A h \in holds : h.started <= now /\ h.started < h.expires
    /\ \A g, h \in holds : g.wake = h.wake => g = h

LEMMA TakenOnce ==
    ASSUME TypeOK, HeldOnce, now' = now, NEW rows \in [Wakes -> Rows], holds' = HoldsTaken(rows)
    PROVE  HeldOnce' /\ holds \subseteq holds'
<1> DEFINE taken == {v \in Pending(rows) : rows[v].expiresAt > now /\ \A h \in holds : h.wake # v}
           new(w) == [wake |-> w, started |-> now, expires |-> rows[w].expiresAt]
<1>1. holds' = holds \cup {new(w) : w \in taken}
    BY DEF HoldsTaken
<1>2. ASSUME NEW w \in taken
      PROVE  /\ new(w).started = now /\ new(w).started < new(w).expires /\ new(w).wake = w
             /\ \A h \in holds : h.wake # w
    <2>1. w \in Wakes /\ rows[w] \in Rows /\ rows[w].expiresAt > now /\ now \in Nat
        BY DEF TypeOK, Pending
    <2> QED BY <2>1 DEF Rows
<1>3. now \in Nat
    BY DEF TypeOK
<1> HIDE DEF taken, new
<1>4. ASSUME NEW h \in holds' PROVE h.started <= now' /\ h.started < h.expires
    BY <1>1, <1>2, <1>3, <1>4 DEF HeldOnce
<1>5. ASSUME NEW g \in holds', NEW h \in holds', g.wake = h.wake PROVE g = h
    <2>1. CASE g \in holds /\ h \in holds
        BY <1>5, <2>1 DEF HeldOnce
    <2>2. CASE g \notin holds /\ h \notin holds
        <3>1. PICK v \in taken, w \in taken : g = new(v) /\ h = new(w)
            BY <1>1, <2>2
        <3> QED BY <1>2, <1>5, <3>1
    <2>3. CASE g \in holds /\ h \notin holds
        <3>1. PICK w \in taken : h = new(w)
            BY <1>1, <2>3
        <3> QED BY <1>2, <1>5, <2>3, <3>1
    <2>4. CASE g \notin holds /\ h \in holds
        <3>1. PICK w \in taken : g = new(w)
            BY <1>1, <2>4
        <3> QED BY <1>2, <1>5, <2>4, <3>1
    <2> QED BY <2>1, <2>2, <2>3, <2>4
<1> QED BY <1>1, <1>4, <1>5 DEF HeldOnce

(* Holds are added for more wakes, or all given back at once, to the rows. *)
HoldSteps ==
    \/ holds \subseteq holds'
    \/ /\ now' = now /\ holds' = {}
       /\ \/ wake' = HoldsReleased(wake)
          \/ \E S \in SUBSET Wakes : wake' = Claimed(HoldsReleased(wake), S)

LEMMA HeldStep == TypeOK /\ HeldOnce /\ [Next]_vars => HeldOnce' /\ HoldSteps
<1> SUFFICES ASSUME TypeOK, HeldOnce, [Next]_vars PROVE HeldOnce' /\ HoldSteps
    OBVIOUS
<1>1. CASE UNCHANGED <<holds, now>>
    BY <1>1 DEF HeldOnce, HoldSteps
<1>2. ASSUME holds' = {} PROVE HeldOnce'
    BY <1>2 DEF HeldOnce
<1>3. CASE ScanHeld \/ TogetherActivate
    BY <1>3, TakenOnce DEF ScanHeld, TogetherActivate, TypeOK, HoldSteps
<1>4. CASE TogetherFinish \/ TickReleases
    BY <1>2, <1>4 DEF TogetherFinish, TickReleases, HoldSteps
<1>5. ASSUME NEW S \in SUBSET Wakes, ScanOnce(S) \/ ShutdownDuringScan(S) PROVE HeldOnce' /\ HoldSteps
    <2>1. ClaimTx(S) /\ now' = now
        BY <1>5 DEF ScanOnce, ShutdownDuringScan
    <2> QED BY <1>2, <2>1 DEF ClaimTx, HoldSteps
<1>6. ASSUME NEW w \in Wakes, NEW k \in Attempts, DeferUnstarted(w, k) PROVE HeldOnce' /\ HoldSteps
    <2>1. CASE Undoable(w)
        <3>1. wake' \in [Wakes -> Rows]
            BY <1>6, DeferMoves
        <3>2. holds' = HoldsTaken(wake') /\ now' = now
            BY <1>6, <2>1 DEF DeferUnstarted
        <3> QED BY <3>1, <3>2, TakenOnce DEF HoldSteps
    <2>2. CASE ~Undoable(w)
        BY <1>1, <1>6, <2>2 DEF DeferUnstarted
    <2> QED BY <2>1, <2>2
<1>7. ASSUME NEW w \in Wakes, NEW k \in Attempts, Quiet(w, k) \/ Conclude(w, k) PROVE HeldOnce' /\ HoldSteps
    <2>1. CASE Quiet(w, k)
        BY <1>1, <2>1 DEF Quiet, Prepare, PrepareFails, CheckTogether, DeferRefused, CallSilent, CallReplies,
           PersistVisible, PersistFails, Cleanup, tables
    <2>2. CASE Conclude(w, k)
        BY <1>1, <2>2 DEF Conclude
    <2> QED BY <1>7, <2>1, <2>2
<1>8. ASSUME NEW c \in Convs, NEW w \in Wakes, ScheduleOrReplace(c, w) \/ CancelPending(c, w)
      PROVE  HeldOnce' /\ HoldSteps
    BY <1>1, <1>8 DEF ScheduleOrReplace, CancelPending
<1>9. ASSUME NEW c \in Convs, DeleteConversation(c) \/ Rollover(c) PROVE HeldOnce' /\ HoldSteps
    BY <1>1, <1>9 DEF DeleteConversation, Rollover
<1>10. CASE (\E r \in Tasks : DeleteMessage(r)) \/ Reload \/ Shutdown \/ Exit \/ Crash \/ Restart
            \/ TogetherLapse \/ TickDrains \/ UNCHANGED vars
    BY <1>1, <1>10 DEF DeleteMessage, Reload, Shutdown, Exit, Crash, Restart, TogetherLapse, TickDrains, tables, vars
<1>11. CASE ClockTick
    <2>1. holds' = holds /\ now' = now + 1 /\ now \in Nat
        BY <1>11 DEF ClockTick, tables, TypeOK
    <2>2. \A h \in holds : h.started \in Nat
        BY DEF TypeOK, Holds
    <2> QED BY <2>1, <2>2 DEF HeldOnce, HoldSteps
<1>12. ASSUME NEW w \in Wakes, NEW k \in Attempts, TaskStep(w, k) PROVE HeldOnce' /\ HoldSteps
    <2>1. Quiet(w, k) \/ DeferUnstarted(w, k) \/ Conclude(w, k)
        BY <1>12 DEF TaskStep, Quiet
    <2> QED BY <1>6, <1>7, <2>1
<1>13. CASE Surroundings
    BY <1>3, <1>4, <1>8, <1>9, <1>10, <1>11, <1>13, Zenon DEF Surroundings
<1> QED BY <1>5, <1>12, <1>13, NextCases, Zenon

(* A held wake gets back the minutes it had left, whichever transaction    *)
(* releases it (sync_holds_in_tx, release_holds_in_tx).                    *)
THEOREM GraceIsKept == Spec => HoldsPreserveGrace
<1> DEFINE Kept == \A h \in holds :
              h \notin holds' /\ wake[h.wake].state = "pending" =>
                  /\ wake'[h.wake].expiresAt - now' = h.expires - h.started
                  /\ wake'[h.wake].state = "expired" => wake[h.wake].wakeAt <= now
<1>1. TypeOK /\ HeldOnce /\ [Next]_vars => [Kept]_vars
    <2> SUFFICES ASSUME TypeOK, HeldOnce, HoldSteps,
                        NEW h \in holds, h \notin holds', wake[h.wake].state = "pending"
                 PROVE  /\ wake'[h.wake].expiresAt - now' = h.expires - h.started
                        /\ wake'[h.wake].state = "expired" => wake[h.wake].wakeAt <= now
        BY HeldStep
    <2> DEFINE w == h.wake
               row == HoldsReleased(wake)[w]
    <2>1. /\ w \in Wakes /\ wake[w] \in Rows /\ h.started \in Nat /\ h.expires \in Nat /\ now \in Nat
          /\ h.started <= now /\ h.started < h.expires
        BY DEF TypeOK, Holds, HeldOnce
    <2>2. (CHOOSE x \in holds : x.wake = w) = h
        BY DEF HeldOnce
    <2>3. Elapsed(h) = now - h.started
        BY <2>1 DEF Elapsed
    <2>4. row = [wake[w] EXCEPT !.expiresAt = h.expires + (now - h.started)]
        BY <2>1, <2>2, <2>3 DEF HoldsReleased
    <2>5. /\ row.expiresAt = h.expires + (now - h.started) /\ row.state = "pending"
          /\ row.wakeAt = wake[w].wakeAt /\ row.expiresAt > now
        BY <2>1, <2>4 DEF Rows
    <2>6. row \in Rows
        BY <2>1, HoldsReleasedType
    <2>7. CASE wake' = HoldsReleased(wake) /\ now' = now
        BY <2>1, <2>5, <2>7
    <2>8. ASSUME NEW S \in SUBSET Wakes, wake' = Claimed(HoldsReleased(wake), S), now' = now
          PROVE  /\ wake'[w].expiresAt - now' = h.expires - h.started
                 /\ wake'[w].state = "expired" => wake[w].wakeAt <= now
        <3>1. wake'[w].expiresAt = row.expiresAt
            <4>1. wake'[w] \in {[row EXCEPT !.state = "consumed", !.consumedAt = now],
                                [row EXCEPT !.state = "expired"], row}
                BY <2>1, <2>8 DEF Claimed
            <4> HIDE DEF row
            <4> QED BY <2>6, <4>1 DEF Rows
        <3>2. ASSUME wake'[w].state = "expired" PROVE wake[w].wakeAt <= now
            <4>1. w \notin Overdue(HoldsReleased(wake))
                BY <2>1, <2>5, <2>6 DEF Overdue, Rows
            <4>2. CASE w \in S
                <5>1. wake'[w] = [row EXCEPT !.state = "consumed", !.consumedAt = now]
                    BY <2>1, <2>8, <4>2 DEF Claimed
                <5> HIDE DEF row
                <5> QED BY <2>6, <3>2, <5>1 DEF Rows
            <4>3. CASE w \notin S /\ w \in Due(HoldsReleased(wake))
                BY <2>5, <4>3 DEF Due
            <4>4. CASE w \notin S /\ w \notin Due(HoldsReleased(wake))
                <5>1. wake'[w] = row
                    BY <2>1, <2>8, <4>1, <4>4 DEF Claimed
                <5> QED BY <2>5, <3>2, <5>1
            <4> QED BY <4>2, <4>3, <4>4
        <3> QED BY <2>1, <2>5, <2>8, <3>1, <3>2
    <2> QED BY <2>7, <2>8 DEF HoldSteps
<1>2. Init => HeldOnce
    BY DEF Init, HeldOnce
<1> QED BY <1>1, <1>2, HeldStep, TypeCorrect, PTL DEF Spec, HoldsPreserveGrace

-----------------------------------------------------------------------------
(* Late notes: what becomes of an outcome once it is written               *)
(*                                                                         *)
(* A task at work has its row to itself, and the row has no outcome yet,   *)
(* or only the one an earlier claim's task noted late, after it had stood  *)
(* down and its row had been claimed again.                                *)

AtWork(w, k) == pc[w][k] \in Starters \cup {"failed", "calling", "replying", "silent", "replied"}
USE DEF Starters

Final == {"not_called", "silent", "succeeded", "cancelled_on_shutdown"}

WorkIsConsumed ==
    \A w \in Wakes, k \in Attempts : AtWork(w, k) => wake[w].state = "consumed"

OneAtWork ==
    \A w \in Wakes : \A j, k \in Attempts : AtWork(w, j) /\ AtWork(w, k) => j = k

WaitingHasNoOutcome ==
    \A w \in Wakes : wake[w].state \in {"none", "pending"} => wake[w].outcome = "unfinished"

CancelledWhenClosing ==
    \A w \in Wakes, k \in Attempts :
        /\ pc[w][k] = "cancelled" => up = "closing"
        /\ up = "closing" => ~AtWork(w, k) /\ pc[w][k] # "deferred"

FinalWhenDone ==
    \A w \in Wakes, k \in Attempts :
        /\ wake[w].outcome \in Final => ~AtWork(w, k)
        /\ wake[w].outcome = "cancelled_on_shutdown" => pc[w][k] # "deferred"

NotesInv == /\ WorkIsConsumed
            /\ OneAtWork
            /\ WaitingHasNoOutcome
            /\ CancelledWhenClosing
            /\ FinalWhenDone

LEMMA SurroundingsStop ==
    ASSUME TypeOK, CancelledWhenClosing, Surroundings
    PROVE  CancelledWhenClosing'
<1>1. CASE up' = up
    <2>1. pc' = pc
        BY <1>1 DEF Surroundings, ScheduleOrReplace, CancelPending, DeleteConversation, Rollover, DeleteMessage, Reload,
           ScanHeld, TogetherActivate, TogetherLapse, TogetherFinish, TickReleases, TickDrains,
           ClockTick, vars, taskVars, Shutdown, Exit, Crash, Restart
    <2> QED BY <1>1, <2>1 DEF CancelledWhenClosing, AtWork
<1>2. CASE Shutdown
    <2>1. \A w \in Wakes, k \in Attempts : pc'[w][k] \in {"idle", "gone", "cancelled"}
        BY <1>2 DEF Shutdown, Cancelled, Live
    <2>2. up' = "closing"
        BY <1>2 DEF Shutdown
    <2> QED BY <2>1, <2>2 DEF CancelledWhenClosing, AtWork
<1>3. CASE Exit \/ Crash
    <2>1. \A w \in Wakes, k \in Attempts : pc'[w][k] \in {"idle", "gone"}
        BY <1>3 DEF Exit, Crash, Live, taskVars
    <2>2. up' = "down"
        BY <1>3 DEF Exit, Crash
    <2> QED BY <2>1, <2>2 DEF CancelledWhenClosing, AtWork
<1>4. CASE Restart
    BY <1>4 DEF Restart, CancelledWhenClosing, taskVars
<1>5. up' = up \/ Shutdown \/ Exit \/ Crash \/ Restart
    BY DEF Surroundings, ScheduleOrReplace, CancelPending, DeleteConversation, Rollover, DeleteMessage, Reload,
       ScanHeld, TogetherActivate, TogetherLapse, TogetherFinish, TickReleases, TickDrains,
       ClockTick, vars, procVars
<1> QED BY <1>1, <1>2, <1>3, <1>4, <1>5

LEMMA SurroundingsNotes ==
    ASSUME TypeOK, NotesInv, Surroundings
    PROVE  NotesInv'
<1> USE DEF NotesInv
<1>1. /\ \A w \in Wakes : RowMoves(w)
      /\ \A w \in Wakes, k \in Attempts : pc'[w][k] = pc[w][k] \/ pc'[w][k] \in {"cancelled", "gone"}
    BY SurroundingsMove
<1>2. \A w \in Wakes : \/ wake'[w].outcome = wake[w].outcome
                       \/ wake[w].state = "none" /\ wake'[w].outcome = "unfinished"
    BY SurroundingsOutcomes
<1>3. \A w \in Wakes, k \in Attempts : AtWork(w, k)' => AtWork(w, k)
    BY <1>1 DEF AtWork
<1>4. WorkIsConsumed' /\ OneAtWork'
    BY <1>1, <1>3 DEF WorkIsConsumed, OneAtWork, RowMoves
<1>5. WaitingHasNoOutcome'
    BY <1>1, <1>2 DEF WaitingHasNoOutcome, RowMoves
<1>6. FinalWhenDone'
    BY <1>1, <1>2, <1>3 DEF FinalWhenDone, Final
<1> QED BY <1>4, <1>5, <1>6, SurroundingsStop

LEMMA ClaimNotes ==
    ASSUME Inv, NotesInv, NEW S \in SUBSET Wakes, ScanOnce(S) \/ ShutdownDuringScan(S)
    PROVE  NotesInv'
<1> USE DEF NotesInv
<1>1. ClaimTx(S) /\ TypeOK
    BY DEF ScanOnce, ShutdownDuringScan, Inv
<1>2. /\ \A w \in S : wake[w].state = "pending" /\ wake'[w].state = "consumed"
      /\ \A w \in Wakes \ S : wake[w].state = "consumed" => wake'[w].state = "consumed"
    BY <1>1, ClaimedType
<1>3. /\ \A w \in Wakes : wake'[w].outcome = wake[w].outcome
      /\ \A w \in Wakes : wake'[w].state = "pending" => wake[w].state = "pending"
      /\ \A w \in Wakes : wake'[w].state = "none" => wake[w].state = "none"
    <2>1. \A w \in Wakes : Settled(w)
        BY <1>1, ClaimSettled
    <2>2. \A w \in Wakes : wake'[w].state = "none" => wake[w].state = "none"
        <3> SUFFICES ASSUME NEW w \in Wakes, wake'[w].state = "none" PROVE wake[w].state = "none"
            OBVIOUS
        <3>1. HoldsReleased(wake)[w] \in Rows /\ HoldsReleased(wake)[w].state = wake[w].state
            BY <1>1, HoldsReleasedType
        <3>2. wake'[w] \in {[HoldsReleased(wake)[w] EXCEPT !.state = "consumed", !.consumedAt = now],
                            [HoldsReleased(wake)[w] EXCEPT !.state = "expired"], HoldsReleased(wake)[w]}
            BY <1>1 DEF ClaimTx, Claimed
        <3> QED BY <3>1, <3>2 DEF Rows
    <2> QED BY <2>1, <2>2 DEF Settled, Same, Fades
<1>4. \A w \in Wakes, k \in Attempts :
         \/ pc'[w][k] = pc[w][k]
         \/ pc'[w][k] \in {"cancelled", "gone"}
         \/ w \in S /\ k = attempts[w] + 1 /\ pc'[w][k] \in {"preparing", "gone"}
    BY <1>1, ClaimTasks
<1>5. ASSUME NEW w \in Wakes, NEW k \in Attempts, AtWork(w, k)'
      PROVE  \/ AtWork(w, k) /\ w \notin S
             \/ w \in S /\ k = attempts[w] + 1
    <2>1. w \in S => ~AtWork(w, k)
        BY <1>2 DEF WorkIsConsumed
    <2> QED BY <2>1, <1>4, <1>5 DEF AtWork
<1>6. WorkIsConsumed' /\ OneAtWork'
    BY <1>2, <1>5 DEF WorkIsConsumed, OneAtWork
<1>7. WaitingHasNoOutcome'
    BY <1>3 DEF WaitingHasNoOutcome
<1>8. FinalWhenDone'
    <2> SUFFICES ASSUME NEW w \in Wakes, NEW k \in Attempts
                 PROVE  /\ wake[w].outcome \in Final => ~AtWork(w, k)'
                        /\ wake[w].outcome = "cancelled_on_shutdown" => pc'[w][k] # "deferred"
        BY <1>3 DEF FinalWhenDone
    <2>1. w \in S => wake[w].outcome = "unfinished"
        BY <1>2 DEF WaitingHasNoOutcome
    <2> QED BY <2>1, <1>4, <1>5 DEF FinalWhenDone, Final
<1>9. CancelledWhenClosing'
    <2>1. CASE ScanOnce(S)
        <3>1. up' = up /\ up = "running"
            BY <2>1 DEF ScanOnce, procVars
        <3>2. \A w \in Wakes, k \in Attempts : pc'[w][k] = pc[w][k] \/ pc'[w][k] = "preparing"
            BY <2>1, <1>1 DEF ScanOnce, TypeOK
        <3> QED BY <3>1, <3>2 DEF CancelledWhenClosing
    <2>2. CASE ShutdownDuringScan(S)
        <3>1. up' = "closing"
            BY <2>2 DEF ShutdownDuringScan
        <3>2. \A w \in Wakes, k \in Attempts : pc'[w][k] \in {"idle", "cancelled", "gone"}
            BY <2>2, <1>1, ClaimTasks
        <3> QED BY <3>1, <3>2 DEF CancelledWhenClosing, AtWork
    <2> QED BY <2>1, <2>2
<1> QED BY <1>6, <1>7, <1>8, <1>9

(* A task that writes no row goes on working, stops working, or leaves.    *)
LEMMA QuietNotes ==
    ASSUME TypeOK, NotesInv, NEW w \in Wakes, NEW k \in Attempts, Quiet(w, k)
    PROVE  NotesInv'
<1> USE DEF NotesInv
<1>1. wake' = wake /\ up' = up
    BY DEF Quiet, Prepare, PrepareFails, CheckTogether, DeferRefused, CallSilent, CallReplies,
           PersistVisible, PersistFails, Cleanup, tables, procVars
<1>2. PICK from \in Steps, to \in Steps :
         /\ Goto(w, k, from, to)
         /\ \/ /\ from \in Starters \cup {"calling", "replying"}
               /\ to \in Starters \cup {"failed", "calling", "replying", "silent", "replied"}
            \/ from = "cleanup" /\ to = "gone"
    BY DEF Quiet, Prepare, PrepareFails, CheckTogether, DeferRefused, CallSilent, CallReplies,
           PersistVisible, PersistFails, Cleanup, Steps
<1>3. /\ pc[w][k] = from
      /\ \A v \in Wakes, j \in Attempts : pc'[v][j] = IF v = w /\ j = k THEN to ELSE pc[v][j]
    BY <1>2, GotoType
<1>4. \A v \in Wakes, j \in Attempts : AtWork(v, j)' => AtWork(v, j)
    BY <1>2, <1>3 DEF AtWork
<1>5. WorkIsConsumed' /\ OneAtWork' /\ WaitingHasNoOutcome'
    BY <1>1, <1>4 DEF WorkIsConsumed, OneAtWork, WaitingHasNoOutcome
<1>6. CancelledWhenClosing' /\ FinalWhenDone'
    BY <1>1, <1>2, <1>3, <1>4 DEF CancelledWhenClosing, FinalWhenDone
<1> QED BY <1>5, <1>6

(* A task that stands down either gives its row back without an outcome,   *)
(* or finds the one noted late.                                            *)
LEMMA StandsDown ==
    ASSUME TypeOK, NotesInv, NEW w \in Wakes, NEW k \in Attempts, DeferUnstarted(w, k)
    PROVE  \/ wake'[w].state \in {"pending", "invalidated"} /\ wake'[w].outcome = "unfinished"
           \/ wake'[w] = wake[w] /\ wake[w].outcome = "deferred_together"
<1>1. AtWork(w, k)
    BY DEF DeferUnstarted, Goto, AtWork
<1>2. wake[w].state = "consumed" /\ wake[w].outcome \notin Final
    BY <1>1 DEF NotesInv, WorkIsConsumed, FinalWhenDone
<1>3. wake[w] \in Rows
    BY DEF TypeOK
<1>4. CASE Undoable(w)
    <2>1. \A v \in Wakes : Same(v)
        BY UndoneRows
    <2>2. wake'[w].state \in {"pending", "invalidated"}
        BY <1>3, <1>4 DEF DeferUnstarted, Undone, TypeOK, Rows
    <2> QED BY <1>4, <2>1, <2>2 DEF Undoable, Same
<1>5. CASE ~Undoable(w)
    <2>1. wake[w].outcome # "unfinished"
        BY <1>2, <1>5 DEF Undoable
    <2>2. wake' = wake
        BY <1>5 DEF DeferUnstarted
    <2> QED BY <1>2, <1>3, <2>1, <2>2 DEF Rows, Outcomes, Final
<1> QED BY <1>4, <1>5

LEMMA DeferNotes ==
    ASSUME TypeOK, NotesInv, NEW w \in Wakes, NEW k \in Attempts, DeferUnstarted(w, k)
    PROVE  NotesInv'
<1> USE DEF NotesInv
<1>1. /\ pc[w][k] = "checked"
      /\ \A v \in Wakes, j \in Attempts : pc'[v][j] = IF v = w /\ j = k THEN "deferred" ELSE pc[v][j]
    BY GotoType DEF DeferUnstarted, Steps
<1>2. /\ up' = up
      /\ \A v \in Wakes \ {w} : wake'[v] = wake[v]
    BY UndoneRows DEF DeferUnstarted, procVars
<1>3. \/ wake'[w].state \in {"pending", "invalidated"} /\ wake'[w].outcome = "unfinished"
      \/ wake'[w] = wake[w] /\ wake[w].outcome = "deferred_together"
    BY StandsDown
<1>4. AtWork(w, k) /\ \A j \in Attempts : ~AtWork(w, j)'
    BY <1>1 DEF OneAtWork, AtWork
<1>5. \A v \in Wakes, j \in Attempts : AtWork(v, j)' => AtWork(v, j) /\ v # w
    BY <1>1, <1>4 DEF AtWork
<1>6. WorkIsConsumed' /\ OneAtWork'
    BY <1>2, <1>5 DEF WorkIsConsumed, OneAtWork
<1>7. WaitingHasNoOutcome'
    BY <1>2, <1>3 DEF WaitingHasNoOutcome
<1>8. CancelledWhenClosing'
    BY <1>1, <1>2, <1>4, <1>5 DEF CancelledWhenClosing
<1>9. FinalWhenDone'
    BY <1>1, <1>2, <1>3, <1>5 DEF FinalWhenDone, Final
<1> QED BY <1>6, <1>7, <1>8, <1>9

(* What a task writes when it ends.                                        *)
LEMMA EndingNote ==
    ASSUME TypeOK, NotesInv, NEW w \in Wakes, NEW k \in Attempts, Conclude(w, k)
    PROVE  \E end \in Ends :
              /\ pc[w][k] = end[1]
              /\ \A v \in Wakes, j \in Attempts :
                    pc'[v][j] = IF v = w /\ j = k THEN "cleanup" ELSE pc[v][j]
              /\ wake'[w].outcome = IF wake[w].state = "consumed" THEN end[2] ELSE wake[w].outcome
<1>1. PICK end \in Ends : Goto(w, k, end[1], "cleanup") /\ wake' = Finished(w, end[2])
    BY DEF Conclude
<1>2. /\ pc[w][k] = end[1]
      /\ \A v \in Wakes, j \in Attempts : pc'[v][j] = IF v = w /\ j = k THEN "cleanup" ELSE pc[v][j]
    BY <1>1, GotoType DEF Steps
<1>3. wake'[w].outcome = IF wake[w].state = "consumed" THEN end[2] ELSE wake[w].outcome
    BY <1>1 DEF Finished, TypeOK, Rows
<1> QED BY <1>2, <1>3

LEMMA ConcludeNotes ==
    ASSUME TypeOK, NotesInv, NEW w \in Wakes, NEW k \in Attempts, Conclude(w, k)
    PROVE  NotesInv'
<1> USE DEF NotesInv
<1>1. PICK end \in Ends :
         /\ pc[w][k] = end[1]
         /\ \A v \in Wakes, j \in Attempts :
               pc'[v][j] = IF v = w /\ j = k THEN "cleanup" ELSE pc[v][j]
         /\ wake'[w].outcome = IF wake[w].state = "consumed" THEN end[2] ELSE wake[w].outcome
    BY EndingNote
<1>2. /\ up' = up
      /\ \A v \in Wakes : wake'[v].state = wake[v].state
      /\ \A v \in Wakes \ {w} : wake'[v] = wake[v]
    BY ConcludedRows DEF Conclude, procVars
<1>3. \A v \in Wakes, j \in Attempts : AtWork(v, j)' => AtWork(v, j) /\ ~(v = w /\ j = k)
    BY <1>1 DEF AtWork
<1>4. WorkIsConsumed' /\ OneAtWork'
    BY <1>2, <1>3 DEF WorkIsConsumed, OneAtWork
<1>5. WaitingHasNoOutcome'
    BY <1>1, <1>2 DEF WaitingHasNoOutcome
<1>6. CancelledWhenClosing'
    BY <1>1, <1>2, <1>3 DEF CancelledWhenClosing
<1>7. FinalWhenDone'
    <2> SUFFICES ASSUME NEW j \in Attempts
                 PROVE  /\ wake'[w].outcome \in Final => ~AtWork(w, j)'
                        /\ wake'[w].outcome = "cancelled_on_shutdown" => pc'[w][j] # "deferred"
        BY <1>1, <1>2, <1>3 DEF FinalWhenDone
    <2>1. CASE wake[w].state # "consumed"
        BY <1>1, <1>3, <2>1 DEF FinalWhenDone
    <2>2. CASE wake[w].state = "consumed" /\ end[1] = "deferred"
        BY <1>1, <2>2 DEF Ends, Final
    <2>3. CASE wake[w].state = "consumed" /\ end[1] = "cancelled"
        BY <1>1, <1>3, <2>3 DEF CancelledWhenClosing
    <2>4. CASE wake[w].state = "consumed" /\ end[1] \in {"failed", "silent", "replied"}
        <3>1. AtWork(w, k) /\ end[2] # "cancelled_on_shutdown"
            BY <1>1, <2>4 DEF AtWork, Ends
        <3>2. ~AtWork(w, j)'
            BY <1>3, <3>1 DEF OneAtWork
        <3> QED BY <1>1, <2>4, <3>1, <3>2
    <2> QED BY <2>1, <2>2, <2>3, <2>4 DEF Ends
<1> QED BY <1>4, <1>5, <1>6, <1>7

LEMMA NotesStep == Inv /\ NotesInv /\ [Next]_vars => NotesInv'
<1> SUFFICES ASSUME Inv, NotesInv, [Next]_vars PROVE NotesInv'
    OBVIOUS
<1>0. TypeOK
    BY DEF Inv
<1>1. CASE \E S \in SUBSET Wakes : ScanOnce(S) \/ ShutdownDuringScan(S)
    BY <1>1, ClaimNotes
<1>2. CASE \E w \in Wakes, k \in Attempts : TaskStep(w, k)
    <2> PICK w \in Wakes, k \in Attempts : TaskStep(w, k)
        BY <1>2
    <2>1. Quiet(w, k) \/ DeferUnstarted(w, k) \/ Conclude(w, k)
        BY DEF TaskStep, Quiet
    <2> QED BY <1>0, <2>1, QuietNotes, DeferNotes, ConcludeNotes
<1>3. CASE Surroundings
    BY <1>0, <1>3, SurroundingsNotes
<1> QED BY <1>1, <1>2, <1>3, NextCases

THEOREM NotesHold == Spec => []NotesInv
<1>1. Init => NotesInv
    BY DEF Init, NotesInv, WorkIsConsumed, OneAtWork, WaitingHasNoOutcome, CancelledWhenClosing,
           FinalWhenDone, AtWork, Final, NoRow
<1> QED BY <1>1, NotesStep, Invariance, PTL DEF Spec

(* A task that stands down for companionship leaves its wake charged in    *)
(* one case only: the task of an earlier claim of that wake had stood down *)
(* too and noted it ('deferred_together', finish_trigger) after the wake   *)
(* had been claimed again (defer_unstarted requires outcome IS NULL).      *)
ChargedByLateNote ==
    [][\A w \in Wakes, k \in Attempts :
          pc[w][k] = "checked" /\ pc'[w][k] = "deferred" /\ wake'[w].state = "consumed"
             => wake[w].outcome = "deferred_together"]_vars

THEOREM ChargedOnlyByLateNotes == Spec => ChargedByLateNote
<1>1. ASSUME Inv, NotesInv, [Next]_vars
      PROVE  [\A w \in Wakes, k \in Attempts :
                pc[w][k] = "checked" /\ pc'[w][k] = "deferred" /\ wake'[w].state = "consumed"
                   => wake[w].outcome = "deferred_together"]_vars
    <2> SUFFICES ASSUME NEW w \in Wakes, NEW k \in Attempts,
                        pc[w][k] = "checked", pc'[w][k] = "deferred", wake'[w].state = "consumed"
                 PROVE  wake[w].outcome = "deferred_together"
        OBVIOUS
    <2>0. TypeOK
        BY <1>1 DEF Inv
    <2>1. CASE \E S \in SUBSET Wakes : ScanOnce(S) \/ ShutdownDuringScan(S)
        BY <2>0, <2>1, ClaimTasks
    <2>2. CASE Surroundings
        BY <2>0, <2>2, SurroundingsMove
    <2>3. ASSUME NEW v \in Wakes, NEW j \in Attempts, TaskStep(v, j)
          PROVE  wake[w].outcome = "deferred_together"
        <3>1. Quiet(v, j) \/ DeferUnstarted(v, j) \/ Conclude(v, j)
            BY <2>3 DEF TaskStep, Quiet
        <3>2. \E from, to \in Steps :
                 Goto(v, j, from, to) /\ (to = "deferred" => DeferUnstarted(v, j))
            BY <3>1 DEF Quiet, Prepare, PrepareFails, CheckTogether, DeferRefused, CallSilent,
               CallReplies, PersistVisible, PersistFails, Cleanup, DeferUnstarted, Conclude, Ends, Steps
        <3>3. v = w /\ j = k /\ DeferUnstarted(w, k)
            BY <2>0, <3>2, GotoType
        <3> QED BY <1>1, <2>0, <3>3, StandsDown
    <2> QED BY <1>1, <2>1, <2>2, <2>3, NextCases
<1> QED BY <1>1, Invariance, NotesHold, PTL DEF Spec, ChargedByLateNote

(* An outcome that says how a claim ended is lost in two ways only: the    *)
(* shutdown cancels its task in the finally block, or the task of an       *)
(* earlier claim notes late that it had stood down (finish_trigger looks   *)
(* at the state only); what the shutdown wrote stays.                      *)
LostToLateNotes ==
    [][\A w \in Wakes :
          wake[w].outcome \in Final /\ wake'[w].outcome # wake[w].outcome
             => /\ wake[w].outcome # "cancelled_on_shutdown"
                /\ wake'[w].outcome \in {"deferred_together", "cancelled_on_shutdown"}]_vars

THEOREM OutcomesLostToLateNotes == Spec => LostToLateNotes
<1>1. ASSUME Inv, NotesInv, [Next]_vars
      PROVE  [\A w \in Wakes :
                wake[w].outcome \in Final /\ wake'[w].outcome # wake[w].outcome
                   => /\ wake[w].outcome # "cancelled_on_shutdown"
                      /\ wake'[w].outcome \in {"deferred_together", "cancelled_on_shutdown"}]_vars
    <2> SUFFICES ASSUME NEW w \in Wakes,
                        wake[w].outcome \in Final, wake'[w].outcome # wake[w].outcome
                 PROVE  /\ wake[w].outcome # "cancelled_on_shutdown"
                        /\ wake'[w].outcome \in {"deferred_together", "cancelled_on_shutdown"}
        OBVIOUS
    <2>0. TypeOK
        BY <1>1 DEF Inv
    <2>1. ASSUME NEW S \in SUBSET Wakes, ScanOnce(S) \/ ShutdownDuringScan(S) PROVE FALSE
        BY <2>0, <2>1, ClaimSettled DEF ScanOnce, ShutdownDuringScan, Settled, Same
    <2>2. CASE Surroundings
        BY <1>1, <2>0, <2>2, SurroundingsOutcomes DEF NotesInv, WaitingHasNoOutcome, Final
    <2>3. ASSUME NEW v \in Wakes, NEW k \in Attempts, TaskStep(v, k)
          PROVE  /\ wake[w].outcome # "cancelled_on_shutdown"
                 /\ wake'[w].outcome \in {"deferred_together", "cancelled_on_shutdown"}
        <3>1. Conclude(v, k)
            <4>1. Quiet(v, k) \/ DeferUnstarted(v, k) \/ Conclude(v, k)
                BY <2>3 DEF TaskStep, Quiet
            <4> QED BY <2>0, <4>1, QuietSettled, UndoneRows DEF Settled, Same
        <3>2. v = w
            BY <2>0, <3>1, ConcludedRows
        <3>3. PICK end \in Ends :
                 /\ pc[w][k] = end[1]
                 /\ wake'[w].outcome = IF wake[w].state = "consumed" THEN end[2] ELSE wake[w].outcome
            BY <1>1, <2>0, <3>1, <3>2, EndingNote
        <3>4. wake'[w].outcome = end[2]
            BY <3>3
        <3>5. end[1] \in {"deferred", "cancelled"}
            BY <1>1, <3>3 DEF NotesInv, FinalWhenDone, AtWork, Ends
        <3>6. end \in {<<"deferred", "deferred_together">>, <<"cancelled", "cancelled_on_shutdown">>}
            BY <3>5 DEF Ends
        <3> QED BY <1>1, <3>3, <3>4, <3>6 DEF NotesInv, FinalWhenDone
    <2> QED BY <1>1, <2>1, <2>2, <2>3, NextCases
<1> QED BY <1>1, Invariance, NotesHold, PTL DEF Spec, LostToLateNotes
=============================================================================
