--------------------------- MODULE ControlProofs ---------------------------
(***************************************************************************)
(* Proofs about Control, for any pages and any number of sessions and of   *)
(* safety stops.                                                           *)
(*                                                                         *)
(* The argument: what makes a session active is done by the holder of the  *)
(* lock, the lock is taken while no scene is on, and a scene takes it too. *)
(* Whatever end and the timeouts do meanwhile leaves no session active     *)
(* that was not.  For the types one has to know which rows exist: sessions *)
(* are numbered without gaps, because only one start at a time counts them.*)
(***************************************************************************)
EXTENDS Control, TLAPS

Types ==
    /\ rows \in [Sessions -> Row \cup {None}]
    /\ lock \in Slots \cup {Scenes, None} /\ scene \in BOOLEAN
    /\ requests \in [Slots -> RequestType \cup {None}]
    /\ page \in [Clients -> 0..MaxSessions]

Holds(q) == requests[q] # None /\ Locked(requests[q].op) /\ requests[q].at \in AtWork
LockHeld == \A q \in Slots : lock = q <=> Holds(q)

(* What a request at work names exists, what it is about to write was live *)
(* when it read it, and a start is about to add the next row.              *)
Sound(r, known) ==
    /\ r.at \in AtWork => r.session \in Sessions
    /\ r.at = "marked" => r.op \in {"heartbeat", "current"}
    /\ r.at = "resuming" => r.op = "heartbeat"
    /\ r.at = "read" /\ r.op # "start" => Live(r.seen[r.session])
    /\ r.at = "resuming" => Live(r.seen[r.session])
    /\ r.at \in AtWork /\ ~(r.at = "read" /\ r.op = "start") => r.session \in known
    /\ r.at = "back" /\ r.live => r.session \in known
    /\ \A t \in Sessions : r.seen[t] # None => t \in known
    /\ r.at = "read" /\ r.op = "start" => known = 1..(r.session - 1)
AllSound == \A q \in Slots : requests[q] # None => Sound(requests[q], Known)

Pages == \A c \in Clients : page[c] # 0 => page[c] \in Known
Counted == \E k \in 0..MaxSessions : Known = 1..k

NoneActive == \A s \in LiveSessions : rows[s].status = "active" => rows[s].age = Lapsed
Apart ==
    /\ lock \in Slots => ~scene
    /\ scene \/ lock = Scenes => NoneActive

Inv == Types /\ LockHeld /\ AllSound /\ Pages /\ Counted /\ Apart

-----------------------------------------------------------------------------
LEMMA NoneApart ==
    /\ \A q \in Slots : q # None /\ q # Scenes
    /\ Scenes # None
    /\ \A r \in Row : r # None
    /\ \A r \in RequestType : r # None
BY ControlAssumption DEF Slots, Scenes

LEMMA InitInv == Init => Inv
<1> SUFFICES ASSUME Init PROVE Inv
    OBVIOUS
<1>1. Known = {} /\ LiveSessions = {}
    BY NoneApart DEF Init, Known, LiveSessions, Live
<1>2. Counted
    BY <1>1, ControlAssumption DEF Counted
<1>3. scene \in BOOLEAN
    BY Zenon DEF Init
<1>4. Types
    <2>1. rows \in [Sessions -> Row \cup {None}] /\ requests \in [Slots -> RequestType \cup {None}]
        BY DEF Init
    <2>2. lock = None /\ page \in [Clients -> 0..MaxSessions]
        BY ControlAssumption DEF Init
    <2> QED BY <1>3, <2>1, <2>2, Zenon DEF Types
<1> QED BY <1>1, <1>2, <1>4, NoneApart DEF Inv, Init, LockHeld, Holds, AllSound, Pages, Apart, NoneActive

(* What a row becomes is a row.                                            *)
LEMMA EndedRow ==
    ASSUME NEW r \in Row, NEW reason \in {"none", "ordinary", "safety"}, NEW epoch \in Nat
    PROVE  /\ Ended(r, reason, epoch) \in Row
           /\ Ended(r, reason, epoch).status = "ended"
BY DEF Row, Ended

LEMMA StaleRow ==
    ASSUME NEW r \in Row
    PROVE  MarkedStale(r) \in Row /\ MarkedStale(r).status = "stale"
BY DEF Row, MarkedStale

LEMMA ResumedRow ==
    ASSUME NEW r \in Row
    PROVE  Resumed(r) \in Row /\ Resumed(r).status = "active"
BY DEF Row, Resumed

-----------------------------------------------------------------------------
(* A step that works on one request, and adds no row.                      *)
LEMMA RequestStep ==
    ASSUME Inv, NEW q \in Slots,
           rows' \in [Sessions -> Row \cup {None}], Known' = Known,
           requests' \in [Slots -> RequestType \cup {None}],
           \A p \in Slots : p # q => requests'[p] = requests[p],
           requests'[q] # None => Sound(requests'[q], Known),
           page' \in [Clients -> 0..MaxSessions],
           \A c \in Clients : page'[c] = page[c] \/ page'[c] = 0 \/ page'[c] \in Known,
           scene' = scene,
           lock' = IF Holds(q)' THEN q ELSE IF lock = q THEN None ELSE lock,
           Holds(q)' => lock \in {None, q} /\ ~scene,
           scene \/ lock = Scenes => NoneActive'
    PROVE  Inv'
<1>1. Types'
    <2>1. lock' \in Slots \cup {Scenes, None}
        BY DEF Inv, Types
    <2>2. scene' \in BOOLEAN
        BY Zenon DEF Inv, Types
    <2> QED BY <2>1, <2>2, Zenon DEF Types
<1>2. LockHeld'
    <2> SUFFICES ASSUME NEW p \in Slots PROVE lock' = p <=> Holds(p)'
        BY DEF LockHeld
    <2>1. CASE p = q
        BY <2>1, NoneApart DEF Inv, Types
    <2>2. CASE p # q
        <3>1. Holds(p)' <=> Holds(p)
            BY <2>2 DEF Holds
        <3>2. lock = p <=> Holds(p)
            BY DEF Inv, LockHeld
        <3> QED BY <2>2, <3>1, <3>2, NoneApart DEF Inv, LockHeld
    <2> QED BY <2>1, <2>2
<1>3. AllSound'
    BY Zenon DEF Inv, AllSound
<1>4. Pages' /\ Counted'
    BY DEF Inv, Pages, Counted
<1>5. Apart'
    <2>1. lock' \in Slots => ~scene'
        BY NoneApart DEF Inv, Apart, Types
    <2>2. lock' = Scenes => lock = Scenes
        BY NoneApart
    <2> QED BY <2>1, <2>2 DEF Apart
<1> QED BY <1>1, <1>2, <1>3, <1>4, <1>5 DEF Inv

(* The same for a step that leaves the rows alone.                         *)
LEMMA QuietStep ==
    ASSUME Inv, NEW q \in Slots, rows' = rows,
           requests' \in [Slots -> RequestType \cup {None}],
           \A p \in Slots : p # q => requests'[p] = requests[p],
           requests'[q] # None => Sound(requests'[q], Known),
           page' \in [Clients -> 0..MaxSessions],
           \A c \in Clients : page'[c] = page[c] \/ page'[c] = 0 \/ page'[c] \in Known,
           scene' = scene,
           lock' = IF Holds(q)' THEN q ELSE IF lock = q THEN None ELSE lock,
           Holds(q)' => lock \in {None, q} /\ ~scene
    PROVE  Inv'
<1>1. Known' = Known /\ LiveSessions' = LiveSessions
    BY DEF Known, LiveSessions
<1>2. rows' \in [Sessions -> Row \cup {None}]
    BY DEF Inv, Types
<1>3. scene \/ lock = Scenes => NoneActive'
    BY <1>1 DEF Inv, Apart, NoneActive
<1> QED BY <1>1, <1>2, <1>3, RequestStep

(* A request that was just made.                                           *)
LEMMA NewRequest ==
    ASSUME NEW op \in {"heartbeat", "current", "start", "end"}, NEW s \in 0..MaxSessions,
           NEW reason \in {"none", "ordinary", "safety"}, NEW known
    PROVE  /\ Request(op, s, reason) \in RequestType
           /\ Request(op, s, reason) # None
           /\ Request(op, s, reason).at = "sent"
           /\ Sound(Request(op, s, reason), known)
<1>1. Request(op, s, reason) \in RequestType
    BY ControlAssumption DEF Request, RequestType, Nothing, AtWork
<1> QED BY <1>1, NoneApart DEF Request, Sound, AtWork, Nothing

LEMMA AskKeeps ==
    ASSUME Inv, NEW c \in Clients,
           \/ Beat(c) \/ AskSnapshot(c) \/ AskRecover(c) \/ AskStart(c)
           \/ \E reason \in {"ordinary", "safety"} : AskEnd(c, reason)
    PROVE  Inv'
<1>1. PICK kind \in {"beat", "act"}, op \in {"heartbeat", "current", "start", "end"},
           reason \in {"none", "ordinary", "safety"}, s \in 0..MaxSessions :
        /\ requests[<<c, kind>>] = None
        /\ requests' = [requests EXCEPT ![<<c, kind>>] = Request(op, s, reason)]
        /\ page' = page \/ page' = [page EXCEPT ![c] = 0]
        /\ UNCHANGED <<rows, lock, scene>>
    <2>1. page[c] \in 0..MaxSessions /\ 0 \in 0..MaxSessions
        BY ControlAssumption DEF Inv, Types
    <2> QED BY <2>1 DEF Beat, AskSnapshot, AskRecover, AskStart, AskEnd, Ask
<1> DEFINE q == <<c, kind>>
<1>2. q \in Slots
    BY DEF Slots
<1>3. /\ requests' \in [Slots -> RequestType \cup {None}]
      /\ requests'[q] = Request(op, s, reason)
      /\ \A p \in Slots : p # q => requests'[p] = requests[p]
    BY <1>1, <1>2, NewRequest DEF Inv, Types
<1>4. Sound(requests'[q], Known) /\ ~Holds(q)' /\ lock # q
    <2>1. Sound(requests'[q], Known) /\ requests'[q].at = "sent"
        BY <1>3, NewRequest
    <2> QED BY <1>1, <1>2, <2>1 DEF Holds, AtWork, Inv, LockHeld
<1>5. page' \in [Clients -> 0..MaxSessions] /\ \A d \in Clients : page'[d] = page[d] \/ page'[d] = 0
    BY <1>1, ControlAssumption DEF Inv, Types
<1> HIDE DEF q
<1> QED BY <1>1, <1>2, <1>3, <1>4, <1>5, QuietStep

LEMMA TakeKeeps ==
    ASSUME Inv, NEW q \in Slots, Take(q)
    PROVE  Inv'
<1> DEFINE r == requests[q]
<1>1. r \in RequestType /\ r.at = "back" /\ Sound(r, Known)
    BY DEF Take, Inv, Types, AllSound
<1>2. q[1] \in Clients
    BY DEF Slots
<1>3. r.session \in 0..MaxSessions /\ (r.live => r.session \in Known)
    BY <1>1 DEF RequestType, Sound
<1>4. /\ page' \in [Clients -> 0..MaxSessions]
      /\ \A c \in Clients : page'[c] = page[c] \/ page'[c] = 0 \/ page'[c] \in Known
    BY <1>2, <1>3, ControlAssumption DEF Take, Inv, Types
<1>5. /\ requests' \in [Slots -> RequestType \cup {None}] /\ requests'[q] = None
      /\ \A p \in Slots : p # q => requests'[p] = requests[p]
    BY DEF Take, Free, Inv, Types
<1>6. ~Holds(q)' /\ lock # q
    BY <1>1, <1>5 DEF Holds, Inv, LockHeld, AtWork
<1>7. rows' = rows /\ lock' = lock /\ scene' = scene
    BY DEF Take
<1> HIDE DEF r
<1> QED BY <1>4, <1>5, <1>6, <1>7, QuietStep

LEMMA FailedRequest ==
    ASSUME NEW r, NEW known
    PROVE  /\ Failed(r) \in RequestType \cup {None}
           /\ Failed(r) # None => Sound(Failed(r), known) /\ Failed(r).at = "sent"
<1>1. "current" \in {"heartbeat", "current", "start", "end"} /\ 0 \in 0..MaxSessions
      /\ "none" \in {"none", "ordinary", "safety"}
    BY ControlAssumption
<1>2. Failed(r) = None \/ Failed(r) = Request("current", 0, "none")
    BY DEF Failed
<1> QED BY <1>1, <1>2, NewRequest

LEMMA FailKeeps ==
    ASSUME Inv, NEW q \in Slots, Refused(q) \/ Lose(q)
    PROVE  Inv'
<1>1. /\ requests[q].at \notin AtWork /\ Fail({q})
      /\ UNCHANGED <<rows, lock, scene>>
    BY DEF Refused, Lose, AtWork
<1>2. /\ requests' \in [Slots -> RequestType \cup {None}] /\ requests'[q] = Failed(requests[q])
      /\ \A p \in Slots : p # q => requests'[p] = requests[p]
    BY <1>1, FailedRequest DEF Fail, Inv, Types
<1>3. requests'[q] # None => Sound(requests'[q], Known) /\ requests'[q].at = "sent"
    BY <1>2, FailedRequest
<1>4. ~Holds(q)' /\ lock # q
    BY <1>1, <1>3 DEF Holds, Inv, LockHeld, AtWork
<1>5. /\ page' \in [Clients -> 0..MaxSessions]
      /\ \A c \in Clients : page'[c] = page[c] \/ page'[c] = 0
    BY <1>1, ControlAssumption DEF Fail, Inv, Types
<1> QED BY <1>1, <1>2, <1>3, <1>4, <1>5, QuietStep

LEMMA RestartKeeps ==
    ASSUME Inv, Restart
    PROVE  Inv'
<1> DEFINE Q == {q \in Slots : requests[q] # None /\ requests[q].at \notin {"sent", "back"}}
<1>1. /\ Fail(Q) /\ lock' = None /\ scene' = FALSE /\ rows' = rows
    BY DEF Restart
<1>2. /\ Known' = Known /\ Counted'
      /\ rows' \in [Sessions -> Row \cup {None}]
    BY <1>1 DEF Inv, Types, Known, Counted
<1>3. /\ page' \in [Clients -> 0..MaxSessions]
      /\ \A c \in Clients : page'[c] = page[c] \/ page'[c] = 0
    BY <1>1, ControlAssumption DEF Fail, Inv, Types
<1>4. \A q \in Slots : requests'[q] = IF q \in Q THEN Failed(requests[q]) ELSE requests[q]
    BY <1>1 DEF Fail
<1>5. requests' \in [Slots -> RequestType \cup {None}]
    BY <1>1, FailedRequest DEF Fail, Inv, Types
<1>6. \A q \in Slots : ~Holds(q)'
    <2> SUFFICES ASSUME NEW q \in Slots PROVE ~Holds(q)'
        OBVIOUS
    <2>1. CASE q \in Q
        BY <1>4, <2>1, FailedRequest DEF Holds, AtWork
    <2>2. CASE q \notin Q
        BY <1>4, <2>2 DEF Holds, AtWork
    <2> QED BY <2>1, <2>2
<1>7. AllSound'
    <2> SUFFICES ASSUME NEW q \in Slots, requests'[q] # None
                 PROVE  Sound(requests'[q], Known)
        BY <1>2, Zenon DEF AllSound
    <2>1. CASE q \in Q
        BY <1>4, <2>1, FailedRequest
    <2>2. CASE q \notin Q
        BY <1>4, <2>2 DEF Inv, AllSound
    <2> QED BY <2>1, <2>2
<1>8. Types'
    <2>1. scene' \in BOOLEAN
        BY <1>1, Zenon
    <2>2. lock' \in Slots \cup {Scenes, None}
        BY <1>1
    <2> QED BY <1>2, <1>3, <1>5, <2>1, <2>2, Zenon DEF Types
<1> HIDE DEF Q
<1>9. LockHeld' /\ Apart' /\ Pages'
    BY <1>1, <1>2, <1>3, <1>6, NoneApart DEF LockHeld, Apart, Pages, Inv
<1> QED BY <1>2, <1>7, <1>8, <1>9 DEF Inv

LEMMA SceneKeeps ==
    ASSUME Inv, SceneAsks \/ SceneEnters \/ SceneEnds
    PROVE  Inv'
<1>1. rows' = rows /\ requests' = requests /\ page' = page
    BY DEF SceneAsks, SceneEnters, SceneEnds
<1>2. Known' = Known /\ LiveSessions' = LiveSessions
    BY <1>1 DEF Known, LiveSessions
<1>3. AllSound' /\ Pages' /\ Counted'
    BY <1>1, <1>2 DEF Inv, AllSound, Pages, Counted
<1>4. NoneActive' <=> NoneActive
    BY <1>1, <1>2 DEF NoneActive
<1>5. /\ lock' \in Slots \cup {Scenes, None}
      /\ \A q \in Slots : (lock' # q /\ lock # q) \/ lock' = lock
    BY NoneApart DEF SceneAsks, SceneEnters, SceneEnds, Inv, Types
<1>6. Types'
    <2>1. scene' \in BOOLEAN
        BY Zenon DEF SceneAsks, SceneEnters, SceneEnds, Inv, Types
    <2> QED BY <1>1, <1>5, <2>1, Zenon DEF Inv, Types
<1>7. LockHeld'
    BY <1>1, <1>5 DEF Inv, LockHeld, Holds
<1>8. Apart'
    <2>1. CASE SceneAsks
        BY <2>1, <1>4, NoneApart DEF SceneAsks, Apart, Inv, NoneActive
    <2>2. CASE SceneEnters
        BY <2>2, <1>4, NoneApart DEF SceneEnters, Apart, Inv
    <2>3. CASE SceneEnds
        BY <2>3, <1>4, NoneApart DEF SceneEnds, Apart, Inv
    <2> QED BY <2>1, <2>2, <2>3
<1> QED BY <1>3, <1>6, <1>7, <1>8 DEF Inv

LEMMA AgedRows ==
    ASSUME NEW f, f \in [Sessions -> Row \cup {None}]
    PROVE  /\ Aged(f) \in [Sessions -> Row \cup {None}]
           /\ \A t \in Sessions : /\ Aged(f)[t] # None <=> f[t] # None
                                  /\ f[t] # None => Aged(f)[t].status = f[t].status
                                  /\ f[t] # None /\ f[t].age = Lapsed => Aged(f)[t].age = Lapsed
<1> SUFFICES ASSUME NEW t \in Sessions
             PROVE  /\ Aged(f)[t] \in Row \cup {None}
                    /\ Aged(f)[t] # None <=> f[t] # None
                    /\ f[t] # None => Aged(f)[t].status = f[t].status
                    /\ f[t] # None /\ f[t].age = Lapsed => Aged(f)[t].age = Lapsed
    BY DEF Aged
<1>1. CASE f[t] = None
    BY <1>1 DEF Aged
<1>2. CASE f[t] # None
    <2>1. f[t] \in Row /\ Aged(f)[t] = [f[t] EXCEPT !.age = Older(@)]
        BY <1>2 DEF Aged
    <2>2. f[t].age \in {Fresh, Stale, Lapsed}
        BY <2>1 DEF Row
    <2>3. Older(f[t].age) \in {Fresh, Stale, Lapsed} /\ (f[t].age = Lapsed => Older(f[t].age) = Lapsed)
        BY <2>2 DEF Older, Fresh, Stale, Lapsed
    <2> QED BY <1>2, <2>1, <2>3, NoneApart DEF Row
<1> QED BY <1>1, <1>2

LEMMA TickKeeps ==
    ASSUME Inv, Tick
    PROVE  Inv'
<1>1. lock' = lock /\ scene' = scene /\ page' = page
    BY DEF Tick
<1>2. /\ rows' \in [Sessions -> Row \cup {None}] /\ Known' = Known /\ LiveSessions' = LiveSessions
      /\ NoneActive => NoneActive'
    <2>1. rows' = Aged(rows) /\ rows \in [Sessions -> Row \cup {None}]
        BY DEF Tick, Inv, Types
    <2>2. /\ rows' \in [Sessions -> Row \cup {None}]
          /\ \A t \in Sessions : /\ rows'[t] # None <=> rows[t] # None
                                 /\ rows[t] # None => rows'[t].status = rows[t].status
                                 /\ rows[t] # None /\ rows[t].age = Lapsed => rows'[t].age = Lapsed
        BY <2>1, AgedRows, Zenon
    <2>3. Known' = Known /\ LiveSessions' = LiveSessions
        <3>1. \A t \in Sessions : Live(rows'[t]) <=> Live(rows[t])
            BY <2>2 DEF Live
        <3> QED BY <2>2, <3>1, Zenon DEF Known, LiveSessions
    <2> QED BY <2>2, <2>3 DEF Inv, NoneActive, Known, LiveSessions, Live
<1>3. ASSUME NEW q \in Slots
      PROVE  /\ requests'[q] \in RequestType \cup {None}
             /\ requests'[q] # None <=> requests[q] # None
             /\ requests[q] # None =>
                    /\ requests'[q].op = requests[q].op /\ requests'[q].at = requests[q].at
                    /\ Sound(requests'[q], Known)
    <2>1. CASE requests[q] = None
        BY <2>1 DEF Tick
    <2>2. CASE requests[q] # None
        <3> DEFINE r == requests[q]
        <3>1. r \in RequestType /\ Sound(r, Known)
            BY <2>2 DEF Inv, Types, AllSound
        <3>2. requests'[q] = [r EXCEPT !.seen = Aged(@)]
            BY <2>2 DEF Tick
        <3>3. r.seen \in [Sessions -> Row \cup {None}]
            BY <3>1 DEF RequestType
        <3>4. Aged(r.seen) \in [Sessions -> Row \cup {None}]
              /\ \A t \in Sessions : /\ Aged(r.seen)[t] # None <=> r.seen[t] # None
                                     /\ r.seen[t] # None => Aged(r.seen)[t].status = r.seen[t].status
            BY AgedRows, <3>3, Zenon
        <3>5. requests'[q] \in RequestType
            BY <3>1, <3>2, <3>4 DEF RequestType
        <3>6. /\ requests'[q].op = r.op /\ requests'[q].at = r.at
              /\ requests'[q].session = r.session /\ requests'[q].live = r.live
              /\ requests'[q].seen = Aged(r.seen)
            BY <3>1, <3>2 DEF RequestType
        <3>7. Sound(requests'[q], Known)
            <4>1. \A t \in Sessions : Live(r.seen[t]) => Live(Aged(r.seen)[t])
                BY <3>4 DEF Live
            <4> QED BY <3>1, <3>4, <3>6, <4>1 DEF Sound, AtWork
        <3> QED BY <2>2, <3>5, <3>6, <3>7, NoneApart
    <2> QED BY <2>1, <2>2
<1>4. requests' \in [Slots -> RequestType \cup {None}]
    BY <1>3 DEF Tick
<1>5. AllSound' /\ LockHeld' /\ Pages' /\ Counted' /\ Apart'
    BY <1>1, <1>2, <1>3 DEF Inv, AllSound, LockHeld, Holds, Pages, Counted, Apart
<1>6. Types'
    BY <1>1, <1>2, <1>4, Zenon DEF Inv, Types
<1> QED BY <1>2, <1>5, <1>6 DEF Inv

-----------------------------------------------------------------------------
(* What the server does with a request.                                    *)

LEMMA NothingIsRead == Nothing \in [Sessions -> Row \cup {None}] /\ \A t \in Sessions : Nothing[t] = None
BY DEF Nothing

(* A request at work goes on: it keeps what it is about, and forgets what  *)
(* it read.                                                                *)
LEMMA ToMoves ==
    ASSUME Inv, NEW q \in Slots, requests[q] # None, requests[q].at \in AtWork,
           NEW at \in {"marked", "done"}, To(q, at),
           NEW known, requests[q].session \in known,
           at = "marked" => requests[q].op \in {"heartbeat", "current"}
    PROVE  /\ requests' \in [Slots -> RequestType \cup {None}]
           /\ \A p \in Slots : p # q => requests'[p] = requests[p]
           /\ requests'[q].at = at /\ Sound(requests'[q], known)
           /\ Holds(q)' <=> Holds(q)
<1> DEFINE r == requests[q]
<1>1. r \in RequestType /\ Sound(r, Known)
    BY DEF Inv, Types, AllSound
<1>2. at \in {"sent", "back"} \cup AtWork
    BY DEF AtWork
<1>3. /\ requests'[q] \in RequestType
      /\ requests'[q].op = r.op /\ requests'[q].session = r.session
      /\ requests'[q].at = at /\ requests'[q].seen = Nothing
    BY <1>1, <1>2, NothingIsRead DEF To, RequestType, Inv, Types
<1>4. /\ requests' \in [Slots -> RequestType \cup {None}]
      /\ \A p \in Slots : p # q => requests'[p] = requests[p]
    BY <1>3 DEF To, Inv, Types
<1>5. Sound(requests'[q], known)
    BY <1>1, <1>3, NothingIsRead DEF Sound, AtWork
<1>6. Holds(q)' <=> Holds(q)
    BY <1>1, <1>3, NoneApart DEF Holds, AtWork
<1> QED BY <1>3, <1>4, <1>5, <1>6

LEMMA BackMoves ==
    ASSUME Inv, NEW q \in Slots, requests[q] # None, NEW live \in BOOLEAN, Back(q, live),
           live => requests[q].session \in Known
    PROVE  /\ requests' \in [Slots -> RequestType \cup {None}]
           /\ \A p \in Slots : p # q => requests'[p] = requests[p]
           /\ Sound(requests'[q], Known)
           /\ ~Holds(q)'
<1> DEFINE r == requests[q]
<1>1. r \in RequestType
    BY DEF Inv, Types
<1>2. requests'[q] = [r EXCEPT !.at = "back", !.seen = Nothing, !.reason = "none", !.live = live]
    BY DEF Back, Inv, Types
<1>3. requests'[q] \in RequestType
    <2>1. [r EXCEPT !.at = "back", !.seen = Nothing, !.reason = "none"] \in RequestType
        BY <1>1, NothingIsRead DEF RequestType
    <2>2. requests'[q] = [[r EXCEPT !.at = "back", !.seen = Nothing, !.reason = "none"] EXCEPT !.live = live]
        BY <1>1, <1>2 DEF RequestType
    <2> QED BY <2>1, <2>2, Zenon DEF RequestType
<1>4. /\ requests'[q].session = r.session
      /\ requests'[q].at = "back" /\ requests'[q].seen = Nothing
    BY <1>1, <1>2 DEF RequestType
<1>5. requests'[q].live <=> live
    BY <1>1, <1>2 DEF RequestType
<1>6. Sound(requests'[q], Known) /\ ~Holds(q)'
    BY <1>4, <1>5, NothingIsRead DEF Sound, AtWork, Holds
<1>7. /\ requests' \in [Slots -> RequestType \cup {None}]
      /\ \A p \in Slots : p # q => requests'[p] = requests[p]
    BY <1>3 DEF Back, Inv, Types
<1> QED BY <1>6, <1>7

(* What changes in one row that exists.                                    *)
LEMMA RowMoves ==
    ASSUME Inv, NEW s \in Known, NEW r \in Row, rows' = [rows EXCEPT ![s] = r],
           scene \/ lock = Scenes => r.status # "active"
    PROVE  /\ rows' \in [Sessions -> Row \cup {None}] /\ Known' = Known
           /\ scene \/ lock = Scenes => NoneActive'
<1>1. s \in Sessions /\ rows'[s] = r /\ \A t \in Sessions : t # s => rows'[t] = rows[t]
    BY DEF Inv, Types, Known
<1>2. rows' \in [Sessions -> Row \cup {None}] /\ Known' = Known
    BY <1>1, NoneApart DEF Inv, Types, Known
<1>3. scene \/ lock = Scenes => NoneActive'
    BY <1>1 DEF Inv, Apart, NoneActive, LiveSessions, Live
<1> QED BY <1>2, <1>3

LEMMA AtWorkFacts ==
    ASSUME Inv, NEW q \in Slots, requests[q] # None, requests[q].at \in AtWork
    PROVE  /\ requests[q] \in RequestType /\ Sound(requests[q], Known)
           /\ requests[q].session \in Sessions
           /\ Locked(requests[q].op) => lock = q /\ ~scene
           /\ ~Locked(requests[q].op) => lock # q
           /\ lock = q <=> Holds(q)
<1>1. requests[q] \in RequestType /\ Sound(requests[q], Known)
    BY DEF Inv, Types, AllSound
<1>2. lock = q <=> Holds(q)
    BY DEF Inv, LockHeld
<1>3. Locked(requests[q].op) => Holds(q)
    BY DEF Holds
<1> QED BY <1>1, <1>2, <1>3 DEF Sound, Inv, Apart, Holds

LEMMA ReadKeeps ==
    ASSUME Inv, NEW q \in Slots, requests[q] # None, Read(q)
    PROVE  Inv'
<1> DEFINE r == requests[q]
           s == IF r.op = "current" THEN MaxOf(LiveSessions \cup {0}) ELSE r.session
           next == MaxOf(Known \cup {0}) + 1
<1>1. /\ r \in RequestType /\ r.at = "sent" /\ ~Holds(q) /\ lock # q
      /\ rows' = rows /\ scene' = scene /\ page' = page
      /\ Locked(r.op) => lock = None /\ ~scene
    BY DEF Read, Inv, Types, LockHeld, Holds, AtWork
<1>2. page' \in [Clients -> 0..MaxSessions]
    BY <1>1 DEF Inv, Types
<1>3. Copy(Known) = rows
    BY Zenon DEF Copy, Known, Inv, Types
<1>4. ASSUME NEW S \in SUBSET Sessions
      PROVE  /\ Copy(S) \in [Sessions -> Row \cup {None}]
             /\ \A t \in S : Copy(S)[t] = rows[t]
             /\ \A t \in Sessions : Copy(S)[t] # None => t \in Known
    BY DEF Copy, Known, Inv, Types
<1>5. ASSUME NEW t \in Sessions, NEW S \in SUBSET Sessions, See(q, t, S),
             r.op # "start" => t \in S /\ t \in LiveSessions,
             r.op = "start" => Known = 1..(t - 1)
      PROVE  /\ requests' \in [Slots -> RequestType \cup {None}]
             /\ \A p \in Slots : p # q => requests'[p] = requests[p]
             /\ Sound(requests'[q], Known)
             /\ Holds(q)' <=> Locked(r.op)
    <2>1. /\ requests'[q] = [r EXCEPT !.session = t, !.at = "read", !.seen = Copy(S)]
          /\ \A p \in Slots : p # q => requests'[p] = requests[p]
        BY <1>5 DEF See, Inv, Types
    <2>2. requests'[q] \in RequestType
        <3>1. t \in 0..MaxSessions /\ "read" \in {"sent", "back"} \cup AtWork
            BY ControlAssumption DEF Sessions, AtWork
        <3> QED BY <1>1, <1>4, <2>1, <3>1 DEF RequestType
    <2>3. /\ requests'[q].op = r.op /\ requests'[q].session = t
          /\ requests'[q].at = "read" /\ requests'[q].seen = Copy(S)
        BY <1>1, <2>1 DEF RequestType
    <2>4. requests' \in [Slots -> RequestType \cup {None}]
        BY <1>5, <2>2 DEF See, Inv, Types
    <2>5. Sound(requests'[q], Known)
        <3>1. r.op # "start" => Live(Copy(S)[t])
            BY <1>4, <1>5 DEF LiveSessions
        <3>2. r.op # "start" => t \in Known
            BY <1>5 DEF LiveSessions, Live, Known
        <3> QED BY <1>4, <1>5, <2>3, <3>1, <3>2 DEF Sound, AtWork
    <2>6. Holds(q)' <=> Locked(r.op)
        BY <2>2, <2>3, NoneApart DEF Holds, AtWork
    <2> QED BY <2>1, <2>4, <2>5, <2>6
<1>6. CASE r.op = "start"
    <2>1. Known # Sessions /\ See(q, next, Known) /\ lock' = q
        BY <1>6 DEF Read
    <2>2. next \in Sessions /\ Known = 1..(next - 1)
        <3>1. PICK k \in 0..MaxSessions : Known = 1..k
            BY DEF Inv, Counted
        <3>2. Known \cup {0} = 0..k /\ k # MaxSessions
            BY <2>1, <3>1 DEF Sessions
        <3>3. MaxOf(0..k) = k
            BY <3>1 DEF MaxOf
        <3>4. next = k + 1
            BY <3>2, <3>3
        <3> HIDE DEF next
        <3>5. next \in 1..MaxSessions /\ next - 1 = k
            BY <3>1, <3>2, <3>4, ControlAssumption
        <3> QED BY <3>1, <3>5 DEF Sessions
    <2>3. Known \in SUBSET Sessions /\ Locked(r.op)
        BY <1>6 DEF Known, Locked
    <2> HIDE DEF r, next
    <2> QED BY <1>1, <1>2, <1>5, <1>6, <2>1, <2>2, <2>3, QuietStep DEF r
<1>7. CASE r.op # "start" /\ s \in LiveSessions
    <2>1. See(q, s, {s}) /\ lock' = IF Locked(r.op) THEN q ELSE lock
        BY <1>7 DEF Read
    <2>2. s \in Sessions /\ s \in LiveSessions /\ {s} \in SUBSET Sessions
        BY <1>7 DEF LiveSessions
    <2> HIDE DEF s
    <2>3. /\ requests' \in [Slots -> RequestType \cup {None}]
          /\ \A p \in Slots : p # q => requests'[p] = requests[p]
          /\ Sound(requests'[q], Known)
          /\ Holds(q)' <=> Locked(r.op)
        BY <1>5, <1>7, <2>1, <2>2
    <2> QED BY <1>1, <1>2, <2>1, <2>3, QuietStep
<1>8. CASE r.op # "start" /\ s \notin LiveSessions
    <2>1. Back(q, FALSE) /\ lock' = lock
        BY <1>8 DEF Read
    <2>2. /\ requests' \in [Slots -> RequestType \cup {None}]
          /\ \A p \in Slots : p # q => requests'[p] = requests[p]
          /\ Sound(requests'[q], Known)
          /\ ~Holds(q)'
        BY <2>1, BackMoves
    <2> QED BY <1>1, <1>2, <2>1, <2>2, QuietStep
<1> QED BY <1>6, <1>7, <1>8

(* A step that goes on to "at" and writes r over the row it is about.      *)
LEMMA WriteStep ==
    ASSUME Inv, NEW q \in Slots, requests[q] # None, requests[q].at \in AtWork,
           NEW at \in {"marked", "done"}, To(q, at),
           at = "marked" => requests[q].op \in {"heartbeat", "current"},
           requests[q].session \in Known, NEW r \in Row,
           rows' = [rows EXCEPT ![requests[q].session] = r],
           r.status = "active" => requests[q].op = "heartbeat",
           UNCHANGED <<lock, scene, page>>
    PROVE  Inv'
<1>1. /\ Locked(requests[q].op) => lock = q /\ ~scene
      /\ lock = q <=> Holds(q)
    BY AtWorkFacts
<1>2. scene \/ lock = Scenes => r.status # "active"
    BY <1>1, NoneApart DEF Locked
<1>3. /\ rows' \in [Sessions -> Row \cup {None}] /\ Known' = Known
      /\ scene \/ lock = Scenes => NoneActive'
    BY <1>2, RowMoves
<1>4. /\ requests' \in [Slots -> RequestType \cup {None}]
      /\ \A p \in Slots : p # q => requests'[p] = requests[p]
      /\ Sound(requests'[q], Known)
      /\ Holds(q)' <=> Holds(q)
    BY ToMoves
<1>5. page' \in [Clients -> 0..MaxSessions] /\ page' = page
    BY DEF Inv, Types
<1>6. /\ lock' = IF Holds(q)' THEN q ELSE IF lock = q THEN None ELSE lock
      /\ Holds(q)' => lock \in {None, q} /\ ~scene
    BY <1>1, <1>4 DEF Holds
<1> QED BY <1>3, <1>4, <1>5, <1>6, RequestStep

LEMMA RefreshKeeps ==
    ASSUME Inv, NEW q \in Slots, requests[q] # None, Refresh(q)
    PROVE  Inv'
<1> DEFINE r == requests[q]
           s == r.session
           seen == r.seen[s]
<1>1. /\ r.at = "read" /\ r.op \in {"heartbeat", "current"} /\ r.at \in AtWork
      /\ UNCHANGED <<lock, scene, page>>
    BY DEF Refresh, AtWork
<1>2. /\ r \in RequestType /\ Sound(r, Known) /\ s \in Sessions
      /\ Locked(r.op) => lock = q /\ ~scene
      /\ lock = q <=> Holds(q)
    BY <1>1, AtWorkFacts
<1>3. seen \in Row /\ s \in Known /\ rows[s] \in Row
    BY <1>1, <1>2 DEF Sound, Live, RequestType, Inv, Types, Known
<1>4. seen.epoch \in Nat
    BY <1>3 DEF Row
<1>5. ASSUME seen.age = Lapsed, To(q, "done"), rows' = [rows EXCEPT ![s] = Ended(@, "ordinary", seen.epoch)]
      PROVE  Inv'
    <2> DEFINE e == Ended(rows[s], "ordinary", seen.epoch)
    <2>1. e \in Row /\ e.status = "ended"
        BY <1>3, <1>4, EndedRow
    <2>2. rows' = [rows EXCEPT ![s] = e]
        BY <1>5
    <2> HIDE DEF e
    <2> QED BY <1>1, <1>3, <1>5, <2>1, <2>2, WriteStep
<1>6. ASSUME To(q, "marked"), rows' = [rows EXCEPT ![s] = MarkedStale(@)]
      PROVE  Inv'
    <2> DEFINE e == MarkedStale(rows[s])
    <2>1. e \in Row /\ e.status = "stale"
        BY <1>3, StaleRow
    <2>2. rows' = [rows EXCEPT ![s] = e]
        BY <1>6
    <2> HIDE DEF e
    <2> QED BY <1>1, <1>3, <1>6, <2>1, <2>2, WriteStep
<1>7. ASSUME r.op = "heartbeat", To(q, "done"), rows' = [rows EXCEPT ![s] = Resumed(@)]
      PROVE  Inv'
    <2> DEFINE e == Resumed(rows[s])
    <2>1. e \in Row /\ e.status = "active"
        BY <1>3, ResumedRow
    <2>2. rows' = [rows EXCEPT ![s] = e]
        BY <1>7
    <2> HIDE DEF e
    <2> QED BY <1>1, <1>3, <1>7, <2>1, <2>2, WriteStep
<1>8. ASSUME r.op = "current", Back(q, TRUE), rows' = rows
      PROVE  Inv'
    <2>1. /\ requests' \in [Slots -> RequestType \cup {None}]
          /\ \A p \in Slots : p # q => requests'[p] = requests[p]
          /\ Sound(requests'[q], Known)
          /\ ~Holds(q)'
        BY <1>3, <1>8, BackMoves
    <2>2. page' \in [Clients -> 0..MaxSessions] /\ page' = page
        BY <1>1 DEF Inv, Types
    <2>3. lock # q
        BY <1>1, <1>2, <1>8 DEF Holds, Locked
    <2> QED BY <1>1, <1>8, <2>1, <2>2, <2>3, QuietStep
<1> QED BY <1>5, <1>6, <1>7, <1>8 DEF Refresh

LEMMA ResumingMoves ==
    ASSUME Inv, NEW q \in Slots, requests[q] # None, requests[q].at \in AtWork,
           requests[q].op = "heartbeat", NEW s \in Known, s = requests[q].session, Live(rows[s]),
           requests' = [requests EXCEPT ![q].at = "resuming", ![q].seen = Copy({s})]
    PROVE  /\ requests' \in [Slots -> RequestType \cup {None}]
           /\ \A p \in Slots : p # q => requests'[p] = requests[p]
           /\ Sound(requests'[q], Known)
           /\ Holds(q)' <=> Holds(q)
<1> DEFINE r == requests[q]
<1>1. r \in RequestType /\ Sound(r, Known)
    BY DEF Inv, Types, AllSound
<1>2. /\ Copy({s}) \in [Sessions -> Row \cup {None}]
      /\ Copy({s})[s] = rows[s]
      /\ \A t \in Sessions : Copy({s})[t] # None => t \in Known
    BY DEF Copy, Known, Inv, Types
<1>3. /\ requests'[q] \in RequestType
      /\ requests'[q].op = r.op /\ requests'[q].session = r.session
      /\ requests'[q].at = "resuming" /\ requests'[q].seen = Copy({s})
    BY <1>1, <1>2 DEF RequestType, Inv, Types, AtWork
<1>4. Live(requests'[q].seen[s])
    BY <1>2, <1>3
<1>5. Sound(requests'[q], Known)
    BY <1>1, <1>2, <1>3, <1>4 DEF Sound, AtWork, Known
<1>6. Holds(q)' <=> Holds(q)
    BY <1>1, <1>3, NoneApart DEF Holds, AtWork
<1>7. /\ requests' \in [Slots -> RequestType \cup {None}]
      /\ \A p \in Slots : p # q => requests'[p] = requests[p]
    BY <1>3 DEF Inv, Types
<1> QED BY <1>5, <1>6, <1>7

LEMMA RereadKeeps ==
    ASSUME Inv, NEW q \in Slots, requests[q] # None, Reread(q) \/ Resume(q)
    PROVE  Inv'
<1> DEFINE r == requests[q]
           s == r.session
<1>1. /\ r.at \in {"marked", "resuming"} /\ r.at \in AtWork
      /\ UNCHANGED <<lock, scene, page>>
    BY DEF Reread, Resume, AtWork
<1>2. /\ r \in RequestType /\ Sound(r, Known) /\ s \in Sessions
    BY <1>1, AtWorkFacts
<1>3. s \in Known /\ rows[s] \in Row
    BY <1>1, <1>2 DEF Sound, Inv, Types, Known
<1>4. CASE Reread(q)
    <2>1. rows' = rows
        BY <1>4 DEF Reread
    <2>2. /\ requests' \in [Slots -> RequestType \cup {None}]
          /\ \A p \in Slots : p # q => requests'[p] = requests[p]
          /\ Sound(requests'[q], Known)
          /\ Holds(q)' <=> Holds(q)
        <3>1. CASE To(q, "done")
            BY <1>1, <1>3, <3>1, ToMoves
        <3>2. CASE /\ r.op = "heartbeat" /\ Live(rows[s])
                   /\ requests' = [requests EXCEPT ![q].at = "resuming", ![q].seen = Copy({s})]
            BY <1>1, <1>2, <1>3, <3>2, ResumingMoves
        <3> QED BY <1>4, <3>1, <3>2 DEF Reread
    <2>3. /\ Locked(r.op) => lock = q /\ ~scene
          /\ lock = q <=> Holds(q)
        BY <1>1, AtWorkFacts
    <2>4. /\ lock' = IF Holds(q)' THEN q ELSE IF lock = q THEN None ELSE lock
          /\ Holds(q)' => lock \in {None, q} /\ ~scene
        BY <1>1, <2>2, <2>3 DEF Holds
    <2>5. page' \in [Clients -> 0..MaxSessions] /\ page' = page
        BY <1>1 DEF Inv, Types
    <2> QED BY <1>1, <2>1, <2>2, <2>4, <2>5, QuietStep
<1>5. CASE Resume(q)
    <2> DEFINE e == Resumed(rows[s])
    <2>1. e \in Row /\ e.status = "active"
        BY <1>3, ResumedRow
    <2>2. rows' = [rows EXCEPT ![s] = e] /\ To(q, "done") /\ r.op = "heartbeat"
        BY <1>2, <1>5 DEF Resume, Sound
    <2> HIDE DEF e
    <2> QED BY <1>1, <1>3, <2>1, <2>2, WriteStep
<1> QED BY <1>4, <1>5

LEMMA EndKeeps ==
    ASSUME Inv, NEW q \in Slots, requests[q] # None, End(q)
    PROVE  Inv'
<1> DEFINE r == requests[q]
           s == r.session
           epoch == r.seen[s].epoch + (IF r.reason = "safety" THEN 1 ELSE 0)
           e == Ended(rows[s], r.reason, epoch)
<1>1. /\ r.at = "read" /\ r.op = "end" /\ r.at \in AtWork
      /\ UNCHANGED <<lock, scene, page>>
      /\ rows' = [rows EXCEPT ![s] = e] /\ To(q, "done")
    BY DEF End, AtWork
<1>2. /\ r \in RequestType /\ Sound(r, Known) /\ s \in Sessions
    BY <1>1, AtWorkFacts
<1>3. r.seen[s] \in Row /\ s \in Known /\ rows[s] \in Row /\ r.reason \in {"none", "ordinary", "safety"}
    BY <1>1, <1>2 DEF Sound, Live, RequestType, Inv, Types, Known
<1>4. epoch \in Nat
    BY <1>3 DEF Row
<1>5. e \in Row /\ e.status = "ended"
    <2> HIDE DEF epoch
    <2> QED BY <1>3, <1>4, EndedRow
<1> HIDE DEF e
<1> QED BY <1>1, <1>3, <1>5, WriteStep

LEMMA AnswerKeeps ==
    ASSUME Inv, NEW q \in Slots, requests[q] # None, Answer(q)
    PROVE  Inv'
<1> DEFINE r == requests[q]
<1>1. /\ r.at = "done" /\ r.at \in AtWork /\ rows' = rows /\ scene' = scene /\ page' = page
      /\ Back(q, Live(rows[r.session])) /\ lock' = IF lock = q THEN None ELSE lock
    BY DEF Answer, AtWork, Release
<1>2. r.session \in Known
    BY <1>1, AtWorkFacts DEF Sound
<1>3. Live(rows[r.session]) \in BOOLEAN
    BY Zenon DEF Live
<1>4. /\ requests' \in [Slots -> RequestType \cup {None}]
      /\ \A p \in Slots : p # q => requests'[p] = requests[p]
      /\ Sound(requests'[q], Known)
      /\ ~Holds(q)'
    BY <1>1, <1>2, <1>3, BackMoves
<1>5. page' \in [Clients -> 0..MaxSessions]
    BY <1>1 DEF Inv, Types
<1> QED BY <1>1, <1>4, <1>5, QuietStep

LEMMA StartKeeps ==
    ASSUME Inv, NEW q \in Slots, requests[q] # None, Start(q)
    PROVE  Inv'
<1> DEFINE r == requests[q]
           s == r.session
           new(epoch) == [status |-> "active", owner |-> q[1], epoch |-> epoch,
                          age |-> Fresh, reason |-> "none"]
<1>1. /\ r.at = "read" /\ r.op = "start" /\ r.at \in AtWork /\ To(q, "done")
      /\ UNCHANGED <<lock, scene, page>>
    BY DEF Start, AtWork
<1>2. /\ r \in RequestType /\ Sound(r, Known) /\ s \in Sessions
      /\ lock = q /\ ~scene /\ Holds(q)
    BY <1>1, AtWorkFacts DEF Locked
<1>3. PICK epoch \in {0} \cup {r.seen[t].epoch : t \in {u \in Sessions : r.seen[u] # None}} :
          rows' = [t \in Sessions |->
                     IF t = s THEN new(epoch)
                     ELSE IF Live(r.seen[t])
                          THEN Ended(rows[t], "ordinary", r.seen[t].epoch)
                          ELSE rows[t]]
    BY <1>1 DEF Start
<1>4. \A t \in Sessions : r.seen[t] # None => r.seen[t] \in Row /\ r.seen[t].epoch \in Nat
    BY <1>2 DEF RequestType, Row
<1>5. new(epoch) \in Row /\ new(epoch).status = "active"
    <2>1. epoch \in Nat /\ q[1] \in Clients
        BY <1>3, <1>4 DEF Slots
    <2> QED BY <2>1 DEF Row
<1>6. ASSUME NEW t \in Sessions
      PROVE  /\ rows'[t] \in Row \cup {None}
             /\ rows'[t] # None <=> t \in Known \/ t = s
    <2>1. CASE t = s
        <3>1. rows'[t] = new(epoch)
            BY <1>3, <2>1
        <3> HIDE DEF new
        <3> QED BY <1>5, <2>1, <3>1, NoneApart
    <2>2. CASE t # s /\ Live(r.seen[t])
        <3>1. r.seen[t] # None /\ t \in Known /\ rows[t] \in Row
            BY <1>2, <2>2 DEF Live, Sound, Known, Inv, Types
        <3> DEFINE n == r.seen[t].epoch
        <3>2. rows'[t] = Ended(rows[t], "ordinary", n)
            BY <1>3, <2>2
        <3>3. rows'[t] \in Row
            <4>1. n \in Nat /\ "ordinary" \in {"none", "ordinary", "safety"}
                BY <1>4, <3>1
            <4> HIDE DEF n
            <4> QED BY <3>1, <3>2, <4>1, EndedRow
        <3> QED BY <3>1, <3>3, NoneApart
    <2>3. CASE t # s /\ ~Live(r.seen[t])
        <3>1. rows'[t] = rows[t]
            BY <1>3, <2>3
        <3> QED BY <2>3, <3>1 DEF Inv, Types, Known
    <2> QED BY <2>1, <2>2, <2>3
<1>7. /\ rows' \in [Sessions -> Row \cup {None}] /\ Known' = Known \cup {s}
    <2>1. rows' \in [Sessions -> Row \cup {None}]
        BY <1>3, <1>6
    <2>2. Known' = Known \cup {s}
        BY <1>2, <1>6 DEF Known
    <2> QED BY <2>1, <2>2
<1>8. Counted' /\ s \in Known'
    <2>1. Known = 1..(s - 1) /\ s \in 1..MaxSessions
        BY <1>1, <1>2 DEF Sound, Sessions
    <2>2. Known' = 1..s /\ s \in 0..MaxSessions
        BY <1>7, <2>1, ControlAssumption
    <2> QED BY <1>7, <2>2 DEF Counted
<1>9. /\ requests' \in [Slots -> RequestType \cup {None}]
      /\ \A p \in Slots : p # q => requests'[p] = requests[p]
      /\ Sound(requests'[q], Known')
      /\ Holds(q)' <=> Holds(q)
    <2> DEFINE known == Known'
    <2>1. s \in known
        BY <1>8
    <2> HIDE DEF known
    <2>2. /\ requests' \in [Slots -> RequestType \cup {None}]
          /\ \A p \in Slots : p # q => requests'[p] = requests[p]
          /\ Sound(requests'[q], known)
          /\ Holds(q)' <=> Holds(q)
        BY <1>1, <2>1, ToMoves
    <2> QED BY <2>2 DEF known
<1>10. AllSound'
    <2> SUFFICES ASSUME NEW p \in Slots, requests'[p] # None PROVE Sound(requests'[p], Known')
        BY DEF AllSound
    <2>1. CASE p = q
        BY <1>9, <2>1
    <2>2. CASE p # q
        <3>1. requests'[p] = requests[p] /\ Sound(requests[p], Known)
            BY <1>9, <2>2 DEF Inv, AllSound
        <3>2. ~(requests[p].at = "read" /\ requests[p].op = "start")
            BY <1>2, <2>2, <3>1 DEF Inv, LockHeld, Holds, Locked, AtWork
        <3> QED BY <1>7, <3>1, <3>2 DEF Sound
    <2> QED BY <2>1, <2>2
<1>11. LockHeld' /\ Pages' /\ Apart'
    <2>1. LockHeld'
        BY <1>1, <1>9 DEF Inv, LockHeld, Holds
    <2>2. Pages'
        BY <1>1, <1>7 DEF Inv, Pages
    <2>3. Apart'
        BY <1>1, <1>2, NoneApart DEF Apart
    <2> QED BY <2>1, <2>2, <2>3
<1>12. Types'
    BY <1>1, <1>7, <1>9, Zenon DEF Inv, Types
<1> QED BY <1>7, <1>8, <1>10, <1>11, <1>12 DEF Inv

-----------------------------------------------------------------------------
LEMMA NextKeeps ==
    ASSUME Inv, [Next]_vars
    PROVE  Inv'
<1>1. CASE \E c \in Clients : \/ Beat(c) \/ AskSnapshot(c) \/ AskRecover(c) \/ AskStart(c)
                              \/ \E reason \in {"ordinary", "safety"} : AskEnd(c, reason)
    BY <1>1, AskKeeps
<1>2. ASSUME NEW q \in Slots, Serve(q)
      PROVE  Inv'
    <2>1. requests[q] # None
        BY <1>2 DEF Serve
    <2>2. CASE Refused(q)
        BY <2>2, FailKeeps
    <2>3. CASE Read(q)
        BY <2>1, <2>3, ReadKeeps
    <2>4. CASE Refresh(q)
        BY <2>1, <2>4, RefreshKeeps
    <2>5. CASE Reread(q) \/ Resume(q)
        BY <2>1, <2>5, RereadKeeps
    <2>6. CASE Start(q)
        BY <2>1, <2>6, StartKeeps
    <2>7. CASE End(q)
        BY <2>1, <2>7, EndKeeps
    <2>8. CASE Answer(q)
        BY <2>1, <2>8, AnswerKeeps
    <2> QED BY <1>2, <2>2, <2>3, <2>4, <2>5, <2>6, <2>7, <2>8 DEF Serve
<1>3. ASSUME NEW q \in Slots, Take(q) \/ Lose(q)
      PROVE  Inv'
    BY <1>3, TakeKeeps, FailKeeps
<1>4. CASE SceneAsks \/ SceneEnters \/ SceneEnds
    BY <1>4, SceneKeeps
<1>5. CASE Restart
    BY <1>5, RestartKeeps
<1>6. CASE Tick
    BY <1>6, TickKeeps
<1>7. CASE UNCHANGED vars
    <2>1. Known' = Known /\ LiveSessions' = LiveSessions
        BY <1>7 DEF vars, Known, LiveSessions
    <2>2. Types'
        BY <1>7, Zenon DEF vars, Inv, Types
    <2> QED BY <1>7, <2>1, <2>2 DEF vars, Inv, LockHeld, Holds, AllSound, Pages, Counted,
                                   Apart, NoneActive
<1> QED BY <1>1, <1>2, <1>3, <1>4, <1>5, <1>6, <1>7 DEF Next

THEOREM InvHolds == Spec => []Inv
BY InitInv, NextKeeps, PTL DEF Spec

(* Every variable has its type, however many pages ask at once and however *)
(* many sessions they start; and whoever holds control_mode_lock is a      *)
(* request at work, which lets go of it when it is answered.               *)
THEOREM TypesHold == Spec => []TypeOK
<1>1. Inv => TypeOK
    BY Zenon DEF Inv, Types, LockHeld, Holds, TypeOK
<1> QED BY <1>1, InvHolds, PTL

(* While a scene occupies control no session of legacy control is active   *)
(* within its heartbeat's time, for any pages, requests and interleavings  *)
(* of theirs with the scene's start.  (A late reader may still mark a      *)
(* session stale, which commands nothing.)                                 *)
THEOREM ScenesAreAlone == Spec => []SceneAlone
<1>1. Inv => SceneAlone
    BY DEF Inv, Apart, NoneActive, SceneAlone
<1> QED BY <1>1, InvHolds, PTL

-----------------------------------------------------------------------------
(* Who is about to write a row that has ended read it while it was live,   *)
(* and was overtaken by who ended it.                                      *)
LEMMA ServeSpares ==
    ASSUME Inv, NEW q \in Slots, Serve(q), NEW s \in Known, rows[s].status = "ended",
           ~Overtaken(q, s)
    PROVE  rows'[s] = rows[s]
<1> DEFINE r == requests[q]
<1>1. s \in Sessions /\ r # None
    BY DEF Known, Serve
<1>2. CASE Refused(q) \/ Read(q) \/ Reread(q) \/ Answer(q)
    BY <1>2 DEF Refused, Read, Reread, Answer
<1>3. CASE Refresh(q) \/ End(q) \/ Resume(q)
    <2>1. r.at \in {"read", "resuming"} /\ r.op # "start" /\ r.at \in AtWork
        <3>1. r.at \in {"read", "resuming"} /\ r.at \in AtWork
            BY <1>3 DEF Refresh, End, Resume, AtWork
        <3>2. Sound(r, Known)
            BY <1>1, <3>1, AtWorkFacts
        <3> QED BY <1>3, <3>1, <3>2 DEF Refresh, End, Resume, Sound
    <2>2. r.session # s
        <3>1. Sound(r, Known)
            BY <1>1, <2>1, AtWorkFacts
        <3>2. Live(r.seen[r.session])
            BY <2>1, <3>1 DEF Sound
        <3> QED BY <1>1, <2>1, <3>2 DEF Overtaken, Live
    <2>3. rows' = rows \/ \E e : rows' = [rows EXCEPT ![r.session] = e]
        BY <1>3 DEF Refresh, End, Resume
    <2> QED BY <1>1, <2>2, <2>3 DEF Inv, Types
<1>4. CASE Start(q)
    <2>1. r.at = "read" /\ r.op = "start" /\ r.at \in AtWork
        BY <1>4 DEF Start, AtWork
    <2>2. Known = 1..(r.session - 1) /\ r.session \in Sessions
        BY <1>1, <2>1, AtWorkFacts DEF Sound
    <2>3. s # r.session
        BY <2>2, ControlAssumption DEF Sessions
    <2>4. ~Live(r.seen[s])
        BY <1>1, <2>1 DEF Overtaken, Live
    <2> QED BY <1>1, <1>4, <2>3, <2>4 DEF Start
<1> QED BY <1>2, <1>3, <1>4 DEF Serve

(* An ended session keeps its end, the reason and the epoch, whatever      *)
(* pages, other requests, scenes and restarts do, unless a request that    *)
(* read it while it was live has yet to write: no start, heartbeat, end or *)
(* recovery that reads it afterwards touches it (service.py).              *)
THEOREM TombstonesStand == Spec => TombstoneStands
<1>1. ASSUME Inv, [Next]_vars, NEW s \in Sessions, rows[s] # None, rows[s].status = "ended",
             \A q \in Slots : ~Overtaken(q, s)
      PROVE  rows'[s] = [rows[s] EXCEPT !.age = rows'[s].age]
    <2>1. s \in Known /\ rows[s] \in Row
        BY <1>1 DEF Known, Inv, Types
    <2> SUFFICES rows'[s] = rows[s] \/ Tick
        <3>1. rows[s] = [rows[s] EXCEPT !.age = rows[s].age]
            BY <2>1 DEF Row
        <3>2. ASSUME Tick PROVE rows'[s] = [rows[s] EXCEPT !.age = rows'[s].age]
            BY <1>1, <2>1, <3>2 DEF Tick, Aged, Row
        <3> QED BY <3>1, <3>2
    <2>2. ASSUME NEW q \in Slots, Serve(q)
          PROVE  rows'[s] = rows[s]
        BY <1>1, <2>1, <2>2, ServeSpares
    <2>3. CASE \/ \E c \in Clients : \/ Beat(c) \/ AskSnapshot(c) \/ AskRecover(c) \/ AskStart(c)
                                     \/ \E reason \in {"ordinary", "safety"} : AskEnd(c, reason)
               \/ \E q \in Slots : Take(q) \/ Lose(q)
               \/ SceneAsks \/ SceneEnters \/ SceneEnds \/ Restart
        BY <2>3 DEF Beat, AskSnapshot, AskRecover, AskStart, AskEnd, Take, Lose,
                    SceneAsks, SceneEnters, SceneEnds, Restart
    <2>4. CASE UNCHANGED vars
        BY <2>4 DEF vars
    <2> QED BY <1>1, <2>2, <2>3, <2>4 DEF Next
<1>2. Inv /\ [Next]_vars =>
          [\A s \in Sessions :
              /\ rows[s] # None /\ rows[s].status = "ended"
              /\ \A q \in Slots : ~Overtaken(q, s)
              => rows'[s] = [rows[s] EXCEPT !.age = rows'[s].age]]_vars
    BY <1>1
<1> QED BY <1>2, InvHolds, PTL DEF Spec, TombstoneStands
=============================================================================
