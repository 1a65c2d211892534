----------------------------- MODULE SceneLink -----------------------------
(***************************************************************************)
(* One scene, from its start to its end: the server that decides what the  *)
(* toys play (app/scenes/session.py), the phone that plays it              *)
(* (SceneDeviceBridge, SceneOutputPlayer, and SceneLease as it stands in   *)
(* its own module), the page that starts the phone's run                   *)
(* (scene_runtime.js, scene_hardware.js), and the network between them.    *)
(*                                                                         *)
(* The phone plays on its own while its lease lives and polls to renew it; *)
(* polls, replies and orders travel for any time and may be lost.  The     *)
(* server never reaches for the phone: pausing only changes what the next  *)
(* poll is told.  One device stands for all of them.  Frames, which change *)
(* no generation, program or deadline, are left to SceneLease.             *)
(*                                                                         *)
(* What the server decides for reasons of its own (a compiled sequence, a  *)
(* failed model, a safeword, a timeout of its tick) may happen at any time *)
(* the status allows.                                                      *)
(***************************************************************************)
EXTENDS Integers, Sequences

CONSTANTS
    Scene, NoSession,   \* the scene's id; the empty id
    TTL, MaxRtt,        \* TTL_MS and MAX_RTT_MS of the lease
    Interval,           \* from one poll of a run to the next
    MaxClock,           \* bounds of the checked instance: ticks,
    MaxGeneration,      \* generations,
    MaxVersion,         \* programs arranged by the compiler
    MaxRequests         \* and polls

ASSUME LinkAssumption ==
    /\ Scene # NoSession
    /\ TTL \in Nat \ {0} /\ MaxRtt \in Nat /\ MaxRtt < 2 * TTL
    /\ Interval \in Nat \ {0}
    /\ MaxClock \in Nat /\ MaxGeneration \in Nat
    /\ MaxVersion \in Nat /\ MaxRequests \in Nat

VARIABLES
    \* the phone's lease (SceneLease)
    clock, session, generation, token, deadline, request, requestedAt, closed,
    opened, asked, answered,
    \* the server's runtime of the scene
    status, gen,        \* row["status"], or "gone"; row["generation"]
    sound,              \* the program on offer: its version, and does it play
    believed,           \* version the server takes to be playing, 0 if none
    waning, revealed,   \* phase is aftercare; the card was revealed
    \* the network
    wire,               \* polls on their way
    reply,              \* the answer on its way to the run that asked
    orders,             \* generations the phone or the page asks to pause
    grants,             \* generations the page was told it may start
    \* the phone
    run,                \* the bridge's run
    stopped,            \* history: generations whose run was stopped
    adopted             \* history: versions the phone ever played

Lease == INSTANCE SceneLease WITH
    Sessions <- {Scene}, Drivers <- {}, MaxRevision <- 0, frames <- <<>>

lease == <<clock, session, generation, token, deadline, request, requestedAt,
           closed, opened, asked, answered>>
server == <<status, gen, sound, believed, waning, revealed>>
vars == <<lease, server, wire, reply, orders, grants, run, stopped, adopted>>

Live == {"preparing", "active"}
Statuses == Live \cup {"paused", "ended", "gone"}
NoRun == [gen |-> -1]
NoReply == [nonce |-> 0]
Running == run # NoRun

Program == [version |-> 0, on |-> FALSE]

(* start() has answered the page; nothing plays yet.                       *)
Init ==
    /\ Lease!Init
    /\ status = "preparing" /\ gen = 0
    /\ sound = Program /\ believed = 0
    /\ waning = FALSE /\ revealed = FALSE
    /\ wire = {} /\ reply = NoReply /\ orders = {} /\ grants = {0}
    /\ run = NoRun /\ stopped = {} /\ adopted = {}

-----------------------------------------------------------------------------
(* The server.                                                             *)

(* _stop_devices(): a new version that plays nothing.                      *)
Silence ==
    /\ sound' = [version |-> sound.version + 1, on |-> FALSE]
    /\ believed' = 0

(* _pause_locked(): a scene still in preparation ends instead.             *)
Pause ==
    /\ status' = IF status = "preparing" THEN "ended" ELSE "paused"
    /\ gen' = gen + 1
    /\ Silence
    /\ UNCHANGED <<waning, revealed>>

Elsewhere == UNCHANGED <<lease, wire, reply, run, stopped, adopted>>

(* _prepare(): a card was found and consumed.                              *)
Enter ==
    /\ status = "preparing" /\ status' = "active"
    /\ UNCHANGED <<gen, sound, believed, waning, revealed, orders, grants>>
    /\ Elsewhere

(* _compile(): a sequence for the newest intent, or a stop.                *)
Arrange(on) ==
    /\ status = "active" /\ sound.version < MaxVersion
    /\ sound' = [version |-> sound.version + 1, on |-> on]
    /\ UNCHANGED <<status, gen, believed, waning, revealed, orders, grants>>
    /\ Elsewhere

(* _aftercare_locked(): the scene winds down under its generation.         *)
WindDown ==
    /\ status \in {"active", "paused"} /\ ~waning
    /\ waning' = TRUE
    /\ Silence
    /\ UNCHANGED <<status, gen, revealed, orders, grants>>
    /\ Elsewhere

(* A safeword, panic, a failed model or compiler, a lost device, a tick    *)
(* that misses the phone.                                                  *)
ServerPauses ==
    /\ status \in Live /\ Pause
    /\ UNCHANGED <<orders, grants>> /\ Elsewhere

(* action("resume") of the page, whose answer grants the new generation.   *)
Resume ==
    /\ status = "paused" /\ gen + 1 < MaxGeneration
    /\ status' = "active" /\ gen' = gen + 1
    /\ Silence
    /\ grants' = grants \cup {gen + 1}
    /\ UNCHANGED <<waning, revealed, orders>> /\ Elsewhere

(* _end_locked(), with or without revealing the card.                      *)
End(reveal) ==
    /\ gen < MaxGeneration
    /\ \/ /\ status \in Live \cup {"paused"}
          /\ Silence
       \/ /\ status = "ended" /\ reveal /\ ~revealed
          /\ UNCHANGED <<sound, believed>>
    /\ status' = "ended" /\ gen' = gen + 1 /\ revealed' = (revealed \/ reveal)
    /\ UNCHANGED <<waning, orders, grants>> /\ Elsewhere

(* The process is gone and its runtimes with it; what comes up again knows *)
(* the scene only as ended and answers 404 to all that follows.            *)
ServerDies ==
    /\ status # "gone" /\ status' = "gone"
    /\ UNCHANGED <<gen, sound, believed, waning, revealed, orders, grants>>
    /\ Elsewhere

(* action("pause") or ("end") of a page or a phone that tries again: only  *)
(* for the generation it was meant for (the change: for any).              *)
BadMeant(g) == status \in Live
Meant(g) == g = gen /\ status \in Live

(* Its answer may be lost, and the order then comes again.                 *)
HandleOrder(g) ==
    /\ status # "gone"
    /\ orders' \in {orders, orders \ {g}}
    /\ IF Meant(g) THEN Pause ELSE UNCHANGED server
    /\ UNCHANGED grants /\ Elsewhere

(* output(): what the poll says was adopted is believed if it is what is   *)
(* on offer (the changes: as it stands; if anything was adopted) ...       *)
BadAck(m) == m.ack
BadBelief(m) == IF m.ack >= 0 THEN (IF sound.on THEN sound.version ELSE 0) ELSE believed
Belief(m) ==
    IF m.ack = sound.version THEN (IF sound.on THEN sound.version ELSE 0)
    ELSE believed

(* ... and the answer is the state of that moment; it reaches the run only *)
(* if that still waits for it.                                             *)
Answer(m) ==
    [nonce |-> m.nonce, gen |-> gen', status |-> status', at |-> clock,
     version |-> IF status' \in Live THEN sound'.version ELSE 0,
     on |-> status' = "active" /\ sound'.on]

HandlePoll(m) ==
    /\ status # "gone"
    /\ \/ /\ m.gen # gen \/ status \notin Live
          /\ UNCHANGED server
       \/ /\ m.gen = gen /\ status \in Live /\ ~m.connected
          /\ Pause
       \/ /\ m.gen = gen /\ status \in Live /\ m.connected
          /\ believed' = Belief(m)
          /\ UNCHANGED <<status, gen, sound, waning, revealed>>
    /\ wire' = wire \ {m}
    /\ reply' = IF Running /\ run.poll = m.nonce THEN Answer(m) ELSE reply
    /\ UNCHANGED <<lease, orders, grants, run, stopped, adopted>>

-----------------------------------------------------------------------------
(* The phone and its page.                                                 *)

Stay == UNCHANGED <<server, wire>>

(* SceneHardware.authorize() and bridge.begin(): a grant may be used late, *)
(* and again when start() is repeated under its request_id.                *)
Begin(g) ==
    /\ ~Running
    /\ Lease!Open(Scene, g)
    /\ run' = [gen |-> g, poll |-> 0, last |-> clock - Interval,
               version |-> -1, on |-> FALSE, vouch |-> NoReply]
    /\ UNCHANGED <<reply, orders, grants, stopped, adopted>> /\ Stay

(* outputFailed() and the other pauses of the page: for the generation of  *)
(* whatever state of the scene it saw last.                                *)
PageAsks(g) ==
    /\ g <= gen
    /\ orders' = orders \cup {g}
    /\ UNCHANGED <<lease, reply, grants, run, stopped, adopted>> /\ Stay

(* stopInternal(): the lease closes, and the pause is to be told or not.   *)
Halt(told) ==
    /\ run' = NoRun /\ reply' = NoReply
    /\ orders' = orders \cup told
    /\ stopped' = stopped \cup {run.gen}
    /\ UNCHANGED <<grants, adopted>> /\ Stay

Stop == Running /\ Lease!Close

(* pulse() with a living lease: poll() once a second, one at a time.       *)
Poll(connected) ==
    /\ Running /\ run.poll = 0 /\ clock - run.last >= Interval
    /\ Lease!Request(token)
    /\ wire' = wire \cup {[nonce |-> request + 1, gen |-> run.gen,
                           ack |-> run.version, connected |-> connected]}
    /\ run' = [run EXCEPT !.poll = request + 1, !.last = clock]
    /\ UNCHANGED <<server, reply, orders, grants, stopped, adopted>>

(* pulse() with a lease that ran out.                                      *)
Expire == ~Lease!Alive(token) /\ Stop /\ Halt({run.gen})

(* accept(): the answer must be for this generation and a living scene ... *)
Valid == reply.gen = run.gen /\ reply.status \in Live

(* ... and a program already loaded is kept unless a newer one comes (the  *)
(* change: it is kept).                                                    *)
BadNewer == run.version < 0
Newer == reply.version > run.version

Loaded == IF Newer THEN [version |-> reply.version, on |-> reply.on]
                   ELSE [version |-> run.version, on |-> run.on]

(* receive(): the lease is renewed and the program taken over ...          *)
Accept ==
    /\ reply # NoReply /\ Valid
    /\ Lease!Renew(token, reply.nonce)
    /\ run' = [run EXCEPT !.poll = 0, !.version = Loaded.version,
                          !.on = Loaded.on, !.vouch = reply]
    /\ adopted' = IF Loaded.on THEN adopted \cup {Loaded.version} ELSE adopted
    /\ reply' = NoReply
    /\ UNCHANGED <<orders, grants, stopped>> /\ Stay

(* ... or the run stops, told to by the server or for want of a lease.     *)
Reject ==
    /\ reply # NoReply
    /\ ~(Valid /\ Lease!InTime(token, reply.nonce))
    /\ Stop
    /\ Halt(IF Valid THEN {run.gen} ELSE {})

(* No answer in time, an error, or 404.                                    *)
PollFails == Running /\ run.poll # 0 /\ Stop /\ Halt({run.gen})

(* The user stops on the phone, a driver is lost, the service is killed.   *)
PhoneStops == Stop /\ Halt({run.gen})

(* observe(): the page saw a later state of the scene.                     *)
Observe ==
    /\ Running /\ (gen > run.gen \/ status = "gone")
    /\ Stop /\ Halt({})

(* The app's process is killed: run, lease and page are gone, and with the *)
(* lease the memory of what was stopped.  The numbers of tokens and polls  *)
(* go on, which keeps those of different processes apart.                  *)
PhoneDies ==
    /\ token' = Lease!NoToken /\ closed' = Lease!Never
    /\ UNCHANGED <<clock, session, generation, deadline, request, requestedAt,
                   opened, asked, answered>>
    /\ run' = NoRun /\ reply' = NoReply /\ grants' = {}
    /\ stopped' = IF Running THEN stopped \cup {run.gen} ELSE stopped
    /\ UNCHANGED <<orders, adopted>> /\ Stay

TimePasses ==
    /\ Lease!Tick
    /\ UNCHANGED <<server, wire, reply, orders, grants, run, stopped, adopted>>

Next ==
    \/ Enter \/ WindDown \/ ServerPauses \/ Resume \/ ServerDies
    \/ \E on \in BOOLEAN : Arrange(on)
    \/ \E reveal \in BOOLEAN : End(reveal)
    \/ \E g \in orders : HandleOrder(g)
    \/ \E m \in wire : HandlePoll(m)
    \/ \E g \in grants : Begin(g)
    \/ \E g \in 0 .. MaxGeneration : PageAsks(g)
    \/ \E connected \in BOOLEAN : Poll(connected)
    \/ Expire \/ Accept \/ Reject \/ PollFails \/ PhoneStops \/ Observe
    \/ PhoneDies \/ TimePasses

Spec == Init /\ [][Next]_vars

-----------------------------------------------------------------------------
(* The type of every variable, numbers unbounded.                          *)
Reply == [nonce : Nat \ {0}, gen : Nat, status : Statuses, version : Nat,
          on : BOOLEAN, at : Nat]

Message == [nonce : Nat \ {0}, gen : Nat, ack : Int, connected : BOOLEAN]

Run == [gen : Nat, poll : Nat, last : Int, version : Int, on : BOOLEAN,
        vouch : Reply \cup {NoReply}]

TypeOK ==
    /\ Lease!TypeOK
    /\ status \in Statuses /\ gen \in Nat
    /\ sound \in [version : Nat, on : BOOLEAN] /\ believed \in Nat
    /\ waning \in BOOLEAN /\ revealed \in BOOLEAN
    /\ wire \subseteq Message
    /\ reply \in Reply \cup {NoReply}
    /\ orders \subseteq Nat /\ grants \subseteq Nat
    /\ run \in Run \cup {NoRun}
    /\ stopped \subseteq Nat /\ adopted \subseteq Nat

(* What the toys do: a program that plays, under a living lease.           *)
Playing == Running /\ Lease!Alive(token) /\ run.on

(* Whatever is playing, the server said less than TTL ago that it is to be *)
(* played: this program, in this generation, of a scene that was active.   *)
(* So TTL after a pause, an end, a wind-down, a new arrangement or a crash *)
(* of the server the toys are still or play the new program, whatever      *)
(* polls, replies and starts were on their way (accept, renew, output).    *)
Vouched ==
    Playing =>
        /\ run.vouch # NoReply
        /\ run.vouch.gen = run.gen /\ run.vouch.status = "active"
        /\ run.vouch.version = run.version /\ run.vouch.on
        /\ clock < run.vouch.at + TTL

(* A generation the phone has stopped plays no more, even when its grant   *)
(* comes late or again, or when the app was killed and has forgotten what  *)
(* it stopped (begin, SceneLease.open).                                    *)
StoppedForGood == Playing => run.gen \notin stopped

(* What the prompts are told is playing was played by the phone, in this   *)
(* run of the scene (output, actual_output).                               *)
ReportsWhatPlayed == believed # 0 => believed \in adopted

(* A poll or an order of an earlier generation, however late it comes,     *)
(* does not disturb the scene that was resumed since (action, output).     *)
OldMessagesSpare ==
    /\ \A m \in wire \ wire' : m.gen # gen => UNCHANGED server
    /\ \A g \in orders \ orders' : g # gen => UNCHANGED server
DelayedPausesSpareTheResumed == [][OldMessagesSpare]_vars
=============================================================================
