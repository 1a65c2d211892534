-------------------------- MODULE SceneLinkProofs --------------------------
(***************************************************************************)
(* Proofs about SceneLink, for any lease times and any number of           *)
(* generations, programs and polls.                                        *)
(*                                                                         *)
(* The argument: a reply is written after its poll was sent, so a lease    *)
(* that counts from the sending ends within TTL of the writing; and the    *)
(* version of the server never falls, so the program a reply leaves in     *)
(* place is the very program it offers.                                    *)
(***************************************************************************)
EXTENDS SceneLink, SequenceTheorems, TLAPS

Types ==
    /\ clock \in Nat /\ request \in Nat
    /\ deadline \in Int /\ requestedAt \in Int
    /\ status \in Statuses /\ gen \in Nat
    /\ sound \in [version : Nat, on : BOOLEAN]
    /\ wire \subseteq Message
    /\ reply \in Reply \cup {NoReply}
    /\ run \in Run \cup {NoRun}
    /\ grants \subseteq Nat

(* A reply belongs to the poll that the run waits for, and was written     *)
(* after that was sent.                                                    *)
Asked ==
    /\ requestedAt <= clock
    /\ reply # NoReply =>
           /\ Running /\ run.poll = reply.nonce
           /\ requestedAt <= reply.at

(* The phone's program, the reply's and the server's come one after the    *)
(* other, and equal versions are the same program.                         *)
Follows ==
    /\ status = "preparing" => ~sound.on
    /\ Running =>
           /\ run.version <= sound.version
           /\ run.version = sound.version => run.on = sound.on
    /\ reply # NoReply /\ reply.status \in Live =>
           /\ run.version <= reply.version /\ reply.version <= sound.version
           /\ reply.version = run.version => reply.on = run.on
           /\ reply.version = sound.version => reply.on = sound.on
           /\ reply.on => reply.status = "active"

(* Vouched, whether the lease still lives or not.                          *)
Bound ==
    Running /\ run.on =>
        /\ run.vouch # NoReply
        /\ run.vouch.gen = run.gen /\ run.vouch.status = "active"
        /\ run.vouch.version = run.version /\ run.vouch.on
        /\ deadline <= run.vouch.at + TTL

Inv == Types /\ Asked /\ Follows /\ Bound

LEMMA NotInTypes ==
    /\ NoRun \notin Run /\ NoReply \notin Reply
    /\ \A r \in Run : r # NoRun
    /\ \A r \in Reply : r # NoReply
BY DEF NoRun, NoReply, Run, Reply

(* What a step of the server alone may do to what the phone depends on.    *)
ServerMoves ==
    /\ status' \in Statuses /\ gen' \in Nat
    /\ sound' \in [version : Nat, on : BOOLEAN]
    /\ sound' = sound \/ sound'.version = sound.version + 1
    /\ status' = "preparing" => status = "preparing" /\ sound' = sound

LEMMA PauseMoves ==
    ASSUME Inv, status \in Live, Pause
    PROVE  ServerMoves
BY DEF Inv, Types, Pause, Silence, ServerMoves, Statuses, Live

LEMMA ServerSteps ==
    ASSUME Inv,
           \/ Enter \/ WindDown \/ ServerPauses \/ Resume \/ ServerDies
           \/ \E on \in BOOLEAN : Arrange(on)
           \/ \E reveal \in BOOLEAN : End(reveal)
           \/ \E g \in orders : HandleOrder(g)
    PROVE  ServerMoves /\ Elsewhere /\ grants' \subseteq Nat
<1>1. CASE Enter
    BY <1>1 DEF Inv, Types, Enter, Statuses, Live, ServerMoves
<1>2. CASE WindDown
    BY <1>2 DEF Inv, Types, WindDown, Silence, Statuses, Live, ServerMoves
<1>3. CASE ServerPauses
    BY <1>3, PauseMoves DEF Inv, Types, ServerPauses
<1>4. CASE Resume
    BY <1>4 DEF Inv, Types, Resume, Silence, Statuses, Live, ServerMoves
<1>5. CASE ServerDies
    BY <1>5 DEF Inv, Types, ServerDies, Statuses, Live, ServerMoves
<1>6. ASSUME NEW on \in BOOLEAN, Arrange(on)
      PROVE  ServerMoves /\ Elsewhere /\ grants' \subseteq Nat
    BY <1>6 DEF Inv, Types, Arrange, Statuses, Live, ServerMoves
<1>7. ASSUME NEW reveal \in BOOLEAN, End(reveal)
      PROVE  ServerMoves /\ Elsewhere /\ grants' \subseteq Nat
    <2>1. /\ status' = "ended" /\ gen' = gen + 1
          /\ sound' = [version |-> sound.version + 1, on |-> FALSE] \/ sound' = sound
          /\ grants' = grants /\ Elsewhere
        BY <1>7, Zenon DEF End, Silence
    <2>2. status' \in Statuses /\ status' # "preparing" /\ gen' \in Nat
        BY <2>1 DEF Inv, Types, Statuses, Live
    <2>3. CASE sound' = sound
        BY <2>1, <2>2, <2>3 DEF Inv, Types, ServerMoves
    <2>4. CASE sound' = [version |-> sound.version + 1, on |-> FALSE]
        BY <2>1, <2>2, <2>4 DEF Inv, Types, ServerMoves
    <2> QED BY <2>1, <2>3, <2>4
<1>8. ASSUME NEW g \in orders, HandleOrder(g)
      PROVE  ServerMoves /\ Elsewhere /\ grants' \subseteq Nat
    <2>1. CASE Meant(g)
        BY <1>8, <2>1, PauseMoves DEF Inv, Types, HandleOrder, Meant
    <2>2. CASE ~Meant(g)
        BY <1>8, <2>2 DEF Inv, Types, HandleOrder, server, ServerMoves
    <2> QED BY <2>1, <2>2
<1> QED BY <1>1, <1>2, <1>3, <1>4, <1>5, <1>6, <1>7, <1>8

(* Such a step leaves the invariant alone.                                 *)
LEMMA ServerStepsKeep ==
    ASSUME Inv, ServerMoves, Elsewhere, grants' \subseteq Nat
    PROVE  Inv'
<1> USE DEF Inv, ServerMoves, Elsewhere, lease
<1>1. Types'
    BY DEF Types
<1>2. Asked'
    BY DEF Asked, Running
<1>3. Follows'
    <2>1. status' = "preparing" => ~sound'.on
        BY DEF Follows
    <2>2. Running' => /\ run'.version <= sound'.version
                      /\ run'.version = sound'.version => run'.on = sound'.on
        <3>1. Running => run.version \in Int
            BY DEF Types, Running, Run, NoRun
        <3> QED BY <3>1 DEF Follows, Running, Types
    <2>3. reply # NoReply => reply.version \in Nat
        BY DEF Types, Reply
    <2> QED BY <2>1, <2>2, <2>3 DEF Follows, Types
<1>4. Bound'
    BY DEF Bound, Running
<1> QED BY <1>1, <1>2, <1>3, <1>4

(* The server answers a poll.                                              *)
LEMMA HandlePollKeeps ==
    ASSUME Inv, NEW m \in wire, HandlePoll(m)
    PROVE  Inv'
<1>1. ServerMoves
    <2>1. CASE status \in Live /\ Pause
        BY <2>1, PauseMoves
    <2>2. CASE UNCHANGED server
        BY <2>2 DEF Inv, Types, server, ServerMoves
    <2>3. CASE UNCHANGED <<status, gen, sound, waning, revealed>>
        BY <2>3 DEF Inv, Types, ServerMoves
    <2> QED BY <2>1, <2>2, <2>3 DEF HandlePoll
<1>2. m \in Message /\ Answer(m) \in Reply
    BY <1>1 DEF Inv, Types, Message, Reply, Answer, ServerMoves
<1>3. UNCHANGED <<lease, run, grants>> /\ wire' \subseteq Message
    BY DEF HandlePoll, Inv, Types
<1>4. Types'
    BY <1>1, <1>2, <1>3 DEF Inv, Types, HandlePoll, ServerMoves, lease
<1>5. Asked'
    <2>1. Answer(m).nonce = m.nonce /\ Answer(m).at = clock
        BY DEF Answer
    <2>2. CASE Running /\ run.poll = m.nonce
        BY <1>2, <1>3, <2>1, <2>2 DEF Inv, Asked, Types, HandlePoll, lease, Running
    <2>3. CASE ~(Running /\ run.poll = m.nonce)
        BY <1>3, <2>3 DEF Inv, Asked, HandlePoll, lease, Running
    <2> QED BY <2>2, <2>3
<1>6. Follows'
    <2>1. status' = "preparing" => ~sound'.on
        BY <1>1 DEF Inv, Follows, ServerMoves
    <2>2. Running => run.version \in Int
        BY DEF Inv, Types, Running, Run, NoRun
    <2>3. Running' => /\ run'.version <= sound'.version
                      /\ run'.version = sound'.version => run'.on = sound'.on
        BY <1>1, <1>3, <2>2 DEF Inv, Follows, Running, Types, ServerMoves
    <2>4. CASE Running /\ run.poll = m.nonce
        <3>1. reply' = Answer(m)
            BY <2>4 DEF HandlePoll
        <3>2. reply'.status = status' /\ reply'.on = (status' = "active" /\ sound'.on)
              /\ (status' \in Live => reply'.version = sound'.version)
            BY <3>1 DEF Answer
        <3>3. status' \in Live => reply'.on = sound'.on
            BY <3>2, <2>1, <1>1 DEF Live, ServerMoves
        <3>4. Running' /\ run' = run
            BY <2>4, <1>3 DEF Running
        <3> QED BY <2>1, <2>3, <3>2, <3>3, <3>4, <1>1 DEF Follows, ServerMoves
    <2>5. CASE ~(Running /\ run.poll = m.nonce)
        <3>1. reply' = reply /\ run' = run
            BY <2>5, <1>3 DEF HandlePoll
        <3>2. reply # NoReply => reply.version \in Nat
            BY DEF Inv, Types, Reply
        <3> QED BY <2>1, <2>3, <3>1, <3>2, <1>1 DEF Inv, Follows, Types, ServerMoves
    <2> QED BY <2>4, <2>5
<1>7. Bound'
    BY <1>3 DEF Inv, Bound, lease, Running
<1> QED BY <1>4, <1>5, <1>6, <1>7 DEF Inv

(* A run that stops leaves nothing to keep.                                *)
LEMMA HaltKeeps ==
    ASSUME Inv, run' = NoRun, reply' = NoReply, UNCHANGED <<server, wire>>,
           UNCHANGED <<clock, deadline, request, requestedAt>>,
           grants' \subseteq grants
    PROVE  Inv'
<1>1. Types'
    BY DEF Inv, Types, server
<1>2. Asked' /\ Follows' /\ Bound'
    BY DEF Inv, Asked, Follows, Bound, Running, server
<1> QED BY <1>1, <1>2 DEF Inv

LEMMA Invariance == Spec => []Inv
<1>1. Init => Inv
    <2> SUFFICES ASSUME Init PROVE Inv
        OBVIOUS
    <2>1. Types
        BY DEF Init, Lease!Init, Types, Statuses, Live, Program
    <2>2. Asked /\ Follows /\ Bound
        BY DEF Init, Lease!Init, Asked, Follows, Bound, Running, Program
    <2> QED BY <2>1, <2>2 DEF Inv
<1>2. Inv /\ [Next]_vars => Inv'
    <2> SUFFICES ASSUME Inv, [Next]_vars PROVE Inv'
        OBVIOUS
    <2>1. CASE \/ Enter \/ WindDown \/ ServerPauses \/ Resume \/ ServerDies
               \/ \E on \in BOOLEAN : Arrange(on)
               \/ \E reveal \in BOOLEAN : End(reveal)
               \/ \E g \in orders : HandleOrder(g)
        BY <2>1, ServerSteps, ServerStepsKeep
    <2>2. CASE \E m \in wire : HandlePoll(m)
        BY <2>2, HandlePollKeeps
    <2>3. ASSUME NEW g \in grants, Begin(g) PROVE Inv'
        <3>1. /\ ~Running /\ deadline' = clock + TTL
              /\ UNCHANGED <<clock, request, requestedAt, reply, grants, server, wire>>
            BY <2>3 DEF Begin, Lease!Open, Stay
        <3>2. g \in Nat /\ run' \in Run
            BY <2>3, LinkAssumption DEF Inv, Types, Begin, Run
        <3>3. run'.version = -1 /\ ~run'.on
            BY <2>3 DEF Begin
        <3>4. reply = NoReply
            BY <3>1 DEF Inv, Asked
        <3>5. Types'
            BY <3>1, <3>2, LinkAssumption DEF Inv, Types, server
        <3>6. Asked' /\ Follows' /\ Bound'
            BY <3>1, <3>3, <3>4 DEF Inv, Asked, Follows, Bound, Types, server
        <3> QED BY <3>5, <3>6 DEF Inv
    <2>4. ASSUME NEW g \in 0 .. MaxGeneration, PageAsks(g) PROVE Inv'
        <3>1. UNCHANGED <<lease, server, wire, reply, grants, run>>
            BY <2>4 DEF PageAsks, Stay
        <3> QED BY <3>1 DEF Inv, Types, Asked, Follows, Bound, Running, lease, server
    <2>5. ASSUME NEW connected \in BOOLEAN, Poll(connected) PROVE Inv'
        <3>1. /\ Running /\ run.poll = 0
              /\ requestedAt' = clock /\ request' = request + 1
              /\ UNCHANGED <<clock, deadline, server, reply, grants>>
            BY <2>5 DEF Poll, Lease!Request
        <3>2. run \in Run
            BY <3>1 DEF Inv, Types, Running
        <3>3. /\ run' \in Run /\ run'.version = run.version /\ run'.on = run.on
              /\ run'.vouch = run.vouch /\ run'.gen = run.gen
            <4>1. run' = [run EXCEPT !.poll = request + 1, !.last = clock]
                BY <2>5 DEF Poll
            <4>2. request + 1 \in Nat /\ clock \in Int
                BY DEF Inv, Types
            <4> QED BY <3>2, <4>1, <4>2 DEF Run
        <3>4. reply = NoReply
            BY <3>1 DEF Inv, Types, Asked, Reply
        <3>5. wire' \subseteq Message
            <4>1. [nonce |-> request + 1, gen |-> run.gen, ack |-> run.version,
                   connected |-> connected] \in Message
                BY <3>2 DEF Inv, Types, Message, Run
            <4> QED BY <4>1, <2>5 DEF Poll, Inv, Types
        <3>6. Types'
            BY <3>1, <3>3, <3>4, <3>5 DEF Inv, Types, server
        <3>7. Asked' /\ Follows' /\ Bound'
            BY <3>1, <3>3, <3>4 DEF Inv, Types, Asked, Follows, Bound, Running, server
        <3> QED BY <3>6, <3>7 DEF Inv
    <2>6. CASE Expire \/ Reject \/ PollFails \/ PhoneStops \/ Observe
        <3>1. \E told : Lease!Close /\ Halt(told)
            BY <2>6 DEF Expire, Reject, PollFails, PhoneStops, Observe, Stop
        <3> QED BY <3>1, HaltKeeps DEF Halt, Lease!Close, Stay
    <2>7. CASE Accept
        <3>1. /\ reply # NoReply /\ reply.gen = run.gen /\ reply.status \in Live
              /\ deadline' = requestedAt + TTL /\ requestedAt' = -(2 * TTL)
              /\ reply' = NoReply
              /\ UNCHANGED <<clock, request, server, wire, grants>>
            BY <2>7 DEF Accept, Valid, Lease!Renew, Lease!Renewed, Lease!Used,
                        Lease!Spent, Stay
        <3>2. reply \in Reply /\ Running /\ run \in Run
            BY <3>1 DEF Inv, Types, Asked, Running
        <3>3. Loaded.version = reply.version /\ Loaded.on = reply.on
            <4>1. CASE Newer
                BY <4>1 DEF Loaded
            <4>2. CASE ~Newer
                <5>1. reply.version = run.version
                    BY <4>2, <3>1, <3>2 DEF Newer, Inv, Follows, Run, Reply
                <5> QED BY <4>2, <5>1, <3>1 DEF Loaded, Inv, Follows
            <4> QED BY <4>1, <4>2
        <3>4. /\ run' \in Run /\ run'.version = reply.version /\ run'.on = reply.on
              /\ run'.vouch = reply /\ run'.gen = run.gen
            <4>1. run' = [run EXCEPT !.poll = 0, !.version = Loaded.version,
                                     !.on = Loaded.on, !.vouch = reply]
                BY <2>7 DEF Accept
            <4>2. Loaded.version \in Int /\ Loaded.on \in BOOLEAN
                BY <3>2, <3>3 DEF Reply
            <4>3. /\ run' \in Run /\ run'.version = Loaded.version
                  /\ run'.on = Loaded.on /\ run'.vouch = reply /\ run'.gen = run.gen
                BY <3>2, <4>1, <4>2 DEF Run
            <4> QED BY <3>3, <4>3, Zenon
        <3>5. Types'
            BY <3>1, <3>4, LinkAssumption DEF Inv, Types, server
        <3>6. Asked'
            BY <3>1, LinkAssumption DEF Inv, Types, Asked
        <3>7. Follows'
            BY <3>1, <3>4 DEF Inv, Follows, server
        <3>8. Bound'
            <4>1. reply.at \in Nat
                BY <3>2 DEF Reply
            <4>2. requestedAt + TTL <= reply.at + TTL
                BY <4>1, <3>1, LinkAssumption DEF Inv, Asked, Types
            <4> QED BY <4>2, <3>1, <3>4 DEF Bound, Inv, Follows
        <3> QED BY <3>5, <3>6, <3>7, <3>8 DEF Inv
    <2>8. CASE PhoneDies
        BY <2>8, HaltKeeps DEF PhoneDies, Stay
    <2>9. CASE TimePasses
        <3>1. /\ clock' = clock + 1
              /\ UNCHANGED <<deadline, request, requestedAt, server, wire, reply, grants, run>>
            BY <2>9 DEF TimePasses, Lease!Tick
        <3>2. Types'
            BY <3>1 DEF Inv, Types, server
        <3>3. Asked' /\ Follows' /\ Bound'
            BY <3>1 DEF Inv, Types, Asked, Follows, Bound, Running, server
        <3> QED BY <3>2, <3>3 DEF Inv
    <2>10. CASE UNCHANGED vars
        BY <2>10 DEF vars, lease, server, Inv, Types, Asked, Follows, Bound, Running
    <2> QED
        BY <2>1, <2>2, <2>3, <2>4, <2>5, <2>6, <2>7, <2>8, <2>9, <2>10 DEF Next
<1> QED BY <1>1, <1>2, PTL DEF Spec

(* Whatever the phone plays, the server told it to, with this program and  *)
(* in this generation, less than TTL ago: for any length of the lease, any *)
(* delay, loss and order of messages, and any crash on either side.        *)
THEOREM PlaysOnlyWhatIsVouched == Spec => []Vouched
<1>1. Inv => Vouched
    <2> SUFFICES ASSUME Inv, Playing PROVE /\ run.vouch # NoReply
                                           /\ run.vouch.gen = run.gen
                                           /\ run.vouch.status = "active"
                                           /\ run.vouch.version = run.version
                                           /\ run.vouch.on
                                           /\ clock < run.vouch.at + TTL
        BY DEF Vouched
    <2>1. Running /\ run.on /\ clock < deadline
        BY DEF Playing, Lease!Alive
    <2>2. run.vouch # NoReply /\ run.vouch \in Reply
        BY <2>1 DEF Inv, Bound, Types, Running, Run
    <2>3. run.vouch.at \in Nat
        BY <2>2 DEF Reply
    <2> QED BY <2>1, <2>2, <2>3, LinkAssumption DEF Inv, Bound, Types
<1> QED BY <1>1, Invariance, PTL

(* The variables that only the type invariant speaks of.                   *)
Shape ==
    /\ session \in {Scene, NoSession} /\ generation \in Nat
    /\ token \in Nat /\ token <= Len(opened)
    /\ token # 0 => session = Scene
    /\ opened \in Seq([session : {Scene}, generation : Nat, at : Nat])
    /\ asked \in Seq(Nat)
    /\ answered \in Seq([token : Nat, nonce : Nat, at : Nat])
    /\ closed \in [{Scene} -> Int]
    /\ believed \in Nat /\ waning \in BOOLEAN /\ revealed \in BOOLEAN
    /\ orders \subseteq Nat /\ stopped \subseteq Nat /\ adopted \subseteq Nat

LEMMA FenceShape ==
    ASSUME Shape
    PROVE  Lease!ClosedNow \in [{Scene} -> Int]
BY DEF Shape, Lease!ClosedNow, Lease!Active, Lease!NoToken

LEMMA ShapeHolds == Spec => []Shape
<1>1. Init => Shape
    <2> SUFFICES ASSUME Init PROVE Shape
        OBVIOUS
    <2>1. /\ session = NoSession /\ generation = 0 /\ token = 0 /\ closed = [s \in {Scene} |-> -1]
          /\ opened = <<>> /\ asked = <<>> /\ answered = <<>>
          /\ believed = 0 /\ waning = FALSE /\ revealed = FALSE
          /\ orders = {} /\ stopped = {} /\ adopted = {}
        BY DEF Init, Lease!Init, Lease!Never, Lease!NoToken
    <2>2. /\ opened \in Seq([session : {Scene}, generation : Nat, at : Nat]) /\ Len(opened) = 0
          /\ asked \in Seq(Nat) /\ answered \in Seq([token : Nat, nonce : Nat, at : Nat])
        BY <2>1, EmptySeq
    <2>3. closed \in [{Scene} -> Int]
        BY <2>1
    <2>4. token \in Nat /\ token <= Len(opened) /\ (token # 0 => session = Scene)
        BY <2>1, <2>2
    <2>5. believed \in Nat /\ waning \in BOOLEAN /\ revealed \in BOOLEAN
        BY <2>1
    <2>6. session \in {Scene, NoSession} /\ generation \in Nat
        BY <2>1
    <2>7. orders \subseteq Nat /\ stopped \subseteq Nat /\ adopted \subseteq Nat
        BY <2>1
    <2> QED BY <2>2, <2>3, <2>4, <2>5, <2>6, <2>7 DEF Shape
<1>2. Inv /\ Shape /\ [Next]_vars => Shape'
    <2> SUFFICES ASSUME Inv, Shape, [Next]_vars PROVE Shape'
        OBVIOUS
    <2>1. CASE Enter \/ WindDown \/ ServerPauses \/ Resume \/ ServerDies
        <3>1. /\ UNCHANGED <<lease, stopped, adopted, revealed, orders>>
              /\ waning' \in {waning, TRUE} /\ believed' \in {0, believed}
            BY <2>1 DEF Enter, WindDown, ServerPauses, Pause, Resume, ServerDies, Silence, Elsewhere
        <3>2. waning' \in BOOLEAN
            BY <3>1, Zenon DEF Shape
        <3> QED BY <3>1, <3>2 DEF lease, Shape
    <2>2. ASSUME NEW on \in BOOLEAN, Arrange(on) PROVE Shape'
        BY <2>2 DEF Arrange, Elsewhere, lease, Shape
    <2>3. ASSUME NEW reveal \in BOOLEAN, End(reveal) PROVE Shape'
        <3>1. /\ revealed' = (revealed \/ reveal) /\ believed' \in {0, believed}
              /\ UNCHANGED <<waning, orders>> /\ Elsewhere
            BY <2>3, Zenon DEF End, Silence
        <3>2. revealed' \in BOOLEAN
            BY <3>1, Zenon
        <3>3. UNCHANGED <<lease, waning, orders, stopped, adopted>> /\ believed' \in Nat
            BY <3>1 DEF Elsewhere, Shape
        <3> QED BY <3>2, <3>3 DEF lease, Shape
    <2>4. ASSUME NEW g \in orders, HandleOrder(g) PROVE Shape'
        <3>1. UNCHANGED <<lease, stopped, adopted>> /\ orders' \subseteq orders
            BY <2>4 DEF HandleOrder, Elsewhere
        <3>2. believed' \in {0, believed} /\ UNCHANGED <<waning, revealed>>
            BY <2>4 DEF HandleOrder, Pause, Silence, server
        <3>3. believed' \in Nat /\ orders' \subseteq Nat
            BY <3>1, <3>2 DEF Shape
        <3>4. UNCHANGED <<lease, waning, revealed, stopped, adopted>>
            BY <3>1, <3>2
        <3> QED BY <3>3, <3>4 DEF lease, Shape
    <2>5. ASSUME NEW m \in wire, HandlePoll(m) PROVE Shape'
        <3>1. UNCHANGED <<lease, orders, stopped, adopted>>
            BY <2>5 DEF HandlePoll
        <3>2. believed' \in {0, believed, sound.version} /\ UNCHANGED <<waning, revealed>>
            BY <2>5 DEF HandlePoll, Pause, Silence, server, Belief
        <3>3. sound.version \in Nat
            BY DEF Inv, Types
        <3> QED BY <3>1, <3>2, <3>3 DEF lease, Shape
    <2>6. ASSUME NEW g \in grants, Begin(g) PROVE Shape'
        <3> DEFINE new == [session |-> Scene, generation |-> g, at |-> clock]
        <3>1. /\ session' = Scene /\ generation' = g /\ token' = Len(opened) + 1
              /\ closed' = Lease!ClosedNow /\ opened' = Append(opened, new)
              /\ UNCHANGED <<asked, answered, orders, stopped, adopted, server>>
            BY <2>6 DEF Begin, Lease!Open, Stay
        <3>2. new \in [session : {Scene}, generation : Nat, at : Nat]
            BY DEF Inv, Types
        <3>3. /\ opened' \in Seq([session : {Scene}, generation : Nat, at : Nat])
              /\ Len(opened') = Len(opened) + 1 /\ Len(opened) \in Nat
            BY <3>1, <3>2, AppendProperties, LenProperties DEF Shape
        <3>4. g \in Nat
            BY DEF Inv, Types
        <3>5. closed' \in [{Scene} -> Int]
            BY <3>1, FenceShape
        <3> HIDE DEF new
        <3> QED BY <3>1, <3>3, <3>4, <3>5, SMTT(30) DEF Shape, server
    <2>7. ASSUME NEW g \in 0 .. MaxGeneration, PageAsks(g) PROVE Shape'
        <3>1. UNCHANGED <<lease, server, stopped, adopted>> /\ orders' = orders \cup {g} /\ g \in Nat
            BY <2>7 DEF PageAsks, Stay
        <3> QED BY <3>1 DEF lease, server, Shape
    <2>8. ASSUME NEW connected \in BOOLEAN, Poll(connected) PROVE Shape'
        <3>1. /\ UNCHANGED <<session, generation, token, opened, answered, closed, server, orders, stopped, adopted>>
              /\ asked' = Append(asked, clock)
            BY <2>8 DEF Poll, Lease!Request, Lease!held
        <3>2. asked' \in Seq(Nat)
            BY <3>1, AppendProperties DEF Shape, Inv, Types
        <3> QED BY <3>1, <3>2 DEF server, Shape
    <2>9. CASE Expire \/ Reject \/ PollFails \/ PhoneStops \/ Observe
        <3>1. Running /\ run.gen \in Nat
            BY <2>9 DEF Expire, Reject, PollFails, PhoneStops, Observe, Stop, Inv, Types, Running, Run
        <3>2. /\ closed' = Lease!ClosedNow /\ token' = 0 /\ stopped' = stopped \cup {run.gen}
              /\ orders' \in {orders, orders \cup {run.gen}}
              /\ UNCHANGED <<session, generation, opened, asked, answered, server, adopted>>
            BY <2>9 DEF Expire, Reject, PollFails, PhoneStops, Observe, Stop, Halt, Stay,
                        Lease!Close, Lease!NoToken, Lease!history
        <3>3. closed' \in [{Scene} -> Int]
            BY <3>2, FenceShape
        <3>4. Len(opened) \in Nat
            BY LenProperties DEF Shape
        <3>5. stopped' \subseteq Nat /\ orders' \subseteq Nat
            BY <3>1, <3>2 DEF Shape
        <3>6. UNCHANGED <<waning, revealed, believed>>
            BY <3>2 DEF server
        <3> QED BY <3>2, <3>3, <3>4, <3>5, <3>6 DEF Shape
    <2>10. CASE Accept
        <3> DEFINE new == [token |-> token, nonce |-> reply.nonce, at |-> clock]
        <3>1. /\ UNCHANGED <<session, generation, token, opened, asked, closed, server, orders, stopped>>
              /\ answered' = Append(answered, new)
              /\ adopted' = IF Loaded.on THEN adopted \cup {Loaded.version} ELSE adopted
              /\ reply # NoReply
            BY <2>10 DEF Accept, Lease!Renew, Lease!held, Stay
        <3>2. reply \in Reply /\ run \in Run /\ Running
            BY <3>1 DEF Inv, Types, Asked, Running
        <3>3. new \in [token : Nat, nonce : Nat, at : Nat]
            BY <3>2 DEF Inv, Types, Shape, Reply
        <3>4. answered' \in Seq([token : Nat, nonce : Nat, at : Nat])
            BY <3>1, <3>3, AppendProperties DEF Shape
        <3>5. Loaded.on => Loaded.version \in Nat
            <4>1. CASE Newer
                BY <3>2, <4>1 DEF Loaded, Reply
            <4>2. CASE ~Newer
                <5>1. Loaded.version = run.version /\ Loaded.on = run.on
                    BY <4>2 DEF Loaded
                <5>2. run.on => run.vouch \in Reply /\ run.version = run.vouch.version
                    BY <3>2 DEF Inv, Bound, Run
                <5> QED BY <5>1, <5>2 DEF Reply
            <4> QED BY <4>1, <4>2
        <3> QED BY <3>1, <3>4, <3>5 DEF Shape, server
    <2>11. CASE PhoneDies
        <3>1. /\ token' = 0 /\ closed' = [s \in {Scene} |-> -1]
              /\ stopped' = IF Running THEN stopped \cup {run.gen} ELSE stopped
              /\ UNCHANGED <<session, generation, opened, asked, answered, server, orders, adopted>>
            BY <2>11 DEF PhoneDies, Lease!NoToken, Lease!Never, Stay
        <3>2. Running => run.gen \in Nat
            BY DEF Inv, Types, Running, Run
        <3>3. Len(opened) \in Nat
            BY LenProperties DEF Shape
        <3>4. stopped' \subseteq Nat
            BY <3>1, <3>2 DEF Shape
        <3>5. UNCHANGED <<waning, revealed, believed>>
            BY <3>1 DEF server
        <3>6. closed' \in [{Scene} -> Int]
            BY <3>1
        <3> QED BY <3>1, <3>3, <3>4, <3>5, <3>6 DEF Shape
    <2>12. CASE TimePasses
        BY <2>12 DEF TimePasses, Lease!Tick, Lease!held, Lease!history, server, Shape
    <2>13. CASE UNCHANGED vars
        BY <2>13 DEF vars, lease, server, Shape
    <2> QED
        BY <2>1, <2>2, <2>3, <2>4, <2>5, <2>6, <2>7, <2>8, <2>9, <2>10, <2>11, <2>12, <2>13 DEF Next
<1> QED BY <1>1, <1>2, Invariance, PTL DEF Spec

(* Every variable has its type (the state of every part of the scene).     *)
THEOREM TypesHold == Spec => []TypeOK
<1>1. Inv /\ Shape => TypeOK
    <2> SUFFICES ASSUME Inv, Shape PROVE TypeOK
        OBVIOUS
    <2>1. <<>> \in [{} -> Int]
        OBVIOUS
    <2>2. Lease!TypeOK
        BY <2>1 DEF Inv, Types, Shape, Lease!TypeOK, Lease!Active, Lease!NoToken
    <2> QED BY <2>2 DEF Inv, Types, Shape, TypeOK
<1> QED BY <1>1, Invariance, ShapeHolds, PTL

-----------------------------------------------------------------------------
(* What was stopped and what was played.                                   *)
(*                                                                         *)
(* A grant is of a generation the scene had, and a stop leaves the fence   *)
(* behind that keeps its generation out, or, if the app died, no grant of  *)
(* it.  A poll says of the version on offer only what was played, because  *)
(* every new program is a new version.                                     *)
Held ==
    /\ closed \in [{Scene} -> Int]
    /\ Running <=> token # 0
    /\ Running => session = Scene /\ generation = run.gen
Fenced ==
    /\ \A g \in grants : g <= gen
    /\ \A g \in stopped : g \in Nat /\ g <= gen /\ (g \in grants => g <= closed[Scene])
    /\ Running => run.gen <= gen /\ run.gen \notin stopped
Reported ==
    /\ believed # 0 => believed \in adopted
    /\ Running /\ run.on => run.version \in adopted
    /\ \A m \in wire : /\ m.ack <= sound.version
                       /\ m.ack = sound.version /\ sound.on => m.ack \in adopted
Past == Held /\ Fenced /\ Reported

ServerTurns ==
    /\ gen' \in {gen, gen + 1}
    /\ believed' \in {believed, 0}
    /\ \A g \in grants' : g \in grants \/ (g = gen + 1 /\ gen' = gen + 1)

LEMMA ServerStepsTurn ==
    ASSUME Inv,
           \/ Enter \/ WindDown \/ ServerPauses \/ Resume \/ ServerDies
           \/ \E on \in BOOLEAN : Arrange(on)
           \/ \E reveal \in BOOLEAN : End(reveal)
           \/ \E g \in orders : HandleOrder(g)
    PROVE  ServerTurns
<1>1. CASE Enter \/ WindDown \/ ServerPauses \/ Resume \/ ServerDies
    BY <1>1 DEF Enter, WindDown, ServerPauses, Pause, Resume, ServerDies, Silence, ServerTurns
<1>2. ASSUME NEW on \in BOOLEAN, Arrange(on) PROVE ServerTurns
    BY <1>2 DEF Arrange, ServerTurns
<1>3. ASSUME NEW reveal \in BOOLEAN, End(reveal) PROVE ServerTurns
    BY <1>3 DEF End, Silence, ServerTurns
<1>4. ASSUME NEW g \in orders, HandleOrder(g) PROVE ServerTurns
    BY <1>4 DEF HandleOrder, Pause, Silence, ServerTurns, server
<1> QED BY <1>1, <1>2, <1>3, <1>4

(* The run, the lease and the history are left alone.                      *)
LEMMA AwayKeeps ==
    ASSUME Inv, Past, UNCHANGED <<closed, token, session, generation, run, stopped, adopted>>,
           ServerMoves, gen' \in {gen, gen + 1},
           \A g \in grants' : g \in grants \/ (g = gen + 1 /\ gen' = gen + 1),
           wire' \subseteq wire, believed' # 0 => believed' \in adopted
    PROVE  Past'
<1>1. Held'
    BY DEF Past, Held, Running
<1>2. Running => run \in Run /\ run.gen \in Nat
    BY DEF Inv, Types, Running, Run
<1>3. gen \in Nat /\ gen <= gen' /\ gen' \in Nat
    BY DEF Inv, Types
<1>4. Fenced'
    <2>1. \A g \in grants' : g <= gen'
        <3> SUFFICES ASSUME NEW g \in grants' PROVE g <= gen'
            OBVIOUS
        <3>1. CASE g \in grants
            BY <1>3, <3>1 DEF Past, Fenced, Inv, Types
        <3>2. CASE g = gen + 1 /\ gen' = gen + 1
            BY <1>3, <3>2
        <3> QED BY <3>1, <3>2
    <2>2. \A g \in stopped : g \in Nat /\ g <= gen' /\ (g \in grants' => g <= closed[Scene])
        BY <1>3 DEF Past, Fenced
    <2>3. Running' => run'.gen <= gen' /\ run'.gen \notin stopped'
        BY <1>2, <1>3 DEF Past, Fenced, Running
    <2> QED BY <2>1, <2>2, <2>3 DEF Fenced
<1>5. Reported'
    <2>1. ASSUME NEW m \in wire'
          PROVE  /\ m.ack <= sound'.version
                 /\ m.ack = sound'.version /\ sound'.on => m.ack \in adopted'
        <3>1. m \in wire /\ m.ack \in Int
            BY DEF Inv, Types, Message
        <3>2. /\ m.ack <= sound.version
              /\ m.ack = sound.version /\ sound.on => m.ack \in adopted
            BY <3>1, Zenon DEF Past, Reported
        <3> QED BY <3>1, <3>2 DEF ServerMoves, Inv, Types
    <2>2. Running' /\ run'.on => run'.version \in adopted'
        BY DEF Past, Reported, Running
    <2> QED BY <2>1, <2>2 DEF Reported
<1> QED BY <1>1, <1>4, <1>5 DEF Past

(* What the server believes after a poll, it was told by one.              *)
LEMMA PollPast ==
    ASSUME Inv, Past, NEW m \in wire, HandlePoll(m)
    PROVE  Past'
<1>1. ServerMoves
    <2>1. CASE status \in Live /\ Pause
        BY <2>1, PauseMoves
    <2>2. CASE UNCHANGED server
        BY <2>2 DEF Inv, Types, server, ServerMoves
    <2>3. CASE UNCHANGED <<status, gen, sound, waning, revealed>>
        BY <2>3 DEF Inv, Types, ServerMoves
    <2> QED BY <2>1, <2>2, <2>3 DEF HandlePoll
<1>2. /\ m.ack = sound.version /\ sound.on => m.ack \in adopted
      /\ believed # 0 => believed \in adopted
    BY Zenon DEF Past, Reported
<1>3. gen' \in {gen, gen + 1} /\ (believed' # 0 => believed' \in adopted)
    <2>1. CASE Pause
        BY <2>1 DEF Pause, Silence
    <2>2. CASE UNCHANGED server
        BY <1>2, <2>2 DEF server
    <2>3. CASE believed' = Belief(m) /\ UNCHANGED <<status, gen, sound, waning, revealed>>
        BY <1>2, <2>3 DEF Belief
    <2> QED BY <2>1, <2>2, <2>3 DEF HandlePoll
<1>4. /\ UNCHANGED <<closed, token, session, generation, run, stopped, adopted>>
      /\ grants' = grants /\ wire' \subseteq wire
    BY DEF HandlePoll, lease
<1> QED BY <1>1, <1>3, <1>4, AwayKeeps

(* A run that stops leaves its generation below the fence.                 *)
LEMMA HaltPast ==
    ASSUME Inv, Past, Running, Lease!Close, \E told : Halt(told)
    PROVE  Past'
<1>1. /\ run' = NoRun /\ stopped' = stopped \cup {run.gen} /\ UNCHANGED <<grants, adopted, wire, server>>
      /\ closed' = Lease!ClosedNow /\ token' = 0
    BY DEF Halt, Lease!Close, Lease!NoToken, Stay
<1>2. run \in Run /\ run.gen \in Nat /\ token # 0 /\ session = Scene /\ generation = run.gen
      /\ closed \in [{Scene} -> Int]
    BY DEF Inv, Types, Past, Held, Running, Run
<1>3. closed' \in [{Scene} -> Int] /\ closed'[Scene] >= closed[Scene] /\ closed'[Scene] >= run.gen
    <2>1. closed' = [closed EXCEPT ![Scene] = IF run.gen > closed[Scene] THEN run.gen ELSE closed[Scene]]
        BY <1>1, <1>2 DEF Lease!ClosedNow, Lease!Active, Lease!NoToken
    <2>2. closed[Scene] \in Int
        BY <1>2
    <2> QED BY <1>2, <2>1, <2>2
<1>4. Held'
    BY <1>1, <1>3 DEF Held, Running
<1>5. Fenced'
    <2>1. gen' = gen /\ ~Running'
        BY <1>1 DEF server, Running
    <2>2. run.gen <= gen
        BY DEF Past, Fenced
    <2>3. ASSUME NEW g \in stopped'
          PROVE  g \in Nat /\ g <= gen /\ (g \in grants => g <= closed'[Scene])
        <3>1. CASE g = run.gen
            BY <1>2, <1>3, <2>2, <3>1
        <3>2. CASE g \in stopped
            <4>1. closed[Scene] \in Int /\ closed'[Scene] \in Int
                BY <1>2, <1>3
            <4> QED BY <1>3, <3>2, <4>1 DEF Past, Fenced
        <3> QED BY <1>1, <2>3, <3>1, <3>2
    <2>4. \A g \in grants' : g <= gen'
        BY <1>1, <2>1 DEF Past, Fenced
    <2> QED BY <1>1, <2>1, <2>3, <2>4 DEF Fenced
<1>6. Reported'
    BY <1>1, Zenon DEF Past, Reported, Running, server
<1> QED BY <1>4, <1>5, <1>6 DEF Past

LEMMA PastHolds == Spec => []Past
<1>1. Init => Past
    <2> SUFFICES ASSUME Init PROVE Past
        OBVIOUS
    <2>1. Held
        BY DEF Init, Lease!Init, Lease!Never, Lease!NoToken, Held, Running
    <2>2. Fenced /\ Reported
        BY DEF Init, Fenced, Reported, Running
    <2> QED BY <2>1, <2>2 DEF Past
<1>2. Inv /\ Shape /\ Past /\ [Next]_vars => Past'
    <2> SUFFICES ASSUME Inv, Shape, Past, [Next]_vars PROVE Past'
        OBVIOUS
    <2>1. CASE \/ Enter \/ WindDown \/ ServerPauses \/ Resume \/ ServerDies
               \/ \E on \in BOOLEAN : Arrange(on)
               \/ \E reveal \in BOOLEAN : End(reveal)
               \/ \E g \in orders : HandleOrder(g)
        <3>1. ServerMoves /\ ServerTurns /\ Elsewhere
            BY <2>1, ServerSteps, ServerStepsTurn
        <3>2. UNCHANGED <<closed, token, session, generation, run, stopped, adopted>> /\ wire' = wire
            BY <3>1 DEF Elsewhere, lease
        <3>3. believed' # 0 => believed' \in adopted
            BY <3>1 DEF ServerTurns, Past, Reported
        <3> QED BY <3>1, <3>2, <3>3, AwayKeeps DEF ServerTurns
    <2>2. CASE \E m \in wire : HandlePoll(m)
        BY <2>2, PollPast
    <2>3. ASSUME NEW g \in grants, Begin(g) PROVE Past'
        <3>1. /\ ~Running /\ g > closed[Scene] /\ closed' = Lease!ClosedNow
              /\ session' = Scene /\ generation' = g /\ token' = Len(opened) + 1
              /\ UNCHANGED <<grants, stopped, adopted, server, wire>>
            BY <2>3 DEF Begin, Lease!Open, Stay
        <3>2. run' = [gen |-> g, poll |-> 0, last |-> clock - Interval,
                      version |-> -1, on |-> FALSE, vouch |-> NoReply]
            BY <2>3 DEF Begin
        <3>3. run'.gen = g /\ ~run'.on /\ Running'
            <4>1. run'.gen = g /\ ~run'.on /\ g \in Nat
                BY <3>2 DEF Inv, Types
            <4>2. run'.gen # NoRun.gen
                BY <4>1 DEF NoRun
            <4> QED BY <4>1, <4>2 DEF Running
        <3>4. token' # 0
            BY <3>1, LenProperties DEF Shape
        <3>5. closed' = closed
            BY <3>1 DEF Past, Held, Lease!ClosedNow, Lease!Active, Lease!NoToken
        <3>6. Held'
            BY <3>1, <3>3, <3>4, <3>5 DEF Held, Past
        <3>7. Fenced'
            <4>1. g \notin stopped /\ g <= gen
                <5>1. g \in Nat /\ closed[Scene] \in Int
                    BY DEF Inv, Types, Past, Held
                <5> QED BY <3>1, <5>1 DEF Past, Fenced
            <4> QED BY <3>1, <3>3, <3>5, <4>1 DEF Past, Fenced, server
        <3>8. Reported'
            BY <3>1, <3>3, Zenon DEF Past, Reported, server
        <3> QED BY <3>6, <3>7, <3>8 DEF Past
    <2>4. ASSUME NEW g \in 0 .. MaxGeneration, PageAsks(g) PROVE Past'
        <3>1. UNCHANGED <<lease, server, wire, grants, run, stopped, adopted>>
            BY <2>4 DEF PageAsks, Stay
        <3> QED BY <3>1 DEF Past, Held, Fenced, Reported, Running, lease, server
    <2>5. ASSUME NEW connected \in BOOLEAN, Poll(connected) PROVE Past'
        <3> DEFINE sent == [nonce |-> request + 1, gen |-> run.gen, ack |-> run.version, connected |-> connected]
        <3>1. /\ Running /\ wire' = wire \cup {sent} /\ sent.ack = run.version
              /\ UNCHANGED <<session, generation, token, closed, server, grants, stopped, adopted>>
            BY <2>5 DEF Poll, Lease!Request, Lease!held
        <3>2. run' = [run EXCEPT !.poll = request + 1, !.last = clock]
            BY <2>5 DEF Poll
        <3>3. run \in Run
            BY <3>1 DEF Inv, Types, Running
        <3>4. run' \in Run /\ run'.gen = run.gen /\ run'.version = run.version /\ run'.on = run.on
            <4>1. request + 1 \in Nat /\ clock \in Int
                BY DEF Inv, Types
            <4> QED BY <3>2, <3>3, <4>1 DEF Run
        <3>5. Running'
            BY <3>4, NotInTypes DEF Running
        <3>6. Held' /\ Fenced'
            BY <3>1, <3>4, <3>5 DEF Past, Held, Fenced, server
        <3>7. Reported'
            <4>1. /\ sent.ack <= sound.version
                  /\ sent.ack = sound.version /\ sound.on => sent.ack \in adopted
                BY <3>1, Zenon DEF Past, Reported, Inv, Follows
            <4> HIDE DEF sent
            <4> QED BY <3>1, <3>4, <3>5, <4>1, Zenon DEF Past, Reported, server
        <3> QED BY <3>6, <3>7 DEF Past
    <2>6. CASE Expire \/ Reject \/ PollFails \/ PhoneStops \/ Observe
        <3>1. Running /\ Lease!Close /\ \E told : Halt(told)
            BY <2>6 DEF Expire, Reject, PollFails, PhoneStops, Observe, Stop
        <3> QED BY <3>1, HaltPast
    <2>7. CASE Accept
        <3>1. /\ reply # NoReply
              /\ UNCHANGED <<session, generation, token, closed, server, wire, grants, stopped>>
              /\ adopted' = IF Loaded.on THEN adopted \cup {Loaded.version} ELSE adopted
            BY <2>7 DEF Accept, Lease!Renew, Lease!held, Stay
        <3>2. Running /\ run \in Run /\ reply \in Reply
            BY <3>1 DEF Inv, Types, Asked, Running
        <3>3. Loaded.version \in Int /\ Loaded.on \in BOOLEAN
            BY <3>2 DEF Loaded, Run, Reply
        <3>4. /\ run' \in Run /\ run'.version = Loaded.version
              /\ run'.on = Loaded.on /\ run'.gen = run.gen
            <4>1. run' = [run EXCEPT !.poll = 0, !.version = Loaded.version,
                                     !.on = Loaded.on, !.vouch = reply]
                BY <2>7 DEF Accept
            <4> QED BY <3>2, <3>3, <4>1 DEF Run
        <3>5. Running'
            BY <3>4, NotInTypes DEF Running
        <3>6. Held' /\ Fenced'
            BY <3>1, <3>2, <3>4, <3>5 DEF Past, Held, Fenced, server
        <3>7. Reported'
            <4>1. adopted \subseteq adopted' /\ (Loaded.on => Loaded.version \in adopted')
                BY <3>1
            <4> QED BY <3>1, <3>4, <3>5, <4>1, Zenon DEF Past, Reported, server
        <3> QED BY <3>6, <3>7 DEF Past
    <2>8. CASE PhoneDies
        <3>1. /\ token' = 0 /\ closed' = [s \in {Scene} |-> -1] /\ run' = NoRun /\ grants' = {}
              /\ stopped' = IF Running THEN stopped \cup {run.gen} ELSE stopped
              /\ UNCHANGED <<adopted, server, wire>>
            BY <2>8 DEF PhoneDies, Lease!NoToken, Lease!Never, Stay
        <3>2. Running => run.gen \in Nat /\ run.gen <= gen
            BY DEF Inv, Types, Past, Fenced, Running, Run
        <3>3. Held'
            BY <3>1 DEF Held, Running
        <3>4. Fenced'
            BY <3>1, <3>2 DEF Past, Fenced, Running, server
        <3>5. Reported'
            BY <3>1, Zenon DEF Past, Reported, Running, server
        <3> QED BY <3>3, <3>4, <3>5 DEF Past
    <2>9. CASE TimePasses
        <3>1. UNCHANGED <<session, generation, token, closed, server, wire, grants, run, stopped, adopted>>
            BY <2>9 DEF TimePasses, Lease!Tick, Lease!held
        <3> QED BY <3>1 DEF Past, Held, Fenced, Reported, Running, server
    <2>10. CASE UNCHANGED vars
        BY <2>10 DEF vars, lease, server, Past, Held, Fenced, Reported, Running
    <2> QED
        BY <2>1, <2>2, <2>3, <2>4, <2>5, <2>6, <2>7, <2>8, <2>9, <2>10 DEF Next
<1> QED BY <1>1, <1>2, Invariance, ShapeHolds, PTL DEF Spec

(* A generation the phone has stopped plays no more, for any number of     *)
(* generations and grants that come late or again (begin, open).           *)
THEOREM StoppedStaysStopped == Spec => []StoppedForGood
<1>1. Past => StoppedForGood
    BY DEF Past, Fenced, StoppedForGood, Playing
<1> QED BY <1>1, PastHolds, PTL

(* What the server takes to be playing was played by the phone, whatever   *)
(* became of the polls that say so (output).                               *)
THEOREM ReportsArePlayed == Spec => []ReportsWhatPlayed
<1>1. Past => ReportsWhatPlayed
    BY DEF Past, Reported, ReportsWhatPlayed
<1> QED BY <1>1, PastHolds, PTL

(* A poll or an order of an earlier generation does not disturb the scene  *)
(* that was resumed since, however late it comes (action, output).         *)
THEOREM OldMessagesAreSpared == Spec => DelayedPausesSpareTheResumed
<1>1. Inv /\ [Next]_vars => [OldMessagesSpare]_vars
    <2> SUFFICES ASSUME Inv, Next PROVE OldMessagesSpare
        BY DEF vars, OldMessagesSpare, server
    <2>1. CASE wire \subseteq wire' /\ orders \subseteq orders'
        BY <2>1 DEF OldMessagesSpare
    <2>2. ASSUME NEW g \in orders, HandleOrder(g) PROVE OldMessagesSpare
        BY <2>2 DEF HandleOrder, Meant, Elsewhere, OldMessagesSpare
    <2>3. ASSUME NEW m \in wire, HandlePoll(m) PROVE OldMessagesSpare
        <3>1. wire' = wire \ {m} /\ orders' = orders
            BY <2>3 DEF HandlePoll
        <3>2. m.gen # gen => UNCHANGED server
            BY <2>3 DEF HandlePoll
        <3> QED BY <3>1, <3>2 DEF OldMessagesSpare
    <2>4. CASE Enter \/ WindDown \/ ServerPauses \/ Resume \/ ServerDies
        BY <2>1, <2>4 DEF Enter, WindDown, ServerPauses, Resume, ServerDies, Elsewhere
    <2>5. CASE (\E on \in BOOLEAN : Arrange(on)) \/ (\E reveal \in BOOLEAN : End(reveal))
        BY <2>1, <2>5 DEF Arrange, End, Elsewhere
    <2>6. CASE Expire \/ Accept \/ Reject \/ PollFails \/ PhoneStops \/ Observe
        BY <2>1, <2>6 DEF Expire, Accept, Reject, PollFails, PhoneStops, Observe, Halt, Stay
    <2>7. CASE \/ \E g \in grants : Begin(g)
               \/ \E g \in 0 .. MaxGeneration : PageAsks(g)
               \/ \E connected \in BOOLEAN : Poll(connected)
               \/ PhoneDies \/ TimePasses
        BY <2>1, <2>7 DEF Begin, PageAsks, Poll, PhoneDies, TimePasses, Stay
    <2> QED BY <2>2, <2>3, <2>4, <2>5, <2>6, <2>7 DEF Next
<1> QED BY <1>1, Invariance, PTL DEF Spec, DelayedPausesSpareTheResumed

-----------------------------------------------------------------------------
(* The lease as the scene uses it.                                         *)
(*                                                                         *)
(* Whatever the run does to the lease is one call of SceneLease, and the   *)
(* only thing that is none is that the app dies and forgets it.            *)
Forgets ==
    /\ token' = Lease!NoToken /\ closed' = Lease!Never
    /\ UNCHANGED <<clock, session, generation, deadline, request, requestedAt,
                   opened, asked, answered>>

LeaseAsMeant == [][Lease!Next \/ Forgets]_lease

(* Grants are of generations the bound lets the scene have, and polls are  *)
(* numbered as they are asked.                                             *)
Counted ==
    /\ grants \subseteq 0 .. MaxGeneration
    /\ request = Len(asked)

LEMMA LeaseSteps ==
    ASSUME Inv, Shape, Past, Counted, [Next]_vars
    PROVE  [Lease!Next \/ Forgets]_lease /\ grants' \subseteq 0 .. MaxGeneration
<1>1. ASSUME UNCHANGED <<lease, grants>>
      PROVE  [Lease!Next \/ Forgets]_lease /\ grants' \subseteq 0 .. MaxGeneration
    BY <1>1, Zenon DEF Counted
<1>2. CASE Enter \/ WindDown \/ ServerPauses \/ ServerDies
    BY <1>1, <1>2, Zenon DEF Enter, WindDown, ServerPauses, ServerDies, Elsewhere
<1>3. CASE Resume
    <2>1. gen + 1 \in 0 .. MaxGeneration
        BY <1>3, LinkAssumption DEF Resume, Inv, Types
    <2>2. UNCHANGED lease /\ grants' = grants \cup {gen + 1}
        BY <1>3 DEF Resume, Elsewhere
    <2> QED BY <2>1, <2>2, Zenon DEF Counted
<1>4. CASE \/ \E on \in BOOLEAN : Arrange(on)
           \/ \E reveal \in BOOLEAN : End(reveal)
           \/ \E g \in orders : HandleOrder(g)
           \/ \E m \in wire : HandlePoll(m)
           \/ \E g \in 0 .. MaxGeneration : PageAsks(g)
    BY <1>1, <1>4, Zenon DEF Arrange, End, HandleOrder, HandlePoll, PageAsks, Elsewhere
<1>5. ASSUME NEW g \in grants, Begin(g)
      PROVE  Lease!Next /\ grants' = grants
    <2>1. g \in 0 .. MaxGeneration
        BY DEF Counted
    <2>2. Lease!Open(Scene, g) /\ grants' = grants
        BY <1>5 DEF Begin
    <2> QED BY <2>1, <2>2, Zenon DEF Lease!Next
<1>6. Running => token \in Lease!Tokens
    BY LenProperties DEF Lease!Tokens, Past, Held, Shape
<1>7. ASSUME NEW connected \in BOOLEAN, Poll(connected)
      PROVE  Lease!Next /\ grants' = grants
    <2>1. Running /\ Lease!Request(token) /\ grants' = grants
        BY <1>7 DEF Poll
    <2> QED BY <1>6, <2>1, Zenon DEF Lease!Next
<1>8. CASE Expire \/ Reject \/ PollFails \/ PhoneStops \/ Observe
    <2>1. Lease!Close /\ grants' = grants
        BY <1>8 DEF Expire, Reject, PollFails, PhoneStops, Observe, Stop, Halt
    <2> QED BY <2>1, Zenon DEF Lease!Next, Counted
<1>9. CASE Accept
    <2>1. Lease!Renew(token, reply.nonce) /\ grants' = grants /\ reply # NoReply
        BY <1>9 DEF Accept
    <2>2. reply.nonce = request /\ request \in Nat
        BY <2>1 DEF Lease!Renew, Lease!InTime, Inv, Types
    <2>3. reply.nonce \in 0 .. Len(asked)
        BY <2>2 DEF Counted
    <2>4. token \in Lease!Tokens
        BY <1>6, <2>1 DEF Inv, Asked
    <2> QED BY <2>1, <2>3, <2>4, Zenon DEF Lease!Next, Counted
<1>10. CASE PhoneDies
    <2>1. Forgets /\ grants' = {}
        BY <1>10 DEF PhoneDies, Forgets
    <2> QED BY <2>1
<1>11. CASE TimePasses
    <2>1. Lease!Tick /\ grants' = grants
        BY <1>11 DEF TimePasses
    <2> QED BY <2>1, Zenon DEF Lease!Next, Counted
<1>12. CASE UNCHANGED vars
    BY <1>1, <1>12, Zenon DEF vars
<1> QED
    BY <1>2, <1>3, <1>4, <1>5, <1>7, <1>8, <1>9, <1>10, <1>11, <1>12, Zenon DEF Next, Counted

(* requestedAt is when the last poll left, until its answer was used.      *)
Dated ==
    /\ request > 0 /\ requestedAt # Lease!Spent => requestedAt = asked[request]
    /\ \A i \in DOMAIN answered :
           /\ answered[i].nonce \in 1 .. request
           /\ answered[i].nonce = request => requestedAt = Lease!Spent

Renewals == Counted /\ Dated /\ Lease!AnswersInOrder /\ Lease!SilenceBound

LEMMA AppendFacts ==
    ASSUME NEW S, NEW s \in Seq(S), NEW e \in S
    PROVE  /\ Append(s, e) \in Seq(S)
           /\ Len(Append(s, e)) = Len(s) + 1
           /\ Len(s) \in Nat
           /\ DOMAIN s = 1 .. Len(s)
           /\ DOMAIN Append(s, e) = 1 .. Len(s) + 1
           /\ Append(s, e)[Len(s) + 1] = e
           /\ \A i \in 1 .. Len(s) : Append(s, e)[i] = s[i]
BY AppendProperties, LenProperties

LEMMA OpenRenewals ==
    ASSUME Inv, Shape, Renewals, grants' \subseteq 0 .. MaxGeneration,
           NEW g \in 0 .. MaxGeneration, Lease!Open(Scene, g)
    PROVE  Renewals'
<1> DEFINE new == [session |-> Scene, generation |-> g, at |-> clock]
<1>1. /\ opened' = Append(opened, new) /\ token' = Len(opened) + 1
      /\ deadline' = clock + TTL
      /\ UNCHANGED <<clock, request, requestedAt, asked, answered>>
    BY DEF Lease!Open
<1>2. new \in [session : {Scene}, generation : Nat, at : Nat] /\ new.at = clock
    BY LinkAssumption DEF Inv, Types
<1>3. opened'[token'] = new
    BY <1>1, <1>2, AppendFacts DEF Shape
<1>4. Lease!SilenceBound'
    BY <1>1, <1>2, <1>3 DEF Lease!SilenceBound
<1>5. Counted' /\ Dated' /\ Lease!AnswersInOrder'
    BY <1>1 DEF Renewals, Counted, Dated, Lease!AnswersInOrder
<1> QED BY <1>4, <1>5 DEF Renewals

LEMMA RequestRenewals ==
    ASSUME Inv, Shape, Renewals, grants' \subseteq 0 .. MaxGeneration,
           NEW t, Lease!Request(t)
    PROVE  Renewals'
<1>1. /\ asked' = Append(asked, clock) /\ request' = request + 1 /\ requestedAt' = clock
      /\ UNCHANGED <<clock, token, deadline, opened, answered>>
    BY DEF Lease!Request, Lease!held
<1>2. request \in Nat /\ clock \in Nat /\ request = Len(asked)
    BY DEF Inv, Types, Renewals, Counted
<1>3. /\ Len(asked') = request + 1
      /\ DOMAIN asked = 1 .. request /\ DOMAIN asked' = 1 .. request + 1
      /\ asked'[request + 1] = clock
      /\ \A i \in 1 .. request : asked'[i] = asked[i]
    BY <1>1, <1>2, AppendFacts DEF Shape
<1>4. Counted'
    BY <1>1, <1>2, <1>3 DEF Counted
<1>5. Dated'
    BY <1>1, <1>2, <1>3 DEF Renewals, Dated
<1>6. Lease!AnswersInOrder'
    BY <1>1 DEF Renewals, Lease!AnswersInOrder
<1>7. Lease!SilenceBound'
    BY <1>1, <1>2, <1>3 DEF Renewals, Lease!SilenceBound, Lease!Active
<1> QED BY <1>4, <1>5, <1>6, <1>7 DEF Renewals

LEMMA RenewRenewals ==
    ASSUME Inv, Shape, Renewals, grants' \subseteq 0 .. MaxGeneration,
           NEW t \in Lease!Tokens, NEW nonce \in 0 .. Len(asked), Lease!Renew(t, nonce)
    PROVE  Renewals'
<1> DEFINE n == Len(answered) + 1
           new == [token |-> t, nonce |-> nonce, at |-> clock]
<1>1. /\ token = t /\ nonce > 0 /\ nonce = request /\ clock - requestedAt <= MaxRtt
      /\ deadline' = requestedAt + TTL /\ requestedAt' = Lease!Spent
      /\ answered' = Append(answered, new)
      /\ UNCHANGED <<clock, token, request, opened, asked>>
    BY DEF Lease!Renew, Lease!InTime, Lease!Alive, Lease!Renewed, Lease!Used, Lease!held
<1>2. /\ clock \in Nat /\ request \in Nat /\ requestedAt \in Int /\ request = Len(asked)
      /\ t \in Nat /\ Lease!Spent = -(2 * TTL)
    BY <1>1 DEF Inv, Types, Renewals, Counted, Shape, Lease!Spent
<1>3. /\ Len(answered') = n /\ Len(answered) \in Nat
      /\ DOMAIN answered = 1 .. Len(answered) /\ DOMAIN answered' = 1 .. n
      /\ answered'[n] = new
      /\ \A i \in 1 .. Len(answered) : answered'[i] = answered[i]
    <2> DEFINE S == [token : Nat, nonce : Nat, at : Nat]
    <2>1. new \in S /\ answered \in Seq(S)
        BY <1>1, <1>2 DEF Shape
    <2>2. answered' = Append(answered, new)
        BY <1>1
    <2> HIDE DEF new, S
    <2> QED BY <2>1, <2>2, AppendFacts
<1>4. requestedAt # Lease!Spent
    BY <1>1, <1>2, LinkAssumption
<1>5. requestedAt = asked[request]
    BY <1>1, <1>2, <1>4 DEF Renewals, Dated
<1>6. \A i \in 1 .. Len(answered) :
         answered[i].nonce \in 1 .. request /\ answered[i].nonce # request
    BY <1>3, <1>4 DEF Renewals, Dated
<1>7. Counted' /\ Dated'
    <2>1. Counted'
        BY <1>1, <1>2 DEF Counted
    <2>2. ~(requestedAt' # Lease!Spent')
        BY <1>1 DEF Lease!Spent
    <2>3. \A i \in DOMAIN answered' : answered'[i].nonce \in 1 .. request
        BY <1>1, <1>2, <1>3, <1>6
    <2> QED BY <1>1, <2>1, <2>2, <2>3 DEF Dated
<1>8. Lease!AnswersInOrder'
    BY <1>1, <1>3, <1>6 DEF Renewals, Lease!AnswersInOrder
<1>9. Lease!SilenceBound'
    <2>1. answered'[n].token = token' /\ answered'[n].nonce \in DOMAIN asked'
        <3>1. answered'[n].token = t /\ answered'[n].nonce = request /\ asked' = asked
            BY <1>1, <1>3
        <3>2. DOMAIN asked = 1 .. request
            BY <1>2, LenProperties DEF Shape
        <3> QED BY <1>1, <1>2, <3>1, <3>2
    <2>2. deadline' = asked'[answered'[n].nonce] + TTL
        BY <1>1, <1>3, <1>5
    <2>3. answered'[n].at - asked'[answered'[n].nonce] <= MaxRtt
        BY <1>1, <1>3, <1>5
    <2> QED BY <1>3, <2>1, <2>2, <2>3 DEF Lease!SilenceBound
<1> QED BY <1>7, <1>8, <1>9 DEF Renewals

LEMMA RenewalsHold == Spec => []Renewals
<1>1. Init => Renewals
    <2> SUFFICES ASSUME Init PROVE Renewals
        OBVIOUS
    <2>1. /\ request = 0 /\ asked = <<>> /\ answered = <<>> /\ token = 0 /\ grants = {0}
        BY DEF Init, Lease!Init, Lease!NoToken
    <2>2. Counted /\ Dated
        BY <2>1, EmptySeq, LinkAssumption DEF Counted, Dated
    <2>3. Lease!AnswersInOrder /\ Lease!SilenceBound
        BY <2>1 DEF Lease!AnswersInOrder, Lease!SilenceBound, Lease!Active, Lease!NoToken
    <2> QED BY <2>2, <2>3 DEF Renewals
<1>2. Inv /\ Shape /\ Past /\ Renewals /\ [Next]_vars => Renewals'
    <2> SUFFICES ASSUME Inv, Shape, Past, Renewals, [Next]_vars PROVE Renewals'
        OBVIOUS
    <2>1. Lease!Next \/ Forgets \/ UNCHANGED lease
        BY LeaseSteps, Zenon DEF Renewals
    <2>2. grants' \subseteq 0 .. MaxGeneration
        BY LeaseSteps, Zenon DEF Renewals
    <2>3. ASSUME NEW g \in 0 .. MaxGeneration, Lease!Open(Scene, g) PROVE Renewals'
        BY <2>2, <2>3, OpenRenewals
    <2>4. ASSUME NEW t \in Lease!Tokens, Lease!Request(t) PROVE Renewals'
        BY <2>2, <2>4, RequestRenewals
    <2>5. ASSUME NEW t \in Lease!Tokens, NEW nonce \in 0 .. Len(asked), Lease!Renew(t, nonce)
          PROVE  Renewals'
        BY <2>2, <2>5, RenewRenewals
    <2>6. CASE Lease!Close \/ Forgets
        BY <2>2, <2>6 DEF Lease!Close, Lease!history, Forgets, Renewals, Counted, Dated,
                          Lease!AnswersInOrder, Lease!SilenceBound, Lease!Active
    <2>7. CASE Lease!Tick \/ UNCHANGED lease
        BY <2>2, <2>7 DEF Lease!Tick, Lease!held, Lease!history, lease, Renewals, Counted, Dated,
                          Lease!AnswersInOrder, Lease!SilenceBound, Lease!Active
    <2> QED BY <2>1, <2>3, <2>4, <2>5, <2>6, <2>7 DEF Lease!Next
<1> QED BY <1>1, <1>2, Invariance, ShapeHolds, PastHolds, PTL DEF Spec

(* The bridge, the page and the timer never do to the lease but what its   *)
(* own module allows any caller to do: for every step of the scene there   *)
(* is the one call that makes it, or the app was killed (pulse, receive,   *)
(* stopInternal, begin).                                                   *)
THEOREM UsesTheLease == Spec => LeaseAsMeant
<1>1. Inv /\ Shape /\ Past /\ Renewals /\ [Next]_vars => [Lease!Next \/ Forgets]_lease
    BY LeaseSteps DEF Renewals
<1> QED BY <1>1, Invariance, ShapeHolds, PastHolds, RenewalsHold, PTL DEF Spec, LeaseAsMeant

(* So what the lease promises of its end it promises in the scene, however *)
(* often the app is killed and whatever the network does: TTL after the    *)
(* start, or after the SENDING of a poll of this run whose answer was in   *)
(* time (renew, request).                                                  *)
THEOREM SilenceStopsTheScene == Spec => []Lease!SilenceBound
BY RenewalsHold, PTL DEF Renewals

(* And every answer counts once, in the order the polls were sent.         *)
THEOREM AnswersCountOnce == Spec => []Lease!AnswersInOrder
BY RenewalsHold, PTL DEF Renewals
=============================================================================
