----------------------------- MODULE SceneLease -----------------------------
(***************************************************************************)
(* core/SceneLease.java: the local fence in front of the toys a scene      *)
(* plays.  A scene session of some generation opens the lease and gets a   *)
(* token; while the token is alive the output thread may send frames; the  *)
(* polling thread keeps it alive by asking the server (request) and        *)
(* handing in the answer (renew); a stop closes it.  Every method is       *)
(* synchronized, so one call is one step, and the callers are any threads  *)
(* in any order, with any token or nonce they were ever given.             *)
(*                                                                         *)
(* A token is a random UUID; here the n-th token ever handed out is n and  *)
(* the empty string is NoToken.  A call that is refused changes nothing.   *)
(* `opened', `asked' and `answered' record what the lease granted; no      *)
(* guard reads them.                                                       *)
(***************************************************************************)
EXTENDS Integers, Sequences

CONSTANTS
    Sessions,       \* ids of scene sessions
    NoSession,      \* the empty id
    Drivers,        \* the drivers of the bound toys
    TTL, MaxRtt,    \* TTL_MS and MAX_RTT_MS, in ticks of the clock
    MaxClock,       \* bounds of the checked instance: ticks,
    MaxGeneration,  \* generations of a session,
    MaxRevision,    \* frames of a driver,
    MaxRequests     \* and polls

ASSUME LeaseAssumption ==
    /\ NoSession \notin Sessions
    /\ TTL \in Nat \ {0} /\ MaxRtt \in Nat /\ MaxRtt < 2 * TTL
    /\ MaxClock \in Nat /\ MaxGeneration \in Nat
    /\ MaxRevision \in Nat /\ MaxRequests \in Nat

VARIABLES
    clock,                          \* elapsedRealtime
    session, generation, token,     \* who holds the lease
    deadline, request, requestedAt, \* until when; the last poll and its time
    closed,                         \* highest generation stopped, per session
    frames,                         \* newest revision, per driver
    opened, asked, answered         \* history

held == <<session, generation, token>>
history == <<opened, asked, answered>>
vars == <<clock, held, deadline, request, requestedAt, closed, frames, history>>

NoToken == 0
Spent == -(2 * TTL)
Never == [s \in Sessions |-> -1]
NoFrames == [d \in Drivers |-> -1]

Tokens == 1 .. Len(opened)

Init ==
    /\ clock = 0
    /\ session = NoSession /\ generation = 0 /\ token = NoToken
    /\ deadline = 0 /\ request = 0 /\ requestedAt = 0
    /\ closed = Never /\ frames = NoFrames
    /\ opened = <<>> /\ asked = <<>> /\ answered = <<>>

-----------------------------------------------------------------------------
(* What a caller can ask without changing anything.                        *)

Active == token # NoToken

Alive(t) == Active /\ token = t /\ clock < deadline

Permits(t, d, r) == Alive(t) /\ r = frames[d]

(* A holder that is closed leaves no fence, or wipes those of the others.  *)
BadClosedNow == closed
BadOnlyFence == IF Active THEN [s \in {session} |-> generation] ELSE closed

(* The generations close() leaves behind: the holder's, if there is one.   *)
ClosedNow ==
    IF Active
    THEN [closed EXCEPT ![session] = IF generation > @ THEN generation ELSE @]
    ELSE closed

-----------------------------------------------------------------------------
(* open(id, gen): a generation that was stopped, or is not above the one   *)
(* that holds the lease, is refused; any other holder is closed first.     *)
Open(id, gen) ==
    /\ gen > closed[id]
    /\ ~(Active /\ session = id /\ gen <= generation)
    /\ closed' = ClosedNow
    /\ session' = id /\ generation' = gen /\ token' = Len(opened) + 1
    /\ deadline' = clock + TTL
    /\ frames' = NoFrames
    /\ opened' = Append(opened, [session |-> id, generation |-> gen, at |-> clock])
    /\ UNCHANGED <<clock, request, requestedAt, asked, answered>>

(* request(token): a poll is about to leave; its number is the nonce.      *)
Request(t) ==
    /\ Alive(t)
    /\ request < MaxRequests
    /\ requestedAt' = clock /\ request' = request + 1
    /\ asked' = Append(asked, clock)
    /\ UNCHANGED <<clock, held, deadline, closed, frames, opened, answered>>

(* An answer counts if it is to the last poll, came in time, and finds the *)
(* lease alive (the change: a lease that ran out but was not closed).      *)
BadInTime(t, nonce) == token = t /\ nonce > 0 /\ nonce = request /\ clock - requestedAt <= MaxRtt
InTime(t, nonce) == Alive(t) /\ nonce > 0 /\ nonce = request /\ clock - requestedAt <= MaxRtt

(* It counts from when it was asked for (the change: from its arrival) ... *)
BadRenewed == clock + TTL
Renewed == requestedAt + TTL

(* ... and only once.                                                      *)
BadUsed == requestedAt
Used == Spent

(* renew(token, nonce)                                                     *)
Renew(t, nonce) ==
    /\ InTime(t, nonce)
    /\ deadline' = Renewed /\ requestedAt' = Used
    /\ answered' = Append(answered, [token |-> t, nonce |-> nonce, at |-> clock])
    /\ UNCHANGED <<clock, held, request, closed, frames, opened, asked>>

(* frame(token, driver, revision): the newest frame of a driver.           *)
Frame(t, d, r) ==
    /\ Alive(t) /\ r >= frames[d]
    /\ frames' = [frames EXCEPT ![d] = r]
    /\ UNCHANGED <<clock, held, deadline, request, requestedAt, closed, history>>

(* close(): a pause, an end, a lost device or an expired lease.            *)
Close ==
    /\ closed' = ClosedNow
    /\ token' = NoToken /\ frames' = NoFrames
    /\ UNCHANGED <<clock, session, generation, deadline, request, requestedAt, history>>

Tick ==
    /\ clock < MaxClock
    /\ clock' = clock + 1
    /\ UNCHANGED <<held, deadline, request, requestedAt, closed, frames, history>>

Next ==
    \/ \E id \in Sessions, gen \in 0 .. MaxGeneration : Open(id, gen)
    \/ \E t \in Tokens : Request(t)
    \/ \E t \in Tokens, nonce \in 0 .. Len(asked) : Renew(t, nonce)
    \/ \E t \in Tokens, d \in Drivers, r \in 1 .. MaxRevision : Frame(t, d, r)
    \/ Close
    \/ Tick

Spec == Init /\ [][Next]_vars

-----------------------------------------------------------------------------
(* The type of every variable, numbers unbounded.                          *)
TypeOK ==
    /\ clock \in Nat
    /\ session \in Sessions \cup {NoSession}
    /\ generation \in Nat
    /\ token \in Nat /\ token <= Len(opened)
    /\ Active => session \in Sessions
    /\ deadline \in Int /\ request \in Nat /\ requestedAt \in Int
    /\ closed \in [Sessions -> Int]
    /\ frames \in [Drivers -> Int]
    /\ opened \in Seq([session : Sessions, generation : Nat, at : Nat])
    /\ asked \in Seq(Nat)
    /\ answered \in Seq([token : Nat, nonce : Nat, at : Nat])

(* Whatever was stopped or replaced, no session gets a token for the same  *)
(* or an earlier generation again: a late start of the scene the user just *)
(* ended cannot set the toys going (open, close).                          *)
GenerationsRise ==
    \A i, j \in DOMAIN opened :
        i < j /\ opened[i].session = opened[j].session
            => opened[i].generation < opened[j].generation

(* The lease runs out TTL after it was opened or after a poll was SENT     *)
(* that was answered in time under this very token: a server that is       *)
(* silent, or slow, does not keep the toys running (renew, request).       *)
SilenceBound ==
    Active =>
        \/ deadline = opened[token].at + TTL
        \/ \E i \in DOMAIN answered :
              /\ answered[i].token = token
              /\ answered[i].nonce \in DOMAIN asked
              /\ deadline = asked[answered[i].nonce] + TTL
              /\ answered[i].at - asked[answered[i].nonce] <= MaxRtt

(* An answer renews at most once, and never after a later one did: late    *)
(* and duplicated replies of the network change nothing (renew).           *)
AnswersInOrder ==
    \A i, j \in DOMAIN answered :
        i < j => answered[i].nonce < answered[j].nonce

(* A frame that may no longer go out, because its token is dead or a newer *)
(* frame of its driver exists, may never go out again: what a transport    *)
(* still has queued stays harmless whatever is opened, renewed or framed   *)
(* afterwards (permits, which every queued write asks).                    *)
Revoked(t, d, r) == ~Alive(t) \/ r < frames[d]

StaysRevoked ==
    \A t \in Tokens, d \in Drivers, r \in 0 .. MaxRevision :
        Revoked(t, d, r) => Revoked(t, d, r)' /\ ~Permits(t, d, r)'
RevokedForGood == [][StaysRevoked]_vars
=============================================================================
