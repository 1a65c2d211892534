-------------------------- MODULE SceneLeaseProofs --------------------------
(***************************************************************************)
(* Proofs about SceneLease, for any sessions, drivers, clock and number of *)
(* calls.                                                                  *)
(*                                                                         *)
(* The argument: `closed' is above every generation that ever had a token, *)
(* except the holder's own, so open() only lets a generation rise; and the *)
(* time a poll was sent is kept only until its answer is used, so the next *)
(* answer that renews is to a later poll.                                  *)
(***************************************************************************)
EXTENDS SceneLease, TLAPS, SequenceTheorems

Opening == [session : Sessions, generation : Nat, at : Nat]
Answer == [token : Nat, nonce : Nat, at : Nat]

(* Every token but the living one belongs to a generation that is closed.  *)
OpenedCovered ==
    \A i \in DOMAIN opened :
        \/ /\ i = token
           /\ opened[i].session = session /\ opened[i].generation = generation
        \/ i # token /\ opened[i].generation <= closed[opened[i].session]

(* requestedAt is when the last poll left, until its answer was used.      *)
AskedAt ==
    /\ request = Len(asked)
    /\ request > 0 /\ requestedAt # Spent => requestedAt = asked[request]

AnswersToPolls ==
    \A i \in DOMAIN answered :
        /\ answered[i].nonce \in 1 .. request
        /\ answered[i].nonce = request => requestedAt = Spent

Inv == /\ TypeOK
       /\ OpenedCovered /\ GenerationsRise
       /\ AskedAt /\ AnswersToPolls /\ AnswersInOrder /\ SilenceBound

LEMMA AppendFacts ==
    ASSUME NEW S, NEW s \in Seq(S), NEW e \in S
    PROVE  /\ Append(s, e) \in Seq(S)
           /\ Len(Append(s, e)) = Len(s) + 1
           /\ Len(s) \in Nat
           /\ DOMAIN s = 1 .. Len(s)
           /\ DOMAIN Append(s, e) = 1 .. Len(s) + 1
           /\ Append(s, e)[Len(s) + 1] = e
           /\ \A i \in 1 .. Len(s) : Append(s, e)[i] = s[i]
BY AppendProperties, LenProperties

LEMMA ClosedNowType ==
    ASSUME TypeOK
    PROVE  /\ ClosedNow \in [Sessions -> Int]
           /\ \A s \in Sessions : closed[s] <= ClosedNow[s]
           /\ Active => generation <= ClosedNow[session]
BY DEF TypeOK, ClosedNow

LEMMA OpenedType ==
    ASSUME TypeOK, NEW i \in 1 .. Len(opened)
    PROVE  opened[i].session \in Sessions /\ opened[i].generation \in Nat
<1>1. opened \in Seq(Opening)
    BY DEF TypeOK, Opening
<1>2. opened[i] \in Opening
    BY <1>1, ElementOfSeq
<1> QED BY <1>2 DEF Opening

LEMMA InitInv == Init => Inv
BY LeaseAssumption, EmptySeq
   DEF Init, Inv, TypeOK, OpenedCovered, GenerationsRise, AskedAt, AnswersToPolls,
       AnswersInOrder, SilenceBound, Active, NoToken, Never, NoFrames

LEMMA OpenInv ==
    ASSUME Inv, NEW id \in Sessions, NEW gen \in 0 .. MaxGeneration, Open(id, gen)
    PROVE  Inv'
<1> DEFINE n == Len(opened) + 1
           new == [session |-> id, generation |-> gen, at |-> clock]
<1> gen \in Nat
    BY LeaseAssumption
<1>1. /\ opened \in Seq(Opening) /\ new \in Opening
      /\ clock \in Nat /\ token \in Nat /\ generation \in Nat
    BY DEF Inv, TypeOK, Opening
<1>2. /\ opened' \in Seq(Opening) /\ Len(opened') = n
      /\ Len(opened) \in Nat
      /\ DOMAIN opened = 1 .. Len(opened) /\ DOMAIN opened' = 1 .. n
      /\ opened'[n] = new
      /\ \A i \in 1 .. Len(opened) : opened'[i] = opened[i]
    <2>1. opened' = Append(opened, new)
        BY DEF Open
    <2> HIDE DEF new
    <2> QED BY <1>1, <2>1, AppendFacts
<1>3. /\ closed' \in [Sessions -> Int]
      /\ \A x \in Sessions : closed[x] <= closed'[x]
      /\ Active => generation <= closed'[session]
    BY ClosedNowType DEF Inv, Open
<1>4. TypeOK'
    BY <1>1, <1>2, <1>3, LeaseAssumption DEF Inv, TypeOK, Open, held, Active, NoToken, NoFrames, Opening
<1>5. \A i \in 1 .. Len(opened) : opened[i].session \in Sessions
    BY OpenedType DEF Inv
<1>6. \A i \in 1 .. Len(opened) : opened[i].generation \in Nat
    BY OpenedType DEF Inv
<1>7. OpenedCovered'
    <2> SUFFICES ASSUME NEW i \in 1 .. n
                 PROVE  \/ /\ i = token'
                           /\ opened'[i].session = session' /\ opened'[i].generation = generation'
                        \/ i # token' /\ opened'[i].generation <= closed'[opened'[i].session]
        BY <1>2 DEF OpenedCovered
    <2>1. CASE i = n
        BY <1>2, <2>1 DEF Open
    <2>2. CASE i # n
        <3>1. i \in 1 .. Len(opened) /\ i # token' /\ opened'[i] = opened[i]
            BY <1>2, <2>2 DEF Open
        <3>2. CASE i = token
            <4>1. Active /\ opened[i].session = session /\ opened[i].generation = generation
                BY <1>2, <3>1, <3>2 DEF Inv, OpenedCovered, Active, NoToken
            <4> QED BY <1>3, <3>1, <4>1
        <3>3. CASE i # token
            <4>1. opened[i].generation <= closed[opened[i].session]
                BY <1>2, <3>1, <3>3 DEF Inv, OpenedCovered
            <4>2. closed[opened[i].session] <= closed'[opened[i].session]
                BY <1>3, <1>5, <3>1
            <4>3. closed[opened[i].session] \in Int /\ closed'[opened[i].session] \in Int
                BY <1>3, <1>5, <3>1 DEF Inv, TypeOK
            <4> QED BY <1>6, <3>1, <4>1, <4>2, <4>3
        <3> QED BY <3>2, <3>3
    <2> QED BY <2>1, <2>2
<1>8. GenerationsRise'
    <2> SUFFICES ASSUME NEW i \in 1 .. n, NEW j \in 1 .. n, i < j,
                        opened'[i].session = opened'[j].session
                 PROVE  opened'[i].generation < opened'[j].generation
        BY <1>2 DEF GenerationsRise
    <2>1. i \in 1 .. Len(opened) /\ opened'[i] = opened[i]
        BY <1>2
    <2>2. CASE j = n
        <3>1. opened[i].session = id /\ opened'[j].generation = gen
            BY <1>2, <2>1, <2>2
        <3>2. CASE i = token
            <4>1. Active /\ session = id /\ opened[i].generation = generation
                BY <1>2, <2>1, <3>1, <3>2 DEF Inv, OpenedCovered, Active, NoToken
            <4> QED BY <1>1, <2>1, <3>1, <4>1 DEF Open
        <3>3. CASE i # token
            <4>1. opened[i].generation <= closed[id] /\ closed[id] \in Int /\ gen > closed[id]
                BY <1>2, <2>1, <3>1, <3>3 DEF Inv, TypeOK, OpenedCovered, Open
            <4> QED BY <1>6, <2>1, <3>1, <4>1
        <3> QED BY <3>2, <3>3
    <2>3. CASE j # n
        BY <1>2, <2>1, <2>3 DEF Inv, GenerationsRise
    <2> QED BY <2>2, <2>3
<1>9. AskedAt' /\ AnswersToPolls' /\ AnswersInOrder'
    BY DEF Inv, AskedAt, AnswersToPolls, AnswersInOrder, Open
<1>10. SilenceBound'
    BY <1>2 DEF SilenceBound, Open
<1> QED BY <1>4, <1>7, <1>8, <1>9, <1>10 DEF Inv

LEMMA RequestInv ==
    ASSUME Inv, NEW t \in Tokens, Request(t)
    PROVE  Inv'
<1>1. /\ asked \in Seq(Nat) /\ clock \in Nat /\ request \in Nat /\ request = Len(asked)
    BY DEF Inv, TypeOK, AskedAt
<1>2. /\ asked' \in Seq(Nat) /\ Len(asked') = request + 1
      /\ DOMAIN asked = 1 .. request /\ DOMAIN asked' = 1 .. request + 1
      /\ asked'[request + 1] = clock
      /\ \A i \in 1 .. request : asked'[i] = asked[i]
    <2>1. asked' = Append(asked, clock)
        BY DEF Request
    <2> QED BY <1>1, <2>1, AppendFacts
<1>3. TypeOK'
    BY <1>1, <1>2 DEF Inv, TypeOK, Request, held, Active
<1>4. OpenedCovered' /\ GenerationsRise' /\ AnswersInOrder'
    BY DEF Inv, OpenedCovered, GenerationsRise, AnswersInOrder, Request, held
<1>5. AskedAt'
    BY <1>1, <1>2 DEF AskedAt, Request
<1>6. AnswersToPolls'
    BY <1>1 DEF Inv, AnswersToPolls, Request
<1>7. SilenceBound'
    BY <1>1, <1>2 DEF Inv, SilenceBound, Request, held, Active
<1> QED BY <1>3, <1>4, <1>5, <1>6, <1>7 DEF Inv

LEMMA RenewInv ==
    ASSUME Inv, NEW t \in Tokens, NEW nonce \in 0 .. Len(asked), Renew(t, nonce)
    PROVE  Inv'
<1> DEFINE n == Len(answered) + 1
           new == [token |-> t, nonce |-> nonce, at |-> clock]
<1>1. /\ clock \in Nat /\ request \in Nat /\ requestedAt \in Int
      /\ nonce = request /\ nonce \in 1 .. request /\ t = token /\ t \in Nat
      /\ answered \in Seq(Answer) /\ new \in Answer
    BY DEF Inv, TypeOK, Renew, InTime, Renewed, Used, Alive, Answer
<1>2. /\ answered' \in Seq(Answer) /\ Len(answered') = n
      /\ Len(answered) \in Nat
      /\ DOMAIN answered = 1 .. Len(answered) /\ DOMAIN answered' = 1 .. n
      /\ answered'[n] = new
      /\ \A i \in 1 .. Len(answered) : answered'[i] = answered[i]
    <2>1. answered' = Append(answered, new)
        BY DEF Renew, InTime, Renewed, Used
    <2> HIDE DEF new
    <2> QED BY <1>1, <2>1, AppendFacts
<1>3. requestedAt # Spent /\ Spent \in Int
    BY <1>1, LeaseAssumption DEF Renew, InTime, Renewed, Used, Spent
<1>4. requestedAt = asked[request] /\ request = Len(asked)
    BY <1>1, <1>3 DEF Inv, AskedAt
<1>5. TypeOK'
    BY <1>1, <1>2, <1>3, LeaseAssumption DEF Inv, TypeOK, Renew, InTime, Renewed, Used, held, Active, Answer
<1>6. OpenedCovered' /\ GenerationsRise' /\ AskedAt'
    BY DEF Inv, OpenedCovered, GenerationsRise, AskedAt, Renew, InTime, Renewed, Used, held
<1>7. \A i \in 1 .. Len(answered) :
         answered[i].nonce \in 1 .. request /\ answered[i].nonce # request
    BY <1>2, <1>3 DEF Inv, AnswersToPolls
<1>8. AnswersToPolls'
    BY <1>1, <1>2, <1>7 DEF AnswersToPolls, Renew, InTime, Renewed, Used
<1>9. AnswersInOrder'
    BY <1>1, <1>2, <1>7 DEF Inv, AnswersInOrder
<1>10. SilenceBound'
    <2>1. answered'[n].token = token' /\ answered'[n].nonce \in DOMAIN asked'
        BY <1>1, <1>2, <1>4, LenProperties DEF Inv, TypeOK, Renew, InTime, Renewed, Used, held
    <2>2. deadline' = asked'[answered'[n].nonce] + TTL
        BY <1>1, <1>2, <1>4 DEF Renew, InTime, Renewed, Used
    <2>3. answered'[n].at - asked'[answered'[n].nonce] <= MaxRtt
        BY <1>1, <1>2, <1>4 DEF Renew, InTime, Renewed, Used
    <2> QED BY <1>2, <2>1, <2>2, <2>3 DEF SilenceBound
<1> QED BY <1>5, <1>6, <1>8, <1>9, <1>10 DEF Inv

LEMMA FrameInv ==
    ASSUME Inv, NEW t \in Tokens, NEW d \in Drivers, NEW r \in 1 .. MaxRevision, Frame(t, d, r)
    PROVE  Inv'
<1>1. TypeOK'
    BY LeaseAssumption DEF Inv, TypeOK, Frame, held, history, Active
<1>2. (OpenedCovered /\ GenerationsRise /\ AskedAt /\ AnswersToPolls /\ AnswersInOrder)'
    BY DEF Inv, OpenedCovered, GenerationsRise, AskedAt, AnswersToPolls, AnswersInOrder, Frame, held, history
<1>3. SilenceBound'
    BY DEF Inv, SilenceBound, Active, Frame, held, history
<1> QED BY <1>1, <1>2, <1>3 DEF Inv

LEMMA CloseInv ==
    ASSUME Inv, Close
    PROVE  Inv'
<1>1. /\ closed' \in [Sessions -> Int]
      /\ \A x \in Sessions : closed[x] <= closed'[x]
      /\ Active => generation <= closed'[session]
    BY ClosedNowType DEF Inv, Close
<1>2. opened \in Seq(Opening) /\ DOMAIN opened = 1 .. Len(opened) /\ opened' = opened
    BY LenProperties DEF Inv, TypeOK, Opening, Close, history
<1>3. TypeOK'
    BY <1>1 DEF Inv, TypeOK, Close, history, Active, NoToken, NoFrames
<1>4. OpenedCovered'
    <2> SUFFICES ASSUME NEW i \in 1 .. Len(opened)
                 PROVE  i # token' /\ opened[i].generation <= closed'[opened[i].session]
        BY <1>2 DEF OpenedCovered
    <2>1. i # token' /\ opened[i].session \in Sessions /\ opened[i].generation \in Nat
        BY OpenedType DEF Inv, Close, NoToken
    <2>2. CASE i = token
        <3>1. Active /\ opened[i].session = session /\ opened[i].generation = generation
            BY <1>2, <2>2 DEF Inv, OpenedCovered, Active, NoToken
        <3> QED BY <1>1, <2>1, <3>1
    <2>3. CASE i # token
        <3>1. opened[i].generation <= closed[opened[i].session]
            BY <1>2, <2>3 DEF Inv, OpenedCovered
        <3>2. closed[opened[i].session] \in Int /\ closed'[opened[i].session] \in Int
            BY <1>1, <2>1 DEF Inv, TypeOK
        <3> QED BY <1>1, <2>1, <3>1, <3>2
    <2> QED BY <2>2, <2>3
<1>5. (GenerationsRise /\ AskedAt /\ AnswersToPolls /\ AnswersInOrder)'
    BY DEF Inv, GenerationsRise, AskedAt, AnswersToPolls, AnswersInOrder, Close, history
<1>6. SilenceBound'
    BY DEF SilenceBound, Active, Close
<1> QED BY <1>1, <1>3, <1>4, <1>5, <1>6 DEF Inv

LEMMA TickInv ==
    ASSUME Inv, Tick
    PROVE  Inv'
<1>1. TypeOK'
    BY DEF Inv, TypeOK, Tick, held, history, Active
<1>2. (OpenedCovered /\ GenerationsRise /\ AskedAt /\ AnswersToPolls /\ AnswersInOrder)'
    BY DEF Inv, OpenedCovered, GenerationsRise, AskedAt, AnswersToPolls, AnswersInOrder, Tick, held, history
<1>3. SilenceBound'
    BY DEF Inv, SilenceBound, Active, Tick, held, history
<1> QED BY <1>1, <1>2, <1>3 DEF Inv

LEMMA StutterInv ==
    ASSUME Inv, UNCHANGED vars
    PROVE  Inv'
BY DEF Inv, TypeOK, OpenedCovered, GenerationsRise, AskedAt, AnswersToPolls, AnswersInOrder,
       SilenceBound, Active, vars, held, history

(* The inductive invariant of the lease, under any calls in any order.     *)
THEOREM Invariance == Spec => []Inv
<1>1. ASSUME Inv, [Next]_vars
      PROVE  Inv'
    BY <1>1, OpenInv, RequestInv, RenewInv, FrameInv, CloseInv, TickInv, StutterInv DEF Next
<1> QED BY InitInv, <1>1, PTL DEF Spec

(* Type correctness of every variable of the lease.                        *)
THEOREM TypeCorrect == Spec => []TypeOK
BY Invariance, PTL DEF Inv

(* open() never hands out a token for a generation it handed out before.   *)
THEOREM NoGenerationTwice == Spec => []GenerationsRise
BY Invariance, PTL DEF Inv

(* A living token runs out TTL after it was opened or after the sending of *)
(* a poll that was answered in time under this token.                      *)
THEOREM SilenceStops == Spec => []SilenceBound
BY Invariance, PTL DEF Inv

(* Every answer renews at most once, and in the order of the polls.        *)
THEOREM OnceEach == Spec => []AnswersInOrder
BY Invariance, PTL DEF Inv

LEMMA RevokedForbids ==
    ASSUME NEW t, NEW d, NEW r \in 0 .. MaxRevision, Revoked(t, d, r)'
    PROVE  ~Permits(t, d, r)'
BY LeaseAssumption DEF Revoked, Permits

LEMMA RevokedStep ==
    ASSUME Inv, [Next]_vars
    PROVE  StaysRevoked
<1> SUFFICES ASSUME NEW t \in Tokens, NEW d \in Drivers, NEW r \in 0 .. MaxRevision,
                    Revoked(t, d, r)
             PROVE  Revoked(t, d, r)'
    BY RevokedForbids DEF StaysRevoked
<1>1. /\ r \in Nat /\ clock \in Nat /\ deadline \in Int /\ token \in Nat
      /\ frames \in [Drivers -> Int] /\ Len(opened) \in Nat /\ t \in Nat
    <2>1. Len(opened) \in Nat
        BY LenProperties DEF Inv, TypeOK
    <2> QED BY <2>1, LeaseAssumption DEF Inv, TypeOK, Tokens
<1>2. ASSUME NEW id \in Sessions, NEW gen \in 0 .. MaxGeneration, Open(id, gen)
      PROVE  Revoked(t, d, r)'
    BY <1>1, <1>2 DEF Open, Revoked, Alive, Tokens
<1>3. ASSUME NEW u \in Tokens, Request(u)
      PROVE  Revoked(t, d, r)'
    BY <1>3 DEF Request, Revoked, Alive, Active, held
<1>4. ASSUME NEW u \in Tokens, NEW nonce \in 0 .. Len(asked), Renew(u, nonce)
      PROVE  Revoked(t, d, r)'
    BY <1>4 DEF Renew, InTime, Renewed, Used, Revoked, Alive, Active, held
<1>5. ASSUME NEW u \in Tokens, NEW e \in Drivers, NEW q \in 1 .. MaxRevision, Frame(u, e, q)
      PROVE  Revoked(t, d, r)'
    <2>1. frames[d] <= frames'[d] /\ frames'[d] \in Int /\ frames[d] \in Int
        BY <1>1, <1>5, LeaseAssumption DEF Frame
    <2>2. Alive(t)' => Alive(t)
        BY <1>5 DEF Frame, Alive, Active, held
    <2> QED BY <1>1, <2>1, <2>2 DEF Revoked
<1>6. ASSUME Close
      PROVE  Revoked(t, d, r)'
    BY <1>6 DEF Close, Revoked, Alive, Active
<1>7. ASSUME Tick
      PROVE  Revoked(t, d, r)'
    BY <1>1, <1>7 DEF Tick, Revoked, Alive, Active, held
<1>8. ASSUME UNCHANGED vars
      PROVE  Revoked(t, d, r)'
    BY <1>8 DEF vars, held, Revoked, Alive, Active
<1> QED BY <1>2, <1>3, <1>4, <1>5, <1>6, <1>7, <1>8 DEF Next

(* What may no longer go out never may again.                              *)
THEOREM RevokedIsFinal == Spec => RevokedForGood
<1>1. Inv /\ [Next]_vars => [StaysRevoked]_vars
    BY RevokedStep
<1> QED BY Invariance, <1>1, PTL DEF Spec, RevokedForGood
=============================================================================
