---------------------------- MODULE AccountLifeProofs ----------------------------
(***************************************************************************)
(* The life of an account, for any number of requests, challenges and      *)
(* failures: what its owner deleted stays deleted, sessions and ops rows   *)
(* included, and a challenge opens one session.                            *)
(***************************************************************************)
EXTENDS AccountLife, TLAPS

-----------------------------------------------------------------------------
(* What a step does to the processes.                                       *)

\* A process between two awaits holds the record of its request.
LEMMA HoldsRecord ==
    ASSUME TypeOK, NEW p \in Processes, ~At(p, "idle")
    PROVE  /\ doing[p] \in Held
           /\ doing[p].at \in Steps /\ doing[p].challenge \in Challenges \cup {0} /\ doing[p].life \in Nat
<1>1. doing[p] \in {Idle} \cup Held
  BY DEF TypeOK, DoingOK
<1>2. doing[p] # Idle
  BY DEF At, Idle
<1> QED
  BY <1>1, <1>2 DEF Held

\* The other processes stay where they are.
Others(p) == \A q \in Processes : q # p => doing'[q] = doing[q]

\* A process that takes up what it holds next is where it may be.
LEMMA MovesOK ==
    ASSUME TypeOK, NEW p \in Processes, NEW h \in {Idle} \cup Held,
           doing' = [doing EXCEPT ![p] = h],
           h.at \in {"exchange", "grant"} => h.challenge \in Challenges,
           p = Cron => h.at \in {"idle", "sweep", "drain", "purge", "clear", "prune"}
    PROVE  DoingOK' /\ doing'[p] = h /\ Others(p)
<1>1. doing \in [Processes -> {Idle} \cup Held] /\ Cron \in Processes
  BY DEF TypeOK, DoingOK, Processes
<1>2. doing' \in [Processes -> {Idle} \cup Held] /\ doing'[p] = h /\ Others(p)
  BY <1>1 DEF Others
<1>3. doing'[Cron].at \in {"idle", "sweep", "drain", "purge", "clear", "prune"}
  <2>1. CASE p = Cron
    BY <1>2, <2>1
  <2>2. CASE p # Cron
    BY <1>1, <1>2, <2>2 DEF Others, TypeOK, DoingOK
  <2> QED
    BY <2>1, <2>2
<1>4. ASSUME NEW q \in Processes, doing'[q].at \in {"exchange", "grant"}
      PROVE  doing'[q].challenge \in Challenges
  <2>1. CASE q = p
    BY <1>2, <1>4, <2>1
  <2>2. CASE q # p
    BY <1>2, <1>4, <2>2 DEF Others, TypeOK, DoingOK
  <2> QED
    BY <2>1, <2>2
<1> QED
  BY <1>2, <1>3, <1>4 DEF DoingOK

LEMMA DoneOK ==
    ASSUME TypeOK, NEW p \in Processes, Done(p)
    PROVE  DoingOK' /\ doing'[p] = Idle /\ Others(p)
<1>1. doing' = [doing EXCEPT ![p] = Idle] /\ Idle.at = "idle"
  BY DEF Done, Idle
<1> QED
  BY <1>1, MovesOK

LEMMA GotoOK ==
    ASSUME TypeOK, NEW p \in Processes, ~At(p, "idle"), NEW step \in Steps, Goto(p, step),
           step \in {"exchange", "grant"} => doing[p].challenge \in Challenges,
           p = Cron => step \in {"sweep", "drain", "purge", "clear", "prune"}
    PROVE  /\ DoingOK' /\ Others(p)
           /\ doing'[p] = [at |-> step, challenge |-> doing[p].challenge, life |-> doing[p].life]
<1> DEFINE h == [at |-> step, challenge |-> doing[p].challenge, life |-> doing[p].life]
<1>1. doing[p] \in Held
  BY HoldsRecord
<1>2. step # "done"
  BY DEF Steps
<1>3. doing' = [doing EXCEPT ![p].at = step]
  BY <1>2 DEF Goto
<1>4. [doing[p] EXCEPT !.at = step] = h
  BY <1>1 DEF Held
<1>5. h \in Held /\ h.at = step /\ h.challenge = doing[p].challenge
  BY <1>1 DEF Held
<1>6. doing' = [doing EXCEPT ![p] = h]
  BY <1>3, <1>4
<1> HIDE DEF h
<1>7. DoingOK' /\ Others(p) /\ doing'[p] = h
  BY <1>5, <1>6, MovesOK
<1> QED
  BY <1>7 DEF h

\* A request begins: it holds its record, and the bounds know of it.
LEMMA BeginOK ==
    ASSUME TypeOK, NEW r \in Requests, NEW step \in Steps, NEW c \in Challenges \cup {0},
           NEW life \in Nat, Begin(r, step, c, life),
           step \in {"exchange", "grant"} => c \in Challenges
    PROVE  /\ DoingOK' /\ Others(r) /\ history' \in History
           /\ doing'[r] = [at |-> step, challenge |-> c, life |-> life]
<1> DEFINE h == [at |-> step, challenge |-> c, life |-> life]
<1>1. h \in Held /\ h.at = step /\ h.challenge = c
  BY DEF Held
<1>2. doing' = [doing EXCEPT ![r] = h]
  BY DEF Begin
<1>3. r \in Processes /\ r # Cron
  BY ProcessesAssumption DEF Processes
<1>4. history' \in History
  BY BoundsAssumption DEF TypeOK, Begin, History
<1> HIDE DEF h
<1>5. DoingOK' /\ Others(r) /\ doing'[r] = h
  BY <1>1, <1>2, <1>3, MovesOK
<1> QED
  BY <1>4, <1>5 DEF h

\* Requests are not the tick.
LEMMA RequestsAside ==
    /\ \A r \in Requests : r \in Processes /\ r # Cron
    /\ Cron \in Processes
BY ProcessesAssumption DEF Processes

\* The end of a drain is a step of its process.
LEMMA DrainEnds ==
    /\ EndOfDrain(Cron) = "prune"
    /\ \A r \in Requests : EndOfDrain(r) = IF doing[r].life = 0 THEN "done" ELSE "revoke"
BY RequestsAside DEF EndOfDrain, DeletionStep

LEMMA StepsKnown ==
    {"issue", "exchange", "grant", "lookup", "wakes", "devices", "round", "touch", "retire", "delete",
     "sweep", "drain", "purge", "clear", "revoke", "prune"} = Steps
BY DEF Steps

-----------------------------------------------------------------------------
(* Types.                                                                   *)

Auth == [challenges : SUBSET [id : Challenges, until : Int], sessions : SUBSET Session]

LEMMA AskTyped ==
    ASSUME TypeOK, NEW r \in Requests, Ask(r)
    PROVE  TypeOK'
<1>1. history.life \in Nat /\ 0 \in Nat
  BY DEF TypeOK, History
<1>2. ASSUME NEW step \in Steps \ {"exchange", "grant"}, NEW life \in Nat,
             Begin(r, step, 0, life), UNCHANGED <<relay, rows, auth, now>>
      PROVE  TypeOK'
  <2>1. DoingOK' /\ history' \in History
    BY <1>2, BeginOK
  <2> QED
    BY <1>2, <2>1 DEF TypeOK
<1>3. ASSUME NEW step \in Steps \ {"exchange", "grant"}, Authenticated(r, step),
             UNCHANGED <<relay, rows, auth, now>>
      PROVE  TypeOK'
  BY <1>1, <1>2, <1>3 DEF Authenticated
<1>4. {"lookup", "devices", "round", "retire", "issue", "drain"} \subseteq Steps \ {"exchange", "grant"}
  BY DEF Steps
<1>5. CASE AskChallenge(r)
  BY <1>1, <1>2, <1>4, <1>5 DEF AskChallenge
<1>6. CASE AskSession(r)
  <2>1. PICK c \in 1 .. history.issued : Begin(r, "exchange", c, history.life)
    BY <1>6 DEF AskSession
  <2>2. c \in Challenges
    BY BoundsAssumption DEF Challenges, TypeOK, History
  <2>3. DoingOK' /\ history' \in History
    BY <1>1, <2>1, <2>2, BeginOK, StepsKnown
  <2> QED
    BY <1>6, <2>3 DEF TypeOK, AskSession
<1>7. CASE AskPublish(r)
  BY <1>3, <1>4, <1>7 DEF AskPublish
<1>8. CASE AskDevice(r)
  BY <1>3, <1>4, <1>8 DEF AskDevice
<1>9. CASE AskRound(r)
  BY <1>3, <1>4, <1>9 DEF AskRound
<1>10. CASE AskDeletion(r)
  BY <1>3, <1>4, <1>10 DEF AskDeletion, DeletionStep
<1>11. CASE AskOtherDeletion(r)
  BY <1>1, <1>2, <1>4, <1>11 DEF AskOtherDeletion
<1> QED
  BY <1>5, <1>6, <1>7, <1>8, <1>9, <1>10, <1>11 DEF Ask

LEMMA StepTyped ==
    ASSUME TypeOK, NEW r \in Requests, Step(r)
    PROVE  TypeOK'
<1>1. r \in Processes /\ r # Cron
  BY RequestsAside
<1>2. CASE IssueChallenge(r)
  <2>1. history.issued + 1 \in Challenges /\ history.issued + 1 \in 0 .. MaxChallenges
    BY <1>2, BoundsAssumption DEF TypeOK, IssueChallenge, Challenges, History
  <2>2. now + ChallengeTtl \in Int
    BY TimesAssumption, BoundsAssumption DEF TypeOK
  <2>3. auth' \in Auth
    BY <1>2, <2>1, <2>2 DEF TypeOK, IssueChallenge, Auth
  <2>4. history' \in History
    BY <1>2, <2>1 DEF TypeOK, IssueChallenge, History
  <2>5. DoingOK'
    BY <1>1, <1>2, DoneOK DEF IssueChallenge
  <2> QED
    BY <1>2, <2>3, <2>4, <2>5 DEF TypeOK, IssueChallenge, Auth
<1>3. CASE Exchange(r)
  <2>1. auth' \in Auth
    BY <1>3 DEF TypeOK, Exchange, Consumed, Auth
  <2>2. At(r, "exchange") /\ ~At(r, "idle") /\ doing[r].challenge \in Challenges
    BY <1>1, <1>3 DEF Exchange, At, TypeOK, DoingOK
  <2>3. DoingOK'
    <3>1. CASE Done(r)
      BY <1>1, <3>1, DoneOK
    <3>2. CASE Goto(r, "grant")
      BY <1>1, <2>2, <3>2, GotoOK, StepsKnown
    <3> QED
      BY <1>3, <3>1, <3>2 DEF Exchange
  <2> QED
    BY <1>3, <2>1, <2>3 DEF TypeOK, Exchange, Auth
<1>4. CASE Grant(r)
  <2>1. now + SessionTtl \in Int /\ Late(r) \in BOOLEAN
    BY TimesAssumption, BoundsAssumption DEF TypeOK, Late
  <2>2. doing[r].challenge \in Challenges
    BY <1>1, <1>4 DEF Grant, At, TypeOK, DoingOK
  <2>3. [challenge |-> doing[r].challenge, until |-> now + SessionTtl, late |-> Late(r)] \in Session
    BY <2>1, <2>2 DEF Session
  <2>4. auth' \in Auth
    BY <1>4, <2>3 DEF TypeOK, Grant, Auth
  <2>5. history' \in History
    BY <1>4, <2>2 DEF TypeOK, Grant, History
  <2>6. DoingOK'
    BY <1>1, <1>4, DoneOK DEF Grant
  <2> QED
    BY <1>4, <2>4, <2>5, <2>6 DEF TypeOK, Grant, Auth
<1>5. CASE LookUp(r)
  <2> DEFINE h == [at |-> "wakes", challenge |-> 0, life |-> history.life]
  <2>2. history.life \in Nat
    BY DEF TypeOK, History
  <2>4. h \in Held /\ h.at = "wakes"
    BY <2>2 DEF Held, Steps
  <2>5. DoingOK'
    <3>1. CASE relay.exists
      <4>1. doing' = [doing EXCEPT ![r] = h]
        BY <1>5, <3>1 DEF LookUp
      <4> HIDE DEF h
      <4> QED
        BY <1>1, <2>4, <4>1, MovesOK
    <3>2. CASE ~relay.exists
      <4>1. Done(r)
        BY <1>5, <3>2 DEF LookUp, Done
      <4> QED
        BY <1>1, <4>1, DoneOK
    <3> QED
      BY <3>1, <3>2
  <2> QED
    BY <1>5, <2>5 DEF TypeOK, LookUp
<1>6. CASE WriteRows(r)
  <2>1. PICK t \in Tables :
           /\ At(r, t) /\ Goto(r, "touch")
           /\ rows' = [rows EXCEPT ![t] = @ \cup {[life |-> doing[r].life, late |-> Late(r)]}]
           /\ UNCHANGED <<relay, auth, now, history>>
    BY <1>6 DEF WriteRows
  <2>2. ~At(r, "idle")
    BY <2>1 DEF At, Tables
  <2>3. [life |-> doing[r].life, late |-> Late(r)] \in Row
    BY <1>1, <2>2, HoldsRecord DEF Row, Late, TypeOK
  <2>4. rows' \in [Tables -> SUBSET Row]
    BY <2>1, <2>3 DEF TypeOK
  <2>5. DoingOK'
    BY <1>1, <2>1, <2>2, GotoOK, StepsKnown
  <2> QED
    BY <2>1, <2>4, <2>5 DEF TypeOK
<1>7. CASE Touch(r)
  <2>1. DoingOK'
    BY <1>1, <1>7, DoneOK DEF Touch
  <2>2. now \in Int
    BY BoundsAssumption DEF TypeOK
  <2> QED
    BY <1>7, <2>1, <2>2 DEF TypeOK, Touch
<1>8. CASE Retire(r)
  <2>1. ~At(r, "idle") /\ Goto(r, "delete")
    BY <1>8 DEF Retire, At, DeletionStep
  <2>2. DoingOK'
    BY <1>1, <2>1, GotoOK, StepsKnown
  <2> QED
    BY <1>8, <2>2 DEF TypeOK, Retire
<1>9. CASE DeleteAccount(r)
  <2>1. ~At(r, "idle") /\ Goto(r, "drain")
    BY <1>9 DEF DeleteAccount, At, DeletionStep
  <2>2. DoingOK'
    BY <1>1, <2>1, GotoOK, StepsKnown
  <2>3. history' \in History
    BY <1>9 DEF TypeOK, DeleteAccount, History
  <2> QED
    BY <1>9, <2>2, <2>3 DEF TypeOK, DeleteAccount, Dropped
<1>10. CASE Revoke(r)
  <2>1. Done(r)
    BY <1>10 DEF Revoke, DeletionStep, Goto
  <2>2. DoingOK'
    BY <1>1, <2>1, DoneOK
  <2>3. history' \in History
    BY <1>10 DEF TypeOK, Revoke, History
  <2> QED
    BY <1>10, <2>2, <2>3 DEF TypeOK, Revoke
<1> QED
  BY <1>2, <1>3, <1>4, <1>5, <1>6, <1>7, <1>8, <1>9, <1>10 DEF Step

\* Where a drain leads.
LEMMA DrainedOK ==
    ASSUME TypeOK, NEW p \in Processes, ~At(p, "idle"), NEW step \in {"purge", "clear", "end"},
           Drained(p, step)
    PROVE  DoingOK' /\ Others(p)
<1>1. CASE step # "end"
  <2>1. Goto(p, step) /\ step \in {"purge", "clear"}
    BY <1>1 DEF Drained
  <2>2. step \in Steps
    BY <2>1, StepsKnown
  <2> QED
    BY <2>1, <2>2, GotoOK
<1>2. CASE step = "end"
  <2>1. Goto(p, EndOfDrain(p))
    BY <1>2 DEF Drained
  <2>2. CASE p = Cron
    BY <2>1, <2>2, DrainEnds, GotoOK, StepsKnown
  <2>3. CASE p # Cron
    <3>1. p \in Requests
      BY <2>3 DEF Processes
    <3>2. EndOfDrain(p) \in {"done", "revoke"}
      BY <3>1, DrainEnds
    <3>3. CASE EndOfDrain(p) = "done"
      BY <2>1, <3>3, DoneOK DEF Goto
    <3>4. CASE EndOfDrain(p) = "revoke"
      BY <2>1, <2>3, <3>4, GotoOK, StepsKnown
    <3> QED
      BY <3>2, <3>3, <3>4
  <2> QED
    BY <2>2, <2>3
<1> QED
  BY <1>1, <1>2

LEMMA QueueTyped ==
    ASSUME TypeOK, NEW p \in Processes, QueueStep(p)
    PROVE  TypeOK'
<1>1. CASE Drain(p)
  <2>1. DoingOK'
    BY <1>1, DrainedOK DEF Drain, DrainStep, At
  <2> QED
    BY <1>1, <2>1 DEF TypeOK, Drain
<1>2. CASE Purge(p)
  <2>1. DoingOK'
    BY <1>2, DrainedOK DEF Purge, DrainStep, At
  <2> QED
    BY <1>2, <2>1 DEF TypeOK, Purge
<1>3. CASE Clear(p)
  <2>1. DoingOK'
    BY <1>3, DrainedOK DEF Clear, DrainStep, At
  <2> QED
    BY <1>3, <2>1 DEF TypeOK, Clear
<1> QED
  BY <1>1, <1>2, <1>3 DEF QueueStep

LEMMA OthersTyped ==
    ASSUME TypeOK, Register \/ StartTick \/ Sweep \/ Prune \/ Tick \/ Restart \/ UNCHANGED vars
                     \/ \E p \in Processes : Fail(p)
    PROVE  TypeOK'
<1>1. Cron \in Processes
  BY RequestsAside
<1>2. CASE Register
  <2>1. now \in Int /\ DoingOK'
    BY <1>2, BoundsAssumption DEF TypeOK, Register, DoingOK
  <2>2. history \in History /\ history.life + 1 \in Nat /\ history.begun + 1 \in 0 .. MaxRequests
    BY <1>2, BoundsAssumption DEF TypeOK, Register, History
  <2>3. history' = [history EXCEPT !.begun = history.begun + 1, !.life = history.life + 1]
    BY <1>2 DEF Register
  <2>4. history' \in History
    BY <2>2, <2>3 DEF History
  <2> QED
    BY <1>2, <2>1, <2>4 DEF TypeOK, Register
<1>3. CASE StartTick
  <2> DEFINE h == [at |-> "sweep", challenge |-> 0, life |-> 0]
  <2>1. h \in Held /\ h.at = "sweep"
    BY DEF Held, Steps
  <2>2. doing' = [doing EXCEPT ![Cron] = h]
    BY <1>3 DEF StartTick
  <2> HIDE DEF h
  <2>3. DoingOK'
    BY <1>1, <2>1, <2>2, MovesOK
  <2> QED
    BY <1>3, <2>3 DEF TypeOK, StartTick
<1>4. CASE Sweep
  <2>1. ~At(Cron, "idle")
    BY <1>4 DEF Sweep, At
  <2>2. DoingOK'
    BY <1>1, <1>4, <2>1, GotoOK, StepsKnown DEF Sweep
  <2> QED
    BY <1>4, <2>2 DEF TypeOK, Sweep, Dropped
<1>5. CASE Prune
  <2>1. DoingOK'
    BY <1>1, <1>5, DoneOK DEF Prune
  <2> QED
    BY <1>5, <2>1 DEF TypeOK, Prune
<1>6. CASE Tick
  <2>1. now' \in 0 .. MaxClock
    BY <1>6, BoundsAssumption DEF TypeOK, Tick
  <2> QED
    BY <1>6, <2>1 DEF TypeOK, DoingOK, Tick
<1>7. CASE Restart
  <2>1. DoingOK'
    BY <1>7 DEF Restart, DoingOK, Idle, Processes
  <2>2. history' \in History
    BY <1>7, BoundsAssumption DEF TypeOK, Restart, Failing, History
  <2> QED
    BY <1>7, <2>1, <2>2 DEF TypeOK, Restart
<1>8. ASSUME NEW p \in Processes, Fail(p)
      PROVE  TypeOK'
  <2>1. DoingOK'
    BY <1>8, DoneOK DEF Fail
  <2>2. history' \in History
    BY <1>8, BoundsAssumption DEF TypeOK, Fail, Failing, History
  <2> QED
    BY <1>8, <2>1, <2>2 DEF TypeOK, Fail
<1>9. CASE UNCHANGED vars
  BY <1>9 DEF TypeOK, DoingOK, vars
<1> QED
  BY <1>2, <1>3, <1>4, <1>5, <1>6, <1>7, <1>8, <1>9

\* The steps there are, by who takes them.
LEMMA NextSteps ==
    ASSUME [Next]_vars
    PROVE  \/ \E r \in Requests : Ask(r) \/ Step(r)
           \/ \E p \in Processes : QueueStep(p) \/ Fail(p)
           \/ Register \/ StartTick \/ Sweep \/ Prune \/ Tick \/ Restart \/ UNCHANGED vars
BY RequestsAside DEF Next, TickStep

LEMMA InitTyped == Init => TypeOK
<1> SUFFICES ASSUME Init
             PROVE  TypeOK
  OBVIOUS
<1>1. DoingOK
  BY DEF Init, DoingOK, Idle, Processes
<1>2. SessionTtl \in Int /\ 0 \in 0 .. MaxClock
  BY TimesAssumption, BoundsAssumption
<1>3. 1 \in Challenges /\ 1 \in 0 .. MaxChallenges
  BY BoundsAssumption DEF Challenges
<1>4. history \in History
  BY <1>3, BoundsAssumption DEF Init, History
<1> QED
  BY <1>1, <1>2, <1>3, <1>4 DEF Init, TypeOK, Session

LEMMA NextTyped ==
    ASSUME TypeOK, [Next]_vars
    PROVE  TypeOK'
BY NextSteps, AskTyped, StepTyped, QueueTyped, OthersTyped

-----------------------------------------------------------------------------
(* Where a step takes its process.                                          *)

Goes(p, steps) == Others(p) /\ doing'[p].at \in steps

\* A request begins; nothing else happens but its being counted.
LEMMA AskMoves ==
    ASSUME TypeOK, NEW r \in Requests, Ask(r)
    PROVE  /\ Goes(r, {"issue", "exchange", "lookup", "devices", "round", "retire", "drain"})
           /\ doing'[r].at = "drain" => doing'[r].life = 0
           /\ UNCHANGED <<relay, rows, auth>>
           /\ history' = [history EXCEPT !.begun = history.begun + 1]
<1> DEFINE asked == {"issue", "lookup", "devices", "round", "retire"}
<1>1. ASSUME NEW step \in asked \cup {"exchange", "drain"}, NEW c \in Challenges \cup {0}, NEW life \in Nat,
             Begin(r, step, c, life), step = "exchange" => c \in Challenges, step = "drain" => life = 0
      PROVE  /\ Goes(r, asked \cup {"exchange", "drain"})
             /\ doing'[r].at = "drain" => doing'[r].life = 0
             /\ history' = [history EXCEPT !.begun = history.begun + 1]
  <2>1. step \in Steps
    BY DEF Steps
  <2>2. Others(r) /\ doing'[r] = [at |-> step, challenge |-> c, life |-> life]
    BY <1>1, <2>1, BeginOK
  <2>3. history' = [history EXCEPT !.begun = history.begun + 1]
    BY <1>1 DEF Begin
  <2> QED
    BY <1>1, <2>2, <2>3 DEF Goes
<1>2. history.life \in Nat
  BY DEF TypeOK, History
<1>3. ASSUME NEW step \in asked, Authenticated(r, step)
      PROVE  /\ Goes(r, asked \cup {"exchange", "drain"})
             /\ doing'[r].at = "drain" => doing'[r].life = 0
             /\ history' = [history EXCEPT !.begun = history.begun + 1]
  BY <1>1, <1>2, <1>3 DEF Authenticated
<1>4. CASE AskChallenge(r)
  BY <1>1, <1>2, <1>4 DEF AskChallenge
<1>5. CASE AskSession(r)
  <2>1. PICK c \in 1 .. history.issued : Begin(r, "exchange", c, history.life)
    BY <1>5 DEF AskSession
  <2>2. c \in Challenges
    BY BoundsAssumption DEF Challenges, TypeOK, History
  <2> QED
    BY <1>1, <1>2, <1>5, <2>1, <2>2 DEF AskSession
<1>6. CASE AskPublish(r) \/ AskDevice(r) \/ AskRound(r)
  BY <1>3, <1>6 DEF AskPublish, AskDevice, AskRound
<1>7. CASE AskDeletion(r)
  BY <1>3, <1>7 DEF AskDeletion, DeletionStep
<1>8. CASE AskOtherDeletion(r)
  BY <1>1, <1>8 DEF AskOtherDeletion
<1> QED
  BY <1>4, <1>5, <1>6, <1>7, <1>8 DEF Ask

LEMMA StepMoves ==
    ASSUME TypeOK, NEW r \in Requests
    PROVE  /\ IssueChallenge(r) \/ Grant(r) \/ Touch(r) \/ Revoke(r) => Goes(r, {"idle"})
           /\ Exchange(r) => Goes(r, {"idle", "grant"})
           /\ LookUp(r) => Goes(r, {"idle", "wakes"})
           /\ WriteRows(r) => Goes(r, {"touch"})
           /\ Retire(r) => Goes(r, {"delete"})
           /\ DeleteAccount(r) => Goes(r, {"drain"})
<1>1. r \in Processes /\ r # Cron
  BY RequestsAside
<1>2. ASSUME Done(r) PROVE Goes(r, {"idle"})
  BY <1>1, <1>2, DoneOK DEF Goes, Idle
<1>3. ASSUME NEW step \in {"touch", "delete", "drain"}, ~At(r, "idle"), Goto(r, step) PROVE Goes(r, {step})
  <2>1. step \in Steps
    BY DEF Steps
  <2>2. Others(r) /\ doing'[r] = [at |-> step, challenge |-> doing[r].challenge, life |-> doing[r].life]
    BY <1>1, <1>3, <2>1, GotoOK
  <2> QED
    BY <2>2 DEF Goes
<1>4. IssueChallenge(r) \/ Grant(r) \/ Touch(r) \/ Revoke(r) => Goes(r, {"idle"})
  BY <1>2 DEF IssueChallenge, Grant, Touch, Revoke, Goto, DeletionStep
<1>5. ASSUME Exchange(r) PROVE Goes(r, {"idle", "grant"})
  <2>1. At(r, "exchange") /\ ~At(r, "idle") /\ doing[r].challenge \in Challenges
    BY <1>1, <1>5 DEF Exchange, At, TypeOK, DoingOK
  <2>2. CASE Done(r)
    BY <1>2, <2>2 DEF Goes
  <2>3. CASE Goto(r, "grant")
    <3>1. Others(r) /\ doing'[r] = [at |-> "grant", challenge |-> doing[r].challenge, life |-> doing[r].life]
      BY <1>1, <2>1, <2>3, GotoOK, StepsKnown
    <3> QED
      BY <3>1 DEF Goes
  <2> QED
    BY <1>5, <2>2, <2>3 DEF Exchange
<1>6. ASSUME LookUp(r) PROVE Goes(r, {"idle", "wakes"})
  <2> DEFINE h == [at |-> "wakes", challenge |-> 0, life |-> history.life]
  <2>1. doing \in [Processes -> {Idle} \cup Held]
    BY DEF TypeOK, DoingOK
  <2>2. Others(r) /\ (doing'[r] = h \/ doing'[r] = Idle)
    BY <1>1, <1>6, <2>1 DEF LookUp, Others
  <2> QED
    BY <2>2 DEF Goes, Idle
<1>7. ASSUME WriteRows(r) PROVE Goes(r, {"touch"})
  BY <1>3, <1>7 DEF WriteRows, At, Tables
<1>8. ASSUME Retire(r) PROVE Goes(r, {"delete"})
  BY <1>3, <1>8 DEF Retire, At, DeletionStep
<1>9. ASSUME DeleteAccount(r) PROVE Goes(r, {"drain"})
  BY <1>3, <1>9 DEF DeleteAccount, At, DeletionStep
<1> QED
  BY <1>4, <1>5, <1>6, <1>7, <1>8, <1>9

\* A drain of this account's own deletion goes on to its end, and on to the revocation.
LEMMA QueueMoves ==
    ASSUME TypeOK, NEW p \in Processes
    PROVE  /\ Drain(p) => Goes(p, {"purge", "idle", "revoke", "prune"})
           /\ Purge(p) => Goes(p, {"clear"})
           /\ Clear(p) => Goes(p, {"idle", "revoke", "prune"})
           /\ QueueStep(p) => /\ doing'[p].at # "idle" => doing'[p].life = doing[p].life
                              /\ doing'[p].at = "revoke" => doing[p].life # 0
<1>1. ASSUME NEW step \in {"purge", "clear", "end"}, ~At(p, "idle"), Drained(p, step)
      PROVE  /\ step # "end" => Goes(p, {step})
             /\ step = "end" => Goes(p, {"idle", "revoke", "prune"})
             /\ doing'[p].at # "idle" => doing'[p].life = doing[p].life
             /\ doing'[p].at = "revoke" => doing[p].life # 0
  <2>1. CASE step # "end"
    <3>1. Goto(p, step) /\ step \in {"purge", "clear"} /\ step \in Steps
      BY <1>1, <2>1 DEF Drained, Steps
    <3>2. Others(p) /\ doing'[p] = [at |-> step, challenge |-> doing[p].challenge, life |-> doing[p].life]
      BY <1>1, <3>1, GotoOK
    <3> QED
      BY <2>1, <3>1, <3>2 DEF Goes
  <2>2. CASE step = "end"
    <3>1. Goto(p, EndOfDrain(p))
      BY <1>1, <2>2 DEF Drained
    <3>2. CASE p = Cron
      <4>1. Others(p) /\ doing'[p] = [at |-> "prune", challenge |-> doing[p].challenge, life |-> doing[p].life]
        BY <1>1, <3>1, <3>2, DrainEnds, GotoOK, StepsKnown
      <4> QED
        BY <2>2, <4>1 DEF Goes
    <3>3. CASE p # Cron /\ doing[p].life = 0
      <4>1. p \in Requests
        BY <3>3 DEF Processes
      <4>2. Done(p)
        BY <3>1, <3>3, <4>1, DrainEnds DEF Goto
      <4> QED
        BY <2>2, <4>2, DoneOK DEF Goes, Idle
    <3>4. CASE p # Cron /\ doing[p].life # 0
      <4>1. p \in Requests
        BY <3>4 DEF Processes
      <4>2. Goto(p, "revoke")
        BY <3>1, <3>4, <4>1, DrainEnds
      <4>3. Others(p) /\ doing'[p] = [at |-> "revoke", challenge |-> doing[p].challenge, life |-> doing[p].life]
        BY <1>1, <3>4, <4>2, GotoOK, StepsKnown
      <4> QED
        BY <2>2, <3>4, <4>3 DEF Goes
    <3> QED
      BY <3>2, <3>3, <3>4
  <2> QED
    BY <2>1, <2>2
<1>2. ASSUME Drain(p)
      PROVE  /\ Goes(p, {"purge", "idle", "revoke", "prune"})
             /\ doing'[p].at # "idle" => doing'[p].life = doing[p].life
             /\ doing'[p].at = "revoke" => doing[p].life # 0
  <2>1. ~At(p, "idle") /\ (Drained(p, "purge") \/ Drained(p, "end"))
    BY <1>2 DEF Drain, At, DrainStep
  <2> QED
    BY <1>1, <2>1 DEF Goes
<1>3. ASSUME Purge(p)
      PROVE  /\ Goes(p, {"clear"})
             /\ doing'[p].at # "idle" => doing'[p].life = doing[p].life
             /\ doing'[p].at = "revoke" => doing[p].life # 0
  <2>1. ~At(p, "idle") /\ Drained(p, "clear")
    BY <1>3 DEF Purge, At, DrainStep
  <2> QED
    BY <1>1, <2>1
<1>4. ASSUME Clear(p)
      PROVE  /\ Goes(p, {"idle", "revoke", "prune"})
             /\ doing'[p].at # "idle" => doing'[p].life = doing[p].life
             /\ doing'[p].at = "revoke" => doing[p].life # 0
  <2>1. ~At(p, "idle") /\ Drained(p, "end")
    BY <1>4 DEF Clear, At, DrainStep
  <2> QED
    BY <1>1, <2>1
<1> QED
  BY <1>2, <1>3, <1>4 DEF QueueStep

\* The tick, failures and deaths.
LEMMA OtherMoves ==
    ASSUME TypeOK
    PROVE  /\ StartTick => Goes(Cron, {"sweep"})
           /\ Sweep => Goes(Cron, {"drain"})
           /\ Prune => Goes(Cron, {"idle"})
           /\ \A p \in Processes : Fail(p) => Goes(p, {"idle"})
           /\ Restart => \A p \in Processes : doing'[p].at = "idle"
           /\ Register \/ Tick \/ UNCHANGED vars => doing' = doing
<1>1. Cron \in Processes /\ doing \in [Processes -> {Idle} \cup Held]
  BY RequestsAside DEF TypeOK, DoingOK
<1>2. StartTick => Goes(Cron, {"sweep"})
  BY <1>1 DEF StartTick, Goes, Others
<1>3. ASSUME Sweep PROVE Goes(Cron, {"drain"})
  <2>1. ~At(Cron, "idle") /\ Goto(Cron, "drain")
    BY <1>3 DEF Sweep, At
  <2>2. Others(Cron) /\ doing'[Cron] = [at |-> "drain", challenge |-> doing[Cron].challenge, life |-> doing[Cron].life]
    BY <1>1, <2>1, GotoOK, StepsKnown
  <2> QED
    BY <2>2 DEF Goes
<1>4. Prune => Goes(Cron, {"idle"})
  BY <1>1, DoneOK DEF Prune, Goes, Idle
<1>5. \A p \in Processes : Fail(p) => Goes(p, {"idle"})
  BY DoneOK DEF Fail, Goes, Idle
<1>6. Restart => \A p \in Processes : doing'[p].at = "idle"
  BY DEF Restart, Idle
<1>7. Register \/ Tick \/ UNCHANGED vars => doing' = doing
  BY DEF Register, Tick, vars
<1> QED
  BY <1>2, <1>3, <1>4, <1>5, <1>6, <1>7

-----------------------------------------------------------------------------
(* An account its owner deleted: it was retired before, and is gone.        *)

Retirement ==
    /\ \A p \in Processes : At(p, "delete") => relay.retired
    /\ history.wiped => relay.retired /\ ~relay.exists

LEMMA NextRetirement ==
    ASSUME TypeOK, Retirement, [Next]_vars
    PROVE  Retirement'
<1>1. relay \in [exists : BOOLEAN, seen : Int, retired : BOOLEAN, queued : BOOLEAN] /\ history \in History
  BY DEF TypeOK
\* Nobody comes to delete, and neither database learns of a registration or a deletion.
<1>2. ASSUME \A p \in Processes : doing'[p].at = "delete" => doing[p].at = "delete" \/ relay'.retired,
             relay.retired => relay'.retired,
             relay'.exists => relay.exists, history'.wiped = history.wiped
      PROVE  Retirement'
  BY <1>2 DEF Retirement, At
<1>3. ASSUME NEW p \in Processes, NEW steps, "delete" \notin steps, Goes(p, steps),
             relay.retired => relay'.retired,
             relay'.exists => relay.exists, history'.wiped = history.wiped
      PROVE  Retirement'
  BY <1>2, <1>3 DEF Goes, Others
<1>4. ASSUME NEW r \in Requests, Ask(r)
      PROVE  Retirement'
  <2>1. history'.wiped = history.wiped
    BY <1>1, <1>4, AskMoves DEF History
  <2> QED
    BY <1>3, <1>4, <2>1, AskMoves, RequestsAside
<1>5. ASSUME NEW r \in Requests, Step(r)
      PROVE  Retirement'
  <2>1. r \in Processes
    BY RequestsAside
  <2>2. CASE IssueChallenge(r) \/ Grant(r) \/ Touch(r) \/ Revoke(r)
    <3>1. Goes(r, {"idle"})
      BY <2>2, StepMoves
    <3>2. history'.wiped = history.wiped
      BY <1>1, <2>2 DEF IssueChallenge, Grant, Touch, Revoke, History
    <3>3. relay'.retired = relay.retired /\ relay'.exists = relay.exists
      BY <1>1, <2>2 DEF IssueChallenge, Grant, Touch, Revoke
    <3> QED
      BY <1>3, <2>1, <3>1, <3>2, <3>3
  <2>3. CASE Exchange(r) \/ LookUp(r)
    <3>1. Goes(r, {"idle", "grant", "wakes"})
      BY <2>3, StepMoves DEF Goes
    <3> QED
      BY <1>3, <2>1, <2>3, <3>1 DEF Exchange, LookUp
  <2>4. CASE WriteRows(r)
    <3>1. Goes(r, {"touch"})
      BY <2>4, StepMoves
    <3> QED
      BY <1>3, <2>1, <2>4, <3>1 DEF WriteRows
  <2>5. CASE Retire(r)
    <3>1. Goes(r, {"delete"})
      BY <2>5, StepMoves
    <3>2. relay'.retired /\ relay'.exists = relay.exists /\ history' = history
      BY <1>1, <2>5 DEF Retire
    <3> QED
      BY <1>2, <3>1, <3>2
  <2>6. CASE DeleteAccount(r)
    <3>1. Goes(r, {"drain"}) /\ At(r, "delete")
      BY <2>6, StepMoves DEF DeleteAccount
    <3>2. relay.retired
      BY <2>1, <3>1 DEF Retirement
    <3>3. relay'.retired /\ ~relay'.exists
      BY <1>1, <2>6, <3>2 DEF DeleteAccount, Dropped
    <3> QED
      BY <3>3 DEF Retirement
  <2> QED
    BY <1>5, <2>2, <2>3, <2>4, <2>5, <2>6 DEF Step
<1>6. ASSUME NEW p \in Processes, QueueStep(p)
      PROVE  Retirement'
  <2>1. Goes(p, {"purge", "clear", "idle", "revoke", "prune"})
    BY <1>6, QueueMoves DEF QueueStep, Goes
  <2>2. relay'.retired = relay.retired /\ relay'.exists = relay.exists /\ history' = history
    BY <1>1, <1>6 DEF QueueStep, Drain, Purge, Clear
  <2> QED
    BY <1>3, <2>1, <2>2
<1>7. CASE Register
  <2>1. ~relay.retired /\ doing' = doing /\ relay'.retired = relay.retired
    BY <1>1, <1>7 DEF Register, MayRegister
  <2>2. history'.wiped = history.wiped
    BY <1>1, <1>7 DEF Register, History
  <2> QED
    BY <2>1, <2>2 DEF Retirement, At
<1>8. CASE StartTick \/ Sweep \/ Prune
  <2>1. Goes(Cron, {"sweep", "drain", "idle"})
    BY <1>8, OtherMoves DEF Goes
  <2>2. relay'.retired = relay.retired /\ (relay'.exists => relay.exists) /\ history' = history
    BY <1>1, <1>8 DEF StartTick, Sweep, Prune, Dropped
  <2> QED
    BY <1>3, <2>1, <2>2, RequestsAside
<1>9. CASE Tick \/ UNCHANGED vars
  BY <1>2, <1>9 DEF Tick, vars
<1>10. CASE Restart
  <2>1. relay' = relay /\ history'.wiped = history.wiped
    BY <1>1, <1>10 DEF Restart, History
  <2> QED
    BY <1>2, <1>10, <2>1, OtherMoves
<1>11. ASSUME NEW p \in Processes, Fail(p)
       PROVE  Retirement'
  <2>1. relay' = relay /\ history'.wiped = history.wiped
    BY <1>1, <1>11 DEF Fail, History
  <2> QED
    BY <1>3, <1>11, <2>1, OtherMoves
<1> QED
  BY <1>4, <1>5, <1>6, <1>7, <1>8, <1>9, <1>10, <1>11, NextSteps

-----------------------------------------------------------------------------
(* A revocation comes after the account is gone for good.                   *)

\* Requests on the way from the deletion of the account to its revocation.
Draining(r) == doing[r].at \in {"drain", "purge", "clear"} /\ doing[r].life # 0

Revocation ==
    /\ \A r \in Requests : At(r, "revoke") \/ Draining(r) => history.wiped
    /\ history.revoked => history.wiped /\ \A s \in auth.sessions : s.late

LEMMA NextRevocation ==
    ASSUME TypeOK, Retirement, Revocation, [Next]_vars
    PROVE  Revocation'
<1>1. history \in History
  BY DEF TypeOK
<1>2. ASSUME \A r \in Requests :
               (At(r, "revoke") \/ Draining(r))' => At(r, "revoke") \/ Draining(r),
             history.wiped => history'.wiped, history'.revoked = history.revoked,
             \A s \in auth'.sessions : s \in auth.sessions \/ s.late
      PROVE  Revocation'
  BY <1>2 DEF Revocation
<1>3. ASSUME NEW p \in Processes, NEW steps, Goes(p, steps),
             steps \cap {"drain", "purge", "clear", "revoke"} = {} \/ p = Cron,
             history'.wiped = history.wiped, history'.revoked = history.revoked,
             \A s \in auth'.sessions : s \in auth.sessions \/ s.late
      PROVE  Revocation'
  <2>1. ASSUME NEW r \in Requests
        PROVE  (At(r, "revoke") \/ Draining(r))' => At(r, "revoke") \/ Draining(r)
    BY <1>3, RequestsAside DEF Goes, Others, At, Draining
  <2> QED
    BY <1>2, <1>3, <2>1
<1>4. ASSUME NEW r \in Requests, Ask(r)
      PROVE  Revocation'
  <2>1. history'.wiped = history.wiped /\ history'.revoked = history.revoked /\ auth' = auth
    BY <1>1, <1>4, AskMoves DEF History
  <2>2. ASSUME NEW q \in Requests
        PROVE  (At(q, "revoke") \/ Draining(q))' => At(q, "revoke") \/ Draining(q)
    BY <1>4, AskMoves, RequestsAside DEF Goes, Others, At, Draining
  <2> QED
    BY <1>2, <2>1, <2>2
<1>5. ASSUME NEW r \in Requests, Step(r)
      PROVE  Revocation'
  <2>1. r \in Processes
    BY RequestsAside
  <2>2. CASE IssueChallenge(r) \/ Touch(r)
    <3>1. Goes(r, {"idle"})
      BY <2>2, StepMoves
    <3>2. history'.wiped = history.wiped /\ history'.revoked = history.revoked
      BY <1>1, <2>2 DEF IssueChallenge, Touch, History
    <3>3. auth'.sessions = auth.sessions
      BY <2>2 DEF IssueChallenge, Touch, TypeOK
    <3> QED
      BY <1>3, <2>1, <3>1, <3>2, <3>3
  <2>3. CASE Grant(r)
    <3>1. Goes(r, {"idle"})
      BY <2>3, StepMoves
    <3>2. history'.wiped = history.wiped /\ history'.revoked = history.revoked
      BY <1>1, <2>3 DEF Grant, History
    <3> DEFINE new == [challenge |-> doing[r].challenge, until |-> now + SessionTtl, late |-> Late(r)]
    <3>3. auth'.sessions = auth.sessions \cup {new}
      BY <2>3 DEF Grant, TypeOK
    <3>4. ASSUME history.revoked
          PROVE  Late(r)
      BY <3>4 DEF Late, Retirement, Revocation
    <3>5. \A s \in auth'.sessions : s \in auth.sessions \/ (history.revoked => s.late)
      BY <3>3, <3>4
    <3>6. ASSUME NEW q \in Requests
          PROVE  (At(q, "revoke") \/ Draining(q))' => At(q, "revoke") \/ Draining(q)
      BY <3>1 DEF Goes, Others, At, Draining, Processes
    <3> QED
      BY <3>2, <3>5, <3>6 DEF Revocation
  <2>4. CASE Exchange(r) \/ LookUp(r)
    <3>1. Goes(r, {"idle", "grant", "wakes"})
      BY <2>4, StepMoves DEF Goes
    <3>2. auth'.sessions = auth.sessions /\ history' = history
      BY <2>4 DEF Exchange, LookUp, TypeOK
    <3> QED
      BY <1>3, <2>1, <3>1, <3>2
  <2>5. CASE WriteRows(r) \/ Retire(r)
    <3>1. Goes(r, {"touch", "delete"})
      BY <2>5, StepMoves DEF Goes
    <3>2. auth' = auth /\ history' = history
      BY <2>5 DEF WriteRows, Retire
    <3> QED
      BY <1>3, <2>1, <3>1, <3>2
  <2>6. CASE DeleteAccount(r)
    <3>1. history'.wiped /\ history'.revoked = history.revoked /\ auth' = auth
      BY <1>1, <2>6 DEF DeleteAccount, History
    <3> QED
      BY <3>1 DEF Revocation
  <2>7. CASE Revoke(r)
    <3>1. history.wiped /\ history'.wiped = history.wiped /\ auth'.sessions = {}
      BY <1>1, <2>7 DEF Revoke, History, Revocation, TypeOK
    <3> QED
      BY <3>1 DEF Revocation
  <2> QED
    BY <1>5, <2>2, <2>3, <2>4, <2>5, <2>6, <2>7 DEF Step
<1>6. ASSUME NEW p \in Processes, QueueStep(p)
      PROVE  Revocation'
  <2>1. auth' = auth /\ history' = history
    BY <1>6 DEF QueueStep, Drain, Purge, Clear
  <2>2. Others(p) /\ doing[p].at \in {"drain", "purge", "clear"}
    BY <1>6, QueueMoves DEF QueueStep, Goes, Drain, Purge, Clear, At
  <2>3. ASSUME NEW r \in Requests
        PROVE  (At(r, "revoke") \/ Draining(r))' => At(r, "revoke") \/ Draining(r)
    BY <1>6, <2>2, QueueMoves, RequestsAside DEF Others, At, Draining
  <2> QED
    BY <1>2, <2>1, <2>3
<1>7. CASE Register
  <2>1. history'.wiped = history.wiped /\ history'.revoked = history.revoked /\ auth' = auth /\ doing' = doing
    BY <1>1, <1>7 DEF Register, History
  <2> QED
    BY <1>2, <2>1 DEF At, Draining
<1>8. CASE StartTick \/ Sweep \/ Prune
  <2>1. Goes(Cron, {"sweep", "drain", "idle"})
    BY <1>8, OtherMoves DEF Goes
  <2>2. history' = history /\ \A s \in auth'.sessions : s \in auth.sessions
    BY <1>8 DEF StartTick, Sweep, Prune
  <2> QED
    BY <1>3, <2>1, <2>2, RequestsAside
<1>9. CASE Tick \/ UNCHANGED vars
  BY <1>2, <1>9 DEF Tick, vars, At, Draining
<1>10. CASE Restart
  <2>1. auth' = auth /\ history'.wiped = history.wiped /\ history'.revoked = history.revoked
    BY <1>1, <1>10 DEF Restart, History
  <2>2. \A r \in Requests : doing'[r].at = "idle"
    BY <1>10, OtherMoves, RequestsAside
  <2> QED
    BY <1>2, <2>1, <2>2 DEF At, Draining
<1>11. ASSUME NEW p \in Processes, Fail(p)
       PROVE  Revocation'
  <2>1. auth' = auth /\ history'.wiped = history.wiped /\ history'.revoked = history.revoked
    BY <1>1, <1>11 DEF Fail, History
  <2> QED
    BY <1>3, <1>11, <2>1, OtherMoves
<1> QED
  BY <1>4, <1>5, <1>6, <1>7, <1>8, <1>9, <1>10, <1>11, NextSteps

-----------------------------------------------------------------------------
(* A challenge is open, in the hands of one request, or spent.              *)

SignIn ==
    /\ \A o \in auth.challenges : o.id =< history.issued /\ history.granted[o.id] = 0
    /\ \A o1, o2 \in auth.challenges : o1.id = o2.id => o1 = o2
    /\ \A r \in Requests : At(r, "grant") =>
          /\ history.granted[doing[r].challenge] = 0 /\ doing[r].challenge =< history.issued
          /\ \A o \in auth.challenges : o.id # doing[r].challenge
          /\ \A q \in Requests : At(q, "grant") /\ doing[q].challenge = doing[r].challenge => q = r
    /\ \A c \in Challenges :
          /\ history.granted[c] =< 1
          /\ history.granted[c] # 0 => c =< history.issued

LEMMA NextSignIn ==
    ASSUME TypeOK, SignIn, [Next]_vars
    PROVE  SignIn'
<1>1. history \in History
  BY DEF TypeOK
\* Challenges only go, and nobody takes one up.
<1>2. ASSUME \A r \in Requests : doing'[r].at = "grant" => doing'[r] = doing[r],
             history'.issued = history.issued, history'.granted = history.granted,
             auth'.challenges \subseteq auth.challenges
      PROVE  SignIn'
  BY <1>2 DEF SignIn, At
<1>3. ASSUME NEW p \in Processes, NEW steps, Goes(p, steps), "grant" \notin steps,
             history'.issued = history.issued, history'.granted = history.granted,
             auth'.challenges \subseteq auth.challenges
      PROVE  SignIn'
  BY <1>2, <1>3, RequestsAside DEF Goes, Others
<1>4. ASSUME NEW r \in Requests, Ask(r)
      PROVE  SignIn'
  <2>1. history'.issued = history.issued /\ history'.granted = history.granted /\ auth' = auth
    BY <1>1, <1>4, AskMoves DEF History
  <2> QED
    BY <1>3, <1>4, <2>1, AskMoves, RequestsAside
<1>5. ASSUME NEW r \in Requests, Step(r)
      PROVE  SignIn'
  <2>1. r \in Processes
    BY RequestsAside
  <2>2. CASE IssueChallenge(r)
    <3> DEFINE id == history.issued + 1
    <3>1. PICK new : /\ new.id = id
                     /\ auth'.challenges = { c \in auth.challenges : c.until > now } \cup {new}
      BY <2>2 DEF IssueChallenge, TypeOK
    <3>2. history.issued \in Nat /\ id \in Challenges /\ history'.issued = id
          /\ history'.granted = history.granted /\ history.granted \in [Challenges -> Nat]
      BY <1>1, <2>2, BoundsAssumption DEF IssueChallenge, History, Challenges
    <3>3. history.granted[id] = 0
      BY <3>2 DEF SignIn
    <3>4. \A o \in auth.challenges : o.id \in Challenges /\ o.id # id /\ o.id =< id
      BY <3>2, BoundsAssumption DEF SignIn, TypeOK, Challenges
    <3>5. \A q \in Requests : At(q, "grant") =>
             doing[q].challenge \in Challenges /\ doing[q].challenge # id /\ doing[q].challenge =< id
      BY <3>2, BoundsAssumption, RequestsAside DEF SignIn, TypeOK, DoingOK, At, Challenges
    <3>6. Goes(r, {"idle"})
      BY <2>2, StepMoves
    <3>7. \A q \in Requests : doing'[q].at = "grant" => doing'[q] = doing[q]
      BY <2>1, <3>6, RequestsAside DEF Goes, Others
    <3>8. \A o \in auth'.challenges : o.id =< id /\ history.granted[o.id] = 0
      BY <3>1, <3>2, <3>3, <3>4 DEF SignIn
    <3>9. \A o1, o2 \in auth'.challenges : o1.id = o2.id => o1 = o2
      BY <3>1, <3>4 DEF SignIn
    <3>10. \A c \in Challenges : history.granted[c] # 0 => c =< id
      BY <3>2 DEF SignIn, Challenges
    <3>11. ASSUME NEW q \in Requests, At(q, "grant")'
           PROVE  /\ history'.granted[doing'[q].challenge] = 0 /\ doing'[q].challenge =< history'.issued
                  /\ \A o \in auth'.challenges : o.id # doing'[q].challenge
                  /\ \A x \in Requests : At(x, "grant")' /\ doing'[x].challenge = doing'[q].challenge => x = q
      <4>1. doing'[q] = doing[q] /\ At(q, "grant")
        BY <3>7, <3>11 DEF At
      <4>2. history'.granted[doing'[q].challenge] = 0 /\ doing'[q].challenge =< history'.issued
        BY <3>2, <3>5, <4>1 DEF SignIn
      <4>3. \A o \in auth'.challenges : o.id # doing'[q].challenge
        BY <3>1, <3>5, <4>1 DEF SignIn
      <4>4. \A x \in Requests : At(x, "grant")' /\ doing'[x].challenge = doing'[q].challenge => x = q
        BY <3>7, <4>1 DEF SignIn, At
      <4> QED
        BY <4>2, <4>3, <4>4
    <3>12. \A c \in Challenges : history'.granted[c] =< 1 /\ (history'.granted[c] # 0 => c =< history'.issued)
      BY <3>2, <3>10 DEF SignIn
    <3> QED
      BY <3>2, <3>8, <3>9, <3>11, <3>12 DEF SignIn
  <2>3. CASE Exchange(r)
    <3> DEFINE asked == { c \in auth.challenges : c.id = doing[r].challenge /\ c.until > now }
    <3>1. auth'.challenges = auth.challenges \ asked /\ history' = history
      BY <2>3 DEF Exchange, Consumed, TypeOK
    <3>2. CASE asked = {}
      <4>1. Done(r)
        BY <2>3, <3>2 DEF Exchange
      <4>2. \A q \in Requests : doing'[q].at = "grant" => doing'[q] = doing[q]
        BY <2>1, <4>1, DoneOK, RequestsAside DEF Others, Idle
      <4> QED
        BY <1>2, <3>1, <4>2
    <3>3. CASE asked # {}
      <4>1. PICK o \in auth.challenges : o.id = doing[r].challenge /\ o \in asked
        BY <3>3
      <4>2. Goto(r, "grant") /\ At(r, "exchange") /\ ~At(r, "idle") /\ doing[r].challenge \in Challenges
        BY <2>1, <2>3, <3>3 DEF Exchange, At, TypeOK, DoingOK
      <4>3. Others(r) /\ doing'[r] = [at |-> "grant", challenge |-> doing[r].challenge, life |-> doing[r].life]
        BY <2>1, <4>2, GotoOK, StepsKnown, RequestsAside
      <4>4. \A q \in Requests : q # r => doing'[q] = doing[q]
        BY <4>3, RequestsAside DEF Others
      <4>5. \A q \in Requests : At(q, "grant") => doing[q].challenge # doing[r].challenge
        BY <4>1 DEF SignIn
      <4>6. \A x \in auth'.challenges : x.id # doing[r].challenge
        BY <3>1, <4>1 DEF SignIn
      <4>7. history.granted[doing[r].challenge] = 0 /\ doing[r].challenge =< history.issued
        BY <4>1 DEF SignIn
      <4>8. ASSUME NEW q \in Requests, At(q, "grant")'
            PROVE  /\ history'.granted[doing'[q].challenge] = 0 /\ doing'[q].challenge =< history'.issued
                   /\ \A x \in auth'.challenges : x.id # doing'[q].challenge
                   /\ \A x \in Requests : At(x, "grant")' /\ doing'[x].challenge = doing'[q].challenge => x = q
        <5>1. CASE q = r
          BY <3>1, <4>3, <4>4, <4>5, <4>6, <4>7, <5>1 DEF At
        <5>2. CASE q # r
          <6>1. doing'[q] = doing[q] /\ At(q, "grant")
            BY <4>4, <4>8, <5>2 DEF At
          <6>2. \A x \in Requests : At(x, "grant")' /\ doing'[x].challenge = doing'[q].challenge => x = q
            BY <4>3, <4>4, <4>5, <6>1 DEF SignIn, At
          <6> QED
            BY <3>1, <6>1, <6>2 DEF SignIn
        <5> QED
          BY <5>1, <5>2
      <4> QED
        BY <3>1, <4>8 DEF SignIn
    <3> QED
      BY <3>2, <3>3
  <2>4. CASE Grant(r)
    <3> DEFINE c == doing[r].challenge
    <3>1. At(r, "grant") /\ c \in Challenges
      BY <2>1, <2>4 DEF Grant, At, TypeOK, DoingOK
    <3>2. history.granted[c] = 0 /\ c =< history.issued
      BY <3>1 DEF SignIn
    <3>3. /\ history'.issued = history.issued
          /\ history'.granted = [history.granted EXCEPT ![c] = history.granted[c] + 1]
          /\ history.granted \in [Challenges -> Nat]
      BY <1>1, <2>4 DEF Grant, History
    <3>4. history'.granted[c] = 1 /\ \A x \in Challenges : x # c => history'.granted[x] = history.granted[x]
      BY <3>1, <3>2, <3>3
    <3>5. auth'.challenges = auth.challenges /\ \A o \in auth.challenges : o.id \in Challenges /\ o.id # c
      BY <2>4, <3>1 DEF Grant, TypeOK, SignIn
    <3>6. Goes(r, {"idle"})
      BY <2>4, StepMoves
    <3>7. \A q \in Requests : At(q, "grant")' =>
             doing'[q] = doing[q] /\ At(q, "grant") /\ doing[q].challenge \in Challenges /\ doing[q].challenge # c
      BY <2>1, <3>1, <3>6, RequestsAside DEF Goes, Others, At, SignIn, TypeOK, DoingOK
    <3>8. \A x \in Challenges :
             history'.granted[x] =< 1 /\ (history'.granted[x] # 0 => x =< history'.issued)
      BY <3>2, <3>3, <3>4 DEF SignIn
    <3>9. \A o \in auth'.challenges : o.id =< history'.issued /\ history'.granted[o.id] = 0
      BY <3>3, <3>4, <3>5 DEF SignIn
    <3>10. ASSUME NEW q \in Requests, At(q, "grant")'
           PROVE  /\ history'.granted[doing'[q].challenge] = 0 /\ doing'[q].challenge =< history'.issued
                  /\ \A x \in auth'.challenges : x.id # doing'[q].challenge
                  /\ \A x \in Requests : At(x, "grant")' /\ doing'[x].challenge = doing'[q].challenge => x = q
      <4>1. doing'[q] = doing[q] /\ At(q, "grant") /\ doing[q].challenge \in Challenges /\ doing[q].challenge # c
        BY <3>7, <3>10
      <4> QED
        BY <3>3, <3>4, <3>5, <3>7, <4>1 DEF SignIn
    <3> QED
      BY <3>5, <3>8, <3>9, <3>10 DEF SignIn
  <2>5. CASE LookUp(r) \/ WriteRows(r) \/ Touch(r) \/ Retire(r) \/ DeleteAccount(r) \/ Revoke(r)
    <3>1. Goes(r, {"idle", "wakes", "touch", "delete", "drain"})
      BY <2>5, StepMoves DEF Goes
    <3>2. history'.issued = history.issued /\ history'.granted = history.granted
      BY <1>1, <2>5 DEF LookUp, WriteRows, Touch, Retire, DeleteAccount, Revoke, History
    <3>3. auth'.challenges = auth.challenges
      BY <2>5 DEF LookUp, WriteRows, Touch, Retire, DeleteAccount, Revoke, TypeOK
    <3> QED
      BY <1>3, <2>1, <3>1, <3>2, <3>3
  <2> QED
    BY <1>5, <2>2, <2>3, <2>4, <2>5 DEF Step
<1>6. ASSUME NEW p \in Processes, QueueStep(p)
      PROVE  SignIn'
  <2>1. Goes(p, {"purge", "clear", "idle", "revoke", "prune"})
    BY <1>6, QueueMoves DEF QueueStep, Goes
  <2>2. auth' = auth /\ history' = history
    BY <1>6 DEF QueueStep, Drain, Purge, Clear
  <2> QED
    BY <1>3, <2>1, <2>2
<1>7. CASE Register
  <2>1. history'.issued = history.issued /\ history'.granted = history.granted /\ auth' = auth /\ doing' = doing
    BY <1>1, <1>7 DEF Register, History
  <2> QED
    BY <1>2, <2>1
<1>8. CASE StartTick \/ Sweep \/ Prune
  <2>1. Goes(Cron, {"sweep", "drain", "idle"})
    BY <1>8, OtherMoves DEF Goes
  <2>2. history' = history /\ auth'.challenges \subseteq auth.challenges
    BY <1>8 DEF StartTick, Sweep, Prune
  <2> QED
    BY <1>3, <2>1, <2>2, RequestsAside
<1>9. CASE Tick \/ UNCHANGED vars
  BY <1>2, <1>9 DEF Tick, vars
<1>10. CASE Restart
  <2>1. auth' = auth /\ history'.issued = history.issued /\ history'.granted = history.granted
    BY <1>1, <1>10 DEF Restart, History
  <2>2. \A r \in Requests : doing'[r].at = "idle"
    BY <1>10, OtherMoves, RequestsAside
  <2> QED
    BY <1>2, <2>1, <2>2
<1>11. ASSUME NEW p \in Processes, Fail(p)
       PROVE  SignIn'
  <2>1. auth' = auth /\ history'.issued = history.issued /\ history'.granted = history.granted
    BY <1>1, <1>11 DEF Fail, History
  <2> QED
    BY <1>3, <1>11, <2>1, OtherMoves
<1> QED
  BY <1>4, <1>5, <1>6, <1>7, <1>8, <1>9, <1>10, <1>11, NextSteps

-----------------------------------------------------------------------------
(* What the ops database holds of an account that went is queued.  That     *)
(* needs more of the one step that empties the queue: when it comes, the    *)
(* rows there are were written since the purge before it.                   *)

Current(row) == row.late \/ (relay.exists /\ row.life = history.life)

Queue ==
    /\ PurgedOrQueued
    /\ (\E p \in Processes : At(p, "clear")) => \A t \in Tables : \A row \in rows[t] : Current(row)

LEMMA NextQueue ==
    ASSUME TypeOK, Queue, ~DropsDuringDrain, [Next]_vars
    PROVE  Queue'
<1>1. relay \in [exists : BOOLEAN, seen : Int, retired : BOOLEAN, queued : BOOLEAN] /\ history \in History
  BY DEF TypeOK
\* The account stays what it is, and nobody comes to clear the queue.
<1>2. ASSUME \A p \in Processes : doing'[p].at = "clear" => doing[p].at = "clear",
             relay'.exists = relay.exists, relay'.queued = relay.queued, history'.life = history.life,
             rows' = rows
      PROVE  Queue'
  BY <1>2 DEF Queue, PurgedOrQueued, Current, At
<1>3. ASSUME NEW p \in Processes, NEW steps, Goes(p, steps), "clear" \notin steps,
             relay'.exists = relay.exists, relay'.queued = relay.queued, history'.life = history.life,
             rows' = rows
      PROVE  Queue'
  BY <1>2, <1>3 DEF Goes, Others
\* The account goes, when nobody is past its reading of the queue.
<1>4. ASSUME NEW p \in Processes, NEW steps, Goes(p, steps), "clear" \notin steps, MayDrop,
             ~relay'.exists, relay'.queued
      PROVE  Queue'
  <2>1. \A q \in Processes : ~At(q, "clear")'
    BY <1>4 DEF Goes, Others, MayDrop, At
  <2> QED
    BY <1>4, <2>1 DEF Queue, PurgedOrQueued
<1>5. ASSUME NEW r \in Requests, Ask(r)
      PROVE  Queue'
  <2>1. history'.life = history.life
    BY <1>1, <1>5, AskMoves DEF History
  <2> QED
    BY <1>3, <1>5, <2>1, AskMoves, RequestsAside
<1>6. ASSUME NEW r \in Requests, Step(r)
      PROVE  Queue'
  <2>1. r \in Processes
    BY RequestsAside
  <2>2. CASE IssueChallenge(r) \/ Grant(r) \/ Touch(r) \/ Revoke(r)
    <3>1. Goes(r, {"idle"})
      BY <2>2, StepMoves
    <3>2. history'.life = history.life
      BY <1>1, <2>2 DEF IssueChallenge, Grant, Touch, Revoke, History
    <3>3. relay'.exists = relay.exists /\ relay'.queued = relay.queued /\ rows' = rows
      BY <1>1, <2>2 DEF IssueChallenge, Grant, Touch, Revoke
    <3> QED
      BY <1>3, <2>1, <3>1, <3>2, <3>3
  <2>3. CASE Exchange(r) \/ LookUp(r) \/ Retire(r)
    <3>1. Goes(r, {"idle", "grant", "wakes", "delete"})
      BY <2>3, StepMoves DEF Goes
    <3>2. /\ relay'.exists = relay.exists /\ relay'.queued = relay.queued
          /\ history' = history /\ rows' = rows
      BY <1>1, <2>3 DEF Exchange, LookUp, Retire
    <3> QED
      BY <1>3, <2>1, <3>1, <3>2
  <2>4. CASE WriteRows(r)
    <3> DEFINE new == [life |-> doing[r].life, late |-> Late(r)]
    <3>1. Goes(r, {"touch"}) /\ relay' = relay /\ history' = history
      BY <2>4, StepMoves DEF WriteRows
    <3>2. new.late \/ (relay.exists /\ new.life = history.life)
      BY DEF Late
    <3>3. \A t \in Tables : \A row \in rows'[t] : row \in rows[t] \/ row = new
      BY <2>4 DEF WriteRows, TypeOK
    <3> HIDE DEF new
    <3>4. \A t \in Tables : \A row \in rows'[t] : row \in rows[t] \/ Current(row)
      BY <3>2, <3>3 DEF Current
    <3>5. PurgedOrQueued'
      BY <3>1, <3>4 DEF Queue, PurgedOrQueued, Current
    <3>6. (\E p \in Processes : At(p, "clear")') => \E p \in Processes : At(p, "clear")
      BY <3>1 DEF Goes, Others, At
    <3> QED
      BY <3>1, <3>4, <3>5, <3>6 DEF Queue, Current
  <2>5. CASE DeleteAccount(r)
    <3>1. Goes(r, {"drain"}) /\ MayDrop
      BY <2>5, StepMoves DEF DeleteAccount
    <3>2. CASE relay.exists
      <4>1. ~relay'.exists /\ relay'.queued
        BY <1>1, <2>5, <3>2 DEF DeleteAccount, Dropped
      <4> QED
        BY <1>4, <2>1, <3>1, <4>1
    <3>3. CASE ~relay.exists
      <4>1. relay' = relay /\ history'.life = history.life /\ rows' = rows
        BY <1>1, <2>5, <3>3 DEF DeleteAccount, History
      <4> QED
        BY <1>3, <2>1, <3>1, <4>1
    <3> QED
      BY <3>2, <3>3
  <2> QED
    BY <1>6, <2>2, <2>3, <2>4, <2>5 DEF Step
<1>7. ASSUME NEW p \in Processes, QueueStep(p)
      PROVE  Queue'
  <2>1. CASE Drain(p)
    <3>1. Goes(p, {"purge", "idle", "revoke", "prune"})
      BY <2>1, QueueMoves
    <3> QED
      BY <1>3, <2>1, <3>1 DEF Drain
  <2>2. CASE Purge(p)
    BY <2>2 DEF Purge, Queue, PurgedOrQueued
  <2>3. CASE Clear(p)
    <3>1. Goes(p, {"idle", "revoke", "prune"}) /\ At(p, "clear")
      BY <2>3, QueueMoves DEF Clear
    <3>2. relay'.exists = relay.exists /\ history' = history /\ rows' = rows
      BY <1>1, <2>3 DEF Clear
    <3>3. \A t \in Tables : \A row \in rows[t] : Current(row)
      BY <3>1 DEF Queue
    <3> QED
      BY <3>2, <3>3 DEF Queue, PurgedOrQueued, Current
  <2> QED
    BY <1>7, <2>1, <2>2, <2>3 DEF QueueStep
<1>8. CASE Register
  <2>1. ~relay.exists /\ relay'.queued = relay.queued /\ rows' = rows /\ doing' = doing
    BY <1>1, <1>8 DEF Register, MayRegister
  <2> QED
    BY <2>1 DEF Queue, PurgedOrQueued, Current, At
<1>9. CASE Sweep
  <2>1. Goes(Cron, {"drain"}) /\ history' = history /\ rows' = rows
    BY <1>9, OtherMoves DEF Sweep
  <2>2. CASE IsInactive
    <3>1. ~relay'.exists /\ relay'.queued /\ MayDrop
      BY <1>1, <1>9, <2>2 DEF Sweep, Dropped
    <3> QED
      BY <1>4, <2>1, <3>1, RequestsAside
  <2>3. CASE ~IsInactive
    <3>1. relay' = relay
      BY <1>9, <2>3 DEF Sweep
    <3> QED
      BY <1>3, <2>1, <3>1, RequestsAside
  <2> QED
    BY <2>2, <2>3
<1>10. CASE StartTick \/ Prune
  <2>1. Goes(Cron, {"sweep", "idle"})
    BY <1>10, OtherMoves DEF Goes
  <2>2. relay' = relay /\ history' = history /\ rows' = rows
    BY <1>10 DEF StartTick, Prune
  <2> QED
    BY <1>3, <2>1, <2>2, RequestsAside
<1>11. CASE Tick \/ UNCHANGED vars
  BY <1>2, <1>11 DEF Tick, vars
<1>12. CASE Restart
  <2>1. relay' = relay /\ history'.life = history.life /\ rows' = rows
    BY <1>1, <1>12 DEF Restart, History
  <2> QED
    BY <1>2, <1>12, <2>1, OtherMoves
<1>13. ASSUME NEW p \in Processes, Fail(p)
       PROVE  Queue'
  <2>1. relay' = relay /\ history'.life = history.life /\ rows' = rows
    BY <1>1, <1>13 DEF Fail, History
  <2> QED
    BY <1>3, <1>13, <2>1, OtherMoves
<1> QED
  BY <1>5, <1>6, <1>7, <1>8, <1>9, <1>10, <1>11, <1>12, <1>13, NextSteps

-----------------------------------------------------------------------------
(* The theorems.                                                            *)

LEMMA InitHolds == Init => Retirement /\ Revocation /\ SignIn /\ Queue
<1> SUFFICES ASSUME Init
             PROVE  Retirement /\ Revocation /\ SignIn /\ Queue
  OBVIOUS
<1>1. \A p \in Processes : doing[p].at = "idle"
  BY DEF Init, Idle
<1>2. Retirement
  BY <1>1 DEF Init, Retirement, At
<1>3. Revocation
  BY <1>1, RequestsAside DEF Init, Revocation, At, Draining
<1>4. SignIn
  BY <1>1, RequestsAside, BoundsAssumption DEF Init, SignIn, At, Challenges
<1>5. Queue
  BY <1>1 DEF Init, Queue, PurgedOrQueued, At
<1> QED
  BY <1>2, <1>3, <1>4, <1>5

\* TypeCorrect: whatever the handlers interleave with, every process is at a step its
\* handler has and holds what the step needs, and the two databases hold rows of their kind.
THEOREM TypeCorrect == Spec => []TypeOK
<1>1. Init => TypeOK
  BY InitTyped
<1>2. TypeOK /\ [Next]_vars => TypeOK'
  BY NextTyped
<1> QED
  BY <1>1, <1>2, PTL DEF Spec

\* RetirementSound: an account its owner deleted is never there again, because it was
\* retired before it was deleted and a registration asks for both in one statement.
THEOREM RetirementSound == Spec => []RetiredForGood
<1>1. Init => Retirement
  BY InitHolds
<1>2. TypeOK /\ Retirement /\ [Next]_vars => Retirement'
  BY NextRetirement
<1>3. Retirement => RetiredForGood
  BY DEF Retirement, RetiredForGood
<1> QED
  BY <1>1, <1>2, <1>3, TypeCorrect, PTL DEF Spec

\* RevocationSound: after a deletion has revoked them the account has no session but one
\* whose sign-in read the credential before, for the revocation follows the deletion.
THEOREM RevocationSound == Spec => []RevokedForGood
<1>1. Init => Retirement /\ Revocation
  BY InitHolds
<1>2. TypeOK /\ Retirement /\ Revocation /\ [Next]_vars => Retirement' /\ Revocation'
  BY NextRetirement, NextRevocation
<1>3. Revocation => RevokedForGood
  BY DEF Revocation, RevokedForGood
<1> QED
  BY <1>1, <1>2, <1>3, TypeCorrect, PTL DEF Spec

\* ChallengesSpentOnce: one session for a challenge, whatever number of requests post it,
\* for the statement that finds the challenge deletes it.
THEOREM ChallengesSpentOnce == Spec => []OneSessionPerChallenge
<1>1. Init => SignIn
  BY InitHolds
<1>2. TypeOK /\ SignIn /\ [Next]_vars => SignIn'
  BY NextSignIn
<1>3. SignIn => OneSessionPerChallenge
  BY DEF SignIn, OneSessionPerChallenge
<1> QED
  BY <1>1, <1>2, <1>3, TypeCorrect, PTL DEF Spec

\* PurgeSound: nothing of a deleted account is left in the ops database that is not queued
\* for deletion, wherever a deletion failed or died - as long as no account goes while a
\* drain is between its reading of the queue and its clearing of it.
THEOREM PurgeSound ==
    ASSUME ~DropsDuringDrain
    PROVE  Spec => []PurgedOrQueued
<1>1. Init => Queue
  BY InitHolds
<1>2. TypeOK /\ Queue /\ [Next]_vars => Queue'
  BY NextQueue
<1>3. Queue => PurgedOrQueued
  BY DEF Queue
<1> QED
  BY <1>1, <1>2, <1>3, TypeCorrect, PTL DEF Spec
===============================================================================
