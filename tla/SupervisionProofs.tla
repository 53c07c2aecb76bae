------------------------- MODULE SupervisionProofs -------------------------
(***************************************************************************)
(* Proofs about failure handling, for any number of actors, any mailbox,   *)
(* any batch and any policy: the restart budget bounds an actor's          *)
(* failures, only the batch that shut an actor down can open it again, an  *)
(* actor nobody may disable is restarted or stopped, and                   *)
(* ActorSystem::stop leaves every actor closed.                            *)
(*                                                                         *)
(* An ActorStep touches the row of one actor: where it is in its batch,    *)
(* its state, counters and calls in progress.  The invariant is a          *)
(* predicate of a row, RowInv, and a few facts about the whole.            *)
(***************************************************************************)
EXTENDS Supervision, TLAPS

Kinds    == {"OneForOne", "OneForAll", "None"}
Policies == [strategy : Kinds, limit : Nat]
Asked    == {"work", "enable", "disable"}
Messages == Asked \cup {"restart"}
Pcs      == {"idle", "batch", "handle", "report", "letter", "drain", "apply",
             "broadcast", "shutdown", "close", "open", "return"}
Phases   == {"starting", "up", "draining", "closing", "stopped"}

RowTypes ==
    /\ pc \in [Actors -> Pcs] /\ state \in [Actors -> ActorStates]
    /\ stopped \in [Actors -> BOOLEAN] /\ inTry \in [Actors -> BOOLEAN]
    /\ restartCount \in [Actors -> Nat] /\ broadcasts \in [Actors -> Nat]
    /\ frames \in [Actors -> Seq(Policies)]
    /\ taken \in [Actors -> Nat] /\ failures \in [Actors -> Nat]
    /\ reopened \in [Actors -> Nat]

WholeTypes ==
    /\ strategy \in Kinds /\ limit \in Nat /\ override \in [Actors -> Kinds \cup {"unset"}]
    /\ scenario \in Scenarios /\ changes \in Nat
    /\ phase \in Phases /\ opened \subseteq Actors /\ crashed \in BOOLEAN

\* Workers run only while the system is up or draining; before that nothing has failed.
IdlePhases ==
    /\ phase \notin {"up", "draining"} => \A a \in Actors : pc[a] = "idle"
    /\ phase = "starting" => \A a \in Actors : ~stopped[a]

\* stop() has closed the actors its loop has passed.
ClosedSoFar ==
    /\ phase = "draining" => opened = {}
    /\ phase \in {"closing", "stopped"} /\ ~crashed => \A a \in opened : state[a] = "Closed"
    /\ phase = "stopped" => opened = Actors

\* The policy is the scenario's until a setter is called.
ScenarioPolicy == [strategy |-> scenario.strategy, limit |-> scenario.maxRestarts]

PolicyFixed ==
    changes = 0 => /\ strategy = scenario.strategy /\ limit = scenario.maxRestarts
                   /\ \A a \in Actors : override[a] = "unset"

\* Every failure is handled one for one, or is the actor's last: nobody broadcasts.
Quiet == changes = 0 /\ scenario.strategy # "OneForAll"

Mail ==
    /\ inbox \in [Actors -> Seq(Messages)] /\ msg \in [Actors -> Messages \cup {NoMsg}]
    /\ Quiet => /\ inbox \in [Actors -> Seq(Asked)]
                /\ \A a \in Actors : pc[a] = "handle" => msg[a] \in Asked

\* Then a shutdown is stopped half way only by an exception that nobody catches.
QuietStop == Quiet => \A a \in Actors : stopped[a] /\ pc[a] = "shutdown" => crashed

\* One-for-one with an open() that succeeds or throws.
Promised == scenario.strategy = "OneForOne" /\ scenario.faults = {"open throws"} /\ changes = 0

\* start() has opened the actors its loop has passed.
OpenedSoFar == Promised /\ phase = "starting" => \A a \in opened : state[a] = "Opened"

-----------------------------------------------------------------------------
(* The row of an actor: p its program counter, st its state, s stopped,    *)
(* f frames, u the budget it has used, t taken, it inTry, n failures,      *)
(* r reopened                                                              *)

\* onActorFailed has counted the failure and not yet decided what follows from it.
Reported == {"letter", "drain", "apply", "shutdown"}

\* Between the report of a failure and its end onActorFailed is in progress.
InProgress(p, f) == p \in Reported \cup {"broadcast"} => f # <<>>

\* Every policy snapshot is the scenario's until a setter is called.
Snapshots(f) ==
    changes = 0 => \A i \in 1 .. Len(f) : f[i] = ScenarioPolicy

\* How much of its budget an actor has used that counts rc restarts and bc broadcasts.
Used(rc, bc) == IF scenario.strategy = "OneForOne" THEN rc
                ELSE IF scenario.strategy = "OneForAll" THEN bc ELSE 0

\* The policy shuts the actor down at its next failure.
Spent(u) == scenario.strategy = "None" \/ u >= scenario.maxRestarts

\* The budget is never overdrawn, and used up when the actor is being shut down.
WithinBudget(p, u) ==
    changes = 0 => u <= scenario.maxRestarts /\ (p = "shutdown" => Spent(u))

\* A batch takes between one and MaxBatch messages.
InBatch(p, t) == t <= MaxBatch /\ IF p = "idle" THEN t = 0 ELSE t >= 1

CloseThrows == "close throws" \in scenario.faults

\* Where the message in hand may still open the actor.
MayOpen == Pcs \ {"idle", "batch", "return"}

\* A stopped actor was opened once for each message after the one that stopped it, or
\* from that one on when close() threw in its shutdown.
Reopenings(p, s, t, r) ==
    LET first == IF CloseThrows THEN 0 ELSE 1 IN
    /\ ~s => r = 0
    /\ s => r + first <= IF p = "idle" THEN MaxBatch
                         ELSE IF p \in MayOpen THEN t - 1 ELSE t

\* One failure is one use of the budget, but the last, which stops the actor for good.
QuietRow(p, s, u, it, n, r) ==
    Quiet => /\ p # "broadcast"
             /\ p \in {"report", "close", "open", "return"} \cup Reported => ~it
             /\ s => p \in {"idle", "return", "shutdown"}
             /\ r = 0
             /\ n <= u + IF s \/ p \in Reported THEN 1 ELSE 0

\* How many messages of the batch that stopped an actor went into its next failure: one
\* that opens it, and then one that fails.
Spares(p, st, it) ==
    IF p \in {"close", "open"} THEN 3
    ELSE IF p \in Reported THEN IF it THEN 1 ELSE 0
    ELSE IF p = "report" THEN IF it THEN 3 ELSE 2
    ELSE IF p = "idle" \/ (p = "return" /\ ~it) THEN 0
    ELSE (IF p = "handle" THEN 2 ELSE 1) + IF st = "Opened" THEN 1 ELSE 0

\* The messages that the failures past the budget took.
Excess(n) == 2 * (n - scenario.maxRestarts - 1)

\* One failure is one use of the budget, and of two messages once the actor was stopped.
LateRow(p, st, s, u, t, it, n) ==
    changes = 0 /\ scenario.strategy = "OneForAll" /\ ~CloseThrows =>
        /\ ~s => n <= u + IF p \in Reported THEN 1 ELSE 0
        /\ s => /\ u >= scenario.maxRestarts /\ p # "broadcast"
                /\ Excess(n) + Spares(p, st, it) <= IF p = "idle" THEN MaxBatch ELSE t

\* Where an actor nobody may disable is Opened.
EssentialRow(a, p, st, s) ==
    Promised /\ phase = "up" /\ a \in Essential /\ p \in {"idle", "batch", "handle", "return"}
        => st = "Opened" \/ s

RowInv(p, st, s, f, u, t, it, n, r) ==
    /\ InProgress(p, f) /\ Snapshots(f) /\ WithinBudget(p, u) /\ InBatch(p, t)
    /\ Reopenings(p, s, t, r) /\ QuietRow(p, s, u, it, n, r) /\ LateRow(p, st, s, u, t, it, n)

UsedBy(a) == Used(restartCount[a], broadcasts[a])

Local(a) ==
    /\ RowInv(pc[a], state[a], stopped[a], frames[a], UsedBy(a), taken[a], inTry[a],
              failures[a], reopened[a])
    /\ EssentialRow(a, pc[a], state[a], stopped[a])

SupInv ==
    /\ RowTypes /\ WholeTypes /\ IdlePhases /\ ClosedSoFar /\ PolicyFixed /\ OpenedSoFar
    /\ Mail /\ QuietStop
    /\ \A a \in Actors : Local(a)

-----------------------------------------------------------------------------
(* Facts about the operators                                               *)

\* What is known of the constants.
LEMMA ConstantFacts ==
    /\ MaxCount \in Nat /\ Limits \subseteq Nat /\ MaxBatch \in Nat \ {0}
    /\ Strategies \subseteq Kinds /\ Essential \subseteq Actors
    /\ \A s \in Scenarios : s.strategy \in Kinds /\ s.maxRestarts \in Nat
  BY SupervisionAssumption, Zenon DEF Kinds

\* What is known of a scenario.
LEMMA ScenarioFacts ==
    ASSUME WholeTypes
    PROVE  scenario.strategy \in Kinds /\ scenario.maxRestarts \in Nat
  BY ConstantFacts, Zenon DEF WholeTypes

\* Each failure past the budget takes two messages.
LEMMA ExcessFacts ==
    ASSUME WholeTypes, NEW n \in Nat
    PROVE  /\ Excess(n) \in Int
           /\ n <= scenario.maxRestarts + 1 => Excess(n) <= 0
           /\ \A k \in Nat : k <= n + 1 => Excess(k) <= Excess(n) + 2
  BY ScenarioFacts DEF Excess

\* open() ends Opened, Closed or, when it threw, Opening.
LEMMA OpenOutcomesFacts ==
    ASSUME NEW o \in OpenOutcomes
    PROVE  /\ o[1] \in ActorStates /\ o[2] \in BOOLEAN
           /\ o[2] => o[1] # "Opened"
           /\ ~o[2] /\ scenario.faults = {"open throws"} => o[1] = "Opened"
  <1>1. \/ o = <<"Opened", FALSE>>
        \/ o = <<"Closed", FALSE>> /\ "open fails" \in scenario.faults
        \/ o = <<"Opening", TRUE>>
    BY DEF OpenOutcomes
  <1>2. CASE o = <<"Opened", FALSE>>
    BY <1>2 DEF ActorStates
  <1>3. CASE o = <<"Closed", FALSE>> /\ "open fails" \in scenario.faults
    <2>0. "open fails" \notin {"open throws"}
      OBVIOUS
    <2>1. scenario.faults # {"open throws"}
      BY <1>3, <2>0, Zenon
    <2>2. o[1] = "Closed" /\ o[2] = FALSE
      BY <1>3
    <2> QED BY <2>1, <2>2 DEF ActorStates
  <1>4. CASE o = <<"Opening", TRUE>>
    BY <1>4 DEF ActorStates
  <1> QED BY <1>1, <1>2, <1>3, <1>4

\* close() ends Closed, or Closing when it threw, which not every scenario allows.
LEMMA CloseOutcomesFacts ==
    ASSUME NEW a, NEW o \in CloseOutcomes(a)
    PROVE  /\ o[1] \in ActorStates /\ o[2] \in BOOLEAN
           /\ o[1] # "Opened" /\ (~o[2] => o[1] = "Closed")
           /\ o[2] => CloseThrows
  <1>1. \/ o = <<"Closed", FALSE>>
        \/ o = <<"Closing", TRUE>> /\ CloseThrows
    BY DEF CloseOutcomes, CloseThrows
  <1>2. CASE o = <<"Closed", FALSE>>
    BY <1>2 DEF ActorStates
  <1>3. CASE o = <<"Closing", TRUE>> /\ CloseThrows
    BY <1>3 DEF ActorStates
  <1> QED BY <1>1, <1>2, <1>3

\* A count goes up by one at most.
LEMMA CountFacts ==
    ASSUME NEW n \in Nat
    PROVE  Count(n, 1) \in Nat /\ Count(n, 1) <= n + 1
  <1>1. MaxCount \in Nat
    BY ConstantFacts
  <1> QED BY <1>1 DEF Count

\* A call without its innermost frame.
LEMMA FramesPopped ==
    ASSUME NEW g \in Seq(Policies), g # <<>>
    PROVE  /\ SubSeq(g, 1, Len(g) - 1) \in Seq(Policies)
           /\ \A i \in 1 .. Len(SubSeq(g, 1, Len(g) - 1)) :
                 i \in 1 .. Len(g) /\ SubSeq(g, 1, Len(g) - 1)[i] = g[i]
  OBVIOUS

-----------------------------------------------------------------------------
(* A step that touches the row of one actor                                *)

RowIs(a, p, st, s, f, rc, bc, t, it, n, r) ==
    /\ pc' = [pc EXCEPT ![a] = p] /\ state' = [state EXCEPT ![a] = st]
    /\ stopped' = [stopped EXCEPT ![a] = s] /\ frames' = [frames EXCEPT ![a] = f]
    /\ restartCount' = [restartCount EXCEPT ![a] = rc]
    /\ broadcasts' = [broadcasts EXCEPT ![a] = bc]
    /\ taken' = [taken EXCEPT ![a] = t] /\ inTry' = [inTry EXCEPT ![a] = it]
    /\ failures' = [failures EXCEPT ![a] = n] /\ reopened' = [reopened EXCEPT ![a] = r]

\* Row b is what it is afterwards.
RowOf(b, p, st, s, f, rc, bc, t, it, n, r) ==
    /\ pc'[b] = p /\ state'[b] = st /\ stopped'[b] = s /\ frames'[b] = f
    /\ restartCount'[b] = rc /\ broadcasts'[b] = bc
    /\ taken'[b] = t /\ inTry'[b] = it /\ failures'[b] = n /\ reopened'[b] = r

SameRow(b) == RowOf(b, pc[b], state[b], stopped[b], frames[b], restartCount[b], broadcasts[b],
                    taken[b], inTry[b], failures[b], reopened[b])

\* What a step leaves alone stays as it is in the row.
LEMMA Unmoved ==
    ASSUME RowTypes, NEW a \in Actors
    PROVE  /\ pc = [pc EXCEPT ![a] = pc[a]] /\ state = [state EXCEPT ![a] = state[a]]
           /\ stopped = [stopped EXCEPT ![a] = stopped[a]]
           /\ frames = [frames EXCEPT ![a] = frames[a]]
           /\ restartCount = [restartCount EXCEPT ![a] = restartCount[a]]
           /\ broadcasts = [broadcasts EXCEPT ![a] = broadcasts[a]]
           /\ taken = [taken EXCEPT ![a] = taken[a]] /\ inTry = [inTry EXCEPT ![a] = inTry[a]]
           /\ failures = [failures EXCEPT ![a] = failures[a]]
           /\ reopened = [reopened EXCEPT ![a] = reopened[a]]
  BY DEF RowTypes

\* The predicate of a row speaks of the row, the scenario and the number of changes only.
LEMMA RowKept ==
    ASSUME UNCHANGED <<scenario, changes>>,
           NEW b, NEW p, NEW st, NEW s, NEW f, NEW rc, NEW bc, NEW t, NEW it, NEW n, NEW r,
           RowOf(b, p, st, s, f, rc, bc, t, it, n, r),
           RowInv(p, st, s, f, Used(rc, bc), t, it, n, r), EssentialRow(b, p, st, s)'
    PROVE  Local(b)'
  <1>0. PICK u : u = Used(rc, bc)
    OBVIOUS
  <1>1. /\ (CloseThrows' <=> CloseThrows) /\ (Quiet' <=> Quiet)
        /\ ScenarioPolicy' = ScenarioPolicy
    BY DEF CloseThrows, Quiet, ScenarioPolicy
  <1>2. UsedBy(b)' = u
    BY <1>0 DEF UsedBy, Used, RowOf
  <1>10. RowInv(p, st, s, f, u, t, it, n, r)
    BY <1>0
  <1>3. InProgress(p, f)' /\ Snapshots(f)' /\ InBatch(p, t)'
    BY <1>1, <1>10 DEF RowInv, InProgress, Snapshots, InBatch
  <1>4. WithinBudget(p, u)'
    BY <1>10 DEF RowInv, WithinBudget, Spent
  <1>5. Reopenings(p, s, t, r)'
    BY <1>1, <1>10 DEF RowInv, Reopenings
  <1>6. QuietRow(p, s, u, it, n, r)'
    BY <1>1, <1>10 DEF RowInv, QuietRow
  <1>7. LateRow(p, st, s, u, t, it, n)'
    BY <1>1, <1>10 DEF RowInv, LateRow, Spares, Excess
  <1>8. RowInv(p, st, s, f, u, t, it, n, r)'
    BY <1>3, <1>4, <1>5, <1>6, <1>7 DEF RowInv
  <1>9. /\ pc'[b] = p /\ state'[b] = st /\ stopped'[b] = s /\ frames'[b] = f
        /\ taken'[b] = t /\ inTry'[b] = it /\ failures'[b] = n /\ reopened'[b] = r
    BY DEF RowOf
  <1> QED BY <1>2, <1>8, <1>9 DEF Local

Steady == UNCHANGED <<strategy, override, limit, scenario, changes, phase, opened>>

\* What the invariant says of one actor.
LEMMA OfOne ==
    ASSUME SupInv, NEW a \in Actors
    PROVE  /\ RowTypes /\ WholeTypes
           /\ pc[a] \in Pcs /\ state[a] \in ActorStates
           /\ stopped[a] \in BOOLEAN /\ frames[a] \in Seq(Policies)
           /\ restartCount[a] \in Nat /\ broadcasts[a] \in Nat /\ UsedBy(a) \in Nat
           /\ taken[a] \in Nat /\ inTry[a] \in BOOLEAN
           /\ failures[a] \in Nat /\ reopened[a] \in Nat
           /\ RowInv(pc[a], state[a], stopped[a], frames[a], UsedBy(a), taken[a], inTry[a],
                     failures[a], reopened[a])
           /\ EssentialRow(a, pc[a], state[a], stopped[a])
  BY DEF SupInv, RowTypes, Local, UsedBy, Used

\* Whatever an actor's step does to its own row, the other rows and the whole are safe.
LEMMA RowStep ==
    ASSUME SupInv, NEW a \in Actors,
           NEW p, NEW st, NEW s, NEW f, NEW rc, NEW bc, NEW t, NEW it, NEW n, NEW r,
           p \in Pcs, st \in ActorStates, s \in BOOLEAN, f \in Seq(Policies),
           rc \in Nat, bc \in Nat, t \in Nat, it \in BOOLEAN, n \in Nat, r \in Nat,
           RowIs(a, p, st, s, f, rc, bc, t, it, n, r),
           Steady, phase \in {"up", "draining"}, Mail',
           crashed' \in BOOLEAN, crashed => crashed', Quiet /\ s /\ p = "shutdown" => crashed',
           RowInv(p, st, s, f, Used(rc, bc), t, it, n, r), EssentialRow(a, p, st, s)
    PROVE  SupInv'
  <1>0. RowTypes
    BY DEF SupInv
  <1>1. /\ RowTypes' /\ RowOf(a, p, st, s, f, rc, bc, t, it, n, r)
        /\ \A b \in Actors \ {a} : SameRow(b)
    <2>1. /\ pc' \in [Actors -> Pcs] /\ pc'[a] = p
          /\ \A b \in Actors \ {a} : pc'[b] = pc[b]
      BY <1>0 DEF RowTypes, RowIs
    <2>2. /\ state' \in [Actors -> ActorStates] /\ state'[a] = st
          /\ \A b \in Actors \ {a} : state'[b] = state[b]
      BY <1>0 DEF RowTypes, RowIs
    <2>3. /\ stopped' \in [Actors -> BOOLEAN] /\ stopped'[a] = s
          /\ \A b \in Actors \ {a} : stopped'[b] = stopped[b]
      BY <1>0 DEF RowTypes, RowIs
    <2>4. /\ frames' \in [Actors -> Seq(Policies)] /\ frames'[a] = f
          /\ \A b \in Actors \ {a} : frames'[b] = frames[b]
      BY <1>0 DEF RowTypes, RowIs
    <2>5. /\ restartCount' \in [Actors -> Nat] /\ restartCount'[a] = rc
          /\ \A b \in Actors \ {a} : restartCount'[b] = restartCount[b]
      BY <1>0 DEF RowTypes, RowIs
    <2>6. /\ broadcasts' \in [Actors -> Nat] /\ broadcasts'[a] = bc
          /\ \A b \in Actors \ {a} : broadcasts'[b] = broadcasts[b]
      BY <1>0 DEF RowTypes, RowIs
    <2>7. /\ taken' \in [Actors -> Nat] /\ taken'[a] = t
          /\ \A b \in Actors \ {a} : taken'[b] = taken[b]
      BY <1>0 DEF RowTypes, RowIs
    <2>8. /\ inTry' \in [Actors -> BOOLEAN] /\ inTry'[a] = it
          /\ \A b \in Actors \ {a} : inTry'[b] = inTry[b]
      BY <1>0 DEF RowTypes, RowIs
    <2>9. /\ failures' \in [Actors -> Nat] /\ failures'[a] = n
          /\ \A b \in Actors \ {a} : failures'[b] = failures[b]
      BY <1>0 DEF RowTypes, RowIs
    <2>10. /\ reopened' \in [Actors -> Nat] /\ reopened'[a] = r
           /\ \A b \in Actors \ {a} : reopened'[b] = reopened[b]
      BY <1>0 DEF RowTypes, RowIs
    <2>11. RowTypes'
      BY <2>1, <2>2, <2>3, <2>4, <2>5, <2>6, <2>7, <2>8, <2>9, <2>10 DEF RowTypes
    <2>12. RowOf(a, p, st, s, f, rc, bc, t, it, n, r)
      BY <2>1, <2>2, <2>3, <2>4, <2>5, <2>6, <2>7, <2>8, <2>9, <2>10 DEF RowOf
    <2>13. \A b \in Actors \ {a} : SameRow(b)
      BY <2>1, <2>2, <2>3, <2>4, <2>5, <2>6, <2>7, <2>8, <2>9, <2>10 DEF SameRow, RowOf
    <2> QED BY <2>11, <2>12, <2>13
  <1>2. /\ UNCHANGED <<scenario, changes, phase>>
        /\ (Promised' <=> Promised) /\ (Quiet' <=> Quiet)
    BY DEF Steady, Promised, Quiet
  <1>3. WholeTypes' /\ IdlePhases' /\ ClosedSoFar' /\ PolicyFixed' /\ OpenedSoFar'
    BY DEF SupInv, WholeTypes, IdlePhases, ClosedSoFar, PolicyFixed, OpenedSoFar, Steady
  <1>4. Local(a)'
    <2>1. EssentialRow(a, p, st, s)'
      BY <1>2 DEF EssentialRow
    <2> QED BY <1>1, <1>2, <2>1, RowKept
  <1>5. ASSUME NEW b \in Actors, b # a PROVE Local(b)'
    <2>1. /\ RowInv(pc[b], state[b], stopped[b], frames[b],
                    Used(restartCount[b], broadcasts[b]), taken[b], inTry[b], failures[b],
                    reopened[b])
          /\ EssentialRow(b, pc[b], state[b], stopped[b])
      BY OfOne DEF UsedBy
    <2>2. RowOf(b, pc[b], state[b], stopped[b], frames[b], restartCount[b], broadcasts[b],
                taken[b], inTry[b], failures[b], reopened[b])
      BY <1>1, <1>5 DEF SameRow
    <2>3. PICK q, z, y : q = pc[b] /\ z = state[b] /\ y = stopped[b]
      OBVIOUS
    <2>4. EssentialRow(b, q, z, y)'
      BY <1>2, <2>1, <2>3 DEF EssentialRow
    <2> QED BY <1>2, <2>1, <2>2, <2>3, <2>4, RowKept
  <1>6. QuietStop'
    BY <1>1, <1>2 DEF SupInv, QuietStop, SameRow, RowOf
  <1> QED BY <1>1, <1>3, <1>4, <1>5, <1>6 DEF SupInv

-----------------------------------------------------------------------------
(* The steps of an actor                                                   *)

\* An actor that is being executed is executed while workers run.
LEMMA Running ==
    ASSUME SupInv, NEW a \in Actors, pc[a] # "idle"
    PROVE  phase \in {"up", "draining"}
  BY DEF SupInv, IdlePhases

\* A step of an actor that ends where it was or outside a handler, and puts nothing in a
\* mailbox.
LEMMA MailKept ==
    ASSUME SupInv, NEW a \in Actors, UNCHANGED <<scenario, changes>>,
           NEW p \in Pcs \ {"handle"}, pc' = [pc EXCEPT ![a] = p],
           UNCHANGED msg \/ msg' = [msg EXCEPT ![a] = NoMsg],
           \/ UNCHANGED inbox
           \/ inbox[a] # <<>> /\ inbox' = [inbox EXCEPT ![a] = Tail(@)]
    PROVE  Mail'
  <1>1. /\ inbox \in [Actors -> Seq(Messages)] /\ msg \in [Actors -> Messages \cup {NoMsg}]
        /\ pc \in [Actors -> Pcs] /\ (Quiet' <=> Quiet)
    BY DEF SupInv, Mail, RowTypes, Quiet
  <1>2. \A S : inbox \in [Actors -> Seq(S)] => inbox' \in [Actors -> Seq(S)]
    <2>1. CASE UNCHANGED inbox
      BY <2>1
    <2>2. CASE inbox[a] # <<>> /\ inbox' = [inbox EXCEPT ![a] = Tail(@)]
      <3> SUFFICES ASSUME NEW S, inbox \in [Actors -> Seq(S)]
                   PROVE  inbox' \in [Actors -> Seq(S)]
        OBVIOUS
      <3>1. Tail(inbox[a]) \in Seq(S)
        BY <2>2
      <3> QED BY <2>2, <3>1
    <2> QED BY <2>1, <2>2
  <1>3. /\ msg' \in [Actors -> Messages \cup {NoMsg}]
        /\ \A b \in Actors : pc'[b] = "handle" => pc[b] = "handle" /\ msg'[b] = msg[b]
    BY <1>1
  <1> QED BY <1>1, <1>2, <1>3 DEF SupInv, Mail

\* popMessage: a batch begins with an actor that is not stopped, and goes on.
LEMMA TakeStep ==
    ASSUME SupInv, NEW a \in Actors, TakeFirst(a) \/ TakeNext(a)
    PROVE  SupInv'
  <1>0. PICK it \in BOOLEAN : it = TRUE
    OBVIOUS
  <1>1. /\ Pop(a) /\ phase \in {"up", "draining"} /\ pc[a] \in {"idle", "batch"} /\ ~crashed
        /\ pc[a] = "idle" => ~stopped[a]
        /\ pc[a] = "batch" => taken[a] < MaxBatch
    BY Running DEF TakeFirst, TakeNext, Pop
  <1>2. /\ Steady /\ UNCHANGED crashed
        /\ inbox[a] # <<>> /\ inbox' = [inbox EXCEPT ![a] = Tail(@)]
        /\ msg' = [msg EXCEPT ![a] = Head(inbox[a])]
        /\ pc' = [pc EXCEPT ![a] = "handle"]
    BY <1>1 DEF Pop, Goto, Steady, policyVars, mainVars, boundVars
  <1>3. RowIs(a, "handle", state[a], stopped[a], frames[a], restartCount[a], broadcasts[a],
              taken[a] + 1, it, failures[a], reopened[a])
    BY <1>0, <1>1, OfOne, Unmoved DEF Pop, Goto, RowIs, policyVars, statVars, boundVars
  <1>4. /\ RowInv(pc[a], state[a], stopped[a], frames[a], UsedBy(a), taken[a], inTry[a],
                  failures[a], reopened[a])
        /\ EssentialRow(a, pc[a], state[a], stopped[a])
        /\ state[a] \in ActorStates /\ stopped[a] \in BOOLEAN /\ frames[a] \in Seq(Policies)
        /\ restartCount[a] \in Nat /\ broadcasts[a] \in Nat /\ UsedBy(a) \in Nat
        /\ taken[a] \in Nat /\ failures[a] \in Nat /\ reopened[a] \in Nat
        /\ scenario.maxRestarts \in Nat /\ MaxBatch \in Nat \ {0}
    BY OfOne, ScenarioFacts, ConstantFacts
  <1>5. InProgress("handle", frames[a]) /\ InBatch("handle", taken[a] + 1)
    BY <1>1, <1>4 DEF RowInv, InProgress, InBatch, Reported
  <1>6. Reopenings("handle", stopped[a], taken[a] + 1, reopened[a])
    BY <1>1, <1>4 DEF RowInv, Reopenings, MayOpen, Pcs
  <1>7. QuietRow("handle", stopped[a], UsedBy(a), it, failures[a], reopened[a])
    BY <1>1, <1>4 DEF RowInv, QuietRow, Reported
  <1>8. LateRow("handle", state[a], stopped[a], UsedBy(a), taken[a] + 1, it, failures[a])
    <2> SUFFICES ASSUME changes = 0, scenario.strategy = "OneForAll", ~CloseThrows
                 PROVE  LateRow("handle", state[a], stopped[a], UsedBy(a), taken[a] + 1, it,
                                failures[a])
      BY DEF LateRow
    <2>1. CASE ~stopped[a]
      BY <1>1, <1>4, <2>1 DEF RowInv, LateRow, Reported
    <2>2. CASE stopped[a]
      <3>0. pc[a] = "batch"
        BY <1>1, <2>2
      <3>1. Spares("handle", state[a], it) = Spares("batch", state[a], inTry[a]) + 1
        BY DEF Spares, Reported
      <3>2. Spares("batch", state[a], inTry[a]) \in Nat
        BY DEF Spares, Reported
      <3>3. LateRow("batch", state[a], stopped[a], UsedBy(a), taken[a], inTry[a], failures[a])
        BY <1>4, <3>0 DEF RowInv
      <3>4. /\ UsedBy(a) >= scenario.maxRestarts
            /\ Excess(failures[a]) + Spares("batch", state[a], inTry[a]) <= taken[a]
        BY <2>2, <3>3 DEF LateRow
      <3>5. Excess(failures[a]) + Spares("handle", state[a], it) <= taken[a] + 1
        <4>1. Excess(failures[a]) \in Int
          BY <1>4, OfOne, ExcessFacts
        <4>2. taken[a] \in Nat
          BY <1>4
        <4> QED BY <3>1, <3>2, <3>4, <4>1, <4>2
      <3> QED BY <2>2, <3>4, <3>5 DEF LateRow
    <2> QED BY <1>4, <2>1, <2>2
  <1>9. RowInv("handle", state[a], stopped[a], frames[a],
               Used(restartCount[a], broadcasts[a]), taken[a] + 1, it, failures[a], reopened[a])
    BY <1>4, <1>5, <1>6, <1>7, <1>8 DEF RowInv, UsedBy, WithinBudget
  <1>10. EssentialRow(a, "handle", state[a], stopped[a])
    BY <1>1, <1>4 DEF EssentialRow
  <1>11. Mail'
    <2>1. /\ inbox \in [Actors -> Seq(Messages)] /\ msg \in [Actors -> Messages \cup {NoMsg}]
          /\ pc \in [Actors -> Pcs] /\ (Quiet' <=> Quiet)
      BY <1>2 DEF SupInv, Mail, RowTypes, Quiet, Steady
    <2>2. \A S : inbox \in [Actors -> Seq(S)] =>
              Head(inbox[a]) \in S /\ inbox' \in [Actors -> Seq(S)]
      <3> SUFFICES ASSUME NEW S, inbox \in [Actors -> Seq(S)]
                   PROVE  Head(inbox[a]) \in S /\ inbox' \in [Actors -> Seq(S)]
        OBVIOUS
      <3>1. Head(inbox[a]) \in S /\ Tail(inbox[a]) \in Seq(S)
        BY <1>2
      <3> QED BY <1>2, <3>1
    <2>3. /\ msg' \in [Actors -> Messages \cup {NoMsg}] /\ msg'[a] = Head(inbox[a])
          /\ \A b \in Actors \ {a} : pc'[b] = pc[b] /\ msg'[b] = msg[b]
      BY <1>2, <2>1, <2>2
    <2> QED BY <2>1, <2>2, <2>3 DEF SupInv, Mail
  <1>12. "handle" \in Pcs /\ taken[a] + 1 \in Nat /\ it \in BOOLEAN /\ crashed' = FALSE
    BY <1>1, <1>2, <1>4 DEF Pcs, SupInv, WholeTypes
  <1> QED BY <1>1, <1>2, <1>3, <1>4, <1>9, <1>10, <1>11, <1>12, RowStep

\* The row after a step that neither ends a batch nor counts a failure nor charges the
\* budget: at q, in state st, with the calls f in progress.
LEMMA Moved ==
    ASSUME NEW a \in Actors, NEW q, NEW st, NEW f, NEW it, NEW r, SupInv, pc[a] # "idle",
           q \in Pcs \ {"idle", "broadcast"}, f \in Seq(Policies), it \in BOOLEAN, r \in Nat,
           Snapshots(f), q \in Reported => f # <<>>,
           pc[a] \in Reported => q \in Reported,
           q = "shutdown" /\ changes = 0 => Spent(UsedBy(a)),
           q \in MayOpen => pc[a] \in MayOpen,
           \/ r = reopened[a]
           \/ /\ stopped[a] /\ r <= reopened[a] + 1 /\ ~Quiet
              /\ pc[a] \in MayOpen /\ q \notin MayOpen,
           Quiet => /\ q \in {"report", "close", "open", "return"} \cup Reported => ~it
                    /\ stopped[a] => q \in {"return", "shutdown"},
           Spares(q, st, it) <= Spares(pc[a], state[a], inTry[a])
    PROVE  RowInv(q, st, stopped[a], f, Used(restartCount[a], broadcasts[a]), taken[a], it,
                  failures[a], r)
  <1>1. /\ RowInv(pc[a], state[a], stopped[a], frames[a], UsedBy(a), taken[a], inTry[a],
                  failures[a], reopened[a])
        /\ stopped[a] \in BOOLEAN /\ UsedBy(a) \in Nat /\ taken[a] \in Nat
        /\ failures[a] \in Nat /\ reopened[a] \in Nat /\ scenario.maxRestarts \in Nat
        /\ MaxBatch \in Nat \ {0}
    BY OfOne, ScenarioFacts, ConstantFacts
  <1>2. InProgress(q, f) /\ InBatch(q, taken[a]) /\ WithinBudget(q, UsedBy(a))
    BY <1>1 DEF RowInv, InProgress, InBatch, WithinBudget
  <1>3. Reopenings(q, stopped[a], taken[a], r)
    BY <1>1 DEF RowInv, Reopenings
  <1>4. QuietRow(q, stopped[a], UsedBy(a), it, failures[a], r)
    BY <1>1 DEF RowInv, QuietRow
  <1>5. LateRow(q, st, stopped[a], UsedBy(a), taken[a], it, failures[a])
    <2>1. LateRow(pc[a], state[a], stopped[a], UsedBy(a), taken[a], inTry[a], failures[a])
      BY <1>1 DEF RowInv
    <2>2. Spares(q, st, it) \in Int /\ Spares(pc[a], state[a], inTry[a]) \in Int
      BY DEF Spares
    <2>3. Excess(failures[a]) \in Int
      BY <1>1, OfOne, ExcessFacts
    <2> QED BY <1>1, <2>1, <2>2, <2>3 DEF LateRow
  <1> QED BY <1>2, <1>3, <1>4, <1>5 DEF RowInv, UsedBy

\* Where the step of an actor ends.
Ends(a, q, st, it, r) ==
    /\ pc' = [pc EXCEPT ![a] = q] /\ state' = [state EXCEPT ![a] = st]
    /\ inTry' = [inTry EXCEPT ![a] = it] /\ reopened' = [reopened EXCEPT ![a] = r]

\* The end of a handler or of a lifecycle message: the batch goes on, the supervisor
\* hears of a failure, or the actor restarts.
LEMMA HandledStep ==
    ASSUME NEW a \in Actors, NEW q, NEW st, NEW it, NEW r,
           SupInv, pc[a] = "handle", crashed' = FALSE, ~crashed, Steady,
           UNCHANGED <<stopped, frames, restartCount, broadcasts, taken, failures, inbox>>,
           UNCHANGED msg \/ msg' = [msg EXCEPT ![a] = NoMsg],
           q \in {"batch", "report", "close"}, st \in ActorStates, it \in BOOLEAN, r \in Nat,
           Ends(a, q, st, it, r),
           q # "close" => ~it,
           q = "close" => state[a] = "Opened" /\ ~Quiet,
           r = reopened[a] \/ (stopped[a] /\ q = "batch" /\ r <= reopened[a] + 1),
           EssentialRow(a, q, st, stopped[a])
    PROVE  SupInv'
  <1>1. /\ phase \in {"up", "draining"} /\ stopped[a] \in BOOLEAN /\ frames[a] \in Seq(Policies)
        /\ restartCount[a] \in Nat /\ broadcasts[a] \in Nat /\ taken[a] \in Nat
        /\ failures[a] \in Nat
        /\ RowInv(pc[a], state[a], stopped[a], frames[a], UsedBy(a), taken[a], inTry[a],
                  failures[a], reopened[a])
    BY OfOne, Running
  <1>2. Quiet => ~stopped[a]
    BY <1>1 DEF RowInv, QuietRow
  <1>3. /\ q \in Pcs \ {"idle", "broadcast"} /\ q \notin Reported /\ pc[a] \notin Reported
        /\ pc[a] \in MayOpen /\ ("batch" \notin MayOpen) /\ q # "handle"
    BY DEF Pcs, Reported, MayOpen
  <1>4. Spares(q, st, it) <= Spares(pc[a], state[a], inTry[a])
    BY DEF Spares, Reported
  <1>5. Snapshots(frames[a])
    BY <1>1 DEF RowInv
  <1>6. RowInv(q, st, stopped[a], frames[a], Used(restartCount[a], broadcasts[a]), taken[a],
               it, failures[a], r)
    BY <1>1, <1>2, <1>3, <1>4, <1>5, Moved
  <1>7. RowIs(a, q, st, stopped[a], frames[a], restartCount[a], broadcasts[a], taken[a], it,
              failures[a], r)
    BY OfOne, Unmoved DEF RowIs, Ends
  <1>8. Mail'
    BY <1>3, MailKept DEF Steady, Ends
  <1> QED BY <1>1, <1>3, <1>6, <1>7, <1>8, RowStep

\* A handler, or a message that enables, disables or restarts the actor.
LEMMA HandleWorkStep ==
    ASSUME SupInv, NEW a \in Actors, HandleWork(a)
    PROVE  SupInv'
  <1>0. PICK no \in BOOLEAN : no = FALSE
    OBVIOUS
  <1>1. /\ pc[a] = "handle" /\ ~crashed /\ crashed' = FALSE /\ Steady
        /\ UNCHANGED <<state, stopped, frames, restartCount, broadcasts, taken, failures, inbox,
                       reopened>>
    BY DEF HandleWork, Steady, actorVars, policyVars, statVars, mainVars, boundVars, SupInv,
           WholeTypes
  <1>2. PICK q \in {"batch", "report"} :
           /\ pc' = [pc EXCEPT ![a] = q] /\ inTry' = [inTry EXCEPT ![a] = no]
           /\ UNCHANGED msg \/ msg' = [msg EXCEPT ![a] = NoMsg]
    BY <1>0 DEF HandleWork, Finish, Caught, Goto
  <1>3. /\ RowTypes /\ state[a] \in ActorStates /\ reopened[a] \in Nat
        /\ EssentialRow(a, pc[a], state[a], stopped[a])
    BY OfOne
  <1>4. /\ state' = [state EXCEPT ![a] = state[a]]
        /\ reopened' = [reopened EXCEPT ![a] = reopened[a]]
    BY <1>1, <1>3, Unmoved
  <1>5. EssentialRow(a, q, state[a], stopped[a])
    BY <1>1, <1>3 DEF EssentialRow
  <1>6. q \in {"batch", "report", "close"} /\ q # "close" /\ ~no
    BY <1>0, <1>2
  <1>7. Ends(a, q, state[a], no, reopened[a])
    BY <1>2, <1>4 DEF Ends
  <1> QED BY <1>1, <1>2, <1>3, <1>5, <1>6, <1>7, HandledStep

LEMMA EnableStep ==
    ASSUME SupInv, NEW a \in Actors, EnableRequest(a)
    PROVE  SupInv'
  <1>0. PICK no \in BOOLEAN : no = FALSE
    OBVIOUS
  <1>1. /\ pc[a] = "handle" /\ ~crashed /\ crashed' = FALSE /\ Steady
        /\ UNCHANGED <<stopped, frames, restartCount, broadcasts, taken, failures, inbox>>
    BY DEF EnableRequest, Steady, policyVars, statVars, mainVars, SupInv, WholeTypes
  <1>2. /\ RowTypes /\ state[a] \in ActorStates /\ stopped[a] \in BOOLEAN /\ reopened[a] \in Nat
        /\ EssentialRow(a, pc[a], state[a], stopped[a])
    BY OfOne
  <1>3. CASE state[a] = "Closed"
    <2>1. PICK o \in OpenOutcomes : Becomes(a, o[1]) /\ IF o[2] THEN Caught(a) ELSE Finish(a)
      BY <1>3 DEF EnableRequest
    <2>2. PICK st, r : /\ st = o[1]
                       /\ r = IF stopped[a] /\ st = "Opened" THEN Count(reopened[a], 1)
                              ELSE reopened[a]
      OBVIOUS
    <2>3. /\ state' = [state EXCEPT ![a] = st] /\ reopened' = [reopened EXCEPT ![a] = r]
          /\ st \in ActorStates /\ r \in Nat
          /\ o[2] \in BOOLEAN /\ (o[2] => st # "Opened")
          /\ ~o[2] /\ Promised => st = "Opened"
      BY <1>2, <2>1, <2>2, OpenOutcomesFacts, CountFacts DEF Becomes, Promised
    <2>4. PICK q \in {"batch", "report"} :
             /\ q = IF o[2] THEN "report" ELSE "batch"
             /\ pc' = [pc EXCEPT ![a] = q] /\ inTry' = [inTry EXCEPT ![a] = no]
             /\ UNCHANGED msg \/ msg' = [msg EXCEPT ![a] = NoMsg]
      BY <1>0, <2>1, <2>3 DEF Finish, Caught, Goto
    <2>5. r = reopened[a] \/ (stopped[a] /\ q = "batch" /\ r <= reopened[a] + 1)
      BY <1>2, <2>2, <2>3, <2>4, CountFacts
    <2>6. EssentialRow(a, q, st, stopped[a])
      BY <2>3, <2>4 DEF EssentialRow
    <2>7. q \in {"batch", "report", "close"} /\ q # "close" /\ ~no
      BY <1>0, <2>4
    <2>8. Ends(a, q, st, no, r)
      BY <2>3, <2>4 DEF Ends
    <2> QED BY <1>1, <1>2, <2>3, <2>4, <2>5, <2>6, <2>7, <2>8, HandledStep
  <1>4. CASE state[a] # "Closed"
    <2>1. /\ pc' = [pc EXCEPT ![a] = "batch"] /\ inTry' = [inTry EXCEPT ![a] = no]
          /\ msg' = [msg EXCEPT ![a] = NoMsg]
          /\ state' = [state EXCEPT ![a] = state[a]]
          /\ reopened' = [reopened EXCEPT ![a] = reopened[a]]
      BY <1>0, <1>2, <1>4, Unmoved DEF EnableRequest, Finish, Goto
    <2>2. EssentialRow(a, "batch", state[a], stopped[a])
      BY <1>1, <1>2 DEF EssentialRow
    <2>3. Ends(a, "batch", state[a], no, reopened[a])
      BY <2>1 DEF Ends
    <2> QED BY <1>0, <1>1, <1>2, <2>1, <2>2, <2>3, HandledStep
  <1> QED BY <1>3, <1>4

LEMMA DisableStep ==
    ASSUME SupInv, NEW a \in Actors, DisableRequest(a)
    PROVE  SupInv'
  <1>0. PICK no \in BOOLEAN : no = FALSE
    OBVIOUS
  <1>1. /\ pc[a] = "handle" /\ ~crashed /\ crashed' = FALSE /\ Steady
        /\ UNCHANGED <<stopped, frames, restartCount, broadcasts, taken, failures, inbox,
                       reopened>>
    BY DEF DisableRequest, Steady, policyVars, statVars, mainVars, boundVars, SupInv, WholeTypes
  <1>2. /\ RowTypes /\ state[a] \in ActorStates /\ stopped[a] \in BOOLEAN /\ reopened[a] \in Nat
        /\ EssentialRow(a, pc[a], state[a], stopped[a])
    BY OfOne
  <1>3. reopened' = [reopened EXCEPT ![a] = reopened[a]]
    BY <1>1, <1>2, Unmoved
  <1>4. CASE state[a] = "Opened" /\ a \notin Essential
    <2>1. PICK o \in CloseOutcomes(a) :
             state' = [state EXCEPT ![a] = o[1]] /\ IF o[2] THEN Caught(a) ELSE Finish(a)
      BY <1>4 DEF DisableRequest
    <2>2. o[1] \in ActorStates /\ o[2] \in BOOLEAN
      BY CloseOutcomesFacts
    <2>3. PICK q \in {"batch", "report"} :
             /\ pc' = [pc EXCEPT ![a] = q] /\ inTry' = [inTry EXCEPT ![a] = no]
             /\ UNCHANGED msg \/ msg' = [msg EXCEPT ![a] = NoMsg]
      BY <1>0, <2>1, <2>2 DEF Finish, Caught, Goto
    <2>4. EssentialRow(a, q, o[1], stopped[a])
      BY <1>4 DEF EssentialRow
    <2>5. q \in {"batch", "report", "close"} /\ q # "close" /\ ~no
      BY <1>0, <2>3
    <2>6. Ends(a, q, o[1], no, reopened[a])
      BY <1>3, <2>1, <2>3 DEF Ends
    <2> QED BY <1>1, <1>2, <2>2, <2>3, <2>4, <2>5, <2>6, HandledStep
  <1>5. CASE ~(state[a] = "Opened" /\ a \notin Essential)
    <2>1. /\ pc' = [pc EXCEPT ![a] = "batch"] /\ inTry' = [inTry EXCEPT ![a] = no]
          /\ msg' = [msg EXCEPT ![a] = NoMsg]
          /\ state' = [state EXCEPT ![a] = state[a]]
      BY <1>0, <1>2, <1>5, Unmoved DEF DisableRequest, Finish, Goto
    <2>2. EssentialRow(a, "batch", state[a], stopped[a])
      BY <1>1, <1>2 DEF EssentialRow
    <2>3. Ends(a, "batch", state[a], no, reopened[a])
      BY <1>3, <2>1 DEF Ends
    <2> QED BY <1>0, <1>1, <1>2, <2>1, <2>2, <2>3, HandledStep
  <1> QED BY <1>4, <1>5

LEMMA RestartRequestStep ==
    ASSUME SupInv, NEW a \in Actors, RestartRequest(a)
    PROVE  SupInv'
  <1>0. PICK no \in BOOLEAN : no = FALSE
    OBVIOUS
  <1>1. /\ pc[a] = "handle" /\ ~crashed /\ crashed' = FALSE /\ Steady
        /\ UNCHANGED <<state, stopped, frames, restartCount, broadcasts, taken, failures, inbox,
                       reopened>>
    BY DEF RestartRequest, Steady, actorVars, policyVars, statVars, mainVars, boundVars, SupInv,
           WholeTypes
  <1>2. /\ RowTypes /\ state[a] \in ActorStates /\ stopped[a] \in BOOLEAN /\ reopened[a] \in Nat
        /\ inTry[a] \in BOOLEAN /\ EssentialRow(a, pc[a], state[a], stopped[a])
    BY OfOne
  <1>3. ~Quiet
    <2>1. "restart" \notin Asked
      BY DEF Asked
    <2> QED BY <1>1, <2>1 DEF SupInv, Mail, RestartRequest
  <1>4. /\ state' = [state EXCEPT ![a] = state[a]]
        /\ reopened' = [reopened EXCEPT ![a] = reopened[a]]
    BY <1>1, <1>2, Unmoved
  <1>5. CASE state[a] = "Opened"
    <2>1. /\ pc' = [pc EXCEPT ![a] = "close"] /\ inTry' = [inTry EXCEPT ![a] = inTry[a]]
          /\ UNCHANGED msg
      BY <1>2, <1>5, Unmoved DEF RestartRequest, Goto
    <2>2. EssentialRow(a, "close", state[a], stopped[a])
      BY DEF EssentialRow
    <2>3. Ends(a, "close", state[a], inTry[a], reopened[a])
      BY <1>4, <2>1 DEF Ends
    <2> QED BY <1>1, <1>2, <1>3, <1>5, <2>1, <2>2, <2>3, HandledStep
  <1>6. CASE state[a] # "Opened"
    <2>1. /\ pc' = [pc EXCEPT ![a] = "batch"] /\ inTry' = [inTry EXCEPT ![a] = no]
          /\ msg' = [msg EXCEPT ![a] = NoMsg]
      BY <1>0, <1>6 DEF RestartRequest, Finish, Goto
    <2>2. EssentialRow(a, "batch", state[a], stopped[a])
      BY <1>1, <1>2 DEF EssentialRow
    <2>3. Ends(a, "batch", state[a], no, reopened[a])
      BY <1>4, <2>1 DEF Ends
    <2> QED BY <1>0, <1>1, <1>2, <2>1, <2>2, <2>3, HandledStep
  <1> QED BY <1>5, <1>6

\* The end of a batch.
LEMMA EndBatchStep ==
    ASSUME SupInv, NEW a \in Actors,
           EndBatch(a) \/ (BatchReturn(a) /\ ~inTry[a])
    PROVE  SupInv'
  <1>0. PICK none \in Nat : none = 0
    OBVIOUS
  <1>1. /\ pc[a] \in {"batch", "return"} /\ (pc[a] = "return" => ~inTry[a])
        /\ ~crashed /\ crashed' = FALSE /\ Steady /\ pc' = [pc EXCEPT ![a] = "idle"]
        /\ taken' = [taken EXCEPT ![a] = none]
        /\ UNCHANGED <<state, stopped, frames, restartCount, broadcasts, inTry, failures, inbox,
                       reopened>>
        /\ UNCHANGED msg \/ msg' = [msg EXCEPT ![a] = NoMsg]
    BY <1>0 DEF EndBatch, BatchReturn, Goto, Steady, actorVars, policyVars, statVars, mainVars,
           boundVars, SupInv, WholeTypes
  <1>2. /\ RowTypes /\ phase \in {"up", "draining"} /\ state[a] \in ActorStates
        /\ stopped[a] \in BOOLEAN /\ frames[a] \in Seq(Policies) /\ restartCount[a] \in Nat
        /\ broadcasts[a] \in Nat /\ UsedBy(a) \in Nat /\ taken[a] \in Nat
        /\ inTry[a] \in BOOLEAN /\ failures[a] \in Nat /\ reopened[a] \in Nat
        /\ RowInv(pc[a], state[a], stopped[a], frames[a], UsedBy(a), taken[a], inTry[a],
                  failures[a], reopened[a])
        /\ EssentialRow(a, pc[a], state[a], stopped[a])
        /\ scenario.maxRestarts \in Nat /\ MaxBatch \in Nat \ {0}
    BY <1>1, OfOne, Running, ScenarioFacts, ConstantFacts
  <1>3. RowIs(a, "idle", state[a], stopped[a], frames[a], restartCount[a], broadcasts[a], none,
              inTry[a], failures[a], reopened[a])
    BY <1>1, <1>2, Unmoved DEF RowIs
  <1>4. /\ "idle" \in Pcs /\ "idle" \notin Reported /\ pc[a] \notin Reported
        /\ pc[a] \notin MayOpen /\ "idle" \notin MayOpen
    BY <1>1 DEF Pcs, Reported, MayOpen
  <1>5. /\ InProgress("idle", frames[a]) /\ InBatch("idle", none) /\ WithinBudget("idle", UsedBy(a))
        /\ Snapshots(frames[a])
    BY <1>0, <1>2, <1>4 DEF RowInv, InProgress, InBatch, WithinBudget
  <1>6. Reopenings("idle", stopped[a], none, reopened[a])
    BY <1>1, <1>2, <1>4 DEF RowInv, Reopenings, InBatch
  <1>7. QuietRow("idle", stopped[a], UsedBy(a), inTry[a], failures[a], reopened[a])
    BY <1>1, <1>2, <1>4 DEF RowInv, QuietRow
  <1>8. LateRow("idle", state[a], stopped[a], UsedBy(a), none, inTry[a], failures[a])
    <2>1. /\ LateRow(pc[a], state[a], stopped[a], UsedBy(a), taken[a], inTry[a], failures[a])
          /\ taken[a] <= MaxBatch
      BY <1>2 DEF RowInv, InBatch
    <2>2. /\ Spares("idle", state[a], inTry[a]) = 0
          /\ Spares(pc[a], state[a], inTry[a]) \in Nat
      BY DEF Spares, Reported
    <2>3. Excess(failures[a]) \in Int
      BY <1>2, OfOne, ExcessFacts
    <2> QED BY <1>1, <1>2, <1>4, <2>1, <2>2, <2>3 DEF LateRow
  <1>9. RowInv("idle", state[a], stopped[a], frames[a], Used(restartCount[a], broadcasts[a]), none,
               inTry[a], failures[a], reopened[a])
    BY <1>5, <1>6, <1>7, <1>8 DEF RowInv, UsedBy
  <1>10. EssentialRow(a, "idle", state[a], stopped[a])
    BY <1>1, <1>2 DEF EssentialRow
  <1>11. Mail'
    BY <1>1, <1>4, MailKept DEF Steady
  <1> QED BY <1>1, <1>2, <1>3, <1>4, <1>9, <1>10, <1>11, RowStep

\* onActorFailed takes its snapshot of the policy: the failure is counted.
LEMMA ReportStep ==
    ASSUME SupInv, NEW a \in Actors, Report(a)
    PROVE  SupInv'
  <1> DEFINE policy == [strategy |-> StrategyOf(a), limit |-> limit]
  <1>1. /\ pc[a] = "report" /\ ~crashed /\ crashed' = FALSE /\ Steady
        /\ failures' = [failures EXCEPT ![a] = Count(failures[a], 1)]
        /\ UNCHANGED <<state, stopped, restartCount, broadcasts, taken, inTry, inbox, msg, reopened>>
        /\ frames' = [frames EXCEPT ![a] = Append(frames[a], policy)]
        /\ pc' = [pc EXCEPT ![a] = "letter"]
    BY OfOne DEF Report, Goto, Steady, actorVars, policyVars, mainVars, boundVars, WholeTypes, RowTypes
  <1>2. /\ RowTypes /\ WholeTypes /\ phase \in {"up", "draining"} /\ state[a] \in ActorStates
        /\ stopped[a] \in BOOLEAN /\ frames[a] \in Seq(Policies) /\ restartCount[a] \in Nat
        /\ broadcasts[a] \in Nat /\ UsedBy(a) \in Nat /\ taken[a] \in Nat
        /\ inTry[a] \in BOOLEAN /\ failures[a] \in Nat /\ reopened[a] \in Nat
        /\ RowInv(pc[a], state[a], stopped[a], frames[a], UsedBy(a), taken[a], inTry[a],
                  failures[a], reopened[a])
        /\ scenario.maxRestarts \in Nat /\ MaxBatch \in Nat \ {0}
    BY <1>1, OfOne, Running, ScenarioFacts, ConstantFacts
  <1>3. policy \in Policies /\ (changes = 0 => policy = ScenarioPolicy)
    <2>1. StrategyOf(a) \in Kinds /\ limit \in Nat
      BY <1>2 DEF WholeTypes, StrategyOf
    <2>2. changes = 0 => StrategyOf(a) = scenario.strategy /\ limit = scenario.maxRestarts
      BY DEF SupInv, PolicyFixed, StrategyOf
    <2> QED BY <2>1, <2>2 DEF Policies, ScenarioPolicy
  <1> HIDE DEF policy
  <1>4. PICK f \in Seq(Policies) :
           /\ f = Append(frames[a], policy) /\ f # <<>> /\ Len(f) = Len(frames[a]) + 1
           /\ \A i \in 1 .. Len(f) : f[i] = IF i <= Len(frames[a]) THEN frames[a][i] ELSE policy
    <2>1. PICK g \in Seq(Policies) : g = frames[a]
      BY <1>2
    <2>2. /\ Append(g, policy) \in Seq(Policies) /\ Append(g, policy) # <<>>
          /\ Len(Append(g, policy)) = Len(g) + 1 /\ Len(g) \in Nat
          /\ \A i \in 1 .. Len(g) + 1 :
                Append(g, policy)[i] = IF i <= Len(g) THEN g[i] ELSE policy
      BY <1>3
    <2> QED BY <2>1, <2>2
  <1>5. PICK n \in Nat : n = Count(failures[a], 1) /\ n <= failures[a] + 1
    BY <1>2, CountFacts
  <1>6. RowIs(a, "letter", state[a], stopped[a], f, restartCount[a], broadcasts[a], taken[a],
              inTry[a], n, reopened[a])
    BY <1>1, <1>2, <1>4, <1>5, Unmoved DEF RowIs
  <1>7. /\ "letter" \in Pcs /\ "letter" \in Reported /\ "report" \notin Reported
        /\ "letter" \in MayOpen /\ "report" \in MayOpen
    BY DEF Pcs, Reported, MayOpen
  <1>8. /\ InProgress("letter", f) /\ InBatch("letter", taken[a])
        /\ WithinBudget("letter", UsedBy(a))
    BY <1>1, <1>2, <1>4 DEF RowInv, InProgress, InBatch, WithinBudget
  <1>9. Snapshots(f)
    <2>1. Snapshots(frames[a]) /\ Len(frames[a]) \in Nat
      BY <1>2 DEF RowInv
    <2> QED BY <1>3, <1>4, <2>1 DEF Snapshots
  <1>10. Reopenings("letter", stopped[a], taken[a], reopened[a])
    BY <1>1, <1>2, <1>7 DEF RowInv, Reopenings
  <1>11. QuietRow("letter", stopped[a], UsedBy(a), inTry[a], n, reopened[a])
    BY <1>1, <1>2, <1>5, <1>7 DEF RowInv, QuietRow
  <1>12. LateRow("letter", state[a], stopped[a], UsedBy(a), taken[a], inTry[a], n)
    <2>1. LateRow("report", state[a], stopped[a], UsedBy(a), taken[a], inTry[a], failures[a])
      BY <1>1, <1>2 DEF RowInv
    <2>2. /\ Spares("letter", state[a], inTry[a]) \in Nat
          /\ Spares("report", state[a], inTry[a]) = Spares("letter", state[a], inTry[a]) + 2
      BY DEF Spares, Reported
    <2>3. /\ Excess(n) \in Int /\ Excess(failures[a]) \in Int
          /\ Excess(n) <= Excess(failures[a]) + 2
      BY <1>2, <1>5, ExcessFacts
    <2>4. CASE ~stopped[a]
      BY <1>2, <1>5, <1>7, <2>1, <2>4 DEF LateRow
    <2>5. CASE stopped[a]
      <3>1. ASSUME changes = 0, scenario.strategy = "OneForAll", ~CloseThrows
            PROVE  /\ UsedBy(a) >= scenario.maxRestarts
                   /\ Excess(failures[a]) + Spares("report", state[a], inTry[a]) <= taken[a]
        BY <2>1, <2>5, <3>1 DEF LateRow
      <3>2. ASSUME changes = 0, scenario.strategy = "OneForAll", ~CloseThrows
            PROVE  Excess(n) + Spares("letter", state[a], inTry[a]) <= taken[a]
        <4> DEFINE late == Excess(failures[a])   now == Excess(n)
                   two  == Spares("report", state[a], inTry[a])
                   none == Spares("letter", state[a], inTry[a])
        <4>1. /\ now \in Int /\ late \in Int /\ none \in Nat /\ taken[a] \in Nat
              /\ now <= late + 2 /\ two = none + 2
          BY <1>2, <2>2, <2>3
        <4>2. late + two <= taken[a]
          BY <3>1, <3>2, Zenon
        <4> HIDE DEF late, now, two, none
        <4>3. now + none <= taken[a]
          BY <4>1, <4>2
        <4> QED BY <4>3, Zenon DEF now, none
      <3> QED BY <2>5, <3>1, <3>2 DEF LateRow
    <2> QED BY <2>4, <2>5
  <1>13. RowInv("letter", state[a], stopped[a], f, Used(restartCount[a], broadcasts[a]),
                taken[a], inTry[a], n, reopened[a])
    BY <1>8, <1>9, <1>10, <1>11, <1>12 DEF RowInv, UsedBy
  <1>14. EssentialRow(a, "letter", state[a], stopped[a])
    BY DEF EssentialRow
  <1>15. Mail'
    BY <1>1, <1>7, MailKept DEF Steady
  <1> QED BY <1>1, <1>2, <1>4, <1>5, <1>6, <1>7, <1>13, <1>14, <1>15, RowStep

\* A step of a failure or of a restart in progress.
LEMMA MovedStep ==
    ASSUME NEW a \in Actors, NEW q, NEW st, NEW f, NEW it, NEW r, SupInv, pc[a] # "idle",
           q \in Pcs \ {"idle", "handle", "broadcast"}, st \in ActorStates, f \in Seq(Policies),
           it \in BOOLEAN, r \in Nat,
           RowIs(a, q, st, stopped[a], f, restartCount[a], broadcasts[a], taken[a], it,
                 failures[a], r),
           Steady, ~crashed, crashed' = FALSE, UNCHANGED msg \/ msg' = [msg EXCEPT ![a] = NoMsg],
           UNCHANGED inbox \/ (inbox[a] # <<>> /\ inbox' = [inbox EXCEPT ![a] = Tail(@)]),
           Snapshots(f), q \in Reported => f # <<>>,
           pc[a] \in Reported => q \in Reported,
           q = "shutdown" /\ changes = 0 => Spent(UsedBy(a)),
           q \in MayOpen => pc[a] \in MayOpen,
           \/ r = reopened[a]
           \/ /\ stopped[a] /\ r <= reopened[a] + 1 /\ ~Quiet
              /\ pc[a] \in MayOpen /\ q \notin MayOpen,
           Quiet => /\ q \in {"report", "close", "open", "return"} \cup Reported => ~it
                    /\ stopped[a] => q = "return",
           Spares(q, st, it) <= Spares(pc[a], state[a], inTry[a]),
           EssentialRow(a, q, st, stopped[a])
    PROVE  SupInv'
  <1>1. /\ phase \in {"up", "draining"} /\ stopped[a] \in BOOLEAN /\ frames[a] \in Seq(Policies)
        /\ restartCount[a] \in Nat /\ broadcasts[a] \in Nat /\ taken[a] \in Nat
        /\ failures[a] \in Nat
    BY OfOne, Running
  <1>2. RowInv(q, st, stopped[a], f, Used(restartCount[a], broadcasts[a]), taken[a], it,
               failures[a], r)
    BY Moved
  <1>3. Mail'
    BY MailKept DEF RowIs, Steady
  <1>4. Quiet /\ stopped[a] => q # "shutdown"
    OBVIOUS
  <1> QED BY <1>1, <1>2, <1>3, <1>4, RowStep

\* What the invariant says of an actor whose worker handles a failure or a restart.
LEMMA InRestart ==
    ASSUME SupInv, NEW a \in Actors, ~crashed
    PROVE  /\ Snapshots(frames[a])
           /\ pc[a] \in Reported \cup {"broadcast"} => frames[a] # <<>>
           /\ changes = 0 /\ pc[a] = "shutdown" => Spent(UsedBy(a))
           /\ changes = 0 => UsedBy(a) <= scenario.maxRestarts
           /\ Quiet => /\ pc[a] # "broadcast"
                       /\ pc[a] \in {"report", "close", "open", "return"} \cup Reported =>
                              ~inTry[a]
                       /\ stopped[a] => pc[a] \in {"idle", "return"}
  BY OfOne DEF RowInv, InProgress, Snapshots, WithinBudget, QuietRow, SupInv, QuietStop

\* The supervisor's dead letters.
LEMMA LetterStep ==
    ASSUME SupInv, NEW a \in Actors, FailedLetter(a) \/ DrainLetter(a)
    PROVE  SupInv'
  <1>1. /\ pc[a] \in {"letter", "drain"} /\ ~crashed /\ crashed' = FALSE /\ Steady
        /\ UNCHANGED <<state, stopped, frames, restartCount, broadcasts, taken, inTry, failures,
                       reopened, msg>>
        /\ UNCHANGED inbox \/ (inbox[a] # <<>> /\ inbox' = [inbox EXCEPT ![a] = Tail(@)])
    BY DEF FailedLetter, DrainLetter, Steady, actorVars, policyVars, mainVars, boundVars, SupInv,
           WholeTypes
  <1>2. PICK q \in {"drain", "apply"} : pc' = [pc EXCEPT ![a] = q]
    <2>1. CASE FailedLetter(a)
      BY <2>1 DEF FailedLetter, Goto
    <2>2. CASE DrainLetter(a)
      <3>1. CASE UNCHANGED pc
        BY <2>2, <3>1, OfOne, Unmoved DEF DrainLetter
      <3> QED BY <2>2, <3>1 DEF DrainLetter, Goto
    <2> QED BY <2>1, <2>2
  <1>3. /\ state[a] \in ActorStates /\ frames[a] \in Seq(Policies) /\ inTry[a] \in BOOLEAN
        /\ reopened[a] \in Nat
    BY OfOne
  <1>4. RowIs(a, q, state[a], stopped[a], frames[a], restartCount[a], broadcasts[a], taken[a],
              inTry[a], failures[a], reopened[a])
    BY <1>1, <1>2, OfOne, Unmoved DEF RowIs
  <1>5. /\ q \in Pcs \ {"idle", "handle", "broadcast"} /\ q \in Reported /\ q # "shutdown"
        /\ pc[a] \in Reported /\ pc[a] \in MayOpen /\ pc[a] \notin {"idle", "return"}
    BY <1>1, <1>2 DEF Pcs, Reported, MayOpen
  <1>6. /\ Snapshots(frames[a]) /\ frames[a] # <<>>
        /\ Quiet => ~inTry[a] /\ ~stopped[a]
    BY <1>1, <1>5, InRestart
  <1>7. Spares(q, state[a], inTry[a]) <= Spares(pc[a], state[a], inTry[a])
    BY <1>1, <1>2 DEF Spares, Reported
  <1>8. EssentialRow(a, q, state[a], stopped[a])
    BY <1>2 DEF EssentialRow
  <1> QED BY <1>1, <1>3, <1>4, <1>5, <1>6, <1>7, <1>8, MovedStep

\* The snapshot that is applied: the scenario's policy until a setter is called.
LEMMA PolicyFacts ==
    ASSUME SupInv, NEW a \in Actors, pc[a] = "apply", ~crashed
    PROVE  /\ frames[a] # <<>> /\ Policy(a) \in Policies
           /\ changes = 0 => /\ Policy(a).strategy = scenario.strategy
                             /\ Policy(a).limit = scenario.maxRestarts
           /\ Quiet => ~inTry[a] /\ ~stopped[a]
  <1>1. /\ frames[a] # <<>> /\ frames[a] \in Seq(Policies) /\ Snapshots(frames[a])
        /\ Quiet => ~inTry[a] /\ ~stopped[a]
    BY OfOne, InRestart DEF Reported
  <1>2. Len(frames[a]) \in 1 .. Len(frames[a])
    BY <1>1
  <1>3. Policy(a) \in Policies
    BY <1>1, <1>2 DEF Policy
  <1>4. changes = 0 => Policy(a) = ScenarioPolicy
    BY <1>1, <1>2 DEF Policy, Snapshots
  <1>5. ScenarioPolicy.strategy = scenario.strategy /\ ScenarioPolicy.limit = scenario.maxRestarts
    BY DEF ScenarioPolicy
  <1> QED BY <1>1, <1>3, <1>4, <1>5

\* The supervisor gives up: the budget is spent.
LEMMA GiveUp ==
    ASSUME SupInv, NEW a \in Actors, pc[a] = "apply", pc' = [pc EXCEPT ![a] = "shutdown"],
           UNCHANGED <<state, stopped, frames, restartCount, broadcasts, taken, inTry, failures,
                       reopened, inbox, msg>>,
           Steady, ~crashed, crashed' = FALSE, changes = 0 => Spent(UsedBy(a))
    PROVE  SupInv'
  <1>1. RowIs(a, "shutdown", state[a], stopped[a], frames[a], restartCount[a], broadcasts[a],
              taken[a], inTry[a], failures[a], reopened[a])
    BY OfOne, Unmoved DEF RowIs
  <1>2. /\ state[a] \in ActorStates /\ frames[a] \in Seq(Policies) /\ inTry[a] \in BOOLEAN
        /\ reopened[a] \in Nat /\ Snapshots(frames[a]) /\ frames[a] # <<>>
        /\ Quiet => ~inTry[a] /\ ~stopped[a]
    BY OfOne, InRestart, PolicyFacts
  <1>3. /\ "shutdown" \in Pcs \ {"idle", "handle", "broadcast"} /\ "shutdown" \in Reported
        /\ pc[a] \in MayOpen
    BY DEF Pcs, Reported, MayOpen
  <1>4. Spares("shutdown", state[a], inTry[a]) <= Spares(pc[a], state[a], inTry[a])
    BY DEF Spares, Reported
  <1>5. EssentialRow(a, "shutdown", state[a], stopped[a])
    BY DEF EssentialRow
  <1> QED BY <1>1, <1>2, <1>3, <1>4, <1>5, MovedStep

\* The supervisor restarts the actor, or broadcasts a restart: the budget is charged.
LEMMA Charge ==
    ASSUME NEW a \in Actors, NEW q, NEW rc, NEW bc, SupInv, pc[a] = "apply",
           q \in {"close", "broadcast"}, rc \in Nat, bc \in Nat,
           RowIs(a, q, state[a], stopped[a], frames[a], rc, bc, taken[a], inTry[a], failures[a],
                 reopened[a]),
           Steady, ~crashed, crashed' = FALSE, UNCHANGED <<inbox, msg>>,
           Quiet => q # "broadcast",
           changes = 0 => /\ UsedBy(a) < scenario.maxRestarts
                          /\ scenario.strategy # "None"
                          /\ Used(rc, bc) = UsedBy(a) + 1
    PROVE  SupInv'
  <1>1. /\ RowTypes /\ phase \in {"up", "draining"} /\ state[a] \in ActorStates
        /\ stopped[a] \in BOOLEAN /\ frames[a] \in Seq(Policies) /\ frames[a] # <<>>
        /\ UsedBy(a) \in Nat /\ taken[a] \in Nat /\ inTry[a] \in BOOLEAN
        /\ failures[a] \in Nat /\ reopened[a] \in Nat
        /\ RowInv(pc[a], state[a], stopped[a], frames[a], UsedBy(a), taken[a], inTry[a],
                  failures[a], reopened[a])
        /\ scenario.maxRestarts \in Nat /\ Snapshots(frames[a])
        /\ Quiet => ~inTry[a] /\ ~stopped[a]
    BY OfOne, Running, ScenarioFacts, InRestart, PolicyFacts
  <1>2. PICK u \in Nat : u = Used(rc, bc)
    BY DEF Used
  <1>3. /\ q \in Pcs /\ q \notin Reported /\ "apply" \in Reported /\ q \in MayOpen
        /\ "apply" \in MayOpen /\ q # "idle" /\ q # "shutdown"
    BY DEF Pcs, Reported, MayOpen
  <1>4. InProgress(q, frames[a]) /\ InBatch(q, taken[a]) /\ WithinBudget(q, u)
    BY <1>1, <1>2, <1>3 DEF RowInv, InProgress, InBatch, WithinBudget
  <1>5. Reopenings(q, stopped[a], taken[a], reopened[a])
    BY <1>1, <1>3 DEF RowInv, Reopenings
  <1>6. QuietRow(q, stopped[a], u, inTry[a], failures[a], reopened[a])
    BY <1>1, <1>2, <1>3 DEF RowInv, QuietRow, Quiet
  <1>7. LateRow(q, state[a], stopped[a], u, taken[a], inTry[a], failures[a])
    <2>1. LateRow("apply", state[a], stopped[a], UsedBy(a), taken[a], inTry[a], failures[a])
      BY <1>1 DEF RowInv
    <2> QED BY <1>1, <1>2, <1>3, <2>1 DEF LateRow
  <1>8. RowInv(q, state[a], stopped[a], frames[a], Used(rc, bc), taken[a], inTry[a],
               failures[a], reopened[a])
    BY <1>1, <1>2, <1>4, <1>5, <1>6, <1>7 DEF RowInv
  <1>9. EssentialRow(a, q, state[a], stopped[a])
    BY DEF EssentialRow
  <1>10. Mail'
    <2>1. pc' = [pc EXCEPT ![a] = q] /\ q # "handle"
      BY DEF RowIs
    <2> QED BY <1>3, <2>1, MailKept DEF Steady
  <1> QED BY <1>1, <1>3, <1>8, <1>9, <1>10, RowStep

\* tryRestart
LEMMA ApplyOneForOneStep ==
    ASSUME SupInv, NEW a \in Actors, ApplyOneForOne(a)
    PROVE  SupInv'
  <1>1. /\ pc[a] = "apply" /\ Policy(a).strategy = "OneForOne"
        /\ ~crashed /\ crashed' = FALSE /\ Steady
        /\ UNCHANGED <<state, stopped, frames, broadcasts, taken, inTry, failures, reopened,
                       inbox, msg>>
    BY DEF ApplyOneForOne, Steady, policyVars, statVars, mainVars, boundVars, SupInv, WholeTypes
  <1>2. /\ RowTypes /\ restartCount[a] \in Nat /\ broadcasts[a] \in Nat
        /\ changes = 0 => /\ scenario.strategy = "OneForOne"
                          /\ Policy(a).limit = scenario.maxRestarts
                          /\ UsedBy(a) = restartCount[a]
    BY <1>1, OfOne, PolicyFacts DEF UsedBy, Used
  <1>3. CASE /\ restartCount[a] < Policy(a).limit
             /\ restartCount' = [restartCount EXCEPT ![a] = @ + 1]
             /\ pc' = [pc EXCEPT ![a] = "close"]
    <2>1. PICK rc \in Nat : rc = restartCount[a] + 1
      BY <1>2
    <2>2. RowIs(a, "close", state[a], stopped[a], frames[a], rc, broadcasts[a], taken[a],
                inTry[a], failures[a], reopened[a])
      BY <1>1, <1>2, <1>3, <2>1, Unmoved DEF RowIs
    <2>3. changes = 0 => /\ UsedBy(a) < scenario.maxRestarts /\ scenario.strategy # "None"
                         /\ Used(rc, broadcasts[a]) = UsedBy(a) + 1
      BY <1>2, <1>3, <2>1 DEF Used
    <2>4. "close" \in {"close", "broadcast"} /\ "close" # "broadcast"
      OBVIOUS
    <2> QED BY <1>1, <1>2, <2>1, <2>2, <2>3, <2>4, Charge
  <1>4. CASE /\ restartCount[a] >= Policy(a).limit /\ pc' = [pc EXCEPT ![a] = "shutdown"]
             /\ UNCHANGED restartCount
    <2>1. changes = 0 => Spent(UsedBy(a))
      BY <1>2, <1>4 DEF Spent
    <2> QED BY <1>1, <1>4, <2>1, GiveUp
  <1> QED BY <1>3, <1>4 DEF ApplyOneForOne, Goto

\* The budget of broadcasts.
LEMMA ApplyOneForAllStep ==
    ASSUME SupInv, NEW a \in Actors, ApplyOneForAll(a)
    PROVE  SupInv'
  <1>1. /\ pc[a] = "apply" /\ Policy(a).strategy = "OneForAll"
        /\ ~crashed /\ crashed' = FALSE /\ Steady
        /\ UNCHANGED <<state, stopped, frames, restartCount, taken, inTry, failures, reopened,
                       inbox, msg>>
    BY DEF ApplyOneForAll, Steady, actorVars, statVars, mainVars, boundVars, SupInv, WholeTypes
  <1>2. /\ RowTypes /\ restartCount[a] \in Nat /\ broadcasts[a] \in Nat
        /\ changes = 0 => /\ scenario.strategy = "OneForAll"
                          /\ Policy(a).limit = scenario.maxRestarts
                          /\ UsedBy(a) = broadcasts[a]
    BY <1>1, OfOne, PolicyFacts DEF UsedBy, Used
  <1>3. CASE /\ broadcasts[a] < Policy(a).limit
             /\ broadcasts' = [broadcasts EXCEPT ![a] = @ + 1]
             /\ pc' = [pc EXCEPT ![a] = "broadcast"]
    <2>1. PICK bc \in Nat : bc = broadcasts[a] + 1
      BY <1>2
    <2>2. RowIs(a, "broadcast", state[a], stopped[a], frames[a], restartCount[a], bc, taken[a],
                inTry[a], failures[a], reopened[a])
      BY <1>1, <1>2, <1>3, <2>1, Unmoved DEF RowIs
    <2>3. changes = 0 => /\ UsedBy(a) < scenario.maxRestarts /\ scenario.strategy # "None"
                         /\ Used(restartCount[a], bc) = UsedBy(a) + 1
      BY <1>2, <1>3, <2>1 DEF Used
    <2>4. ~Quiet
      BY <1>2 DEF Quiet
    <2> QED BY <1>1, <1>2, <2>1, <2>2, <2>3, <2>4, Charge
  <1>4. CASE /\ broadcasts[a] >= Policy(a).limit /\ pc' = [pc EXCEPT ![a] = "shutdown"]
             /\ UNCHANGED broadcasts
    <2>1. changes = 0 => Spent(UsedBy(a))
      BY <1>2, <1>4 DEF Spent
    <2> QED BY <1>1, <1>4, <2>1, GiveUp
  <1> QED BY <1>3, <1>4 DEF ApplyOneForAll, Goto

\* Without a strategy a failure is the last.
LEMMA ApplyNoneStep ==
    ASSUME SupInv, NEW a \in Actors, ApplyNone(a)
    PROVE  SupInv'
  <1>1. /\ pc[a] = "apply" /\ Policy(a).strategy = "None"
        /\ pc' = [pc EXCEPT ![a] = "shutdown"]
        /\ ~crashed /\ crashed' = FALSE /\ Steady
        /\ UNCHANGED <<state, stopped, frames, restartCount, broadcasts, taken, inTry, failures,
                       reopened, inbox, msg>>
    BY DEF ApplyNone, Goto, Steady, actorVars, policyVars, statVars, mainVars, boundVars, SupInv,
           WholeTypes
  <1>2. changes = 0 => Spent(UsedBy(a))
    BY <1>1, PolicyFacts DEF Spent
  <1> QED BY <1>1, <1>2, GiveUp

\* A step that moves none of what the invariant says of the rows.
LEMMA NothingMoves ==
    ASSUME SupInv, Steady, UNCHANGED crashed, Mail',
           UNCHANGED <<pc, state, stopped, frames, restartCount, broadcasts, taken, inTry,
                       failures, reopened>>
    PROVE  SupInv'
  <1>1. RowTypes' /\ WholeTypes' /\ IdlePhases' /\ ClosedSoFar' /\ PolicyFixed' /\ OpenedSoFar'
    BY DEF SupInv, RowTypes, WholeTypes, IdlePhases, ClosedSoFar, PolicyFixed, OpenedSoFar,
           Promised, Steady
  <1>2. ASSUME NEW b \in Actors PROVE Local(b)'
    BY DEF SupInv, Local, RowInv, InProgress, Snapshots, ScenarioPolicy, WithinBudget, InBatch,
           Reopenings, QuietRow, LateRow, Spares, Excess, EssentialRow, UsedBy, Used, Spent,
           CloseThrows, Quiet, Promised, Steady
  <1>3. QuietStop'
    BY DEF SupInv, QuietStop, Quiet, Steady
  <1> QED BY <1>1, <1>2, <1>3 DEF SupInv

\* restartAll_ puts a request in a mailbox.
LEMMA BroadcastStep ==
    ASSUME SupInv, NEW a \in Actors, NEW b \in Actors, Broadcast(a, b)
    PROVE  SupInv'
  <1>1. /\ pc[a] = "broadcast" /\ ~crashed /\ Steady
        /\ UNCHANGED crashed
        /\ UNCHANGED <<pc, state, stopped, frames, restartCount, broadcasts, taken, inTry,
                       failures, reopened>>
        /\ inbox' = [inbox EXCEPT ![b] = Delivered(inbox[b], "restart")] /\ UNCHANGED msg
    BY DEF Broadcast, Steady, policyVars, statVars, mainVars, boundVars
  <1>2. ~Quiet'
    <2>1. ~Quiet
      BY <1>1, InRestart
    <2> QED BY <1>1, <2>1 DEF Quiet, Steady
  <1>3. inbox[b] \in Seq(Messages) /\ "restart" \in Messages
    BY DEF SupInv, Mail, Messages
  <1>4. Delivered(inbox[b], "restart") \in Seq(Messages)
    BY <1>3 DEF Delivered
  <1>5. Mail'
    BY <1>1, <1>2, <1>4 DEF SupInv, Mail
  <1> QED BY <1>1, <1>5, NothingMoves

\* onActorFailed returns after a broadcast or a restart.
LEMMA LeaveStep ==
    ASSUME SupInv, NEW a \in Actors, BroadcastDone(a) \/ RestartReturn(a)
    PROVE  SupInv'
  <1>1. /\ pc[a] \in {"broadcast", "return"} /\ (pc[a] = "return" => frames[a] # <<>>)
        /\ ~crashed /\ crashed' = FALSE /\ Steady
        /\ UNCHANGED <<state, stopped, restartCount, broadcasts, taken, inTry, failures,
                       reopened, inbox, msg>>
        /\ frames' = [frames EXCEPT ![a] = SubSeq(frames[a], 1, Len(frames[a]) - 1)]
        /\ pc' = [pc EXCEPT ![a] = "return"]
    BY OfOne DEF BroadcastDone, RestartReturn, Leave, Goto, Steady, actorVars, policyVars,
                 mainVars, boundVars, WholeTypes, RowTypes
  <1>2. /\ RowTypes /\ frames[a] \in Seq(Policies) /\ frames[a] # <<>>
        /\ state[a] \in ActorStates /\ stopped[a] \in BOOLEAN /\ inTry[a] \in BOOLEAN
        /\ reopened[a] \in Nat /\ Snapshots(frames[a])
        /\ EssentialRow(a, pc[a], state[a], stopped[a])
        /\ Quiet => pc[a] # "broadcast" /\ (pc[a] = "return" => ~inTry[a])
    BY <1>1, OfOne, InRestart
  <1>3. PICK f \in Seq(Policies) :
           /\ f = SubSeq(frames[a], 1, Len(frames[a]) - 1)
           /\ \A i \in 1 .. Len(f) : i \in 1 .. Len(frames[a]) /\ f[i] = frames[a][i]
    BY <1>2, FramesPopped
  <1>4. RowIs(a, "return", state[a], stopped[a], f, restartCount[a], broadcasts[a], taken[a],
              inTry[a], failures[a], reopened[a])
    BY <1>1, <1>2, <1>3, Unmoved DEF RowIs
  <1>5. Snapshots(f)
    BY <1>2, <1>3 DEF Snapshots
  <1>6. /\ "return" \in Pcs \ {"idle", "handle", "broadcast"} /\ "return" \notin Reported
        /\ "return" \notin MayOpen /\ pc[a] \notin Reported /\ pc[a] # "idle"
    BY <1>1 DEF Pcs, Reported, MayOpen
  <1>7. Spares("return", state[a], inTry[a]) <= Spares(pc[a], state[a], inTry[a])
    BY <1>1 DEF Spares, Reported
  <1>8. EssentialRow(a, "return", state[a], stopped[a])
    <2>1. CASE pc[a] = "return"
      BY <1>2, <2>1
    <2>2. CASE pc[a] = "broadcast"
      <3>1. ~Quiet
        BY <1>2, <2>2
      <3>2. ~Promised
        BY <3>1 DEF Promised, Quiet
      <3> QED BY <3>2 DEF EssentialRow
    <2> QED BY <1>1, <2>1, <2>2
  <1> QED BY <1>1, <1>2, <1>3, <1>4, <1>5, <1>6, <1>7, <1>8, MovedStep

\* ActorRuntime::shutdown returns.
LEMMA ShutdownReturns ==
    ASSUME NEW a \in Actors, NEW st, NEW f, SupInv, pc[a] = "shutdown", ~crashed,
           st \in ActorStates, st # "Opened", f \in Seq(Policies), Snapshots(f),
           RowIs(a, "return", st, TRUE, f, restartCount[a], broadcasts[a], taken[a], inTry[a],
                 failures[a], reopened[a]),
           Steady, crashed' = FALSE, UNCHANGED <<inbox, msg>>
    PROVE  SupInv'
  <1>0. PICK yes \in BOOLEAN : yes = TRUE
    OBVIOUS
  <1>1. /\ RowTypes /\ phase \in {"up", "draining"} /\ stopped[a] \in BOOLEAN
        /\ restartCount[a] \in Nat /\ broadcasts[a] \in Nat
        /\ UsedBy(a) \in Nat /\ taken[a] \in Nat /\ inTry[a] \in BOOLEAN
        /\ failures[a] \in Nat /\ reopened[a] \in Nat
        /\ RowInv("shutdown", state[a], stopped[a], frames[a], UsedBy(a), taken[a], inTry[a],
                  failures[a], reopened[a])
        /\ scenario.maxRestarts \in Nat /\ MaxBatch \in Nat \ {0}
        /\ changes = 0 => Spent(UsedBy(a)) /\ UsedBy(a) <= scenario.maxRestarts
        /\ Quiet => ~inTry[a] /\ ~stopped[a]
    BY OfOne, Running, ScenarioFacts, ConstantFacts, InRestart DEF Reported
  <1>2. RowIs(a, "return", st, yes, f, restartCount[a], broadcasts[a], taken[a], inTry[a],
              failures[a], reopened[a])
    BY <1>0
  <1>3. /\ "return" \in Pcs /\ "return" \notin Reported /\ "shutdown" \in Reported
        /\ "return" \notin MayOpen /\ "shutdown" \in MayOpen
    BY DEF Pcs, Reported, MayOpen
  <1>4. /\ InProgress("return", f) /\ InBatch("return", taken[a])
        /\ WithinBudget("return", UsedBy(a)) /\ taken[a] >= 1
    BY <1>1, <1>3 DEF RowInv, InProgress, InBatch, WithinBudget
  <1>5. Reopenings("return", yes, taken[a], reopened[a])
    BY <1>0, <1>1, <1>3, <1>4 DEF RowInv, Reopenings
  <1>6. QuietRow("return", yes, UsedBy(a), inTry[a], failures[a], reopened[a])
    BY <1>0, <1>1, <1>3 DEF RowInv, QuietRow
  <1>7. LateRow("return", st, yes, UsedBy(a), taken[a], inTry[a], failures[a])
    <2> SUFFICES ASSUME changes = 0, scenario.strategy = "OneForAll", ~CloseThrows
                 PROVE  /\ UsedBy(a) >= scenario.maxRestarts
                        /\ Excess(failures[a]) + Spares("return", st, inTry[a]) <= taken[a]
      BY <1>0 DEF LateRow
    <2>1. LateRow("shutdown", state[a], stopped[a], UsedBy(a), taken[a], inTry[a], failures[a])
      BY <1>1 DEF RowInv
    <2>2. /\ Spares("return", st, inTry[a]) = Spares("shutdown", state[a], inTry[a])
          /\ Spares("return", st, inTry[a]) \in {0, 1}
      BY <1>1 DEF Spares, Reported
    <2>3. Excess(failures[a]) \in Int
      BY <1>1, OfOne, ExcessFacts
    <2>4. UsedBy(a) >= scenario.maxRestarts
      BY <1>1 DEF Spent
    <2>5. CASE ~stopped[a]
      <3>1. failures[a] <= scenario.maxRestarts + 1
        BY <1>1, <1>3, <2>1, <2>5 DEF LateRow
      <3>2. Excess(failures[a]) <= 0
        BY <1>1, <3>1, OfOne, ExcessFacts
      <3> QED BY <1>1, <1>4, <2>2, <2>3, <2>4, <3>2
    <2>6. CASE stopped[a]
      <3>1. Excess(failures[a]) + Spares("shutdown", state[a], inTry[a]) <= taken[a]
        BY <2>1, <2>6 DEF LateRow
      <3> QED BY <2>2, <2>4, <3>1
    <2> QED BY <1>1, <2>5, <2>6
  <1>8. RowInv("return", st, yes, f, Used(restartCount[a], broadcasts[a]), taken[a], inTry[a],
               failures[a], reopened[a])
    BY <1>4, <1>5, <1>6, <1>7 DEF RowInv, UsedBy
  <1>9. EssentialRow(a, "return", st, yes)
    BY <1>0 DEF EssentialRow
  <1>10. Mail'
    <2>1. pc' = [pc EXCEPT ![a] = "return"] /\ "return" # "handle"
      BY DEF RowIs
    <2> QED BY <1>3, <2>1, MailKept DEF Steady
  <1>11. crashed' \in BOOLEAN /\ "return" # "shutdown"
    OBVIOUS
  <1> QED BY <1>0, <1>1, <1>2, <1>3, <1>8, <1>9, <1>10, <1>11, RowStep

\* ActorRuntime::shutdown throws: into processBatch, or out of the thread.
LEMMA ShutdownThrows ==
    ASSUME NEW a \in Actors, NEW q, NEW st, NEW f, NEW it, SupInv, pc[a] = "shutdown", ~crashed,
           CloseThrows, st \in ActorStates, it \in BOOLEAN, f \in Seq(Policies), Snapshots(f),
           \/ q = "report" /\ inTry[a] /\ ~it /\ crashed' = FALSE
           \/ q = "shutdown" /\ it = inTry[a] /\ f # <<>> /\ crashed' = TRUE,
           RowIs(a, q, st, TRUE, f, restartCount[a], broadcasts[a], taken[a], it, failures[a],
                 reopened[a]),
           Steady, UNCHANGED <<inbox, msg>>
    PROVE  SupInv'
  <1>0. PICK yes \in BOOLEAN : yes = TRUE
    OBVIOUS
  <1>1. /\ RowTypes /\ phase \in {"up", "draining"} /\ stopped[a] \in BOOLEAN
        /\ restartCount[a] \in Nat /\ broadcasts[a] \in Nat
        /\ UsedBy(a) \in Nat /\ taken[a] \in Nat /\ inTry[a] \in BOOLEAN
        /\ failures[a] \in Nat /\ reopened[a] \in Nat
        /\ RowInv("shutdown", state[a], stopped[a], frames[a], UsedBy(a), taken[a], inTry[a],
                  failures[a], reopened[a])
        /\ scenario.maxRestarts \in Nat /\ MaxBatch \in Nat \ {0}
        /\ changes = 0 => Spent(UsedBy(a)) /\ UsedBy(a) <= scenario.maxRestarts
        /\ Quiet => ~inTry[a] /\ ~stopped[a]
    BY OfOne, Running, ScenarioFacts, ConstantFacts, InRestart DEF Reported
  <1>2. RowIs(a, q, st, yes, f, restartCount[a], broadcasts[a], taken[a], it, failures[a],
              reopened[a])
    BY <1>0
  <1>3. /\ q \in Pcs /\ "report" \notin Reported /\ "shutdown" \in Reported
        /\ q \in MayOpen /\ "shutdown" \in MayOpen /\ q \notin {"idle", "handle", "broadcast"}
    BY DEF Pcs, Reported, MayOpen
  <1>4. /\ InProgress(q, f) /\ InBatch(q, taken[a])
        /\ WithinBudget(q, UsedBy(a)) /\ taken[a] >= 1
    BY <1>1, <1>3 DEF RowInv, InProgress, InBatch, WithinBudget
  <1>5. Reopenings(q, yes, taken[a], reopened[a])
    <2>1. Reopenings("shutdown", stopped[a], taken[a], reopened[a])
      BY <1>1 DEF RowInv
    <2>2. reopened[a] <= taken[a] - 1
      <3>1. CASE stopped[a]
        BY <1>1, <1>3, <2>1, <3>1 DEF Reopenings
      <3>2. CASE ~stopped[a]
        BY <1>1, <1>4, <2>1, <3>2 DEF Reopenings
      <3> QED BY <1>1, <3>1, <3>2
    <2> QED BY <1>0, <1>1, <1>3, <2>2 DEF Reopenings
  <1>6. QuietRow(q, yes, UsedBy(a), it, failures[a], reopened[a])
    BY <1>0, <1>1, <1>3 DEF RowInv, QuietRow
  <1>7. LateRow(q, st, yes, UsedBy(a), taken[a], it, failures[a])
    BY DEF LateRow
  <1>8. RowInv(q, st, yes, f, Used(restartCount[a], broadcasts[a]), taken[a], it, failures[a],
               reopened[a])
    BY <1>4, <1>5, <1>6, <1>7 DEF RowInv, UsedBy
  <1>9. EssentialRow(a, q, st, yes)
    BY <1>0 DEF EssentialRow
  <1>10. Mail'
    <2>1. pc' = [pc EXCEPT ![a] = q]
      BY DEF RowIs
    <2> QED BY <1>3, <2>1, MailKept DEF Steady
  <1>11. crashed' \in BOOLEAN /\ (Quiet /\ q = "shutdown" => crashed')
    BY <1>1
  <1> QED BY <1>0, <1>1, <1>2, <1>3, <1>8, <1>9, <1>10, <1>11, RowStep

LEMMA ShutdownStep ==
    ASSUME SupInv, NEW a \in Actors, Shutdown(a)
    PROVE  SupInv'
  <1>1. /\ pc[a] = "shutdown" /\ ~crashed /\ crashed \in BOOLEAN /\ Steady
        /\ UNCHANGED <<restartCount, broadcasts, taken, failures, reopened, inbox>>
        /\ stopped' = [stopped EXCEPT ![a] = TRUE]
    BY DEF Shutdown, Steady, policyVars, statVars, boundVars, SupInv, WholeTypes
  <1>2. /\ RowTypes /\ frames[a] \in Seq(Policies) /\ frames[a] # <<>> /\ inTry[a] \in BOOLEAN
        /\ Snapshots(frames[a])
    BY <1>1, OfOne, InRestart DEF Reported
  <1>3. PICK o \in CloseOutcomes(a) :
           /\ state' = [state EXCEPT ![a] = o[1]]
           /\ \/ ~o[2] /\ Leave(a) /\ UNCHANGED <<msg, inTry, crashed>>
              \/ /\ o[2] /\ inTry[a]
                 /\ Caught(a)
                 /\ frames' = [frames EXCEPT ![a] = <<>>]
                 /\ UNCHANGED crashed
              \/ o[2] /\ ~inTry[a] /\ crashed' = TRUE /\ UNCHANGED <<pc, msg, inTry, frames>>
    BY DEF Shutdown
  <1>4. PICK st \in ActorStates : st = o[1] /\ st # "Opened"
    BY CloseOutcomesFacts
  <1>5. o[2] => CloseThrows
    BY CloseOutcomesFacts
  <1>6. CASE ~o[2] /\ Leave(a) /\ UNCHANGED <<msg, inTry, crashed>>
    <2>1. PICK f \in Seq(Policies) :
             /\ f = SubSeq(frames[a], 1, Len(frames[a]) - 1)
             /\ \A i \in 1 .. Len(f) : i \in 1 .. Len(frames[a]) /\ f[i] = frames[a][i]
      BY <1>2, FramesPopped
    <2>2. frames' = [frames EXCEPT ![a] = f] /\ pc' = [pc EXCEPT ![a] = "return"]
      BY <1>2, <1>6, <2>1 DEF Leave, Goto, RowTypes
    <2>3. RowIs(a, "return", st, TRUE, f, restartCount[a], broadcasts[a], taken[a], inTry[a],
                failures[a], reopened[a])
      BY <1>1, <1>2, <1>3, <1>4, <1>6, <2>2, Unmoved DEF RowIs
    <2>4. Snapshots(f)
      BY <1>2, <2>1 DEF Snapshots
    <2>5. crashed' = FALSE /\ UNCHANGED <<inbox, msg>>
      BY <1>1, <1>6
    <2> QED BY <1>1, <1>4, <2>1, <2>3, <2>4, <2>5, ShutdownReturns
  <1>7. CASE /\ o[2] /\ inTry[a] /\ Caught(a)
             /\ frames' = [frames EXCEPT ![a] = <<>>]
             /\ UNCHANGED crashed
    <2>0. <<>> \in Seq(Policies) /\ Len(<<>>) = 0
      OBVIOUS
    <2>1. PICK f \in Seq(Policies) : f = <<>> /\ Len(f) = 0
      BY <2>0
    <2>2. PICK no \in BOOLEAN : no = FALSE
      OBVIOUS
    <2>3. RowIs(a, "report", st, TRUE, f, restartCount[a], broadcasts[a], taken[a], no,
                failures[a], reopened[a])
      BY <1>1, <1>2, <1>3, <1>4, <1>7, <2>1, <2>2, Unmoved DEF RowIs, Caught, Goto
    <2>4. Snapshots(f)
      BY <2>1 DEF Snapshots
    <2>5. crashed' = FALSE /\ UNCHANGED <<inbox, msg>> /\ ~no /\ inTry[a]
      BY <1>1, <1>7, <2>2 DEF Caught
    <2> QED BY <1>1, <1>4, <1>5, <1>7, <2>1, <2>2, <2>3, <2>4, <2>5, ShutdownThrows
  <1>8. CASE o[2] /\ crashed' = TRUE /\ UNCHANGED <<pc, msg, inTry, frames>>
    <2>1. RowIs(a, "shutdown", st, TRUE, frames[a], restartCount[a], broadcasts[a], taken[a],
                inTry[a], failures[a], reopened[a])
      BY <1>1, <1>2, <1>3, <1>4, <1>8, Unmoved DEF RowIs
    <2>2. crashed' = TRUE /\ UNCHANGED <<inbox, msg>>
      BY <1>1, <1>8
    <2> QED BY <1>1, <1>2, <1>4, <1>5, <1>8, <2>1, <2>2, ShutdownThrows
  <1> QED BY <1>3, <1>6, <1>7, <1>8

\* performRestart, and processBatch after it.
LEMMA RestartStep ==
    ASSUME SupInv, NEW a \in Actors,
           RestartClose(a) \/ RestartOpen(a) \/ (BatchReturn(a) /\ inTry[a])
    PROVE  SupInv'
  <1>1. /\ pc[a] \in {"close", "open", "return"} /\ ~crashed /\ crashed' = FALSE /\ Steady
        /\ UNCHANGED <<stopped, frames, restartCount, broadcasts, taken, failures, inbox>>
    BY DEF RestartClose, RestartOpen, BatchReturn, Steady, actorVars, policyVars, statVars,
           mainVars, boundVars, SupInv, WholeTypes
  <1>2. /\ RowTypes /\ state[a] \in ActorStates /\ stopped[a] \in BOOLEAN
        /\ inTry[a] \in BOOLEAN /\ frames[a] \in Seq(Policies) /\ reopened[a] \in Nat
        /\ Snapshots(frames[a]) /\ EssentialRow(a, pc[a], state[a], stopped[a])
        /\ pc[a] # "idle" /\ pc[a] \notin Reported
        /\ Quiet => ~inTry[a] /\ (pc[a] # "return" => ~stopped[a])
    BY <1>1, OfOne, InRestart DEF Reported
  <1>3. CASE BatchReturn(a) /\ inTry[a]
    <2>0. PICK no \in BOOLEAN : no = FALSE
      OBVIOUS
    <2>1. /\ pc[a] = "return" /\ pc' = [pc EXCEPT ![a] = "batch"] /\ UNCHANGED <<state, reopened>>
          /\ inTry' = [inTry EXCEPT ![a] = no] /\ msg' = [msg EXCEPT ![a] = NoMsg]
      BY <1>3, <2>0 DEF BatchReturn, Finish, Goto, actorVars, boundVars
    <2>2. RowIs(a, "batch", state[a], stopped[a], frames[a], restartCount[a], broadcasts[a],
                taken[a], no, failures[a], reopened[a])
      BY <1>1, <1>2, <2>1, Unmoved DEF RowIs
    <2>3. /\ "batch" \in Pcs \ {"idle", "handle", "broadcast"} /\ "batch" \notin Reported
          /\ "batch" \notin MayOpen /\ ~Quiet
      BY <1>2, <1>3 DEF Pcs, Reported, MayOpen
    <2>4. Spares("batch", state[a], no) <= Spares(pc[a], state[a], inTry[a])
      BY <1>3, <2>1 DEF Spares, Reported
    <2>5. EssentialRow(a, "batch", state[a], stopped[a])
      BY <1>2, <2>1 DEF EssentialRow
    <2> QED BY <1>1, <1>2, <2>0, <2>1, <2>2, <2>3, <2>4, <2>5, MovedStep
  <1>4. CASE RestartClose(a)
    <2>1. pc[a] = "close" /\ UNCHANGED <<inTry, msg, reopened>>
      BY <1>4 DEF RestartClose, boundVars
    <2>2. PICK o \in CloseOutcomes(a) :
             /\ state' = [state EXCEPT ![a] = o[1]]
             /\ pc' = [pc EXCEPT ![a] = IF o[2] THEN "return" ELSE "open"]
      BY <1>4 DEF RestartClose, Goto
    <2>3. o[2] \in BOOLEAN /\ (o[2] => CloseThrows)
      BY CloseOutcomesFacts
    <2>4. PICK st \in ActorStates : st = o[1] /\ st # "Opened"
      BY CloseOutcomesFacts
    <2>5. PICK q \in {"return", "open"} :
             pc' = [pc EXCEPT ![a] = q] /\ (q = "return" => CloseThrows)
      BY <2>2, <2>3
    <2>6. Promised => ~CloseThrows
      <3>1. "close throws" \notin {"open throws"}
        OBVIOUS
      <3> QED BY <3>1, Zenon DEF Promised, CloseThrows
    <2>7. RowIs(a, q, st, stopped[a], frames[a], restartCount[a], broadcasts[a], taken[a],
                inTry[a], failures[a], reopened[a])
      BY <1>1, <1>2, <2>1, <2>2, <2>4, <2>5, Unmoved DEF RowIs
    <2>8. /\ q \in Pcs \ {"idle", "handle", "broadcast"} /\ q \notin Reported
          /\ pc[a] \in MayOpen /\ q # "shutdown"
      BY <2>1, <2>5 DEF Pcs, Reported, MayOpen
    <2>9. Spares(q, st, inTry[a]) <= Spares(pc[a], state[a], inTry[a])
      BY <2>1, <2>5 DEF Spares, Reported
    <2>10. EssentialRow(a, q, st, stopped[a])
      BY <2>5, <2>6 DEF EssentialRow
    <2>11. Quiet => ~inTry[a] /\ ~stopped[a]
      BY <1>2, <2>1
    <2> QED BY <1>1, <1>2, <2>1, <2>4, <2>7, <2>8, <2>9, <2>10, <2>11, MovedStep
  <1>5. CASE RestartOpen(a)
    <2>1. pc[a] = "open" /\ UNCHANGED <<inTry, msg>>
      BY <1>5 DEF RestartOpen
    <2>2. PICK o \in OpenOutcomes :
             Becomes(a, o[1]) /\ pc' = [pc EXCEPT ![a] = IF o[2] THEN "report" ELSE "return"]
      BY <1>5 DEF RestartOpen, Goto
    <2>3. PICK st, r : /\ st = o[1]
                       /\ r = IF stopped[a] /\ st = "Opened" THEN Count(reopened[a], 1)
                              ELSE reopened[a]
      OBVIOUS
    <2>4. /\ state' = [state EXCEPT ![a] = st] /\ reopened' = [reopened EXCEPT ![a] = r]
          /\ st \in ActorStates /\ r \in Nat
          /\ o[2] \in BOOLEAN /\ (o[2] => st # "Opened")
          /\ ~o[2] /\ Promised => st = "Opened"
      BY <1>2, <2>2, <2>3, OpenOutcomesFacts, CountFacts DEF Becomes, Promised
    <2>5. PICK q \in {"return", "report"} :
             q = (IF o[2] THEN "report" ELSE "return") /\ pc' = [pc EXCEPT ![a] = q]
      BY <2>2, <2>4
    <2>6. RowIs(a, q, st, stopped[a], frames[a], restartCount[a], broadcasts[a], taken[a],
                inTry[a], failures[a], r)
      BY <1>1, <1>2, <2>1, <2>4, <2>5, Unmoved DEF RowIs
    <2>7. /\ q \in Pcs \ {"idle", "handle", "broadcast"} /\ q \notin Reported
          /\ pc[a] \in MayOpen /\ q # "shutdown" /\ "return" \notin MayOpen
      BY <2>1, <2>5 DEF Pcs, Reported, MayOpen
    <2>8. Spares(q, st, inTry[a]) <= Spares(pc[a], state[a], inTry[a])
      BY <2>1, <2>5 DEF Spares, Reported
    <2>9. EssentialRow(a, q, st, stopped[a])
      BY <2>4, <2>5 DEF EssentialRow
    <2>10. Quiet => ~inTry[a] /\ ~stopped[a]
      BY <1>2, <2>1
    <2>11. r = reopened[a] \/ (stopped[a] /\ q = "return" /\ r <= reopened[a] + 1 /\ ~Quiet)
      BY <1>2, <2>3, <2>4, <2>5, <2>10, CountFacts
    <2>12. \/ r = reopened[a]
           \/ stopped[a] /\ r <= reopened[a] + 1 /\ ~Quiet /\ pc[a] \in MayOpen /\ q \notin MayOpen
      BY <2>7, <2>11
    <2> QED BY <1>1, <1>2, <2>1, <2>4, <2>6, <2>7, <2>8, <2>9, <2>10, <2>12, MovedStep
  <1> QED BY <1>3, <1>4, <1>5

\* Whatever a worker does keeps the invariant.
LEMMA ActorStepKeeps ==
    ASSUME SupInv, NEW a \in Actors, ActorStep(a)
    PROVE  SupInv'
  BY TakeStep, EndBatchStep, HandleWorkStep, EnableStep, DisableStep, RestartRequestStep,
     ReportStep, LetterStep, ApplyOneForOneStep, ApplyOneForAllStep, ApplyNoneStep,
     BroadcastStep, LeaveStep, ShutdownStep, RestartStep DEF ActorStep

-----------------------------------------------------------------------------
(* The outside, and ActorSystem::start and stop                            *)

\* A policy setter: from now on the scenario's policy promises nothing.
LEMMA PolicyChange ==
    ASSUME SupInv, changes' = changes + 1,
           UNCHANGED <<pc, state, stopped, frames, restartCount, taken, inTry, failures,
                       reopened, inbox, msg>>,
           UNCHANGED <<scenario, phase, opened, crashed>>,
           broadcasts' \in [Actors -> Nat], strategy' \in Kinds, limit' \in Nat,
           override' \in [Actors -> Kinds \cup {"unset"}]
    PROVE  SupInv'
  <1>1. changes' # 0 /\ changes' \in Nat
    BY DEF SupInv, WholeTypes
  <1>2. RowTypes' /\ WholeTypes'
    BY <1>1 DEF SupInv, RowTypes, WholeTypes
  <1>3. ~Promised' /\ ~Quiet' /\ PolicyFixed' /\ OpenedSoFar' /\ QuietStop'
    BY <1>1 DEF Promised, Quiet, PolicyFixed, OpenedSoFar, QuietStop
  <1>4. IdlePhases' /\ ClosedSoFar'
    BY DEF SupInv, IdlePhases, ClosedSoFar
  <1>5. Mail'
    BY <1>3 DEF SupInv, Mail
  <1>6. ASSUME NEW b \in Actors PROVE Local(b)'
    <2>1. /\ InProgress(pc[b], frames[b]) /\ InBatch(pc[b], taken[b])
          /\ Reopenings(pc[b], stopped[b], taken[b], reopened[b])
      BY OfOne DEF RowInv
    <2>2. /\ InProgress(pc[b], frames[b])' /\ InBatch(pc[b], taken[b])'
          /\ Reopenings(pc[b], stopped[b], taken[b], reopened[b])'
      BY <2>1 DEF InProgress, InBatch, Reopenings, CloseThrows
    <2>3. /\ Snapshots(frames[b])' /\ WithinBudget(pc[b], UsedBy(b))'
          /\ QuietRow(pc[b], stopped[b], UsedBy(b), inTry[b], failures[b], reopened[b])'
          /\ LateRow(pc[b], state[b], stopped[b], UsedBy(b), taken[b], inTry[b], failures[b])'
          /\ EssentialRow(b, pc[b], state[b], stopped[b])'
      BY <1>1, <1>3 DEF Snapshots, WithinBudget, QuietRow, LateRow, EssentialRow
    <2> QED BY <2>2, <2>3 DEF Local, RowInv
  <1> QED BY <1>2, <1>3, <1>4, <1>5, <1>6 DEF SupInv

\* Producers and the callers of the setters.
LEMMA OutsideStep ==
    ASSUME SupInv, Outside
    PROVE  SupInv'
  <1>0. /\ RowTypes /\ strategy \in Kinds /\ limit \in Nat
        /\ override \in [Actors -> Kinds \cup {"unset"}] /\ broadcasts \in [Actors -> Nat]
    BY DEF SupInv, WholeTypes, RowTypes
  <1>1. ASSUME NEW a \in Actors, NEW m \in Asked, Send(a, m) PROVE SupInv'
    <2>1. /\ Steady /\ UNCHANGED crashed
          /\ UNCHANGED <<pc, state, stopped, frames, restartCount, broadcasts, taken, inTry,
                         failures, reopened, msg>>
          /\ inbox' = [inbox EXCEPT ![a] = Delivered(inbox[a], m)]
      BY <1>1 DEF Send, Steady, callVars, policyVars, statVars, mainVars
    <2>2. \A S : m \in S /\ inbox \in [Actors -> Seq(S)] => inbox' \in [Actors -> Seq(S)]
      <3> SUFFICES ASSUME NEW S, m \in S, inbox \in [Actors -> Seq(S)]
                   PROVE  inbox' \in [Actors -> Seq(S)]
        OBVIOUS
      <3>1. inbox[a] \in Seq(S)
        OBVIOUS
      <3>2. Delivered(inbox[a], m) \in Seq(S)
        BY <3>1 DEF Delivered
      <3> QED BY <2>1, <3>2
    <2>3. m \in Messages /\ (Quiet' <=> Quiet)
      BY <2>1 DEF Messages, Quiet, Steady
    <2>4. Mail'
      BY <2>1, <2>2, <2>3 DEF SupInv, Mail
    <2> QED BY <2>1, <2>4, NothingMoves
  <1>2. ASSUME NEW s \in Strategies, SetDefaultStrategy(s) PROVE SupInv'
    <2>1. /\ changes' = changes + 1 /\ strategy' = s
          /\ UNCHANGED <<pc, state, stopped, frames, restartCount, taken, inTry, failures,
                         reopened, inbox, msg>>
          /\ UNCHANGED <<scenario, phase, opened, crashed>>
          /\ UNCHANGED <<broadcasts, limit, override>>
      BY <1>2 DEF SetDefaultStrategy, actorVars, callVars, statVars, mainVars
    <2>2. strategy' \in Kinds
      BY <2>1, ConstantFacts
    <2> QED BY <1>0, <2>1, <2>2, PolicyChange
  <1>3. ASSUME NEW a \in Actors, NEW s \in Strategies, SetStrategy(a, s) PROVE SupInv'
    <2>1. /\ changes' = changes + 1
          /\ override' = [override EXCEPT ![a] = s]
          /\ UNCHANGED <<pc, state, stopped, frames, restartCount, taken, inTry, failures,
                         reopened, inbox, msg>>
          /\ UNCHANGED <<scenario, phase, opened, crashed>>
          /\ UNCHANGED <<broadcasts, limit, strategy>>
      BY <1>3 DEF SetStrategy, actorVars, callVars, statVars, mainVars
    <2>2. s \in Kinds \cup {"unset"}
      BY ConstantFacts
    <2>3. override' \in [Actors -> Kinds \cup {"unset"}]
      BY <1>0, <2>1, <2>2
    <2> QED BY <1>0, <2>1, <2>3, PolicyChange
  <1>4. ASSUME NEW a \in Actors, RemovePolicy(a) PROVE SupInv'
    <2>1. /\ changes' = changes + 1
          /\ override' = [override EXCEPT ![a] = "unset"]
          /\ broadcasts' = [broadcasts EXCEPT ![a] = 0]
          /\ UNCHANGED <<pc, state, stopped, frames, restartCount, taken, inTry, failures,
                         reopened, inbox, msg>>
          /\ UNCHANGED <<scenario, phase, opened, crashed>>
          /\ UNCHANGED <<limit, strategy>>
      BY <1>4 DEF RemovePolicy, actorVars, callVars, statVars, mainVars
    <2>2. override' \in [Actors -> Kinds \cup {"unset"}] /\ broadcasts' \in [Actors -> Nat]
      BY <1>0, <2>1
    <2> QED BY <1>0, <2>1, <2>2, PolicyChange
  <1>5. ASSUME NEW n \in Limits, SetMaxRestarts(n) PROVE SupInv'
    <2>1. /\ changes' = changes + 1 /\ limit' = n
          /\ UNCHANGED <<pc, state, stopped, frames, restartCount, taken, inTry, failures,
                         reopened, inbox, msg>>
          /\ UNCHANGED <<scenario, phase, opened, crashed>>
          /\ UNCHANGED <<broadcasts, strategy, override>>
      BY <1>5 DEF SetMaxRestarts, actorVars, callVars, statVars, mainVars
    <2>2. limit' \in Nat
      BY <2>1, ConstantFacts
    <2> QED BY <1>0, <2>1, <2>2, PolicyChange
  <1>6. ASSUME NEW a \in Actors, NEW m \in {"work", "enable", "disable"}, Send(a, m)
        PROVE  SupInv'
    BY <1>1, <1>6 DEF Asked
  <1> QED BY <1>2, <1>3, <1>4, <1>5, <1>6 DEF Outside

\* Whatever start() and stop() do to the whole, the rows are safe: no worker executes an
\* actor, or its state stays as it is.
LEMMA MainKeeps ==
    ASSUME SupInv, RowTypes', WholeTypes', IdlePhases', ClosedSoFar', OpenedSoFar',
           UNCHANGED <<pc, stopped, frames, restartCount, broadcasts, taken, inTry, failures,
                       reopened, inbox, msg>>,
           UNCHANGED <<strategy, override, limit, changes, scenario>>, crashed => crashed',
           \A b \in Actors :
               /\ EssentialRow(b, pc[b], state[b], stopped[b])'
               /\ pc[b] = "idle" \/ UNCHANGED state
    PROVE  SupInv'
  <1>1. PolicyFixed' /\ Mail' /\ QuietStop'
    BY DEF SupInv, PolicyFixed, Mail, QuietStop, Quiet
  <1>2. ASSUME NEW b \in Actors PROVE Local(b)'
    <2>1. RowInv(pc[b], state[b], stopped[b], frames[b], UsedBy(b), taken[b], inTry[b],
                 failures[b], reopened[b])
      BY OfOne
    <2>2. (CloseThrows' <=> CloseThrows) /\ (Quiet' <=> Quiet) /\ UsedBy(b)' = UsedBy(b)
          /\ ScenarioPolicy' = ScenarioPolicy
      BY DEF CloseThrows, Quiet, UsedBy, Used, ScenarioPolicy
    <2>3. /\ InProgress(pc[b], frames[b])' /\ Snapshots(frames[b])' /\ InBatch(pc[b], taken[b])'
          /\ Reopenings(pc[b], stopped[b], taken[b], reopened[b])'
      BY <2>1, <2>2 DEF RowInv, InProgress, Snapshots, InBatch, Reopenings
    <2>4. /\ WithinBudget(pc[b], UsedBy(b))'
          /\ QuietRow(pc[b], stopped[b], UsedBy(b), inTry[b], failures[b], reopened[b])'
      BY <2>1, <2>2 DEF RowInv, WithinBudget, Spent, QuietRow
    <2>5. LateRow(pc[b], state[b], stopped[b], UsedBy(b), taken[b], inTry[b], failures[b])'
      <3>1. Spares(pc[b], state[b], inTry[b])' = Spares(pc[b], state[b], inTry[b])
        BY DEF Spares, Reported
      <3> QED BY <2>1, <2>2, <3>1 DEF RowInv, LateRow, Excess
    <2>6. RowInv(pc[b], state[b], stopped[b], frames[b], UsedBy(b), taken[b], inTry[b],
                 failures[b], reopened[b])'
      BY <2>3, <2>4, <2>5 DEF RowInv
    <2> QED BY <2>6 DEF Local
  <1> QED BY <1>1, <1>2 DEF SupInv

\* ActorSystem::start and stop
LEMMA MainStepKeeps ==
    ASSUME SupInv, MainStep
    PROVE  SupInv'
  <1>0. RowTypes /\ WholeTypes /\ IdlePhases /\ ClosedSoFar /\ OpenedSoFar
    BY DEF SupInv
  <1>1. ASSUME NEW a \in Actors, StartOpen(a) PROVE SupInv'
    <2>1. /\ phase = "starting" /\ UNCHANGED crashed
          /\ UNCHANGED <<pc, stopped, frames, restartCount, broadcasts, taken, inTry, failures,
                         reopened, inbox, msg>>
          /\ UNCHANGED <<strategy, override, limit, changes, scenario>>
      BY <1>1 DEF StartOpen, callVars, policyVars, statVars, boundVars
    <2>2. PICK o \in OpenOutcomes :
             /\ state' = [state EXCEPT ![a] = o[1]]
             /\ opened' = IF o[2] THEN {} ELSE opened \cup {a}
             /\ phase' = IF o[2] THEN "closing"
                         ELSE IF opened \cup {a} = Actors THEN "up" ELSE "starting"
      BY <1>1 DEF StartOpen
    <2>3. /\ o[1] \in ActorStates /\ o[2] \in BOOLEAN
          /\ ~o[2] /\ Promised => o[1] = "Opened"
      BY OpenOutcomesFacts DEF Promised
    <2>4. RowTypes' /\ (Promised' <=> Promised)
      BY <1>0, <2>1, <2>2, <2>3 DEF RowTypes, Promised
    <2>5. WholeTypes'
      <3>1. phase' \in Phases /\ opened' \subseteq Actors
        BY <1>0, <2>2, <2>3 DEF WholeTypes, Phases
      <3> QED BY <1>0, <2>1, <3>1 DEF WholeTypes
    <2>6. \A b \in Actors : pc'[b] = "idle" /\ ~stopped'[b]
      BY <1>0, <2>1 DEF IdlePhases
    <2>7. /\ state'[a] = o[1]
          /\ \A b \in Actors : b # a => state'[b] = state[b]
      BY <1>0, <2>2 DEF RowTypes
    <2>8. Promised /\ ~o[2] => \A b \in opened \cup {a} : state'[b] = "Opened"
      BY <1>0, <2>1, <2>3, <2>7 DEF OpenedSoFar, WholeTypes
    <2>9. IdlePhases' /\ OpenedSoFar' /\ ClosedSoFar'
      BY <2>2, <2>3, <2>4, <2>6, <2>8 DEF IdlePhases, OpenedSoFar, ClosedSoFar
    <2>10. ASSUME NEW b \in Actors
           PROVE  EssentialRow(b, pc[b], state[b], stopped[b])' /\ pc[b] = "idle"
      BY <2>1, <2>2, <2>3, <2>4, <2>6, <2>8 DEF EssentialRow
    <2> QED BY <2>1, <2>4, <2>5, <2>9, <2>10, MainKeeps
  <1>2. ASSUME NEW a \in Actors, StopClose(a) PROVE SupInv'
    <2>1. /\ phase = "closing" /\ ~crashed /\ opened' = opened \cup {a}
          /\ phase' = IF opened' = Actors THEN "stopped" ELSE "closing"
          /\ UNCHANGED <<pc, stopped, frames, restartCount, broadcasts, taken, inTry, failures,
                         reopened, inbox, msg>>
          /\ UNCHANGED <<strategy, override, limit, changes, scenario>>
      BY <1>2 DEF StopClose, callVars, policyVars, statVars, boundVars
    <2>2. PICK o \in CloseOutcomes(a) : state' = [state EXCEPT ![a] = o[1]] /\ crashed' = o[2]
      BY <1>2 DEF StopClose
    <2>3. o[1] \in ActorStates /\ o[2] \in BOOLEAN /\ (~o[2] => o[1] = "Closed")
      BY CloseOutcomesFacts
    <2>4. RowTypes'
      BY <1>0, <2>1, <2>2, <2>3 DEF RowTypes
    <2>5. WholeTypes'
      <3>1. phase' \in Phases /\ opened' \subseteq Actors /\ crashed' \in BOOLEAN
        BY <1>0, <2>1, <2>2, <2>3 DEF WholeTypes, Phases
      <3> QED BY <1>0, <2>1, <3>1 DEF WholeTypes
    <2>6. /\ state'[a] = o[1]
          /\ \A b \in Actors : b # a => state'[b] = state[b]
      BY <1>0, <2>2 DEF RowTypes
    <2>7. ~crashed' => \A b \in opened' : state'[b] = "Closed"
      BY <1>0, <2>1, <2>2, <2>3, <2>6 DEF ClosedSoFar, WholeTypes
    <2>8. phase' \in {"closing", "stopped"} /\ (phase' = "stopped" => opened' = Actors)
      BY <2>1
    <2>9. IdlePhases' /\ OpenedSoFar' /\ ClosedSoFar'
      BY <1>0, <2>1, <2>7, <2>8 DEF IdlePhases, OpenedSoFar, ClosedSoFar
    <2>10. ASSUME NEW b \in Actors
           PROVE  EssentialRow(b, pc[b], state[b], stopped[b])' /\ pc[b] = "idle"
      BY <1>0, <2>1, <2>8 DEF EssentialRow, IdlePhases
    <2>11. crashed => crashed'
      BY <2>1
    <2> QED BY <2>1, <2>4, <2>5, <2>9, <2>10, <2>11, MainKeeps
  <1>3. ASSUME BeginDrain \/ WorkersJoined PROVE SupInv'
    <2>1. /\ UNCHANGED <<pc, stopped, frames, restartCount, broadcasts, taken, inTry, failures,
                         reopened, inbox, msg>>
          /\ UNCHANGED <<strategy, override, limit, changes, scenario>>
          /\ UNCHANGED <<state, crashed>>
          /\ \/ phase = "up" /\ phase' = "draining"
             \/ phase = "draining" /\ phase' = "closing" /\ \A a \in Actors : pc[a] = "idle"
      BY <1>3 DEF BeginDrain, WorkersJoined, actorVars, callVars, policyVars, statVars, boundVars
    <2>2. opened' = {}
      BY <1>0, <1>3 DEF BeginDrain, WorkersJoined, ClosedSoFar
    <2>3. phase' \in Phases
      BY <2>1 DEF Phases
    <2>4. RowTypes' /\ WholeTypes'
      BY <1>0, <2>1, <2>2, <2>3 DEF RowTypes, WholeTypes
    <2>5. IdlePhases' /\ OpenedSoFar' /\ ClosedSoFar'
      BY <1>0, <2>1, <2>2 DEF IdlePhases, OpenedSoFar, ClosedSoFar
    <2>6. ASSUME NEW b \in Actors
          PROVE  EssentialRow(b, pc[b], state[b], stopped[b])'
      BY <2>1 DEF EssentialRow
    <2> QED BY <2>1, <2>4, <2>5, <2>6, MainKeeps
  <1> QED BY <1>1, <1>2, <1>3 DEF MainStep

-----------------------------------------------------------------------------
(* The theorems                                                            *)

\* The invariant holds at the start.
LEMMA SupInvInit == Init => SupInv
  <1> SUFFICES ASSUME Init PROVE SupInv
    OBVIOUS
  <1>0. /\ <<>> \in Seq(Policies) /\ Len(<<>>) = 0
        /\ \A S : <<>> \in Seq(S)
    OBVIOUS
  <1>1. /\ \A a \in Actors : /\ pc[a] = "idle" /\ frames[a] = <<>> /\ stopped[a] = FALSE
                             /\ restartCount[a] = 0 /\ broadcasts[a] = 0
                             /\ taken[a] = 0 /\ inTry[a] = FALSE
                             /\ failures[a] = 0 /\ reopened[a] = 0
                             /\ override[a] = "unset"
        /\ changes = 0 /\ phase = "starting" /\ opened = {}
        /\ scenario \in Scenarios /\ strategy = scenario.strategy
        /\ limit = scenario.maxRestarts /\ crashed = FALSE
    BY DEF Init
  <1>2. RowTypes
    BY <1>0 DEF Init, RowTypes, Pcs, ActorStates
  <1>3. scenario.strategy \in Kinds /\ scenario.maxRestarts \in Nat /\ MaxBatch \in Nat \ {0}
    BY <1>1, ConstantFacts, Zenon
  <1>4. override \in [Actors -> Kinds \cup {"unset"}]
    BY DEF Init
  <1>5. WholeTypes
    <2>1. strategy \in Kinds /\ limit \in Nat /\ changes \in Nat
      BY <1>1, <1>3
    <2>2. phase \in Phases /\ opened \subseteq Actors /\ crashed \in BOOLEAN
      BY <1>1 DEF Phases
    <2> QED BY <1>1, <1>4, <2>1, <2>2 DEF WholeTypes
  <1>6. IdlePhases /\ ClosedSoFar /\ PolicyFixed /\ OpenedSoFar /\ QuietStop
    BY <1>1 DEF IdlePhases, ClosedSoFar, PolicyFixed, OpenedSoFar, QuietStop
  <1>7. Mail
    <2>1. \A S : inbox \in [Actors -> Seq(S)]
      BY <1>0 DEF Init
    <2>2. msg \in [Actors -> Messages \cup {NoMsg}]
      BY DEF Init
    <2> QED BY <1>1, <2>1, <2>2 DEF Mail
  <1>8. ASSUME NEW a \in Actors PROVE Local(a)
    <2>1. PICK p, s, f, u, t, it, n, r :
             /\ p = pc[a] /\ s = stopped[a] /\ f = frames[a] /\ u = UsedBy(a) /\ t = taken[a]
             /\ it = inTry[a] /\ n = failures[a] /\ r = reopened[a]
      OBVIOUS
    <2>2. /\ p = "idle" /\ ~s /\ f = <<>> /\ u = 0 /\ t = 0 /\ ~it /\ n = 0 /\ r = 0
      BY <1>1, <2>1 DEF UsedBy, Used
    <2>3. InProgress(p, f) /\ Snapshots(f) /\ WithinBudget(p, u) /\ InBatch(p, t)
      BY <1>0, <1>3, <2>2 DEF InProgress, Reported, Snapshots, WithinBudget, InBatch
    <2>4. /\ Reopenings(p, s, t, r) /\ QuietRow(p, s, u, it, n, r)
          /\ LateRow(p, state[a], s, u, t, it, n)
      BY <1>3, <2>2 DEF Reopenings, QuietRow, LateRow, Reported
    <2>5. EssentialRow(a, p, state[a], s)
      BY <1>1 DEF EssentialRow
    <2> QED BY <2>1, <2>3, <2>4, <2>5 DEF Local, RowInv
  <1> QED BY <1>2, <1>5, <1>6, <1>7, <1>8 DEF SupInv

\* Every step keeps the invariant.
LEMMA SupInvStep == SupInv /\ [Next]_vars => SupInv'
  <1> SUFFICES ASSUME SupInv, [Next]_vars PROVE SupInv'
    OBVIOUS
  <1>1. CASE MainStep
    BY <1>1, MainStepKeeps
  <1>2. CASE Outside
    BY <1>2, OutsideStep
  <1>3. ASSUME NEW a \in Actors, ActorStep(a) PROVE SupInv'
    BY <1>3, ActorStepKeeps
  <1>4. CASE UNCHANGED vars
    <2>1. /\ Steady /\ UNCHANGED crashed
          /\ UNCHANGED <<pc, state, stopped, frames, restartCount, broadcasts, taken, inTry,
                         failures, reopened>>
          /\ UNCHANGED <<inbox, msg>>
      BY <1>4 DEF vars, Steady, actorVars, callVars, policyVars, statVars, mainVars, boundVars
    <2>2. Mail'
      BY <2>1 DEF SupInv, Mail, Quiet, Steady
    <2> QED BY <2>1, <2>2, NothingMoves
  <1> QED BY <1>1, <1>2, <1>3, <1>4 DEF Next

\* The invariant of failure handling, for all actors, mailboxes, batches and policies.
THEOREM SupInvariant == Spec => []SupInv
  BY SupInvInit, SupInvStep, PTL DEF Spec

\* However many actors and messages there are and whatever the budget: while the policies
\* stay as they are and close() does not throw, an actor fails at most maxRestarts + 1
\* times, and under one-for-all once more for every two messages of the batch in which it
\* was shut down.
THEOREM FailuresWithinBudget == Spec => []FailureBudget
  <1>1. SupInv => FailureBudget
    <2> SUFFICES ASSUME SupInv, changes = 0, ~CloseThrows, NEW a \in Actors
                 PROVE  failures[a] <= scenario.maxRestarts + 1
                             + IF scenario.strategy = "OneForAll" THEN MaxBatch \div 2 ELSE 0
      BY DEF FailureBudget, CloseThrows
    <2>1. PICK p, st, s, f, u, t, it, n, r :
             /\ p = pc[a] /\ st = state[a] /\ s = stopped[a] /\ f = frames[a] /\ u = UsedBy(a)
             /\ t = taken[a] /\ it = inTry[a] /\ n = failures[a] /\ r = reopened[a]
      OBVIOUS
    <2>2. /\ RowInv(p, st, s, f, u, t, it, n, r)
          /\ s \in BOOLEAN /\ u \in Nat /\ t \in Nat /\ n \in Nat
          /\ scenario.maxRestarts \in Nat /\ MaxBatch \in Nat \ {0}
      BY <2>1, OfOne, ScenarioFacts, ConstantFacts
    <2>3. u <= scenario.maxRestarts /\ t <= MaxBatch
      BY <2>2 DEF RowInv, WithinBudget, InBatch
    <2>4. CASE scenario.strategy # "OneForAll"
      <3>1. n <= u + 1
        BY <2>2, <2>4 DEF RowInv, QuietRow, Quiet
      <3> QED BY <2>1, <2>2, <2>3, <2>4, <3>1
    <2>5. CASE scenario.strategy = "OneForAll"
      <3>1. LateRow(p, st, s, u, t, it, n)
        BY <2>2 DEF RowInv
      <3>2. Spares(p, st, it) \in Nat /\ Excess(n) \in Int
        <4>1. Spares(p, st, it) \in Nat
          BY DEF Spares
        <4>2. WholeTypes
          BY DEF SupInv
        <4>3. Excess(n) \in Int
          BY <2>2, <4>2, ExcessFacts
        <4> QED BY <4>1, <4>3
      <3>3. /\ ~s => n <= u + 1
            /\ s => Excess(n) + Spares(p, st, it) <= IF p = "idle" THEN MaxBatch ELSE t
        BY <2>2, <2>5, <3>1 DEF LateRow
      <3>4. s => 2 * (n - scenario.maxRestarts - 1) <= MaxBatch
        BY <2>2, <2>3, <3>2, <3>3 DEF Excess
      <3>5. n <= scenario.maxRestarts + 1 + MaxBatch \div 2
        BY <2>2, <2>3, <3>3, <3>4
      <3> QED BY <2>1, <2>5, <3>5
    <2> QED BY <2>4, <2>5
  <1> QED BY <1>1, SupInvariant, PTL

\* Under one-for-one, with an open() that succeeds or throws, every failure of an actor
\* nobody may disable ends in a restart or in a shutdown, however restarts nest.
THEOREM FailureEndsInRestartOrStop == Spec => []RestartedOrStopped
  <1>1. SupInv => RestartedOrStopped
    <2> SUFFICES ASSUME SupInv, phase = "up", Promised,
                        NEW a \in Essential, pc[a] \in {"idle", "batch"}
                 PROVE  state[a] = "Opened" \/ stopped[a]
      BY DEF RestartedOrStopped, Promised
    <2>1. EssentialRow(a, pc[a], state[a], stopped[a])
      BY OfOne, ConstantFacts
    <2> QED BY <2>1 DEF EssentialRow
  <1> QED BY <1>1, SupInvariant, PTL

\* ActorSystem::stop leaves every actor Closed unless an exception left it.
THEOREM StopClosesEveryActor == Spec => []ClosedAfterStop
  <1>1. SupInv => ClosedAfterStop
    BY DEF SupInv, ClosedSoFar, ClosedAfterStop
  <1> QED BY <1>1, SupInvariant, PTL

\* However long a batch and however restarts nest, an actor that ActorRuntime::shutdown
\* stopped is opened again only by the messages left of the batch that stopped it, and
\* without broadcasts and policy changes never.
THEOREM ReopenedOnlyInItsBatch == Spec => []StoppedStaysDown
  <1>1. SupInv => StoppedStaysDown
    <2> SUFFICES ASSUME SupInv, NEW a \in Actors
                 PROVE  /\ reopened[a] <= IF CloseThrows THEN MaxBatch ELSE MaxBatch - 1
                        /\ Quiet => reopened[a] = 0
      BY DEF StoppedStaysDown, CloseThrows, Quiet
    <2>1. /\ RowInv(pc[a], state[a], stopped[a], frames[a], UsedBy(a), taken[a], inTry[a],
                    failures[a], reopened[a])
          /\ taken[a] \in Nat /\ reopened[a] \in Nat /\ MaxBatch \in Nat \ {0}
      BY OfOne, ConstantFacts
    <2> QED BY <2>1 DEF RowInv, InBatch, Reopenings, QuietRow
  <1> QED BY <1>1, SupInvariant, PTL
=============================================================================
