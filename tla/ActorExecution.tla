--------------------------- MODULE ActorExecution ---------------------------
(***************************************************************************)
(* What the actor model promises, without queues, tokens or semaphores: an *)
(* actor has an inbox and at most one owner at a time, and only its owner  *)
(* takes messages out of the inbox: in one batch, which never begins once  *)
(* the actor is stopped.  A worker owns at most one actor.                 *)
(***************************************************************************)
EXTENDS Naturals

CONSTANTS Actors, Workers, None

VARIABLES inbox, owner, dead,
          taking  \* the owners that may take messages

aVars == <<inbox, owner, dead, taking>>

AInit ==
    /\ inbox = [a \in Actors |-> 0]
    /\ owner = [a \in Actors |-> None]
    /\ dead = [a \in Actors |-> FALSE]
    /\ taking = {}

\* A message is accepted, from any thread, at any time.
Accept(a) ==
    /\ inbox' = [inbox EXCEPT ![a] = @ + 1]
    /\ UNCHANGED <<owner, dead, taking>>

\* The owner of an actor that was stopped before takes nothing.
Begin(a, w) ==
    /\ owner[a] = None
    /\ \A b \in Actors : owner[b] # w
    /\ owner' = [owner EXCEPT ![a] = w]
    /\ taking' = IF dead[a] THEN taking ELSE taking \cup {w}
    /\ UNCHANGED <<inbox, dead>>

Consume(a) ==
    /\ owner[a] \in taking
    /\ inbox[a] > 0
    /\ inbox' = [inbox EXCEPT ![a] = @ - 1]
    /\ UNCHANGED <<owner, dead, taking>>

\* A message failed: undelivered messages become dead letters; the actor
\* goes on after a restart or is stopped for good, which need not end the batch.
Fail(a) ==
    /\ owner[a] \in taking
    /\ \E left \in 0 .. inbox[a] : inbox' = [inbox EXCEPT ![a] = left]
    /\ \E d \in BOOLEAN : (dead[a] => d) /\ dead' = [dead EXCEPT ![a] = d]
    /\ UNCHANGED <<owner, taking>>

\* The batch is over: what comes now waits for the next owner.
Rest(w) ==
    /\ w \in taking
    /\ taking' = taking \ {w}
    /\ UNCHANGED <<inbox, owner, dead>>

End(a) ==
    /\ owner[a] # None /\ owner[a] \notin taking
    /\ owner' = [owner EXCEPT ![a] = None]
    /\ UNCHANGED <<inbox, dead, taking>>

ANext ==
    \/ \E a \in Actors :
          \/ Accept(a) \/ Consume(a) \/ Fail(a) \/ End(a)
          \/ \E w \in Workers : Begin(a, w)
    \/ \E w \in Workers : Rest(w)

ASpec == AInit /\ [][ANext]_aVars
=============================================================================
