----------------------------- MODULE EventRing ------------------------------
(***************************************************************************)
(* What a log buffer promises its writers, without saying how: claims are  *)
(* numbered and go round the events in order, an event is filled by one    *)
(* claim at a time, a claim that finds its event being filled is dropped,  *)
(* and a claim that gets its event leaves a whole message in it.           *)
(***************************************************************************)
EXTENDS Integers

CONSTANT Size      \* the number of events, positive

VARIABLES
  claims,    \* the number of claims made
  cursor,    \* the event of the next claim
  waiting,   \* <<claim, event>>: claims that have not looked at their event
  cell       \* event -> who is filling it and the message it holds

ringVars == <<claims, cursor, waiting, cell>>

Events == 0 .. Size - 1
Nobody == 0

Init ==
  /\ claims = 0
  /\ cursor = 0
  /\ waiting = {}
  /\ cell = [e \in Events |-> [filler |-> Nobody, holds |-> Nobody]]

Claim ==
  /\ claims' = claims + 1
  /\ cursor' = IF cursor = Size - 1 THEN 0 ELSE cursor + 1
  /\ waiting' = waiting \cup {<<claims + 1, cursor>>}
  /\ UNCHANGED cell

Begin(w) ==
  /\ cell[w[2]].filler = Nobody
  /\ waiting' = waiting \ {w}
  /\ cell' = [cell EXCEPT ![w[2]] = [filler |-> w[1], holds |-> Nobody]]
  /\ UNCHANGED <<claims, cursor>>

Drop(w) ==
  /\ cell[w[2]].filler # Nobody
  /\ waiting' = waiting \ {w}
  /\ UNCHANGED <<claims, cursor, cell>>

Commit(e) ==
  /\ cell[e].filler # Nobody
  /\ cell' = [cell EXCEPT ![e] = [filler |-> Nobody, holds |-> cell[e].filler]]
  /\ UNCHANGED <<claims, cursor, waiting>>

Next ==
  \/ Claim
  \/ \E w \in waiting : Begin(w) \/ Drop(w)
  \/ \E e \in Events : Commit(e)

Spec == Init /\ [][Next]_ringVars

=============================================================================
