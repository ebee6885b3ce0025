----------------------------- MODULE SendRight -----------------------------
(***************************************************************************)
(* What the entry side of the gateway promises of an economic key, without *)
(* its tables: the key has one right to send.  A plan asks for it and may  *)
(* be replaced by plans that cost no more; one permit is granted the right *)
(* and the cash to use it; it is used once, with that cash; or it is given *)
(* up for good, and its cash with it.  "After a permit (or outbox state)   *)
(* no quantity increase or key escape is possible" (gateway/decisions.py). *)
(***************************************************************************)
EXTENDS Integers

CONSTANTS Keys, Permits, NoPermit,
          Cash    \* what an admission may reserve at most

VARIABLE right    \* per key: the phase, the permit that holds it, its cash

Right(phase, holder, cents) ==
  [phase |-> phase, holder |-> holder, cents |-> cents]

Init == right = [k \in Keys |-> Right("none", NoPermit, 0)]

Plan(k, cents) ==
  /\ right[k].phase = "none"
  /\ right' = [right EXCEPT ![k] = Right("planned", NoPermit, cents)]

Replan(k, cents) ==
  /\ right[k].phase = "planned" /\ cents <= right[k].cents
  /\ right' = [right EXCEPT ![k] = Right("planned", NoPermit, cents)]

Grant(k, p, cents) ==
  /\ right[k].phase = "planned" /\ cents <= right[k].cents
  /\ \A j \in Keys : right[j].holder # p
  /\ right' = [right EXCEPT ![k] = Right("held", p, cents)]

Use(k) ==
  /\ right[k].phase = "held"
  /\ right' = [right EXCEPT ![k] = Right("used", right[k].holder, right[k].cents)]

GiveUp(k) ==
  /\ right[k].phase \in {"planned", "held"}
  /\ right' = [right EXCEPT ![k] = Right("dead", NoPermit, 0)]

Next ==
  \E k \in Keys :
    \/ \E cents \in 1..Cash : Plan(k, cents) \/ Replan(k, cents)
    \/ \E p \in Permits, cents \in 1..Cash : Grant(k, p, cents)
    \/ Use(k) \/ GiveUp(k)

Spec == Init /\ [][Next]_right
=============================================================================
