---- MODULE Engagements ----
(***************************************************************************)
(* What the audit log promises about each member of a session: between two *)
(* stored ends of the same member it was opened again.  However many paths *)
(* report a close, it is stored once.                                      *)
(***************************************************************************)
EXTENDS Naturals

CONSTANT Members

VARIABLES
  phase,    \* of each member: "new", "open" or "closed"
  closings  \* of each member: how many ends are stored

Init ==
  /\ phase = [m \in Members |-> "new"]
  /\ closings = [m \in Members |-> 0]

Open(m) ==
  /\ phase[m] # "open"
  /\ phase' = [phase EXCEPT ![m] = "open"]
  /\ UNCHANGED closings

\* A sweep closes several members in one step.
Close(S) ==
  /\ \A m \in S : phase[m] # "closed"
  /\ phase' = [m \in Members |-> IF m \in S THEN "closed" ELSE phase[m]]
  /\ closings' = [m \in Members |-> IF m \in S THEN closings[m] + 1 ELSE closings[m]]

Next ==
  \/ \E m \in Members : Open(m)
  \/ \E S \in SUBSET Members : Close(S)

Spec == Init /\ [][Next]_<<phase, closings>>
============================
