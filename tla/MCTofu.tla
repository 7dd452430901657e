------------------------------- MODULE MCTofu -------------------------------
(***************************************************************************)
(* Instances of Tofu for TLC: two connections at most, and for each        *)
(* question the part of the environment it is about.                       *)
(***************************************************************************)
EXTENDS Tofu

Env(n) == [k \in Kind |-> IF k \in DOMAIN n THEN n[k] ELSE 0]

\* Connections come and go, messages and a store are lost, nodes restart,
\* users deny and revoke.
Lossy == Env([open |-> 2, close |-> 2, lose |-> 1, deny |-> 1, revoke |-> 1,
              restart |-> 2, wipe |-> 1])
Once == Env([open |-> 1])

=============================================================================
