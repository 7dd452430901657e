----------------------------- MODULE MCDownload -----------------------------
(***************************************************************************)
(* Instances of Download for TLC: two small files, and for each            *)
(* question the part of the environment it is about.                       *)
(***************************************************************************)
EXTENDS DeliveryMapping

CONSTANTS f1, f2, d1, d2, d3, d4, d5

Env(n) == [k \in Kind |-> IF k \in DOMAIN n THEN n[k] ELSE 0]

\* Two files with no chunk in common, one longer than a window of two.
Mixed == (f1 :> {<<d1, d2, d3>>}) @@ (f2 :> {<<d4>>})

\* The same with more chunks than two windows of two.
Long == (f1 :> {<<d1, d2, d3>>}) @@ (f2 :> {<<d4, d5>>})

\* Two versions of a file, and another that shares a chunk with both.
Sharing == (f1 :> {<<d1, d2>>, <<d2, d1>>}) @@ (f2 :> {<<d2>>})

Lossy == Env([loss |-> 1, drop |-> 1, sync |-> 1, rekey |-> 1])
Busy  == Env([edit |-> 1, local |-> 1, ioerror |-> 1, restart |-> 1, stall |-> 1])
Slow  == Env([stall |-> 2])

=============================================================================
