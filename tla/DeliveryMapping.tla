-------------------------- MODULE DeliveryMapping ---------------------------
(***************************************************************************)
(* Module Download seen as a FileDelivery: a version is under way while a  *)
(* manifest that names it is in flight, or its file waits or is active.    *)
(***************************************************************************)
EXTENDS Download

\* The versions of f that manifests of p name.
InManifests(p, f) ==
    {m.files[f] : m \in {x \in InFlight(p) : x.type = "Manifest" /\ f \in DOMAIN x.files}}

InQueue(p, f) ==
    {queue[p][n].hashes : n \in {i \in DOMAIN queue[p] : queue[p][i].file = f}}

InTransfer(p, f) ==
    {active[p][g].hashes : g \in DOMAIN active[p] \cap {f}}

Underway ==
    [p \in Peer |-> [f \in File |-> InManifests(p, f) \cup InQueue(p, f) \cup InTransfer(p, f)]]

Notices ==
    {x \in Peer \X File :
       \E m \in InFlight(x[1]) : m.type \in {"FileChanged", "FileDeleted"} /\ m.file = x[2]}

\* A lookup that was raced by a save, or a transfer that began with one.
Doubtful ==
    {x \in Peer \X File :
       \/ x[2] \in DOMAIN active[x[1]] /\ active[x[1]][x[2]].raced
       \/ draft # None /\ draft.raced /\ loop = x[1] /\ Head(queue[loop]).file = x[2]}

Delivery ==
    INSTANCE FileDelivery
    WITH offered <- remote, underway <- Underway, notices <- Notices,
         folder <- disk, broken <- torn, doubtful <- Doubtful

\* Whatever is lost, retried, re-keyed, edited or restarted, the scheduler
\* changes the folder only as FileDelivery allows: by whole versions that a
\* manifest of that peer named and that were neither dropped nor replaced by a
\* later manifest's, by notices, by writes that fail, and by deliveries that
\* a local save between the hashing and the reading of a chunk made doubtful.
DeliversFiles == Delivery!Spec

=============================================================================
