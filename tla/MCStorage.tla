------------------------------ MODULE MCStorage ------------------------------
(***************************************************************************)
(* An instance of Storage for TLC: one file a with two versions of three   *)
(* bytes, chunks of two bytes, and a version of no bytes; a place out to   *)
(* export to, in the folder under a name that unsafe_rel_path refuses; and *)
(* two seconds.                                                            *)
(***************************************************************************)
EXTENDS Storage

CONSTANTS a, c0, c1, out, tmp

Versions == {<<>>, <<1, 2, 3>>, <<3, 2, 1>>}

CopyNames == a :> (0 :> c0 @@ 1 :> c1)

Temporaries == [p \in {a, c0, c1, out, tmp} |-> tmp]

Some == [edit |-> 2, transfer |-> 2, start |-> 2, mode |-> 1, import |-> 1, export |-> 1,
         fault |-> 1]

\* Nothing fails and nobody dies.
Sound == [k \in Kind |-> IF k \in {"fault", "transfer"} THEN 0 ELSE 2]

\* The chunks of a version, and as many of the first of them as one likes, are
\* put together as the community modules put sequences together.
ASSUME WholeIsFlat ==
    \A v \in Versions : \A n \in 0..Len(Chunks(v)) :
        LET first == SubSeq(Chunks(v), 1, n) IN Whole(first) = FlattenSeq(first)

=============================================================================
