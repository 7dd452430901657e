---------------------------- MODULE MCFolderSync ----------------------------
(***************************************************************************)
(* Instances of FolderSync for TLC.  In the first there are two files, a   *)
(* name for conflict copies of f, and a second, empty folder on the first  *)
(* node; in the others, for users who save at any moment, one file and one *)
(* folder on each node.                                                    *)
(***************************************************************************)
EXTENDS FolderSync, FiniteSetsExt

CONSTANTS f, g, c, v0, v1, v2, d1, d2

Names == (f :> {c}) @@ (g :> {}) @@ (c :> {})
OneName == (f :> {c}) @@ (c :> {})

Folders == (NodeA :> {d1, d2}) @@ (NodeB :> {d1})
OneFolder == (NodeA :> {d1}) @@ (NodeB :> {d1})

OnDisk(folders, names, files) ==
    [p \in folders \X names |-> IF p[1] = d1 /\ p[2] \in DOMAIN files
                                THEN files[p[2]] ELSE Absent]

\* The first node has both files, the second one of them.
Start == (NodeA :> OnDisk({d1, d2}, {f, g, c}, (f :> v0) @@ (g :> v1)))
         @@ (NodeB :> OnDisk({d1}, {f, g, c}, g :> v1))

\* Both have the file.
Shared == (NodeA :> OnDisk({d1}, {f, c}, f :> v0))
          @@ (NodeB :> OnDisk({d1}, {f, c}, f :> v0))

\* New contents are alike.
Symmetric == Permutations({v1, v2})

Turns == [save |-> 2, remove |-> 1, folder |-> 3]
Rapid == [save |-> 2, remove |-> 0, folder |-> 2]

=============================================================================
