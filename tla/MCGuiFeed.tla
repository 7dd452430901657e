----------------------------- MODULE MCGuiFeed -----------------------------
(***************************************************************************)
(* An instance of GuiFeed for TLC.                                         *)
(***************************************************************************)
EXTENDS GuiFeed

Some == [discover |-> 1, expire |-> 1, connect |-> 2, close |-> 1, propose |-> 2, key |-> 1,
         command |-> 1, attach |-> 2, reload |-> 1]
=============================================================================
