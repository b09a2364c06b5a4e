------------------------------- MODULE MCMio0 -------------------------------
(* All files of up to eleven bytes of two values.  The window and the       *)
(* longest copy are short, so that matches are cut off by either, positions *)
(* are forgotten, a copy runs over what it has itself written more than     *)
(* once, and a literal is put before a longer copy (which takes ten bytes). *)
EXTENDS Mio0
=============================================================================
