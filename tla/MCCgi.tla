------------------------------- MODULE MCCgi --------------------------------
(***************************************************************************)
(* Cgi with two scripts: one prints more than the pipe holds and may leave *)
(* a process behind that goes on, and one is asked for by a POST.          *)
(***************************************************************************)
EXTENDS Cgi

MCSession   == 1 .. 2
MCPosted    == {2}
Outputs     == <<4, 1>>
MCLingering == {1}
=============================================================================
