------------------------------ MODULE MCSession ------------------------------
(* Small instances of Session: two tracks and a resource that is none,     *)
(* a few starts.                                                           *)
EXTENDS Session
=============================================================================
