----------------------------- MODULE MCLogFanout -----------------------------
(* Values for model checking LogFanout.                                      *)
EXTENDS LogFanout

CONSTANTS w1, w2, t1, t2
=============================================================================
