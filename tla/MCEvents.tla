------------------------------ MODULE MCEvents ------------------------------
(***************************************************************************)
(* Two workers and two other threads for TLC.                              *)
(***************************************************************************)
EXTENDS Events, TLC

CONSTANTS w1, w2, t1, t2, logical1, logical2, physical

MCLogicalAction == (w1 :> logical1 @@ w2 :> logical2)
=============================================================================
