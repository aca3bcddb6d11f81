-------------------------- MODULE MCHedgeExecution --------------------------
(***************************************************************************)
(* Model values for the runs of HedgeExecution.                            *)
(***************************************************************************)
EXTENDS HedgeExecution

(* Flat, or hedged by an earlier process.                                  *)
FlatOrHedged == {<<0, 0>>, <<2, 2>>}

(* Flat.                                                                   *)
FlatAccount == {<<0, 0>>}
=============================================================================
