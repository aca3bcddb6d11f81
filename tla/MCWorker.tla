------------------------------- MODULE MCWorker -------------------------------
(***************************************************************************)
(* Model values for the runs of Worker.                                    *)
(***************************************************************************)
EXTENDS Worker

(* Flat, or hedged by an earlier process.                                  *)
FlatOrHedged == {<<0, 0>>, <<1, 1>>}

FlatAccount   == {<<0, 0>>}
HedgedAccount == {<<1, 1>>}
=============================================================================
