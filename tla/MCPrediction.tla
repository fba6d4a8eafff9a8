---------------------------- MODULE MCPrediction ----------------------------
(***************************************************************************)
(* Small instances of Prediction.                                          *)
(***************************************************************************)
EXTENDS Prediction

OneRow == {<<1, 3>>}
Row == <<1, 3>>
TwoSizes == {<<2, 3>>, <<1, 2>>}
Large == <<2, 3>>
=============================================================================
