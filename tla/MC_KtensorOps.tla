---------------------------- MODULE MC_KtensorOps ----------------------------
(* The Ktensor of the ktensor_ops run: two modes of 2 and 1 rows, two      *)
(* components, negative entries: values a .cfg cannot write.                       *)
EXTENDS KtensorOps

MCDims == <<2, 1>>
MCVals == {-1, 0, 2}
=============================================================================
