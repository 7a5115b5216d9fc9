------------------------- MODULE MC_DistGCPDriver -------------------------
(* Model values of DistGCPDriver that a .cfg file cannot write.            *)
EXTENDS DistGCPDriver

(* Fit estimates of a Poisson loss, which goes negative: fest_best < 0.    *)
NegativeLossVals == {-2003, -2001, -2000, -1999}
=============================================================================
