--------------------------- MODULE MCReportWriteBack ---------------------------
(* ReportWriteBack for TLC: the tabs are interchangeable.                       *)
EXTENDS ReportWriteBack, TLC

Symmetry == Permutations(Tabs)

=============================================================================
