---------------------------- MODULE MCPaperworkRun ----------------------------
(* The steps that record something behave alike: one of them stands for all.  *)
EXTENDS PaperworkRun, TLC

RecordingSteps == <<"beneficiaries">>
=============================================================================
