---------------------------- MODULE MCDumpStatus ----------------------------
(* A reader beside the dump of MCDumpRun.                                    *)
EXTENDS DumpStatus, MCDumpRun
=============================================================================
