---------------------------- MODULE MCJobProcesses ----------------------------
(* The first files may be impossible to open.                              *)
EXTENDS JobProcesses

FirstFile  == {1}
FirstFiles == {1, 2}
=============================================================================
