---------------------------- MODULE MCSysCounter ----------------------------
(* Small instances of SysCounter: the orders of the traced calls. *)
EXTENDS SysCounter

AllChecks == <<"openat", "write", "unlink">>

=============================================================================
