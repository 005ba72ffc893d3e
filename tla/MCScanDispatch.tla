--------------------------- MODULE MCScanDispatch ---------------------------
(***************************************************************************)
(* Small instances of ScanDispatch.                                        *)
(***************************************************************************)
EXTENDS ScanDispatch

=============================================================================
