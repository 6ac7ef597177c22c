--------------------------- MODULE MCExecApprovals ---------------------------
(* Two requests that use the same id, one after the other, and a waiter.    *)
EXTENDS ExecApprovals
CONSTANT a
MCShortIds == {{a}}
=============================================================================
