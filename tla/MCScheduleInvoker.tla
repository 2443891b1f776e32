--------------------------- MODULE MCScheduleInvoker ---------------------------
(* Four clicks on the operations page; four tasks, so that several wait. *)
EXTENDS ScheduleInvoker
=============================================================================
