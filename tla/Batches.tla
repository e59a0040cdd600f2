------------------------------ MODULE Batches ------------------------------
(***************************************************************************)
(* Calls of pure functions, one at a time: from "idle" the machine takes   *)
(* up a batch of calls, from the batch one call, and then it returns.  The *)
(* batches spread the inputs over the states.                              *)
(***************************************************************************)
VARIABLE job
vars == <<job>>

Idle == [kind |-> "idle"]
Batch(kind, part) == [kind |-> "batch", of |-> kind, part |-> part]
InBatch(kind) == job.kind = "batch" /\ job.of = kind

Init == job = Idle
Return == job.kind \notin {"idle", "batch"} /\ job' = Idle
=============================================================================
