--------------------------- MODULE MCSearchJobs ----------------------------
(* Small instances of SearchJobs. *)
EXTENDS SearchJobs

OneTenant == [j \in Job |-> CHOOSE t \in Tenant : TRUE]
=============================================================================
