---------------------------- MODULE MCServiceDNS ----------------------------
(***************************************************************************)
(* Budgets for the runs of ServiceDNS.                                     *)
(***************************************************************************)
EXTENDS ServiceDNS

\* Two events of the environment, of any kinds.
Pairs == {b \in [Events -> 0..2] :
            b["member"] + b["cluster"] + b["record"] + b["fault"] + b["crash"] = 2}
=============================================================================
