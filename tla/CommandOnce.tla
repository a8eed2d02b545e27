---------------------------- MODULE CommandOnce ----------------------------
(***************************************************************************)
(* What unchain.jobs promises about one job (docs/en/api/jobs.md,          *)
(* "Guarantees and boundary"): a status that only moves forward and a user *)
(* command that is launched at most once.  Giving a job up                 *)
(* (outcome_unknown) says nothing about the command: a wrapper that was    *)
(* suspended after its STARTING receipt may still launch it.               *)
(***************************************************************************)
VARIABLES status, ran

vars == <<status, ran>>

Init == status = "absent" /\ ran = FALSE

Reserve == status = "absent" /\ status' = "queued" /\ UNCHANGED ran

Begin == status = "queued" /\ status' = "starting" /\ UNCHANGED ran

Launch ==
    /\ status \in {"starting", "outcome_unknown"}
    /\ ~ran
    /\ ran' = TRUE
    /\ UNCHANGED status

Confirm == status = "starting" /\ ran /\ status' = "running" /\ UNCHANGED ran

\* The worker proves an end without or after a launch.
Stop ==
    /\ \/ status \in {"queued", "starting"} /\ status' = "failed"
       \/ status = "starting" /\ ~ran /\ status' = "cancelled"
       \/ /\ status = "running"
          /\ status' \in {"completed", "failed", "timed_out", "cancelled"}
    /\ UNCHANGED ran

GiveUp ==
    /\ status \in {"queued", "starting", "running"}
    /\ status' = "outcome_unknown"
    /\ UNCHANGED ran

Next == Reserve \/ Begin \/ Launch \/ Confirm \/ Stop \/ GiveUp

Spec == Init /\ [][Next]_vars
=============================================================================
