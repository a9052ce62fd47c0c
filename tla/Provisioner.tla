---- MODULE Provisioner ----
(***************************************************************************)
(* The two services of the provisioner's process that look at all pools:   *)
(* the placement of volumes and the readiness of the pod.  They share no   *)
(* state, so the instance explores them one at a time.                     *)
(***************************************************************************)
EXTENDS PoolSelection, StorageReadiness

VARIABLE service

vars == <<selectVars, readyVars, service>>

Services == {"placement", "readiness"}

TypeOK == service \in Services /\ SelectTypeOK /\ ReadyTypeOK

Init ==
    /\ service \in Services
    /\ SelectInit /\ ReadyInit
    /\ service = "placement" => required = {} /\ serving = {} /\ ~marker
    /\ service = "readiness" => roomy = Pools

Next ==
    \/ service = "placement" /\ SelectNext /\ UNCHANGED <<readyVars, service>>
    \/ service = "readiness" /\ ReadyNext /\ UNCHANGED <<selectVars, service>>

Fairness == WF_vars(service = "readiness" /\ ReadyStep /\ UNCHANGED <<selectVars, service>>)

Spec == Init /\ [][Next]_vars /\ Fairness

\* Readiness as long as it is the service at work.
ReadinessFollows == service = "readiness" => ReadinessFollowsPools
====
