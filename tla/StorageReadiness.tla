---- MODULE StorageReadiness ----
(***************************************************************************)
(* The readiness of the provisioner pod (csi/main.py).  A thread of the    *)
(* CSI process goes over the shared pools for ever, mounts what is not     *)
(* mounted and writes or removes the marker file the kubelet's probe looks *)
(* for.  Its supervisor, the main thread, starts it again when it ends,    *)
(* and the process itself is started again when it exits.  The marker      *)
(* outlives both of them.                                                  *)
(***************************************************************************)
EXTENDS Naturals

CONSTANTS Shared,      \* shared pools; dedicated ones are not mounted here
          MaxUpsets    \* bound on failures and on changes around the thread

VARIABLES required,    \* the shared pools in the configuration
          serving,     \* pools whose servers can be reached
          mounted,     \* pools with an established client
          marker,      \* STORAGE_READY_FILE exists
          thread,      \* where the reconciler is; "exited": no process
          todo,        \* pools this pass has not looked at
          allMounted,  \* no pool of this pass has failed
          upsets

poolState == <<required, serving, mounted>>
passState == <<thread, todo, allMounted>>
readyVars == <<poolState, passState, marker, upsets>>

ASSUME ReadyAssumption == MaxUpsets \in Nat

ReadyTypeOK ==
    /\ required \subseteq Shared /\ serving \subseteq Shared /\ mounted \subseteq Shared
    /\ marker \in BOOLEAN /\ allMounted \in BOOLEAN
    /\ thread \in {"exited", "sleeping", "passing", "recovering", "ended"}
    /\ todo \subseteq Shared /\ (todo # {} => thread = "passing")
    /\ upsets \in 0..MaxUpsets

\* A pod that is started again in its place may find the marker of the last one.
ReadyInit ==
    /\ required \in SUBSET Shared /\ serving \in SUBSET Shared /\ mounted = {}
    /\ marker \in BOOLEAN
    /\ thread = "exited" /\ todo = {} /\ allMounted = FALSE /\ upsets = 0

Upset == upsets < MaxUpsets /\ upsets' = upsets + 1
Smooth == UNCHANGED upsets

\* clear_storage_ready; it raises only when there is a file it cannot remove.
Cleared == marker' = FALSE /\ Smooth
NotCleared == marker /\ UNCHANGED marker /\ Upset

\* The process removes the marker of its predecessor before it serves.
StartProcess ==
    /\ thread = "exited"
    /\ \/ Cleared /\ thread' = "sleeping"
       \/ NotCleared /\ UNCHANGED thread
    /\ UNCHANGED <<poolState, todo, allMounted>>

\* mount_storage: the configuration is read once; when it cannot be read the
\* pass has failed at once.
BeginPass ==
    /\ thread = "sleeping" /\ thread' = "passing"
    /\ \/ todo' = required /\ allMounted' = TRUE /\ Smooth
       \/ todo' = {} /\ allMounted' = FALSE /\ Upset
    /\ UNCHANGED <<poolState, marker>>

\* Faulty: the last pool decides.
PassAfter_Last(ok) == ok

\* One failing pool fails the pass.
PassAfter(ok) == allMounted /\ ok

\* An established client is taken as it is.  Readiness is withdrawn with the
\* first failure, and a failure to do so is only logged.
MountOne ==
    /\ thread = "passing"
    /\ \E p \in todo :
         /\ todo' = todo \ {p}
         /\ \/ /\ p \in mounted \cup serving /\ mounted' = mounted \cup {p}
               /\ allMounted' = PassAfter(TRUE) /\ UNCHANGED marker /\ Smooth
            \/ /\ p \notin mounted \cup serving /\ UNCHANGED mounted
               /\ allMounted' = PassAfter(FALSE) /\ (Cleared \/ NotCleared)
            \/ /\ p \in serving \ mounted /\ UNCHANGED mounted
               /\ allMounted' = PassAfter(FALSE) /\ marker' = FALSE /\ Upset
    /\ UNCHANGED <<required, serving, thread>>

\* reconcile_storage_mounts_once: the marker follows the pass; when it cannot
\* be written or removed, an exception ends the pass.
Publish ==
    /\ thread = "passing" /\ todo = {}
    /\ \/ marker' = allMounted /\ thread' = "sleeping" /\ Smooth
       \/ marker # allMounted /\ UNCHANGED marker /\ thread' = "recovering" /\ Upset
    /\ UNCHANGED <<poolState, todo, allMounted>>

\* The thread's last exception boundary.
Recover ==
    /\ thread = "recovering" /\ thread' = "sleeping"
    /\ Cleared \/ NotCleared
    /\ UNCHANGED <<poolState, todo, allMounted>>

\* Something ends the thread all the same; its last act is to clear.
EndThread ==
    /\ thread \in {"sleeping", "passing", "recovering"} /\ thread' = "ended"
    /\ marker' \in {FALSE, marker} /\ Upset
    /\ todo' = {} /\ UNCHANGED <<poolState, allMounted>>

\* ensure_storage_mount_reconciler: no new thread unless the marker is gone;
\* an exception here ends the process.
Supervise ==
    /\ thread = "ended"
    /\ \/ Cleared /\ thread' = "sleeping"
       \/ NotCleared /\ thread' = "exited"
    /\ UNCHANGED <<poolState, todo, allMounted>>

ExitProcess ==
    /\ thread # "exited" /\ thread' = "exited" /\ todo' = {} /\ Upset
    /\ UNCHANGED <<poolState, marker, allMounted>>

\* Servers come and go, clients die, the configuration changes.
Disturb ==
    /\ Upset
    /\ \E p \in Shared :
         \/ p \in serving /\ serving' = serving \ {p} /\ UNCHANGED <<required, mounted>>
         \/ p \notin serving /\ serving' = serving \cup {p} /\ UNCHANGED <<required, mounted>>
         \/ p \in mounted /\ mounted' = mounted \ {p} /\ UNCHANGED <<required, serving>>
         \/ p \in required /\ required' = required \ {p} /\ UNCHANGED <<serving, mounted>>
         \/ p \notin required /\ required' = required \cup {p} /\ UNCHANGED <<serving, mounted>>
    /\ UNCHANGED <<passState, marker>>

ReadyStep ==
    \/ StartProcess \/ BeginPass \/ MountOne \/ Publish \/ Recover \/ Supervise

ReadyNext == ReadyStep \/ EndThread \/ ExitProcess \/ Disturb

\* The process monitor restarts the process, the supervisor the thread, and
\* the thread never stops passing.
ReadyFairness == WF_readyVars(ReadyStep)

ReadySpec == ReadyInit /\ [][ReadyNext]_readyVars /\ ReadyFairness

----------------------------------------------------------------------------
Usable(p) == p \in mounted \cup serving

(***************************************************************************)
(* Readiness follows the pools, whatever failed on the way and whatever an *)
(* earlier process has left: the pod becomes and stays ready when every    *)
(* configured pool stays usable, and unready when one of them stays lost   *)
(* (reconcile_storage_mounts, run_storage_mount_reconciler,                *)
(* ensure_storage_mount_reconciler).                                       *)
(***************************************************************************)
ReadinessFollowsPools ==
    /\ <>[](\A p \in required : Usable(p)) => <>[]marker
    /\ <>[](\E p \in required : ~Usable(p)) => <>[]~marker
====
