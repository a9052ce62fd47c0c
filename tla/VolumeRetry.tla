----------------------------- MODULE VolumeRetry -----------------------------
(***************************************************************************)
(* VolumeLifecycle under a caller that repeats one kind of call for as     *)
(* long as it takes.  Up to some moment anything may happen, crashes       *)
(* included; from then on (calm) no process dies and only the calls of one *)
(* kind are begun.  The external provisioner repeats a call until it is    *)
(* answered OK, and a controller process runs the call it has accepted to  *)
(* its end, hence the weak fairness of each process.  The reclaim policy   *)
(* stays what it was at the start.                                         *)
(***************************************************************************)
EXTENDS VolumeLifecycle

CONSTANT Retried     \* kinds of calls that are repeated

ASSUME RetriedAssumption == Retried \subseteq {"create", "delete"} \cap Calls

VARIABLES
    retried,     \* the kind this caller repeats
    calm

\* A caller that repeats creates asks for one size, and nobody deletes.
Asked == CHOOSE s \in Sizes : TRUE

CreatesOnly == \A p \in Procs : pc[p] # "idle" => call[p] = "create" /\ req[p] = Asked

Again(p) == \/ retried = "create" /\ \E v \in Vols : StartCreate(p, v, Asked)
            \/ retried = "delete" /\ \E v \in Vols : StartDelete(p, v)

RetryInit == Init /\ calm = FALSE /\ retried \in Retried

Calm(p) == calm /\ (Step(p) \/ Again(p)) /\ UNCHANGED <<calm, retried>>

RetryNext == \/ /\ ~calm /\ Next /\ UNCHANGED <<calm, retried, policy>>
                /\ retried = "create" => CreatesOnly'
             \/ ~calm /\ calm' = TRUE /\ UNCHANGED <<vars, retried>>
             \/ \E p \in Procs : Calm(p)

RetrySpec == /\ RetryInit
             /\ [][RetryNext]_<<vars, calm, retried>>
             /\ \A p \in Procs : WF_<<vars, calm, retried>>(Calm(p))

Gone == \A v \in Vols : /\ ~Exists(Lookup(v))
                        /\ payload[v] = NoPayload
                        /\ xint[v] = NoSpan

Committed == \A v \in Vols : /\ meta[v].state = "live"
                             /\ ~Exists(intent[v])
                             /\ acked[v].state = "live"

\* A delete that is repeated comes to its end from whatever files the
\* crashes of creates, expansions and earlier deletes have left behind.
DeleteConverges == (calm /\ retried = "delete") ~> []Gone

\* A create that is repeated comes to its end: the volume is committed and
\* no intent is left.
CreateConverges == (calm /\ retried = "create") ~> []Committed
=============================================================================
