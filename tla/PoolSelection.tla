---- MODULE PoolSelection ----
(***************************************************************************)
(* Where a volume lives when there are several pools: the search for a     *)
(* name over all of them, which reads one pool after the other, and the    *)
(* choice of a pool for a new volume (controllerserver.py CreateVolume,    *)
(* volumeutils.py search_volume, mount_and_select_hosting_volume,          *)
(* delete_volume).  One name, created and deleted again and again by       *)
(* driver processes that share the lock directory of the pod.              *)
(*                                                                         *)
(* What happens inside a pool is module VolumeLifecycle; here the files of *)
(* the name in a pool are one record, and building the payload of an       *)
(* admitted volume or purging it is one step each.                         *)
(***************************************************************************)
EXTENDS Naturals, FiniteSets

CONSTANTS Pools, Drivers, None,
          MaxBirths,    \* bound on the generations of the name
          MaxSurprises, \* bound on failures and on changes of the pools
          BlindLooks    \* a client may fail in the middle of the look at a pool

VARIABLES rec,          \* what each pool has of the name: a state, a generation
          available,    \* pools that can be mounted and read
          roomy,        \* pools with room for the volume
          open,         \* pools the operator has not fenced from new volumes
          drv,          \* the call each driver process runs
          identity,     \* who holds the creation lock of the name
          lock,         \* who holds the lifecycle lock of the name in each pool
          births,
          told,         \* the last answer that nothing has overtaken: the pool of
                        \* a volume, "deleted", or None
          surprises

files == <<rec, births>>
pools == <<available, roomy, open>>
locks == <<identity, lock>>
selectVars == <<files, pools, drv, locks, told, surprises>>

NoRec == [state |-> "none", gen |-> 0]
NoCall == [op |-> None, alone |-> TRUE, at |-> "idle", search |-> None, todo |-> {}, half |-> None,
           hit |-> None, was |-> None, pool |-> None]

RecTypes == [state : {"none", "creating", "live", "deleting"}, gen : 0..MaxBirths]

ASSUME SelectAssumption ==
    /\ MaxBirths \in Nat /\ MaxSurprises \in Nat /\ BlindLooks \in BOOLEAN
    /\ None \notin Pools \cup Drivers \cup {"create", "delete", "deleted"}
    /\ "deleted" \notin Pools
    /\ None \notin [pool : Pools, rec : RecTypes]

SelectTypeOK ==
    /\ rec \in [Pools -> RecTypes]
    /\ available \subseteq Pools /\ roomy \subseteq Pools /\ open \subseteq Pools
    /\ \A d \in Drivers :
         /\ drv[d].op \in {None, "create", "delete"}
         /\ drv[d].alone \in BOOLEAN /\ drv[d].todo \subseteq Pools
         /\ drv[d].half \in Pools \cup {None} /\ drv[d].pool \in Pools \cup {None}
         /\ drv[d].at \in {"build", "purge"} => lock[drv[d].pool] = d
    /\ identity \in Drivers \cup {None}
    /\ lock \in [Pools -> Drivers \cup {None}]
    /\ births \in 0..MaxBirths /\ told \in Pools \cup {None, "deleted"}
    /\ surprises \in 0..MaxSurprises

SelectInit ==
    /\ rec = [p \in Pools |-> NoRec]
    /\ available = Pools /\ roomy \in (SUBSET Pools \ {{}}) /\ open = Pools
    /\ drv = [d \in Drivers |-> NoCall]
    /\ identity = None /\ lock = [p \in Pools |-> None]
    /\ births = 0 /\ told = None /\ surprises = 0

----------------------------------------------------------------------------
Surprise == surprises < MaxSurprises /\ surprises' = surprises + 1
AsUsual == UNCHANGED surprises

Set(d, call) == drv' = [drv EXCEPT ![d] = call]
On(d, at) == drv[d].at = at

\* Start another search over all pools.
Search(d, which) ==
    Set(d, [drv[d] EXCEPT !.at = "search", !.search = which, !.todo = Pools,
                          !.half = None, !.hit = None])

Release(d) ==
    /\ identity' = IF identity = d THEN None ELSE identity
    /\ lock' = [p \in Pools |-> IF lock[p] = d THEN None ELSE lock[p]]

\* The answer.  It promises nothing when the opposite was asked for meanwhile.
Answer(d, about) ==
    /\ Set(d, NoCall) /\ Release(d)
    /\ told' = IF about = None \/ ~drv[d].alone THEN told ELSE about

\* A call begins; alone says that no call for the opposite runs beside it.
Begin(d, op) ==
    LET opposite == {e \in Drivers : drv[e].op \notin {None, op}} IN
    drv' = [e \in Drivers |->
              IF e = d THEN [NoCall EXCEPT !.op = op, !.alone = opposite = {}, !.at = "search",
                                           !.search = "first", !.todo = Pools]
              ELSE IF e \in opposite THEN [drv[e] EXCEPT !.alone = FALSE]
              ELSE drv[e]]

Working == UNCHANGED <<locks, told>>

\* A create takes the creation lock of its name before it searches.
StartCreate(d) ==
    /\ On(d, "idle") /\ identity = None
    /\ identity' = d
    /\ Begin(d, "create")
    /\ told' = IF told = "deleted" THEN None ELSE told
    /\ UNCHANGED <<files, pools, lock>> /\ AsUsual

StartDelete(d) ==
    /\ On(d, "idle")
    /\ Begin(d, "delete")
    /\ told' = None
    /\ UNCHANGED <<files, pools, locks>> /\ AsUsual

----------------------------------------------------------------------------
(* search_volume *)

\* Faulty: a pool that cannot be mounted is passed over.
Barred_Never(p) == FALSE

\* A pool that cannot be mounted and read fails the whole search.
Barred(p) == p \notin available

StateIn(p) == IF p \in available THEN rec[p].state ELSE "none"

\* What the search takes up from pool p; a second find is an error.
Take(d, p) ==
    IF drv[d].hit # None
    THEN Answer(d, None)
    ELSE /\ Set(d, [drv[d] EXCEPT !.todo = @ \ {p}, !.half = None,
                                  !.hit = [pool |-> p, rec |-> rec[p]]])
         /\ Working

\* First the metadata of the name in a pool ...
LookForMetadata(d) ==
    /\ On(d, "search") /\ drv[d].half = None
    /\ \E p \in drv[d].todo :
         IF Barred(p) THEN Answer(d, None)
         ELSE IF StateIn(p) \in {"live", "deleting"} THEN Take(d, p)
         ELSE Set(d, [drv[d] EXCEPT !.half = p]) /\ Working
    /\ UNCHANGED <<files, pools>> /\ AsUsual

\* The intents are looked for with os.walk, which takes a directory that
\* cannot be read for an empty one.
PendingSeen(p) == {rec[p].state = "creating"} \cup (IF BlindLooks THEN {FALSE} ELSE {})

\* ... then a pending creation.
LookForPending(d) ==
    /\ On(d, "search") /\ drv[d].half # None
    /\ LET p == drv[d].half IN
         \E seen \in PendingSeen(p) :
            IF seen THEN Take(d, p)
            ELSE Set(d, [drv[d] EXCEPT !.todo = @ \ {p}, !.half = None]) /\ Working
    /\ UNCHANGED <<files, pools>> /\ AsUsual

Searched(d, which) == On(d, "search") /\ drv[d].search = which /\ drv[d].todo = {}

\* volume_incarnation: the intent as it was found, or the metadata as it is now.
Evidence(hit) ==
    IF hit.rec.state = "creating" THEN hit
    ELSE [pool |-> hit.pool,
          rec |-> IF rec[hit.pool].state \in {"live", "deleting"} THEN rec[hit.pool] ELSE NoRec]

----------------------------------------------------------------------------
(* serialized_existing_volume_operation, delete_volume *)

AfterFirstSearch(d) ==
    /\ Searched(d, "first")
    /\ LET hit == drv[d].hit IN
         \/ /\ hit # None
            /\ Set(d, [drv[d] EXCEPT !.at = "lock", !.was = Evidence(hit), !.pool = hit.pool])
            /\ Working
         \/ hit = None /\ drv[d].op = "create" /\ Search(d, "method") /\ Working
         \/ hit = None /\ drv[d].op = "delete" /\ Answer(d, "deleted")
    /\ UNCHANGED <<files, pools>> /\ AsUsual

\* The lifecycle lock is in the pool; a wait for it ends with an error.
LockFound(d) ==
    /\ On(d, "lock")
    /\ LET p == drv[d].pool IN
         \/ /\ lock[p] = None /\ lock' = [lock EXCEPT ![p] = d]
            /\ Search(d, "locked") /\ UNCHANGED <<identity, told>>
         \/ lock[p] # None /\ Answer(d, None)
    /\ UNCHANGED <<files, pools>> /\ AsUsual

\* Still in that pool, and still of that generation.
Same(d) ==
    /\ drv[d].hit # None
    /\ drv[d].hit.pool = drv[d].pool /\ Evidence(drv[d].hit) = drv[d].was

AfterLockedSearch(d) ==
    /\ Searched(d, "locked")
    /\ \/ Same(d) /\ drv[d].op = "create" /\ Search(d, "method") /\ Working
       \/ /\ Same(d) /\ drv[d].op = "delete"
          /\ Set(d, [drv[d] EXCEPT !.at = "purge"]) /\ Working
       \/ drv[d].hit = None /\ drv[d].op = "delete" /\ Answer(d, "deleted")
       \/ drv[d].hit = None /\ drv[d].op = "create" /\ Answer(d, None)
       \/ drv[d].hit # None /\ ~Same(d) /\ Answer(d, None)
    /\ UNCHANGED <<files, pools>> /\ AsUsual

\* _delete_volume_locked: a pending creation is cancelled; a volume gets a
\* tombstone before its data goes.
Purge(d) ==
    /\ On(d, "purge")
    /\ LET p == drv[d].pool IN
         IF rec[p].state = "live"
         THEN rec' = [rec EXCEPT ![p].state = "deleting"] /\ UNCHANGED drv /\ Working
         ELSE rec' = [rec EXCEPT ![p] = NoRec] /\ Answer(d, "deleted")
    /\ UNCHANGED <<births, pools>> /\ AsUsual

----------------------------------------------------------------------------
(* CreateVolume *)

\* A pending creation is resumed where it is, even in a fenced pool; a
\* finished one is the answer.
AfterMethodSearch(d) ==
    /\ Searched(d, "method")
    /\ LET hit == drv[d].hit IN
         \/ /\ hit # None /\ hit.rec.state = "creating"
            /\ Set(d, [drv[d] EXCEPT !.at = "admitted", !.pool = hit.pool]) /\ Working
         \/ hit # None /\ hit.rec.state = "live" /\ Answer(d, hit.pool)
         \/ hit # None /\ hit.rec.state = "deleting" /\ Answer(d, None)
         \/ /\ hit = None
            /\ Set(d, [drv[d] EXCEPT !.at = "select", !.todo = open]) /\ Working
    /\ UNCHANGED <<files, pools>> /\ AsUsual

Skip(d, p) == Set(d, [drv[d] EXCEPT !.todo = @ \ {p}]) /\ Working

\* Faulty: whatever goes wrong with a pool, the next one is tried.
AdmissionBroke_Next(d, p) == Skip(d, p)

\* An error once the transaction has begun is not a reason to go on.
AdmissionBroke(d, p) == Answer(d, None)

\* A reservation of the name that is there already is taken over.
Reserved(p) ==
    IF rec[p].state = "none" THEN [state |-> "creating", gen |-> births + 1] ELSE rec[p]

\* mount_and_select_hosting_volume: in any order, the first pool that can be
\* mounted, whose capacity can be rebuilt and which has room.  The intent is
\* durable before the transaction commits, which may fail.
Select(d) ==
    /\ On(d, "select")
    /\ \/ \E p \in drv[d].todo :
            \/ /\ p \notin available \/ p \notin roomy
               /\ Skip(d, p) /\ UNCHANGED files /\ AsUsual
            \/ p \in available /\ Skip(d, p) /\ UNCHANGED files /\ Surprise
            \/ /\ p \in available \cap roomy /\ births < MaxBirths
               /\ rec[p].state \in {"none", "creating"}
               /\ rec' = [rec EXCEPT ![p] = Reserved(p)]
               /\ births' = births + (IF rec[p].state = "none" THEN 1 ELSE 0)
               /\ \/ /\ Set(d, [drv[d] EXCEPT !.at = "admitted", !.pool = p])
                     /\ Working /\ AsUsual
                  \/ AdmissionBroke(d, p) /\ Surprise
       \/ drv[d].todo = {} /\ Answer(d, None) /\ UNCHANGED files /\ AsUsual
       \/ births = MaxBirths /\ Answer(d, None) /\ UNCHANGED files /\ AsUsual
    /\ UNCHANGED pools

\* Faulty: the lock of another call does not stop it.
LockFree_Always(d, p) == TRUE

LockFree(d, p) == lock[p] \in {None, d}

\* Admitted, the create takes the lifecycle lock unless it has it already ...
LockAdmitted(d) ==
    /\ On(d, "admitted")
    /\ LET p == drv[d].pool IN
         \/ /\ LockFree(d, p) /\ lock' = [lock EXCEPT ![p] = d]
            /\ Search(d, "verify") /\ UNCHANGED <<identity, told>>
         \/ ~LockFree(d, p) /\ Answer(d, None)
    /\ UNCHANGED <<files, pools>> /\ AsUsual

\* ... and makes sure that its reservation is still there.
Verify(d) ==
    /\ Searched(d, "verify")
    /\ LET hit == drv[d].hit IN
         IF hit # None /\ hit.pool = drv[d].pool /\ hit.rec.state \in {"creating", "live"}
         THEN Set(d, [drv[d] EXCEPT !.at = "build"]) /\ Working
         ELSE Answer(d, None)
    /\ UNCHANGED <<files, pools>> /\ AsUsual

Build(d) ==
    /\ On(d, "build")
    /\ \/ rec' = [rec EXCEPT ![drv[d].pool].state = "live"] /\ Answer(d, drv[d].pool) /\ AsUsual
       \/ UNCHANGED rec /\ Answer(d, None) /\ Surprise
    /\ UNCHANGED <<births, pools>>

----------------------------------------------------------------------------
\* A process dies: the kernel releases its locks.
Die(d) ==
    /\ ~On(d, "idle") /\ Surprise
    /\ Set(d, NoCall) /\ Release(d)
    /\ UNCHANGED <<files, pools, told>>

\* Pools fail and recover, fill up and empty, are fenced and opened.  One that
\* fails does so between the looks at it; see PendingSeen.
ChangePools ==
    /\ Surprise
    /\ \E p \in Pools :
         \/ /\ \A d \in Drivers : drv[d].half # p
            /\ available' \in {available \cup {p}, available \ {p}} /\ UNCHANGED <<roomy, open>>
         \/ roomy' \in {roomy \cup {p}, roomy \ {p}} /\ UNCHANGED <<available, open>>
         \/ open' \in {open \cup {p}, open \ {p}} /\ UNCHANGED <<available, roomy>>
    /\ UNCHANGED <<files, drv, locks, told>>

Driver(d) ==
    \/ StartCreate(d) \/ StartDelete(d)
    \/ LookForMetadata(d) \/ LookForPending(d)
    \/ AfterFirstSearch(d) \/ LockFound(d) \/ AfterLockedSearch(d) \/ Purge(d)
    \/ AfterMethodSearch(d) \/ Select(d) \/ LockAdmitted(d) \/ Verify(d) \/ Build(d)
    \/ Die(d)

SelectNext == (\E d \in Drivers : Driver(d)) \/ ChangePools

SelectSpec == SelectInit /\ [][SelectNext]_selectVars

----------------------------------------------------------------------------
(***************************************************************************)
(* A name has a home in one pool at most: no order of creates, deletes,    *)
(* failing pools, failing commits and deaths of the driver leaves a        *)
(* volume, a pending creation or a tombstone of it in two                  *)
(* (search_volume, serialized_volume_creation_identity).                   *)
(***************************************************************************)
OneHome == \A p, q \in Pools : rec[p].state # "none" /\ rec[q].state # "none" => p = q

(***************************************************************************)
(* What was answered stays true until something else is asked for: the     *)
(* pool named by a create has the volume, and after a delete no pool has   *)
(* anything of it (existing_volume_response, delete_volume).               *)
(***************************************************************************)
AnswersHold ==
    /\ told \in Pools => rec[told].state = "live"
    /\ told = "deleted" => \A p \in Pools : rec[p].state = "none"
====
