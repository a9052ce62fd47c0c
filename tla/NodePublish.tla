---- MODULE NodePublish ----
(***************************************************************************)
(* The node plugin on one node and one hosting pool: NodePublishVolume and *)
(* NodeUnpublishVolume (nodeserver.py) with the shared Gluster client they *)
(* mount the pool with and the publish targets they bind volumes to        *)
(* (volumeutils.py mount_glusterfs, mount_volume, unmount_volume).         *)
(*                                                                         *)
(* The pool has a record, whose mount identity is a generation (new when   *)
(* the pool is created again) and a fingerprint of its configuration (new  *)
(* when it is edited); a pool of an old release has no identity yet.  Each *)
(* Gluster client is a process with the identity it was started with in    *)
(* its arguments, and a filesystem of its own, so a device number of its   *)
(* own.  A client stays as long as its filesystem is mounted or open       *)
(* somewhere; what it shows is what the servers had when it started.       *)
(*                                                                         *)
(* Target t belongs to volume t; with a single-PV pool all targets belong  *)
(* to the volume that owns the pool.  The same volume IDs exist in every   *)
(* generation of the pool, which is the worst case for the driver.         *)
(***************************************************************************)
EXTENDS TargetLocks, Integers, SequencesExt

CONSTANTS Missing,        \* targets whose volume is not, or no longer, in the pool
          Movable,        \* targets kubelet may change its mind about
          Pools,          \* kinds of pool: "subvol" or "block" (a shared pool and what
                          \* its volumes are), "single" (one volume owns it), "legacy"
                          \* (subvolumes in a pool of a release without identity)
          Clients,        \* numbers of the Gluster clients (their devices)
          MaxFaults,      \* bound on deaths, failing calls and repeated requests
          MaxEdits        \* bound on changes of the pool

ASSUME NodeAssumption ==
    Clients \subseteq Nat \ {0} /\ MaxFaults \in Nat /\ MaxEdits \in Nat

Bare     == 0     \* the empty directory under the pool's mount
Unpinned == -1

NoId == [g |-> 0, c |-> 0]
Gone == [id |-> NoId, gen |-> 0, up |-> FALSE]

VARIABLES rec,       \* the pool's record: generation g (0: no identity) and config c
          pool,      \* which kind of pool it is
          client,    \* the Gluster clients
          stack,     \* what is mounted on the pool's mountpoint, last on top
          mnt,       \* what is mounted on each target
          card,      \* the publish state beside each target, NoId when absent
          call,      \* the local variables of each handler
          mutex,     \* mount_lock
          late,      \* <<id>> of a launch that goes on after its caller died, or <<>>
          orphaned,  \* a launch has outlived its caller
          want,      \* what kubelet wants of each target
          last,      \* how the last call to end on each target ended
          faults, edits

poolVars == <<rec, edits, pool>>
mountVars == <<client, stack>>
targetVars == <<mnt, card>>
vars == <<lockVars, poolVars, mountVars, targetVars, call, mutex, late, orphaned,
          want, last, faults>>

Generation(r) == IF r.g = 2 THEN 2 ELSE 1
Identity(r) == IF r.g = 0 THEN NoId ELSE r

\* An edit makes the marker of the unchanged legacy configuration void.
LegacyFallback(r) == pool = "legacy" /\ r.g = 1 /\ r.c = 1

NewCall == [op |-> "none", pc |-> "none", rec |-> NoId, id |-> NoId, pin |-> Unpinned]

InUse == UNION { {stack[i] : i \in DOMAIN stack},
                 UNION {{mnt[t][i] : i \in DOMAIN mnt[t]} : t \in Targets},
                 {call[c].pin : c \in Calls} }

\* A client whose filesystem nobody mounts or holds open exits.
Keep(cl) == client' = [n \in Clients |-> IF n \in InUse' THEN cl[n] ELSE Gone]

IdTypes == {NoId} \cup [g : 0..2, c : 1..2]

TypeOK ==
    /\ LockTypeOK
    /\ rec \in [g : 0..2, c : 1..2]
    /\ pool \in Pools
    /\ client \in [Clients -> [id : IdTypes, gen : 0..2, up : BOOLEAN]]
    /\ stack \in Seq(Clients)
    /\ mnt \in [Targets -> Seq(Clients \cup {Bare})]
    /\ card \in [Targets -> IdTypes]
    /\ \A c \in Calls :
         /\ call[c].op \in {"none", "publish", "unpublish"}
         /\ call[c].pin \in Clients \cup {Bare, Unpinned}
         /\ at[c] # "working" => call[c].pin = Unpinned
         /\ call[c].pc \in {"lock", "launch"} => at[c] = "working"
    /\ mutex \in Calls \cup {NoCall}
    /\ mutex # NoCall => call[mutex].pc = "launch"
    /\ late \in {<<>>} \cup {<<i>> : i \in IdTypes} /\ orphaned \in BOOLEAN
    /\ want \in [Targets -> BOOLEAN]
    /\ last \in [Targets -> {"published", "unpublished", "failed"}]
    /\ faults \in 0..MaxFaults /\ edits \in 0..MaxEdits

Init ==
    /\ LockInit
    /\ pool \in Pools
    /\ rec = [g |-> IF pool = "legacy" THEN 0 ELSE 1, c |-> 1]
    /\ client = [n \in Clients |-> Gone]
    /\ stack = <<>>
    /\ mnt = [t \in Targets |-> <<>>]
    /\ card = [t \in Targets |-> NoId]
    /\ call = [c \in Calls |-> NewCall]
    /\ mutex = NoCall /\ late = <<>> /\ orphaned = FALSE
    /\ want = [t \in Targets |-> t \notin Movable]
    /\ last = [t \in Targets |-> IF t \in Missing THEN "failed" ELSE "unpublished"]
    /\ faults = 0 /\ edits = 0

----------------------------------------------------------------------------
(* The pool's mount. *)

Matches(label, id) == id = NoId \/ label = id

\* is_gluster_mount_established: some client process with these arguments runs,
\* and the mount table has an entry with this name at the mountpoint.
Established(id) ==
    /\ \E n \in InUse \cap Clients : client[n].up /\ Matches(client[n].id, id)
    /\ \E i \in DOMAIN stack : Matches(client[stack[i]].id, id)

TopOfPool == IF stack = <<>> THEN Bare ELSE Last(stack)

\* A file operation through the client is answered: its process runs and the
\* servers it was started for exist.
Answers(n) == n \in Clients /\ client[n].up /\ client[n].gen = Generation(rec)

Free == Clients \ InUse

\* A new client; which number it gets is of no importance.
NewClient == CHOOSE n \in Free : TRUE

\* Faulty: the clients are launched without mount_lock.
MountLockFree_Always == TRUE

MountLockFree == mutex = NoCall

\* Faulty: a failing launch leaves the lock taken.
LockAfter_Taken(c, ok) == IF ok THEN NoCall ELSE c

\* Leaving the "with mount_lock" block, also by an exception.
LockAfter(c, ok) == NoCall

\* Faulty: the state seen before the lock is not looked at again under it.
Recheck_Never(id) == FALSE

\* The mount is looked at again under the lock.
Recheck(id) == Established(id)

----------------------------------------------------------------------------
(* Handlers. *)

Work(c, op, pc) == at[c] = "working" /\ call[c].op = op /\ call[c].pc = pc
Stay == UNCHANGED <<lockVars, last>>
Goto(c, pc) == call' = [call EXCEPT ![c].pc = pc] /\ Stay
Trouble == faults < MaxFaults /\ faults' = faults + 1
Calm == UNCHANGED faults

\* The handler answers, and the lock of its target is released.
Finish(c, ok) ==
    /\ Release(c)
    /\ call' = [call EXCEPT ![c] = NewCall]
    /\ last' = [last EXCEPT ![TargetOf(c)] = IF ~ok THEN "failed"
                                             ELSE IF call[c].op = "publish" THEN "published"
                                             ELSE "unpublished"]

\* What the handlers' steps leave alone.
Quietly == UNCHANGED <<poolVars, late, orphaned, want>>

\* A call of the handler fails (no server is reachable, glusterfs, mount,
\* umount, losetup, chmod or a write reports an error): the answer is an error.
Failed(c) == Trouble /\ Finish(c, FALSE)

----------------------------------------------------------------------------
(* NodePublishVolume: the hosting mount. *)

Mounted == IF pool = "single" THEN "claim" ELSE "pin"

\* mount_glusterfs reads the record once more and returns if its client is
\* there; otherwise it needs a reachable server and the lock.
MountPool(c) ==
    /\ Work(c, "publish", "mount")
    /\ LET id == Identity(rec) IN
         IF Established(id)
         THEN Goto(c, Mounted) /\ Calm
         ELSE \/ call' = [call EXCEPT ![c].id = id, ![c].pc = "lock"] /\ Stay /\ Calm
              \/ Failed(c)
    /\ Quietly /\ UNCHANGED <<mountVars, targetVars, mutex>>

\* Under mount_lock: look again, and take away what is mounted there.
DetachStale(c) ==
    /\ Work(c, "publish", "lock") /\ MountLockFree
    /\ IF Recheck(call[c].id)
       THEN /\ call' = [call EXCEPT ![c].id = NoId, ![c].pc = Mounted] /\ Stay
            /\ Calm /\ UNCHANGED <<stack, mutex>>
       ELSE \/ /\ Goto(c, "launch") /\ mutex' = c
               /\ stack' = IF stack = <<>> THEN <<>> ELSE Front(stack)
               /\ Calm
            \/ Failed(c) /\ UNCHANGED <<stack, mutex>>
    /\ Quietly /\ UNCHANGED targetVars /\ Keep(client)

Started(n, id) ==
    /\ stack' = Append(stack, n)
    /\ UNCHANGED targetVars
    /\ Keep([client EXCEPT ![n] = [id |-> id, gen |-> Generation(rec), up |-> TRUE]])

\* The glusterfs command; exit status 32 is no error if the mount is there.
Launch(c) ==
    /\ Work(c, "publish", "launch")
    /\ \/ /\ Free # {}
          /\ call' = [call EXCEPT ![c].id = NoId, ![c].pc = Mounted] /\ Stay
          /\ Started(NewClient, call[c].id) /\ Calm /\ mutex' = LockAfter(c, TRUE)
       \/ /\ Failed(c) /\ mutex' = LockAfter(c, FALSE)
          /\ UNCHANGED <<mountVars, targetVars>>
       \/ /\ Trouble /\ Established(call[c].id)
          /\ call' = [call EXCEPT ![c].id = NoId, ![c].pc = Mounted] /\ Stay
          /\ mutex' = LockAfter(c, TRUE) /\ UNCHANGED <<mountVars, targetVars>>
    /\ Quietly

----------------------------------------------------------------------------
(* NodePublishVolume: the source and the target. *)

\* A single-PV pool must have the claim of this volume at its mountpoint.
ClaimHere(t) == Answers(TopOfPool) /\ t \notin Missing

CheckClaim(c) ==
    /\ Work(c, "publish", "claim")
    /\ IF ClaimHere(TargetOf(c)) THEN Goto(c, "pin") ELSE Finish(c, FALSE)
    /\ Calm /\ Quietly /\ UNCHANGED <<mountVars, targetVars, mutex>>

\* _pinned_volume_source opens what the path leads to now.  The path of a
\* shared pool's volume leads nowhere when the pool is not mounted; the path of
\* a single-PV pool's volume is the mountpoint itself.
PinSource(c) ==
    /\ Work(c, "publish", "pin")
    /\ IF \/ Answers(TopOfPool) /\ TargetOf(c) \notin Missing
          \/ pool = "single" /\ stack = <<>>
       THEN call' = [call EXCEPT ![c].pin = TopOfPool, ![c].pc = "target"] /\ Stay
       ELSE Finish(c, FALSE)
    /\ Calm /\ Quietly /\ UNCHANGED <<mountVars, targetVars, mutex>>

\* Faulty: the recorded mount identity must be the current one.
CardMatches_Exactly(r, t) == card[t] = r

\* Faulty: any publish state of this volume will do.
CardMatches_Any(r, t) == card[t] # NoId

\* The publish state beside the target names this pool generation; of its
\* fields only the configuration in the mount identity may differ.
CardMatches(r, t) == card[t] # NoId /\ card[t].g = r.g

\* _same_logical_stale_source: what is mounted on t is an old mount of the
\* volume a request with pool record r asks for.
SameLogical(r, t) ==
    LET n == Last(mnt[t]) IN
    IF pool = "block"
    THEN r.g = 0 \/ CardMatches(r, t)
    ELSE /\ n # Bare
         /\ \/ r.g = 0
            \/ client[n].id = NoId /\ LegacyFallback(r)
            \/ client[n].id = r
            \/ client[n].id.g = r.g /\ CardMatches(r, t)

\* mounted_volume_matches: the target shows the very filesystem of the source.
SameSource(c, t) == Answers(call[c].pin) /\ Last(mnt[t]) = call[c].pin

Inspect(c) ==
    LET t == TargetOf(c) IN
    /\ Work(c, "publish", "target")
    /\ IF pool = "single" /\ ~ClaimHere(t)  THEN Finish(c, FALSE)
       ELSE IF mnt[t] = <<>>                THEN Goto(c, "bind")
       ELSE IF SameSource(c, t)             THEN Goto(c, "record")
       ELSE IF SameLogical(call[c].rec, t)  THEN Goto(c, "clear")
       ELSE Finish(c, FALSE)
    /\ Calm /\ Quietly /\ UNCHANGED <<stack, targetVars, mutex>>
    /\ Keep(client)

\* unmount_volume: detach the loop device and the mount ...
Umount(c, next) ==
    /\ \/ /\ mnt' = [mnt EXCEPT ![TargetOf(c)] = Front(@)]
          /\ Goto(c, next) /\ Calm
       \/ Failed(c) /\ UNCHANGED mnt
    /\ Quietly /\ UNCHANGED <<stack, card, mutex>> /\ Keep(client)

\* Faulty: the publish state of an earlier mount is left behind.
Removed_Kept(t) == mnt[t] = <<>> /\ UNCHANGED card

\* ... then remove the target, which fails while something is mounted there,
\* and at last the publish state.
Removed(t) == mnt[t] = <<>> /\ card' = [card EXCEPT ![t] = NoId]

ClearStale(c) == Work(c, "publish", "clear") /\ Umount(c, "clean")

CleanStale(c) ==
    /\ Work(c, "publish", "clean")
    /\ \/ Removed(TargetOf(c)) /\ Goto(c, "bind") /\ Calm
       \/ mnt[TargetOf(c)] # <<>> /\ Finish(c, FALSE) /\ Calm /\ UNCHANGED card
       \/ Failed(c) /\ UNCHANGED card
    /\ Quietly /\ UNCHANGED <<stack, mnt, mutex>> /\ Keep(client)

\* mount --bind, the remount with its options and chmod; a failure is rolled
\* back, unless umount fails as well or chmod was the one to fail.
Bind(c) ==
    LET t == TargetOf(c) IN
    /\ Work(c, "publish", "bind")
    /\ IF Answers(call[c].pin) \/ call[c].pin = Bare
       THEN \/ /\ mnt' = [mnt EXCEPT ![t] = Append(@, call[c].pin)]
               /\ Goto(c, "record") /\ Calm
            \/ /\ mnt' \in {mnt, [mnt EXCEPT ![t] = Append(@, call[c].pin)]}
               /\ Failed(c)
       ELSE Finish(c, FALSE) /\ Calm /\ UNCHANGED mnt
    /\ Quietly /\ UNCHANGED <<stack, card, mutex>> /\ Keep(client)

\* _record_publish_state; a pool without identity has no publish state.
Recorded(r, t) == IF r.g = 0 THEN card ELSE [card EXCEPT ![t] = r]

Record(c) ==
    /\ Work(c, "publish", "record")
    /\ \/ card' = Recorded(call[c].rec, TargetOf(c)) /\ Finish(c, TRUE) /\ Calm
       \/ UNCHANGED card /\ Failed(c)
    /\ Quietly /\ UNCHANGED <<stack, mnt, mutex>> /\ Keep(client)

----------------------------------------------------------------------------
(* NodeUnpublishVolume.  The hosting mount is kept. *)

Unmount(c) ==
    /\ Work(c, "unpublish", "unmount")
    /\ IF mnt[TargetOf(c)] # <<>>
       THEN Umount(c, "unlink")
       ELSE /\ Goto(c, "unlink")
            /\ Calm /\ Quietly /\ UNCHANGED <<mountVars, targetVars, mutex>>

Unlink(c) ==
    /\ Work(c, "unpublish", "unlink")
    /\ \/ Removed(TargetOf(c)) /\ Finish(c, TRUE) /\ Calm
       \/ mnt[TargetOf(c)] # <<>> /\ Finish(c, FALSE) /\ Calm /\ UNCHANGED card
       \/ Failed(c) /\ UNCHANGED card
    /\ Quietly /\ UNCHANGED <<mountVars, mnt, mutex>>

----------------------------------------------------------------------------
(* Kubelet, the locks and the faults. *)

Elsewhere == UNCHANGED <<poolVars, mountVars, targetVars, mutex, late, orphaned>>

Unsatisfied(t) == last[t] # IF want[t] THEN "published" ELSE "unpublished"

\* Kubelet asks for what it wants until it is answered with success.  It may
\* give up waiting for a request and send the next while the handler still
\* runs, and after a restart of its own it asks again for what it has.
Ask(c) ==
    LET t == TargetOf(c) IN
    /\ \A i \in Threads : i < c[2] => at[<<t, i>>] # "idle"
    /\ Enter(c)
    /\ call' = [call EXCEPT ![c] = [NewCall EXCEPT !.op = IF want'[t] THEN "publish" ELSE "unpublish"]]
    /\ Elsewhere /\ UNCHANGED last

Retry(c) ==
    /\ ~Busy(TargetOf(c)) /\ Unsatisfied(TargetOf(c))
    /\ UNCHANGED want /\ Ask(c) /\ Calm

Repeat(c) ==
    /\ Busy(TargetOf(c)) \/ ~Unsatisfied(TargetOf(c))
    /\ UNCHANGED want /\ Ask(c) /\ Trouble

\* The pod has been deleted, or another one has been started.
ChangeMind(c) ==
    LET t == TargetOf(c) IN
    /\ t \in Movable /\ want' = [want EXCEPT ![t] = ~@]
    /\ Ask(c)
    /\ IF Busy(t) THEN Trouble ELSE Calm

\* With the lock of its target the handler validates the request; a publish
\* reads the pool's record.
Start(c) ==
    /\ Acquire(c)
    /\ call' = [call EXCEPT ![c] = IF @.op = "publish" THEN [@ EXCEPT !.rec = rec, !.pc = "mount"]
                                                      ELSE [@ EXCEPT !.pc = "unmount"]]
    /\ Elsewhere /\ Calm /\ UNCHANGED <<want, last>>

Depart(c) == Leave(c) /\ Elsewhere /\ Calm /\ UNCHANGED <<call, want, last>>

\* The pool is edited, gets its identity from a new release, or is deleted and
\* created again under its name.
EditPool ==
    /\ \/ rec.c = 1 /\ rec' = [rec EXCEPT !.c = 2]
       \/ rec.g = 0 /\ rec' = [rec EXCEPT !.g = 1]
       \/ rec.g = 1 /\ rec' = [g |-> 2, c |-> 1]
    /\ edits < MaxEdits /\ edits' = edits + 1 /\ Calm
    /\ UNCHANGED <<lockVars, pool, mountVars, targetVars, call, mutex,
                   late, orphaned, want, last>>

ClientDies(n) ==
    /\ client[n].up /\ client' = [client EXCEPT ![n].up = FALSE] /\ Trouble
    /\ UNCHANGED <<lockVars, poolVars, stack, targetVars, call, mutex, late, orphaned, want, last>>

Interrupted ==
    /\ Forget /\ mutex' = NoCall
    /\ call' = [c \in Calls |-> NewCall]
    /\ last' = [t \in Targets |-> IF Busy(t) THEN "failed" ELSE last[t]]
    /\ Trouble /\ UNCHANGED <<poolVars, targetVars, want>>

\* The CSI process dies and is started again: the clients live on, and a
\* glusterfs command it had started may still come to its end.
CsiDies ==
    /\ \E c \in Calls : at[c] # "idle"
    /\ Interrupted
    /\ \/ UNCHANGED <<late, orphaned>>
       \/ mutex # NoCall /\ late' = <<call[mutex].id>> /\ orphaned' = TRUE
    /\ UNCHANGED stack /\ Keep(client)

LateLaunch ==
    /\ late # <<>> /\ Free # {}
    /\ Calm /\ UNCHANGED <<lockVars, poolVars, call, mutex, orphaned, want, last>>
    /\ Started(NewClient, late[1]) /\ late' = <<>>

\* The container dies with every client; only the targets, which are mounts of
\* the host, are left, with nothing behind them.
PodDies ==
    /\ \E c \in Calls : at[c] # "idle" \/ stack # <<>>
    /\ Interrupted
    /\ stack' = <<>> /\ late' = <<>> /\ orphaned' = FALSE
    /\ Keep([n \in Clients |-> [client[n] EXCEPT !.up = FALSE]])

Step(c) ==
    \/ Start(c) \/ MountPool(c) \/ DetachStale(c) \/ Launch(c)
    \/ CheckClaim(c) \/ PinSource(c) \/ Inspect(c)
    \/ ClearStale(c) \/ CleanStale(c) \/ Bind(c) \/ Record(c)
    \/ Unmount(c) \/ Unlink(c) \/ Depart(c)

Next ==
    \/ \E c \in Calls : Retry(c) \/ Repeat(c) \/ ChangeMind(c) \/ Step(c)
    \/ EditPool
    \/ \E n \in Clients : ClientDies(n)
    \/ CsiDies \/ LateLaunch \/ PodDies

\* Handlers run, and kubelet repeats a request until it succeeds; with
\* requiresRepublish off it does not publish again what is published.
Fairness ==
    \A c \in Calls : WF_vars(Step(c) \/ Retry(c))

Spec == Init /\ [][Next]_vars /\ Fairness

----------------------------------------------------------------------------
(* Properties *)

Quiet(t) == ~Busy(t)

(***************************************************************************)
(* What the last request on a target was told stays true until the next    *)
(* one: a published target has one mount, and its publish state unless the *)
(* pool has no identity; an unpublished one has neither (mount_volume,     *)
(* unmount_volume).                                                        *)
(***************************************************************************)
AnswersStayTrue ==
    \A t \in Targets : Quiet(t) =>
        /\ last[t] = "published" =>
             /\ Len(mnt[t]) = 1
             /\ card[t] = NoId => pool = "legacy"
             /\ pool # "single" => mnt[t][1] # Bare
        /\ last[t] = "unpublished" => mnt[t] = <<>> /\ card[t] = NoId

(***************************************************************************)
(* A published target of a pool that has kept its identity can always be   *)
(* rebuilt: whatever happened to the clients and to the configuration, the *)
(* next publish of it recognises the mount as its own                      *)
(* (_same_logical_stale_source, _publish_state_matches).                   *)
(***************************************************************************)
PublishedIsRecoverable ==
    \A t \in Targets :
        Quiet(t) /\ last[t] = "published" /\ pool # "legacy" /\ rec.g = 1 /\ mnt[t][1] # Bare
            => SameLogical(rec, t)

(***************************************************************************)
(* A publish request takes a mount off a target only when it is a mount of *)
(* the pool generation the request was made for (mount_volume).            *)
(***************************************************************************)
RebuildKeepsGeneration ==
    [][\A c \in Calls : ClearStale(c) /\ mnt'[TargetOf(c)] # mnt[TargetOf(c)] =>
          client[Last(mnt[TargetOf(c)])].gen = Generation(call[c].rec)]_vars

(***************************************************************************)
(* The pool's mountpoint carries one client, however many requests find it *)
(* missing at the same time, unless a glusterfs command outlived the       *)
(* process that had started it (mount_lock).                               *)
(***************************************************************************)
OneClient == orphaned \/ Len(stack) <= 1

(***************************************************************************)
(* No request takes away a live client that has the identity it needs      *)
(* itself: two that find the client missing do not replace each other's    *)
(* (the second look in mount_glusterfs).                                   *)
(***************************************************************************)
LiveClientKept ==
    [][\A c \in Calls : DetachStale(c) /\ stack # <<>> /\ stack' # stack =>
          ~ (client[Last(stack)].up /\ Matches(client[Last(stack)].id, call[c].id))]_vars

\* Requests refused for good: the target has a mount that is not the
\* volume's, or the pool's dead mount passes for established because another
\* client of its identity lives on.
Refused(t) ==
    \/ Established(Identity(rec)) /\ ~Answers(TopOfPool)
    \/ /\ mnt[t] # <<>> /\ ~SameLogical(rec, t)
       /\ ~(Answers(Last(mnt[t])) /\ Last(mnt[t]) = TopOfPool)

(***************************************************************************)
(* A target kubelet wants published gets published, and one it wants       *)
(* unpublished gets unpublished, after any faults and any overlapping      *)
(* requests (the locks are given back on every path, and mount_volume      *)
(* rebuilds what a restart has left).                                      *)
(***************************************************************************)
KubeletServed ==
    \A t \in Targets \ Missing : []<>(~Unsatisfied(t) \/ (want[t] /\ Refused(t)))
====
