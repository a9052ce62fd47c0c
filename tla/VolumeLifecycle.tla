--------------------------- MODULE VolumeLifecycle ---------------------------
(***************************************************************************)
(* The life of the managed subvolumes of one shared storage pool: the CSI  *)
(* calls CreateVolume, DeleteVolume and ControllerExpandVolume and the     *)
(* command that purges archived volumes, run by several controller         *)
(* processes over one mounted file system.                                 *)
(*                                                                         *)
(* The pool keeps everything in files, so that a process may die between   *)
(* any two of its steps: create intents, expansion intents, the metadata   *)
(* of a volume, its payload directory with its quota, the archive, and     *)
(* stat.db, an SQLite index of the reserved bytes which is rebuilt from    *)
(* the files.  A process dies, times out on a lock or gets an I/O error in *)
(* the action Abandon; its flocks and its open transaction go with it.     *)
(***************************************************************************)
EXTENDS Integers, FiniteSets, Functions

CONSTANTS
    Procs,          \* controller processes (and shells running the purge)
    Vols,           \* CSI volume IDs
    Sizes,          \* sizes a caller may ask for
    Total,          \* size of the pool
    MaxGen,         \* BOUND: generations (incarnations) of one volume ID
    Policies,       \* reclaim policies the pool's record may carry
    Calls,          \* the calls that are made
    OrderlyCaller,  \* TRUE: Expand follows the answer to Create (see below)
    None            \* no process, no volume

Incs     == 1..MaxGen
Archives == Vols \X Incs         \* one fresh archive name per generation
Ids      == Vols \cup Archives   \* keys of the pv_stats table

ASSUME ConstantsAssumption ==
    /\ None \notin Procs \cup Vols
    /\ Vols \cap Archives = {}
    /\ Sizes \subseteq Nat \ {0}
    /\ Total \in Nat
    /\ MaxGen \in Nat
    /\ Policies \subseteq {"delete", "archive", "retain"} /\ Policies # {}
    /\ Calls \subseteq {"create", "delete", "expand", "reclaim"}
    /\ OrderlyCaller \in BOOLEAN

VARIABLES
    \* files of the pool
    intent,      \* <path>.create-intent of a volume: state "creating"
    meta,        \* info/<path>.json: state "live", "archiving" or "deleting"
    xint,        \* <path>.expand-intent: from, to
    payload,     \* the subvolume directory: generation and quota
    arcMeta,     \* info/archive/<name>.json: "archiving", "archived", ...
    arcPayload,  \* archive/<name>
    db,          \* committed pv_stats rows; 0 is no row
    policy,      \* pvReclaimPolicy of <pool>.info
    nextInc,     \* the next fresh incarnation (uuid4) of each volume
    \* locks
    ident,       \* flock on the create identity of a name
    vlock,       \* flock on info/.locks/<volume>
    txOwner,     \* holder of SQLite's write lock (BEGIN IMMEDIATE)
    txView,      \* pv_stats as the open transaction sees it
    \* the processes
    pc, call, vol, req,
    found,       \* what search_volume returned
    seen,        \* volume_incarnation taken before the lock wait
    \* history
    acked        \* last answer to Create or Expand with no Delete since

files  == <<intent, meta, xint, payload, arcMeta, arcPayload>>
locks  == <<ident, vlock, txOwner, txView>>
locals == <<call, vol, req, found, seen>>
vars   == <<files, db, policy, nextInc, locks, pc, locals, acked>>

(***************************************************************************)
(* Records.  Metadata, intents, answers of search_volume and evidence of a *)
(* generation are all a state, a size and an incarnation.                  *)
(***************************************************************************)
Rec(s, z, i) == [state |-> s, size |-> z, inc |-> i]
NoRec        == Rec("absent", 0, 0)
NoSpan       == [from |-> 0, to |-> 0]
NoPayload    == [inc |-> 0, quota |-> 0]

SizesOrZero  == Sizes \cup {0}

Kind(states) == {NoRec} \cup [state : states, size : Sizes, inc : Incs]
Intents  == Kind({"creating"})
Metadata == Kind({"live", "archiving", "deleting"})
Archived == Kind({"archiving", "archived", "reclaiming"})
Answers  == Intents \cup Metadata \cup Archived \cup Kind({"handoff"})
Promises == Kind({"live"}) \cup [state : {"deleting"}, size : {0}, inc : 0..MaxGen]
Spans    == {NoSpan} \cup [from : Sizes, to : Sizes]
Payloads == {NoPayload} \cup [inc : Incs, quota : SizesOrZero]

Exists(r) == r.state # "absent"

(***************************************************************************)
(* Capacity.  Reservation(id) is what the walk over the pool's files finds *)
(* reserved for an identity; Rebuilt is the pv_stats table with those      *)
(* reservations laid over it.                                              *)
(***************************************************************************)
HandedOff(a) == meta[a[1]].state = "archiving" /\ meta[a[1]].inc = a[2]

Tombstone(id) ==
    IF id \in Vols
    THEN meta[id].state = "deleting" /\ payload[id] = NoPayload
    ELSE arcMeta[id].state = "reclaiming" /\ arcPayload[id] = NoPayload

\* The walk files a spent archive under its original volume ID as well.
Spent(v) == Tombstone(v) \/ \E i \in Incs : Tombstone(<<v, i>>)

CommittedSize(id) ==
    IF Tombstone(id) THEN 0
    ELSE IF id \in Vols
    THEN IF meta[id].state \in {"live", "deleting"} THEN meta[id].size ELSE 0
    ELSE IF HandedOff(id) THEN meta[id[1]].size ELSE arcMeta[id].size

\* What the pool owes an identity: intents over the committed size, unless
\* the identity itself is a tombstone.
Owed(id) ==
    IF id \notin Vols \/ Tombstone(id) THEN CommittedSize(id)
    ELSE IF xint[id] # NoSpan THEN xint[id].to
    ELSE IF Exists(intent[id]) THEN intent[id].size
    ELSE CommittedSize(id)

\* Faulty: the walk leaves the intents of expansions out.
Reservation_NoExpansion(id) ==
    IF id \in Vols /\ (Spent(id) \/ xint[id] # NoSpan) THEN CommittedSize(id) ELSE Owed(id)

\* What the walk finds: it skips the intents of a volume ID it holds spent.
Reservation(id) ==
    IF id \in Vols /\ Spent(id) THEN CommittedSize(id) ELSE Owed(id)

\* A pool whose records contradict each other is not admitted to at all.
Consistent ==
    \A v \in Vols : ~Spent(v) =>
        LET committed == CommittedSize(v)
            reserved  == IF Exists(intent[v]) THEN intent[v].size ELSE committed
        IN  /\ Exists(intent[v]) /\ committed # 0 => committed = reserved
            /\ xint[v] # NoSpan /\ reserved # 0
                   => reserved \in {xint[v].from, xint[v].to}

\* An archive takes over the row which its original volume ID left behind.
Aliased(id) == id \in Vols /\ \E i \in Incs : Reservation(<<id, i>>) # 0

\* Faulty: stat.db is taken as it is.
Rebuilt_FromIndex == db

Rebuilt ==
    [id \in Ids |->
        IF Reservation(id) # 0 THEN Reservation(id)
        ELSE IF (IF id \in Vols THEN Spent(id) ELSE Tombstone(id)) \/ Aliased(id)
        THEN 0
        ELSE db[id]]

\* RESERVED_SIZE_PERCENTAGE: a tenth of the free space is never given away.
Fits(size, view) == 10 * size < 9 * (Total - SumFunction(view))

-----------------------------------------------------------------------------
(***************************************************************************)
(* search_volume and volume_incarnation.                                   *)
(***************************************************************************)

\* Faulty: an archive whose hand-off is unfinished is not looked for.
MetadataOf_ActiveOnly(v) == meta[v]

\* Metadata at the active path, else an archive whose hand-off is unfinished.
MetadataOf(v) ==
    LET arcs == {i \in Incs : arcMeta[<<v, i>>].state = "archiving"}
    IN  IF Exists(meta[v]) THEN meta[v]
        ELSE IF arcs = {} THEN NoRec
        ELSE LET i == CHOOSE i \in arcs : TRUE
             IN  Rec("handoff", arcMeta[<<v, i>>].size, i)

Lookup(v) == IF Exists(MetadataOf(v)) THEN MetadataOf(v) ELSE intent[v]

\* The bytes of a metadata file do not say in which directory it lies.
Bytes(r) == IF r.state = "handoff" THEN Rec("archiving", r.size, r.inc) ELSE r

\* Evidence is read again, at the path that the lookup returned.
EvidenceAt(v, r) ==
    CASE r.state = "creating" -> r
      [] r.state = "handoff"  -> arcMeta[<<v, r.inc>>]
      [] OTHER                -> meta[v]

-----------------------------------------------------------------------------
(***************************************************************************)
(* Control.                                                                *)
(***************************************************************************)
Init ==
    /\ intent = [v \in Vols |-> NoRec]
    /\ meta = [v \in Vols |-> NoRec]
    /\ xint = [v \in Vols |-> NoSpan]
    /\ payload = [v \in Vols |-> NoPayload]
    /\ arcMeta = [a \in Archives |-> NoRec]
    /\ arcPayload = [a \in Archives |-> NoPayload]
    /\ db = [id \in Ids |-> 0]
    /\ policy \in Policies
    /\ nextInc = [v \in Vols |-> 1]
    /\ ident = [v \in Vols |-> None]
    /\ vlock = [v \in Vols |-> None]
    /\ txOwner = None
    /\ txView = [id \in Ids |-> 0]
    /\ pc = [p \in Procs |-> "idle"]
    /\ call = [p \in Procs |-> "none"]
    /\ vol = [p \in Procs |-> None]
    /\ req = [p \in Procs |-> 0]
    /\ found = [p \in Procs |-> NoRec]
    /\ seen = [p \in Procs |-> NoRec]
    /\ acked = [v \in Vols |-> NoRec]

Goto(p, label) == pc' = [pc EXCEPT ![p] = label]

Held(lock, p) == {v \in Vols : lock[v] = p}
Release(lock, p) == [v \in Vols |-> IF lock[v] = p THEN None ELSE lock[v]]

\* The call returns, in whatever way: its locks go, its locals are dead.
\* An open transaction is committed or rolled back by the action itself.
Leave(p) ==
    /\ Goto(p, "idle")
    /\ call' = [call EXCEPT ![p] = "none"]
    /\ vol' = [vol EXCEPT ![p] = None]
    /\ req' = [req EXCEPT ![p] = 0]
    /\ found' = [found EXCEPT ![p] = NoRec]
    /\ seen' = [seen EXCEPT ![p] = NoRec]
    /\ ident' = Release(ident, p)
    /\ vlock' = Release(vlock, p)
    /\ IF txOwner = p
       THEN txOwner' = None /\ txView' = [id \in Ids |-> 0]
       ELSE UNCHANGED <<txOwner, txView>>

\* A call that returns an error where it stands.
Fail(p) == Leave(p) /\ UNCHANGED <<files, db, policy, nextInc, acked>>

\* The caller is told that volume v of this size exists.  The answer is a
\* promise unless the caller has asked for this generation to be deleted.
Promise(p, v, r) ==
    LET last     == acked[v]
        unwanted == \/ \E q \in Procs : call[q] = "delete" /\ vol[q] = v
                    \/ last.state = "deleting" /\ last.inc = r.inc
        weaker   == last.inc = r.inc /\ r.size < last.size
    IN  acked' = IF unwanted \/ weaker THEN acked
                 ELSE [acked EXCEPT ![v] = r]

Begin(p, c, v, s) ==
    /\ pc[p] = "idle"
    /\ c \in Calls
    /\ call' = [call EXCEPT ![p] = c]
    /\ vol' = [vol EXCEPT ![p] = v]
    /\ req' = [req EXCEPT ![p] = s]
    /\ UNCHANGED <<files, db, policy, nextInc, locks, seen>>

InFlight(c, v) == \E q \in Procs : call[q] = c /\ vol[q] = v

\* An orderly caller expands a volume only after the answer to its Create,
\* and creates an ID anew only after the answers to its Expands.
StartCreate(p, v, s) ==
    /\ OrderlyCaller => ~InFlight("expand", v)
    /\ Begin(p, "create", v, s)
    /\ Goto(p, "ident")
    /\ UNCHANGED <<found, acked>>

StartDelete(p, v) ==
    /\ Begin(p, "delete", v, 0)
    /\ Goto(p, "look")
    /\ acked' = [acked EXCEPT ![v] = Rec("deleting", 0, Lookup(v).inc)]
    /\ UNCHANGED found

StartExpand(p, v, s) ==
    /\ OrderlyCaller => acked[v].state = "live" /\ ~InFlight("create", v)
    /\ Begin(p, "expand", v, s)
    /\ Goto(p, "look")
    /\ UNCHANGED <<found, acked>>

\* get_archived_pvs: the purge acts on this snapshot, however old it gets.
StartReclaim(p, a) ==
    /\ arcMeta[a].state \in {"archived", "reclaiming"}
    /\ Begin(p, "reclaim", a[1], 0)
    /\ found' = [found EXCEPT ![p] = arcMeta[a]]
    /\ Goto(p, "reclaimMark")
    /\ UNCHANGED acked

\* The process dies, a lock wait times out or a file operation fails.
Abandon(p) == pc[p] # "idle" /\ Fail(p)

\* The operator rewrites the pool's record behind the provisioner fence: no
\* call is running, but an interrupted one may have left its files.
ChangePolicy ==
    /\ \A p \in Procs : pc[p] = "idle"
    /\ policy' \in Policies \ {policy}
    /\ UNCHANGED <<files, db, nextInc, locks, pc, locals, acked>>

-----------------------------------------------------------------------------
(***************************************************************************)
(* The way in, shared by the three calls: look the volume up, take the     *)
(* evidence of its generation, wait for its lock, look again.              *)
(***************************************************************************)
TakeIdentity(p) ==
    /\ pc[p] = "ident"
    /\ ident[vol[p]] = None
    /\ ident' = [ident EXCEPT ![vol[p]] = p]
    /\ Goto(p, "look")
    /\ UNCHANGED <<files, db, policy, nextInc, vlock, txOwner, txView, locals, acked>>

\* search_volume reads the metadata first and the intents afterwards.
LookMetadata(p) ==
    /\ pc[p] = "look"
    /\ found' = [found EXCEPT ![p] = MetadataOf(vol[p])]
    /\ Goto(p, IF Exists(MetadataOf(vol[p])) THEN "evidence" ELSE "lookIntent")
    /\ UNCHANGED <<files, db, policy, nextInc, locks, call, vol, req, seen, acked>>

\* Nothing found: a delete is done, and the others go on without the lock.
LookIntent(p) ==
    LET now == intent[vol[p]]
    IN  /\ pc[p] = "lookIntent"
        /\ IF ~Exists(now) /\ call[p] = "delete" THEN Fail(p)
           ELSE /\ found' = [found EXCEPT ![p] = now]
                /\ Goto(p, IF Exists(now) THEN "evidence" ELSE "body")
                /\ UNCHANGED <<files, db, policy, nextInc, locks,
                               call, vol, req, seen, acked>>

ReadEvidence(p) ==
    /\ pc[p] = "evidence"
    /\ seen' = [seen EXCEPT ![p] = EvidenceAt(vol[p], found[p])]
    /\ Goto(p, "lock")
    /\ UNCHANGED <<files, db, policy, nextInc, locks, call, vol, req, found, acked>>

TakeVolumeLock(p) ==
    /\ pc[p] = "lock"
    /\ vlock[vol[p]] = None
    /\ vlock' = [vlock EXCEPT ![vol[p]] = p]
    /\ Goto(p, "relook")
    /\ UNCHANGED <<files, db, policy, nextInc, ident, txOwner, txView, locals, acked>>

\* Faulty: whatever is there now will do.
SameGeneration_Unchecked(p, now) == Exists(now)

\* The volume is the one whose evidence was taken before the wait.
SameGeneration(p, now) == Exists(now) /\ Bytes(now) = seen[p]

\* Gone: Delete answers OK, Expand NOT_FOUND, Create ABORTED.  Another
\* generation, or other metadata of this one: ABORTED.
Relook(p) ==
    LET now == Lookup(vol[p])
    IN  /\ pc[p] = "relook"
        /\ IF ~SameGeneration(p, now) THEN Fail(p)
           ELSE /\ found' = [found EXCEPT ![p] = now]
                /\ Goto(p, "body")
                /\ UNCHANGED <<files, db, policy, nextInc, locks,
                               call, vol, req, seen, acked>>

-----------------------------------------------------------------------------
(***************************************************************************)
(* CreateVolume on a shared native pool.                                   *)
(***************************************************************************)
CreateBody(p) ==
    LET now        == Lookup(vol[p])
        compatible == now.size >= req[p]
    IN  /\ pc[p] = "body" /\ call[p] = "create"
        /\ \/ /\ ~Exists(now)
              /\ Goto(p, "admit")
              /\ UNCHANGED <<files, db, policy, nextInc, locks, locals, acked>>
           \/ /\ now.state = "creating" /\ compatible
              /\ req' = [req EXCEPT ![p] = now.size]
              /\ Goto(p, "enter")
              /\ UNCHANGED <<files, db, policy, nextInc, locks,
                             call, vol, found, seen, acked>>
           \/ /\ now.state = "live" /\ compatible
              /\ found' = [found EXCEPT ![p] = now]
              /\ Goto(p, "finish")
              /\ UNCHANGED <<files, db, policy, nextInc, locks,
                             call, vol, req, seen, acked>>
           \/ /\ Exists(now)
              /\ now.state \notin {"creating", "live"} \/ ~compatible
              /\ Fail(p)

\* Faulty: any leftover is taken for a conflict.
Redundant_Never(leftover, r) == ~Exists(leftover)

\* validate_committed_creation: a leftover intent is of the committed volume.
Redundant(leftover, r) ==
    Exists(leftover) => leftover.size = r.size /\ leftover.inc = r.inc

\* Faulty: the leftover stays.
FinishCommitted_KeepsIntent(p) ==
    /\ pc[p] = "finish"
    /\ Goto(p, "reconcile")
    /\ UNCHANGED <<files, db, policy, nextInc, locks, locals, acked>>

\* finish_committed_creation drops the leftover intent of a finished create.
FinishCommitted(p) ==
    LET v == vol[p]
    IN  /\ pc[p] = "finish"
        /\ IF ~Redundant(intent[v], found[p]) THEN Fail(p)
           ELSE /\ intent' = [intent EXCEPT ![v] = NoRec]
                /\ Goto(p, "reconcile")
                /\ UNCHANGED <<meta, xint, payload, arcMeta, arcPayload, db,
                               policy, nextInc, locks, locals, acked>>

\* Faulty: the size is added to the row.
Reconciled_Adds(v, size) == [db EXCEPT ![v] = @ + size]

\* update_free_size stores the absolute size of the volume.
Reconciled(v, size) == [db EXCEPT ![v] = size]

\* reconcile_committed_capacity, and the answer to the repeated create.
Reconcile(p) ==
    /\ pc[p] = "reconcile"
    /\ txOwner = None
    /\ db' = Reconciled(vol[p], found[p].size)
    /\ Promise(p, vol[p], found[p])
    /\ Leave(p)
    /\ UNCHANGED <<files, policy, nextInc>>

\* BEGIN IMMEDIATE; rebuild; check; the intent file.  The row and the commit
\* come next, so a crash may keep the file and lose the row.
Admit(p) ==
    LET v == vol[p]
        resumed  == Exists(intent[v]) /\ intent[v].size = req[p]
        unheld   == ~Exists(intent[v]) /\ Rebuilt[v] = 0
        admitted == resumed \/ (unheld /\ Fits(req[p], Rebuilt))
    IN  /\ pc[p] = "admit"
        /\ txOwner = None
        /\ \/ /\ Consistent /\ admitted
              /\ IF resumed THEN UNCHANGED <<intent, nextInc>>
                 ELSE /\ nextInc[v] <= MaxGen
                      /\ nextInc' = [nextInc EXCEPT ![v] = @ + 1]
                      /\ intent' = [intent EXCEPT ![v] =
                                       Rec("creating", req[p], nextInc[v])]
              /\ txOwner' = p
              /\ txView' = [Rebuilt EXCEPT ![v] = req[p]]
              /\ Goto(p, "admitCommit")
              /\ UNCHANGED <<meta, xint, payload, arcMeta, arcPayload, db,
                             policy, ident, vlock, locals, acked>>
           \/ /\ Consistent /\ unheld /\ ~admitted
              /\ db' = Rebuilt
              /\ Leave(p)
              /\ UNCHANGED <<files, policy, nextInc, acked>>
           \/ /\ ~Consistent \/ ~(unheld \/ resumed)
              /\ Fail(p)

AdmitCommit(p) ==
    /\ pc[p] = "admitCommit"
    /\ db' = txView
    /\ txOwner' = None
    /\ txView' = [id \in Ids |-> 0]
    /\ Goto(p, "enter")
    /\ UNCHANGED <<files, policy, nextInc, ident, vlock, locals, acked>>

\* Faulty: two calls may hold one flock.
MayLock_Always(v, p) == TRUE

\* The flock is free, or this thread holds it already.
MayLock(v, p) == vlock[v] \in {None, p}

\* The volume's flock (a resumed create holds it already), then
\* verify_creation_reservation: someone may have cancelled the create.
EnterCreation(p) ==
    LET v == vol[p]
        now == Lookup(v)
    IN  /\ pc[p] = "enter"
        /\ MayLock(v, p)
        /\ IF now.state \in {"live", "creating"} /\ now.size = req[p]
           THEN /\ vlock' = [vlock EXCEPT ![v] = p]
                /\ Goto(p, "makePayload")
                /\ UNCHANGED <<files, db, policy, nextInc, ident, txOwner,
                               txView, locals, acked>>
           ELSE Fail(p)

\* Faulty: the metadata is saved before there is a quota.
AfterMakedirs_Metadata == "saveMetadata"

\* The quota is set before the metadata is saved.
AfterMakedirs == "setQuota"

\* create_subdir_volume: the intent authorises this very directory.
MakePayload(p) ==
    LET v == vol[p]
    IN  /\ pc[p] = "makePayload"
        /\ IF Exists(meta[v]) THEN Goto(p, "dropIntent") /\ UNCHANGED payload
           ELSE /\ Goto(p, AfterMakedirs)
                /\ payload' = [payload EXCEPT ![v] =
                       IF @ = NoPayload THEN [inc |-> intent[v].inc, quota |-> 0]
                       ELSE @]
        /\ UNCHANGED <<intent, meta, xint, arcMeta, arcPayload, db, policy,
                       nextInc, locks, locals, acked>>

SetQuota(p) ==
    /\ pc[p] = "setQuota"
    /\ payload' = [payload EXCEPT ![vol[p]].quota = req[p]]
    /\ Goto(p, "saveMetadata")
    /\ UNCHANGED <<intent, meta, xint, arcMeta, arcPayload, db, policy,
                   nextInc, locks, locals, acked>>

SaveMetadata(p) ==
    LET v == vol[p]
    IN  /\ pc[p] = "saveMetadata"
        /\ meta' = [meta EXCEPT ![v] = Rec("live", req[p], intent[v].inc)]
        /\ Goto(p, "dropIntent")
        /\ UNCHANGED <<intent, xint, payload, arcMeta, arcPayload, db, policy,
                       nextInc, locks, locals, acked>>

DropIntent(p) ==
    /\ pc[p] = "dropIntent"
    /\ intent' = [intent EXCEPT ![vol[p]] = NoRec]
    /\ Goto(p, "record")
    /\ UNCHANGED <<meta, xint, payload, arcMeta, arcPayload, db, policy,
                   nextInc, locks, locals, acked>>

\* update_free_size with the absolute size, and the answer.
RecordSize(p) ==
    /\ pc[p] = "record"
    /\ txOwner = None
    /\ db' = [db EXCEPT ![vol[p]] = req[p]]
    /\ Promise(p, vol[p], Rec("live", req[p], meta[vol[p]].inc))
    /\ Leave(p)
    /\ UNCHANGED <<files, policy, nextInc>>

-----------------------------------------------------------------------------
(***************************************************************************)
(* DeleteVolume: cancel a pending create, or delete or archive a committed *)
(* volume.                                                                 *)
(***************************************************************************)
DeleteBody(p) ==
    /\ pc[p] = "body" /\ call[p] = "delete"
    /\ IF policy = "retain" THEN Fail(p)
       ELSE /\ Goto(p, IF found[p].state = "creating" THEN "cancel" ELSE "fold")
            /\ UNCHANGED <<files, db, policy, nextInc, locks, locals, acked>>

CancelPayload(p) ==
    LET v == vol[p]
    IN  /\ pc[p] = "cancel"
        /\ IF intent[v] # found[p] \/ Exists(meta[v]) THEN Fail(p)
           ELSE /\ payload' = [payload EXCEPT ![v] = NoPayload]
                /\ Goto(p, "cancelIntent")
                /\ UNCHANGED <<intent, meta, xint, arcMeta, arcPayload, db,
                               policy, nextInc, locks, locals, acked>>

\* BEGIN IMMEDIATE; rebuild; remove the row; unlink the intent.  A crash
\* before the commit leaks the row.
CancelIntent(p) ==
    LET v == vol[p]
    IN  /\ pc[p] = "cancelIntent"
        /\ txOwner = None
        /\ IF ~Consistent \/ intent[v] # found[p] THEN Fail(p)
           ELSE /\ txOwner' = p
                /\ txView' = [Rebuilt EXCEPT ![v] = 0]
                /\ intent' = [intent EXCEPT ![v] = NoRec]
                /\ Goto(p, "cancelCommit")
                /\ UNCHANGED <<meta, xint, payload, arcMeta, arcPayload, db,
                               policy, nextInc, ident, vlock, locals, acked>>

CancelCommit(p) ==
    /\ pc[p] = "cancelCommit"
    /\ db' = txView
    /\ Leave(p)
    /\ UNCHANGED <<files, policy, nextInc, acked>>

\* A pending expansion becomes part of the metadata before its intent goes.
FoldExpansion(p) ==
    LET v == vol[p]
        x == xint[v]
    IN  /\ pc[p] = "fold"
        /\ IF x = NoSpan
           THEN /\ Goto(p, "dropLeftover")
                /\ UNCHANGED <<files, db, policy, nextInc, locks, locals, acked>>
           ELSE IF meta[v].size \notin {x.from, x.to} THEN Fail(p)
           ELSE /\ meta' = [meta EXCEPT ![v].size = x.to]
                /\ Goto(p, "dropExpansion")
                /\ UNCHANGED <<intent, xint, payload, arcMeta, arcPayload, db,
                               policy, nextInc, locks, locals, acked>>

DropExpansion(p) ==
    /\ pc[p] = "dropExpansion"
    /\ xint' = [xint EXCEPT ![vol[p]] = NoSpan]
    /\ Goto(p, "dropLeftover")
    /\ UNCHANGED <<intent, meta, payload, arcMeta, arcPayload, db, policy,
                   nextInc, locks, locals, acked>>

\* Faulty: the payload goes without a tombstone.
FirstOfReclaim_Destroy == IF policy = "archive" THEN "prepareArchive" ELSE "destroy"

\* _delete_managed_volume: the policy's first durable step.
FirstOfReclaim == IF policy = "archive" THEN "prepareArchive" ELSE "markDeleting"

\* A leftover create intent is dropped once it is seen to be redundant.
DropLeftover(p) ==
    LET v == vol[p]
    IN  /\ pc[p] = "dropLeftover"
        /\ IF ~Redundant(intent[v], MetadataOf(v)) THEN Fail(p)
           ELSE /\ intent' = [intent EXCEPT ![v] = NoRec]
                /\ Goto(p, FirstOfReclaim)
                /\ UNCHANGED <<meta, xint, payload, arcMeta, arcPayload, db,
                               policy, nextInc, locks, locals, acked>>

\* Faulty: an interrupted delete is not resumed.
Deletable_Once == {"live"}

\* States from which the tombstone is written, or written again.
Deletable == {"live", "deleting"}

MarkDeleting(p) ==
    LET v == vol[p]
    IN  /\ pc[p] = "markDeleting"
        /\ IF MetadataOf(v).state \notin Deletable THEN Fail(p)
           ELSE /\ meta' = [meta EXCEPT ![v].state = "deleting"]
                /\ Goto(p, "destroy")
                /\ UNCHANGED <<intent, xint, payload, arcMeta, arcPayload, db,
                               policy, nextInc, locks, locals, acked>>

DestroyPayload(p) ==
    /\ pc[p] = "destroy"
    /\ payload' = [payload EXCEPT ![vol[p]] = NoPayload]
    /\ Goto(p, "release")
    /\ UNCHANGED <<intent, meta, xint, arcMeta, arcPayload, db, policy,
                   nextInc, locks, locals, acked>>

ReleaseRow(p) ==
    /\ pc[p] = "release"
    /\ txOwner = None
    /\ db' = [db EXCEPT ![vol[p]] = 0]
    /\ Goto(p, "unlink")
    /\ UNCHANGED <<files, policy, nextInc, locks, locals, acked>>

UnlinkMetadata(p) ==
    /\ pc[p] = "unlink"
    /\ meta' = [meta EXCEPT ![vol[p]] = NoRec]
    /\ Leave(p)
    /\ UNCHANGED <<intent, xint, payload, arcMeta, arcPayload, db, policy,
                   nextInc, acked>>

\* _prepare_archive: a fresh archive name, durable before anything moves.
PrepareArchive(p) ==
    LET v == vol[p]
    IN  /\ pc[p] = "prepareArchive"
        /\ meta' = IF Exists(meta[v]) THEN [meta EXCEPT ![v].state = "archiving"]
                                      ELSE meta
        /\ Goto(p, "movePayload")
        /\ UNCHANGED <<intent, xint, payload, arcMeta, arcPayload, db, policy,
                       nextInc, locks, locals, acked>>

\* Faulty: the data is copied and stays behind.
Emptied_Copied(v) == payload

\* A rename leaves nothing behind.
Emptied(v) == [payload EXCEPT ![v] = NoPayload]

\* _rename_for_archive: perform or resume the move, refuse to overwrite.
Movable(v, a) == (payload[v] = NoPayload) # (arcPayload[a] = NoPayload)

MovePayload(p) ==
    LET v == vol[p]
        a == <<v, MetadataOf(v).inc>>
    IN  /\ pc[p] = "movePayload"
        /\ IF ~Movable(v, a) THEN Fail(p)
           ELSE /\ arcPayload' = [arcPayload EXCEPT ![a] =
                                     IF @ = NoPayload THEN payload[v] ELSE @]
                /\ payload' = Emptied(v)
                /\ Goto(p, "moveRow")
                /\ UNCHANGED <<intent, meta, xint, arcMeta, db, policy,
                               nextInc, locks, locals, acked>>

MoveRow(p) ==
    LET v == vol[p]
        now == MetadataOf(v)
    IN  /\ pc[p] = "moveRow"
        /\ txOwner = None
        /\ db' = [db EXCEPT ![v] = 0, ![<<v, now.inc>>] = now.size]
        /\ Goto(p, "moveMetadata")
        /\ UNCHANGED <<files, policy, nextInc, locks, locals, acked>>

\* A rename: one metadata record authorises the reservation at every instant.
MoveMetadata(p) ==
    LET v == vol[p]
    IN  /\ pc[p] = "moveMetadata"
        /\ IF Exists(meta[v])
           THEN /\ arcMeta' = [arcMeta EXCEPT ![<<v, meta[v].inc>>] = meta[v]]
                /\ meta' = [meta EXCEPT ![v] = NoRec]
           ELSE UNCHANGED <<meta, arcMeta>>
        /\ found' = [found EXCEPT ![p] = MetadataOf(v)]
        /\ Goto(p, "archived")
        /\ UNCHANGED <<intent, xint, payload, arcPayload, db, policy, nextInc,
                       locks, call, vol, req, seen, acked>>

MarkArchived(p) ==
    /\ pc[p] = "archived"
    /\ arcMeta' = [arcMeta EXCEPT ![<<vol[p], found[p].inc>>].state = "archived"]
    /\ Leave(p)
    /\ UNCHANGED <<intent, meta, xint, payload, arcPayload, db, policy,
                   nextInc, acked>>

-----------------------------------------------------------------------------
(***************************************************************************)
(* ControllerExpandVolume.                                                 *)
(***************************************************************************)

\* Faulty: the quota grows before anything is reserved.
FirstOfGrowth_Quota == "growQuota"

\* Room is reserved before anything grows.
FirstOfGrowth == "reserve"

\* search_volume once more, the pending intent, and the row brought to the
\* committed size.  found keeps the size which the expansion starts from.
ExpandBody(p) ==
    LET v == vol[p]
        now     == Lookup(v)
        pending == xint[v]
        valid   == /\ now.state = "live"
                   /\ pending # NoSpan => /\ req[p] = pending.to
                                          /\ now.size \in {pending.from, pending.to}
        start   == IF pending = NoSpan THEN now.size ELSE pending.from
    IN  /\ pc[p] = "body" /\ call[p] = "expand"
        /\ IF ~valid THEN Fail(p)
           ELSE /\ txOwner = None
                /\ db' = Reconciled(v, IF pending = NoSpan THEN now.size
                                                           ELSE pending.to)
                /\ found' = [found EXCEPT ![p] = Rec("live", start, now.inc)]
                /\ Goto(p, IF pending = NoSpan /\ req[p] <= now.size
                           THEN "requota" ELSE FirstOfGrowth)
                /\ UNCHANGED <<files, policy, nextInc, locks,
                               call, vol, req, seen, acked>>

\* makedirs and the quota: a directory that is not there is made anew.
QuotaSet(v, size, inc) ==
    [payload EXCEPT ![v] = [inc |-> IF @ = NoPayload THEN inc ELSE @.inc,
                            quota |-> size]]

\* The volume is as large as asked for: quota again, and the answer.
Requota(p) ==
    /\ pc[p] = "requota"
    /\ payload' = QuotaSet(vol[p], found[p].size, found[p].inc)
    /\ Promise(p, vol[p], found[p])
    /\ Leave(p)
    /\ UNCHANGED <<intent, meta, xint, arcMeta, arcPayload, db, policy, nextInc>>

\* reserve_volume_expansion: BEGIN IMMEDIATE; rebuild; check; the intent file.
Reserve(p) ==
    LET v == vol[p]
        wanted  == [from |-> found[p].size, to |-> req[p]]
        held    == xint[v]
        matches == \/ held = wanted
                   \/ /\ held = NoSpan
                      /\ Rebuilt[v] \in {wanted.from, wanted.to}
        free    == held # NoSpan \/ Rebuilt[v] = wanted.to
                                 \/ Fits(wanted.to - wanted.from, Rebuilt)
        sound   == /\ Consistent /\ matches
                   /\ held = NoSpan /\ free =>
                         /\ meta[v].state = "live"
                         /\ meta[v].size \in {wanted.from, wanted.to}
    IN  /\ pc[p] = "reserve"
        /\ txOwner = None
        /\ \/ /\ sound /\ free
              /\ xint' = [xint EXCEPT ![v] = wanted]
              /\ txOwner' = p
              /\ txView' = [Rebuilt EXCEPT ![v] = wanted.to]
              /\ Goto(p, "reserveCommit")
              /\ UNCHANGED <<intent, meta, payload, arcMeta, arcPayload, db,
                             policy, nextInc, ident, vlock, locals, acked>>
           \/ /\ sound /\ ~free
              /\ db' = Rebuilt
              /\ Leave(p)
              /\ UNCHANGED <<files, policy, nextInc, acked>>
           \/ ~sound /\ Fail(p)

\* Faulty: the quota stays as it was.
AfterReserve_Metadata == "growMetadata"

\* The quota grows before the metadata says so.
AfterReserve == "growQuota"

\* The reservation of the expansion is committed to stat.db.
ReserveCommit(p) ==
    /\ pc[p] = "reserveCommit"
    /\ db' = txView
    /\ txOwner' = None
    /\ txView' = [id \in Ids |-> 0]
    /\ Goto(p, AfterReserve)
    /\ UNCHANGED <<files, policy, nextInc, ident, vlock, locals, acked>>

GrowQuota(p) ==
    /\ pc[p] = "growQuota"
    /\ payload' = QuotaSet(vol[p], req[p], found[p].inc)
    /\ Goto(p, "growMetadata")
    /\ UNCHANGED <<intent, meta, xint, arcMeta, arcPayload, db, policy,
                   nextInc, locks, locals, acked>>

\* update_pv_metadata needs the file to be there, and keeps its other fields.
GrowMetadata(p) ==
    LET v == vol[p]
    IN  /\ pc[p] = "growMetadata"
        /\ IF ~Exists(meta[v]) THEN Fail(p)
           ELSE /\ meta' = [meta EXCEPT ![v].size = req[p]]
                /\ Goto(p, "finishExpansion")
                /\ UNCHANGED <<intent, xint, payload, arcMeta, arcPayload, db,
                               policy, nextInc, locks, locals, acked>>

FinishExpansion(p) ==
    LET v == vol[p]
    IN  /\ pc[p] = "finishExpansion"
        /\ IF xint[v] # [from |-> found[p].size, to |-> req[p]] THEN Fail(p)
           ELSE /\ xint' = [xint EXCEPT ![v] = NoSpan]
                /\ Promise(p, v, Rec("live", req[p], found[p].inc))
                /\ Leave(p)
                /\ UNCHANGED <<intent, meta, payload, arcMeta, arcPayload, db,
                               policy, nextInc>>

-----------------------------------------------------------------------------
(***************************************************************************)
(* remove_archived_pv: purge an archive.  It takes no lifecycle lock.      *)
(***************************************************************************)
Target(p) == <<vol[p], found[p].inc>>

\* Faulty: the archive is purged without a tombstone.
ReclaimMark_Nothing(p) ==
    /\ pc[p] = "reclaimMark"
    /\ Goto(p, "reclaimPayload")
    /\ UNCHANGED <<files, db, policy, nextInc, locks, locals, acked>>

\* The tombstone, unless an earlier purge has left it.
ReclaimMark(p) ==
    /\ pc[p] = "reclaimMark"
    /\ IF found[p].state = "archived"
       THEN arcMeta' = [arcMeta EXCEPT ![Target(p)] =
                           Rec("reclaiming", found[p].size, found[p].inc)]
       ELSE UNCHANGED arcMeta
    /\ Goto(p, "reclaimPayload")
    /\ UNCHANGED <<intent, meta, xint, payload, arcPayload, db, policy,
                   nextInc, locks, locals, acked>>

ReclaimPayload(p) ==
    /\ pc[p] = "reclaimPayload"
    /\ arcPayload' = [arcPayload EXCEPT ![Target(p)] = NoPayload]
    /\ Goto(p, "reclaimRow")
    /\ UNCHANGED <<intent, meta, xint, payload, arcMeta, db, policy, nextInc,
                   locks, locals, acked>>

\* release_archived_pv_reservation: one transaction that touches no file.
ReclaimRow(p) ==
    /\ pc[p] = "reclaimRow"
    /\ txOwner = None
    /\ IF ~Consistent THEN Fail(p)
       ELSE /\ db' = [Rebuilt EXCEPT ![Target(p)] = 0]
            /\ Goto(p, "reclaimUnlink")
            /\ UNCHANGED <<files, policy, nextInc, locks, locals, acked>>

ReclaimUnlink(p) ==
    /\ pc[p] = "reclaimUnlink"
    /\ arcMeta' = [arcMeta EXCEPT ![Target(p)] = NoRec]
    /\ Leave(p)
    /\ UNCHANGED <<intent, meta, xint, payload, arcPayload, db, policy,
                   nextInc, acked>>

-----------------------------------------------------------------------------
Arrive(p) == TakeIdentity(p) \/ LookMetadata(p) \/ LookIntent(p)
             \/ ReadEvidence(p) \/ TakeVolumeLock(p) \/ Relook(p)

CreateStep(p) == CreateBody(p) \/ FinishCommitted(p) \/ Reconcile(p)
                 \/ Admit(p) \/ AdmitCommit(p) \/ EnterCreation(p)
                 \/ MakePayload(p) \/ SetQuota(p) \/ SaveMetadata(p)
                 \/ DropIntent(p) \/ RecordSize(p)

DeleteStep(p) == DeleteBody(p) \/ CancelPayload(p) \/ CancelIntent(p)
                 \/ CancelCommit(p) \/ FoldExpansion(p) \/ DropExpansion(p)
                 \/ DropLeftover(p) \/ MarkDeleting(p) \/ DestroyPayload(p)
                 \/ ReleaseRow(p) \/ UnlinkMetadata(p)
                 \/ PrepareArchive(p) \/ MovePayload(p) \/ MoveRow(p)
                 \/ MoveMetadata(p) \/ MarkArchived(p)

ExpandStep(p) == ExpandBody(p) \/ Requota(p) \/ Reserve(p) \/ ReserveCommit(p)
                 \/ GrowQuota(p) \/ GrowMetadata(p) \/ FinishExpansion(p)

ReclaimStep(p) == ReclaimMark(p) \/ ReclaimPayload(p) \/ ReclaimRow(p)
                  \/ ReclaimUnlink(p)

Step(p) == Arrive(p) \/ CreateStep(p) \/ DeleteStep(p) \/ ExpandStep(p)
           \/ ReclaimStep(p)

Start(p) == \/ \E v \in Vols, s \in Sizes : StartCreate(p, v, s)
            \/ \E v \in Vols : StartDelete(p, v)
            \/ \E v \in Vols, s \in Sizes : StartExpand(p, v, s)
            \/ \E a \in Archives : StartReclaim(p, a)

Next == \/ \E p \in Procs : Start(p) \/ Step(p) \/ Abandon(p)
        \/ ChangePolicy

Spec == Init /\ [][Next]_vars

-----------------------------------------------------------------------------
(***************************************************************************)
(* Properties.                                                             *)
(***************************************************************************)
Labels == {"idle", "ident", "look", "lookIntent", "evidence", "lock", "relook",
           "body", "finish", "reconcile", "admit", "admitCommit", "enter",
           "makePayload", "setQuota", "saveMetadata", "dropIntent", "record",
           "cancel", "cancelIntent", "cancelCommit", "fold", "dropExpansion",
           "dropLeftover", "markDeleting", "destroy", "release", "unlink",
           "prepareArchive", "movePayload", "moveRow", "moveMetadata",
           "archived", "requota", "reserve", "reserveCommit", "growQuota",
           "growMetadata", "finishExpansion", "reclaimMark", "reclaimPayload",
           "reclaimRow", "reclaimUnlink"}

DurableTyped ==
    /\ intent \in [Vols -> Intents]
    /\ meta \in [Vols -> Metadata]
    /\ xint \in [Vols -> Spans]
    /\ payload \in [Vols -> Payloads]
    /\ arcMeta \in [Archives -> Archived]
    /\ arcPayload \in [Archives -> Payloads]
    /\ db \in [Ids -> SizesOrZero]
    /\ policy \in Policies
    /\ nextInc \in [Vols -> 1..(MaxGen + 1)]
    /\ acked \in [Vols -> Promises]

LocksTyped ==
    /\ ident \in [Vols -> Procs \cup {None}]
    /\ vlock \in [Vols -> Procs \cup {None}]
    /\ txOwner \in Procs \cup {None}
    /\ txView \in [Ids -> SizesOrZero]

LocalsTyped ==
    /\ pc \in [Procs -> Labels]
    /\ call \in [Procs -> Calls \cup {"none"}]
    /\ vol \in [Procs -> Vols \cup {None}]
    /\ req \in [Procs -> SizesOrZero]
    /\ found \in [Procs -> Answers]
    /\ seen \in [Procs -> Answers]

\* Every file, row, lock and local variable holds what the code can put
\* there: an existing record names a size that was asked for and a generation
\* that was handed out.
TypeOK == DurableTyped /\ LocksTyped /\ LocalsTyped

\* What the files of the pool promise never exceeds the pool, whatever the
\* crashes and whoever admits: _admit_volume_creation and
\* reserve_volume_expansion count every durable reservation.
PoolNotOvercommitted == SumFunction([id \in Ids |-> Owed(id)]) <= Total

\* Every payload, active or archived, is backed by a record of its own
\* generation that reserves at least its quota.
PayloadReserved ==
    /\ \A v \in Vols : payload[v] # NoPayload =>
           /\ payload[v].inc \in {meta[v].inc, intent[v].inc}
           /\ IF meta[v].state = "archiving"
              THEN payload[v].quota <= meta[v].size
              ELSE payload[v].quota <= Owed(v)
    /\ \A a \in Archives : arcPayload[a] # NoPayload =>
           arcPayload[a].quota <= Owed(a)

\* Metadata makes a volume discoverable only once the payload of its own
\* generation is there with a quota, and until a delete is authorised.
DiscoverableIsUsable ==
    \A v \in Vols : meta[v].state = "live" =>
        payload[v].inc = meta[v].inc /\ payload[v].quota > 0

\* What the caller was told of a volume stays true until it asks for the
\* delete: same generation, at least that size, quota and all.
AckedVolumeIntact ==
    \A v \in Vols : acked[v].state = "live" =>
        /\ meta[v].state = "live" /\ meta[v].inc = acked[v].inc
        /\ meta[v].size >= acked[v].size
        /\ payload[v].quota >= acked[v].size

\* The labels at which a call holds the flock of its volume for certain.
UnderLock == {"relook", "makePayload", "setQuota", "saveMetadata", "dropIntent",
              "record", "cancel", "cancelIntent", "cancelCommit", "fold",
              "dropExpansion", "dropLeftover", "markDeleting", "destroy",
              "release", "unlink", "prepareArchive", "movePayload", "moveRow",
              "moveMetadata", "archived"}
Expanding == {"requota", "reserve", "reserveCommit", "growQuota",
              "growMetadata", "finishExpansion"}

\* Two calls are never in the middle of changing the same volume: the
\* lifecycle lock covers every step that touches its files.
OneWorkerPerVolume ==
    \A p, q \in Procs :
        /\ p # q
        /\ pc[p] \in UnderLock \cup Expanding
        /\ pc[q] \in UnderLock \cup Expanding
        => vol[p] # vol[q]

\* A payload disappears only under the tombstone of a delete, in the
\* cancellation of a create that never committed, or into the archive whole.
PayloadLossAuthorised ==
    [][\A v \in Vols : payload[v] # NoPayload /\ payload'[v] = NoPayload =>
           \/ meta[v].state = "deleting"
           \/ ~Exists(meta[v]) /\ Exists(intent[v])
           \/ \E i \in Incs : arcPayload'[<<v, i>>] = payload[v]]_vars

\* The call that makes a payload disappear has, before it waited for the
\* lock, taken the evidence of that very generation: a delete that waited
\* while its volume was replaced never touches the replacement.
LossOnlyOfSeenGeneration ==
    [][\A v \in Vols : payload[v] # NoPayload /\ payload'[v] = NoPayload =>
           \E p \in Procs : /\ call[p] = "delete" /\ vol[p] = v
                            /\ seen[p].inc = payload[v].inc]_vars

\* An archived payload disappears only under a durable reclaim tombstone.
ArchiveLossAuthorised ==
    [][\A a \in Archives : arcPayload[a] # NoPayload /\ arcPayload'[a] = NoPayload =>
           arcMeta[a].state = "reclaiming"]_vars

\* Each step of an archive can be resumed: while a volume is being archived,
\* its payload lies at exactly one of the two places _rename_for_archive
\* looks at.
ArchiveResumable ==
    \A v \in Vols :
        LET now == MetadataOf(v)
        IN  now.state \in {"archiving", "handoff"} =>
                (payload[v] = NoPayload) # (arcPayload[<<v, now.inc>>] = NoPayload)

\* Once the metadata of a volume is committed, a leftover create intent is
\* redundant: it names the same generation and the same size, so that every
\* later call can drop it.
LeftoverIntentRedundant ==
    \A v \in Vols : meta[v].state = "live" /\ Exists(intent[v])
                     => /\ intent[v].size = meta[v].size
                        /\ intent[v].inc = meta[v].inc

-----------------------------------------------------------------------------
(***************************************************************************)
(* What the owners of the volumes see is what ManagedVolumes allows,       *)
(* whoever dies where: what search_volume finds, by what its file says,    *)
(* where the data lies, and what is archived.                              *)
(***************************************************************************)
Managed == INSTANCE ManagedVolumes
           WITH volume   <- [v \in Vols |-> Bytes(Lookup(v))],
                data     <- [v \in Vols |-> payload[v].inc],
                shelf    <- {a \in Archives : arcPayload[a] # NoPayload},
                archived <- [a \in Archives |->
                                IF arcMeta[a].state = "archived"
                                THEN arcMeta[a].size ELSE 0],
                told     <- acked,
                fresh    <- nextInc

\* Every step of every call shows the owners of the volumes one step of
\* ManagedVolumes, or nothing: a create that is admitted under a new
\* generation, committed with its data, answered truthfully; a volume that
\* leaves only on request; an archive that is finished whole and purged only
\* after it was given up.
LifecycleKept == Managed!Spec
=============================================================================
