-------------------------- MODULE VolumeFilesProofs --------------------------
(***************************************************************************)
(* What the files of a volume say of each other, and of what callers were  *)
(* told, in every state that crashes and interleavings can leave behind,   *)
(* for callers that expand only what they were told exists.                *)
(*                                                                         *)
(* A call that changes the files of a volume holds its lifecycle lock; so  *)
(* what it knows of them (Locked) only its own steps can change, and what  *)
(* calls know without the lock (Unlocked) is about what nobody else may    *)
(* bring into being: the holder of the identity makes intents and          *)
(* metadata, and no one else does.                                         *)
(***************************************************************************)
EXTENDS VolumeLifecycleProofs

\* Live metadata: the payload of its generation is there and has a quota; a
\* leftover create intent is of the same generation and size.
LiveOK(v) ==
    meta[v].state = "live" =>
        /\ payload[v].inc = meta[v].inc
        /\ payload[v].quota # 0
        /\ Exists(intent[v]) => intent[v].size = meta[v].size /\ intent[v].inc = meta[v].inc

\* A pending expansion is of a finished, live volume, of the generation that
\* the caller was told of, which is at one of its two sizes.
SpanOK(v) ==
    xint[v] # NoSpan =>
        /\ meta[v].state = "live" /\ ~Exists(intent[v])
        /\ xint[v].from <= xint[v].to
        /\ meta[v].size \in {xint[v].from, xint[v].to}
        /\ acked[v].inc = meta[v].inc

\* The largest quota that the files of a volume stand for.
Granted(v) == IF xint[v] # NoSpan THEN xint[v].to
              ELSE IF Exists(meta[v]) THEN meta[v].size ELSE intent[v].size

\* A payload belongs to the metadata, or else to the create intent, and has no
\* more than it reserves.
PayloadOK(v) ==
    payload[v] # NoPayload =>
        /\ ~Arriving(v)
        /\ payload[v].quota <= Granted(v)
        /\ Exists(meta[v]) => payload[v].inc = meta[v].inc
        /\ ~Exists(meta[v]) => Exists(intent[v]) /\ payload[v].inc = intent[v].inc

\* A volume on its way out has no create intent, and an archive whose hand-off
\* is unfinished is all that there is of it.
GoneOK(v) ==
    /\ meta[v].state \in {"deleting", "archiving"} \/ Arriving(v) => ~Exists(intent[v])
    /\ Arriving(v) => ~Exists(meta[v])

\* An archived payload has no more than its record reserves, which is the
\* metadata of the volume until the record is handed off.
ArchiveOK(v) ==
    \A i \in Incs : arcPayload[<<v, i>>] # NoPayload =>
        \/ /\ meta[v].state = "archiving" /\ meta[v].inc = i
           /\ payload[v] = NoPayload
           /\ arcPayload[<<v, i>>].quota <= meta[v].size
        \/ /\ Exists(arcMeta[<<v, i>>])
           /\ arcPayload[<<v, i>>].quota <= arcMeta[<<v, i>>].size

\* What the caller was told: a promise is kept; a volume may have less quota
\* than its metadata says only once a delete of it was asked for; and no
\* promise is made while a delete runs.
AckOK(v) ==
    /\ acked[v].state = "live" =>
           /\ meta[v].state = "live" /\ meta[v].inc = acked[v].inc
           /\ meta[v].size >= acked[v].size /\ ~Exists(intent[v])
    /\ meta[v].state = "live" =>
           \/ payload[v].quota >= meta[v].size
           \/ acked[v].state = "deleting" /\ acked[v].inc = meta[v].inc
    /\ InFlight("delete", v) => acked[v].state = "deleting"

Sound(v) == /\ LiveOK(v) /\ SpanOK(v) /\ PayloadOK(v)
            /\ GoneOK(v) /\ ArchiveOK(v) /\ AckOK(v)

\* What a call knows of its volume whether it has the lock or not.
Unlocked(p) ==
    LET v == vol[p]
    IN  /\ pc[p] = "body" /\ call[p] = "create"
               => vlock[v] = p \/ (~HasMetadata(v) /\ ~Exists(intent[v]))
        /\ pc[p] = "lookIntent" /\ call[p] = "create" => ~HasMetadata(v)
        /\ pc[p] \in {"admit", "admitCommit", "enter", "makePayload", "setQuota",
                      "saveMetadata"} => ~HasMetadata(v)
        /\ call[p] = "expand" =>
               ~Exists(intent[v]) /\ (Exists(meta[v]) => acked[v].inc = meta[v].inc)
        /\ pc[p] \in {"finish", "reconcile"} \cup Expanding => vlock[v] = p

\* The labels of a delete that works on a committed volume.
Removing == {"fold", "dropExpansion", "dropLeftover", "markDeleting", "destroy",
             "release", "unlink", "prepareArchive", "movePayload", "moveRow",
             "moveMetadata"}
Settled  == Removing \ {"fold", "dropExpansion"}
Growing  == {"reserveCommit", "growQuota", "growMetadata", "finishExpansion"}

\* What a create knows once it has the lock.
LockedCreate(p) ==
    LET v == vol[p]
    IN  /\ pc[p] \in {"finish", "reconcile"} => found[p] = meta[v]
        /\ pc[p] \in {"makePayload", "setQuota", "saveMetadata"}
               => Exists(intent[v]) /\ intent[v].size = req[p]
        /\ pc[p] = "saveMetadata" => payload[v] # NoPayload /\ payload[v].quota = req[p]
        /\ pc[p] \in {"dropIntent", "record"} =>
               /\ meta[v].state = "live" /\ meta[v].size = req[p]
               /\ payload[v].quota >= req[p]
        /\ pc[p] \in {"reconcile", "record"} => ~Exists(intent[v])

\* What a delete knows: it works on the generation whose evidence it took.
LockedDelete(p) ==
    LET v == vol[p]
    IN  /\ pc[p] = "body" /\ call[p] = "delete" =>
               /\ found[p].inc = seen[p].inc
               /\ Exists(meta[v]) => meta[v].inc = seen[p].inc
        /\ pc[p] \in {"cancel", "cancelIntent"} => found[p].inc = seen[p].inc
        /\ pc[p] = "cancelIntent" => ~Exists(meta[v]) /\ payload[v] = NoPayload
        /\ pc[p] \in Removing => (Exists(meta[v]) => meta[v].inc = seen[p].inc)
        /\ pc[p] = "dropExpansion" => meta[v].size = xint[v].to
        /\ pc[p] \in Settled => xint[v] = NoSpan
        /\ pc[p] \in {"release", "unlink", "moveRow", "moveMetadata"}
               => payload[v] = NoPayload

\* What an expansion knows: it grows the live volume whose size it has read.
LockedExpand(p) ==
    LET v == vol[p]
    IN  /\ pc[p] \in Expanding => meta[v].state = "live" /\ meta[v].inc = found[p].inc
        /\ pc[p] = "requota" => xint[v] = NoSpan /\ meta[v].size = found[p].size
        /\ pc[p] = "reserve" =>
               /\ xint[v] = NoSpan => meta[v].size = found[p].size /\ found[p].size < req[p]
               /\ xint[v] # NoSpan => xint[v] = [from |-> found[p].size, to |-> req[p]]
        /\ pc[p] \in Growing => xint[v] = [from |-> found[p].size, to |-> req[p]]
        /\ pc[p] \in {"growMetadata", "finishExpansion"} => payload[v].quota = req[p]
        /\ pc[p] = "finishExpansion" => meta[v].size = req[p]

\* The snapshot of a purge is true of an archive that has a payload.
Snapshot(p) ==
    pc[p] = "reclaimMark" /\ arcPayload[Target(p)] # NoPayload
        => arcMeta[Target(p)].size = found[p].size

Knows(p) == /\ Unlocked(p) /\ LockedCreate(p) /\ LockedDelete(p)
            /\ LockedExpand(p) /\ Snapshot(p)

Integrity == /\ Alone
             /\ \A v \in Vols : Sound(v)
             /\ \A p \in Procs : Knows(p)

-----------------------------------------------------------------------------
(***************************************************************************)
(* Frames.                                                                 *)
(***************************************************************************)
Untouched(v) ==
    /\ intent'[v] = intent[v] /\ meta'[v] = meta[v] /\ xint'[v] = xint[v]
    /\ payload'[v] = payload[v] /\ acked'[v] = acked[v]
    /\ \A i \in Incs : /\ arcMeta'[<<v, i>>] = arcMeta[<<v, i>>]
                       /\ arcPayload'[<<v, i>>] = arcPayload[<<v, i>>]

SeenFrame(p) == \A q \in Procs \ {p} : seen'[q] = seen[q]

\* A call that has ended knows nothing.
LEMMA IdleKnows ==
    ASSUME NEW p \in Procs, pc'[p] = "idle", call'[p] = "none"
    PROVE  Knows(p)'
BY DEF Knows, Unlocked, LockedCreate, LockedDelete, LockedExpand, Snapshot,
       Expanding, Removing, Settled, Growing

\* At these labels a call knows at most what an expansion always knows.
LEMMA BlankKnows ==
    ASSUME NEW p \in Procs, call'[p] # "expand",
           pc'[p] \in {"ident", "look", "evidence", "lock", "relook",
                       "cancelCommit", "archived", "reclaimPayload", "reclaimRow",
                       "reclaimUnlink"}
    PROVE  Knows(p)'
BY DEF Knows, Unlocked, LockedCreate, LockedDelete, LockedExpand, Snapshot,
       Expanding, Removing, Settled, Growing

\* What a call knows of files that are not touched.
LEMMA KeptKnows ==
    ASSUME IInv, NEW q \in Procs, Knows(q), Same(q), seen'[q] = seen[q],
           pc[q] # "idle" => Untouched(vol[q])
    PROVE  Knows(q)'
<1>1. CASE pc[q] = "idle"
  BY <1>1, IdleKnows DEF IInv, ProcOK, CallOK, Same
<1>2. CASE pc[q] # "idle"
  <2>1. PICK v \in Vols : vol[q] = v /\ vol'[q] = v /\ Untouched(v)
    BY <1>2 DEF IInv, ProcOK, CallOK, Same
  <2>2. HasMetadata(v)' <=> HasMetadata(v)
    BY <2>1 DEF HasMetadata, Arriving, Untouched, Exists
  <2>3. Unlocked(q)'
    BY <2>1, <2>2 DEF Knows, Unlocked, Same, Untouched, Exists
  <2>4. LockedCreate(q)'
    BY <2>1 DEF Knows, LockedCreate, Same, Untouched, Exists
  <2>5. LockedDelete(q)'
    BY <2>1 DEF Knows, LockedDelete, Same, Untouched, Exists
  <2>6. LockedExpand(q)'
    BY <2>1 DEF Knows, LockedExpand, Same, Untouched
  <2>7. Snapshot(q)'
    <3>1. CASE pc[q] = "reclaimMark"
      <4>1. PICK i \in Incs : found[q].inc = i
        BY <3>1, ReclaimingFacts DEF ReclaimLabels
      <4>2. Target(q) = <<v, i>> /\ Target(q)' = <<v, i>>
        BY <2>1, <4>1 DEF Target, Same
      <4> QED
        BY <2>1, <4>1, <4>2 DEF Knows, Snapshot, Same, Untouched
    <3>2. CASE pc[q] # "reclaimMark"
      BY <3>2 DEF Snapshot, Same
    <3> QED
      BY <3>1, <3>2
  <2> QED
    BY <2>3, <2>4, <2>5, <2>6, <2>7 DEF Knows
<1> QED
  BY <1>1, <1>2

\* A volume that is not touched, while no delete of it begins.
LEMMA KeptSound ==
    ASSUME NEW v \in Vols, Sound(v), Untouched(v),
           InFlight("delete", v)' => InFlight("delete", v)
    PROVE  Sound(v)'
<1>1. Arriving(v)' <=> Arriving(v)
  BY DEF Arriving, Untouched
<1>2. LiveOK(v)' /\ SpanOK(v)' /\ PayloadOK(v)' /\ GoneOK(v)'
  BY <1>1 DEF Sound, LiveOK, SpanOK, PayloadOK, GoneOK, Granted, Untouched, Exists
<1>3. ArchiveOK(v)' /\ AckOK(v)'
  BY DEF Sound, ArchiveOK, AckOK, Untouched, Exists
<1> QED
  BY <1>2, <1>3 DEF Sound

\* No delete begins.
NoNewDelete(p) == call'[p] = "delete" => call[p] = "delete" /\ vol'[p] = vol[p]

LEMMA FlightKept ==
    ASSUME NEW p \in Procs, Frame(p), NoNewDelete(p), NEW v \in Vols
    PROVE  InFlight("delete", v)' => InFlight("delete", v)
BY DEF InFlight, Frame, Same, NoNewDelete

\* A step of one call: it accounts for its volume, for itself, and for the
\* other calls on the volume.
LEMMA SoundStep ==
    ASSUME Integrity, NEW p \in Procs, NEW v \in Vols, Alone',
           Frame(p), NoNewDelete(p), SeenFrame(p),
           \A w \in Vols \ {v} : Untouched(w),
           Sound(v)', Knows(p)',
           \A q \in Procs \ {p} : vol[q] = v /\ pc[q] # "idle" => Knows(q)'
    PROVE  Integrity'
<1>1. \A w \in Vols : Sound(w)'
  BY KeptSound, FlightKept DEF Integrity
<1>2. ASSUME NEW q \in Procs \ {p} PROVE Knows(q)'
  <2>1. Same(q) /\ seen'[q] = seen[q] /\ Knows(q) /\ IInv
    BY DEF Frame, SeenFrame, Integrity, Alone
  <2>2. CASE vol[q] = v /\ pc[q] # "idle"
    BY <2>2
  <2>3. CASE ~(vol[q] = v /\ pc[q] # "idle")
    <3>1. pc[q] # "idle" => Untouched(vol[q])
      BY <2>1, <2>3 DEF IInv, ProcOK, CallOK
    <3> QED
      BY <2>1, <3>1, KeptKnows
  <2> QED
    BY <2>2, <2>3
<1> QED
  BY <1>1, <1>2 DEF Integrity

\* A step that touches no file and answers nothing.
LEMMA QuietSound ==
    ASSUME Integrity, NEW p \in Procs, Alone',
           Frame(p), NoNewDelete(p), SeenFrame(p),
           UNCHANGED <<files, acked>>, Knows(p)'
    PROVE  Integrity'
<1>1. \A w \in Vols : Untouched(w)
  BY DEF Untouched, files
<1>2. \A w \in Vols : Sound(w)'
  BY <1>1, KeptSound, FlightKept DEF Integrity
<1>3. ASSUME NEW q \in Procs \ {p} PROVE Knows(q)'
  <2>1. Same(q) /\ seen'[q] = seen[q] /\ Knows(q) /\ IInv
    BY DEF Frame, SeenFrame, Integrity, Alone
  <2>2. pc[q] # "idle" => Untouched(vol[q])
    BY <1>1, <2>1 DEF IInv, ProcOK, CallOK
  <2> QED
    BY <2>1, <2>2, KeptKnows
<1> QED
  BY <1>2, <1>3 DEF Integrity

\* A step of the call that has the lock: it may take away what others rely on
\* being absent, and only a create, which has the identity, may bring it.
LEMMA RivalsKnow ==
    ASSUME Integrity, NEW p \in Procs, NEW v \in Vols, vol[p] = v, vlock[v] = p,
           Frame(p), call[p] = "create" => pc[p] # "ident",
           call[p] # "create" =>
              /\ HasMetadata(v)' => HasMetadata(v)
              /\ Exists(meta'[v]) => Exists(meta[v]) /\ meta'[v].inc = meta[v].inc
              /\ acked'[v].inc = acked[v].inc \/ acked'[v].inc = meta'[v].inc,
           Exists(intent'[v]) => Exists(intent[v]),
           \A i \in Incs : Past(v, i) => /\ arcMeta'[<<v, i>>] = arcMeta[<<v, i>>]
                                         /\ arcPayload'[<<v, i>>] = arcPayload[<<v, i>>]
    PROVE  \A q \in Procs \ {p} : vol[q] = v /\ pc[q] # "idle" => Knows(q)'
<1> SUFFICES ASSUME NEW q \in Procs \ {p}, vol[q] = v, pc[q] # "idle"
             PROVE  Knows(q)'
  OBVIOUS
<1>1. /\ IInv /\ Same(q) /\ Knows(q) /\ ProcOK(q) /\ ExpandAlone(q)
      /\ vol'[q] = v /\ vlock[v] # q
  BY DEF Frame, Integrity, Alone, IInv, Same
<1>2. call[q] = "create" /\ call[p] = "create" => pc[q] = "ident"
  BY <1>1, RivalFacts
<1>3. pc[q] \notin UnderLock \cup Expanding \cup {"finish", "reconcile"}
  BY <1>1 DEF Knows, Unlocked, ProcOK, LockOK
<1>4. ~(pc[q] = "body" /\ call[q] = "delete")
  BY <1>1 DEF ProcOK, LockOK
<1>5. Unlocked(q)'
  <2>1. CASE call[q] = "expand"
    <3>1. call[p] # "create"
      BY <1>1, <2>1 DEF ExpandAlone
    <3>2. pc[q] \notin CreateLabels
      BY <1>1, <2>1 DEF ProcOK, CallOK
    <3>3. ~Exists(intent'[v]) /\ (Exists(meta'[v]) => acked'[v].inc = meta'[v].inc)
      BY <1>1, <2>1, <3>1 DEF Knows, Unlocked
    <3> QED
      BY <1>1, <1>3, <2>1, <3>2, <3>3 DEF Unlocked, Same, CreateLabels
  <2>2. CASE call[q] = "create"
    <3>1. CASE call[p] = "create"
      BY <1>1, <1>2, <2>2, <3>1 DEF Unlocked, Same, Expanding
    <3>2. CASE call[p] # "create"
      BY <1>1, <1>3, <2>2, <3>2 DEF Knows, Unlocked, Same, UnderLock
    <3> QED
      BY <3>1, <3>2
  <2>3. CASE call[q] \notin {"create", "expand"}
    BY <1>1, <1>3, <2>3 DEF Unlocked, Same, ProcOK, CallOK, CreateLabels
  <2> QED
    BY <2>1, <2>2, <2>3
<1>6. LockedCreate(q)' /\ LockedExpand(q)'
  BY <1>1, <1>3 DEF LockedCreate, LockedExpand, Same, UnderLock, Expanding, Growing
<1>7. LockedDelete(q)'
  BY <1>1, <1>3, <1>4 DEF LockedDelete, Same, UnderLock, Removing, Settled
<1>8. Snapshot(q)'
  <2>1. CASE pc[q] = "reclaimMark"
    <3>1. PICK i \in Incs : found[q].inc = i
      BY <1>1, <2>1, ReclaimingFacts DEF ReclaimLabels
    <3>2. Target(q) = <<v, i>> /\ Target(q)' = <<v, i>>
      BY <1>1, <3>1 DEF Target, Same
    <3>3. Past(v, i)
      BY <1>1, <2>1, <3>1 DEF ProcOK, FileOK, ReclaimOK, ReclaimLabels
    <3> QED
      BY <1>1, <3>1, <3>2, <3>3 DEF Knows, Snapshot, Same
  <2>2. CASE pc[q] # "reclaimMark"
    BY <1>1, <2>2 DEF Snapshot, Same
  <2> QED
    BY <2>1, <2>2
<1> QED
  BY <1>5, <1>6, <1>7, <1>8 DEF Knows

\* What every step gives.
LEMMA StepFacts ==
    ASSUME Integrity, NEW p \in Procs, Step(p)
    PROVE  /\ TypeOK /\ TypeOK' /\ IInv /\ Alone' /\ ProcOK(p) /\ Knows(p)
           /\ Frame(p) /\ NoNewDelete(p) /\ SeenFrame(p)
<1>1. IInv /\ IInv' /\ Alone' /\ Frame(p) /\ GoesOn(p)
  BY StepKeeps, StepAlone DEF Integrity, Alone
<1>2. TypeOK
  BY <1>1 DEF IInv
<1>3. SeenFrame(p)
  <2>1. CASE Leave(p)
    BY <1>2, <2>1 DEF Leave, SeenFrame, TypeOK, LocalsTyped
  <2>2. CASE ~Leave(p)
    <3>1. CASE Arrive(p)
      BY <1>2, <2>2, <3>1
         DEF Arrive, TakeIdentity, LookMetadata, LookIntent, ReadEvidence,
             TakeVolumeLock, Relook, Fail, SeenFrame, locals, TypeOK, LocalsTyped
    <3>2. CASE CreateStep(p)
      BY <2>2, <3>2
         DEF CreateStep, CreateBody, FinishCommitted, Reconcile, Admit, AdmitCommit,
             EnterCreation, MakePayload, SetQuota, SaveMetadata, DropIntent,
             RecordSize, Fail, SeenFrame, locals
    <3>3. CASE DeleteStep(p)
      BY <2>2, <3>3
         DEF DeleteStep, DeleteBody, CancelPayload, CancelIntent, CancelCommit,
             FoldExpansion, DropExpansion, DropLeftover, MarkDeleting,
             DestroyPayload, ReleaseRow, UnlinkMetadata, PrepareArchive,
             MovePayload, MoveRow, MoveMetadata, MarkArchived, Fail, SeenFrame, locals
    <3>4. CASE ExpandStep(p)
      BY <2>2, <3>4
         DEF ExpandStep, ExpandBody, Requota, Reserve, ReserveCommit, GrowQuota,
             GrowMetadata, FinishExpansion, Fail, SeenFrame, locals
    <3>5. CASE ReclaimStep(p)
      BY <2>2, <3>5
         DEF ReclaimStep, ReclaimMark, ReclaimPayload, ReclaimRow, ReclaimUnlink,
             Fail, SeenFrame, locals
    <3> QED
      BY <3>1, <3>2, <3>3, <3>4, <3>5 DEF Step
  <2> QED
    BY <2>1, <2>2
<1> QED
  BY <1>1, <1>2, <1>3 DEF GoesOn, NoNewDelete, Integrity, IInv

\* A call that leaves, having touched nothing and answered nothing.
LEMMA LeaveSound ==
    ASSUME Integrity, NEW p \in Procs, Step(p), Leave(p), UNCHANGED <<files, acked>>
    PROVE  Integrity'
<1>1. pc'[p] = "idle" /\ call'[p] = "none"
  BY StepFacts, LeaveFacts DEF TypeOK
<1> QED
  BY <1>1, StepFacts, IdleKnows, QuietSound

LEMMA FailSound ==
    ASSUME Integrity, NEW p \in Procs, Step(p), Fail(p)
    PROVE  Integrity'
BY LeaveSound DEF Fail

\* What a call at the way in knows, it knows at the next label as well.
LEMMA ArriveKnows ==
    ASSUME IInv, NEW p \in Procs, Knows(p), UNCHANGED <<files, acked>>,
           call'[p] = call[p], vol'[p] = vol[p], vol[p] \in Vols,
           pc'[p] \in {"look", "evidence", "lock", "relook"}
    PROVE  Knows(p)'
<1>1. PICK v \in Vols : vol[p] = v /\ vol'[p] = v
  OBVIOUS
<1> QED
  BY <1>1 DEF Knows, Unlocked, LockedCreate, LockedDelete, LockedExpand, Snapshot,
              Expanding, Removing, Settled, Growing, files, Exists

-----------------------------------------------------------------------------
(***************************************************************************)
(* The way in.                                                             *)
(***************************************************************************)
LEMMA LookSound ==
    ASSUME Integrity, NEW p \in Procs,
           TakeIdentity(p) \/ LookMetadata(p) \/ ReadEvidence(p) \/ TakeVolumeLock(p)
    PROVE  Integrity'
<1>1. Step(p)
  BY DEF Step, Arrive
<1>2. /\ TypeOK /\ IInv /\ Alone' /\ Knows(p) /\ ProcOK(p)
      /\ Frame(p) /\ NoNewDelete(p) /\ SeenFrame(p)
  BY <1>1, StepFacts
<1>3. PICK v \in Vols : vol[p] = v
  BY <1>2 DEF ProcOK, CallOK, TakeIdentity, LookMetadata, ReadEvidence, TakeVolumeLock
<1>4. UNCHANGED <<files, acked>> /\ call'[p] = call[p] /\ vol'[p] = v
  BY <1>3 DEF TakeIdentity, LookMetadata, ReadEvidence, TakeVolumeLock, locals
<1>5. Knows(p)'
  <2>1. CASE pc'[p] \in {"look", "evidence", "lock", "relook"}
    BY <1>2, <1>3, <1>4, <2>1, ArriveKnows
  <2>2. CASE pc'[p] \notin {"look", "evidence", "lock", "relook"}
    <3>1. LookMetadata(p) /\ pc'[p] = "lookIntent" /\ ~Exists(MetadataOf(v))
      BY <1>2, <1>3, <2>2
         DEF TakeIdentity, LookMetadata, ReadEvidence, TakeVolumeLock, Goto,
             TypeOK, LocalsTyped
    <3>2. ~HasMetadata(v)
      BY <1>2, <3>1, MetadataOfFacts
    <3>3. ~HasMetadata(v)'
      BY <1>4, <3>2 DEF HasMetadata, Arriving, files, Exists
    <3> QED
      BY <1>2, <1>3, <1>4, <3>1, <3>3
         DEF Knows, Unlocked, LockedCreate, LockedDelete, LockedExpand, Snapshot,
             Expanding, Removing, Settled, Growing, files, Exists
  <2> QED
    BY <2>1, <2>2
<1> QED
  BY <1>2, <1>4, <1>5, QuietSound

LEMMA LookIntentSound ==
    ASSUME Integrity, NEW p \in Procs, LookIntent(p), ~Fail(p)
    PROVE  Integrity'
<1>1. Step(p)
  BY DEF Step, Arrive
<1>2. /\ TypeOK /\ IInv /\ Alone' /\ Knows(p) /\ ProcOK(p)
      /\ Frame(p) /\ NoNewDelete(p) /\ SeenFrame(p)
  BY <1>1, StepFacts
<1>3. PICK v \in Vols : vol[p] = v
  BY <1>2 DEF ProcOK, CallOK, LookIntent
<1>4. /\ UNCHANGED <<files, acked>> /\ call'[p] = call[p] /\ vol'[p] = v
      /\ pc[p] = "lookIntent"
      /\ \/ pc'[p] = "evidence"
         \/ pc'[p] = "body" /\ ~Exists(intent[v]) /\ call[p] # "delete"
  BY <1>2, <1>3 DEF LookIntent, Goto, TypeOK, LocalsTyped
<1>5. Knows(p)'
  <2>1. CASE pc'[p] = "evidence"
    BY <1>2, <1>3, <1>4, <2>1, ArriveKnows
  <2>2. CASE pc'[p] = "body"
    <3>1. HasMetadata(v)' <=> HasMetadata(v)
      BY <1>4 DEF HasMetadata, Arriving, files, Exists
    <3> QED
      BY <1>2, <1>3, <1>4, <2>2, <3>1
         DEF Knows, Unlocked, LockedCreate, LockedDelete, LockedExpand, Snapshot,
             Expanding, Removing, Settled, Growing, files, Exists
  <2> QED
    BY <1>4, <2>1, <2>2
<1> QED
  BY <1>2, <1>4, <1>5, QuietSound

LEMMA RelookSound ==
    ASSUME Integrity, NEW p \in Procs, Relook(p), ~Fail(p)
    PROVE  Integrity'
<1>1. Step(p)
  BY DEF Step, Arrive
<1>2. /\ TypeOK /\ IInv /\ Alone' /\ Knows(p) /\ ProcOK(p)
      /\ Frame(p) /\ NoNewDelete(p) /\ SeenFrame(p)
  BY <1>1, StepFacts
<1>3. PICK v \in Vols : vol[p] = v
  BY <1>2 DEF ProcOK, CallOK, Relook
<1>4. /\ UNCHANGED <<files, acked, vlock>> /\ call'[p] = call[p] /\ vol'[p] = v
      /\ pc'[p] = "body" /\ found'[p] = Lookup(v) /\ seen'[p] = seen[p]
      /\ Bytes(Lookup(v)) = seen[p]
  BY <1>2, <1>3 DEF Relook, SameGeneration, Goto, TypeOK, LocalsTyped, locks
<1>5. vlock[v] = p
  BY <1>2, <1>3 DEF ProcOK, LockOK, Relook, UnderLock
<1>6. Lookup(v).inc = seen[p].inc
  BY <1>4 DEF Bytes, Rec
<1>7. Exists(meta[v]) => Lookup(v) = meta[v]
  BY <1>2, MetadataOfFacts, LookupFacts DEF HasMetadata
<1>8. Knows(p)'
  BY <1>2, <1>3, <1>4, <1>5, <1>6, <1>7
     DEF Knows, Unlocked, LockedCreate, LockedDelete, LockedExpand, Snapshot,
         Expanding, Removing, Settled, Growing, files, Exists
<1> QED
  BY <1>2, <1>4, <1>8, QuietSound

LEMMA ArriveSound ==
    ASSUME Integrity, NEW p \in Procs, Arrive(p)
    PROVE  Integrity'
<1>1. Step(p)
  BY DEF Step
<1> QED
  BY <1>1, FailSound, LookSound, LookIntentSound, RelookSound DEF Arrive

-----------------------------------------------------------------------------
(***************************************************************************)
(* Creating a volume.                                                      *)
(***************************************************************************)

\* The steps of a create that touch no file.
LEMMA CreateQuiet ==
    ASSUME Integrity, NEW p \in Procs, ~Fail(p),
           CreateBody(p) \/ AdmitCommit(p) \/ EnterCreation(p)
    PROVE  Integrity'
<1>1. Step(p)
  BY DEF Step, CreateStep
<1>2. /\ TypeOK /\ IInv /\ Alone' /\ Knows(p) /\ ProcOK(p)
      /\ Frame(p) /\ NoNewDelete(p) /\ SeenFrame(p)
  BY <1>1, StepFacts
<1>3. PICK v \in Vols : vol[p] = v
  BY <1>2 DEF ProcOK, CallOK, CreateBody, AdmitCommit, EnterCreation
<1>4. /\ UNCHANGED <<files, acked>> /\ vol'[p] = v
      /\ call[p] = "create" /\ call'[p] = "create"
  BY <1>2, <1>3
     DEF CreateBody, AdmitCommit, EnterCreation, locals, ProcOK, CallOK, CreateLabels
<1>5. HasMetadata(v)' <=> HasMetadata(v)
  BY <1>4 DEF HasMetadata, Arriving, files, Exists
<1>6. Knows(p)'
  <2>1. CASE CreateBody(p)
    <3>1. CASE ~HasMetadata(v) /\ pc'[p] \in {"admit", "enter"}
      BY <1>3, <1>4, <1>5, <3>1
         DEF Knows, Unlocked, LockedCreate, LockedDelete, LockedExpand, Snapshot,
             Expanding, Removing, Settled, Growing
    <3>2. CASE /\ pc'[p] = "finish" /\ found'[p] = Lookup(v)
               /\ Lookup(v).state = "live" /\ vlock' = vlock
      <4>1. Lookup(v) = meta[v] /\ HasMetadata(v)
        BY <1>2, <3>2, LookupFacts DEF HasMetadata, Exists
      <4>2. pc[p] = "body" /\ Unlocked(p)
        BY <1>2, <2>1 DEF CreateBody, Knows
      <4>3. vlock[v] = p
        BY <1>3, <1>4, <4>1, <4>2 DEF Unlocked
      <4> QED
        BY <1>3, <1>4, <3>2, <4>1, <4>3
           DEF Knows, Unlocked, LockedCreate, LockedDelete, LockedExpand, Snapshot,
               Expanding, Removing, Settled, Growing, files
    <3> QED
      BY <1>2, <1>3, <2>1, <3>1, <3>2, LookupFacts
         DEF CreateBody, Goto, TypeOK, LocalsTyped, locks
  <2>2. CASE AdmitCommit(p)
    <3>1. pc'[p] = "enter" /\ ~HasMetadata(v)
      BY <1>2, <1>3, <2>2 DEF AdmitCommit, Goto, TypeOK, LocalsTyped, Knows, Unlocked
    <3> QED
      BY <1>3, <1>4, <1>5, <3>1
         DEF Knows, Unlocked, LockedCreate, LockedDelete, LockedExpand, Snapshot,
             Expanding, Removing, Settled, Growing
  <2>3. CASE EnterCreation(p)
    <3>1. /\ pc'[p] = "makePayload" /\ ~HasMetadata(v) /\ req'[p] = req[p]
          /\ Lookup(v).state \in {"live", "creating"} /\ Lookup(v).size = req[p]
      BY <1>2, <1>3, <2>3
         DEF EnterCreation, Goto, TypeOK, LocalsTyped, Knows, Unlocked, locals
    <3>2. Lookup(v) = intent[v]
      BY <1>2, <3>1, LookupFacts
    <3> QED
      BY <1>3, <1>4, <1>5, <3>1, <3>2
         DEF Knows, Unlocked, LockedCreate, LockedDelete, LockedExpand, Snapshot,
             Expanding, Removing, Settled, Growing, files, Exists
  <2> QED
    BY <2>1, <2>2, <2>3
<1> QED
  BY <1>2, <1>4, <1>6, QuietSound

\* What the labels under the lock have in common.
LEMMA HolderFacts ==
    ASSUME Integrity, NEW p \in Procs, Step(p),
           pc[p] \in UnderLock \cup Expanding \cup {"finish", "reconcile"}
    PROVE  \E v \in Vols : vol[p] = v /\ vlock[v] = p
<1>1. ProcOK(p) /\ Knows(p)
  BY StepFacts
<1>2. pc[p] # "idle"
  BY DEF UnderLock, Expanding
<1>3. vlock[vol[p]] = p
  BY <1>1 DEF ProcOK, LockOK, Knows, Unlocked
<1> QED
  BY <1>1, <1>2, <1>3 DEF ProcOK, CallOK

LEMMA FinishCommittedSound ==
    ASSUME Integrity, NEW p \in Procs, FinishCommitted(p), ~Fail(p)
    PROVE  Integrity'
<1>1. Step(p)
  BY DEF Step, CreateStep
<1>2. /\ TypeOK /\ IInv /\ Alone' /\ Knows(p) /\ ProcOK(p)
      /\ Frame(p) /\ NoNewDelete(p) /\ SeenFrame(p)
  BY <1>1, StepFacts
<1>3. PICK v \in Vols : vol[p] = v /\ vlock[v] = p
  BY <1>1, HolderFacts DEF FinishCommitted
<1>4. /\ UNCHANGED <<meta, xint, payload, arcMeta, arcPayload, acked>>
      /\ intent'[v] = NoRec /\ \A w \in Vols \ {v} : intent'[w] = intent[w]
      /\ vol'[p] = v /\ call'[p] = "create" /\ call[p] = "create"
      /\ pc[p] = "finish" /\ pc'[p] = "reconcile" /\ found'[p] = found[p]
      /\ vlock' = vlock
  BY <1>2, <1>3
     DEF FinishCommitted, Goto, TypeOK, DurableTyped, LocalsTyped, locals, locks,
         ProcOK, CallOK, CreateLabels
<1>5. found[p] = meta[v] /\ meta[v].state = "live"
  BY <1>2, <1>3, <1>4 DEF Knows, LockedCreate, ProcOK, FileOK, CreateOK
<1>6. Sound(v)'
  <2>1. Sound(v)
    BY DEF Integrity
  <2>2. (Arriving(v)' <=> Arriving(v)) /\ (InFlight("delete", v)' => InFlight("delete", v))
    BY <1>2, <1>4, FlightKept DEF Arriving
  <2> QED
    BY <1>4, <1>5, <2>1, <2>2
       DEF Sound, LiveOK, SpanOK, PayloadOK, GoneOK, ArchiveOK, AckOK, Granted,
           Exists, NoRec, Rec
<1>7. Knows(p)'
  BY <1>3, <1>4, <1>5
     DEF Knows, Unlocked, LockedCreate, LockedDelete, LockedExpand, Snapshot,
         Expanding, Removing, Settled, Growing, Exists, NoRec, Rec
<1>8. \A q \in Procs \ {p} : vol[q] = v /\ pc[q] # "idle" => Knows(q)'
  BY <1>2, <1>3, <1>4, RivalsKnow DEF Exists, NoRec, Rec
<1>9. \A w \in Vols \ {v} : Untouched(w)
  BY <1>4 DEF Untouched
<1> QED
  BY <1>2, <1>6, <1>7, <1>8, <1>9, SoundStep

\* Whether an answer is a promise.
LEMMA PromiseMade ==
    ASSUME TypeOK, NEW p \in Procs, NEW v \in Vols, NEW r, Promise(p, v, r)
    PROVE  /\ \A w \in Vols \ {v} : acked'[w] = acked[w]
           /\ \/ acked'[v] = acked[v]
              \/ /\ acked'[v] = r /\ ~InFlight("delete", v)
                 /\ ~(acked[v].state = "deleting" /\ acked[v].inc = r.inc)
BY DEF Promise, InFlight, TypeOK, DurableTyped

\* The answer of a repeated or a finished create.
LEMMA AnswerSound ==
    ASSUME Integrity, NEW p \in Procs, Reconcile(p) \/ RecordSize(p)
    PROVE  Integrity'
<1>1. Step(p)
  BY DEF Step, CreateStep
<1>2. /\ TypeOK /\ IInv /\ Alone' /\ Knows(p) /\ ProcOK(p)
      /\ Frame(p) /\ NoNewDelete(p) /\ SeenFrame(p)
  BY <1>1, StepFacts
<1>3. PICK v \in Vols : vol[p] = v /\ vlock[v] = p
  BY <1>1, HolderFacts DEF Reconcile, RecordSize, UnderLock
<1>4. UNCHANGED files /\ call[p] = "create" /\ Leave(p)
  BY <1>2 DEF Reconcile, RecordSize, ProcOK, CallOK, CreateLabels
<1>5. pc'[p] = "idle" /\ call'[p] = "none"
  BY <1>2, <1>4, LeaveFacts DEF TypeOK
<1>6. PICK r \in {found[p], Rec("live", req[p], meta[v].inc)} :
        /\ Promise(p, v, r)
        /\ meta[v].state = "live" /\ r.state = "live"
        /\ r.inc = meta[v].inc /\ r.size = meta[v].size /\ ~Exists(intent[v])
  <2>1. CASE Reconcile(p)
    BY <1>2, <1>3, <2>1
       DEF Reconcile, Knows, LockedCreate, ProcOK, FileOK, CreateOK
  <2>2. CASE RecordSize(p)
    BY <1>2, <1>3, <2>2 DEF RecordSize, Knows, LockedCreate, Rec
  <2> QED
    BY <2>1, <2>2
<1>7. /\ \A w \in Vols \ {v} : acked'[w] = acked[w]
      /\ \/ acked'[v] = acked[v]
         \/ /\ acked'[v] = r /\ ~InFlight("delete", v)
            /\ ~(acked[v].state = "deleting" /\ acked[v].inc = r.inc)
  BY <1>2, <1>6, PromiseMade
<1>8. Sound(v)'
  <2>1. Sound(v)
    BY DEF Integrity
  <2>2. (Arriving(v)' <=> Arriving(v)) /\ (InFlight("delete", v)' => InFlight("delete", v))
    BY <1>2, <1>4, FlightKept DEF Arriving, files
  <2>3. meta[v].size \in Nat
    BY <1>2, <1>6, RecordFacts, ConstantsAssumption DEF Exists
  <2>4. LiveOK(v)' /\ SpanOK(v)' /\ PayloadOK(v)' /\ GoneOK(v)' /\ ArchiveOK(v)'
    BY <1>4, <1>6, <1>7, <2>1, <2>2
       DEF Sound, LiveOK, SpanOK, PayloadOK, GoneOK, ArchiveOK, Granted, files, Exists
  <2>5. AckOK(v)'
    <3>1. UNCHANGED <<meta, payload, intent>>
      BY <1>4 DEF files
    <3> QED
      BY <1>6, <1>7, <2>1, <2>2, <2>3, <3>1 DEF Sound, AckOK, Exists
  <2> QED
    BY <2>4, <2>5 DEF Sound
<1>9. Knows(p)'
  BY <1>5, IdleKnows
<1>10. \A q \in Procs \ {p} : vol[q] = v /\ pc[q] # "idle" => Knows(q)'
  <2>1. pc[p] # "ident"
    BY DEF Reconcile, RecordSize
  <2> QED
    BY <1>2, <1>3, <1>4, <2>1, RivalsKnow DEF files
<1>11. \A w \in Vols \ {v} : Untouched(w)
  BY <1>4, <1>7 DEF Untouched, files
<1> QED
  BY <1>2, <1>8, <1>9, <1>10, <1>11, SoundStep

\* The steps that make the payload.
LEMMA MakePayloadSound ==
    ASSUME Integrity, NEW p \in Procs, MakePayload(p) \/ SetQuota(p)
    PROVE  Integrity'
<1>1. Step(p)
  BY DEF Step, CreateStep
<1>2. /\ TypeOK /\ IInv /\ Alone' /\ Knows(p) /\ ProcOK(p)
      /\ Frame(p) /\ NoNewDelete(p) /\ SeenFrame(p)
  BY <1>1, StepFacts
<1>3. PICK v \in Vols : vol[p] = v /\ vlock[v] = p
  BY <1>1, HolderFacts DEF MakePayload, SetQuota, UnderLock
<1>4. /\ UNCHANGED <<intent, meta, xint, arcMeta, arcPayload, acked>>
      /\ vol'[p] = v /\ call'[p] = "create" /\ call[p] = "create"
      /\ pc[p] \in {"makePayload", "setQuota"} /\ req'[p] = req[p]
  BY <1>2, <1>3
     DEF MakePayload, SetQuota, locals, ProcOK, CallOK, CreateLabels
<1>5. /\ ~HasMetadata(v) /\ ~Exists(meta[v]) /\ ~Arriving(v)
      /\ Exists(intent[v]) /\ intent[v].size = req[p]
  BY <1>2, <1>3, <1>4 DEF Knows, Unlocked, LockedCreate, HasMetadata
<1>6. req[p] \in Sizes /\ req[p] \in Nat /\ req[p] # 0
  BY <1>2, <1>5, <1>4, RecordFacts, ConstantsAssumption
<1>7. Sound(v) /\ payload[v] \in Payloads
  BY <1>2 DEF Integrity, TypeOK, DurableTyped
<1>8. payload[v] # NoPayload => payload[v].inc = intent[v].inc /\ payload[v].quota <= req[p]
  BY <1>5, <1>7 DEF Sound, PayloadOK, SpanOK, Granted, Exists
<1>9. /\ \A w \in Vols \ {v} : payload'[w] = payload[w]
      /\ payload'[v].inc = intent[v].inc /\ payload'[v].quota <= req[p]
      /\ \/ pc'[p] = "setQuota"
         \/ pc'[p] = "saveMetadata" /\ payload'[v].quota = req[p]
  <2>1. CASE MakePayload(p)
    <3> DEFINE new == IF payload[v] = NoPayload THEN [inc |-> intent[v].inc, quota |-> 0]
                                                ELSE payload[v]
    <3>1. Goto(p, "setQuota") /\ payload' = [payload EXCEPT ![v] = new]
      BY <1>2, <1>3, <1>5, <2>1 DEF MakePayload, AfterMakedirs, TypeOK, DurableTyped
    <3>2. new.inc = intent[v].inc /\ new.quota <= req[p]
      BY <1>6, <1>8
    <3> HIDE DEF new
    <3> QED
      BY <1>2, <3>1, <3>2 DEF Goto, TypeOK, DurableTyped, LocalsTyped
  <2>2. CASE SetQuota(p)
    <3>1. payload[v] # NoPayload
      BY <1>2, <1>3, <2>2 DEF SetQuota, ProcOK, FileOK, CreateOK
    <3>2. payload'[v].inc = payload[v].inc /\ payload'[v].quota = req[p]
      BY <1>2, <1>3, <1>7, <3>1, <2>2 DEF SetQuota, TypeOK, DurableTyped, Payloads
    <3>3. \A w \in Vols \ {v} : payload'[w] = payload[w]
      BY <1>2, <1>3, <2>2 DEF SetQuota, TypeOK, DurableTyped
    <3>4. pc'[p] = "saveMetadata"
      BY <1>2, <2>2 DEF SetQuota, Goto, TypeOK, LocalsTyped
    <3> QED
      BY <1>6, <1>8, <3>1, <3>2, <3>3, <3>4
  <2> QED
    BY <2>1, <2>2
<1>10. Sound(v)'
  <2>1. (Arriving(v)' <=> Arriving(v)) /\ (InFlight("delete", v)' => InFlight("delete", v))
    BY <1>2, <1>4, FlightKept DEF Arriving
  <2>2. xint[v] = NoSpan
    BY <1>5, <1>7 DEF Sound, SpanOK, Exists
  <2> QED
    BY <1>4, <1>5, <1>7, <1>9, <2>1, <2>2
       DEF Sound, LiveOK, SpanOK, PayloadOK, GoneOK, ArchiveOK, AckOK, Granted, Exists
<1>11. Knows(p)'
  <2>1. HasMetadata(v)' <=> HasMetadata(v)
    BY <1>4 DEF HasMetadata, Arriving
  <2>2. payload'[v] # NoPayload
    <3>1. intent[v].inc # 0
      BY <1>2, <1>5, RecordFacts, ConstantsAssumption DEF Incs
    <3> QED
      BY <1>9, <3>1 DEF NoPayload
  <2> QED
    BY <1>3, <1>4, <1>5, <1>9, <2>1, <2>2
       DEF Knows, Unlocked, LockedCreate, LockedDelete, LockedExpand, Snapshot,
           Expanding, Removing, Settled, Growing
<1>12. \A q \in Procs \ {p} : vol[q] = v /\ pc[q] # "idle" => Knows(q)'
  BY <1>2, <1>3, <1>4, RivalsKnow
<1>13. \A w \in Vols \ {v} : Untouched(w)
  BY <1>4, <1>9 DEF Untouched
<1> QED
  BY <1>2, <1>10, <1>11, <1>12, <1>13, SoundStep

\* The metadata is committed, and then the create intent is dropped.
LEMMA CommitSound ==
    ASSUME Integrity, NEW p \in Procs, SaveMetadata(p) \/ DropIntent(p)
    PROVE  Integrity'
<1>1. Step(p)
  BY DEF Step, CreateStep
<1>2. /\ TypeOK /\ IInv /\ Alone' /\ Knows(p) /\ ProcOK(p)
      /\ Frame(p) /\ NoNewDelete(p) /\ SeenFrame(p)
  BY <1>1, StepFacts
<1>3. PICK v \in Vols : vol[p] = v /\ vlock[v] = p
  BY <1>1, HolderFacts DEF SaveMetadata, DropIntent, UnderLock
<1>4. /\ UNCHANGED <<payload, xint, arcMeta, arcPayload, acked>>
      /\ vol'[p] = v /\ call'[p] = "create" /\ call[p] = "create"
      /\ pc[p] \in {"saveMetadata", "dropIntent"} /\ req'[p] = req[p]
      /\ Sound(v)
  BY <1>2, <1>3
     DEF SaveMetadata, DropIntent, locals, ProcOK, CallOK, CreateLabels, Integrity
<1>5. (Arriving(v)' <=> Arriving(v)) /\ (InFlight("delete", v)' => InFlight("delete", v))
  BY <1>2, <1>4, FlightKept DEF Arriving
<1>6. CASE SaveMetadata(p)
  <2>1. /\ ~HasMetadata(v) /\ ~Exists(meta[v]) /\ ~Arriving(v)
        /\ Exists(intent[v]) /\ intent[v].size = req[p]
        /\ payload[v] # NoPayload /\ payload[v].quota = req[p]
    BY <1>2, <1>3, <1>6 DEF SaveMetadata, Knows, Unlocked, LockedCreate, HasMetadata
  <2>2. /\ UNCHANGED intent /\ pc'[p] = "dropIntent"
        /\ meta'[v] = Rec("live", req[p], intent[v].inc)
        /\ \A w \in Vols \ {v} : meta'[w] = meta[w]
    BY <1>2, <1>3, <1>6 DEF SaveMetadata, Goto, TypeOK, DurableTyped, LocalsTyped
  <2>3. xint[v] = NoSpan /\ payload[v].inc = intent[v].inc
    BY <1>4, <2>1 DEF Sound, SpanOK, PayloadOK, Exists
  <2>4. req[p] \in Nat /\ req[p] # 0
    BY <1>2, <2>1, RecordFacts, ConstantsAssumption
  <2>5. Sound(v)'
    BY <1>4, <1>5, <2>1, <2>2, <2>3, <2>4
       DEF Sound, LiveOK, SpanOK, PayloadOK, GoneOK, ArchiveOK, AckOK, Granted,
           Exists, Rec
  <2>6. Knows(p)'
    BY <1>3, <1>4, <2>1, <2>2, <2>4
       DEF Knows, Unlocked, LockedCreate, LockedDelete, LockedExpand, Snapshot,
           Expanding, Removing, Settled, Growing, Rec
  <2>7. \A q \in Procs \ {p} : vol[q] = v /\ pc[q] # "idle" => Knows(q)'
    BY <1>2, <1>3, <1>4, <2>2, RivalsKnow
  <2>8. \A w \in Vols \ {v} : Untouched(w)
    BY <1>4, <2>2 DEF Untouched
  <2> QED
    BY <1>2, <2>5, <2>6, <2>7, <2>8, SoundStep
<1>7. CASE DropIntent(p)
  <2>1. meta[v].state = "live" /\ meta[v].size = req[p] /\ payload[v].quota >= req[p]
    BY <1>2, <1>3, <1>7 DEF DropIntent, Knows, LockedCreate
  <2>2. /\ UNCHANGED meta /\ pc'[p] = "record" /\ intent'[v] = NoRec
        /\ \A w \in Vols \ {v} : intent'[w] = intent[w]
    BY <1>2, <1>3, <1>7 DEF DropIntent, Goto, TypeOK, DurableTyped, LocalsTyped
  <2>3. Sound(v)'
    BY <1>4, <1>5, <2>1, <2>2
       DEF Sound, LiveOK, SpanOK, PayloadOK, GoneOK, ArchiveOK, AckOK, Granted,
           Exists, NoRec, Rec
  <2>4. Knows(p)'
    BY <1>3, <1>4, <2>1, <2>2
       DEF Knows, Unlocked, LockedCreate, LockedDelete, LockedExpand, Snapshot,
           Expanding, Removing, Settled, Growing, Exists, NoRec, Rec
  <2>5. \A q \in Procs \ {p} : vol[q] = v /\ pc[q] # "idle" => Knows(q)'
    BY <1>2, <1>3, <1>4, <2>2, RivalsKnow DEF Exists, NoRec, Rec
  <2>6. \A w \in Vols \ {v} : Untouched(w)
    BY <1>4, <2>2 DEF Untouched
  <2> QED
    BY <1>2, <2>3, <2>4, <2>5, <2>6, SoundStep
<1> QED
  BY <1>6, <1>7

\* The create intent is written by the call that has the identity; it has not
\* the lock of the volume, but nobody relies on there being no intent.
LEMMA AdmitSound ==
    ASSUME Integrity, NEW p \in Procs, Admit(p)
    PROVE  Integrity'
<1>1. Step(p)
  BY DEF Step, CreateStep
<1>2. /\ TypeOK /\ IInv /\ Alone' /\ Knows(p) /\ ProcOK(p)
      /\ Frame(p) /\ NoNewDelete(p) /\ SeenFrame(p)
  BY <1>1, StepFacts
<1>3. PICK v \in Vols : vol[p] = v
  BY <1>2 DEF ProcOK, CallOK, Admit
<1>4. /\ pc[p] = "admit" /\ call[p] = "create" /\ req[p] \in Sizes
      /\ ~HasMetadata(v) /\ ~Exists(intent[v]) /\ ~Exists(meta[v]) /\ ~Arriving(v)
  BY <1>2, <1>3 DEF Admit, ProcOK, CallOK, FileOK, CreateOK, CreateLabels, HasMetadata
<1>5. CASE Leave(p) /\ UNCHANGED <<files, acked>>
  BY <1>1, <1>5, LeaveSound
<1>6. CASE ~(Leave(p) /\ UNCHANGED <<files, acked>>)
  <2>1. /\ UNCHANGED <<meta, xint, payload, arcMeta, arcPayload, acked>>
        /\ vol'[p] = v /\ call'[p] = "create" /\ pc'[p] = "admitCommit"
        /\ intent'[v] = Rec("creating", req[p], nextInc[v])
        /\ \A w \in Vols \ {v} : intent'[w] = intent[w]
    BY <1>2, <1>3, <1>4, <1>6
       DEF Admit, Fail, Goto, TypeOK, DurableTyped, LocalsTyped, locals
  <2>2. (Arriving(v)' <=> Arriving(v)) /\ (HasMetadata(v)' <=> HasMetadata(v))
        /\ (InFlight("delete", v)' => InFlight("delete", v))
    BY <1>2, <2>1, FlightKept DEF Arriving, HasMetadata
  <2>3. Sound(v)'
    <3>1. Sound(v)
      BY DEF Integrity
    <3>2. payload[v] = NoPayload /\ xint[v] = NoSpan
      BY <1>4, <3>1 DEF Sound, PayloadOK, SpanOK, Exists
    <3> QED
      BY <1>4, <2>1, <2>2, <3>1, <3>2
         DEF Sound, LiveOK, SpanOK, PayloadOK, GoneOK, ArchiveOK, AckOK, Granted, Exists
  <2>4. Knows(p)'
    BY <1>4, <2>1, <2>2
       DEF Knows, Unlocked, LockedCreate, LockedDelete, LockedExpand, Snapshot,
           Expanding, Removing, Settled, Growing
  <2>5. ASSUME NEW q \in Procs \ {p}, vol[q] = v, pc[q] # "idle" PROVE Knows(q)'
    <3>1. /\ Same(q) /\ Knows(q) /\ ProcOK(q) /\ ExpandAlone(q)
          /\ vol'[q] = v /\ seen'[q] = seen[q]
      BY <1>2, <2>5 DEF Frame, SeenFrame, Integrity, Alone, IInv, Same
    <3>2. call[q] = "create" => pc[q] = "ident"
      BY <1>2, <1>3, <1>4, <2>5, RivalFacts
    <3>3. call[q] # "expand"
      BY <1>3, <1>4, <2>5, <3>1 DEF ExpandAlone
    <3>4. Unlocked(q)' /\ LockedCreate(q)' /\ LockedExpand(q)'
      BY <3>1, <3>2, <3>3
         DEF ProcOK, CallOK, Same, Unlocked, LockedCreate, LockedExpand, CreateLabels,
             Expanding, Growing
    <3>5. LockedDelete(q)'
      BY <2>1, <2>5, <3>1 DEF Same, Knows, LockedDelete
    <3>6. Snapshot(q)'
      BY <2>1, <2>5, <3>1 DEF Same, Knows, Snapshot, Target
    <3> QED
      BY <3>4, <3>5, <3>6 DEF Knows
  <2>6. \A w \in Vols \ {v} : Untouched(w)
    BY <2>1 DEF Untouched
  <2> QED
    BY <1>2, <2>3, <2>4, <2>5, <2>6, SoundStep
<1> QED
  BY <1>5, <1>6

LEMMA CreateSound ==
    ASSUME Integrity, NEW p \in Procs, CreateStep(p)
    PROVE  Integrity'
<1>1. Step(p)
  BY DEF Step
<1> QED
  BY <1>1, FailSound, CreateQuiet, FinishCommittedSound, AnswerSound, AdmitSound,
     MakePayloadSound, CommitSound DEF CreateStep

-----------------------------------------------------------------------------
(***************************************************************************)
(* Deleting or archiving a volume.                                         *)
(***************************************************************************)

\* The steps of a delete that touch no file.
LEMMA DeleteQuiet ==
    ASSUME Integrity, NEW p \in Procs, ~Fail(p),
           DeleteBody(p) \/ ReleaseRow(p) \/ MoveRow(p)
    PROVE  Integrity'
<1>1. Step(p)
  BY DEF Step, DeleteStep
<1>2. /\ TypeOK /\ IInv /\ Alone' /\ Knows(p) /\ ProcOK(p)
      /\ Frame(p) /\ NoNewDelete(p) /\ SeenFrame(p)
  BY <1>1, StepFacts
<1>3. PICK v \in Vols : vol[p] = v
  BY <1>2 DEF ProcOK, CallOK, DeleteBody, ReleaseRow, MoveRow
<1>4. /\ UNCHANGED <<files, acked, found, seen>> /\ vol'[p] = v
      /\ call[p] = "delete" /\ call'[p] = "delete"
      /\ \/ pc[p] = "body" /\ pc'[p] \in {"cancel", "fold"}
         \/ pc[p] = "release" /\ pc'[p] = "unlink"
         \/ pc[p] = "moveRow" /\ pc'[p] = "moveMetadata"
  BY <1>2, <1>3
     DEF DeleteBody, ReleaseRow, MoveRow, Goto, TypeOK, LocalsTyped, locals,
         ProcOK, CallOK, DeleteLabels
<1>5. LockedDelete(p)
  BY <1>2 DEF Knows
<1>6. LockedDelete(p)'
  BY <1>3, <1>4, <1>5 DEF LockedDelete, Removing, Settled, files
<1>7. Knows(p)'
  BY <1>4, <1>6
     DEF Knows, Unlocked, LockedCreate, LockedExpand, Snapshot, Expanding, Growing
<1> QED
  BY <1>2, <1>4, <1>7, QuietSound

\* What a delete that works on its volume has in common.
LEMMA DeletingFacts ==
    ASSUME Integrity, NEW p \in Procs, Step(p), pc[p] \in DeleteLabels
    PROVE  \E v \in Vols :
             /\ vol[p] = v /\ vlock[v] = p /\ call[p] = "delete"
             /\ acked[v].state = "deleting" /\ Sound(v)
             /\ LockedDelete(p) /\ DeleteOK(p) /\ TypeOK
             /\ InFlight("delete", v)' => InFlight("delete", v)
<1>1. /\ ProcOK(p) /\ Knows(p) /\ TypeOK /\ Frame(p) /\ NoNewDelete(p)
      /\ pc[p] \in UnderLock
  BY StepFacts DEF DeleteLabels, UnderLock
<1>2. PICK v \in Vols : vol[p] = v /\ vlock[v] = p
  BY <1>1, HolderFacts
<1>3. call[p] = "delete" /\ Sound(v) /\ LockedDelete(p) /\ DeleteOK(p)
  BY <1>1 DEF ProcOK, CallOK, FileOK, Knows, Integrity
<1>4. acked[v].state = "deleting"
  BY <1>2, <1>3 DEF Sound, AckOK, InFlight
<1>5. InFlight("delete", v)' => InFlight("delete", v)
  BY <1>1, FlightKept
<1> QED
  BY <1>1, <1>2, <1>3, <1>4, <1>5

\* A step of a delete has to account for its volume, for what it knows, and
\* for what others rely on being absent.
LEMMA DeleteStepSound ==
    ASSUME Integrity, NEW p \in Procs, DeleteStep(p), NEW v \in Vols,
           vol[p] = v, vlock[v] = p, call[p] = "delete",
           Sound(v)', UNCHANGED acked,
           \A w \in Vols \ {v} : Untouched(w),
           \/ pc'[p] = "idle" /\ call'[p] = "none"
           \/ /\ call'[p] = "delete" /\ LockedDelete(p)'
              /\ pc'[p] \in {"cancel", "cancelIntent", "cancelCommit", "archived"}
                              \cup Removing,
           Exists(intent'[v]) => Exists(intent[v]),
           HasMetadata(v)' => HasMetadata(v),
           Exists(meta'[v]) => Exists(meta[v]) /\ meta'[v].inc = meta[v].inc,
           \A i \in Incs : Past(v, i) => /\ arcMeta'[<<v, i>>] = arcMeta[<<v, i>>]
                                         /\ arcPayload'[<<v, i>>] = arcPayload[<<v, i>>]
    PROVE  Integrity'
<1>1. Step(p)
  BY DEF Step
<1>2. /\ TypeOK /\ IInv /\ Alone' /\ Frame(p) /\ NoNewDelete(p) /\ SeenFrame(p)
  BY <1>1, StepFacts
<1>3. Knows(p)'
  <2>1. CASE pc'[p] = "idle" /\ call'[p] = "none"
    BY <2>1, IdleKnows
  <2>2. CASE ~(pc'[p] = "idle" /\ call'[p] = "none")
    BY <2>2
       DEF Knows, Unlocked, LockedCreate, LockedExpand, Snapshot, Expanding,
           Removing, Growing
  <2> QED
    BY <2>1, <2>2
<1>4. \A q \in Procs \ {p} : vol[q] = v /\ pc[q] # "idle" => Knows(q)'
  BY <1>2, RivalsKnow
<1> QED
  BY <1>2, <1>3, <1>4, SoundStep

LEMMA CancelSound ==
    ASSUME Integrity, NEW p \in Procs, ~Fail(p), CancelPayload(p) \/ CancelIntent(p)
    PROVE  Integrity'
<1>1. DeleteStep(p) /\ Step(p) /\ pc[p] \in DeleteLabels
  BY DEF Step, DeleteStep, CancelPayload, CancelIntent, DeleteLabels
<1>2. PICK v \in Vols :
        /\ vol[p] = v /\ vlock[v] = p /\ call[p] = "delete"
        /\ acked[v].state = "deleting" /\ Sound(v)
        /\ LockedDelete(p) /\ DeleteOK(p) /\ TypeOK
        /\ InFlight("delete", v)' => InFlight("delete", v)
  BY <1>1, DeletingFacts
<1>3. /\ UNCHANGED <<meta, xint, arcMeta, arcPayload, acked, found, seen>>
      /\ vol'[p] = v /\ call'[p] = "delete"
  BY <1>2 DEF CancelPayload, CancelIntent, locals
<1>4. (Arriving(v)' <=> Arriving(v)) /\ (HasMetadata(v)' <=> HasMetadata(v))
  BY <1>3 DEF Arriving, HasMetadata
<1>5. CASE CancelPayload(p)
  <2>1. /\ UNCHANGED intent /\ payload'[v] = NoPayload
        /\ \A w \in Vols \ {v} : payload'[w] = payload[w]
        /\ ~Exists(meta[v]) /\ pc[p] = "cancel" /\ pc'[p] = "cancelIntent"
    BY <1>2, <1>5 DEF CancelPayload, Goto, TypeOK, DurableTyped, LocalsTyped
  <2>2. Sound(v)'
    BY <1>2, <1>3, <1>4, <2>1
       DEF Sound, LiveOK, SpanOK, PayloadOK, GoneOK, ArchiveOK, AckOK, Granted, Exists
  <2>3. LockedDelete(p)'
    BY <1>2, <1>3, <2>1 DEF LockedDelete, Removing, Settled
  <2>4. \A w \in Vols \ {v} : Untouched(w)
    BY <1>3, <2>1 DEF Untouched
  <2> QED
    BY <1>1, <1>2, <1>3, <1>4, <2>1, <2>2, <2>3, <2>4, DeleteStepSound
<1>6. CASE CancelIntent(p)
  <2>1. /\ UNCHANGED payload /\ intent'[v] = NoRec
        /\ \A w \in Vols \ {v} : intent'[w] = intent[w]
        /\ pc[p] = "cancelIntent" /\ pc'[p] = "cancelCommit"
    BY <1>2, <1>6 DEF CancelIntent, Goto, TypeOK, DurableTyped, LocalsTyped
  <2>2. ~Exists(meta[v]) /\ payload[v] = NoPayload
    BY <1>2, <2>1 DEF LockedDelete
  <2>3. Sound(v)'
    BY <1>2, <1>3, <1>4, <2>1, <2>2
       DEF Sound, LiveOK, SpanOK, PayloadOK, GoneOK, ArchiveOK, AckOK, Granted,
           Exists, NoRec, Rec
  <2>4. LockedDelete(p)'
    BY <2>1 DEF LockedDelete, Removing, Settled
  <2>5. \A w \in Vols \ {v} : Untouched(w)
    BY <1>3, <2>1 DEF Untouched
  <2> QED
    BY <1>1, <1>2, <1>3, <1>4, <2>1, <2>3, <2>4, <2>5, DeleteStepSound
       DEF Exists, NoRec, Rec
<1> QED
  BY <1>5, <1>6

\* A pending expansion is made part of the metadata: the quota may then be
\* less than the metadata says, and the caller has asked for the delete.
LEMMA FoldSound ==
    ASSUME Integrity, NEW p \in Procs, ~Fail(p), FoldExpansion(p) \/ DropExpansion(p)
    PROVE  Integrity'
<1>1. DeleteStep(p) /\ Step(p) /\ pc[p] \in DeleteLabels
  BY DEF Step, DeleteStep, FoldExpansion, DropExpansion, DeleteLabels
<1>2. PICK v \in Vols :
        /\ vol[p] = v /\ vlock[v] = p /\ call[p] = "delete"
        /\ acked[v].state = "deleting" /\ Sound(v)
        /\ LockedDelete(p) /\ DeleteOK(p) /\ TypeOK
        /\ InFlight("delete", v)' => InFlight("delete", v)
  BY <1>1, DeletingFacts
<1>3. /\ UNCHANGED <<intent, payload, arcMeta, arcPayload, acked, found, seen>>
      /\ vol'[p] = v /\ call'[p] = "delete"
  BY <1>2 DEF FoldExpansion, DropExpansion, files, locals
<1>4. Arriving(v)' <=> Arriving(v)
  BY <1>3 DEF Arriving
<1>5. xint[v] \in Spans /\ meta[v] \in Metadata
  BY <1>2 DEF TypeOK, DurableTyped
<1>6. xint[v] # NoSpan => xint[v].from \in Nat /\ xint[v].to \in Nat /\ xint[v].to # 0
  BY <1>5, ConstantsAssumption DEF Spans, NoSpan
<1>7. CASE FoldExpansion(p) /\ xint[v] = NoSpan
  <2>1. UNCHANGED files /\ pc[p] = "fold" /\ pc'[p] = "dropLeftover"
    BY <1>2, <1>7 DEF FoldExpansion, Goto, TypeOK, LocalsTyped
  <2>2. LockedDelete(p)'
    BY <1>2, <1>3, <1>7, <2>1 DEF LockedDelete, Removing, Settled, files
  <2>3. Knows(p)'
    BY <1>3, <2>1, <2>2
       DEF Knows, Unlocked, LockedCreate, LockedExpand, Snapshot, Expanding, Growing
  <2> QED
    BY <1>1, <1>3, <2>1, <2>3, StepFacts, QuietSound
<1>8. CASE FoldExpansion(p) /\ xint[v] # NoSpan
  <2>1. /\ UNCHANGED xint /\ meta' = [meta EXCEPT ![v].size = xint[v].to]
        /\ meta[v].size \in {xint[v].from, xint[v].to}
        /\ pc[p] = "fold" /\ pc'[p] = "dropExpansion"
    BY <1>2, <1>8 DEF FoldExpansion, Goto, TypeOK, LocalsTyped
  <2>2. /\ meta'[v].state = meta[v].state /\ meta'[v].inc = meta[v].inc
        /\ meta'[v].size = xint[v].to /\ \A w \in Vols \ {v} : meta'[w] = meta[w]
    BY <1>2, <1>5, <2>1 DEF TypeOK, DurableTyped, Metadata, Kind, NoRec, Rec
  <2>3. HasMetadata(v)' <=> HasMetadata(v)
    BY <1>4, <2>2 DEF HasMetadata, Exists
  <2>4. meta[v].state = "live" /\ acked[v].inc = meta[v].inc /\ ~Exists(intent[v])
    BY <1>2, <1>8 DEF Sound, SpanOK
  <2>5. Sound(v)'
    BY <1>2, <1>3, <1>4, <1>6, <1>8, <2>1, <2>2, <2>4
       DEF Sound, LiveOK, SpanOK, PayloadOK, GoneOK, ArchiveOK, AckOK, Granted, Exists
  <2>6. LockedDelete(p)'
    BY <1>2, <1>3, <2>1, <2>2 DEF LockedDelete, Removing, Settled, Exists
  <2>7. \A w \in Vols \ {v} : Untouched(w)
    BY <1>3, <2>1, <2>2 DEF Untouched
  <2>8. pc'[p] \in Removing
    BY <2>1 DEF Removing
  <2>9. Exists(meta'[v]) => Exists(meta[v]) /\ meta'[v].inc = meta[v].inc
    BY <2>2 DEF Exists
  <2> QED
    BY <1>1, <1>2, <1>3, <2>3, <2>5, <2>6, <2>7, <2>8, <2>9, DeleteStepSound
<1>9. CASE DropExpansion(p)
  <2>1. /\ UNCHANGED meta /\ xint'[v] = NoSpan
        /\ \A w \in Vols \ {v} : xint'[w] = xint[w]
        /\ pc[p] = "dropExpansion" /\ pc'[p] = "dropLeftover"
    BY <1>2, <1>9 DEF DropExpansion, Goto, TypeOK, DurableTyped, LocalsTyped
  <2>2. meta[v].size = xint[v].to
    BY <1>2, <2>1 DEF LockedDelete
  <2>3. HasMetadata(v)' <=> HasMetadata(v)
    BY <1>4, <2>1 DEF HasMetadata, Exists
  <2>4. Sound(v)'
    BY <1>2, <1>3, <1>4, <2>1, <2>2
       DEF Sound, LiveOK, SpanOK, PayloadOK, GoneOK, ArchiveOK, AckOK, Granted, Exists
  <2>5. LockedDelete(p)'
    BY <1>2, <1>3, <2>1 DEF LockedDelete, Removing, Settled, Exists
  <2>6. \A w \in Vols \ {v} : Untouched(w)
    BY <1>3, <2>1 DEF Untouched
  <2>7. pc'[p] \in Removing
    BY <2>1 DEF Removing
  <2> QED
    BY <1>1, <1>2, <1>3, <2>1, <2>3, <2>4, <2>5, <2>6, <2>7, DeleteStepSound
<1> QED
  BY <1>7, <1>8, <1>9

\* The leftover create intent goes, and the tombstone is written.
LEMMA MarkSound ==
    ASSUME Integrity, NEW p \in Procs, ~Fail(p), DropLeftover(p) \/ MarkDeleting(p)
    PROVE  Integrity'
<1>1. DeleteStep(p) /\ Step(p) /\ pc[p] \in DeleteLabels
  BY DEF Step, DeleteStep, DropLeftover, MarkDeleting, DeleteLabels
<1>2. PICK v \in Vols :
        /\ vol[p] = v /\ vlock[v] = p /\ call[p] = "delete"
        /\ acked[v].state = "deleting" /\ Sound(v)
        /\ LockedDelete(p) /\ DeleteOK(p) /\ TypeOK
        /\ InFlight("delete", v)' => InFlight("delete", v)
  BY <1>1, DeletingFacts
<1>3. /\ UNCHANGED <<xint, payload, arcMeta, arcPayload, acked, found, seen>>
      /\ vol'[p] = v /\ call'[p] = "delete"
  BY <1>2 DEF DropLeftover, MarkDeleting, locals
<1>4. Arriving(v)' <=> Arriving(v)
  BY <1>3 DEF Arriving
<1>5. HasMetadata(v) /\ xint[v] = NoSpan /\ (Exists(meta[v]) => meta[v].inc = seen[p].inc)
  BY <1>2 DEF DropLeftover, MarkDeleting, DeleteOK, LockedDelete, Settled, Removing
<1>6. CASE DropLeftover(p)
  <2>1. /\ UNCHANGED meta /\ intent'[v] = NoRec
        /\ \A w \in Vols \ {v} : intent'[w] = intent[w]
        /\ pc'[p] \in {"prepareArchive", "markDeleting"}
    BY <1>2, <1>6
       DEF DropLeftover, FirstOfReclaim, Goto, TypeOK, DurableTyped, LocalsTyped
  <2>2. HasMetadata(v)'
    BY <1>4, <1>5, <2>1 DEF HasMetadata, Exists
  <2>3. Sound(v)'
    BY <1>2, <1>3, <1>4, <1>5, <2>1
       DEF Sound, LiveOK, SpanOK, PayloadOK, GoneOK, ArchiveOK, AckOK, Granted,
           HasMetadata, Exists, NoRec, Rec
  <2>4. LockedDelete(p)' /\ pc'[p] \in Removing
    BY <1>3, <1>5, <2>1 DEF LockedDelete, Removing, Settled
  <2>5. \A w \in Vols \ {v} : Untouched(w)
    BY <1>3, <2>1 DEF Untouched
  <2> QED
    BY <1>1, <1>2, <1>3, <1>5, <2>1, <2>3, <2>4, <2>5, DeleteStepSound
       DEF Exists, NoRec, Rec
<1>7. CASE MarkDeleting(p)
  <2>1. /\ UNCHANGED intent /\ meta' = [meta EXCEPT ![v].state = "deleting"]
        /\ MetadataOf(v).state \in {"live", "deleting"}
        /\ pc[p] = "markDeleting" /\ pc'[p] = "destroy"
    BY <1>2, <1>7
       DEF MarkDeleting, Deletable, Goto, TypeOK, DurableTyped, LocalsTyped
  <2>2. Exists(meta[v]) /\ MetadataOf(v) = meta[v]
    BY <1>2, <1>5, <2>1, MetadataOfFacts DEF HasMetadata
  <2>3. /\ meta'[v].state = "deleting" /\ meta'[v].inc = meta[v].inc
        /\ meta'[v].size = meta[v].size /\ \A w \in Vols \ {v} : meta'[w] = meta[w]
    BY <1>2, <2>1 DEF TypeOK, DurableTyped, Metadata, Kind, NoRec, Rec
  <2>4. ~Exists(intent[v])
    BY <1>2, <2>1 DEF DeleteOK
  <2>5. Sound(v)'
    BY <1>2, <1>3, <1>4, <1>5, <2>1, <2>2, <2>3, <2>4
       DEF Sound, LiveOK, SpanOK, PayloadOK, GoneOK, ArchiveOK, AckOK, Granted, Exists
  <2>6. LockedDelete(p)' /\ pc'[p] \in Removing
    BY <1>3, <1>5, <2>1, <2>2, <2>3 DEF LockedDelete, Removing, Settled
  <2>7. \A w \in Vols \ {v} : Untouched(w)
    BY <1>3, <2>1, <2>3 DEF Untouched
  <2> QED
    BY <1>1, <1>2, <1>3, <1>5, <2>1, <2>2, <2>3, <2>5, <2>6, <2>7, DeleteStepSound
<1> QED
  BY <1>6, <1>7

\* The payload is destroyed, and then its tombstone is removed.
LEMMA DestroySound ==
    ASSUME Integrity, NEW p \in Procs, DestroyPayload(p) \/ UnlinkMetadata(p)
    PROVE  Integrity'
<1>1. DeleteStep(p) /\ Step(p) /\ pc[p] \in DeleteLabels
  BY DEF Step, DeleteStep, DestroyPayload, UnlinkMetadata, DeleteLabels
<1>2. PICK v \in Vols :
        /\ vol[p] = v /\ vlock[v] = p /\ call[p] = "delete"
        /\ acked[v].state = "deleting" /\ Sound(v)
        /\ LockedDelete(p) /\ DeleteOK(p) /\ TypeOK
        /\ InFlight("delete", v)' => InFlight("delete", v)
  BY <1>1, DeletingFacts
<1>3. UNCHANGED <<intent, xint, arcMeta, arcPayload, acked>>
  BY DEF DestroyPayload, UnlinkMetadata
<1>4. Arriving(v)' <=> Arriving(v)
  BY <1>3 DEF Arriving
<1>5. /\ meta[v].state = "deleting" /\ ~Exists(intent[v]) /\ xint[v] = NoSpan
      /\ Exists(meta[v]) /\ meta[v].inc = seen[p].inc
  BY <1>2 DEF DestroyPayload, UnlinkMetadata, DeleteOK, LockedDelete, Settled,
              Removing, Exists
<1>6. CASE DestroyPayload(p)
  <2>1. /\ UNCHANGED <<meta, found, seen>> /\ payload'[v] = NoPayload
        /\ \A w \in Vols \ {v} : payload'[w] = payload[w]
        /\ pc'[p] = "release" /\ vol'[p] = v /\ call'[p] = "delete"
    BY <1>2, <1>6
       DEF DestroyPayload, Goto, TypeOK, DurableTyped, LocalsTyped, locals
  <2>2. Sound(v)'
    BY <1>2, <1>3, <1>4, <1>5, <2>1
       DEF Sound, LiveOK, SpanOK, PayloadOK, GoneOK, ArchiveOK, AckOK, Granted, Exists
  <2>3. LockedDelete(p)' /\ pc'[p] \in Removing
    BY <1>3, <1>5, <2>1 DEF LockedDelete, Removing, Settled
  <2>4. HasMetadata(v)
    BY <1>5 DEF HasMetadata
  <2>5. \A w \in Vols \ {v} : Untouched(w)
    BY <1>3, <2>1 DEF Untouched
  <2> QED
    BY <1>1, <1>2, <1>3, <1>5, <2>1, <2>2, <2>3, <2>4, <2>5, DeleteStepSound
<1>7. CASE UnlinkMetadata(p)
  <2>1. /\ UNCHANGED payload /\ meta'[v] = NoRec /\ Leave(p) /\ pc[p] = "unlink"
        /\ \A w \in Vols \ {v} : meta'[w] = meta[w]
    BY <1>2, <1>7 DEF UnlinkMetadata, TypeOK, DurableTyped
  <2>2. pc'[p] = "idle" /\ call'[p] = "none"
    BY <1>2, <2>1, LeaveFacts DEF TypeOK
  <2>3. payload[v] = NoPayload
    BY <1>2, <2>1 DEF LockedDelete
  <2>4. Sound(v)'
    BY <1>2, <1>3, <1>4, <1>5, <2>1, <2>3
       DEF Sound, LiveOK, SpanOK, PayloadOK, GoneOK, ArchiveOK, AckOK, Granted,
           Exists, NoRec, Rec
  <2>5. HasMetadata(v) /\ ~Exists(meta'[v])
    BY <1>5, <2>1 DEF HasMetadata, Exists, NoRec, Rec
  <2>6. \A w \in Vols \ {v} : Untouched(w)
    BY <1>3, <2>1 DEF Untouched
  <2> QED
    BY <1>1, <1>2, <1>3, <2>2, <2>4, <2>5, <2>6, DeleteStepSound
<1> QED
  BY <1>6, <1>7

\* The archive is decided upon.
LEMMA PrepareArchiveSound ==
    ASSUME Integrity, NEW p \in Procs, PrepareArchive(p)
    PROVE  Integrity'
<1>1. DeleteStep(p) /\ Step(p) /\ pc[p] \in DeleteLabels
  BY DEF Step, DeleteStep, PrepareArchive, DeleteLabels
<1>2. PICK v \in Vols :
        /\ vol[p] = v /\ vlock[v] = p /\ call[p] = "delete"
        /\ acked[v].state = "deleting" /\ Sound(v)
        /\ LockedDelete(p) /\ DeleteOK(p) /\ TypeOK
        /\ InFlight("delete", v)' => InFlight("delete", v)
  BY <1>1, DeletingFacts
<1>3. /\ UNCHANGED <<intent, xint, payload, arcMeta, arcPayload, acked, found, seen>>
      /\ vol'[p] = v /\ call'[p] = "delete" /\ pc'[p] = "movePayload"
      /\ pc[p] = "prepareArchive"
  BY <1>2 DEF PrepareArchive, locals, Goto, TypeOK, LocalsTyped
<1>4. Arriving(v)' <=> Arriving(v)
  BY <1>3 DEF Arriving
<1>5. /\ ~Exists(intent[v]) /\ xint[v] = NoSpan
      /\ Exists(meta[v]) => meta[v].inc = seen[p].inc
  BY <1>2, <1>3 DEF DeleteOK, LockedDelete, Settled, Removing
<1>6. /\ \A w \in Vols \ {v} : meta'[w] = meta[w]
      /\ \/ meta'[v] = meta[v] /\ ~Exists(meta[v])
         \/ /\ Exists(meta[v]) /\ meta'[v].state = "archiving"
            /\ meta'[v].inc = meta[v].inc /\ meta'[v].size = meta[v].size
  BY <1>2 DEF PrepareArchive, TypeOK, DurableTyped, Metadata, Kind, NoRec, Rec
<1>7. HasMetadata(v)' <=> HasMetadata(v)
  BY <1>4, <1>6 DEF HasMetadata, Exists
<1>8. Sound(v)'
  BY <1>2, <1>3, <1>4, <1>5, <1>6
     DEF Sound, LiveOK, SpanOK, PayloadOK, GoneOK, ArchiveOK, AckOK, Granted, Exists
<1>9. LockedDelete(p)' /\ pc'[p] \in Removing
  BY <1>3, <1>5, <1>6 DEF LockedDelete, Removing, Settled
<1>10. \A w \in Vols \ {v} : Untouched(w)
  BY <1>3, <1>6 DEF Untouched
<1>11. Exists(meta'[v]) => Exists(meta[v]) /\ meta'[v].inc = meta[v].inc
  BY <1>6
<1> QED
  BY <1>1, <1>2, <1>3, <1>7, <1>8, <1>9, <1>10, <1>11, DeleteStepSound

\* A payload that is still active goes to an archive that is decided upon.
LEMMA MovePayloadSound ==
    ASSUME Integrity, NEW p \in Procs, MovePayload(p), ~Fail(p)
    PROVE  Integrity'
<1>1. DeleteStep(p) /\ Step(p) /\ pc[p] \in DeleteLabels
  BY DEF Step, DeleteStep, MovePayload, DeleteLabels
<1>2. PICK v \in Vols :
        /\ vol[p] = v /\ vlock[v] = p /\ call[p] = "delete"
        /\ acked[v].state = "deleting" /\ Sound(v)
        /\ LockedDelete(p) /\ DeleteOK(p) /\ TypeOK
        /\ InFlight("delete", v)' => InFlight("delete", v)
  BY <1>1, DeletingFacts
<1>3. /\ UNCHANGED <<intent, meta, xint, arcMeta, acked, found, seen>>
      /\ vol'[p] = v /\ call'[p] = "delete" /\ pc'[p] = "moveRow"
      /\ pc[p] = "movePayload"
  BY <1>2 DEF MovePayload, locals, Goto, TypeOK, LocalsTyped
<1>4. (Arriving(v)' <=> Arriving(v)) /\ (HasMetadata(v)' <=> HasMetadata(v))
  BY <1>3 DEF Arriving, HasMetadata
<1>5. /\ ~Exists(intent[v]) /\ xint[v] = NoSpan
      /\ Exists(meta[v]) => meta[v].inc = seen[p].inc
      /\ meta[v].state = "archiving" \/ (~Exists(meta[v]) /\ Arriving(v))
  BY <1>2, <1>3 DEF DeleteOK, LockedDelete, Settled, Removing
<1>6. PICK i0 \in Incs :
        /\ MetadataOf(v).inc = i0
        /\ Exists(meta[v]) => meta[v].inc = i0
        /\ ~Exists(meta[v]) => arcMeta[<<v, i0>>].state = "archiving"
  BY <1>2, <1>5, MetadataOfFacts, RecordFacts DEF Exists
<1>7. /\ payload'[v] = NoPayload /\ \A w \in Vols \ {v} : payload'[w] = payload[w]
      /\ (payload[v] = NoPayload) # (arcPayload[<<v, i0>>] = NoPayload)
      /\ arcPayload'[<<v, i0>>] = (IF payload[v] = NoPayload THEN arcPayload[<<v, i0>>]
                                                             ELSE payload[v])
      /\ \A b \in Archives \ {<<v, i0>>} : arcPayload'[b] = arcPayload[b]
  <2> DEFINE a == <<v, i0>>
  <2>1. a \in Archives
    BY DEF Archives
  <2>2. /\ (payload[v] = NoPayload) # (arcPayload[a] = NoPayload)
        /\ arcPayload' = [arcPayload EXCEPT ![a] =
                             IF @ = NoPayload THEN payload[v] ELSE @]
        /\ payload' = [payload EXCEPT ![v] = NoPayload]
    BY <1>2, <1>6 DEF MovePayload, Movable, Emptied
  <2> HIDE DEF a
  <2>3. /\ payload'[v] = NoPayload /\ \A w \in Vols \ {v} : payload'[w] = payload[w]
        /\ arcPayload'[a] = (IF payload[v] = NoPayload THEN arcPayload[a] ELSE payload[v])
        /\ \A b \in Archives \ {a} : arcPayload'[b] = arcPayload[b]
    BY <1>2, <2>1, <2>2 DEF TypeOK, DurableTyped
  <2> QED
    BY <2>2, <2>3 DEF a
<1>8. ArchiveOK(v)'
  <2> SUFFICES ASSUME NEW i \in Incs, arcPayload'[<<v, i>>] # NoPayload
               PROVE  \/ /\ meta[v].state = "archiving" /\ meta[v].inc = i
                         /\ arcPayload'[<<v, i>>].quota <= meta[v].size
                      \/ /\ Exists(arcMeta[<<v, i>>])
                         /\ arcPayload'[<<v, i>>].quota <= arcMeta[<<v, i>>].size
    BY <1>3, <1>7 DEF ArchiveOK, Exists
  <2>1. CASE arcPayload'[<<v, i>>] = arcPayload[<<v, i>>]
    BY <1>2, <2>1 DEF Sound, ArchiveOK
  <2>2. CASE arcPayload'[<<v, i>>] # arcPayload[<<v, i>>]
    <3>1. i = i0 /\ payload[v] # NoPayload /\ arcPayload'[<<v, i>>] = payload[v]
      <4>1. <<v, i>> \in Archives
        BY DEF Archives
      <4> QED
        BY <1>7, <2>2, <4>1
    <3>2. payload[v].quota <= meta[v].size /\ meta[v].state = "archiving"
      BY <1>2, <1>5, <3>1 DEF Sound, PayloadOK, Granted, Exists
    <3>3. meta[v].inc = i
      BY <1>6, <3>1, <3>2 DEF Exists
    <3> QED
      BY <3>1, <3>2, <3>3
  <2> QED
    BY <2>1, <2>2
<1>9. Sound(v)'
  BY <1>2, <1>3, <1>4, <1>5, <1>7, <1>8
     DEF Sound, LiveOK, SpanOK, PayloadOK, GoneOK, AckOK, Granted, Exists
<1>10. LockedDelete(p)' /\ pc'[p] \in Removing
  BY <1>3, <1>5, <1>7 DEF LockedDelete, Removing, Settled
<1>11. \A w \in Vols \ {v} : Untouched(w)
  BY <1>3, <1>7 DEF Untouched, Archives
<1>12. \A i \in Incs : Past(v, i) => /\ arcMeta'[<<v, i>>] = arcMeta[<<v, i>>]
                                     /\ arcPayload'[<<v, i>>] = arcPayload[<<v, i>>]
  <2> SUFFICES ASSUME NEW i \in Incs, Past(v, i) PROVE i # i0
    BY <1>3, <1>7 DEF Archives
  <2> QED
    BY <1>6 DEF Past
<1> QED
  BY <1>1, <1>2, <1>3, <1>4, <1>9, <1>10, <1>11, <1>12, DeleteStepSound

\* The record is handed off to the archive.
LEMMA MoveMetadataSound ==
    ASSUME Integrity, NEW p \in Procs, MoveMetadata(p)
    PROVE  Integrity'
<1>1. DeleteStep(p) /\ Step(p) /\ pc[p] \in DeleteLabels
  BY DEF Step, DeleteStep, MoveMetadata, DeleteLabels
<1>2. PICK v \in Vols :
        /\ vol[p] = v /\ vlock[v] = p /\ call[p] = "delete"
        /\ acked[v].state = "deleting" /\ Sound(v)
        /\ LockedDelete(p) /\ DeleteOK(p) /\ TypeOK
        /\ InFlight("delete", v)' => InFlight("delete", v)
  BY <1>1, DeletingFacts
<1>3. /\ UNCHANGED <<intent, payload, xint, arcPayload, acked>>
      /\ call'[p] = "delete" /\ pc'[p] = "archived" /\ pc[p] = "moveMetadata"
  BY <1>2 DEF MoveMetadata, Goto, TypeOK, LocalsTyped
<1>4. LockedDelete(p)'
  BY <1>3 DEF LockedDelete, Removing, Settled
<1>5. /\ ~Exists(intent[v]) /\ xint[v] = NoSpan /\ payload[v] = NoPayload
      /\ meta[v].state = "archiving" \/ (~Exists(meta[v]) /\ Arriving(v))
  BY <1>2, <1>3 DEF DeleteOK, LockedDelete, Settled, Removing
<1>6. CASE ~Exists(meta[v])
  <2>1. UNCHANGED <<meta, arcMeta>>
    BY <1>2, <1>6 DEF MoveMetadata
  <2>2. (Arriving(v)' <=> Arriving(v)) /\ (HasMetadata(v)' <=> HasMetadata(v))
    BY <2>1 DEF Arriving, HasMetadata
  <2>3. Sound(v)'
    BY <1>2, <1>3, <2>1, <2>2
       DEF Sound, LiveOK, SpanOK, PayloadOK, GoneOK, ArchiveOK, AckOK, Granted, Exists
  <2>4. \A w \in Vols \ {v} : Untouched(w)
    BY <1>3, <2>1 DEF Untouched
  <2> QED
    BY <1>1, <1>2, <1>3, <1>4, <2>1, <2>2, <2>3, <2>4, DeleteStepSound
<1>7. CASE Exists(meta[v])
  <2>1. PICK i0 \in Incs : meta[v].inc = i0
    BY <1>2, <1>7, RecordFacts
  <2>2. /\ meta'[v] = NoRec /\ \A w \in Vols \ {v} : meta'[w] = meta[w]
        /\ arcMeta'[<<v, i0>>] = meta[v]
        /\ \A b \in Archives \ {<<v, i0>>} : arcMeta'[b] = arcMeta[b]
    <3> DEFINE a == <<v, i0>>
    <3>1. a \in Archives
      BY DEF Archives
    <3>2. /\ arcMeta' = [arcMeta EXCEPT ![a] = meta[v]]
          /\ meta' = [meta EXCEPT ![v] = NoRec]
      BY <1>2, <1>7, <2>1 DEF MoveMetadata
    <3> HIDE DEF a
    <3>3. /\ meta'[v] = NoRec /\ \A w \in Vols \ {v} : meta'[w] = meta[w]
          /\ arcMeta'[a] = meta[v] /\ \A b \in Archives \ {a} : arcMeta'[b] = arcMeta[b]
      BY <1>2, <3>1, <3>2 DEF TypeOK, DurableTyped
    <3> QED
      BY <3>3 DEF a
  <2>3. meta[v].state = "archiving" /\ ~Exists(meta'[v]) /\ HasMetadata(v)
    BY <1>5, <1>7, <2>2 DEF Exists, NoRec, Rec, HasMetadata
  <2>4. ArchiveOK(v)'
    <3> SUFFICES ASSUME NEW i \in Incs, arcPayload[<<v, i>>] # NoPayload
                 PROVE  /\ Exists(arcMeta'[<<v, i>>])
                        /\ arcPayload[<<v, i>>].quota <= arcMeta'[<<v, i>>].size
      BY <1>3 DEF ArchiveOK, Exists
    <3>1. CASE i = i0
      <4>1. ~Exists(arcMeta[<<v, i0>>])
        BY <1>7, <2>1 DEF Integrity, Alone, IInv, GenerationOK
      <4> QED
        BY <1>2, <1>7, <2>2, <3>1, <4>1 DEF Sound, ArchiveOK
    <3>2. CASE i # i0
      <4>1. arcMeta'[<<v, i>>] = arcMeta[<<v, i>>]
        BY <2>2, <3>2 DEF Archives
      <4> QED
        BY <1>2, <2>1, <3>2, <4>1 DEF Sound, ArchiveOK
    <3> QED
      BY <3>1, <3>2
  <2>5. Sound(v)'
    BY <1>2, <1>3, <1>5, <2>2, <2>3, <2>4
       DEF Sound, LiveOK, SpanOK, PayloadOK, GoneOK, AckOK, Granted, Exists, NoRec, Rec
  <2>6. \A w \in Vols \ {v} : Untouched(w)
    BY <1>3, <2>2 DEF Untouched, Archives
  <2>7. \A i \in Incs : Past(v, i) => /\ arcMeta'[<<v, i>>] = arcMeta[<<v, i>>]
                                      /\ arcPayload'[<<v, i>>] = arcPayload[<<v, i>>]
    BY <1>3, <1>7, <2>1, <2>2 DEF Past, Archives
  <2> QED
    BY <1>1, <1>2, <1>3, <1>4, <2>3, <2>5, <2>6, <2>7, DeleteStepSound
<1> QED
  BY <1>6, <1>7

LEMMA MarkArchivedSound ==
    ASSUME Integrity, NEW p \in Procs, MarkArchived(p)
    PROVE  Integrity'
<1>1. DeleteStep(p) /\ Step(p) /\ pc[p] \in DeleteLabels
  BY DEF Step, DeleteStep, MarkArchived, DeleteLabels
<1>2. PICK v \in Vols :
        /\ vol[p] = v /\ vlock[v] = p /\ call[p] = "delete"
        /\ acked[v].state = "deleting" /\ Sound(v)
        /\ LockedDelete(p) /\ DeleteOK(p) /\ TypeOK
        /\ InFlight("delete", v)' => InFlight("delete", v)
  BY <1>1, DeletingFacts
<1>3. UNCHANGED <<intent, meta, payload, xint, arcPayload, acked>> /\ Leave(p)
  BY DEF MarkArchived
<1>4. pc'[p] = "idle" /\ call'[p] = "none"
  BY <1>2, <1>3, LeaveFacts DEF TypeOK
<1>5. PICK i0 \in Incs : found[p].inc = i0 /\ arcMeta[<<v, i0>>].state = "archiving"
  BY <1>2 DEF MarkArchived, DeleteOK
<1>6. /\ arcMeta'[<<v, i0>>].state = "archived"
      /\ arcMeta'[<<v, i0>>].size = arcMeta[<<v, i0>>].size
      /\ \A b \in Archives \ {<<v, i0>>} : arcMeta'[b] = arcMeta[b]
  <2> DEFINE a == <<v, i0>>
  <2>1. a \in Archives
    BY DEF Archives
  <2>2. arcMeta' = [arcMeta EXCEPT ![a].state = "archived"]
    BY <1>2, <1>5 DEF MarkArchived
  <2> HIDE DEF a
  <2>3. /\ arcMeta'[a].state = "archived" /\ arcMeta'[a].size = arcMeta[a].size
        /\ \A b \in Archives \ {a} : arcMeta'[b] = arcMeta[b]
    BY <1>2, <2>1, <2>2 DEF TypeOK, DurableTyped, Archived, Kind, NoRec, Rec
  <2> QED
    BY <2>3 DEF a
<1>7. Arriving(v)' => Arriving(v)
  BY <1>5 DEF Arriving
<1>8. HasMetadata(v)' => HasMetadata(v)
  BY <1>3, <1>7 DEF HasMetadata, Exists
<1>9. ArchiveOK(v)'
  <2> SUFFICES ASSUME NEW i \in Incs
               PROVE  /\ Exists(arcMeta[<<v, i>>]) => Exists(arcMeta'[<<v, i>>])
                      /\ arcMeta'[<<v, i>>].size = arcMeta[<<v, i>>].size
    BY <1>2, <1>3 DEF Sound, ArchiveOK, Exists
  <2> QED
    BY <1>5, <1>6 DEF Exists, Archives
<1>10. Sound(v)'
  BY <1>2, <1>3, <1>7, <1>9
     DEF Sound, LiveOK, SpanOK, PayloadOK, GoneOK, AckOK, Granted, Exists
<1>11. \A w \in Vols \ {v} : Untouched(w)
  BY <1>3, <1>6 DEF Untouched, Archives
<1>12. \A i \in Incs : Past(v, i) => /\ arcMeta'[<<v, i>>] = arcMeta[<<v, i>>]
                                     /\ arcPayload'[<<v, i>>] = arcPayload[<<v, i>>]
  BY <1>3, <1>5, <1>6 DEF Past, Archives
<1> QED
  BY <1>1, <1>2, <1>3, <1>4, <1>8, <1>10, <1>11, <1>12, DeleteStepSound

LEMMA DeleteSound ==
    ASSUME Integrity, NEW p \in Procs, DeleteStep(p)
    PROVE  Integrity'
<1>1. Step(p)
  BY DEF Step
<1>2. CancelCommit(p) => Leave(p) /\ UNCHANGED <<files, acked>>
  BY DEF CancelCommit
<1> QED
  BY <1>1, <1>2, FailSound, LeaveSound, DeleteQuiet, CancelSound, FoldSound, MarkSound,
     DestroySound, PrepareArchiveSound, MovePayloadSound, MoveMetadataSound,
     MarkArchivedSound DEF DeleteStep

-----------------------------------------------------------------------------
(***************************************************************************)
(* Expanding a volume.                                                     *)
(***************************************************************************)

\* What an expansion that works on its volume has in common: the volume is
\* live, and no delete can have been asked for by the caller without its
\* promise being withdrawn.
LEMMA GrowingFacts ==
    ASSUME Integrity, NEW p \in Procs, Step(p), pc[p] \in Expanding
    PROVE  \E v \in Vols :
             /\ vol[p] = v /\ vlock[v] = p /\ call[p] = "expand"
             /\ req[p] \in Sizes /\ Sound(v) /\ LockedExpand(p) /\ TypeOK
             /\ ~Exists(intent[v]) /\ meta[v].state = "live" /\ Exists(meta[v])
             /\ meta[v].inc = found[p].inc /\ meta[v].inc # 0
             /\ acked[v].inc = meta[v].inc /\ payload[v] # NoPayload
             /\ found[p].state = "live" /\ found[p].inc \in Incs
             /\ found[p].size \in Nat /\ meta[v].size \in Nat
             /\ InFlight("delete", v)' => InFlight("delete", v)
<1>1. ProcOK(p) /\ Knows(p) /\ TypeOK /\ Frame(p) /\ NoNewDelete(p)
  BY StepFacts
<1>2. PICK v \in Vols : vol[p] = v /\ vlock[v] = p
  BY HolderFacts
<1>3. /\ call[p] = "expand" /\ req[p] \in Sizes /\ Sound(v) /\ LockedExpand(p)
      /\ found[p].state = "live"
  BY <1>1 DEF ProcOK, CallOK, FileOK, ExpandOK, Knows, Integrity
<1>4. /\ ~Exists(intent[v]) /\ meta[v].state = "live" /\ Exists(meta[v])
      /\ meta[v].inc = found[p].inc /\ acked[v].inc = meta[v].inc
  BY <1>1, <1>2, <1>3 DEF Knows, Unlocked, LockedExpand, Exists
<1>5. meta[v].inc \in Incs /\ meta[v].inc # 0 /\ meta[v].size \in Nat
  BY <1>1, <1>4, RecordFacts, ConstantsAssumption DEF Incs
<1>6. found[p].size \in Nat
  <2>1. found[p] \in Answers
    BY <1>1 DEF TypeOK, LocalsTyped
  <2> QED
    BY <1>3, <2>1, AnswerFacts, ConstantsAssumption DEF Exists
<1>7. payload[v] # NoPayload
  BY <1>3, <1>4, <1>5 DEF Sound, LiveOK, NoPayload
<1>8. InFlight("delete", v)' => InFlight("delete", v)
  BY <1>1, FlightKept
<1> QED
  BY <1>1, <1>2, <1>3, <1>4, <1>5, <1>6, <1>7, <1>8

\* A step of an expansion: the volume stays live and of its generation.
LEMMA ExpandStepSound ==
    ASSUME Integrity, NEW p \in Procs, ExpandStep(p), NEW v \in Vols,
           vol[p] = v, vlock[v] = p, call[p] = "expand",
           ~Exists(intent[v]), Exists(meta[v]), acked[v].inc = meta[v].inc,
           UNCHANGED <<intent, arcMeta, arcPayload>>,
           Exists(meta'[v]), meta'[v].inc = meta[v].inc,
           acked'[v].inc = meta'[v].inc,
           Sound(v)',
           \A w \in Vols \ {v} : Untouched(w),
           \/ pc'[p] = "idle" /\ call'[p] = "none"
           \/ /\ call'[p] = "expand" /\ vol'[p] = v /\ LockedExpand(p)'
              /\ pc'[p] \in Expanding
    PROVE  Integrity'
<1>1. Step(p)
  BY DEF Step
<1>2. /\ TypeOK /\ IInv /\ Alone' /\ Frame(p) /\ NoNewDelete(p) /\ SeenFrame(p)
  BY <1>1, StepFacts
<1>3. Knows(p)'
  <2>1. CASE pc'[p] = "idle" /\ call'[p] = "none"
    BY <2>1, IdleKnows
  <2>2. CASE ~(pc'[p] = "idle" /\ call'[p] = "none")
    <3>1. vlock'[v] = p
      BY <1>2, <2>2 DEF Alone, ExpandAlone
    <3> QED
      BY <2>2, <3>1
         DEF Knows, Unlocked, LockedCreate, LockedDelete, Snapshot, Expanding,
             Removing, Settled, Exists
  <2> QED
    BY <2>1, <2>2
<1>4. HasMetadata(v)' => HasMetadata(v)
  BY DEF HasMetadata
<1>5. \A q \in Procs \ {p} : vol[q] = v /\ pc[q] # "idle" => Knows(q)'
  BY <1>2, <1>4, RivalsKnow
<1> QED
  BY <1>2, <1>3, <1>5, SoundStep

\* The pending expansion, or a new one, is looked at.
LEMMA ExpandBodySound ==
    ASSUME Integrity, NEW p \in Procs, ExpandBody(p), ~Fail(p)
    PROVE  Integrity'
<1>1. Step(p)
  BY DEF Step, ExpandStep
<1>2. /\ TypeOK /\ IInv /\ Alone' /\ Knows(p) /\ ProcOK(p)
      /\ Frame(p) /\ NoNewDelete(p) /\ SeenFrame(p)
  BY <1>1, StepFacts
<1>3. PICK v \in Vols : vol[p] = v
  BY <1>2 DEF ProcOK, CallOK, ExpandBody
<1> DEFINE now   == Lookup(v)
           start == IF xint[v] = NoSpan THEN now.size ELSE xint[v].from
<1>4. /\ UNCHANGED <<files, acked>> /\ vol'[p] = v /\ req'[p] = req[p]
      /\ call[p] = "expand" /\ call'[p] = "expand"
      /\ now.state = "live" /\ found'[p] = Rec("live", start, now.inc)
      /\ xint[v] # NoSpan => req[p] = xint[v].to
      /\ \/ pc'[p] = "requota" /\ xint[v] = NoSpan
         \/ pc'[p] = "reserve" /\ ~(xint[v] = NoSpan /\ req[p] <= now.size)
  BY <1>2, <1>3 DEF ExpandBody, FirstOfGrowth, Goto, TypeOK, LocalsTyped
<1>5. now = meta[v] /\ meta[v].state = "live"
  BY <1>2, <1>4, LookupFacts
<1>6. meta[v].size \in Nat /\ req[p] \in Nat
  BY <1>2, <1>4, <1>5, RecordFacts, ConstantsAssumption DEF ProcOK, CallOK, Exists
<1>7. vlock'[v] = p
  BY <1>2, <1>4 DEF Alone, ExpandAlone, Expanding
<1>8. xint[v] # NoSpan => xint[v] = [from |-> xint[v].from, to |-> req[p]]
  <2>1. xint[v] \in Spans
    BY <1>2 DEF TypeOK, DurableTyped
  <2> QED
    BY <1>4, <2>1 DEF Spans
<1> HIDE DEF now
<1>9. LockedExpand(p)'
  <2>1. UNCHANGED <<meta, xint>>
    BY <1>4 DEF files
  <2>2. CASE xint[v] = NoSpan
    BY <1>4, <1>5, <1>6, <2>1, <2>2 DEF LockedExpand, Expanding, Growing, Rec
  <2>3. CASE xint[v] # NoSpan
    BY <1>4, <1>5, <1>8, <2>1, <2>3 DEF LockedExpand, Expanding, Growing, Rec
  <2> QED
    BY <2>2, <2>3
<1>10. Unlocked(p)
  BY <1>2 DEF Knows
<1>11. Unlocked(p)'
  <2>1. UNCHANGED <<meta, intent, acked>>
    BY <1>4 DEF files
  <2> QED
    BY <1>3, <1>4, <1>7, <1>10, <2>1 DEF Unlocked, Expanding
<1>12. Knows(p)'
  BY <1>4, <1>9, <1>11 DEF Knows, LockedCreate, LockedDelete, Snapshot, Removing, Settled
<1> QED
  BY <1>2, <1>4, <1>12, QuietSound

\* The expansion is reserved.
LEMMA ReserveSound ==
    ASSUME Integrity, NEW p \in Procs, Reserve(p) \/ ReserveCommit(p)
    PROVE  Integrity'
<1>1. ExpandStep(p) /\ Step(p) /\ pc[p] \in Expanding
  BY DEF Step, ExpandStep, Reserve, ReserveCommit, Expanding
<1>2. PICK v \in Vols :
        /\ vol[p] = v /\ vlock[v] = p /\ call[p] = "expand"
        /\ req[p] \in Sizes /\ Sound(v) /\ LockedExpand(p) /\ TypeOK
        /\ ~Exists(intent[v]) /\ meta[v].state = "live" /\ Exists(meta[v])
        /\ meta[v].inc = found[p].inc /\ meta[v].inc # 0
        /\ acked[v].inc = meta[v].inc /\ payload[v] # NoPayload
        /\ found[p].state = "live" /\ found[p].inc \in Incs
        /\ found[p].size \in Nat /\ meta[v].size \in Nat
        /\ InFlight("delete", v)' => InFlight("delete", v)
  BY <1>1, GrowingFacts
<1> DEFINE wanted == [from |-> found[p].size, to |-> req[p]]
<1>3. CASE Leave(p) /\ UNCHANGED <<files, acked>>
  BY <1>1, <1>3, LeaveSound
<1>4. CASE ~(Leave(p) /\ UNCHANGED <<files, acked>>)
  <2>1. /\ UNCHANGED <<intent, meta, payload, arcMeta, arcPayload, acked, req, found>>
        /\ vol'[p] = v /\ call'[p] = "expand"
    BY <1>2, <1>4 DEF Reserve, ReserveCommit, Fail, files, locals
  <2>2. /\ \A w \in Vols \ {v} : xint'[w] = xint[w]
        /\ xint'[v] = wanted
        /\ \/ pc'[p] = "reserveCommit" /\ pc[p] = "reserve"
           \/ pc'[p] = "growQuota" /\ xint[v] = wanted
    <3>1. CASE Reserve(p)
      BY <1>2, <1>4, <3>1
         DEF Reserve, Fail, Goto, TypeOK, DurableTyped, LocalsTyped
    <3>2. CASE ReserveCommit(p)
      BY <1>2, <3>2
         DEF ReserveCommit, AfterReserve, Goto, TypeOK, LocalsTyped, files,
             LockedExpand, Growing
    <3> QED
      BY <3>1, <3>2
  <2>3. req[p] \in Nat /\ wanted.from = found[p].size /\ wanted.to = req[p]
    BY <1>2, ConstantsAssumption
  <2>4. \/ xint[v] = wanted
        \/ xint[v] = NoSpan /\ meta[v].size = found[p].size /\ found[p].size < req[p]
    BY <1>2, <2>2 DEF LockedExpand
  <2>5. Arriving(v)' <=> Arriving(v)
    BY <2>1 DEF Arriving
  <2> HIDE DEF wanted
  <2>6. Sound(v)'
    <3>1. CASE xint[v] = wanted
      BY <1>2, <2>1, <2>2, <2>5, <3>1
         DEF Sound, LiveOK, SpanOK, PayloadOK, GoneOK, ArchiveOK, AckOK, Granted, Exists
    <3>2. CASE xint[v] = NoSpan /\ meta[v].size = found[p].size /\ found[p].size < req[p]
      <4>1. payload[v].quota <= meta[v].size
        BY <1>2, <3>2 DEF Sound, PayloadOK, Granted
      <4>2. payload[v].quota <= req[p]
        <5>1. payload[v].quota \in Nat
          BY <1>2, ConstantsAssumption
             DEF TypeOK, DurableTyped, Payloads, NoPayload, SizesOrZero
        <5> QED
          BY <1>2, <2>3, <3>2, <4>1, <5>1
      <4>3. SpanOK(v)'
        BY <1>2, <2>1, <2>2, <2>3, <3>2 DEF SpanOK, Exists
      <4>4. PayloadOK(v)'
        BY <1>2, <2>1, <2>2, <2>3, <2>5, <3>2, <4>2
           DEF Sound, PayloadOK, Granted, NoSpan, Exists
      <4> QED
        BY <1>2, <2>1, <2>5, <4>3, <4>4
           DEF Sound, LiveOK, GoneOK, ArchiveOK, AckOK, Exists
    <3> QED
      BY <2>4, <3>1, <3>2
  <2>7. LockedExpand(p)' /\ pc'[p] \in Expanding
    BY <1>2, <2>1, <2>2 DEF LockedExpand, Expanding, Growing, wanted
  <2>8. \A w \in Vols \ {v} : Untouched(w)
    BY <2>1, <2>2 DEF Untouched
  <2> QED
    BY <1>1, <1>2, <2>1, <2>6, <2>7, <2>8, ExpandStepSound
<1> QED
  BY <1>3, <1>4

LEMMA PromisedSize ==
    ASSUME NEW r \in Promises, r.state = "live"
    PROVE  r.size \in Nat
<1>1. r \in Kind({"live"})
  BY DEF Promises
<1>2. r.size \in Sizes
  BY <1>1 DEF Kind, NoRec, Rec
<1> QED
  BY <1>2, ConstantsAssumption

\* The quota grows, and then the metadata.
LEMMA GrowSound ==
    ASSUME Integrity, NEW p \in Procs, ~Fail(p), GrowQuota(p) \/ GrowMetadata(p)
    PROVE  Integrity'
<1>1. ExpandStep(p) /\ Step(p) /\ pc[p] \in Expanding
  BY DEF Step, ExpandStep, GrowQuota, GrowMetadata, Expanding
<1>2. PICK v \in Vols :
        /\ vol[p] = v /\ vlock[v] = p /\ call[p] = "expand"
        /\ req[p] \in Sizes /\ Sound(v) /\ LockedExpand(p) /\ TypeOK
        /\ ~Exists(intent[v]) /\ meta[v].state = "live" /\ Exists(meta[v])
        /\ meta[v].inc = found[p].inc /\ meta[v].inc # 0
        /\ acked[v].inc = meta[v].inc /\ payload[v] # NoPayload
        /\ found[p].state = "live" /\ found[p].inc \in Incs
        /\ found[p].size \in Nat /\ meta[v].size \in Nat
        /\ InFlight("delete", v)' => InFlight("delete", v)
  BY <1>1, GrowingFacts
<1>3. /\ UNCHANGED <<intent, xint, arcMeta, arcPayload, acked, req, found>>
      /\ vol'[p] = v /\ call'[p] = "expand"
  BY <1>2 DEF GrowQuota, GrowMetadata, locals
<1>4. /\ xint[v] = [from |-> found[p].size, to |-> req[p]]
      /\ xint[v].from = found[p].size /\ xint[v].to = req[p]
      /\ req[p] \in Nat /\ req[p] # 0
  BY <1>2, ConstantsAssumption DEF GrowQuota, GrowMetadata, LockedExpand, Growing
<1>5. /\ xint[v] # NoSpan /\ found[p].size <= req[p]
      /\ meta[v].size \in {found[p].size, req[p]}
  BY <1>2, <1>4 DEF Sound, SpanOK, NoSpan
<1>6. Arriving(v)' <=> Arriving(v)
  BY <1>3 DEF Arriving
<1>7. CASE GrowQuota(p)
  <2>1. /\ UNCHANGED meta /\ pc[p] = "growQuota" /\ pc'[p] = "growMetadata"
    BY <1>2, <1>7 DEF GrowQuota, Goto, TypeOK, LocalsTyped
  <2>2. /\ payload'[v].quota = req[p] /\ payload'[v].inc = payload[v].inc
        /\ \A w \in Vols \ {v} : payload'[w] = payload[w]
    BY <1>2, <1>7 DEF GrowQuota, QuotaSet, TypeOK, DurableTyped
  <2>3. payload[v].inc = meta[v].inc
    BY <1>2 DEF Sound, LiveOK
  <2>4. Sound(v)'
    BY <1>2, <1>3, <1>4, <1>5, <1>6, <2>1, <2>2, <2>3
       DEF Sound, LiveOK, SpanOK, PayloadOK, GoneOK, ArchiveOK, AckOK, Granted, Exists
  <2>5. LockedExpand(p)' /\ pc'[p] \in Expanding
    BY <1>2, <1>3, <1>4, <2>1, <2>2 DEF LockedExpand, Expanding, Growing
  <2>6. \A w \in Vols \ {v} : Untouched(w)
    BY <1>3, <2>1, <2>2 DEF Untouched
  <2> QED
    BY <1>1, <1>2, <1>3, <2>1, <2>4, <2>5, <2>6, ExpandStepSound
<1>8. CASE GrowMetadata(p)
  <2>1. /\ UNCHANGED payload /\ meta' = [meta EXCEPT ![v].size = req[p]]
        /\ pc[p] = "growMetadata" /\ pc'[p] = "finishExpansion"
    BY <1>2, <1>8 DEF GrowMetadata, Goto, TypeOK, LocalsTyped
  <2>2. /\ meta'[v].state = "live" /\ meta'[v].inc = meta[v].inc
        /\ meta'[v].size = req[p] /\ \A w \in Vols \ {v} : meta'[w] = meta[w]
    BY <1>2, <2>1 DEF TypeOK, DurableTyped, Metadata, Kind, NoRec, Rec
  <2>3. payload[v].quota = req[p]
    BY <1>2, <2>1 DEF LockedExpand
  <2>4. acked[v].state = "live" => acked[v].size <= req[p]
    <3>1. acked[v] \in Promises
      BY <1>2 DEF TypeOK, DurableTyped
    <3>2. acked[v].state = "live" => acked[v].size \in Nat
      BY <3>1, PromisedSize
    <3>3. acked[v].state = "live" => acked[v].size <= meta[v].size
      BY <1>2 DEF Sound, AckOK
    <3> QED
      BY <1>2, <1>4, <1>5, <3>2, <3>3
  <2>5. Sound(v)'
    BY <1>2, <1>3, <1>4, <1>5, <1>6, <2>1, <2>2, <2>3, <2>4
       DEF Sound, LiveOK, SpanOK, PayloadOK, GoneOK, ArchiveOK, AckOK, Granted, Exists
  <2>6. LockedExpand(p)' /\ pc'[p] \in Expanding
    BY <1>2, <1>3, <1>4, <2>1, <2>2, <2>3 DEF LockedExpand, Expanding, Growing
  <2>7. \A w \in Vols \ {v} : Untouched(w)
    BY <1>3, <2>1, <2>2 DEF Untouched
  <2>8. Exists(meta'[v]) /\ acked'[v].inc = meta'[v].inc
    BY <1>2, <1>3, <2>2 DEF Exists
  <2> QED
    BY <1>1, <1>2, <1>3, <2>2, <2>5, <2>6, <2>7, <2>8, ExpandStepSound
<1> QED
  BY <1>7, <1>8

\* The answer to an expansion.
LEMMA GrownSound ==
    ASSUME Integrity, NEW p \in Procs, ~Fail(p), Requota(p) \/ FinishExpansion(p)
    PROVE  Integrity'
<1>1. ExpandStep(p) /\ Step(p) /\ pc[p] \in Expanding
  BY DEF Step, ExpandStep, Requota, FinishExpansion, Expanding
<1>2. PICK v \in Vols :
        /\ vol[p] = v /\ vlock[v] = p /\ call[p] = "expand"
        /\ req[p] \in Sizes /\ Sound(v) /\ LockedExpand(p) /\ TypeOK
        /\ ~Exists(intent[v]) /\ meta[v].state = "live" /\ Exists(meta[v])
        /\ meta[v].inc = found[p].inc /\ meta[v].inc # 0
        /\ acked[v].inc = meta[v].inc /\ payload[v] # NoPayload
        /\ found[p].state = "live" /\ found[p].inc \in Incs
        /\ found[p].size \in Nat /\ meta[v].size \in Nat
        /\ InFlight("delete", v)' => InFlight("delete", v)
  BY <1>1, GrowingFacts
<1>3. UNCHANGED <<intent, meta, arcMeta, arcPayload>> /\ Leave(p)
  BY DEF Requota, FinishExpansion
<1>4. pc'[p] = "idle" /\ call'[p] = "none"
  BY <1>2, <1>3, LeaveFacts DEF TypeOK
<1>5. Arriving(v)' <=> Arriving(v)
  BY <1>3 DEF Arriving
<1>6. PICK r \in {found[p], Rec("live", req[p], found[p].inc)} :
        /\ Promise(p, v, r) /\ r.state = "live" /\ r.inc = meta[v].inc
        /\ r.size = meta[v].size
        /\ xint'[v] = NoSpan /\ \A w \in Vols \ {v} : xint'[w] = xint[w]
        /\ payload'[v].inc = meta[v].inc /\ payload'[v].quota = meta[v].size
        /\ \A w \in Vols \ {v} : payload'[w] = payload[w]
  <2>1. payload[v].inc = meta[v].inc
    BY <1>2 DEF Sound, LiveOK
  <2>2. CASE Requota(p)
    <3>1. xint[v] = NoSpan /\ meta[v].size = found[p].size
      BY <1>2, <2>2 DEF Requota, LockedExpand
    <3>2. /\ payload'[v].quota = found[p].size /\ payload'[v].inc = payload[v].inc
          /\ \A w \in Vols \ {v} : payload'[w] = payload[w]
      BY <1>2, <2>2 DEF Requota, QuotaSet, TypeOK, DurableTyped
    <3> QED
      BY <1>2, <2>1, <2>2, <3>1, <3>2 DEF Requota
  <2>3. CASE FinishExpansion(p)
    <3>1. meta[v].size = req[p] /\ payload[v].quota = req[p]
      BY <1>2, <2>3 DEF FinishExpansion, LockedExpand
    <3>2. /\ xint'[v] = NoSpan /\ \A w \in Vols \ {v} : xint'[w] = xint[w]
          /\ UNCHANGED payload /\ Promise(p, v, Rec("live", req[p], found[p].inc))
      BY <1>2, <2>3 DEF FinishExpansion, TypeOK, DurableTyped
    <3> QED
      BY <1>2, <2>1, <3>1, <3>2 DEF Rec
  <2> QED
    BY <2>2, <2>3
<1>7. /\ \A w \in Vols \ {v} : acked'[w] = acked[w]
      /\ \/ acked'[v] = acked[v]
         \/ acked'[v] = r /\ ~InFlight("delete", v)
  BY <1>2, <1>6, PromiseMade
<1>8. meta[v].size # 0
  BY <1>2, RecordFacts, ConstantsAssumption
<1>9. Sound(v)'
  BY <1>2, <1>3, <1>5, <1>6, <1>7, <1>8
     DEF Sound, LiveOK, SpanOK, PayloadOK, GoneOK, ArchiveOK, AckOK, Granted, Exists
<1>10. \A w \in Vols \ {v} : Untouched(w)
  BY <1>3, <1>6, <1>7 DEF Untouched
<1>11. acked'[v].inc = meta'[v].inc /\ Exists(meta'[v])
  BY <1>2, <1>3, <1>6, <1>7
<1> QED
  BY <1>1, <1>2, <1>3, <1>4, <1>9, <1>10, <1>11, ExpandStepSound

LEMMA ExpandSound ==
    ASSUME Integrity, NEW p \in Procs, ExpandStep(p)
    PROVE  Integrity'
<1>1. Step(p)
  BY DEF Step
<1> QED
  BY <1>1, FailSound, ExpandBodySound, ReserveSound, GrowSound, GrownSound DEF ExpandStep

-----------------------------------------------------------------------------
(***************************************************************************)
(* Purging an archive: it takes no lock, and touches one archive of a      *)
(* generation that no call works at.                                       *)
(***************************************************************************)
LEMMA PurgeStepSound ==
    ASSUME Integrity, NEW p \in Procs, ReclaimStep(p), NEW v \in Vols, NEW i0 \in Incs,
           vol[p] = v, Past(v, i0),
           UNCHANGED <<intent, meta, xint, payload, acked>>,
           \A b \in Archives \ {<<v, i0>>} : /\ arcMeta'[b] = arcMeta[b]
                                             /\ arcPayload'[b] = arcPayload[b],
           arcMeta'[<<v, i0>>].state # "archiving",
           arcPayload'[<<v, i0>>] # NoPayload =>
               /\ arcPayload'[<<v, i0>>] = arcPayload[<<v, i0>>]
               /\ Exists(arcMeta[<<v, i0>>]) => Exists(arcMeta'[<<v, i0>>])
               /\ arcMeta'[<<v, i0>>].size = arcMeta[<<v, i0>>].size,
           call'[p] # "expand",
           pc'[p] \in {"idle", "reclaimPayload", "reclaimRow", "reclaimUnlink"}
    PROVE  Integrity'
<1>1. Step(p)
  BY DEF Step
<1>2. /\ TypeOK /\ IInv /\ Alone' /\ Frame(p) /\ NoNewDelete(p) /\ SeenFrame(p)
  BY <1>1, StepFacts
<1>3. \A i \in Incs : <<v, i>> \in Archives /\ (i # i0 => <<v, i>> # <<v, i0>>)
  BY DEF Archives
<1>4. (Arriving(v)' <=> Arriving(v)) /\ (HasMetadata(v)' <=> HasMetadata(v))
  BY <1>3 DEF Arriving, HasMetadata, Past
<1>5. Sound(v) /\ (InFlight("delete", v)' => InFlight("delete", v))
  BY <1>2, FlightKept DEF Integrity
<1>6. ArchiveOK(v)'
  <2> SUFFICES ASSUME NEW i \in Incs, arcPayload'[<<v, i>>] # NoPayload
               PROVE  \/ /\ meta[v].state = "archiving" /\ meta[v].inc = i
                         /\ payload[v] = NoPayload
                         /\ arcPayload'[<<v, i>>].quota <= meta[v].size
                      \/ /\ Exists(arcMeta'[<<v, i>>])
                         /\ arcPayload'[<<v, i>>].quota <= arcMeta'[<<v, i>>].size
    BY DEF ArchiveOK, Exists
  <2>1. /\ arcPayload'[<<v, i>>] = arcPayload[<<v, i>>]
        /\ Exists(arcMeta[<<v, i>>]) => Exists(arcMeta'[<<v, i>>])
        /\ arcMeta'[<<v, i>>].size = arcMeta[<<v, i>>].size
    BY <1>3
  <2> QED
    BY <1>5, <2>1 DEF Sound, ArchiveOK
<1>7. Sound(v)'
  BY <1>4, <1>5, <1>6
     DEF Sound, LiveOK, SpanOK, PayloadOK, GoneOK, AckOK, Granted, Exists
<1>8. Knows(p)'
  BY DEF Knows, Unlocked, LockedCreate, LockedDelete, LockedExpand, Snapshot,
         Expanding, Removing, Settled, Growing
<1>9. ASSUME NEW q \in Procs \ {p}, vol[q] = v, pc[q] # "idle" PROVE Knows(q)'
  <2>1. Same(q) /\ Knows(q) /\ vol'[q] = v /\ seen'[q] = seen[q]
    BY <1>2, <1>9 DEF Frame, SeenFrame, Same, Integrity
  <2>2. Unlocked(q)' /\ LockedCreate(q)' /\ LockedDelete(q)' /\ LockedExpand(q)'
    BY <1>4, <1>9, <2>1
       DEF Knows, Same, Unlocked, LockedCreate, LockedDelete, LockedExpand, Exists
  <2>3. Snapshot(q)'
    <3>1. CASE pc[q] = "reclaimMark"
      <4>1. PICK i \in Incs : found[q].inc = i
        BY <1>2, <3>1, ReclaimingFacts DEF ReclaimLabels
      <4>2. Target(q) = <<v, i>> /\ Target(q)' = <<v, i>>
        BY <1>9, <2>1, <4>1 DEF Target, Same
      <4>3. arcPayload'[<<v, i>>] # NoPayload =>
                /\ arcPayload'[<<v, i>>] = arcPayload[<<v, i>>]
                /\ arcMeta'[<<v, i>>].size = arcMeta[<<v, i>>].size
        BY <1>3
      <4> QED
        BY <2>1, <4>2, <4>3 DEF Knows, Snapshot, Same
    <3>2. CASE pc[q] # "reclaimMark"
      BY <2>1, <3>2 DEF Snapshot, Same
    <3> QED
      BY <3>1, <3>2
  <2> QED
    BY <2>2, <2>3 DEF Knows
<1>10. \A w \in Vols \ {v} : Untouched(w)
  BY DEF Untouched, Archives
<1> QED
  BY <1>2, <1>7, <1>8, <1>9, <1>10, SoundStep

LEMMA ReclaimSound ==
    ASSUME Integrity, NEW p \in Procs, PurgeOK(p), ReclaimStep(p)
    PROVE  Integrity'
<1>1. /\ Step(p) /\ IInv /\ pc[p] \in ReclaimLabels
      /\ UNCHANGED <<intent, meta, xint, payload, acked>>
  BY DEF Step, Integrity, Alone, ReclaimStep, ReclaimMark, ReclaimPayload, ReclaimRow,
         ReclaimUnlink, ReclaimLabels, Fail, files
<1>2. PICK v \in Vols : vol[p] = v
  BY <1>1, ReclaimingFacts
<1>3. PICK i0 \in Incs : found[p].inc = i0
  BY <1>1, ReclaimingFacts
<1>4. /\ Past(v, i0) /\ call[p] = "reclaim" /\ TypeOK
      /\ found[p].state \in {"archived", "reclaiming"}
  BY <1>1, <1>2, <1>3, ReclaimingFacts
<1> DEFINE a == <<v, i0>>
<1>5. a \in Archives /\ Target(p) = a /\ arcMeta[a].state # "archiving"
  BY <1>1, <1>2, <1>3, <1>4, ReclaimingFacts DEF Past
<1> HIDE DEF a
<1>6. CASE ReclaimMark(p)
  <2>1. /\ pc[p] = "reclaimMark" /\ pc'[p] = "reclaimPayload" /\ call'[p] = "reclaim"
        /\ UNCHANGED arcPayload
    BY <1>4, <1>6 DEF ReclaimMark, Goto, TypeOK, LocalsTyped, locals
  <2>2. /\ \A b \in Archives \ {a} : arcMeta'[b] = arcMeta[b]
        /\ \/ arcMeta'[a] = arcMeta[a]
           \/ arcMeta'[a] = Rec("reclaiming", found[p].size, found[p].inc)
    BY <1>4, <1>5, <1>6 DEF ReclaimMark, TypeOK, DurableTyped
  <2>3. arcPayload[a] # NoPayload => arcMeta[a].size = found[p].size
    BY <1>5, <2>1 DEF Integrity, Knows, Snapshot
  <2>4. /\ arcMeta'[a].state # "archiving"
        /\ arcPayload[a] # NoPayload =>
             /\ Exists(arcMeta[a]) => Exists(arcMeta'[a])
             /\ arcMeta'[a].size = arcMeta[a].size
    BY <1>5, <2>2, <2>3 DEF Rec, Exists
  <2> QED
    BY <1>1, <1>2, <1>4, <2>1, <2>2, <2>4, PurgeStepSound DEF a
<1>7. CASE ReclaimPayload(p)
  <2>1. /\ pc'[p] = "reclaimRow" /\ call'[p] = "reclaim" /\ UNCHANGED arcMeta
    BY <1>4, <1>7 DEF ReclaimPayload, Goto, TypeOK, LocalsTyped, locals
  <2>2. arcPayload'[a] = NoPayload /\ \A b \in Archives \ {a} : arcPayload'[b] = arcPayload[b]
    BY <1>4, <1>5, <1>7 DEF ReclaimPayload, TypeOK, DurableTyped
  <2> QED
    BY <1>1, <1>2, <1>4, <1>5, <2>1, <2>2, PurgeStepSound DEF a
<1>8. CASE ReclaimRow(p)
  <2>1. CASE Fail(p)
    BY <1>1, <2>1, FailSound
  <2>2. CASE ~Fail(p)
    <3>1. pc'[p] = "reclaimUnlink" /\ call'[p] = "reclaim" /\ UNCHANGED files
      BY <1>4, <1>8, <2>2 DEF ReclaimRow, Goto, TypeOK, LocalsTyped, locals
    <3>2. UNCHANGED <<arcMeta, arcPayload>>
      BY <3>1 DEF files
    <3> QED
      BY <1>1, <1>2, <1>4, <1>5, <3>1, <3>2, PurgeStepSound DEF a
  <2> QED
    BY <2>1, <2>2
<1>9. CASE ReclaimUnlink(p)
  <2>1. UNCHANGED arcPayload /\ Leave(p) /\ arcPayload[a] = NoPayload
    BY <1>5, <1>9 DEF ReclaimUnlink, PurgeOK
  <2>2. pc'[p] = "idle" /\ call'[p] = "none"
    BY <1>4, <2>1, LeaveFacts DEF TypeOK
  <2>3. arcMeta'[a] = NoRec /\ \A b \in Archives \ {a} : arcMeta'[b] = arcMeta[b]
    BY <1>4, <1>5, <1>9 DEF ReclaimUnlink, TypeOK, DurableTyped
  <2> QED
    BY <1>1, <1>2, <1>4, <2>1, <2>2, <2>3, PurgeStepSound DEF a, NoRec, Rec
<1> QED
  BY <1>6, <1>7, <1>8, <1>9 DEF ReclaimStep

-----------------------------------------------------------------------------
(***************************************************************************)
(* The rest of the next-state relation, and the theorems.                  *)
(***************************************************************************)

\* A call begins: no file changes, but a delete withdraws the promise.
LEMMA StartSound ==
    ASSUME OrderlyCaller, Integrity, NEW p \in Procs, Start(p)
    PROVE  Integrity'
<1>1. /\ TypeOK /\ IInv /\ Alone' /\ Frame(p) /\ pc[p] = "idle"
      /\ UNCHANGED files /\ UNCHANGED seen
  BY StartKeeps, StartAlone
     DEF Integrity, Alone, IInv, Start, StartCreate, StartDelete, StartExpand,
         StartReclaim, Begin
<1>2. SeenFrame(p)
  BY <1>1 DEF SeenFrame
<1>3. ASSUME NEW v \in Vols, NEW s \in Sizes, StartCreate(p, v, s) PROVE Integrity'
  <2>1. UNCHANGED acked /\ pc'[p] = "ident" /\ call'[p] = "create"
    BY <1>1, <1>3 DEF StartCreate, Begin, Goto, TypeOK, LocalsTyped
  <2>2. Knows(p)' /\ NoNewDelete(p)
    BY <2>1, BlankKnows DEF NoNewDelete
  <2> QED
    BY <1>1, <1>2, <2>1, <2>2, QuietSound
<1>4. ASSUME NEW v \in Vols, NEW s \in Sizes, StartExpand(p, v, s) PROVE Integrity'
  <2>1. /\ UNCHANGED acked /\ pc'[p] = "look" /\ call'[p] = "expand" /\ vol'[p] = v
        /\ acked[v].state = "live"
    BY <1>1, <1>4 DEF StartExpand, Begin, Goto, TypeOK, LocalsTyped
  <2>2. meta[v].inc = acked[v].inc /\ ~Exists(intent[v])
    BY <2>1 DEF Integrity, Sound, AckOK
  <2>3. Knows(p)' /\ NoNewDelete(p)
    BY <1>1, <2>1, <2>2
       DEF NoNewDelete, Knows, Unlocked, LockedCreate, LockedDelete, LockedExpand,
           Snapshot, Expanding, Removing, Settled, Growing, files, Exists
  <2> QED
    BY <1>1, <1>2, <2>1, <2>3, QuietSound
<1>5. ASSUME NEW a \in Archives, StartReclaim(p, a) PROVE Integrity'
  <2>1. PICK v \in Vols, i \in Incs : a = <<v, i>>
    BY DEF Archives
  <2>2. arcMeta[a].inc = i
    BY <1>1, <1>5, <2>1 DEF IInv, GenerationOK, StartReclaim, Exists
  <2>3. /\ UNCHANGED acked /\ pc'[p] = "reclaimMark" /\ call'[p] = "reclaim"
        /\ vol'[p] = v /\ found'[p] = arcMeta[a]
    BY <1>1, <1>5, <2>1 DEF StartReclaim, Begin, Goto, TypeOK, LocalsTyped
  <2>4. Target(p)' = a
    BY <2>1, <2>2, <2>3 DEF Target
  <2>5. Snapshot(p)'
    BY <1>1, <2>3, <2>4 DEF Snapshot, files
  <2>6. Knows(p)' /\ NoNewDelete(p)
    BY <2>3, <2>5
       DEF NoNewDelete, Knows, Unlocked, LockedCreate, LockedDelete, LockedExpand,
           Expanding, Removing, Settled, Growing
  <2> QED
    BY <1>1, <1>2, <2>3, <2>6, QuietSound
<1>6. ASSUME NEW v \in Vols, StartDelete(p, v) PROVE Integrity'
  <2>1. /\ pc'[p] = "look" /\ call'[p] = "delete" /\ vol'[p] = v
        /\ acked'[v] = Rec("deleting", 0, Lookup(v).inc)
        /\ \A w \in Vols \ {v} : acked'[w] = acked[w]
    BY <1>1, <1>6 DEF StartDelete, Begin, Goto, TypeOK, DurableTyped, LocalsTyped
  <2>2. /\ UNCHANGED <<intent, meta, xint, payload, arcMeta, arcPayload>>
    BY <1>1 DEF files
  <2>3. Exists(meta[v]) => acked'[v].inc = meta[v].inc
    <3>1. Exists(meta[v]) => Lookup(v) = meta[v]
      BY <1>1, LookupFacts, MetadataOfFacts DEF HasMetadata
    <3> QED
      BY <2>1, <3>1 DEF Rec
  <2>4. Sound(v)'
    <3>1. Sound(v)
      BY DEF Integrity
    <3>2. Arriving(v)' <=> Arriving(v)
      BY <2>2 DEF Arriving
    <3> QED
      BY <2>1, <2>2, <2>3, <3>1, <3>2
         DEF Sound, LiveOK, SpanOK, PayloadOK, GoneOK, ArchiveOK, AckOK, Granted,
             Exists, Rec
  <2>5. \A w \in Vols \ {v} : Untouched(w)
    BY <2>1, <2>2 DEF Untouched
  <2>6. ASSUME NEW w \in Vols \ {v} PROVE Sound(w)'
    <3>1. InFlight("delete", w)' => InFlight("delete", w)
      BY <1>1, <2>1, <2>6 DEF InFlight, Frame, Same
    <3> QED
      BY <2>5, <3>1, KeptSound DEF Integrity
  <2>7. Knows(p)'
    BY <2>1, BlankKnows
  <2>8. ASSUME NEW q \in Procs \ {p} PROVE Knows(q)'
    <3>1. Same(q) /\ Knows(q) /\ seen'[q] = seen[q]
      BY <1>1 DEF Frame, Integrity
    <3>2. CASE vol[q] = v /\ pc[q] # "idle"
      <4>1. HasMetadata(v)' <=> HasMetadata(v)
        BY <2>2 DEF HasMetadata, Arriving
      <4>2. Unlocked(q)'
        BY <2>2, <2>3, <3>1, <3>2, <4>1 DEF Knows, Unlocked, Same, Exists
      <4>3. LockedCreate(q)' /\ LockedDelete(q)' /\ LockedExpand(q)'
        BY <2>2, <3>1, <3>2
           DEF Knows, LockedCreate, LockedDelete, LockedExpand, Same, Exists
      <4>4. Snapshot(q)'
        BY <2>2, <3>1, <3>2 DEF Knows, Snapshot, Target, Same
      <4> QED
        BY <4>2, <4>3, <4>4 DEF Knows
    <3>3. CASE ~(vol[q] = v /\ pc[q] # "idle")
      <4>1. pc[q] # "idle" => Untouched(vol[q])
        BY <1>1, <2>5, <3>3 DEF IInv, ProcOK, CallOK
      <4> QED
        BY <1>1, <3>1, <4>1, KeptKnows
    <3> QED
      BY <3>2, <3>3
  <2> QED
    BY <1>1, <2>4, <2>6, <2>7, <2>8 DEF Integrity
<1> QED
  BY <1>3, <1>4, <1>5, <1>6 DEF Start

LEMMA NextSound == OrderlyCaller /\ Integrity /\ Purging /\ [Next]_vars => Integrity'
<1> SUFFICES ASSUME OrderlyCaller, Integrity, Purging, [Next]_vars PROVE Integrity'
  OBVIOUS
<1>1. ASSUME NEW p \in Procs, Step(p) PROVE Integrity'
  BY <1>1, ArriveSound, CreateSound, DeleteSound, ExpandSound, ReclaimSound
     DEF Step, Purging
<1>2. ASSUME NEW p \in Procs, Abandon(p) PROVE Integrity'
  <2>1. /\ IInv /\ TypeOK /\ Alone' /\ Leave(p) /\ UNCHANGED <<files, acked>>
    BY <1>2, StepAlone DEF Integrity, Alone, IInv, Abandon, Fail
  <2>2. Frame(p) /\ pc'[p] = "idle" /\ call'[p] = "none"
    BY <2>1, LeaveFacts DEF TypeOK
  <2>3. SeenFrame(p) /\ NoNewDelete(p)
    BY <2>1, <2>2 DEF Leave, SeenFrame, NoNewDelete, TypeOK, LocalsTyped
  <2> QED
    BY <2>1, <2>2, <2>3, IdleKnows, QuietSound
<1>3. CASE ChangePolicy \/ UNCHANGED vars
  <2>1. Alone' /\ IInv
    BY NextAlone DEF Integrity, Alone
  <2>2. /\ \A v \in Vols : Untouched(v)
        /\ \A q \in Procs : Same(q) /\ seen'[q] = seen[q]
        /\ UNCHANGED <<call, vol>>
    BY <1>3 DEF ChangePolicy, vars, files, locks, locals, Untouched, Same
  <2>3. \A v \in Vols : Sound(v)'
    BY <2>2, KeptSound DEF InFlight, Integrity
  <2>4. ASSUME NEW q \in Procs PROVE Knows(q)'
    <3>1. pc[q] # "idle" => Untouched(vol[q])
      BY <2>1, <2>2 DEF IInv, ProcOK, CallOK
    <3> QED
      BY <2>1, <2>2, <3>1, KeptKnows DEF Integrity
  <2> QED
    BY <2>1, <2>3, <2>4 DEF Integrity
<1> QED
  BY <1>1, <1>2, <1>3, StartSound DEF Next

LEMMA InitSound == Init => Integrity /\ Purging
<1> SUFFICES ASSUME Init PROVE Integrity /\ Purging
  OBVIOUS
<1>1. IInv
  BY InitIInv
<1>2. Alone /\ Purging
  BY <1>1 DEF Init, Alone, ExpandAlone, Purging, PurgeOK
<1>3. \A v \in Vols : Sound(v)
  BY DEF Init, Sound, LiveOK, SpanOK, PayloadOK, GoneOK, ArchiveOK, AckOK, Arriving,
         InFlight, Exists, NoRec, Rec, Archives
<1>4. \A p \in Procs : Knows(p)
  BY DEF Init, Knows, Unlocked, LockedCreate, LockedDelete, LockedExpand, Snapshot,
         Expanding, Removing, Settled, Growing
<1> QED
  BY <1>2, <1>3, <1>4 DEF Integrity

LEMMA IntegrityHolds == ASSUME OrderlyCaller PROVE Spec => [](Integrity /\ Purging)
<1>1. Integrity /\ Purging /\ [Next]_vars => (Integrity /\ Purging)'
  BY NextSound, NextPurging
<1> QED
  BY <1>1, InitSound, PTL DEF Spec

LEMMA PayloadQuota == ASSUME NEW r \in Payloads PROVE r.quota \in Nat
<1>1. r.quota \in Sizes \cup {0}
  BY DEF Payloads, NoPayload, SizesOrZero
<1>2. Sizes \cup {0} \subseteq Nat
  BY ConstantsAssumption
<1> QED
  BY <1>1, <1>2, Zenon

\* What CreateVolume or ControllerExpandVolume has answered stays true until
\* the caller asks for the delete, whoever dies at which step and whichever
\* calls wait for the lifecycle lock of the volume meanwhile.
THEOREM AckedIsIntact == ASSUME OrderlyCaller PROVE Spec => []AckedVolumeIntact
<1>1. Integrity => AckedVolumeIntact
  <2> SUFFICES ASSUME Integrity, NEW v \in Vols, acked[v].state = "live"
               PROVE  /\ meta[v].state = "live" /\ meta[v].inc = acked[v].inc
                      /\ meta[v].size >= acked[v].size
                      /\ payload[v].quota >= acked[v].size
    BY DEF AckedVolumeIntact
  <2>1. /\ meta[v].state = "live" /\ meta[v].inc = acked[v].inc
        /\ meta[v].size >= acked[v].size /\ payload[v].quota >= meta[v].size
    BY DEF Integrity, Sound, AckOK
  <2>2. acked[v] \in Promises /\ meta[v] \in Metadata /\ payload[v] \in Payloads
    BY DEF Integrity, Alone, IInv, TypeOK, DurableTyped
  <2>3. acked[v].size \in Nat
    BY <2>2, PromisedSize
  <2>4. meta[v].size \in Nat
    BY <2>1, RecordFacts, ConstantsAssumption DEF Integrity, Alone, IInv, Exists
  <2>5. payload[v].quota \in Nat
    BY <2>2, PayloadQuota
  <2> QED
    BY <2>1, <2>3, <2>4, <2>5
<1> QED
  BY <1>1, IntegrityHolds, PTL

\* search_volume finds metadata of a volume only while the payload of that
\* very generation is there with a quota, or a delete has begun.
THEOREM DiscoverableUsable == ASSUME OrderlyCaller PROVE Spec => []DiscoverableIsUsable
<1>1. Integrity => DiscoverableIsUsable
  <2> SUFFICES ASSUME Integrity, NEW v \in Vols, meta[v].state = "live"
               PROVE  payload[v].inc = meta[v].inc /\ payload[v].quota > 0
    BY DEF DiscoverableIsUsable
  <2>1. payload[v].inc = meta[v].inc /\ payload[v].quota # 0
    BY DEF Integrity, Sound, LiveOK
  <2>2. payload[v] \in Payloads
    BY DEF Integrity, Alone, IInv, TypeOK, DurableTyped
  <2>3. payload[v].quota \in Nat
    BY <2>2, PayloadQuota
  <2> QED
    BY <2>1, <2>3
<1> QED
  BY <1>1, IntegrityHolds, PTL

\* A create intent that a crash left beside committed metadata is what
\* validate_committed_creation expects, so that any later call can drop it.
THEOREM LeftoverIsRedundant == ASSUME OrderlyCaller PROVE Spec => []LeftoverIntentRedundant
<1>1. Integrity => LeftoverIntentRedundant
  BY DEF Integrity, Sound, LiveOK, LeftoverIntentRedundant
<1> QED
  BY <1>1, IntegrityHolds, PTL

\* Every payload directory, active or archived, belongs to a record of its
\* generation which the capacity walk counts, for at least its quota.
THEOREM PayloadIsReserved == ASSUME OrderlyCaller PROVE Spec => []PayloadReserved
<1>1. Integrity => PayloadReserved
  <2> SUFFICES ASSUME Integrity PROVE PayloadReserved
    OBVIOUS
  <2>1. TypeOK /\ IInv
    BY DEF Integrity, Alone, IInv
  <2>2. ASSUME NEW v \in Vols, payload[v] # NoPayload
        PROVE  /\ payload[v].inc \in {meta[v].inc, intent[v].inc}
               /\ IF meta[v].state = "archiving"
                  THEN payload[v].quota <= meta[v].size
                  ELSE payload[v].quota <= Owed(v)
    <3>1. Sound(v) /\ meta[v] \in Metadata
      BY <2>1 DEF Integrity, TypeOK, DurableTyped
    <3>2. payload[v].inc \in {meta[v].inc, intent[v].inc}
      BY <2>2, <3>1 DEF Sound, PayloadOK
    <3>3. payload[v].quota <= Granted(v)
      BY <2>2, <3>1 DEF Sound, PayloadOK
    <3>4. CASE meta[v].state = "archiving"
      BY <3>1, <3>2, <3>3, <3>4 DEF Sound, SpanOK, Granted, Exists
    <3>5. CASE meta[v].state # "archiving"
      <4>1. ~Tombstone(v) /\ v \in Ids
        BY <2>2 DEF Tombstone, Ids
      <4>2. Exists(meta[v]) => meta[v].state \in {"live", "deleting"}
        BY <3>1, <3>5 DEF Metadata, Kind, NoRec, Rec, Exists
      <4>3. Granted(v) = Owed(v)
        BY <2>2, <3>1, <4>1, <4>2
           DEF Sound, LiveOK, PayloadOK, GoneOK, Granted, Owed, CommittedSize, Exists
      <4> QED
        BY <3>2, <3>3, <3>5, <4>3
    <3> QED
      BY <3>4, <3>5
  <2>3. ASSUME NEW a \in Archives, arcPayload[a] # NoPayload
        PROVE  arcPayload[a].quota <= Owed(a)
    <3>1. PICK v \in Vols, i \in Incs : a = <<v, i>>
      BY DEF Archives
    <3>2. a \notin Vols /\ a[1] = v /\ a[2] = i
      BY <3>1, ConstantsAssumption DEF Archives
    <3>3. Owed(a) = IF meta[v].state = "archiving" /\ meta[v].inc = i
                    THEN meta[v].size ELSE arcMeta[a].size
      BY <2>3, <3>2 DEF Owed, CommittedSize, Tombstone, HandedOff
    <3>4. meta[v].state = "archiving" /\ meta[v].inc = i => ~Exists(arcMeta[<<v, i>>])
      BY <2>1 DEF IInv, GenerationOK, Exists
    <3>5. Sound(v) /\ arcPayload[<<v, i>>] # NoPayload
      BY <2>3, <3>1 DEF Integrity
    <3> QED
      BY <3>1, <3>3, <3>4, <3>5 DEF Sound, ArchiveOK
  <2> QED
    BY <2>2, <2>3 DEF PayloadReserved
<1> QED
  BY <1>1, IntegrityHolds, PTL

\* The three steps that take a payload away are of a delete that holds the
\* lock, and what it works on is of the generation whose evidence it took
\* before it waited.
SeenLoss(v) ==
    \E p \in Procs : call[p] = "delete" /\ vol[p] = v /\ seen[p].inc = payload[v].inc

LEMMA RemovesSeen ==
    ASSUME Integrity, NEW p \in Procs, Removes(p)
    PROVE  \A v \in Vols : payload[v] # NoPayload /\ payload'[v] = NoPayload => SeenLoss(v)
<1>1. DeleteStep(p) /\ pc[p] \in DeleteLabels
  BY DEF Removes, DeleteStep, CancelPayload, DestroyPayload, MovePayload, DeleteLabels
<1>2. Step(p)
  BY <1>1 DEF Step
<1>3. PICK v \in Vols :
        /\ vol[p] = v /\ call[p] = "delete" /\ Sound(v)
        /\ LockedDelete(p) /\ DeleteOK(p) /\ TypeOK
  BY <1>1, <1>2, DeletingFacts
<1>4. SUFFICES ASSUME payload[v] # NoPayload, ~Fail(p)
               PROVE  seen[p].inc = payload[v].inc
  <2>1. Fail(p) => payload' = payload
    BY DEF Fail, files
  <2>2. \A w \in Vols \ {v} : payload'[w] = payload[w]
    BY <1>3, <2>1 DEF Removes, CancelPayload, DestroyPayload, MovePayload, Emptied,
                      TypeOK, DurableTyped
  <2> QED
    BY <1>3, <1>4, <2>1, <2>2 DEF SeenLoss
<1>5. PayloadOK(v)
  BY <1>3 DEF Sound
<1>6. CASE CancelPayload(p)
  <2>1. pc[p] = "cancel" /\ intent[v] = found[p] /\ ~Exists(meta[v])
    BY <1>3, <1>4, <1>6 DEF CancelPayload
  <2> QED
    BY <1>3, <1>4, <1>5, <2>1 DEF PayloadOK, LockedDelete
<1>7. CASE DestroyPayload(p)
  BY <1>3, <1>4, <1>5, <1>7
     DEF DestroyPayload, DeleteOK, PayloadOK, LockedDelete, Removing, Exists
<1>8. CASE MovePayload(p)
  BY <1>3, <1>4, <1>5, <1>8
     DEF MovePayload, DeleteOK, PayloadOK, LockedDelete, Removing, Exists
<1> QED
  BY <1>6, <1>7, <1>8 DEF Removes

\* A delete that waited for the lock while its volume was deleted and made
\* again by others never takes the payload of the new generation away:
\* _same_volume_generation compares what it sees under the lock with what
\* it had read before.
THEOREM LossIsOfSeenGeneration ==
    ASSUME OrderlyCaller PROVE Spec => LossOnlyOfSeenGeneration
<1>1. Integrity /\ Purging /\ [Next]_vars =>
        [\A v \in Vols : payload[v] # NoPayload /\ payload'[v] = NoPayload =>
           \E p \in Procs : /\ call[p] = "delete" /\ vol[p] = v
                            /\ seen[p].inc = payload[v].inc]_vars
  <2> SUFFICES ASSUME Integrity, [Next]_vars, NEW v \in Vols,
                      payload[v] # NoPayload, payload'[v] = NoPayload
               PROVE  SeenLoss(v)
    BY DEF SeenLoss
  <2>1. IInv
    BY DEF Integrity, Alone
  <2> QED
    BY <2>1, NextStays, RemovesSeen DEF PayloadsStay
<1> QED
  BY <1>1, IntegrityHolds, PTL DEF Spec, LossOnlyOfSeenGeneration

-----------------------------------------------------------------------------
(***************************************************************************)
(* Archives.  A pool that is never given both of the policies that remove  *)
(* volumes archives each of them whole: what a delete has destroyed is     *)
(* never archived.  (With both, the run PolicySwitch shows the opposite.)  *)
(***************************************************************************)
OnePolicy == ~({"archive", "delete"} \subseteq Policies)

\* An archive that is under way has the payload at one of its two places, and
\* at the second once its record is moved.
Whole(v) ==
    /\ meta[v].state = "deleting" => "delete" \in Policies
    /\ meta[v].state = "archiving" =>
           (payload[v] = NoPayload) # (arcPayload[<<v, meta[v].inc>>] = NoPayload)
    /\ \A i \in Incs : arcMeta[<<v, i>>].state = "archiving" =>
           arcPayload[<<v, i>>] # NoPayload

\* A delete on its way to the first durable step goes where the policy says.
Policed(p) ==
    /\ pc[p] \in {"fold", "dropExpansion", "dropLeftover"} => policy # "retain"
    /\ pc[p] = "markDeleting" => policy = "delete"
    /\ pc[p] = "prepareArchive" => policy = "archive"

Steered == {"fold", "dropExpansion", "dropLeftover", "markDeleting", "prepareArchive"}

Resumable == (\A v \in Vols : Whole(v)) /\ (\A p \in Procs : Policed(p))

\* A step of one call touches the files of one volume.
LEMMA WholeStep ==
    ASSUME Resumable, NEW v \in Vols, Whole(v)',
           \A w \in Vols \ {v} : meta'[w] = meta[w] /\ payload'[w] = payload[w],
           \A w \in Vols \ {v}, i \in Incs : /\ arcMeta'[<<w, i>>] = arcMeta[<<w, i>>]
                                             /\ arcPayload'[<<w, i>>] = arcPayload[<<w, i>>],
           \A w \in Vols \ {v} : meta[w].state = "archiving" => meta[w].inc \in Incs
    PROVE  \A w \in Vols : Whole(w)'
BY DEF Resumable, Whole

LEMMA ArchivingInc ==
    ASSUME IInv PROVE \A w \in Vols : meta[w].state = "archiving" => meta[w].inc \in Incs
BY RecordFacts DEF IInv, Exists

\* No step changes the policy, and DeleteBody and its successors obey it.
LEMMA StepPoliced ==
    ASSUME Integrity, Resumable, NEW p \in Procs, Step(p)
    PROVE  \A q \in Procs : Policed(q)'
<1>1. Frame(p) /\ TypeOK /\ policy' = policy
  <2>1. policy' = policy
    BY DEF Step, Arrive, TakeIdentity, LookMetadata, LookIntent, ReadEvidence,
           TakeVolumeLock, Relook,
           CreateStep, CreateBody, FinishCommitted, Reconcile, Admit, AdmitCommit,
           EnterCreation, MakePayload, SetQuota, SaveMetadata, DropIntent, RecordSize,
           DeleteStep, DeleteBody, CancelPayload, CancelIntent, CancelCommit,
           FoldExpansion, DropExpansion, DropLeftover, MarkDeleting, DestroyPayload,
           ReleaseRow, UnlinkMetadata, PrepareArchive, MovePayload, MoveRow,
           MoveMetadata, MarkArchived,
           ExpandStep, ExpandBody, Requota, Reserve, ReserveCommit, GrowQuota,
           GrowMetadata, FinishExpansion,
           ReclaimStep, ReclaimMark, ReclaimPayload, ReclaimRow, ReclaimUnlink, Fail
  <2> QED
    BY <2>1, StepFacts
<1>2. policy \in {"delete", "archive", "retain"}
  BY <1>1, ConstantsAssumption DEF TypeOK, DurableTyped
<1>3. \A q \in Procs \ {p} : Policed(q)'
  BY <1>1 DEF Resumable, Policed, Frame, Same
<1>4. Policed(p)
  BY DEF Resumable
<1>5. CASE Leave(p)
  BY <1>1, <1>3, <1>5, LeaveFacts DEF Policed, TypeOK
<1>6. CASE ~Leave(p)
  <2>1. CASE Arrive(p)
    <3>1. pc'[p] \notin Steered
      BY <1>1, <1>6, <2>1
         DEF Arrive, TakeIdentity, LookMetadata, LookIntent, ReadEvidence,
             TakeVolumeLock, Relook, Fail, Goto, TypeOK, LocalsTyped, Steered
    <3> QED
      BY <1>3, <3>1 DEF Policed, Steered
  <2>2. CASE CreateStep(p)
    <3>1. pc'[p] \notin Steered
      BY <1>1, <1>6, <2>2
         DEF CreateStep, CreateBody, FinishCommitted, Reconcile, Admit, AdmitCommit,
             EnterCreation, MakePayload, SetQuota, SaveMetadata, DropIntent,
             RecordSize, Fail, Goto, TypeOK, LocalsTyped, Steered, AfterMakedirs
    <3> QED
      BY <1>3, <3>1 DEF Policed, Steered
  <2>3. CASE ExpandStep(p) \/ ReclaimStep(p)
    <3>1. pc'[p] \notin Steered
      BY <1>1, <1>6, <2>3
         DEF ExpandStep, ExpandBody, Requota, Reserve, ReserveCommit, GrowQuota,
             GrowMetadata, FinishExpansion,
             ReclaimStep, ReclaimMark, ReclaimPayload, ReclaimRow, ReclaimUnlink,
             Fail, Goto, TypeOK, LocalsTyped, Steered, FirstOfGrowth, AfterReserve
    <3> QED
      BY <1>3, <3>1 DEF Policed, Steered
  <2>4. CASE DeleteBody(p) \/ FoldExpansion(p) \/ DropExpansion(p)
    BY <1>1, <1>3, <1>4, <1>6, <2>4
       DEF DeleteBody, FoldExpansion, DropExpansion, Fail, Goto, TypeOK, LocalsTyped,
           Policed
  <2>5. CASE DropLeftover(p)
    BY <1>1, <1>2, <1>3, <1>4, <1>6, <2>5
       DEF DropLeftover, FirstOfReclaim, Fail, Goto, TypeOK, LocalsTyped, Policed
  <2>6. CASE \/ CancelPayload(p) \/ CancelIntent(p) \/ CancelCommit(p)
             \/ MarkDeleting(p) \/ DestroyPayload(p) \/ ReleaseRow(p)
             \/ UnlinkMetadata(p) \/ PrepareArchive(p) \/ MovePayload(p)
             \/ MoveRow(p) \/ MoveMetadata(p) \/ MarkArchived(p)
    <3>1. pc'[p] \notin Steered
      BY <1>1, <1>6, <2>6
         DEF CancelPayload, CancelIntent, CancelCommit, MarkDeleting, DestroyPayload,
             ReleaseRow, UnlinkMetadata, PrepareArchive, MovePayload, MoveRow,
             MoveMetadata, MarkArchived, Fail, Goto, TypeOK, LocalsTyped, Steered
    <3> QED
      BY <1>3, <3>1 DEF Policed, Steered
  <2> QED
    BY <2>1, <2>2, <2>3, <2>4, <2>5, <2>6 DEF Step, DeleteStep
<1> QED
  BY <1>5, <1>6

\* A step that writes or removes an active payload does so for a volume that
\* is not being archived.
LEMMA PayloadStepWhole ==
    ASSUME Integrity, Resumable, NEW p \in Procs, ~Fail(p),
           \/ MakePayload(p) \/ SetQuota(p) \/ Requota(p) \/ GrowQuota(p)
           \/ CancelPayload(p) \/ DestroyPayload(p)
    PROVE  \A v \in Vols : Whole(v)'
<1>1. Step(p)
  BY DEF Step, CreateStep, DeleteStep, ExpandStep
<1>2. TypeOK /\ IInv /\ ProcOK(p) /\ Knows(p)
  BY <1>1, StepFacts
<1>3. PICK v \in Vols : vol[p] = v
  BY <1>2 DEF ProcOK, CallOK, MakePayload, SetQuota, Requota, GrowQuota,
              CancelPayload, DestroyPayload
<1>4. /\ UNCHANGED <<meta, arcMeta, arcPayload>>
      /\ \A w \in Vols \ {v} : payload'[w] = payload[w]
  BY <1>2, <1>3 DEF MakePayload, SetQuota, Requota, GrowQuota, QuotaSet,
                    CancelPayload, DestroyPayload, TypeOK, DurableTyped
<1>5. meta[v].state # "archiving"
  <2>1. CASE MakePayload(p) \/ SetQuota(p)
    BY <1>2, <1>3, <2>1
       DEF MakePayload, SetQuota, Knows, Unlocked, HasMetadata, Exists
  <2>2. CASE Requota(p) \/ GrowQuota(p)
    BY <1>2, <1>3, <2>2
       DEF Requota, GrowQuota, Knows, LockedExpand, Expanding
  <2>3. CASE CancelPayload(p)
    BY <1>3, <2>3 DEF CancelPayload, Exists
  <2>4. CASE DestroyPayload(p)
    BY <1>2, <1>3, <2>4 DEF DestroyPayload, ProcOK, FileOK, DeleteOK
  <2> QED
    BY <2>1, <2>2, <2>3, <2>4
<1>6. Whole(v)'
  BY <1>4, <1>5 DEF Whole, Resumable
<1> QED
  BY <1>2, <1>4, <1>6, ArchivingInc, WholeStep

\* A live volume has its payload where it was made, and none in the archive.
LEMMA LiveIsWhole ==
    ASSUME Integrity, NEW v \in Vols, meta[v].state = "live"
    PROVE  payload[v] # NoPayload /\ arcPayload[<<v, meta[v].inc>>] = NoPayload
<1>1. PICK i0 \in Incs : meta[v].inc = i0
  BY RecordFacts DEF Integrity, Alone, IInv, Exists
<1>2. payload[v] # NoPayload
  BY DEF Integrity, Sound, LiveOK, NoPayload
<1>3. ~Exists(arcMeta[<<v, i0>>])
  BY <1>1 DEF Integrity, Alone, IInv, GenerationOK, Exists
<1> QED
  BY <1>1, <1>2, <1>3 DEF Integrity, Sound, ArchiveOK

\* The steps that write the metadata where it is.
LEMMA MetadataStepWhole ==
    ASSUME OnePolicy, Integrity, Resumable, NEW p \in Procs, ~Fail(p),
           \/ SaveMetadata(p) \/ FoldExpansion(p) \/ MarkDeleting(p)
           \/ UnlinkMetadata(p) \/ PrepareArchive(p) \/ GrowMetadata(p)
    PROVE  \A v \in Vols : Whole(v)'
<1>1. Step(p)
  BY DEF Step, CreateStep, DeleteStep, ExpandStep
<1>2. TypeOK /\ IInv /\ ProcOK(p) /\ Knows(p) /\ Policed(p)
  BY <1>1, StepFacts DEF Resumable
<1>3. PICK v \in Vols : vol[p] = v
  BY <1>2 DEF ProcOK, CallOK, SaveMetadata, FoldExpansion, MarkDeleting,
              UnlinkMetadata, PrepareArchive, GrowMetadata
<1>4. /\ UNCHANGED <<payload, arcMeta, arcPayload>>
      /\ \A w \in Vols \ {v} : meta'[w] = meta[w]
  BY <1>2, <1>3 DEF SaveMetadata, FoldExpansion, MarkDeleting, UnlinkMetadata,
                    PrepareArchive, GrowMetadata, TypeOK, DurableTyped, files
<1>5. policy \in Policies /\ meta[v] \in Metadata
  BY <1>2 DEF TypeOK, DurableTyped
<1>6. \/ meta'[v].state = meta[v].state /\ meta'[v].inc = meta[v].inc
      \/ meta'[v].state \in {"live", "absent"}
      \/ meta'[v].state = "deleting" /\ policy = "delete"
      \/ /\ meta'[v].state = "archiving" /\ meta'[v].inc = meta[v].inc
         /\ policy = "archive" /\ Exists(meta[v])
  <2>1. CASE SaveMetadata(p) \/ UnlinkMetadata(p)
    BY <1>2, <1>3, <2>1
       DEF SaveMetadata, UnlinkMetadata, NoRec, Rec, TypeOK, DurableTyped
  <2>2. CASE FoldExpansion(p) \/ GrowMetadata(p)
    <3>1. \E s \in Sizes \cup {0} : meta' = meta \/ meta' = [meta EXCEPT ![v].size = s]
      BY <1>2, <1>3, <2>2
         DEF FoldExpansion, GrowMetadata, files, TypeOK, DurableTyped, LocalsTyped,
             Spans, NoSpan, SizesOrZero
    <3> QED
      BY <1>2, <1>5, <3>1 DEF TypeOK, DurableTyped, Metadata, Kind, NoRec, Rec
  <2>3. CASE MarkDeleting(p)
    <3>1. meta'[v].state = "deleting"
      BY <1>2, <1>3, <1>5, <2>3
         DEF MarkDeleting, TypeOK, DurableTyped, Metadata, Kind, NoRec, Rec
    <3> QED
      BY <1>2, <2>3, <3>1 DEF MarkDeleting, Policed
  <2>4. CASE PrepareArchive(p)
    <3>1. policy = "archive"
      BY <1>2, <2>4 DEF PrepareArchive, Policed
    <3> QED
      BY <1>2, <1>3, <1>5, <2>4, <3>1
         DEF PrepareArchive, TypeOK, DurableTyped, Metadata, Kind, NoRec, Rec
  <2> QED
    BY <2>1, <2>2, <2>3, <2>4
<1>7. policy = "archive" => meta[v].state # "deleting"
  BY <1>5 DEF OnePolicy, Resumable, Whole
<1>8. Exists(meta[v]) => meta[v].state \in {"live", "archiving", "deleting"}
  BY <1>5 DEF Metadata, Kind, NoRec, Rec, Exists
<1>9. Whole(v)'
  BY <1>4, <1>5, <1>6, <1>7, <1>8, LiveIsWhole DEF Whole, Resumable
<1> QED
  BY <1>2, <1>4, <1>9, ArchivingInc, WholeStep

\* The rename of _rename_for_archive.
LEMMA MoveWhole ==
    ASSUME Integrity, Resumable, NEW p \in Procs, ~Fail(p), MovePayload(p)
    PROVE  \A v \in Vols : Whole(v)'
<1>1. Step(p)
  BY DEF Step, DeleteStep
<1>2. TypeOK /\ IInv /\ ProcOK(p)
  BY <1>1, StepFacts
<1>3. PICK v \in Vols : vol[p] = v
  BY <1>2 DEF ProcOK, CallOK, MovePayload
<1>4. meta[v].state = "archiving" \/ (~Exists(meta[v]) /\ Arriving(v))
  BY <1>2, <1>3 DEF ProcOK, FileOK, DeleteOK, MovePayload
<1>5. PICK i0 \in Incs : /\ MetadataOf(v).inc = i0
                         /\ Exists(meta[v]) => meta[v].inc = i0
  BY <1>2, <1>4, MetadataOfFacts, RecordFacts DEF Exists
<1> DEFINE a == <<v, i0>>
<1>6. a \in Archives
  BY DEF Archives
<1>7. /\ UNCHANGED <<meta, arcMeta>>
      /\ (payload[v] = NoPayload) # (arcPayload[a] = NoPayload)
      /\ arcPayload' = [arcPayload EXCEPT ![a] = IF @ = NoPayload THEN payload[v] ELSE @]
      /\ payload' = [payload EXCEPT ![v] = NoPayload]
  BY <1>3, <1>5 DEF MovePayload, Movable, Emptied
<1> HIDE DEF a
<1>8. /\ payload'[v] = NoPayload /\ \A w \in Vols \ {v} : payload'[w] = payload[w]
      /\ arcPayload'[a] # NoPayload
      /\ \A b \in Archives \ {a} : arcPayload'[b] = arcPayload[b]
  BY <1>2, <1>6, <1>7 DEF TypeOK, DurableTyped
<1>9. \A w \in Vols, i \in Incs : w # v \/ i # i0 =>
          arcPayload'[<<w, i>>] = arcPayload[<<w, i>>]
  BY <1>8 DEF a, Archives
<1>10. Whole(v)'
  BY <1>4, <1>5, <1>7, <1>8, <1>9 DEF Whole, Resumable, a, Exists
<1> QED
  BY <1>2, <1>7, <1>8, <1>9, <1>10, ArchivingInc, WholeStep

\* The hand-off of the record, and its end.
LEMMA HandOffWhole ==
    ASSUME Integrity, Resumable, NEW p \in Procs, MoveMetadata(p) \/ MarkArchived(p)
    PROVE  \A v \in Vols : Whole(v)'
<1>1. Step(p)
  BY DEF Step, DeleteStep
<1>2. TypeOK /\ IInv /\ ProcOK(p) /\ Knows(p)
  BY <1>1, StepFacts
<1>3. PICK v \in Vols : vol[p] = v
  BY <1>2 DEF ProcOK, CallOK, MoveMetadata, MarkArchived
<1>4. UNCHANGED <<payload, arcPayload>>
  BY DEF MoveMetadata, MarkArchived
<1>5. CASE MoveMetadata(p) /\ ~Exists(meta[v])
  BY <1>3, <1>4, <1>5 DEF MoveMetadata, Whole, Resumable
<1>6. CASE MoveMetadata(p) /\ Exists(meta[v])
  <2>1. meta[v].state = "archiving" /\ payload[v] = NoPayload
    BY <1>2, <1>3, <1>6
       DEF MoveMetadata, ProcOK, FileOK, DeleteOK, Knows, LockedDelete
  <2>2. PICK i0 \in Incs : meta[v].inc = i0
    BY <1>2, <1>6, RecordFacts
  <2>3. arcPayload[<<v, i0>>] # NoPayload
    BY <2>1, <2>2 DEF Resumable, Whole
  <2> DEFINE a == <<v, i0>>
  <2>4. a \in Archives
    BY DEF Archives
  <2>5. /\ arcMeta' = [arcMeta EXCEPT ![a] = meta[v]]
        /\ meta' = [meta EXCEPT ![v] = NoRec]
    BY <1>3, <1>6, <2>2 DEF MoveMetadata
  <2> HIDE DEF a
  <2>6. /\ meta'[v] = NoRec /\ \A w \in Vols \ {v} : meta'[w] = meta[w]
        /\ \A b \in Archives \ {a} : arcMeta'[b] = arcMeta[b]
    BY <1>2, <2>4, <2>5 DEF TypeOK, DurableTyped
  <2>7. \A w \in Vols, i \in Incs : w # v \/ i # i0 =>
            arcMeta'[<<w, i>>] = arcMeta[<<w, i>>]
    BY <2>6 DEF a, Archives
  <2>8. \A i \in Incs : arcMeta'[<<v, i>>].state = "archiving" =>
                          arcPayload[<<v, i>>] # NoPayload
    <3>1. \A i \in Incs \ {i0} : arcMeta'[<<v, i>>] = arcMeta[<<v, i>>]
      BY <2>7
    <3>2. Whole(v)
      BY DEF Resumable
    <3> QED
      BY <2>3, <3>1, <3>2 DEF Whole
  <2>9. Whole(v)'
    BY <1>4, <2>6, <2>8 DEF Whole, NoRec, Rec
  <2> QED
    BY <1>2, <1>4, <2>6, <2>7, <2>9, ArchivingInc, WholeStep
<1>7. CASE MarkArchived(p)
  <2>1. PICK i0 \in Incs : found[p].inc = i0
    BY <1>2, <1>7 DEF MarkArchived, ProcOK, FileOK, DeleteOK
  <2> DEFINE a == <<v, i0>>
  <2>2. a \in Archives
    BY DEF Archives
  <2>3. UNCHANGED meta /\ arcMeta' = [arcMeta EXCEPT ![a].state = "archived"]
    BY <1>3, <1>7, <2>1 DEF MarkArchived
  <2> HIDE DEF a
  <2>4. arcMeta'[a].state = "archived" /\ \A b \in Archives \ {a} : arcMeta'[b] = arcMeta[b]
    BY <1>2, <2>2, <2>3
       DEF TypeOK, DurableTyped, Archived, Kind, NoRec, Rec
  <2>5. \A w \in Vols, i \in Incs : \/ arcMeta'[<<w, i>>] = arcMeta[<<w, i>>]
                                    \/ arcMeta'[<<w, i>>].state = "archived"
    BY <2>4 DEF a, Archives
  <2> QED
    BY <1>4, <2>3, <2>5 DEF Whole, Resumable
<1> QED
  BY <1>5, <1>6, <1>7

\* A purge works on a generation that no metadata names and whose hand-off
\* has ended.
LEMMA PurgeWhole ==
    ASSUME Integrity, Resumable, NEW p \in Procs, ~Fail(p), ReclaimStep(p)
    PROVE  \A v \in Vols : Whole(v)'
<1>1. TypeOK /\ IInv /\ pc[p] \in ReclaimLabels
  BY DEF Integrity, Alone, IInv, ReclaimStep, ReclaimMark, ReclaimPayload,
         ReclaimRow, ReclaimUnlink, ReclaimLabels
<1>2. PICK v \in Vols, i0 \in Incs : vol[p] = v /\ found[p].inc = i0
  BY <1>1, ReclaimingFacts
<1> DEFINE a == <<v, i0>>
<1>3. Target(p) = a /\ a \in Archives /\ Past(v, i0)
  BY <1>1, <1>2, ReclaimingFacts
<1> HIDE DEF a
<1>4. /\ UNCHANGED <<meta, payload>>
      /\ \A b \in Archives \ {a} : arcMeta'[b] = arcMeta[b] /\ arcPayload'[b] = arcPayload[b]
      /\ arcMeta'[a].state # "archiving"
  <2>1. arcMeta[a].state # "archiving"
    BY <1>3 DEF Past, a
  <2>2. CASE ReclaimMark(p)
    BY <1>1, <1>3, <2>1, <2>2 DEF ReclaimMark, Rec, TypeOK, DurableTyped
  <2>3. CASE ReclaimPayload(p)
    BY <1>1, <1>3, <2>1, <2>3 DEF ReclaimPayload, TypeOK, DurableTyped
  <2>4. CASE ReclaimRow(p)
    BY <2>1, <2>4 DEF ReclaimRow, files
  <2>5. CASE ReclaimUnlink(p)
    BY <1>1, <1>3, <2>1, <2>5 DEF ReclaimUnlink, NoRec, Rec, TypeOK, DurableTyped
  <2> QED
    BY <2>2, <2>3, <2>4, <2>5 DEF ReclaimStep
<1>5. \A w \in Vols, i \in Incs : w # v \/ i # i0 =>
          /\ arcMeta'[<<w, i>>] = arcMeta[<<w, i>>]
          /\ arcPayload'[<<w, i>>] = arcPayload[<<w, i>>]
  BY <1>4 DEF a, Archives
<1>6. meta[v].state = "archiving" => meta[v].inc \in Incs /\ meta[v].inc # i0
  BY <1>1, <1>3, ArchivingInc DEF Past, Exists
<1>7. Whole(v)'
  BY <1>4, <1>5, <1>6 DEF Whole, Resumable, a
<1> QED
  BY <1>1, <1>4, <1>5, <1>7, ArchivingInc, WholeStep

LEMMA StillWhole ==
    ASSUME Resumable, UNCHANGED <<meta, payload, arcMeta, arcPayload>>
    PROVE  \A v \in Vols : Whole(v)'
BY DEF Resumable, Whole

LEMMA StepWhole ==
    ASSUME OnePolicy, Integrity, Resumable, NEW p \in Procs, Step(p)
    PROVE  \A v \in Vols : Whole(v)'
<1>1. CASE Fail(p)
  BY <1>1, StillWhole DEF Fail, files
<1>2. CASE ~Fail(p)
  <2>1. CASE Arrive(p)
    BY <2>1, <1>2, StillWhole
       DEF Arrive, TakeIdentity, LookMetadata, LookIntent, ReadEvidence,
           TakeVolumeLock, Relook, files
  <2>2. CASE CreateStep(p)
    <3>1. CASE MakePayload(p) \/ SetQuota(p)
      BY <1>2, <3>1, PayloadStepWhole
    <3>2. CASE SaveMetadata(p)
      BY <1>2, <3>2, MetadataStepWhole
    <3>3. CASE ~(MakePayload(p) \/ SetQuota(p) \/ SaveMetadata(p))
      BY <1>2, <2>2, <3>3, StillWhole
         DEF CreateStep, CreateBody, FinishCommitted, Reconcile, Admit, AdmitCommit,
             EnterCreation, DropIntent, RecordSize, files
    <3> QED
      BY <3>1, <3>2, <3>3
  <2>3. CASE DeleteStep(p)
    <3>1. CASE CancelPayload(p) \/ DestroyPayload(p)
      BY <1>2, <3>1, PayloadStepWhole
    <3>2. CASE FoldExpansion(p) \/ MarkDeleting(p) \/ UnlinkMetadata(p) \/ PrepareArchive(p)
      BY <1>2, <3>2, MetadataStepWhole
    <3>3. CASE DeleteBody(p) \/ CancelIntent(p) \/ CancelCommit(p) \/ DropExpansion(p)
               \/ DropLeftover(p) \/ ReleaseRow(p) \/ MoveRow(p)
      BY <1>2, <3>3, StillWhole
         DEF DeleteBody, CancelIntent, CancelCommit, DropExpansion, DropLeftover,
             ReleaseRow, MoveRow, files
    <3> QED
      BY <1>2, <2>3, <3>1, <3>2, <3>3, MoveWhole, HandOffWhole DEF DeleteStep
  <2>4. CASE ExpandStep(p)
    <3>1. CASE Requota(p) \/ GrowQuota(p)
      BY <1>2, <3>1, PayloadStepWhole
    <3>2. CASE GrowMetadata(p)
      BY <1>2, <3>2, MetadataStepWhole
    <3>3. CASE ExpandBody(p) \/ Reserve(p) \/ ReserveCommit(p) \/ FinishExpansion(p)
      BY <1>2, <3>3, StillWhole
         DEF ExpandBody, Reserve, ReserveCommit, FinishExpansion, files
    <3> QED
      BY <2>4, <3>1, <3>2, <3>3 DEF ExpandStep
  <2> QED
    BY <1>2, <2>1, <2>2, <2>3, <2>4, PurgeWhole DEF Step
<1> QED
  BY <1>1, <1>2

LEMMA NextResumable == OnePolicy /\ Integrity /\ Resumable /\ [Next]_vars => Resumable'
<1> SUFFICES ASSUME OnePolicy, Integrity, Resumable, [Next]_vars PROVE Resumable'
  OBVIOUS
<1>1. TypeOK
  BY DEF Integrity, Alone, IInv
<1>2. CASE \E p \in Procs : Step(p)
  BY <1>2, StepWhole, StepPoliced DEF Resumable
<1>3. ASSUME NEW p \in Procs, Start(p) PROVE Resumable'
  <2>1. /\ UNCHANGED <<meta, payload, arcMeta, arcPayload, policy>>
        /\ pc'[p] \notin Steered /\ \A q \in Procs \ {p} : pc'[q] = pc[q]
    BY <1>1, <1>3
       DEF Start, StartCreate, StartDelete, StartExpand, StartReclaim, Begin, Goto,
           files, Steered, TypeOK, LocalsTyped
  <2> QED
    BY <2>1, StillWhole DEF Resumable, Policed, Steered
<1>4. ASSUME NEW p \in Procs, Abandon(p) PROVE Resumable'
  <2>1. /\ UNCHANGED <<meta, payload, arcMeta, arcPayload, policy>>
        /\ pc'[p] = "idle" /\ \A q \in Procs \ {p} : pc'[q] = pc[q]
    <3>1. Leave(p) /\ UNCHANGED <<meta, payload, arcMeta, arcPayload, policy>>
      BY <1>4 DEF Abandon, Fail, files
    <3>2. Frame(p) /\ pc'[p] = "idle"
      BY <1>1, <3>1, LeaveFacts DEF TypeOK
    <3> QED
      BY <3>1, <3>2 DEF Frame, Same
  <2> QED
    BY <2>1, StillWhole DEF Resumable, Policed
<1>5. CASE ChangePolicy
  <2>1. UNCHANGED <<meta, payload, arcMeta, arcPayload>> /\ \A q \in Procs : pc'[q] = "idle"
    BY <1>5 DEF ChangePolicy, files
  <2> QED
    BY <2>1, StillWhole DEF Resumable, Policed
<1>6. CASE UNCHANGED vars
  BY <1>6, StillWhole DEF Resumable, Policed, vars, files
<1> QED
  BY <1>2, <1>3, <1>4, <1>5, <1>6 DEF Next

\* Whatever dies between the two renames and the database update of an
\* archive, the next delete finds the payload at exactly one of the places
\* _rename_for_archive looks at, provided the pool is never given both the
\* policy that archives and the one that destroys.
THEOREM ArchivesAreResumable ==
    ASSUME OrderlyCaller, OnePolicy PROVE Spec => []ArchiveResumable
<1>1. Init => Resumable
  BY DEF Init, Resumable, Whole, Policed, NoRec, Rec, Archives
<1>2. Integrity /\ Purging /\ Resumable /\ [Next]_vars => Resumable'
  BY NextResumable
<1>3. Integrity /\ Resumable => ArchiveResumable
  <2> SUFFICES ASSUME Integrity, Resumable, NEW v \in Vols,
                      MetadataOf(v).state \in {"archiving", "handoff"}
               PROVE  (payload[v] = NoPayload) #
                          (arcPayload[<<v, MetadataOf(v).inc>>] = NoPayload)
    BY DEF ArchiveResumable
  <2>1. TypeOK /\ Sound(v) /\ Whole(v)
    BY DEF Integrity, Alone, IInv, Resumable
  <2>2. CASE Exists(meta[v])
    <3>1. MetadataOf(v) = meta[v] /\ meta[v] \in Metadata
      BY <2>1, <2>2, MetadataOfFacts, RecordFacts
    <3>2. meta[v].state # "handoff"
      BY <3>1 DEF Metadata, Kind, NoRec, Rec
    <3> QED
      BY <2>1, <3>1, <3>2 DEF Whole
  <2>3. CASE ~Exists(meta[v])
    <3>1. Arriving(v)
      BY <2>1, <2>3, MetadataOfFacts DEF HasMetadata, Exists
    <3>2. arcMeta[<<v, MetadataOf(v).inc>>].state = "archiving" /\ MetadataOf(v).inc \in Incs
      BY <2>1, <2>3, <3>1, MetadataOfFacts
    <3>3. arcPayload[<<v, MetadataOf(v).inc>>] # NoPayload
      BY <2>1, <3>2 DEF Whole
    <3>4. payload[v] = NoPayload
      BY <2>1, <3>1 DEF Sound, PayloadOK
    <3> QED
      BY <3>3, <3>4
  <2> QED
    BY <2>2, <2>3
<1> QED
  BY <1>1, <1>2, <1>3, IntegrityHolds, PTL DEF Spec
=============================================================================
