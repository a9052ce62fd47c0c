------------------------ MODULE VolumeLifecycleProofs ------------------------
(***************************************************************************)
(* Proofs about VolumeLifecycle, for any number of controller processes,   *)
(* volumes, sizes and generations, every reclaim policy, and callers of    *)
(* any kind unless a theorem says otherwise: types, the inductive          *)
(* invariant, which locks are held, and, from these, that no payload is    *)
(* lost without authority and one call at a time works on a volume.        *)
(***************************************************************************)
EXTENDS VolumeLifecycle, TLAPS

-----------------------------------------------------------------------------
(***************************************************************************)
(* The inductive invariant.                                                *)
(***************************************************************************)

\* The labels of each call; the labels of the way in belong to three calls.
ArriveLabels  == {"look", "lookIntent", "evidence", "lock", "relook", "body"}
CreateLabels  == {"ident", "finish", "reconcile", "admit", "admitCommit",
                  "enter", "makePayload", "setQuota", "saveMetadata",
                  "dropIntent", "record"}
DeleteLabels  == {"cancel", "cancelIntent", "cancelCommit", "fold",
                  "dropExpansion", "dropLeftover", "markDeleting", "destroy",
                  "release", "unlink", "prepareArchive", "movePayload",
                  "moveRow", "moveMetadata", "archived"}
ReclaimLabels == {"reclaimMark", "reclaimPayload", "reclaimRow", "reclaimUnlink"}

\* Which call runs at which label, and with which arguments.
CallOK(p) ==
    /\ pc[p] = "idle" => call[p] = "none"
    /\ pc[p] # "idle" => vol[p] \in Vols
    /\ pc[p] \in ArriveLabels => call[p] \in {"create", "delete", "expand"}
    /\ pc[p] \in CreateLabels => call[p] = "create"
    /\ pc[p] \in DeleteLabels => call[p] = "delete"
    /\ pc[p] \in Expanding => call[p] = "expand"
    /\ pc[p] \in ReclaimLabels => call[p] = "reclaim"
    /\ call[p] \in {"create", "expand"} => req[p] \in Sizes

\* The locks which a call holds: the identity of the name throughout a
\* create, the volume's lifecycle lock wherever its files are changed.
LockOK(p) ==
    /\ call[p] = "create" /\ pc[p] # "ident" => ident[vol[p]] = p
    /\ pc[p] \in UnderLock => vlock[vol[p]] = p
    /\ pc[p] = "body" /\ call[p] = "delete" => vlock[vol[p]] = p

\* Metadata of the volume can be found: its own, or that of an archive whose
\* hand-off is unfinished.
Arriving(v)    == \E i \in Incs : arcMeta[<<v, i>>].state = "archiving"
HasMetadata(v) == Exists(meta[v]) \/ Arriving(v)

\* What a create knows of the files of its volume.
CreateOK(p) ==
    LET v == vol[p]
    IN  /\ pc[p] \in {"finish", "reconcile"} => found[p].state = "live"
        /\ pc[p] = "admit" => ~HasMetadata(v) /\ ~Exists(intent[v])
        /\ pc[p] = "makePayload" => Exists(meta[v]) \/ Exists(intent[v])
        /\ pc[p] \in {"setQuota", "saveMetadata"} => Exists(intent[v])
        /\ pc[p] = "setQuota" => payload[v] # NoPayload
        /\ pc[p] \in {"dropIntent", "record"} => Exists(meta[v])

\* What a delete knows of them.
DeleteOK(p) ==
    LET v == vol[p]
    IN  /\ pc[p] = "body" /\ call[p] = "delete" /\ found[p].state # "creating"
               => HasMetadata(v)
        /\ pc[p] = "cancel" => found[p].state = "creating"
        /\ pc[p] \in {"fold", "dropExpansion", "dropLeftover",
                      "markDeleting", "prepareArchive"} => HasMetadata(v)
        /\ pc[p] \in {"markDeleting", "destroy", "release", "unlink",
                      "prepareArchive", "movePayload", "moveRow",
                      "moveMetadata"} => ~Exists(intent[v])
        /\ pc[p] \in {"destroy", "release", "unlink"}
               => meta[v].state = "deleting"
        /\ pc[p] \in {"movePayload", "moveRow", "moveMetadata"}
               => meta[v].state = "archiving" \/ (~Exists(meta[v]) /\ Arriving(v))
        /\ pc[p] = "archived"
               => /\ found[p].inc \in Incs
                  /\ arcMeta[<<v, found[p].inc>>].state = "archiving"

ExpandOK(p) == pc[p] \in Expanding => found[p].state = "live"

\* The purge works on an archive whose generation has been left behind.
Past(v, i) ==
    /\ i < nextInc[v]
    /\ Exists(meta[v]) => meta[v].inc # i
    /\ Exists(intent[v]) => intent[v].inc # i
    /\ arcMeta[<<v, i>>].state # "archiving"

ReclaimOK(p) ==
    pc[p] \in ReclaimLabels =>
        /\ found[p].state \in {"archived", "reclaiming"}
        /\ Past(vol[p], found[p].inc)

FileOK(p) == CreateOK(p) /\ DeleteOK(p) /\ ExpandOK(p) /\ ReclaimOK(p)
ProcOK(p) == CallOK(p) /\ LockOK(p) /\ FileOK(p)

\* A generation is never used twice, and is either active or archived.
GenerationOK(v) ==
    /\ \A i \in Incs : Exists(arcMeta[<<v, i>>]) =>
           arcMeta[<<v, i>>].inc = i /\ i < nextInc[v]
    /\ Exists(meta[v]) =>
           meta[v].inc < nextInc[v] /\ ~Exists(arcMeta[<<v, meta[v].inc>>])
    /\ Exists(intent[v]) =>
           intent[v].inc < nextInc[v] /\ ~Exists(arcMeta[<<v, intent[v].inc>>])

IInv == /\ TypeOK
        /\ \A v \in Vols : GenerationOK(v)
        /\ \A p \in Procs : ProcOK(p)

-----------------------------------------------------------------------------
(***************************************************************************)
(* What the operators of the model return.                                 *)
(***************************************************************************)

\* A metadata lookup returns the active metadata, else the archive whose
\* hand-off is unfinished, else nothing.
LEMMA MetadataOfFacts ==
    ASSUME TypeOK, NEW v \in Vols
    PROVE  /\ Exists(meta[v]) => MetadataOf(v) = meta[v]
           /\ ~HasMetadata(v) => MetadataOf(v) = NoRec
           /\ ~Exists(meta[v]) /\ Arriving(v) =>
                  /\ MetadataOf(v).state = "handoff"
                  /\ MetadataOf(v).size \in Sizes
                  /\ MetadataOf(v).inc \in Incs
                  /\ arcMeta[<<v, MetadataOf(v).inc>>].state = "archiving"
           /\ MetadataOf(v) \in Metadata \cup Kind({"handoff"})
           /\ Exists(MetadataOf(v)) <=> HasMetadata(v)
<1> DEFINE arcs == {i \in Incs : arcMeta[<<v, i>>].state = "archiving"}
           i0   == CHOOSE i \in arcs : TRUE
<1>0. /\ meta[v] \in Metadata
      /\ \A i \in Incs : <<v, i>> \in Archives /\ arcMeta[<<v, i>>] \in Archived
  BY DEF TypeOK, DurableTyped, Archives
<1>1. CASE Exists(meta[v])
  <2>1. MetadataOf(v) = meta[v]
    BY <1>1 DEF MetadataOf
  <2> QED
    BY <1>0, <1>1, <2>1 DEF HasMetadata
<1>2. CASE ~Exists(meta[v]) /\ arcs # {}
  <2>1. i0 \in Incs /\ arcMeta[<<v, i0>>].state = "archiving"
    BY <1>2
  <2>2. MetadataOf(v) = Rec("handoff", arcMeta[<<v, i0>>].size, i0)
    BY <1>2 DEF MetadataOf
  <2> HIDE DEF i0, arcs
  <2>3. arcMeta[<<v, i0>>].size \in Sizes
    BY <1>0, <2>1 DEF Archived, Kind, NoRec, Rec
  <2>4. Rec("handoff", arcMeta[<<v, i0>>].size, i0) \in Kind({"handoff"})
    BY <2>1, <2>3 DEF Kind, Rec
  <2> QED
    BY <1>2, <2>1, <2>2, <2>3, <2>4 DEF Rec, Exists, HasMetadata, Arriving
<1>3. CASE ~Exists(meta[v]) /\ arcs = {}
  <2>1. MetadataOf(v) = NoRec
    BY <1>3 DEF MetadataOf
  <2>2. ~HasMetadata(v)
    BY <1>3 DEF HasMetadata, Arriving
  <2> QED
    BY <1>3, <2>1, <2>2 DEF HasMetadata, Exists, NoRec, Rec, Kind
<1> QED
  BY <1>1, <1>2, <1>3

\* A lookup returns metadata, else the create intent, else nothing.
LEMMA LookupFacts ==
    ASSUME TypeOK, NEW v \in Vols
    PROVE  /\ HasMetadata(v) => Lookup(v) = MetadataOf(v)
           /\ ~HasMetadata(v) => Lookup(v) = intent[v]
           /\ Lookup(v) \in Answers
           /\ Lookup(v).state = "creating" => ~HasMetadata(v) /\ Exists(intent[v])
           /\ Lookup(v).state \in {"live", "archiving", "deleting"} => Lookup(v) = meta[v]
           /\ Exists(Lookup(v)) <=> HasMetadata(v) \/ Exists(intent[v])
<1>1. intent[v] \in Intents /\ meta[v] \in Metadata
  BY DEF TypeOK, DurableTyped
<1>2. CASE HasMetadata(v)
  <2>1. Lookup(v) = MetadataOf(v) /\ Exists(MetadataOf(v))
    BY <1>2, MetadataOfFacts DEF Lookup
  <2>2. Lookup(v) \in Metadata \cup Kind({"handoff"})
    BY <2>1, MetadataOfFacts
  <2>3. Lookup(v).state = "handoff" \/ Lookup(v) = meta[v]
    BY <1>2, <2>1, MetadataOfFacts DEF HasMetadata
  <2> QED
    BY <1>1, <1>2, <2>1, <2>2, <2>3
       DEF Answers, Metadata, Kind, NoRec, Rec, Exists
<1>3. CASE ~HasMetadata(v)
  <2>1. Lookup(v) = intent[v]
    BY <1>3, MetadataOfFacts DEF Lookup
  <2> QED
    BY <1>1, <1>3, <2>1 DEF Answers, Intents, Kind, NoRec, Rec, Exists, HasMetadata
<1> QED
  BY <1>2, <1>3

\* What the pool owes an identity is a size.
LEMMA OwedType ==
    ASSUME TypeOK, NEW id \in Ids
    PROVE  CommittedSize(id) \in SizesOrZero /\ Owed(id) \in SizesOrZero
<1>1. CommittedSize(id) \in SizesOrZero
  <2>1. CASE id \in Vols
    <3>1. meta[id].size \in SizesOrZero
      BY <2>1 DEF TypeOK, DurableTyped, Metadata, Kind, NoRec, Rec, SizesOrZero
    <3> QED
      BY <2>1, <3>1 DEF CommittedSize, SizesOrZero
  <2>2. CASE id \notin Vols
    <3>1. id \in Archives /\ id[1] \in Vols
      BY <2>2 DEF Ids, Archives
    <3>2. meta[id[1]].size \in SizesOrZero /\ arcMeta[id].size \in SizesOrZero
      BY <3>1 DEF TypeOK, DurableTyped, Metadata, Archived, Kind, NoRec, Rec, SizesOrZero
    <3> QED
      BY <2>2, <3>2 DEF CommittedSize, SizesOrZero
  <2> QED
    BY <2>1, <2>2
<1>2. Owed(id) \in SizesOrZero
  <2>1. CASE id \in Vols
    <3>1. xint[id] \in Spans /\ intent[id] \in Intents
      BY <2>1 DEF TypeOK, DurableTyped
    <3>2. xint[id] # NoSpan => xint[id].to \in SizesOrZero
      BY <3>1 DEF Spans, SizesOrZero
    <3>3. intent[id].size \in SizesOrZero
      BY <3>1 DEF Intents, Kind, NoRec, Rec, SizesOrZero
    <3> QED
      BY <1>1, <3>2, <3>3 DEF Owed
  <2> QED
    BY <1>1, <2>1 DEF Owed
<1> QED
  BY <1>1, <1>2

\* The rebuilt table holds sizes.
LEMMA RebuiltType ==
    ASSUME TypeOK
    PROVE  Rebuilt \in [Ids -> SizesOrZero]
<1>1. ASSUME NEW id \in Ids PROVE Reservation(id) \in SizesOrZero
  BY OwedType DEF Reservation
<1>2. \A id \in Ids : db[id] \in SizesOrZero
  BY DEF TypeOK, DurableTyped
<1> HIDE DEF SizesOrZero
<1>3. 0 \in SizesOrZero
  BY DEF SizesOrZero
<1> QED
  BY <1>1, <1>2, <1>3 DEF Rebuilt

-----------------------------------------------------------------------------
(***************************************************************************)
(* Frames: what a step of one process leaves to the others.                *)
(***************************************************************************)

\* Another process keeps its place, its locals and its locks.
Same(q) ==
    /\ pc'[q] = pc[q] /\ call'[q] = call[q] /\ vol'[q] = vol[q]
    /\ req'[q] = req[q] /\ found'[q] = found[q]
    /\ \A v \in Vols : /\ ident[v] = q => ident'[v] = q
                       /\ vlock[v] = q => vlock'[v] = q

Frame(p) == \A q \in Procs \ {p} : Same(q)

\* The process itself goes on with its call, or leaves.
GoesOn(p) == call'[p] = "none" \/ (call'[p] = call[p] /\ vol'[p] = vol[p])

\* The files of a volume that the clauses of FileOK speak of.
FilesKept(v) ==
    /\ intent'[v] = intent[v] /\ meta'[v] = meta[v] /\ payload'[v] = payload[v]
    /\ \A i \in Incs : arcMeta'[<<v, i>>] = arcMeta[<<v, i>>]
    /\ nextInc'[v] = nextInc[v]

\* The clauses of a process hold on if its place and its files are kept.
LEMMA KeptProcess ==
    ASSUME TypeOK, NEW q \in Procs, ProcOK(q), Same(q),
           vol[q] \in Vols => FilesKept(vol[q])
    PROVE  ProcOK(q)'
<1>1. CASE pc[q] = "idle"
  BY <1>1 DEF ProcOK, FileOK, CallOK, LockOK, CreateOK, DeleteOK, ExpandOK,
              ReclaimOK, Same, ArriveLabels, CreateLabels, DeleteLabels,
              ReclaimLabels, UnderLock, Expanding
<1>2. CASE pc[q] # "idle"
  <2>1. vol[q] \in Vols /\ FilesKept(vol[q])
    BY <1>2 DEF ProcOK, CallOK
  <2>2. CallOK(q)' /\ LockOK(q)' /\ ExpandOK(q)'
    BY <2>1 DEF ProcOK, FileOK, CallOK, LockOK, ExpandOK, Same
  <2>3. HasMetadata(vol[q])' <=> HasMetadata(vol[q])
    BY <2>1 DEF HasMetadata, Arriving, FilesKept, Same, Exists
  <2>4. CreateOK(q)'
    BY <2>1, <2>3 DEF ProcOK, FileOK, CreateOK, Same, FilesKept, Exists
  <2>5. Arriving(vol[q])' <=> Arriving(vol[q])
    BY <2>1 DEF Arriving, FilesKept, Same
  <2>6. DeleteOK(q)'
    BY <2>1, <2>3, <2>5 DEF ProcOK, FileOK, DeleteOK, Same, FilesKept, Exists
  <2>7. found[q].state \in {"archived", "reclaiming"} => found[q].inc \in Incs
    BY DEF TypeOK, LocalsTyped, Answers, Intents, Metadata, Archived, Kind, NoRec, Rec
  <2>8. ReclaimOK(q)'
    BY <2>1, <2>7 DEF ProcOK, FileOK, ReclaimOK, Past, Same, FilesKept, Exists
  <2> QED
    BY <2>2, <2>4, <2>6, <2>8 DEF ProcOK, FileOK
<1> QED
  BY <1>1, <1>2

\* A process that has left satisfies its clauses.
LEMMA IdleProcess ==
    ASSUME NEW p \in Procs, pc'[p] = "idle", call'[p] = "none"
    PROVE  ProcOK(p)'
BY DEF ProcOK, FileOK, CallOK, LockOK, CreateOK, DeleteOK, ExpandOK,
       ReclaimOK, ArriveLabels, CreateLabels, DeleteLabels, ReclaimLabels,
       UnderLock, Expanding

LEMMA KeptGenerations ==
    ASSUME TypeOK, NEW v \in Vols, GenerationOK(v), FilesKept(v)
    PROVE  GenerationOK(v)'
<1>1. /\ Exists(meta[v]) => meta[v].inc \in Incs
      /\ Exists(intent[v]) => intent[v].inc \in Incs
  BY DEF TypeOK, DurableTyped, Metadata, Intents, Kind, NoRec, Rec, Exists
<1> QED
  BY <1>1 DEF GenerationOK, FilesKept, Exists

\* A step that leaves the files alone has to account for itself only.
LEMMA KeptStep ==
    ASSUME IInv, NEW p \in Procs, Frame(p), TypeOK', ProcOK(p)',
           UNCHANGED <<intent, meta, payload, arcMeta, nextInc>>
    PROVE  IInv'
<1>1. \A v \in Vols : FilesKept(v)
  BY DEF FilesKept
<1>2. \A v \in Vols : GenerationOK(v)'
  BY <1>1, KeptGenerations DEF IInv
<1>3. \A q \in Procs \ {p} : ProcOK(q)'
  BY <1>1, KeptProcess DEF IInv, Frame
<1> QED
  BY <1>2, <1>3 DEF IInv

LEMMA QuietStep ==
    ASSUME IInv, NEW p \in Procs, Frame(p), TypeOK', ProcOK(p)',
           UNCHANGED <<files, nextInc>>
    PROVE  IInv'
BY KeptStep DEF files

\* A step that changes the files of its volume has to account for the other
\* calls on that volume as well.
LEMMA FileStep ==
    ASSUME IInv, NEW p \in Procs, Frame(p), NEW v \in Vols,
           \A w \in Vols \ {v} : FilesKept(w),
           TypeOK', GenerationOK(v)', ProcOK(p)',
           \A q \in Procs \ {p} : vol[q] = v /\ pc[q] # "idle" => FileOK(q)'
    PROVE  IInv'
<1>1. \A w \in Vols : GenerationOK(w)'
  BY KeptGenerations DEF IInv
<1>2. ASSUME NEW q \in Procs \ {p} PROVE ProcOK(q)'
  <2>1. Same(q) /\ ProcOK(q)
    BY <1>2 DEF Frame, IInv
  <2>2. CASE vol[q] # v
    BY <1>2, <2>1, <2>2, KeptProcess DEF IInv
  <2>3. CASE vol[q] = v /\ pc[q] # "idle"
    <3>1. CallOK(q)' /\ LockOK(q)'
      BY <2>1, <2>3 DEF ProcOK, CallOK, LockOK, Same
    <3> QED
      BY <1>2, <2>3, <3>1 DEF ProcOK
  <2>4. CASE pc[q] = "idle"
    BY <1>2, <2>1, <2>4, IdleProcess DEF ProcOK, CallOK, Same
  <2> QED
    BY <2>2, <2>3, <2>4
<1> QED
  BY <1>1, <1>2 DEF IInv

\* Going on to a label, with the same locals and locks.
LEMMA GotoFacts ==
    ASSUME LocalsTyped, NEW p \in Procs, NEW l \in Labels, Goto(p, l)
    PROVE  /\ pc' \in [Procs -> Labels] /\ pc'[p] = l
           /\ \A q \in Procs \ {p} : pc'[q] = pc[q]
BY DEF LocalsTyped, Goto

LEMMA StayFacts ==
    ASSUME LocalsTyped, NEW p \in Procs, NEW l \in Labels, Goto(p, l),
           UNCHANGED <<ident, vlock, locals>>
    PROVE  /\ LocalsTyped' /\ Frame(p) /\ pc'[p] = l
           /\ call'[p] = call[p] /\ vol'[p] = vol[p] /\ req'[p] = req[p]
           /\ found'[p] = found[p]
<1>1. /\ pc' \in [Procs -> Labels] /\ pc'[p] = l
      /\ \A q \in Procs \ {p} : pc'[q] = pc[q]
  BY GotoFacts
<1> QED
  BY <1>1 DEF LocalsTyped, Frame, Same, locals

\* Going on with another answer of search_volume.
LEMMA FoundFacts ==
    ASSUME LocalsTyped, NEW p \in Procs, NEW l \in Labels, NEW r \in Answers,
           Goto(p, l), found' = [found EXCEPT ![p] = r],
           UNCHANGED <<ident, vlock, call, vol, req, seen>>
    PROVE  /\ LocalsTyped' /\ Frame(p) /\ pc'[p] = l
           /\ call'[p] = call[p] /\ vol'[p] = vol[p] /\ req'[p] = req[p]
           /\ found'[p] = r
<1>1. /\ pc' \in [Procs -> Labels] /\ pc'[p] = l
      /\ \A q \in Procs \ {p} : pc'[q] = pc[q]
  BY GotoFacts
<1> QED
  BY <1>1 DEF LocalsTyped, Frame, Same

\* Leaving a call.
LEMMA LeaveFacts ==
    ASSUME LocksTyped, LocalsTyped, NEW p \in Procs, Leave(p)
    PROVE  /\ LocksTyped' /\ LocalsTyped' /\ Frame(p)
           /\ pc'[p] = "idle" /\ call'[p] = "none"
<1>1. /\ pc' \in [Procs -> Labels] /\ pc'[p] = "idle"
      /\ \A q \in Procs \ {p} : pc'[q] = pc[q]
  BY GotoFacts DEF Leave, Labels
<1>2. NoRec \in Answers /\ 0 \in SizesOrZero
  BY DEF Answers, Intents, Kind, SizesOrZero
<1>3. LocalsTyped' /\ call'[p] = "none"
  BY <1>1, <1>2 DEF Leave, LocalsTyped
<1>4. LocksTyped'
  BY <1>2 DEF Leave, LocksTyped, Release
<1>5. Frame(p)
  BY <1>1 DEF Leave, LocalsTyped, LocksTyped, Release, Frame, Same
<1> QED
  BY <1>1, <1>3, <1>4, <1>5

LEMMA LeaveStep ==
    ASSUME IInv, NEW p \in Procs, Leave(p), UNCHANGED <<files, policy, nextInc>>,
           db' \in [Ids -> SizesOrZero], acked' \in [Vols -> Promises]
    PROVE  IInv' /\ Frame(p) /\ GoesOn(p)
<1>1. TypeOK
  BY DEF IInv
<1>2. /\ LocksTyped' /\ LocalsTyped' /\ Frame(p)
      /\ pc'[p] = "idle" /\ call'[p] = "none"
  BY <1>1, LeaveFacts DEF TypeOK
<1>3. TypeOK'
  BY <1>1, <1>2 DEF TypeOK, DurableTyped, files
<1> QED
  BY <1>2, <1>3, IdleProcess, QuietStep DEF GoesOn

LEMMA FailStep ==
    ASSUME IInv, NEW p \in Procs, Fail(p)
    PROVE  IInv' /\ Frame(p) /\ GoesOn(p)
BY LeaveStep DEF Fail, IInv, TypeOK, DurableTyped

\* A promise is about a live volume.
LEMMA PromiseFacts ==
    ASSUME acked \in [Vols -> Promises], NEW p \in Procs, NEW v \in Vols,
           NEW r \in Kind({"live"}), Promise(p, v, r)
    PROVE  acked' \in [Vols -> Promises]
BY DEF Promise, Promises

\* Beginning a call.
LEMMA BeginFacts ==
    ASSUME TypeOK, NEW p \in Procs, NEW c, NEW v \in Vols, NEW s \in SizesOrZero,
           NEW l \in Labels, Begin(p, c, v, s), Goto(p, l),
           found' \in [Procs -> Answers],
           \A q \in Procs \ {p} : found'[q] = found[q]
    PROVE  /\ LocksTyped' /\ LocalsTyped' /\ Frame(p) /\ UNCHANGED <<files, nextInc>>
           /\ pc'[p] = l /\ call'[p] = c /\ vol'[p] = v /\ req'[p] = s
<1>1. /\ pc' \in [Procs -> Labels] /\ pc'[p] = l
      /\ \A q \in Procs \ {p} : pc'[q] = pc[q]
  BY GotoFacts DEF TypeOK
<1>2. LocalsTyped' /\ call'[p] = c /\ vol'[p] = v /\ req'[p] = s
  BY <1>1 DEF Begin, TypeOK, LocalsTyped
<1>3. LocksTyped' /\ UNCHANGED <<files, nextInc>>
  BY DEF Begin, TypeOK, LocksTyped, locks
<1>4. Frame(p)
  BY <1>1 DEF Begin, TypeOK, LocalsTyped, locks, Frame, Same
<1> QED
  BY <1>1, <1>2, <1>3, <1>4

\* At these labels a call relies on none of the files.
LEMMA NoFileClause ==
    ASSUME NEW p \in Procs,
           pc'[p] \in {"ident", "look", "lookIntent", "evidence", "lock",
                      "relook", "enter", "admitCommit", "cancelIntent",
                      "cancelCommit"}
    PROVE  FileOK(p)'
BY DEF FileOK, CreateOK, DeleteOK, ExpandOK, ReclaimOK, ReclaimLabels, Expanding

\* A record of metadata is what its state says.
LEMMA RecordFacts ==
    ASSUME TypeOK, NEW v \in Vols
    PROVE  /\ meta[v] \in Metadata /\ intent[v] \in Intents
           /\ Exists(meta[v]) => meta[v].size \in Sizes /\ meta[v].inc \in Incs
           /\ Exists(intent[v]) => /\ intent[v].state = "creating"
                                   /\ intent[v].size \in Sizes /\ intent[v].inc \in Incs
           /\ \A i \in Incs : /\ <<v, i>> \in Archives
                              /\ arcMeta[<<v, i>>] \in Archived
BY DEF TypeOK, DurableTyped, Metadata, Intents, Kind, NoRec, Rec, Exists, Archives

LEMMA AnswerFacts ==
    ASSUME NEW r \in Answers
    PROVE  /\ Exists(r) => r.size \in Sizes /\ r.inc \in Incs
           /\ r.inc \in 0..MaxGen /\ r.size \in SizesOrZero
           /\ r.state = "live" => r \in Kind({"live"})
BY ConstantsAssumption
   DEF Answers, Intents, Metadata, Archived, Kind, NoRec, Rec, Exists, Incs, SizesOrZero

\* The locks keep other calls away from a volume.
LEMMA RivalFacts ==
    ASSUME IInv, NEW p \in Procs, NEW q \in Procs \ {p}, vol[q] = vol[p]
    PROVE  /\ call[p] = "create" /\ pc[p] # "ident" /\ call[q] = "create"
                  => pc[q] = "ident"
           /\ vlock[vol[p]] = p => /\ pc[q] \notin UnderLock
                                   /\ pc[q] = "body" => call[q] # "delete"
BY DEF IInv, ProcOK, LockOK

\* Other calls on the volume of a process that holds its lifecycle lock.
LEMMA LockedRivals ==
    ASSUME IInv, NEW p \in Procs, Frame(p), NEW v \in Vols, vol[p] = v, vlock[v] = p,
           \A i \in Incs : Past(v, i) => Past(v, i)',
           \/ call[p] = "create" /\ pc[p] # "ident"
           \/ ~HasMetadata(v) /\ ~Exists(intent[v])
                  => ~HasMetadata(v)' /\ ~Exists(intent'[v])
    PROVE  \A q \in Procs \ {p} : vol[q] = v /\ pc[q] # "idle" => FileOK(q)'
<1> SUFFICES ASSUME NEW q \in Procs \ {p}, vol[q] = v, pc[q] # "idle"
             PROVE  FileOK(q)'
  OBVIOUS
<1>1. Same(q) /\ ProcOK(q)
  BY DEF Frame, IInv
<1>2. /\ pc[q] \notin UnderLock
      /\ pc[q] = "body" => call[q] # "delete"
      /\ call[p] = "create" /\ pc[p] # "ident" /\ call[q] = "create" => pc[q] = "ident"
  <2>1. vol[q] = vol[p] /\ vlock[vol[p]] = p
    OBVIOUS
  <2> QED
    BY <2>1, RivalFacts
<1>3. CreateOK(q)'
  BY <1>1, <1>2 DEF ProcOK, FileOK, CallOK, CreateOK, Same, UnderLock, CreateLabels
<1>4. DeleteOK(q)'
  BY <1>1, <1>2 DEF DeleteOK, Same, UnderLock
<1>5. ExpandOK(q)'
  BY <1>1 DEF ProcOK, FileOK, ExpandOK, Same
<1>6. found[q].state \in {"archived", "reclaiming"} => found[q].inc \in Incs
  BY AnswerFacts DEF IInv, TypeOK, LocalsTyped, Exists
<1>7. ReclaimOK(q)'
  BY <1>1, <1>6 DEF ProcOK, FileOK, ReclaimOK, Same
<1> QED
  BY <1>3, <1>4, <1>5, <1>7 DEF FileOK

\* Other calls on the volume of a create that holds the identity only.
LEMMA CreateRivals ==
    ASSUME IInv, NEW p \in Procs, Frame(p), NEW v \in Vols, vol[p] = v,
           call[p] = "create", pc[p] # "ident",
           UNCHANGED <<meta, arcMeta>>,
           \A i \in Incs : Past(v, i) => Past(v, i)',
           HasMetadata(v) /\ ~Exists(intent[v]) => ~Exists(intent'[v])
    PROVE  \A q \in Procs \ {p} : vol[q] = v /\ pc[q] # "idle" => FileOK(q)'
<1> SUFFICES ASSUME NEW q \in Procs \ {p}, vol[q] = v, pc[q] # "idle"
             PROVE  FileOK(q)'
  OBVIOUS
<1>1. Same(q) /\ ProcOK(q)
  BY DEF Frame, IInv
<1>2. call[q] = "create" => pc[q] = "ident"
  BY RivalFacts
<1>3. CreateOK(q)'
  BY <1>1, <1>2 DEF ProcOK, CallOK, CreateOK, Same, CreateLabels
<1>4. (HasMetadata(v)' <=> HasMetadata(v)) /\ (Arriving(v)' <=> Arriving(v))
  BY DEF HasMetadata, Arriving
<1>5. meta[v].state \in {"deleting", "archiving"} => Exists(meta[v])
  BY DEF Exists
<1>6. DeleteOK(q)'
  BY <1>1, <1>4, <1>5 DEF ProcOK, FileOK, DeleteOK, Same, HasMetadata
<1>7. ExpandOK(q)'
  BY <1>1 DEF ProcOK, FileOK, ExpandOK, Same
<1>8. found[q].state \in {"archived", "reclaiming"} => found[q].inc \in Incs
  BY AnswerFacts DEF IInv, TypeOK, LocalsTyped, Exists
<1>9. ReclaimOK(q)'
  BY <1>1, <1>8 DEF ProcOK, FileOK, ReclaimOK, Same
<1> QED
  BY <1>3, <1>6, <1>7, <1>9 DEF FileOK

\* Other calls on the volume of an expansion, which may not hold its lock.
LEMMA ExpandRivals ==
    ASSUME IInv, NEW p \in Procs, Frame(p), NEW v \in Vols,
           UNCHANGED <<intent, arcMeta, nextInc>>,
           meta'[v].state = meta[v].state, meta'[v].inc = meta[v].inc,
           payload[v] # NoPayload => payload'[v] # NoPayload
    PROVE  \A q \in Procs \ {p} : vol[q] = v /\ pc[q] # "idle" => FileOK(q)'
<1> SUFFICES ASSUME NEW q \in Procs \ {p}, vol[q] = v, pc[q] # "idle"
             PROVE  FileOK(q)'
  OBVIOUS
<1>1. Same(q) /\ ProcOK(q)
  BY DEF Frame, IInv
<1>2. /\ (Exists(meta'[v]) <=> Exists(meta[v])) /\ (Arriving(v)' <=> Arriving(v))
      /\ HasMetadata(v)' <=> HasMetadata(v)
  BY DEF HasMetadata, Arriving, Exists
<1>3. CreateOK(q)'
  BY <1>1, <1>2 DEF ProcOK, FileOK, CreateOK, Same, Exists
<1>4. DeleteOK(q)'
  BY <1>1, <1>2 DEF ProcOK, FileOK, DeleteOK, Same, Exists
<1>5. ExpandOK(q)' /\ ReclaimOK(q)'
  BY <1>1, <1>2 DEF ProcOK, FileOK, ExpandOK, ReclaimOK, Past, Same, Exists
<1> QED
  BY <1>3, <1>4, <1>5 DEF FileOK

\* Other calls on the volume of the purge, which takes no lifecycle lock.
LEMMA ReclaimRivals ==
    ASSUME IInv, NEW p \in Procs, Frame(p), NEW v \in Vols, NEW i0 \in Incs,
           UNCHANGED <<intent, meta, payload, nextInc>>,
           arcMeta[<<v, i0>>].state # "archiving",
           arcMeta'[<<v, i0>>].state # "archiving",
           \A i \in Incs \ {i0} : arcMeta'[<<v, i>>] = arcMeta[<<v, i>>]
    PROVE  \A q \in Procs \ {p} : vol[q] = v /\ pc[q] # "idle" => FileOK(q)'
<1> SUFFICES ASSUME NEW q \in Procs \ {p}, vol[q] = v, pc[q] # "idle"
             PROVE  FileOK(q)'
  OBVIOUS
<1>1. Same(q) /\ ProcOK(q)
  BY DEF Frame, IInv
<1>2. (Arriving(v)' <=> Arriving(v)) /\ (HasMetadata(v)' <=> HasMetadata(v))
  BY DEF HasMetadata, Arriving
<1>3. CreateOK(q)'
  BY <1>1, <1>2 DEF ProcOK, FileOK, CreateOK, Same, Exists
<1>4. DeleteOK(q)'
  BY <1>1, <1>2 DEF ProcOK, FileOK, DeleteOK, Same, Exists
<1>5. ExpandOK(q)'
  BY <1>1 DEF ProcOK, FileOK, ExpandOK, Same
<1>6. found[q].state \in {"archived", "reclaiming"} => found[q].inc \in Incs
  BY AnswerFacts DEF IInv, TypeOK, LocalsTyped, Exists
<1>7. ReclaimOK(q)'
  BY <1>1, <1>6 DEF ProcOK, FileOK, ReclaimOK, Past, Same, Exists
<1> QED
  BY <1>3, <1>4, <1>5, <1>7 DEF FileOK

-----------------------------------------------------------------------------
(***************************************************************************)
(* Every step keeps the inductive invariant.                               *)
(***************************************************************************)
LEMMA StartKeeps ==
    ASSUME IInv, NEW p \in Procs, Start(p)
    PROVE  IInv' /\ Frame(p)
<1> USE DEF IInv, TypeOK
<1>1. ASSUME NEW v \in Vols, NEW s \in Sizes, StartCreate(p, v, s)
      PROVE  IInv' /\ Frame(p)
  <2>1. /\ LocksTyped' /\ LocalsTyped' /\ Frame(p) /\ UNCHANGED <<files, nextInc>>
        /\ pc'[p] = "ident" /\ call'[p] = "create" /\ vol'[p] = v /\ req'[p] = s
    BY <1>1, BeginFacts DEF StartCreate, Labels, SizesOrZero, LocalsTyped
  <2>2. TypeOK'
    BY <1>1, <2>1 DEF StartCreate, Begin, DurableTyped, files
  <2>3. ProcOK(p)'
    BY <1>1, <2>1, NoFileClause DEF ProcOK, CallOK, LockOK, ArriveLabels,
       CreateLabels, DeleteLabels, ReclaimLabels, UnderLock, Expanding
  <2> QED
    BY <2>1, <2>2, <2>3, QuietStep
<1>2. ASSUME NEW v \in Vols, StartDelete(p, v)
      PROVE  IInv' /\ Frame(p)
  <2>1. /\ LocksTyped' /\ LocalsTyped' /\ Frame(p) /\ UNCHANGED <<files, nextInc>>
        /\ pc'[p] = "look" /\ call'[p] = "delete" /\ vol'[p] = v /\ req'[p] = 0
    BY <1>2, BeginFacts DEF StartDelete, Labels, SizesOrZero, LocalsTyped
  <2>2. Rec("deleting", 0, Lookup(v).inc) \in Promises
    BY <1>2, LookupFacts, AnswerFacts DEF Promises, Rec
  <2>3. TypeOK'
    BY <1>2, <2>1, <2>2 DEF StartDelete, Begin, DurableTyped, files
  <2>4. ProcOK(p)'
    BY <1>2, <2>1, NoFileClause DEF ProcOK, CallOK, LockOK, ArriveLabels,
       CreateLabels, DeleteLabels, ReclaimLabels, UnderLock, Expanding
  <2> QED
    BY <2>1, <2>3, <2>4, QuietStep
<1>3. ASSUME NEW v \in Vols, NEW s \in Sizes, StartExpand(p, v, s)
      PROVE  IInv' /\ Frame(p)
  <2>1. /\ LocksTyped' /\ LocalsTyped' /\ Frame(p) /\ UNCHANGED <<files, nextInc>>
        /\ pc'[p] = "look" /\ call'[p] = "expand" /\ vol'[p] = v /\ req'[p] = s
    BY <1>3, BeginFacts DEF StartExpand, Labels, SizesOrZero, LocalsTyped
  <2>2. TypeOK'
    BY <1>3, <2>1 DEF StartExpand, Begin, DurableTyped, files
  <2>3. ProcOK(p)'
    BY <1>3, <2>1, NoFileClause DEF ProcOK, CallOK, LockOK, ArriveLabels,
       CreateLabels, DeleteLabels, ReclaimLabels, UnderLock, Expanding
  <2> QED
    BY <2>1, <2>2, <2>3, QuietStep
<1>4. ASSUME NEW a \in Archives, StartReclaim(p, a)
      PROVE  IInv' /\ Frame(p)
  <2> DEFINE v == a[1]
  <2>1. PICK i \in Incs : a = <<v, i>>
    BY <1>4 DEF Archives
  <2>2. v \in Vols
    BY <1>4 DEF Archives
  <2>3. arcMeta[a] \in Answers /\ arcMeta[a].state \in {"archived", "reclaiming"}
    BY <1>4 DEF StartReclaim, DurableTyped, Answers
  <2>4. Begin(p, "reclaim", v, 0) /\ Goto(p, "reclaimMark")
    BY <1>4 DEF StartReclaim
  <2> HIDE DEF v
  <2>5. /\ found' \in [Procs -> Answers] /\ found'[p] = arcMeta[a]
        /\ \A q \in Procs \ {p} : found'[q] = found[q]
    BY <1>4, <2>3 DEF StartReclaim, LocalsTyped
  <2>6. 0 \in SizesOrZero /\ "reclaimMark" \in Labels
    BY DEF SizesOrZero, Labels
  <2>7. /\ LocksTyped' /\ LocalsTyped' /\ Frame(p) /\ UNCHANGED <<files, nextInc>>
        /\ pc'[p] = "reclaimMark" /\ call'[p] = "reclaim" /\ vol'[p] = v
    BY <2>2, <2>4, <2>5, <2>6, BeginFacts
  <2>8. TypeOK'
    BY <1>4, <2>7 DEF StartReclaim, Begin, DurableTyped, files
  <2>9. arcMeta[a].inc = i /\ Past(v, i)
    BY <2>1, <2>2, <2>3 DEF GenerationOK, Past, Exists
  <2>10. Past(v, i)'
    BY <2>7, <2>9 DEF Past, files
  <2>11. ReclaimOK(p)'
    BY <2>3, <2>5, <2>7, <2>9, <2>10 DEF ReclaimOK
  <2>12. ProcOK(p)'
    BY <2>2, <2>7, <2>11 DEF ProcOK, FileOK, CallOK, LockOK, CreateOK, DeleteOK,
       ExpandOK, ArriveLabels, CreateLabels, DeleteLabels, ReclaimLabels,
       UnderLock, Expanding
  <2> QED
    BY <2>7, <2>8, <2>12, QuietStep
<1> QED
  BY <1>1, <1>2, <1>3, <1>4 DEF Start

LEMMA ArriveKeeps ==
    ASSUME IInv, NEW p \in Procs, Arrive(p)
    PROVE  IInv' /\ Frame(p) /\ GoesOn(p)
<1> DEFINE v == vol[p]
<1>0. TypeOK /\ ProcOK(p)
  BY DEF IInv
<1>a. v \in Vols
  BY <1>0 DEF Arrive, TakeIdentity, LookMetadata, LookIntent, ReadEvidence,
              TakeVolumeLock, Relook, ProcOK, CallOK
<1> USE DEF Labels
<1>1. CASE TakeIdentity(p)
  <2>1. /\ LocalsTyped' /\ pc'[p] = "look" /\ UNCHANGED locals
        /\ \A q \in Procs \ {p} : pc'[q] = pc[q]
    BY <1>0, <1>1, GotoFacts DEF TakeIdentity, TypeOK, LocalsTyped, locals
  <2>2. LocksTyped' /\ ident'[v] = p
    BY <1>0, <1>1, <1>a DEF TakeIdentity, TypeOK, LocksTyped
  <2>3. Frame(p)
    BY <1>0, <1>1, <2>1, ConstantsAssumption
       DEF TakeIdentity, TypeOK, LocksTyped, locals, Frame, Same
  <2>4. TypeOK'
    BY <1>0, <1>1, <2>1, <2>2 DEF TakeIdentity, TypeOK, DurableTyped, files
  <2>5. ProcOK(p)'
    BY <1>0, <1>1, <2>1, <2>2, NoFileClause
       DEF TakeIdentity, ProcOK, CallOK, LockOK, ArriveLabels, CreateLabels,
           DeleteLabels, ReclaimLabels, UnderLock, Expanding, locals
  <2> QED
    BY <1>1, <2>3, <2>4, <2>5, QuietStep DEF GoesOn, locals, TakeIdentity
<1>2. CASE LookMetadata(p)
  <2>1. MetadataOf(v) \in Answers
    BY <1>0, <1>a, MetadataOfFacts DEF Answers
  <2>2. PICK l \in {"evidence", "lookIntent"} : Goto(p, l)
    <3>1. CASE Exists(MetadataOf(v))
      BY <1>2, <3>1 DEF LookMetadata, Goto
    <3>2. CASE ~Exists(MetadataOf(v))
      BY <1>2, <3>2 DEF LookMetadata, Goto
    <3> QED
      BY <3>1, <3>2
  <2>3. /\ LocalsTyped' /\ Frame(p) /\ pc'[p] = l
        /\ call'[p] = call[p] /\ vol'[p] = vol[p] /\ req'[p] = req[p]
    <3>1. /\ found' = [found EXCEPT ![p] = MetadataOf(v)]
          /\ UNCHANGED <<ident, vlock, call, vol, req, seen>>
      BY <1>2 DEF LookMetadata, locks
    <3>2. l \in Labels
      BY <2>2
    <3> QED
      BY <1>0, <2>1, <2>2, <3>1, <3>2, FoundFacts DEF TypeOK
  <2>4. TypeOK'
    BY <1>0, <1>2, <2>3 DEF LookMetadata, TypeOK, DurableTyped, LocksTyped, files, locks
  <2>5. ProcOK(p)'
    BY <1>0, <1>2, <2>3, NoFileClause
       DEF LookMetadata, ProcOK, CallOK, LockOK, ArriveLabels, CreateLabels,
           DeleteLabels, ReclaimLabels, UnderLock, Expanding, locks
  <2> QED
    BY <1>2, <2>3, <2>4, <2>5, QuietStep DEF GoesOn, LookMetadata
<1>3. CASE LookIntent(p)
  <2>1. CASE Fail(p)
    BY <2>1, FailStep
  <2>2. CASE ~Fail(p)
    <3>1. intent[v] \in Answers
      BY <1>0, <1>a, RecordFacts DEF Answers
    <3>2. PICK l \in {"evidence", "body"} :
             Goto(p, l) /\ (l = "body" => call[p] # "delete")
      BY <1>3, <2>2 DEF LookIntent
    <3>3. /\ LocalsTyped' /\ Frame(p) /\ pc'[p] = l
          /\ call'[p] = call[p] /\ vol'[p] = vol[p] /\ req'[p] = req[p]
      BY <1>0, <1>3, <2>2, <3>1, <3>2, FoundFacts DEF LookIntent, TypeOK, locks
    <3>4. TypeOK'
      BY <1>0, <1>3, <2>2, <3>3
         DEF LookIntent, TypeOK, DurableTyped, LocksTyped, files, locks
    <3>5. ProcOK(p)'
      BY <1>0, <1>3, <2>2, <3>2, <3>3
         DEF LookIntent, ProcOK, CallOK, LockOK, FileOK, CreateOK, DeleteOK,
             ExpandOK, ReclaimOK, ArriveLabels, CreateLabels, DeleteLabels,
             ReclaimLabels, UnderLock, Expanding, locks
    <3> QED
      BY <1>3, <2>2, <3>3, <3>4, <3>5, QuietStep DEF GoesOn, LookIntent
  <2> QED
    BY <2>1, <2>2
<1>4. CASE ReadEvidence(p)
  <2>1. EvidenceAt(v, found[p]) \in Answers
    <3>1. found[p] \in Answers
      BY <1>0 DEF TypeOK, LocalsTyped
    <3>2. found[p].state = "handoff" => arcMeta[<<v, found[p].inc>>] \in Answers
      BY <1>0, <1>a, <3>1, AnswerFacts, RecordFacts DEF Answers, Exists
    <3>3. meta[v] \in Answers
      BY <1>0, <1>a, RecordFacts DEF Answers
    <3> QED
      BY <3>1, <3>2, <3>3 DEF EvidenceAt
  <2>2. /\ LocalsTyped' /\ pc'[p] = "lock" /\ UNCHANGED <<call, vol, req, found>>
        /\ \A q \in Procs \ {p} : pc'[q] = pc[q]
    BY <1>0, <1>4, <2>1, GotoFacts DEF ReadEvidence, TypeOK, LocalsTyped
  <2>3. Frame(p)
    BY <1>4, <2>2 DEF ReadEvidence, Frame, Same, locks
  <2>4. TypeOK'
    BY <1>0, <1>4, <2>2 DEF ReadEvidence, TypeOK, DurableTyped, LocksTyped, files, locks
  <2>5. ProcOK(p)'
    BY <1>0, <1>4, <2>2, NoFileClause
       DEF ReadEvidence, ProcOK, CallOK, LockOK, ArriveLabels, CreateLabels,
           DeleteLabels, ReclaimLabels, UnderLock, Expanding, locks
  <2> QED
    BY <1>4, <2>3, <2>4, <2>5, QuietStep DEF GoesOn, ReadEvidence
<1>5. CASE TakeVolumeLock(p)
  <2>1. /\ LocalsTyped' /\ pc'[p] = "relook" /\ UNCHANGED locals
        /\ \A q \in Procs \ {p} : pc'[q] = pc[q]
    BY <1>0, <1>5, GotoFacts DEF TakeVolumeLock, TypeOK, LocalsTyped, locals
  <2>2. LocksTyped' /\ vlock'[v] = p
    BY <1>0, <1>5, <1>a DEF TakeVolumeLock, TypeOK, LocksTyped
  <2>3. Frame(p)
    BY <1>0, <1>5, <2>1, ConstantsAssumption
       DEF TakeVolumeLock, TypeOK, LocksTyped, locals, Frame, Same
  <2>4. TypeOK'
    BY <1>0, <1>5, <2>1, <2>2 DEF TakeVolumeLock, TypeOK, DurableTyped, files
  <2>5. ProcOK(p)'
    BY <1>0, <1>5, <2>1, <2>2, NoFileClause
       DEF TakeVolumeLock, ProcOK, CallOK, LockOK, ArriveLabels, CreateLabels,
           DeleteLabels, ReclaimLabels, UnderLock, Expanding, locals
  <2> QED
    BY <1>5, <2>3, <2>4, <2>5, QuietStep DEF GoesOn, locals, TakeVolumeLock
<1>6. CASE Relook(p)
  <2>1. CASE Fail(p)
    BY <2>1, FailStep
  <2>2. CASE ~Fail(p)
    <3>1. Lookup(v) \in Answers /\ Goto(p, "body") /\ found' = [found EXCEPT ![p] = Lookup(v)]
      BY <1>0, <1>6, <1>a, <2>2, LookupFacts DEF Relook
    <3>2. /\ LocalsTyped' /\ Frame(p) /\ pc'[p] = "body" /\ found'[p] = Lookup(v)
          /\ call'[p] = call[p] /\ vol'[p] = vol[p] /\ req'[p] = req[p]
      BY <1>0, <1>6, <2>2, <3>1, FoundFacts DEF Relook, TypeOK, locks
    <3>3. TypeOK'
      BY <1>0, <1>6, <2>2, <3>2
         DEF Relook, TypeOK, DurableTyped, LocksTyped, files, locks
    <3>4. Exists(Lookup(v))
      BY <1>6, <2>2 DEF Relook, SameGeneration
    <3>5. Lookup(v).state # "creating" => HasMetadata(v)
      BY <1>0, <1>a, <3>4, LookupFacts, RecordFacts
    <3>6. HasMetadata(v) => HasMetadata(v)'
      BY <1>6, <2>2, <3>2 DEF Relook, HasMetadata, Arriving, files
    <3>7. ProcOK(p)'
      BY <1>0, <1>6, <2>2, <3>2, <3>5, <3>6
         DEF Relook, ProcOK, CallOK, LockOK, FileOK, CreateOK, DeleteOK,
             ExpandOK, ReclaimOK, ArriveLabels, CreateLabels, DeleteLabels,
             ReclaimLabels, UnderLock, Expanding, locks
    <3> QED
      BY <1>6, <2>2, <3>2, <3>3, <3>7, QuietStep DEF GoesOn, Relook
  <2> QED
    BY <2>1, <2>2
<1> QED
  BY <1>1, <1>2, <1>3, <1>4, <1>5, <1>6 DEF Arrive

LEMMA CreateBodyKeeps ==
    ASSUME IInv, NEW p \in Procs, CreateBody(p)
    PROVE  IInv' /\ Frame(p) /\ GoesOn(p)
<1> DEFINE v == vol[p]
           now == Lookup(v)
<1>1. TypeOK /\ ProcOK(p) /\ v \in Vols
  BY DEF IInv, ProcOK, CallOK, CreateBody
<1>2. now \in Answers /\ pc[p] = "body" /\ call[p] = "create"
  BY <1>1, LookupFacts DEF CreateBody
<1> USE DEF Labels
<1>3. CASE ~Exists(now) /\ Goto(p, "admit")
           /\ UNCHANGED <<files, db, policy, nextInc, locks, locals, acked>>
  <2>1. /\ LocalsTyped' /\ Frame(p) /\ pc'[p] = "admit"
        /\ call'[p] = call[p] /\ vol'[p] = vol[p] /\ req'[p] = req[p]
    BY <1>1, <1>3, StayFacts DEF TypeOK, locks
  <2>2. TypeOK'
    BY <1>1, <1>3, <2>1 DEF TypeOK, DurableTyped, LocksTyped, files, locks
  <2>3. ~HasMetadata(v) /\ ~Exists(intent[v])
    BY <1>1, <1>3, LookupFacts
  <2>4. ~HasMetadata(v)' /\ ~Exists(intent[v])'
    BY <1>3, <2>1, <2>3 DEF HasMetadata, Arriving, files, Exists
  <2>5. ProcOK(p)'
    BY <1>1, <1>2, <1>3, <2>1, <2>4
       DEF ProcOK, CallOK, LockOK, FileOK, CreateOK, DeleteOK, ExpandOK, ReclaimOK,
           ArriveLabels, CreateLabels, DeleteLabels, ReclaimLabels, UnderLock,
           Expanding, locks
  <2> QED
    BY <1>3, <2>1, <2>2, <2>5, QuietStep DEF GoesOn
<1>4. CASE /\ now.state = "creating" /\ req' = [req EXCEPT ![p] = now.size]
           /\ Goto(p, "enter")
           /\ UNCHANGED <<files, db, policy, nextInc, locks, call, vol, found,
                          seen, acked>>
  <2>1. now.size \in Sizes
    BY <1>2, <1>4, AnswerFacts DEF Exists
  <2>2. /\ LocalsTyped' /\ Frame(p) /\ pc'[p] = "enter"
        /\ call'[p] = call[p] /\ vol'[p] = vol[p] /\ req'[p] \in Sizes
    BY <1>1, <1>4, <2>1, GotoFacts
       DEF TypeOK, LocalsTyped, Frame, Same, SizesOrZero, locks
  <2>3. TypeOK'
    BY <1>1, <1>4, <2>2 DEF TypeOK, DurableTyped, LocksTyped, files, locks
  <2>4. ProcOK(p)'
    BY <1>1, <1>2, <1>4, <2>2, NoFileClause
       DEF ProcOK, CallOK, LockOK, ArriveLabels, CreateLabels, DeleteLabels,
           ReclaimLabels, UnderLock, Expanding, locks
  <2> QED
    BY <1>4, <2>2, <2>3, <2>4, QuietStep DEF GoesOn
<1>5. CASE /\ now.state = "live" /\ found' = [found EXCEPT ![p] = now]
           /\ Goto(p, "finish")
           /\ UNCHANGED <<files, db, policy, nextInc, locks, call, vol, req,
                          seen, acked>>
  <2>1. /\ LocalsTyped' /\ Frame(p) /\ pc'[p] = "finish" /\ found'[p] = now
        /\ call'[p] = call[p] /\ vol'[p] = vol[p] /\ req'[p] = req[p]
    BY <1>1, <1>2, <1>5, FoundFacts DEF TypeOK, locks
  <2>2. TypeOK'
    BY <1>1, <1>5, <2>1 DEF TypeOK, DurableTyped, LocksTyped, files, locks
  <2>3. ProcOK(p)'
    BY <1>1, <1>2, <1>5, <2>1
       DEF ProcOK, CallOK, LockOK, FileOK, CreateOK, DeleteOK, ExpandOK, ReclaimOK,
           ArriveLabels, CreateLabels, DeleteLabels, ReclaimLabels, UnderLock,
           Expanding, locks
  <2> QED
    BY <1>5, <2>1, <2>2, <2>3, QuietStep DEF GoesOn
<1> QED
  BY <1>3, <1>4, <1>5, FailStep DEF CreateBody

LEMMA FinishCommittedKeeps ==
    ASSUME IInv, NEW p \in Procs, FinishCommitted(p), ~Fail(p)
    PROVE  IInv' /\ Frame(p) /\ GoesOn(p)
<1>0. PICK v \in Vols : vol[p] = v
  BY DEF IInv, ProcOK, CallOK, FinishCommitted
<1>1. /\ TypeOK /\ ProcOK(p) /\ call[p] = "create"
      /\ GenerationOK(v)
  BY <1>0 DEF IInv, ProcOK, CallOK, FinishCommitted, CreateLabels
<1>2. /\ intent' = [intent EXCEPT ![v] = NoRec] /\ Goto(p, "reconcile")
      /\ UNCHANGED <<meta, xint, payload, arcMeta, arcPayload, db, policy,
                     nextInc, locks, locals, acked>>
  BY <1>0 DEF FinishCommitted
<1>3. /\ LocalsTyped' /\ Frame(p) /\ pc'[p] = "reconcile" /\ found'[p] = found[p]
      /\ call'[p] = call[p] /\ vol'[p] = vol[p] /\ req'[p] = req[p]
  BY <1>1, <1>2, StayFacts DEF TypeOK, locks, Labels
<1>4. TypeOK' /\ intent'[v] = NoRec /\ \A w \in Vols \ {v} : FilesKept(w)
  BY <1>1, <1>2, <1>3
     DEF TypeOK, DurableTyped, LocksTyped, locks, FilesKept, Intents, Kind
<1>5. ProcOK(p)'
  BY <1>1, <1>2, <1>3
     DEF FinishCommitted, ProcOK, CallOK, LockOK, FileOK, CreateOK, DeleteOK,
         ExpandOK, ReclaimOK, ArriveLabels, CreateLabels, DeleteLabels,
         ReclaimLabels, UnderLock, Expanding, locks
<1>6. GenerationOK(v)'
  BY <1>1, <1>2, <1>4 DEF GenerationOK, Exists, NoRec, Rec
<1>7. \A i \in Incs : Past(v, i) => Past(v, i)'
  BY <1>2, <1>4 DEF Past, Exists, NoRec, Rec
<1>8. \A q \in Procs \ {p} : vol[q] = v /\ pc[q] # "idle" => FileOK(q)'
  BY <1>0, <1>1, <1>2, <1>3, <1>4, <1>7, CreateRivals
     DEF FinishCommitted, Exists, NoRec, Rec
<1> QED
  BY <1>1, <1>3, <1>4, <1>5, <1>6, <1>8, FileStep DEF GoesOn

LEMMA ReconcileKeeps ==
    ASSUME IInv, NEW p \in Procs, Reconcile(p)
    PROVE  IInv' /\ Frame(p) /\ GoesOn(p)
<1>1. /\ TypeOK /\ vol[p] \in Vols /\ found[p].state = "live"
      /\ found[p] \in Kind({"live"}) /\ found[p].size \in SizesOrZero
  BY AnswerFacts DEF IInv, ProcOK, CallOK, FileOK, CreateOK, Reconcile, TypeOK, LocalsTyped
<1>2. db' \in [Ids -> SizesOrZero]
  BY <1>1 DEF Reconcile, Reconciled, TypeOK, DurableTyped
<1>3. acked' \in [Vols -> Promises]
  BY <1>1, PromiseFacts DEF Reconcile, TypeOK, DurableTyped
<1> QED
  BY <1>2, <1>3, LeaveStep DEF Reconcile

LEMMA AdmitKeeps ==
    ASSUME IInv, NEW p \in Procs, Admit(p)
    PROVE  IInv' /\ Frame(p) /\ GoesOn(p)
<1>0. PICK v \in Vols : vol[p] = v
  BY DEF IInv, ProcOK, CallOK, Admit
<1>1. /\ TypeOK /\ ProcOK(p) /\ call[p] = "create" /\ req[p] \in Sizes
      /\ GenerationOK(v) /\ ~HasMetadata(v) /\ ~Exists(intent[v])
      /\ pc[p] = "admit"
  BY <1>0 DEF IInv, ProcOK, CallOK, FileOK, CreateOK, Admit, CreateLabels
<1>2. CASE db' = Rebuilt /\ Leave(p) /\ UNCHANGED <<files, policy, nextInc, acked>>
  BY <1>1, <1>2, RebuiltType, LeaveStep DEF TypeOK, DurableTyped
<1>3. CASE /\ nextInc[v] <= MaxGen
           /\ nextInc' = [nextInc EXCEPT ![v] = @ + 1]
           /\ intent' = [intent EXCEPT ![v] = Rec("creating", req[p], nextInc[v])]
           /\ txOwner' = p
           /\ txView' = [Rebuilt EXCEPT ![v] = req[p]]
           /\ Goto(p, "admitCommit")
           /\ UNCHANGED <<meta, xint, payload, arcMeta, arcPayload, db,
                          policy, ident, vlock, locals, acked>>
  <2> DEFINE n == nextInc[v]
             new == Rec("creating", req[p], n)
  <2>1. n \in Incs /\ n \in Nat /\ nextInc' \in [Vols -> 1..(MaxGen + 1)]
    BY <1>1, <1>3, ConstantsAssumption DEF TypeOK, DurableTyped, Incs
  <2>2. new \in Intents /\ new.inc = n /\ Exists(new)
    BY <1>1, <2>1 DEF Intents, Kind, Rec, Exists
  <2>3. nextInc'[v] = n + 1 /\ intent'[v] = new
    BY <1>1, <1>3 DEF TypeOK, DurableTyped
  <2>4. /\ LocalsTyped' /\ Frame(p) /\ pc'[p] = "admitCommit"
        /\ call'[p] = call[p] /\ vol'[p] = vol[p] /\ req'[p] = req[p]
    BY <1>1, <1>3, StayFacts DEF TypeOK, Labels
  <2>5. LocksTyped'
    BY <1>1, <1>3, RebuiltType DEF TypeOK, LocksTyped, SizesOrZero
  <2> HIDE DEF n, new
  <2>6. intent' \in [Vols -> Intents] /\ \A w \in Vols \ {v} : FilesKept(w)
    BY <1>1, <1>3, <2>2 DEF TypeOK, DurableTyped, FilesKept, new, n
  <2>7. TypeOK'
    BY <1>1, <1>3, <2>1, <2>4, <2>5, <2>6 DEF TypeOK, DurableTyped
  <2>8. ProcOK(p)'
    BY <1>1, <1>3, <2>4, NoFileClause
       DEF ProcOK, CallOK, LockOK, ArriveLabels, CreateLabels, DeleteLabels,
           ReclaimLabels, UnderLock, Expanding
  <2>9. ~Exists(arcMeta[<<v, n>>])
    BY <1>1, <2>1 DEF GenerationOK, n
  <2>10. \A i \in Incs : i < n => i < n + 1 /\ i # n
    BY <2>1 DEF Incs
  <2>11. GenerationOK(v)'
    <3>1. Exists(meta[v]) => meta[v].inc \in Incs
      BY <1>1, RecordFacts
    <3> QED
      BY <1>1, <1>3, <2>1, <2>2, <2>3, <2>9, <2>10, <3>1 DEF GenerationOK, HasMetadata, n
  <2>12. \A i \in Incs : Past(v, i) => Past(v, i)'
    BY <1>1, <1>3, <2>2, <2>3, <2>10 DEF Past, n
  <2>13. \A q \in Procs \ {p} : vol[q] = v /\ pc[q] # "idle" => FileOK(q)'
    BY <1>0, <1>1, <1>3, <2>4, <2>12, CreateRivals
  <2> QED
    BY <1>1, <2>4, <2>6, <2>7, <2>8, <2>11, <2>13, FileStep DEF GoesOn
<1> QED
  BY <1>0, <1>1, <1>2, <1>3, FailStep DEF Admit

LEMMA AdmitCommitKeeps ==
    ASSUME IInv, NEW p \in Procs, AdmitCommit(p)
    PROVE  IInv' /\ Frame(p) /\ GoesOn(p)
<1>1. TypeOK /\ ProcOK(p) /\ 0 \in SizesOrZero
  BY DEF IInv, SizesOrZero
<1>2. /\ LocalsTyped' /\ Frame(p) /\ pc'[p] = "enter"
      /\ call'[p] = call[p] /\ vol'[p] = vol[p] /\ req'[p] = req[p]
  BY <1>1, StayFacts DEF AdmitCommit, TypeOK, Labels
<1>3. TypeOK'
  BY <1>1, <1>2 DEF AdmitCommit, TypeOK, DurableTyped, LocksTyped, files
<1>4. ProcOK(p)'
  BY <1>1, <1>2, NoFileClause
     DEF AdmitCommit, ProcOK, CallOK, LockOK, ArriveLabels, CreateLabels,
         DeleteLabels, ReclaimLabels, UnderLock, Expanding
<1> QED
  BY <1>2, <1>3, <1>4, QuietStep DEF GoesOn, AdmitCommit

LEMMA EnterCreationKeeps ==
    ASSUME IInv, NEW p \in Procs, EnterCreation(p), ~Fail(p)
    PROVE  IInv' /\ Frame(p) /\ GoesOn(p)
<1>0. PICK v \in Vols : vol[p] = v
  BY DEF IInv, ProcOK, CallOK, EnterCreation
<1>1. TypeOK /\ ProcOK(p) /\ vlock[v] \in {None, p}
  BY <1>0 DEF IInv, EnterCreation, MayLock
<1>2. /\ Lookup(v).state \in {"live", "creating"}
      /\ vlock' = [vlock EXCEPT ![v] = p] /\ Goto(p, "makePayload")
      /\ UNCHANGED <<files, db, policy, nextInc, ident, txOwner, txView, locals, acked>>
  BY <1>0 DEF EnterCreation
<1>3. /\ LocalsTyped' /\ pc'[p] = "makePayload" /\ UNCHANGED locals
      /\ \A q \in Procs \ {p} : pc'[q] = pc[q]
  BY <1>1, <1>2, GotoFacts DEF TypeOK, LocalsTyped, Labels, locals
<1>4. LocksTyped' /\ vlock'[v] = p
  BY <1>1, <1>2 DEF TypeOK, LocksTyped
<1>5. Frame(p)
  BY <1>1, <1>2, <1>3, ConstantsAssumption
     DEF TypeOK, LocksTyped, locals, Frame, Same
<1>6. TypeOK'
  BY <1>1, <1>2, <1>3, <1>4 DEF TypeOK, DurableTyped, files
<1>7. Exists(meta[v]) \/ Exists(intent[v])
  BY <1>1, <1>2, LookupFacts DEF Exists
<1>8. ProcOK(p)'
  BY <1>0, <1>1, <1>2, <1>3, <1>4, <1>7
     DEF EnterCreation, ProcOK, CallOK, LockOK, FileOK, CreateOK, DeleteOK,
         ExpandOK, ReclaimOK, ArriveLabels, CreateLabels, DeleteLabels,
         ReclaimLabels, UnderLock, Expanding, locals, files, Exists
<1> QED
  BY <1>2, <1>5, <1>6, <1>8, QuietStep DEF GoesOn, locals

LEMMA MakePayloadKeeps ==
    ASSUME IInv, NEW p \in Procs, MakePayload(p)
    PROVE  IInv' /\ Frame(p) /\ GoesOn(p)
<1>0. PICK v \in Vols : vol[p] = v
  BY DEF IInv, ProcOK, CallOK, MakePayload
<1>1. /\ TypeOK /\ ProcOK(p) /\ GenerationOK(v)
      /\ pc[p] = "makePayload" /\ call[p] = "create" /\ vlock[v] = p
      /\ Exists(meta[v]) \/ Exists(intent[v])
      /\ UNCHANGED <<intent, meta, xint, arcMeta, arcPayload, db, policy,
                     nextInc, locks, locals, acked>>
  BY <1>0 DEF IInv, ProcOK, CallOK, LockOK, FileOK, CreateOK, MakePayload,
              CreateLabels, UnderLock
<1>2. CASE Exists(meta[v])
  <2>1. Goto(p, "dropIntent") /\ UNCHANGED payload
    BY <1>0, <1>2 DEF MakePayload
  <2>2. /\ LocalsTyped' /\ Frame(p) /\ pc'[p] = "dropIntent"
        /\ call'[p] = call[p] /\ vol'[p] = vol[p] /\ req'[p] = req[p]
    BY <1>1, <2>1, StayFacts DEF TypeOK, locks, Labels
  <2>3. TypeOK'
    BY <1>1, <2>1, <2>2 DEF TypeOK, DurableTyped, LocksTyped, locks
  <2>4. ProcOK(p)'
    BY <1>0, <1>1, <1>2, <2>1, <2>2
       DEF ProcOK, CallOK, LockOK, FileOK, CreateOK, DeleteOK, ExpandOK, ReclaimOK,
           ArriveLabels, CreateLabels, DeleteLabels, ReclaimLabels, UnderLock,
           Expanding, locks, Exists
  <2> QED
    BY <1>1, <2>1, <2>2, <2>3, <2>4, QuietStep DEF GoesOn, files
<1>3. CASE ~Exists(meta[v])
  <2> DEFINE new == IF payload[v] = NoPayload THEN [inc |-> intent[v].inc, quota |-> 0]
                                              ELSE payload[v]
  <2>1. Goto(p, "setQuota") /\ payload' = [payload EXCEPT ![v] = new]
    BY <1>0, <1>1, <1>3 DEF MakePayload, AfterMakedirs, TypeOK, DurableTyped
  <2>2. intent[v].inc \in Incs
    BY <1>1, <1>3, RecordFacts
  <2>3. new \in Payloads /\ new # NoPayload
    <3>1. 0 \notin Incs /\ 0 \in SizesOrZero
      BY ConstantsAssumption DEF Incs, SizesOrZero
    <3>2. payload[v] \in Payloads
      BY <1>1 DEF TypeOK, DurableTyped
    <3> QED
      BY <2>2, <3>1, <3>2 DEF Payloads, NoPayload
  <2> HIDE DEF new
  <2>4. /\ LocalsTyped' /\ Frame(p) /\ pc'[p] = "setQuota"
        /\ call'[p] = call[p] /\ vol'[p] = vol[p] /\ req'[p] = req[p]
    BY <1>1, <2>1, StayFacts DEF TypeOK, locks, Labels
  <2>5. /\ TypeOK' /\ payload'[v] = new /\ \A w \in Vols \ {v} : FilesKept(w)
    BY <1>1, <2>1, <2>3, <2>4 DEF TypeOK, DurableTyped, LocksTyped, locks, FilesKept
  <2>6. ProcOK(p)'
    BY <1>0, <1>1, <1>3, <2>1, <2>3, <2>4, <2>5
       DEF ProcOK, CallOK, LockOK, FileOK, CreateOK, DeleteOK, ExpandOK, ReclaimOK,
           ArriveLabels, CreateLabels, DeleteLabels, ReclaimLabels, UnderLock,
           Expanding, locks, Exists
  <2>7. GenerationOK(v)' /\ \A i \in Incs : Past(v, i) => Past(v, i)'
    BY <1>1 DEF GenerationOK, Past, Exists
  <2>8. \A q \in Procs \ {p} : vol[q] = v /\ pc[q] # "idle" => FileOK(q)'
    BY <1>0, <1>1, <2>4, <2>7, LockedRivals
  <2> QED
    BY <2>4, <2>5, <2>6, <2>7, <2>8, FileStep DEF GoesOn
<1> QED
  BY <1>2, <1>3

LEMMA SetQuotaKeeps ==
    ASSUME IInv, NEW p \in Procs, SetQuota(p)
    PROVE  IInv' /\ Frame(p) /\ GoesOn(p)
<1>0. PICK v \in Vols : vol[p] = v
  BY DEF IInv, ProcOK, CallOK, SetQuota
<1>1. /\ TypeOK /\ ProcOK(p) /\ GenerationOK(v)
      /\ pc[p] = "setQuota" /\ call[p] = "create" /\ vlock[v] = p
      /\ Exists(intent[v]) /\ payload[v] # NoPayload /\ req[p] \in Sizes
  BY <1>0 DEF IInv, ProcOK, CallOK, LockOK, FileOK, CreateOK, SetQuota,
              CreateLabels, UnderLock
<1>2. /\ payload' = [payload EXCEPT ![v].quota = req[p]] /\ Goto(p, "saveMetadata")
      /\ UNCHANGED <<intent, meta, xint, arcMeta, arcPayload, db, policy,
                     nextInc, locks, locals, acked>>
  BY <1>0 DEF SetQuota
<1>3. /\ LocalsTyped' /\ Frame(p) /\ pc'[p] = "saveMetadata"
      /\ call'[p] = call[p] /\ vol'[p] = vol[p] /\ req'[p] = req[p]
  BY <1>1, <1>2, StayFacts DEF TypeOK, locks, Labels
<1>4. [payload[v] EXCEPT !.quota = req[p]] \in Payloads
  BY <1>1 DEF TypeOK, DurableTyped, Payloads, NoPayload, SizesOrZero
<1>5. payload' \in [Vols -> Payloads] /\ \A w \in Vols \ {v} : payload'[w] = payload[w]
  BY <1>1, <1>2, <1>4 DEF TypeOK, DurableTyped
<1>6. TypeOK' /\ \A w \in Vols \ {v} : FilesKept(w)
  BY <1>1, <1>2, <1>3, <1>5 DEF TypeOK, DurableTyped, LocksTyped, locks, FilesKept
<1>7. ProcOK(p)'
  BY <1>0, <1>1, <1>2, <1>3
     DEF ProcOK, CallOK, LockOK, FileOK, CreateOK, DeleteOK, ExpandOK, ReclaimOK,
         ArriveLabels, CreateLabels, DeleteLabels, ReclaimLabels, UnderLock,
         Expanding, locks, Exists
<1>8. GenerationOK(v)' /\ \A i \in Incs : Past(v, i) => Past(v, i)'
  BY <1>1, <1>2 DEF GenerationOK, Past, Exists
<1>9. \A q \in Procs \ {p} : vol[q] = v /\ pc[q] # "idle" => FileOK(q)'
  BY <1>0, <1>1, <1>3, <1>8, LockedRivals
<1> QED
  BY <1>3, <1>6, <1>7, <1>8, <1>9, FileStep DEF GoesOn

LEMMA SaveMetadataKeeps ==
    ASSUME IInv, NEW p \in Procs, SaveMetadata(p)
    PROVE  IInv' /\ Frame(p) /\ GoesOn(p)
<1> DEFINE new == Rec("live", req[p], intent[vol[p]].inc)
<1>0. PICK v \in Vols : vol[p] = v
  BY DEF IInv, ProcOK, CallOK, SaveMetadata
<1>1. /\ TypeOK /\ ProcOK(p) /\ GenerationOK(v)
      /\ pc[p] = "saveMetadata" /\ call[p] = "create" /\ vlock[v] = p
      /\ Exists(intent[v]) /\ req[p] \in Sizes
  BY <1>0 DEF IInv, ProcOK, CallOK, LockOK, FileOK, CreateOK, SaveMetadata,
              CreateLabels, UnderLock
<1>2. /\ meta' = [meta EXCEPT ![v] = new] /\ Goto(p, "dropIntent")
      /\ UNCHANGED <<intent, xint, payload, arcMeta, arcPayload, db, policy,
                     nextInc, locks, locals, acked>>
  BY <1>0 DEF SaveMetadata
<1>3. new \in Metadata /\ Exists(new) /\ new.inc = intent[v].inc
  BY <1>0, <1>1, RecordFacts DEF Metadata, Kind, Rec, Exists
<1> HIDE DEF new
<1>4. /\ LocalsTyped' /\ Frame(p) /\ pc'[p] = "dropIntent"
      /\ call'[p] = call[p] /\ vol'[p] = vol[p] /\ req'[p] = req[p]
  BY <1>1, <1>2, StayFacts DEF TypeOK, locks, Labels
<1>5. TypeOK' /\ meta'[v] = new /\ \A w \in Vols \ {v} : FilesKept(w)
  BY <1>1, <1>2, <1>3, <1>4 DEF TypeOK, DurableTyped, LocksTyped, locks, FilesKept
<1>6. ProcOK(p)'
  BY <1>0, <1>1, <1>2, <1>3, <1>4, <1>5
     DEF ProcOK, CallOK, LockOK, FileOK, CreateOK, DeleteOK, ExpandOK, ReclaimOK,
         ArriveLabels, CreateLabels, DeleteLabels, ReclaimLabels, UnderLock,
         Expanding, locks
<1>7. GenerationOK(v)'
  BY <1>1, <1>2, <1>3, <1>5 DEF GenerationOK, Exists
<1>8. \A i \in Incs : Past(v, i) => Past(v, i)'
  BY <1>1, <1>2, <1>3, <1>5 DEF Past, Exists
<1>9. \A q \in Procs \ {p} : vol[q] = v /\ pc[q] # "idle" => FileOK(q)'
  BY <1>0, <1>1, <1>4, <1>8, LockedRivals
<1> QED
  BY <1>4, <1>5, <1>6, <1>7, <1>9, FileStep DEF GoesOn

LEMMA DropIntentKeeps ==
    ASSUME IInv, NEW p \in Procs, DropIntent(p)
    PROVE  IInv' /\ Frame(p) /\ GoesOn(p)
<1>0. PICK v \in Vols : vol[p] = v
  BY DEF IInv, ProcOK, CallOK, DropIntent
<1>1. /\ TypeOK /\ ProcOK(p) /\ GenerationOK(v)
      /\ pc[p] = "dropIntent" /\ call[p] = "create" /\ vlock[v] = p
      /\ Exists(meta[v])
  BY <1>0 DEF IInv, ProcOK, CallOK, LockOK, FileOK, CreateOK, DropIntent,
              CreateLabels, UnderLock
<1>2. /\ intent' = [intent EXCEPT ![v] = NoRec] /\ Goto(p, "record")
      /\ UNCHANGED <<meta, xint, payload, arcMeta, arcPayload, db, policy,
                     nextInc, locks, locals, acked>>
  BY <1>0 DEF DropIntent
<1>3. /\ LocalsTyped' /\ Frame(p) /\ pc'[p] = "record"
      /\ call'[p] = call[p] /\ vol'[p] = vol[p] /\ req'[p] = req[p]
  BY <1>1, <1>2, StayFacts DEF TypeOK, locks, Labels
<1>4. TypeOK' /\ intent'[v] = NoRec /\ \A w \in Vols \ {v} : FilesKept(w)
  BY <1>1, <1>2, <1>3
     DEF TypeOK, DurableTyped, LocksTyped, locks, FilesKept, Intents, Kind
<1>5. ProcOK(p)'
  BY <1>0, <1>1, <1>2, <1>3
     DEF ProcOK, CallOK, LockOK, FileOK, CreateOK, DeleteOK, ExpandOK, ReclaimOK,
         ArriveLabels, CreateLabels, DeleteLabels, ReclaimLabels, UnderLock,
         Expanding, locks, Exists
<1>6. GenerationOK(v)'
  BY <1>1, <1>2, <1>4 DEF GenerationOK, Exists, NoRec, Rec
<1>7. \A i \in Incs : Past(v, i) => Past(v, i)'
  BY <1>2, <1>4 DEF Past, Exists, NoRec, Rec
<1>8. \A q \in Procs \ {p} : vol[q] = v /\ pc[q] # "idle" => FileOK(q)'
  BY <1>0, <1>1, <1>3, <1>7, LockedRivals
<1> QED
  BY <1>3, <1>4, <1>5, <1>6, <1>8, FileStep DEF GoesOn

LEMMA RecordSizeKeeps ==
    ASSUME IInv, NEW p \in Procs, RecordSize(p)
    PROVE  IInv' /\ Frame(p) /\ GoesOn(p)
<1> DEFINE r == Rec("live", req[p], meta[vol[p]].inc)
<1>1. /\ TypeOK /\ vol[p] \in Vols /\ req[p] \in Sizes /\ Exists(meta[vol[p]])
  BY DEF IInv, ProcOK, CallOK, FileOK, CreateOK, RecordSize, CreateLabels
<1>2. r \in Kind({"live"})
  BY <1>1, RecordFacts DEF Kind, Rec
<1>3. db' \in [Ids -> SizesOrZero]
  BY <1>1 DEF RecordSize, TypeOK, DurableTyped, SizesOrZero
<1> HIDE DEF r
<1>4. acked' \in [Vols -> Promises]
  BY <1>1, <1>2, PromiseFacts DEF RecordSize, TypeOK, DurableTyped, r
<1> QED
  BY <1>3, <1>4, LeaveStep DEF RecordSize

LEMMA CreateKeeps ==
    ASSUME IInv, NEW p \in Procs, CreateStep(p)
    PROVE  IInv' /\ Frame(p) /\ GoesOn(p)
BY FailStep, CreateBodyKeeps, FinishCommittedKeeps, ReconcileKeeps, AdmitKeeps,
   AdmitCommitKeeps, EnterCreationKeeps, MakePayloadKeeps, SetQuotaKeeps,
   SaveMetadataKeeps, DropIntentKeeps, RecordSizeKeeps
   DEF CreateStep

LEMMA DeleteBodyKeeps ==
    ASSUME IInv, NEW p \in Procs, DeleteBody(p), ~Fail(p)
    PROVE  IInv' /\ Frame(p) /\ GoesOn(p)
<1>0. PICK v \in Vols : vol[p] = v
  BY DEF IInv, ProcOK, CallOK, DeleteBody
<1>1. /\ TypeOK /\ ProcOK(p)
      /\ UNCHANGED <<files, db, policy, nextInc, locks, locals, acked>>
      /\ pc[p] = "body" /\ call[p] = "delete" /\ vlock[v] = p
      /\ found[p].state # "creating" => HasMetadata(v)
  BY <1>0 DEF IInv, ProcOK, LockOK, FileOK, DeleteOK, DeleteBody
<1>2. PICK l \in {"cancel", "fold"} :
         Goto(p, l) /\ (l = "cancel" <=> found[p].state = "creating")
  <2>1. CASE found[p].state = "creating"
    BY <2>1 DEF DeleteBody, Goto
  <2>2. CASE found[p].state # "creating"
    BY <2>2 DEF DeleteBody, Goto
  <2> QED
    BY <2>1, <2>2
<1>3. /\ LocalsTyped' /\ Frame(p) /\ pc'[p] = l /\ found'[p] = found[p]
      /\ call'[p] = call[p] /\ vol'[p] = vol[p] /\ req'[p] = req[p]
  <2>1. l \in Labels
    BY <1>2 DEF Labels
  <2> QED
    BY <1>1, <1>2, <2>1, StayFacts DEF TypeOK, locks
<1>4. TypeOK'
  BY <1>1, <1>3 DEF TypeOK, DurableTyped, LocksTyped, files, locks
<1>5. HasMetadata(v)' <=> HasMetadata(v)
  BY <1>1 DEF HasMetadata, Arriving, files, Exists
<1>6. ProcOK(p)'
  BY <1>0, <1>1, <1>2, <1>3, <1>5
     DEF ProcOK, CallOK, LockOK, FileOK, CreateOK, DeleteOK, ExpandOK, ReclaimOK,
         ArriveLabels, CreateLabels, DeleteLabels, ReclaimLabels, UnderLock,
         Expanding, locks
<1> QED
  BY <1>1, <1>3, <1>4, <1>6, QuietStep DEF GoesOn

LEMMA CancelPayloadKeeps ==
    ASSUME IInv, NEW p \in Procs, CancelPayload(p), ~Fail(p)
    PROVE  IInv' /\ Frame(p) /\ GoesOn(p)
<1>0. PICK v \in Vols : vol[p] = v
  BY DEF IInv, ProcOK, CallOK, CancelPayload
<1>1. /\ TypeOK /\ ProcOK(p) /\ GenerationOK(v) /\ Exists(intent[v])
      /\ pc[p] = "cancel" /\ call[p] = "delete" /\ vlock[v] = p
  BY <1>0 DEF IInv, ProcOK, CallOK, LockOK, FileOK, DeleteOK, CancelPayload,
              DeleteLabels, UnderLock, Exists
<1>2. /\ payload' = [payload EXCEPT ![v] = NoPayload] /\ Goto(p, "cancelIntent")
      /\ UNCHANGED <<intent, meta, xint, arcMeta, arcPayload, db, policy,
                     nextInc, locks, locals, acked>>
  BY <1>0 DEF CancelPayload
<1>3. /\ LocalsTyped' /\ Frame(p) /\ pc'[p] = "cancelIntent"
      /\ call'[p] = call[p] /\ vol'[p] = vol[p] /\ req'[p] = req[p]
  BY <1>1, <1>2, StayFacts DEF TypeOK, locks, Labels
<1>4. TypeOK' /\ \A w \in Vols \ {v} : FilesKept(w)
  BY <1>1, <1>2, <1>3 DEF TypeOK, DurableTyped, LocksTyped, locks, FilesKept, Payloads
<1>5. ProcOK(p)'
  BY <1>0, <1>1, <1>2, <1>3, NoFileClause
     DEF ProcOK, CallOK, LockOK, ArriveLabels, CreateLabels, DeleteLabels,
         ReclaimLabels, UnderLock, Expanding, locks
<1>6. GenerationOK(v)' /\ \A i \in Incs : Past(v, i) => Past(v, i)'
  BY <1>1, <1>2 DEF GenerationOK, Past, Exists
<1>7. \A q \in Procs \ {p} : vol[q] = v /\ pc[q] # "idle" => FileOK(q)'
  BY <1>0, <1>1, <1>3, <1>6, LockedRivals
<1> QED
  BY <1>3, <1>4, <1>5, <1>6, <1>7, FileStep DEF GoesOn

LEMMA CancelIntentKeeps ==
    ASSUME IInv, NEW p \in Procs, CancelIntent(p), ~Fail(p)
    PROVE  IInv' /\ Frame(p) /\ GoesOn(p)
<1>0. PICK v \in Vols : vol[p] = v
  BY DEF IInv, ProcOK, CallOK, CancelIntent
<1>1. /\ TypeOK /\ ProcOK(p) /\ GenerationOK(v)
      /\ pc[p] = "cancelIntent" /\ call[p] = "delete" /\ vlock[v] = p
  BY <1>0 DEF IInv, ProcOK, CallOK, LockOK, CancelIntent, DeleteLabels, UnderLock
<1>2. /\ intent' = [intent EXCEPT ![v] = NoRec] /\ Goto(p, "cancelCommit")
      /\ txOwner' = p /\ txView' = [Rebuilt EXCEPT ![v] = 0]
      /\ UNCHANGED <<meta, xint, payload, arcMeta, arcPayload, db, policy,
                     nextInc, ident, vlock, locals, acked>>
  BY <1>0 DEF CancelIntent
<1>3. /\ LocalsTyped' /\ Frame(p) /\ pc'[p] = "cancelCommit"
      /\ call'[p] = call[p] /\ vol'[p] = vol[p] /\ req'[p] = req[p]
  BY <1>1, <1>2, StayFacts DEF TypeOK, Labels
<1>4. LocksTyped'
  BY <1>1, <1>2, RebuiltType DEF TypeOK, LocksTyped, SizesOrZero
<1>5. TypeOK' /\ intent'[v] = NoRec /\ \A w \in Vols \ {v} : FilesKept(w)
  BY <1>1, <1>2, <1>3, <1>4 DEF TypeOK, DurableTyped, FilesKept, Intents, Kind
<1>6. ProcOK(p)'
  BY <1>0, <1>1, <1>2, <1>3, NoFileClause
     DEF ProcOK, CallOK, LockOK, ArriveLabels, CreateLabels, DeleteLabels,
         ReclaimLabels, UnderLock, Expanding
<1>7. GenerationOK(v)'
  BY <1>1, <1>2, <1>5 DEF GenerationOK, Exists, NoRec, Rec
<1>8. \A i \in Incs : Past(v, i) => Past(v, i)'
  BY <1>2, <1>5 DEF Past, Exists, NoRec, Rec
<1>9. ~HasMetadata(v) => ~HasMetadata(v)'
  BY <1>2 DEF HasMetadata, Arriving
<1>10. \A q \in Procs \ {p} : vol[q] = v /\ pc[q] # "idle" => FileOK(q)'
  BY <1>0, <1>1, <1>3, <1>5, <1>8, <1>9, LockedRivals DEF Exists, NoRec, Rec
<1> QED
  BY <1>3, <1>5, <1>6, <1>7, <1>10, FileStep DEF GoesOn

LEMMA CancelCommitKeeps ==
    ASSUME IInv, NEW p \in Procs, CancelCommit(p)
    PROVE  IInv' /\ Frame(p) /\ GoesOn(p)
BY LeaveStep DEF CancelCommit, IInv, TypeOK, DurableTyped, LocksTyped

LEMMA FoldExpansionKeeps ==
    ASSUME IInv, NEW p \in Procs, FoldExpansion(p), ~Fail(p)
    PROVE  IInv' /\ Frame(p) /\ GoesOn(p)
<1>0. PICK v \in Vols : vol[p] = v
  BY DEF IInv, ProcOK, CallOK, FoldExpansion
<1>1. /\ TypeOK /\ ProcOK(p) /\ GenerationOK(v) /\ HasMetadata(v)
      /\ pc[p] = "fold" /\ call[p] = "delete" /\ vlock[v] = p
  BY <1>0 DEF IInv, ProcOK, CallOK, LockOK, FileOK, DeleteOK, FoldExpansion,
              DeleteLabels, UnderLock
<1>2. CASE xint[v] = NoSpan
  <2>1. /\ Goto(p, "dropLeftover")
        /\ UNCHANGED <<files, db, policy, nextInc, locks, locals, acked>>
    BY <1>0, <1>2 DEF FoldExpansion
  <2>2. /\ LocalsTyped' /\ Frame(p) /\ pc'[p] = "dropLeftover"
        /\ call'[p] = call[p] /\ vol'[p] = vol[p] /\ req'[p] = req[p]
    BY <1>1, <2>1, StayFacts DEF TypeOK, locks, Labels
  <2>3. TypeOK'
    BY <1>1, <2>1, <2>2 DEF TypeOK, DurableTyped, LocksTyped, files, locks
  <2>4. HasMetadata(v)'
    BY <1>1, <2>1 DEF HasMetadata, Arriving, files, Exists
  <2>5. ProcOK(p)'
    BY <1>0, <1>1, <2>1, <2>2, <2>4
       DEF ProcOK, CallOK, LockOK, FileOK, CreateOK, DeleteOK, ExpandOK, ReclaimOK,
           ArriveLabels, CreateLabels, DeleteLabels, ReclaimLabels, UnderLock,
           Expanding, locks
  <2> QED
    BY <2>1, <2>2, <2>3, <2>5, QuietStep DEF GoesOn
<1>3. CASE xint[v] # NoSpan
  <2>1. /\ meta[v].size \in {xint[v].from, xint[v].to}
        /\ meta' = [meta EXCEPT ![v].size = xint[v].to] /\ Goto(p, "dropExpansion")
        /\ UNCHANGED <<intent, xint, payload, arcMeta, arcPayload, db, policy,
                       nextInc, locks, locals, acked>>
    BY <1>0, <1>3 DEF FoldExpansion
  <2>2. xint[v].from \in Sizes /\ xint[v].to \in Sizes
    BY <1>1, <1>3 DEF TypeOK, DurableTyped, Spans
  <2>3. Exists(meta[v])
    BY <1>1, <2>1, <2>2, RecordFacts, ConstantsAssumption
       DEF Metadata, Kind, NoRec, Rec, Exists
  <2>4. /\ meta'[v] \in Metadata /\ Exists(meta'[v]) /\ meta'[v].inc = meta[v].inc
        /\ meta'[v].state = meta[v].state
    BY <1>1, <2>1, <2>2, <2>3 DEF TypeOK, DurableTyped, Metadata, Kind, NoRec, Rec, Exists
  <2>5. meta' \in [Vols -> Metadata] /\ \A w \in Vols \ {v} : meta'[w] = meta[w]
    BY <1>1, <2>1, <2>4 DEF TypeOK, DurableTyped
  <2>6. /\ LocalsTyped' /\ Frame(p) /\ pc'[p] = "dropExpansion"
        /\ call'[p] = call[p] /\ vol'[p] = vol[p] /\ req'[p] = req[p]
    BY <1>1, <2>1, StayFacts DEF TypeOK, locks, Labels
  <2>7. TypeOK' /\ \A w \in Vols \ {v} : FilesKept(w)
    BY <1>1, <2>1, <2>5, <2>6 DEF TypeOK, DurableTyped, LocksTyped, locks, FilesKept
  <2>8. HasMetadata(v)'
    BY <2>4 DEF HasMetadata
  <2>9. ProcOK(p)'
    BY <1>0, <1>1, <2>1, <2>6, <2>8
       DEF ProcOK, CallOK, LockOK, FileOK, CreateOK, DeleteOK, ExpandOK, ReclaimOK,
           ArriveLabels, CreateLabels, DeleteLabels, ReclaimLabels, UnderLock,
           Expanding, locks
  <2>10. GenerationOK(v)' /\ \A i \in Incs : Past(v, i) => Past(v, i)'
    BY <1>1, <2>1, <2>3, <2>4 DEF GenerationOK, Past, Exists
  <2>11. \A q \in Procs \ {p} : vol[q] = v /\ pc[q] # "idle" => FileOK(q)'
    BY <1>0, <1>1, <2>6, <2>10, LockedRivals
  <2> QED
    BY <2>6, <2>7, <2>9, <2>10, <2>11, FileStep DEF GoesOn
<1> QED
  BY <1>2, <1>3

LEMMA DropExpansionKeeps ==
    ASSUME IInv, NEW p \in Procs, DropExpansion(p)
    PROVE  IInv' /\ Frame(p) /\ GoesOn(p)
<1>0. PICK v \in Vols : vol[p] = v
  BY DEF IInv, ProcOK, CallOK, DropExpansion
<1>1. /\ TypeOK /\ ProcOK(p) /\ HasMetadata(v)
      /\ pc[p] = "dropExpansion" /\ call[p] = "delete" /\ vlock[v] = p
  BY <1>0 DEF IInv, ProcOK, CallOK, LockOK, FileOK, DeleteOK, DropExpansion,
              DeleteLabels, UnderLock
<1>2. /\ xint' = [xint EXCEPT ![v] = NoSpan] /\ Goto(p, "dropLeftover")
      /\ UNCHANGED <<intent, meta, payload, arcMeta, arcPayload, db, policy,
                     nextInc, locks, locals, acked>>
  BY <1>0 DEF DropExpansion
<1>3. /\ LocalsTyped' /\ Frame(p) /\ pc'[p] = "dropLeftover"
      /\ call'[p] = call[p] /\ vol'[p] = vol[p] /\ req'[p] = req[p]
  BY <1>1, <1>2, StayFacts DEF TypeOK, locks, Labels
<1>4. TypeOK'
  BY <1>1, <1>2, <1>3 DEF TypeOK, DurableTyped, LocksTyped, locks, Spans
<1>5. HasMetadata(v)'
  BY <1>1, <1>2 DEF HasMetadata, Arriving
<1>6. ProcOK(p)'
  BY <1>0, <1>1, <1>2, <1>3, <1>5
     DEF ProcOK, CallOK, LockOK, FileOK, CreateOK, DeleteOK, ExpandOK, ReclaimOK,
         ArriveLabels, CreateLabels, DeleteLabels, ReclaimLabels, UnderLock,
         Expanding, locks
<1> QED
  BY <1>2, <1>3, <1>4, <1>6, KeptStep DEF GoesOn

LEMMA DropLeftoverKeeps ==
    ASSUME IInv, NEW p \in Procs, DropLeftover(p), ~Fail(p)
    PROVE  IInv' /\ Frame(p) /\ GoesOn(p)
<1>0. PICK v \in Vols : vol[p] = v
  BY DEF IInv, ProcOK, CallOK, DropLeftover
<1>1. /\ TypeOK /\ ProcOK(p) /\ GenerationOK(v) /\ HasMetadata(v)
      /\ pc[p] = "dropLeftover" /\ call[p] = "delete" /\ vlock[v] = p
  BY <1>0 DEF IInv, ProcOK, CallOK, LockOK, FileOK, DeleteOK, DropLeftover,
              DeleteLabels, UnderLock
<1>2. /\ intent' = [intent EXCEPT ![v] = NoRec] /\ Goto(p, FirstOfReclaim)
      /\ UNCHANGED <<meta, xint, payload, arcMeta, arcPayload, db, policy,
                     nextInc, locks, locals, acked>>
  BY <1>0 DEF DropLeftover
<1>3. FirstOfReclaim \in {"prepareArchive", "markDeleting"}
  BY DEF FirstOfReclaim
<1> HIDE DEF FirstOfReclaim
<1>4. /\ LocalsTyped' /\ Frame(p) /\ pc'[p] = FirstOfReclaim
      /\ call'[p] = call[p] /\ vol'[p] = vol[p] /\ req'[p] = req[p]
  <2>1. FirstOfReclaim \in Labels
    BY <1>3 DEF Labels
  <2> QED
    BY <1>1, <1>2, <2>1, StayFacts DEF TypeOK, locks
<1>5. TypeOK' /\ intent'[v] = NoRec /\ \A w \in Vols \ {v} : FilesKept(w)
  BY <1>1, <1>2, <1>4
     DEF TypeOK, DurableTyped, LocksTyped, locks, FilesKept, Intents, Kind
<1>6. HasMetadata(v)'
  BY <1>1, <1>2 DEF HasMetadata, Arriving
<1>7. ProcOK(p)'
  BY <1>0, <1>1, <1>2, <1>3, <1>4, <1>5, <1>6
     DEF ProcOK, CallOK, LockOK, FileOK, CreateOK, DeleteOK, ExpandOK, ReclaimOK,
         ArriveLabels, CreateLabels, DeleteLabels, ReclaimLabels, UnderLock,
         Expanding, locks, Exists, NoRec, Rec
<1>8. GenerationOK(v)'
  BY <1>1, <1>2, <1>5 DEF GenerationOK, Exists, NoRec, Rec
<1>9. \A i \in Incs : Past(v, i) => Past(v, i)'
  BY <1>2, <1>5 DEF Past, Exists, NoRec, Rec
<1>10. \A q \in Procs \ {p} : vol[q] = v /\ pc[q] # "idle" => FileOK(q)'
  BY <1>0, <1>1, <1>4, <1>9, LockedRivals
<1> QED
  BY <1>4, <1>5, <1>7, <1>8, <1>10, FileStep DEF GoesOn

LEMMA MarkDeletingKeeps ==
    ASSUME IInv, NEW p \in Procs, MarkDeleting(p), ~Fail(p)
    PROVE  IInv' /\ Frame(p) /\ GoesOn(p)
<1>0. PICK v \in Vols : vol[p] = v
  BY DEF IInv, ProcOK, CallOK, MarkDeleting
<1>1. /\ TypeOK /\ ProcOK(p) /\ GenerationOK(v) /\ ~Exists(intent[v])
      /\ pc[p] = "markDeleting" /\ call[p] = "delete" /\ vlock[v] = p
  BY <1>0 DEF IInv, ProcOK, CallOK, LockOK, FileOK, DeleteOK, MarkDeleting,
              DeleteLabels, UnderLock
<1>2. /\ MetadataOf(v).state \in {"live", "deleting"}
      /\ meta' = [meta EXCEPT ![v].state = "deleting"] /\ Goto(p, "destroy")
      /\ UNCHANGED <<intent, xint, payload, arcMeta, arcPayload, db, policy,
                     nextInc, locks, locals, acked>>
  BY <1>0 DEF MarkDeleting, Deletable
<1>3. Exists(meta[v])
  BY <1>1, <1>2, MetadataOfFacts DEF HasMetadata, Exists
<1>4. /\ meta'[v] \in Metadata /\ meta'[v].state = "deleting"
      /\ meta'[v].inc = meta[v].inc
  BY <1>1, <1>2, <1>3 DEF TypeOK, DurableTyped, Metadata, Kind, NoRec, Rec, Exists
<1>5. meta' \in [Vols -> Metadata] /\ \A w \in Vols \ {v} : meta'[w] = meta[w]
  BY <1>1, <1>2, <1>4 DEF TypeOK, DurableTyped
<1>6. /\ LocalsTyped' /\ Frame(p) /\ pc'[p] = "destroy"
      /\ call'[p] = call[p] /\ vol'[p] = vol[p] /\ req'[p] = req[p]
  BY <1>1, <1>2, StayFacts DEF TypeOK, locks, Labels
<1>7. TypeOK' /\ \A w \in Vols \ {v} : FilesKept(w)
  BY <1>1, <1>2, <1>5, <1>6 DEF TypeOK, DurableTyped, LocksTyped, locks, FilesKept
<1>8. ProcOK(p)'
  BY <1>0, <1>1, <1>2, <1>4, <1>6
     DEF ProcOK, CallOK, LockOK, FileOK, CreateOK, DeleteOK, ExpandOK, ReclaimOK,
         ArriveLabels, CreateLabels, DeleteLabels, ReclaimLabels, UnderLock,
         Expanding, locks, Exists
<1>9. GenerationOK(v)' /\ \A i \in Incs : Past(v, i) => Past(v, i)'
  BY <1>1, <1>2, <1>3, <1>4 DEF GenerationOK, Past, Exists
<1>10. HasMetadata(v)
  BY <1>3 DEF HasMetadata
<1>11. \A q \in Procs \ {p} : vol[q] = v /\ pc[q] # "idle" => FileOK(q)'
  BY <1>0, <1>1, <1>6, <1>9, <1>10, LockedRivals
<1> QED
  BY <1>6, <1>7, <1>8, <1>9, <1>11, FileStep DEF GoesOn

LEMMA DestroyPayloadKeeps ==
    ASSUME IInv, NEW p \in Procs, DestroyPayload(p)
    PROVE  IInv' /\ Frame(p) /\ GoesOn(p)
<1>0. PICK v \in Vols : vol[p] = v
  BY DEF IInv, ProcOK, CallOK, DestroyPayload
<1>1. /\ TypeOK /\ ProcOK(p) /\ GenerationOK(v)
      /\ ~Exists(intent[v]) /\ meta[v].state = "deleting"
      /\ pc[p] = "destroy" /\ call[p] = "delete" /\ vlock[v] = p
  BY <1>0 DEF IInv, ProcOK, CallOK, LockOK, FileOK, DeleteOK, DestroyPayload,
              DeleteLabels, UnderLock
<1>2. /\ payload' = [payload EXCEPT ![v] = NoPayload] /\ Goto(p, "release")
      /\ UNCHANGED <<intent, meta, xint, arcMeta, arcPayload, db, policy,
                     nextInc, locks, locals, acked>>
  BY <1>0 DEF DestroyPayload
<1>3. /\ LocalsTyped' /\ Frame(p) /\ pc'[p] = "release"
      /\ call'[p] = call[p] /\ vol'[p] = vol[p] /\ req'[p] = req[p]
  BY <1>1, <1>2, StayFacts DEF TypeOK, locks, Labels
<1>4. TypeOK' /\ \A w \in Vols \ {v} : FilesKept(w)
  BY <1>1, <1>2, <1>3 DEF TypeOK, DurableTyped, LocksTyped, locks, FilesKept, Payloads
<1>5. ProcOK(p)'
  BY <1>0, <1>1, <1>2, <1>3
     DEF ProcOK, CallOK, LockOK, FileOK, CreateOK, DeleteOK, ExpandOK, ReclaimOK,
         ArriveLabels, CreateLabels, DeleteLabels, ReclaimLabels, UnderLock,
         Expanding, locks
<1>6. GenerationOK(v)' /\ \A i \in Incs : Past(v, i) => Past(v, i)'
  BY <1>1, <1>2 DEF GenerationOK, Past, Exists
<1>7. HasMetadata(v)
  BY <1>1 DEF HasMetadata, Exists
<1>8. \A q \in Procs \ {p} : vol[q] = v /\ pc[q] # "idle" => FileOK(q)'
  BY <1>0, <1>1, <1>3, <1>6, <1>7, LockedRivals
<1> QED
  BY <1>3, <1>4, <1>5, <1>6, <1>8, FileStep DEF GoesOn

LEMMA ReleaseRowKeeps ==
    ASSUME IInv, NEW p \in Procs, ReleaseRow(p)
    PROVE  IInv' /\ Frame(p) /\ GoesOn(p)
<1>0. PICK v \in Vols : vol[p] = v
  BY DEF IInv, ProcOK, CallOK, ReleaseRow
<1>1. /\ TypeOK /\ ProcOK(p) /\ ~Exists(intent[v]) /\ meta[v].state = "deleting"
      /\ pc[p] = "release" /\ call[p] = "delete" /\ vlock[v] = p
  BY <1>0 DEF IInv, ProcOK, CallOK, LockOK, FileOK, DeleteOK, ReleaseRow,
              DeleteLabels, UnderLock
<1>2. /\ db' = [db EXCEPT ![v] = 0] /\ Goto(p, "unlink")
      /\ UNCHANGED <<files, policy, nextInc, locks, locals, acked>>
  BY <1>0 DEF ReleaseRow
<1>3. /\ LocalsTyped' /\ Frame(p) /\ pc'[p] = "unlink"
      /\ call'[p] = call[p] /\ vol'[p] = vol[p] /\ req'[p] = req[p]
  BY <1>1, <1>2, StayFacts DEF TypeOK, locks, Labels
<1>4. TypeOK'
  BY <1>1, <1>2, <1>3 DEF TypeOK, DurableTyped, LocksTyped, locks, files, SizesOrZero
<1>5. ProcOK(p)'
  BY <1>0, <1>1, <1>2, <1>3
     DEF ProcOK, CallOK, LockOK, FileOK, CreateOK, DeleteOK, ExpandOK, ReclaimOK,
         ArriveLabels, CreateLabels, DeleteLabels, ReclaimLabels, UnderLock,
         Expanding, locks, files
<1> QED
  BY <1>2, <1>3, <1>4, <1>5, QuietStep DEF GoesOn

LEMMA UnlinkMetadataKeeps ==
    ASSUME IInv, NEW p \in Procs, UnlinkMetadata(p)
    PROVE  IInv' /\ Frame(p) /\ GoesOn(p)
<1>0. PICK v \in Vols : vol[p] = v
  BY DEF IInv, ProcOK, CallOK, UnlinkMetadata
<1>1. /\ TypeOK /\ ProcOK(p) /\ GenerationOK(v)
      /\ ~Exists(intent[v]) /\ meta[v].state = "deleting"
      /\ pc[p] = "unlink" /\ call[p] = "delete" /\ vlock[v] = p
  BY <1>0 DEF IInv, ProcOK, CallOK, LockOK, FileOK, DeleteOK, UnlinkMetadata,
              DeleteLabels, UnderLock
<1>2. /\ meta' = [meta EXCEPT ![v] = NoRec] /\ Leave(p)
      /\ UNCHANGED <<intent, xint, payload, arcMeta, arcPayload, db, policy,
                     nextInc, acked>>
  BY <1>0 DEF UnlinkMetadata
<1>3. /\ LocksTyped' /\ LocalsTyped' /\ Frame(p)
      /\ pc'[p] = "idle" /\ call'[p] = "none"
  BY <1>1, <1>2, LeaveFacts DEF TypeOK
<1>4. TypeOK' /\ meta'[v] = NoRec /\ \A w \in Vols \ {v} : FilesKept(w)
  BY <1>1, <1>2, <1>3 DEF TypeOK, DurableTyped, FilesKept, Metadata, Kind
<1>5. GenerationOK(v)'
  BY <1>1, <1>2, <1>4 DEF GenerationOK, Exists, NoRec, Rec
<1>6. \A i \in Incs : Past(v, i) => Past(v, i)'
  BY <1>2, <1>4 DEF Past, Exists, NoRec, Rec
<1>7. HasMetadata(v)
  BY <1>1 DEF HasMetadata, Exists
<1>8. \A q \in Procs \ {p} : vol[q] = v /\ pc[q] # "idle" => FileOK(q)'
  BY <1>0, <1>1, <1>3, <1>6, <1>7, LockedRivals
<1> QED
  BY <1>3, <1>4, <1>5, <1>8, IdleProcess, FileStep DEF GoesOn

LEMMA PrepareArchiveKeeps ==
    ASSUME IInv, NEW p \in Procs, PrepareArchive(p)
    PROVE  IInv' /\ Frame(p) /\ GoesOn(p)
<1>0. PICK v \in Vols : vol[p] = v
  BY DEF IInv, ProcOK, CallOK, PrepareArchive
<1>1. /\ TypeOK /\ ProcOK(p) /\ GenerationOK(v)
      /\ ~Exists(intent[v]) /\ HasMetadata(v)
      /\ pc[p] = "prepareArchive" /\ call[p] = "delete" /\ vlock[v] = p
  BY <1>0 DEF IInv, ProcOK, CallOK, LockOK, FileOK, DeleteOK, PrepareArchive,
              DeleteLabels, UnderLock
<1>2. /\ Goto(p, "movePayload")
      /\ UNCHANGED <<intent, xint, payload, arcMeta, arcPayload, db, policy,
                     nextInc, locks, locals, acked>>
  BY <1>0 DEF PrepareArchive
<1>3. /\ LocalsTyped' /\ Frame(p) /\ pc'[p] = "movePayload"
      /\ call'[p] = call[p] /\ vol'[p] = vol[p] /\ req'[p] = req[p]
  BY <1>1, <1>2, StayFacts DEF TypeOK, locks, Labels
<1>4. /\ meta' \in [Vols -> Metadata] /\ \A w \in Vols \ {v} : meta'[w] = meta[w]
      /\ meta'[v].inc = meta[v].inc /\ (Exists(meta'[v]) <=> Exists(meta[v]))
      /\ Exists(meta[v]) => meta'[v].state = "archiving"
  <2>1. CASE Exists(meta[v])
    <3>1. meta' = [meta EXCEPT ![v].state = "archiving"]
      BY <1>0, <2>1 DEF PrepareArchive
    <3>2. /\ meta'[v] \in Metadata /\ meta'[v].state = "archiving"
          /\ meta'[v].inc = meta[v].inc
      BY <1>1, <2>1, <3>1 DEF TypeOK, DurableTyped, Metadata, Kind, NoRec, Rec, Exists
    <3> QED
      BY <1>1, <2>1, <3>1, <3>2 DEF TypeOK, DurableTyped, Exists
  <2>2. CASE ~Exists(meta[v])
    BY <1>0, <1>1, <2>2 DEF PrepareArchive, TypeOK, DurableTyped
  <2> QED
    BY <2>1, <2>2
<1>5. TypeOK' /\ \A w \in Vols \ {v} : FilesKept(w)
  BY <1>1, <1>2, <1>3, <1>4 DEF TypeOK, DurableTyped, LocksTyped, locks, FilesKept
<1>6. meta'[v].state = "archiving" \/ (~Exists(meta'[v]) /\ Arriving(v)')
  BY <1>1, <1>2, <1>4 DEF HasMetadata, Arriving
<1>7. ProcOK(p)'
  BY <1>0, <1>1, <1>2, <1>3, <1>6
     DEF ProcOK, CallOK, LockOK, FileOK, CreateOK, DeleteOK, ExpandOK, ReclaimOK,
         ArriveLabels, CreateLabels, DeleteLabels, ReclaimLabels, UnderLock,
         Expanding, locks, Exists
<1>8. GenerationOK(v)' /\ \A i \in Incs : Past(v, i) => Past(v, i)'
  BY <1>1, <1>2, <1>4 DEF GenerationOK, Past, Exists
<1>9. \A q \in Procs \ {p} : vol[q] = v /\ pc[q] # "idle" => FileOK(q)'
  BY <1>0, <1>1, <1>3, <1>8, LockedRivals
<1> QED
  BY <1>3, <1>5, <1>7, <1>8, <1>9, FileStep DEF GoesOn

LEMMA MovePayloadKeeps ==
    ASSUME IInv, NEW p \in Procs, MovePayload(p), ~Fail(p)
    PROVE  IInv' /\ Frame(p) /\ GoesOn(p)
<1>0. PICK v \in Vols : vol[p] = v
  BY DEF IInv, ProcOK, CallOK, MovePayload
<1>1. /\ TypeOK /\ ProcOK(p) /\ GenerationOK(v) /\ ~Exists(intent[v])
      /\ meta[v].state = "archiving" \/ (~Exists(meta[v]) /\ Arriving(v))
      /\ pc[p] = "movePayload" /\ call[p] = "delete" /\ vlock[v] = p
  BY <1>0 DEF IInv, ProcOK, CallOK, LockOK, FileOK, DeleteOK, MovePayload,
              DeleteLabels, UnderLock
<1>2. HasMetadata(v) /\ MetadataOf(v).inc \in Incs /\ MetadataOf(v).size \in Sizes
  BY <1>1, MetadataOfFacts, RecordFacts DEF HasMetadata, Exists
<1> DEFINE a == <<v, MetadataOf(v).inc>>
<1>3. /\ arcPayload' = [arcPayload EXCEPT ![a] = IF @ = NoPayload THEN payload[v] ELSE @]
      /\ payload' = [payload EXCEPT ![v] = NoPayload] /\ Goto(p, "moveRow")
      /\ UNCHANGED <<intent, meta, xint, arcMeta, db, policy, nextInc, locks,
                     locals, acked>>
  BY <1>0 DEF MovePayload, Emptied
<1>4. a \in Archives
  BY <1>2 DEF Archives
<1> HIDE DEF a
<1>5. arcPayload' \in [Archives -> Payloads] /\ payload' \in [Vols -> Payloads]
  BY <1>1, <1>3, <1>4 DEF TypeOK, DurableTyped, Payloads
<1>6. /\ LocalsTyped' /\ Frame(p) /\ pc'[p] = "moveRow"
      /\ call'[p] = call[p] /\ vol'[p] = vol[p] /\ req'[p] = req[p]
  BY <1>1, <1>3, StayFacts DEF TypeOK, locks, Labels
<1>7. TypeOK' /\ \A w \in Vols \ {v} : FilesKept(w)
  BY <1>1, <1>3, <1>5, <1>6 DEF TypeOK, DurableTyped, LocksTyped, locks, FilesKept
<1>8. Arriving(v)' <=> Arriving(v)
  BY <1>3 DEF Arriving
<1>9. ProcOK(p)'
  BY <1>0, <1>1, <1>3, <1>6, <1>8
     DEF ProcOK, CallOK, LockOK, FileOK, CreateOK, DeleteOK, ExpandOK, ReclaimOK,
         ArriveLabels, CreateLabels, DeleteLabels, ReclaimLabels, UnderLock,
         Expanding, locks, Exists
<1>10. GenerationOK(v)' /\ \A i \in Incs : Past(v, i) => Past(v, i)'
  BY <1>1, <1>3 DEF GenerationOK, Past, Exists
<1>11. \A q \in Procs \ {p} : vol[q] = v /\ pc[q] # "idle" => FileOK(q)'
  BY <1>0, <1>1, <1>2, <1>6, <1>10, LockedRivals
<1> QED
  BY <1>6, <1>7, <1>9, <1>10, <1>11, FileStep DEF GoesOn

LEMMA MoveRowKeeps ==
    ASSUME IInv, NEW p \in Procs, MoveRow(p)
    PROVE  IInv' /\ Frame(p) /\ GoesOn(p)
<1>0. PICK v \in Vols : vol[p] = v
  BY DEF IInv, ProcOK, CallOK, MoveRow
<1>1. /\ TypeOK /\ ProcOK(p) /\ GenerationOK(v) /\ ~Exists(intent[v])
      /\ meta[v].state = "archiving" \/ (~Exists(meta[v]) /\ Arriving(v))
      /\ pc[p] = "moveRow" /\ call[p] = "delete" /\ vlock[v] = p
  BY <1>0 DEF IInv, ProcOK, CallOK, LockOK, FileOK, DeleteOK, MoveRow,
              DeleteLabels, UnderLock
<1>2. HasMetadata(v) /\ MetadataOf(v).inc \in Incs /\ MetadataOf(v).size \in Sizes
  BY <1>1, MetadataOfFacts, RecordFacts DEF HasMetadata, Exists
<1> DEFINE a == <<v, MetadataOf(v).inc>>
<1>3. /\ db' = [db EXCEPT ![v] = 0, ![a] = MetadataOf(v).size]
      /\ Goto(p, "moveMetadata")
      /\ UNCHANGED <<files, policy, nextInc, locks, locals, acked>>
  BY <1>0 DEF MoveRow
<1>4. a \in Ids
  BY <1>2 DEF Archives, Ids
<1> HIDE DEF a
<1>5. db' \in [Ids -> SizesOrZero]
  BY <1>1, <1>2, <1>3, <1>4 DEF TypeOK, DurableTyped, SizesOrZero
<1>6. /\ LocalsTyped' /\ Frame(p) /\ pc'[p] = "moveMetadata"
      /\ call'[p] = call[p] /\ vol'[p] = vol[p] /\ req'[p] = req[p]
  BY <1>1, <1>3, StayFacts DEF TypeOK, locks, Labels
<1>7. TypeOK'
  BY <1>1, <1>3, <1>5, <1>6 DEF TypeOK, DurableTyped, LocksTyped, locks, files
<1>8. Arriving(v)' <=> Arriving(v)
  BY <1>3 DEF Arriving, files
<1>9. ProcOK(p)'
  BY <1>0, <1>1, <1>3, <1>6, <1>8
     DEF ProcOK, CallOK, LockOK, FileOK, CreateOK, DeleteOK, ExpandOK, ReclaimOK,
         ArriveLabels, CreateLabels, DeleteLabels, ReclaimLabels, UnderLock,
         Expanding, locks, files, Exists
<1> QED
  BY <1>3, <1>6, <1>7, <1>9, QuietStep DEF GoesOn

LEMMA MoveMetadataKeeps ==
    ASSUME IInv, NEW p \in Procs, MoveMetadata(p)
    PROVE  IInv' /\ Frame(p) /\ GoesOn(p)
<1>0. PICK v \in Vols : vol[p] = v
  BY DEF IInv, ProcOK, CallOK, MoveMetadata
<1>1. /\ TypeOK /\ ProcOK(p) /\ GenerationOK(v) /\ ~Exists(intent[v])
      /\ meta[v].state = "archiving" \/ (~Exists(meta[v]) /\ Arriving(v))
      /\ pc[p] = "moveMetadata" /\ call[p] = "delete" /\ vlock[v] = p
  BY <1>0 DEF IInv, ProcOK, CallOK, LockOK, FileOK, DeleteOK, MoveMetadata,
              DeleteLabels, UnderLock
<1>2. HasMetadata(v) /\ MetadataOf(v).inc \in Incs /\ MetadataOf(v).size \in Sizes
  BY <1>1, MetadataOfFacts, RecordFacts DEF HasMetadata, Exists
<1> DEFINE i0 == MetadataOf(v).inc
<1>3. /\ found' = [found EXCEPT ![p] = MetadataOf(v)] /\ Goto(p, "archived")
      /\ UNCHANGED <<intent, xint, payload, arcPayload, db, policy, nextInc,
                     locks, call, vol, req, seen, acked>>
  BY <1>0 DEF MoveMetadata
<1>4. MetadataOf(v) \in Answers
  BY <1>1, MetadataOfFacts DEF Answers
<1>5. /\ LocalsTyped' /\ Frame(p) /\ pc'[p] = "archived" /\ found'[p] = MetadataOf(v)
      /\ call'[p] = call[p] /\ vol'[p] = vol[p] /\ req'[p] = req[p]
  <2>1. "archived" \in Labels /\ UNCHANGED <<ident, vlock, call, vol, req, seen>>
    BY <1>3 DEF locks, Labels
  <2> QED
    BY <1>1, <1>3, <1>4, <2>1, FoundFacts DEF TypeOK
<1>6. /\ arcMeta' \in [Archives -> Archived] /\ meta' \in [Vols -> Metadata]
      /\ \A w \in Vols \ {v} : /\ meta'[w] = meta[w]
                               /\ \A i \in Incs : arcMeta'[<<w, i>>] = arcMeta[<<w, i>>]
      /\ ~Exists(meta'[v])
      /\ arcMeta'[<<v, i0>>].state = "archiving"
      /\ arcMeta'[<<v, i0>>].inc = i0 /\ i0 < nextInc[v]
      /\ \A i \in Incs \ {i0} : arcMeta'[<<v, i>>] = arcMeta[<<v, i>>]
      /\ Exists(meta[v]) => meta[v].inc = i0
      /\ ~Exists(meta[v]) => arcMeta[<<v, i0>>].state = "archiving"
  <2>1. CASE Exists(meta[v])
    <3>1. /\ arcMeta' = [arcMeta EXCEPT ![<<v, meta[v].inc>>] = meta[v]]
          /\ meta' = [meta EXCEPT ![v] = NoRec]
      BY <1>0, <2>1 DEF MoveMetadata
    <3>2. MetadataOf(v) = meta[v] /\ meta[v].state = "archiving" /\ i0 < nextInc[v]
      BY <1>1, <2>1, MetadataOfFacts DEF GenerationOK
    <3>3. meta[v] \in Archived /\ meta[v].inc \in Incs
      BY <1>1, <2>1, <3>2, RecordFacts DEF Metadata, Archived, Kind, Exists, NoRec, Rec
    <3>4. \A w \in Vols, i \in Incs :
             /\ <<w, i>> \in Archives
             /\ <<w, i>> = <<v, i0>> => w = v /\ i = i0
      BY DEF Archives
    <3> HIDE DEF i0
    <3>5. i0 = meta[v].inc
      BY <3>2 DEF i0
    <3>6. \A x \in Archives : arcMeta'[x] = IF x = <<v, i0>> THEN meta[v] ELSE arcMeta[x]
      BY <1>1, <3>1, <3>5 DEF TypeOK, DurableTyped
    <3>7. arcMeta' \in [Archives -> Archived] /\ meta' \in [Vols -> Metadata]
      BY <1>1, <3>1, <3>3 DEF TypeOK, DurableTyped, Metadata, Kind
    <3>8. ~Exists(meta'[v]) /\ \A w \in Vols \ {v} : meta'[w] = meta[w]
      BY <1>1, <3>1 DEF TypeOK, DurableTyped, Exists, NoRec, Rec
    <3> QED
      BY <2>1, <3>2, <3>3, <3>4, <3>5, <3>6, <3>7, <3>8
  <2>2. CASE ~Exists(meta[v])
    <3>1. UNCHANGED <<meta, arcMeta>>
      BY <1>0, <2>2 DEF MoveMetadata
    <3>2. i0 \in Incs /\ arcMeta[<<v, i0>>].state = "archiving"
      BY <1>1, <2>2, MetadataOfFacts DEF Exists
    <3>3. arcMeta[<<v, i0>>].inc = i0 /\ i0 < nextInc[v]
      BY <1>1, <3>2 DEF GenerationOK, Exists
    <3> QED
      BY <1>1, <2>2, <3>1, <3>2, <3>3 DEF TypeOK, DurableTyped
  <2> QED
    BY <2>1, <2>2
<1>7. TypeOK' /\ \A w \in Vols \ {v} : FilesKept(w)
  BY <1>1, <1>3, <1>5, <1>6 DEF TypeOK, DurableTyped, LocksTyped, locks, FilesKept
<1>8. ProcOK(p)'
  BY <1>0, <1>1, <1>2, <1>3, <1>5, <1>6
     DEF ProcOK, CallOK, LockOK, FileOK, CreateOK, DeleteOK, ExpandOK, ReclaimOK,
         ArriveLabels, CreateLabels, DeleteLabels, ReclaimLabels, UnderLock,
         Expanding, locks
<1>9. GenerationOK(v)'
  BY <1>1, <1>2, <1>3, <1>6 DEF GenerationOK, Exists
<1>10. \A i \in Incs : Past(v, i) => Past(v, i)'
  BY <1>1, <1>2, <1>3, <1>6 DEF Past, Exists
<1>11. \A q \in Procs \ {p} : vol[q] = v /\ pc[q] # "idle" => FileOK(q)'
  BY <1>0, <1>1, <1>2, <1>5, <1>10, LockedRivals
<1> QED
  BY <1>5, <1>7, <1>8, <1>9, <1>10, <1>11, FileStep DEF GoesOn

LEMMA MarkArchivedKeeps ==
    ASSUME IInv, NEW p \in Procs, MarkArchived(p)
    PROVE  IInv' /\ Frame(p) /\ GoesOn(p)
<1>0. PICK v \in Vols : vol[p] = v
  BY DEF IInv, ProcOK, CallOK, MarkArchived
<1>1. /\ TypeOK /\ ProcOK(p) /\ GenerationOK(v)
      /\ pc[p] = "archived" /\ call[p] = "delete" /\ vlock[v] = p
  BY <1>0 DEF IInv, ProcOK, CallOK, LockOK, MarkArchived, DeleteLabels, UnderLock
<1>2. PICK i0 \in Incs : found[p].inc = i0 /\ arcMeta[<<v, i0>>].state = "archiving"
  BY <1>0, <1>1 DEF ProcOK, FileOK, DeleteOK
<1>3. /\ arcMeta' = [arcMeta EXCEPT ![<<v, i0>>].state = "archived"] /\ Leave(p)
      /\ UNCHANGED <<intent, meta, xint, payload, arcPayload, db, policy,
                     nextInc, acked>>
  BY <1>0, <1>2 DEF MarkArchived
<1>4. /\ LocksTyped' /\ LocalsTyped' /\ Frame(p)
      /\ pc'[p] = "idle" /\ call'[p] = "none"
  BY <1>1, <1>3, LeaveFacts DEF TypeOK
<1>5. \A w \in Vols, i \in Incs :
         <<w, i>> \in Archives /\ (<<w, i>> = <<v, i0>> => w = v /\ i = i0)
  BY DEF Archives
<1>6. /\ arcMeta'[<<v, i0>>] \in Archived /\ arcMeta'[<<v, i0>>].state = "archived"
      /\ arcMeta'[<<v, i0>>].inc = arcMeta[<<v, i0>>].inc
  BY <1>1, <1>2, <1>3, <1>5 DEF TypeOK, DurableTyped, Archived, Kind, NoRec, Rec
<1>7. /\ arcMeta' \in [Archives -> Archived]
      /\ \A x \in Archives \ {<<v, i0>>} : arcMeta'[x] = arcMeta[x]
  BY <1>1, <1>3, <1>6 DEF TypeOK, DurableTyped
<1>8. TypeOK' /\ \A w \in Vols \ {v} : FilesKept(w)
  BY <1>1, <1>3, <1>4, <1>5, <1>7 DEF TypeOK, DurableTyped, FilesKept
<1>9. GenerationOK(v)'
  BY <1>1, <1>2, <1>3, <1>5, <1>6, <1>7, RecordFacts DEF GenerationOK, Exists
<1>10. \A i \in Incs : Past(v, i) => Past(v, i)'
  BY <1>2, <1>3, <1>5, <1>6, <1>7 DEF Past, Exists
<1>11. HasMetadata(v)
  BY <1>2 DEF HasMetadata, Arriving
<1>12. \A q \in Procs \ {p} : vol[q] = v /\ pc[q] # "idle" => FileOK(q)'
  BY <1>0, <1>1, <1>4, <1>10, <1>11, LockedRivals
<1> QED
  BY <1>4, <1>8, <1>9, <1>12, IdleProcess, FileStep DEF GoesOn

LEMMA DeleteKeeps ==
    ASSUME IInv, NEW p \in Procs, DeleteStep(p)
    PROVE  IInv' /\ Frame(p) /\ GoesOn(p)
BY FailStep, DeleteBodyKeeps, CancelPayloadKeeps, CancelIntentKeeps,
   CancelCommitKeeps, FoldExpansionKeeps, DropExpansionKeeps, DropLeftoverKeeps,
   MarkDeletingKeeps, DestroyPayloadKeeps, ReleaseRowKeeps, UnlinkMetadataKeeps,
   PrepareArchiveKeeps, MovePayloadKeeps, MoveRowKeeps, MoveMetadataKeeps,
   MarkArchivedKeeps
   DEF DeleteStep

\* A quota is set on a payload, made anew if need be.
LEMMA QuotaFacts ==
    ASSUME TypeOK, NEW v \in Vols, NEW z \in Sizes, NEW i \in Incs,
           payload' = QuotaSet(v, z, i)
    PROVE  /\ payload' \in [Vols -> Payloads] /\ payload'[v] # NoPayload
           /\ \A w \in Vols \ {v} : payload'[w] = payload[w]
<1> DEFINE n == [inc |-> IF payload[v] = NoPayload THEN i ELSE payload[v].inc,
                 quota |-> z]
<1>1. payload[v] \in Payloads
  BY DEF TypeOK, DurableTyped
<1>2. n \in Payloads /\ n # NoPayload
  BY <1>1, ConstantsAssumption DEF Payloads, NoPayload, SizesOrZero
<1>3. payload' = [payload EXCEPT ![v] = n]
  BY DEF QuotaSet, TypeOK, DurableTyped
<1> HIDE DEF n
<1> QED
  BY <1>2, <1>3 DEF TypeOK, DurableTyped

\* What an expansion has found and was asked for.
LEMMA ExpandingFacts ==
    ASSUME IInv, NEW p \in Procs, pc[p] \in Expanding
    PROVE  /\ found[p].state = "live" /\ found[p] \in Kind({"live"})
           /\ found[p].size \in Sizes /\ found[p].inc \in Incs
           /\ req[p] \in Sizes /\ call[p] = "expand"
BY AnswerFacts DEF IInv, ProcOK, CallOK, FileOK, ExpandOK, TypeOK, LocalsTyped, Exists

LEMMA ExpandBodyKeeps ==
    ASSUME IInv, NEW p \in Procs, ExpandBody(p), ~Fail(p)
    PROVE  IInv' /\ Frame(p) /\ GoesOn(p)
<1>0. PICK v \in Vols : vol[p] = v
  BY DEF IInv, ProcOK, CallOK, ExpandBody
<1>1. TypeOK /\ ProcOK(p) /\ pc[p] = "body" /\ call[p] = "expand"
  BY DEF IInv, ExpandBody
<1> DEFINE now     == Lookup(v)
           pending == xint[v]
           start   == IF pending = NoSpan THEN now.size ELSE pending.from
           held    == IF pending = NoSpan THEN now.size ELSE pending.to
           r       == Rec("live", start, now.inc)
<1>2. /\ now.state = "live"
      /\ db' = [db EXCEPT ![v] = held] /\ found' = [found EXCEPT ![p] = r]
      /\ UNCHANGED <<files, policy, nextInc, locks, call, vol, req, seen, acked>>
  BY <1>0 DEF ExpandBody, Reconciled
<1>3. PICK l \in {"requota", "reserve"} : Goto(p, l)
  <2>1. CASE pending = NoSpan /\ req[p] <= now.size
    BY <1>0, <2>1 DEF ExpandBody, FirstOfGrowth, Goto
  <2>2. CASE ~(pending = NoSpan /\ req[p] <= now.size)
    BY <1>0, <2>2 DEF ExpandBody, FirstOfGrowth, Goto
  <2> QED
    BY <2>1, <2>2
<1>4. now.size \in Sizes /\ now.inc \in Incs
  BY <1>1, <1>2, LookupFacts, AnswerFacts DEF Exists
<1>5. start \in Sizes /\ held \in Sizes
  BY <1>1, <1>4 DEF TypeOK, DurableTyped, Spans
<1>6. r \in Answers /\ r.state = "live"
  BY <1>4, <1>5 DEF Answers, Metadata, Kind, Rec
<1> HIDE DEF now, pending, start, held, r
<1>7. /\ LocalsTyped' /\ Frame(p) /\ pc'[p] = l /\ found'[p] = r
      /\ call'[p] = call[p] /\ vol'[p] = vol[p] /\ req'[p] = req[p]
  <2>1. l \in Labels /\ UNCHANGED <<ident, vlock, call, vol, req, seen>>
    BY <1>2, <1>3 DEF Labels, locks
  <2> QED
    BY <1>1, <1>2, <1>3, <1>6, <2>1, FoundFacts DEF TypeOK
<1>8. TypeOK'
  BY <1>1, <1>2, <1>5, <1>7
     DEF TypeOK, DurableTyped, LocksTyped, files, locks, SizesOrZero
<1>9. ProcOK(p)'
  BY <1>0, <1>1, <1>2, <1>3, <1>6, <1>7
     DEF ProcOK, CallOK, LockOK, FileOK, CreateOK, DeleteOK, ExpandOK, ReclaimOK,
         ArriveLabels, CreateLabels, DeleteLabels, ReclaimLabels, UnderLock,
         Expanding, locks
<1> QED
  BY <1>2, <1>7, <1>8, <1>9, QuietStep DEF GoesOn

LEMMA RequotaKeeps ==
    ASSUME IInv, NEW p \in Procs, Requota(p)
    PROVE  IInv' /\ Frame(p) /\ GoesOn(p)
<1>0. PICK v \in Vols : vol[p] = v
  BY DEF IInv, ProcOK, CallOK, Requota
<1>1. /\ TypeOK /\ GenerationOK(v) /\ found[p] \in Kind({"live"})
      /\ found[p].size \in Sizes /\ found[p].inc \in Incs
  BY ExpandingFacts DEF IInv, Requota, Expanding
<1>2. /\ payload' = QuotaSet(v, found[p].size, found[p].inc)
      /\ Promise(p, v, found[p]) /\ Leave(p)
      /\ UNCHANGED <<intent, meta, xint, arcMeta, arcPayload, db, policy, nextInc>>
  BY <1>0 DEF Requota
<1>3. /\ payload' \in [Vols -> Payloads] /\ payload'[v] # NoPayload
      /\ \A w \in Vols \ {v} : payload'[w] = payload[w]
  BY <1>1, <1>2, QuotaFacts
<1>4. acked' \in [Vols -> Promises]
  BY <1>1, <1>2, PromiseFacts DEF TypeOK, DurableTyped
<1>5. /\ LocksTyped' /\ LocalsTyped' /\ Frame(p)
      /\ pc'[p] = "idle" /\ call'[p] = "none"
  BY <1>1, <1>2, LeaveFacts DEF TypeOK
<1>6. TypeOK' /\ \A w \in Vols \ {v} : FilesKept(w)
  BY <1>1, <1>2, <1>3, <1>4, <1>5 DEF TypeOK, DurableTyped, FilesKept
<1>7. GenerationOK(v)'
  BY <1>1, <1>2 DEF GenerationOK, Exists
<1>8. \A q \in Procs \ {p} : vol[q] = v /\ pc[q] # "idle" => FileOK(q)'
  BY <1>2, <1>3, <1>5, ExpandRivals
<1> QED
  BY <1>5, <1>6, <1>7, <1>8, IdleProcess, FileStep DEF GoesOn

LEMMA ReserveKeeps ==
    ASSUME IInv, NEW p \in Procs, Reserve(p), ~Fail(p)
    PROVE  IInv' /\ Frame(p) /\ GoesOn(p)
<1>0. PICK v \in Vols : vol[p] = v
  BY DEF IInv, ProcOK, CallOK, Reserve
<1> DEFINE wanted == [from |-> found[p].size, to |-> req[p]]
<1>1. /\ TypeOK /\ ProcOK(p) /\ pc[p] = "reserve" /\ call[p] = "expand"
      /\ found[p].state = "live" /\ found[p].size \in Sizes /\ req[p] \in Sizes
  BY ExpandingFacts DEF IInv, Reserve, Expanding
<1>2. CASE db' = Rebuilt /\ Leave(p) /\ UNCHANGED <<files, policy, nextInc, acked>>
  BY <1>1, <1>2, RebuiltType, LeaveStep DEF TypeOK, DurableTyped
<1>3. CASE /\ xint' = [xint EXCEPT ![v] = wanted]
           /\ txOwner' = p /\ txView' = [Rebuilt EXCEPT ![v] = wanted.to]
           /\ Goto(p, "reserveCommit")
           /\ UNCHANGED <<intent, meta, payload, arcMeta, arcPayload, db,
                          policy, nextInc, ident, vlock, locals, acked>>
  <2>1. wanted \in Spans /\ wanted.to \in SizesOrZero
    BY <1>1 DEF Spans, SizesOrZero
  <2> HIDE DEF wanted
  <2>2. xint' \in [Vols -> Spans] /\ LocksTyped'
    BY <1>1, <1>3, <2>1, RebuiltType DEF TypeOK, DurableTyped, LocksTyped
  <2>3. /\ LocalsTyped' /\ Frame(p) /\ pc'[p] = "reserveCommit" /\ found'[p] = found[p]
        /\ call'[p] = call[p] /\ vol'[p] = vol[p] /\ req'[p] = req[p]
    BY <1>1, <1>3, StayFacts DEF TypeOK, Labels
  <2>4. TypeOK'
    BY <1>1, <1>3, <2>2, <2>3 DEF TypeOK, DurableTyped
  <2>5. ProcOK(p)'
    BY <1>0, <1>1, <1>3, <2>3
       DEF ProcOK, CallOK, LockOK, FileOK, CreateOK, DeleteOK, ExpandOK, ReclaimOK,
         ArriveLabels, CreateLabels, DeleteLabels, ReclaimLabels, UnderLock,
         Expanding, locks
  <2> QED
    BY <1>3, <2>3, <2>4, <2>5, KeptStep DEF GoesOn
<1> QED
  BY <1>0, <1>2, <1>3 DEF Reserve

LEMMA ReserveCommitKeeps ==
    ASSUME IInv, NEW p \in Procs, ReserveCommit(p)
    PROVE  IInv' /\ Frame(p) /\ GoesOn(p)
<1>0. PICK v \in Vols : vol[p] = v
  BY DEF IInv, ProcOK, CallOK, ReserveCommit
<1>1. /\ TypeOK /\ ProcOK(p) /\ call[p] = "expand" /\ found[p].state = "live"
      /\ 0 \in SizesOrZero /\ pc[p] = "reserveCommit"
  BY ExpandingFacts DEF IInv, ReserveCommit, Expanding, SizesOrZero
<1>2. /\ LocalsTyped' /\ Frame(p) /\ pc'[p] = "growQuota" /\ found'[p] = found[p]
      /\ call'[p] = call[p] /\ vol'[p] = vol[p] /\ req'[p] = req[p]
  BY <1>1, StayFacts DEF ReserveCommit, AfterReserve, TypeOK, Labels
<1>3. TypeOK'
  BY <1>1, <1>2 DEF ReserveCommit, TypeOK, DurableTyped, LocksTyped, files
<1>4. ProcOK(p)'
  BY <1>0, <1>1, <1>2
     DEF ReserveCommit, ProcOK, CallOK, LockOK, FileOK, CreateOK, DeleteOK,
         ExpandOK, ReclaimOK, ArriveLabels, CreateLabels, DeleteLabels,
         ReclaimLabels, UnderLock, Expanding
<1> QED
  BY <1>2, <1>3, <1>4, QuietStep DEF GoesOn, ReserveCommit

LEMMA GrowQuotaKeeps ==
    ASSUME IInv, NEW p \in Procs, GrowQuota(p)
    PROVE  IInv' /\ Frame(p) /\ GoesOn(p)
<1>0. PICK v \in Vols : vol[p] = v
  BY DEF IInv, ProcOK, CallOK, GrowQuota
<1>1. /\ TypeOK /\ ProcOK(p) /\ GenerationOK(v) /\ pc[p] = "growQuota"
      /\ call[p] = "expand" /\ req[p] \in Sizes
      /\ found[p].state = "live" /\ found[p].inc \in Incs
  BY ExpandingFacts DEF IInv, GrowQuota, Expanding
<1>2. /\ payload' = QuotaSet(v, req[p], found[p].inc) /\ Goto(p, "growMetadata")
      /\ UNCHANGED <<intent, meta, xint, arcMeta, arcPayload, db, policy,
                     nextInc, locks, locals, acked>>
  BY <1>0 DEF GrowQuota
<1>3. /\ payload' \in [Vols -> Payloads] /\ payload'[v] # NoPayload
      /\ \A w \in Vols \ {v} : payload'[w] = payload[w]
  BY <1>1, <1>2, QuotaFacts
<1>4. /\ LocalsTyped' /\ Frame(p) /\ pc'[p] = "growMetadata" /\ found'[p] = found[p]
      /\ call'[p] = call[p] /\ vol'[p] = vol[p] /\ req'[p] = req[p]
  BY <1>1, <1>2, StayFacts DEF TypeOK, locks, Labels
<1>5. TypeOK' /\ \A w \in Vols \ {v} : FilesKept(w)
  BY <1>1, <1>2, <1>3, <1>4 DEF TypeOK, DurableTyped, LocksTyped, locks, FilesKept
<1>6. ProcOK(p)'
  BY <1>0, <1>1, <1>2, <1>4
     DEF ProcOK, CallOK, LockOK, FileOK, CreateOK, DeleteOK, ExpandOK, ReclaimOK,
         ArriveLabels, CreateLabels, DeleteLabels, ReclaimLabels, UnderLock,
         Expanding, locks
<1>7. GenerationOK(v)'
  BY <1>1, <1>2 DEF GenerationOK, Exists
<1>8. \A q \in Procs \ {p} : vol[q] = v /\ pc[q] # "idle" => FileOK(q)'
  BY <1>2, <1>3, <1>4, ExpandRivals
<1> QED
  BY <1>4, <1>5, <1>6, <1>7, <1>8, FileStep DEF GoesOn

LEMMA GrowMetadataKeeps ==
    ASSUME IInv, NEW p \in Procs, GrowMetadata(p), ~Fail(p)
    PROVE  IInv' /\ Frame(p) /\ GoesOn(p)
<1>0. PICK v \in Vols : vol[p] = v
  BY DEF IInv, ProcOK, CallOK, GrowMetadata
<1>1. /\ TypeOK /\ ProcOK(p) /\ GenerationOK(v) /\ pc[p] = "growMetadata"
      /\ call[p] = "expand" /\ req[p] \in Sizes /\ found[p].state = "live"
  BY ExpandingFacts DEF IInv, GrowMetadata, Expanding
<1>2. /\ Exists(meta[v])
      /\ meta' = [meta EXCEPT ![v].size = req[p]] /\ Goto(p, "finishExpansion")
      /\ UNCHANGED <<intent, xint, payload, arcMeta, arcPayload, db, policy,
                     nextInc, locks, locals, acked>>
  BY <1>0 DEF GrowMetadata
<1>3. /\ meta'[v] \in Metadata /\ meta'[v].state = meta[v].state
      /\ meta'[v].inc = meta[v].inc
  BY <1>1, <1>2 DEF TypeOK, DurableTyped, Metadata, Kind, NoRec, Rec, Exists
<1>4. meta' \in [Vols -> Metadata] /\ \A w \in Vols \ {v} : meta'[w] = meta[w]
  BY <1>1, <1>2, <1>3 DEF TypeOK, DurableTyped
<1>5. /\ LocalsTyped' /\ Frame(p) /\ pc'[p] = "finishExpansion" /\ found'[p] = found[p]
      /\ call'[p] = call[p] /\ vol'[p] = vol[p] /\ req'[p] = req[p]
  BY <1>1, <1>2, StayFacts DEF TypeOK, locks, Labels
<1>6. TypeOK' /\ \A w \in Vols \ {v} : FilesKept(w)
  BY <1>1, <1>2, <1>4, <1>5 DEF TypeOK, DurableTyped, LocksTyped, locks, FilesKept
<1>7. ProcOK(p)'
  BY <1>0, <1>1, <1>2, <1>5
     DEF ProcOK, CallOK, LockOK, FileOK, CreateOK, DeleteOK, ExpandOK, ReclaimOK,
         ArriveLabels, CreateLabels, DeleteLabels, ReclaimLabels, UnderLock,
         Expanding, locks
<1>8. GenerationOK(v)'
  BY <1>1, <1>2, <1>3 DEF GenerationOK, Exists
<1>9. \A q \in Procs \ {p} : vol[q] = v /\ pc[q] # "idle" => FileOK(q)'
  BY <1>2, <1>3, <1>5, ExpandRivals
<1> QED
  BY <1>5, <1>6, <1>7, <1>8, <1>9, FileStep DEF GoesOn

LEMMA FinishExpansionKeeps ==
    ASSUME IInv, NEW p \in Procs, FinishExpansion(p), ~Fail(p)
    PROVE  IInv' /\ Frame(p) /\ GoesOn(p)
<1>0. PICK v \in Vols : vol[p] = v
  BY DEF IInv, ProcOK, CallOK, FinishExpansion
<1>1. /\ TypeOK /\ req[p] \in Sizes /\ found[p].inc \in Incs
  BY ExpandingFacts DEF IInv, FinishExpansion, Expanding
<1>2. /\ xint' = [xint EXCEPT ![v] = NoSpan]
      /\ Promise(p, v, Rec("live", req[p], found[p].inc)) /\ Leave(p)
      /\ UNCHANGED <<intent, meta, payload, arcMeta, arcPayload, db, policy, nextInc>>
  BY <1>0 DEF FinishExpansion
<1>3. Rec("live", req[p], found[p].inc) \in Kind({"live"})
  BY <1>1 DEF Kind, Rec
<1>4. acked' \in [Vols -> Promises]
  BY <1>1, <1>2, <1>3, PromiseFacts DEF TypeOK, DurableTyped
<1>5. /\ LocksTyped' /\ LocalsTyped' /\ Frame(p)
      /\ pc'[p] = "idle" /\ call'[p] = "none"
  BY <1>1, <1>2, LeaveFacts DEF TypeOK
<1>6. TypeOK'
  BY <1>1, <1>2, <1>4, <1>5 DEF TypeOK, DurableTyped, Spans
<1> QED
  BY <1>2, <1>5, <1>6, IdleProcess, KeptStep DEF GoesOn

LEMMA ExpandKeeps ==
    ASSUME IInv, NEW p \in Procs, ExpandStep(p)
    PROVE  IInv' /\ Frame(p) /\ GoesOn(p)
BY FailStep, ExpandBodyKeeps, RequotaKeeps, ReserveKeeps, ReserveCommitKeeps,
   GrowQuotaKeeps, GrowMetadataKeeps, FinishExpansionKeeps
   DEF ExpandStep

\* What a purge has found, and that nobody else works at that generation.
LEMMA ReclaimingFacts ==
    ASSUME IInv, NEW p \in Procs, pc[p] \in ReclaimLabels
    PROVE  /\ vol[p] \in Vols /\ found[p].inc \in Incs /\ found[p].size \in Sizes
           /\ Target(p) = <<vol[p], found[p].inc>> /\ Target(p) \in Archives
           /\ found[p].state \in {"archived", "reclaiming"}
           /\ Past(vol[p], found[p].inc)
           /\ call[p] = "reclaim" /\ TypeOK /\ ProcOK(p)
<1>1. /\ found[p] \in Answers /\ found[p].state \in {"archived", "reclaiming"}
      /\ vol[p] \in Vols /\ Past(vol[p], found[p].inc) /\ call[p] = "reclaim"
      /\ TypeOK /\ ProcOK(p)
  BY DEF IInv, ProcOK, CallOK, FileOK, ReclaimOK, TypeOK, LocalsTyped, ReclaimLabels
<1>2. found[p].inc \in Incs /\ found[p].size \in Sizes
  BY <1>1, AnswerFacts DEF Exists
<1> QED
  BY <1>1, <1>2 DEF Target, Archives

LEMMA ReclaimMarkKeeps ==
    ASSUME IInv, NEW p \in Procs, ReclaimMark(p)
    PROVE  IInv' /\ Frame(p) /\ GoesOn(p)
<1>0. PICK v \in Vols : vol[p] = v
  BY DEF IInv, ProcOK, CallOK, ReclaimMark
<1>1. PICK i0 \in Incs : found[p].inc = i0
  BY ReclaimingFacts DEF ReclaimMark, ReclaimLabels
<1>2. /\ TypeOK /\ ProcOK(p) /\ GenerationOK(v) /\ Past(v, i0)
      /\ found[p].state \in {"archived", "reclaiming"} /\ found[p].size \in Sizes
      /\ Target(p) = <<v, i0>> /\ call[p] = "reclaim" /\ pc[p] = "reclaimMark"
  BY <1>0, <1>1, ReclaimingFacts DEF IInv, ReclaimMark, ReclaimLabels
<1>3. /\ Goto(p, "reclaimPayload")
      /\ UNCHANGED <<intent, meta, xint, payload, arcPayload, db, policy,
                     nextInc, locks, locals, acked>>
  BY DEF ReclaimMark
<1>4. \A w \in Vols, i \in Incs :
         <<w, i>> \in Archives /\ (<<w, i>> = <<v, i0>> => w = v /\ i = i0)
  BY DEF Archives
<1>5. Rec("reclaiming", found[p].size, i0) \in Archived
  BY <1>2 DEF Archived, Kind, Rec
<1>6. /\ arcMeta' \in [Archives -> Archived]
      /\ \A x \in Archives \ {<<v, i0>>} : arcMeta'[x] = arcMeta[x]
      /\ \/ arcMeta'[<<v, i0>>] = arcMeta[<<v, i0>>]
         \/ arcMeta'[<<v, i0>>] = Rec("reclaiming", found[p].size, i0)
  <2>1. CASE found[p].state = "archived"
    BY <1>1, <1>2, <1>4, <1>5, <2>1 DEF ReclaimMark, TypeOK, DurableTyped
  <2>2. CASE found[p].state # "archived"
    BY <1>2, <2>2 DEF ReclaimMark, TypeOK, DurableTyped
  <2> QED
    BY <2>1, <2>2
<1>7. /\ arcMeta[<<v, i0>>].state # "archiving" /\ arcMeta'[<<v, i0>>].state # "archiving"
      /\ arcMeta'[<<v, i0>>].inc = i0 \/ arcMeta'[<<v, i0>>] = arcMeta[<<v, i0>>]
  BY <1>2, <1>6 DEF Past, Rec
<1>8. /\ LocalsTyped' /\ Frame(p) /\ pc'[p] = "reclaimPayload" /\ found'[p] = found[p]
      /\ call'[p] = call[p] /\ vol'[p] = vol[p] /\ req'[p] = req[p]
  BY <1>2, <1>3, StayFacts DEF TypeOK, locks, Labels
<1>9. TypeOK' /\ \A w \in Vols \ {v} : FilesKept(w)
  BY <1>2, <1>3, <1>4, <1>6, <1>8 DEF TypeOK, DurableTyped, LocksTyped, locks, FilesKept
<1>10. Past(v, i0)'
  BY <1>2, <1>3, <1>7 DEF Past
<1>11. ProcOK(p)'
  BY <1>0, <1>1, <1>2, <1>3, <1>8, <1>10
     DEF ProcOK, CallOK, LockOK, FileOK, CreateOK, DeleteOK, ExpandOK, ReclaimOK,
         ArriveLabels, CreateLabels, DeleteLabels, ReclaimLabels, UnderLock,
         Expanding, locks
<1>12. GenerationOK(v)'
  BY <1>2, <1>3, <1>4, <1>6, <1>7, RecordFacts DEF GenerationOK, Past
<1>13. \A i \in Incs \ {i0} : arcMeta'[<<v, i>>] = arcMeta[<<v, i>>]
  BY <1>4, <1>6
<1>14. \A q \in Procs \ {p} : vol[q] = v /\ pc[q] # "idle" => FileOK(q)'
  BY <1>3, <1>7, <1>8, <1>13, ReclaimRivals
<1> QED
  BY <1>8, <1>9, <1>11, <1>12, <1>14, FileStep DEF GoesOn

LEMMA ReclaimPayloadKeeps ==
    ASSUME IInv, NEW p \in Procs, ReclaimPayload(p)
    PROVE  IInv' /\ Frame(p) /\ GoesOn(p)
<1>0. PICK v \in Vols : vol[p] = v
  BY DEF IInv, ProcOK, CallOK, ReclaimPayload
<1>1. /\ TypeOK /\ ProcOK(p) /\ Past(v, found[p].inc) /\ call[p] = "reclaim"
      /\ pc[p] = "reclaimPayload"
      /\ found[p].state \in {"archived", "reclaiming"} /\ Target(p) \in Archives
  BY <1>0, ReclaimingFacts DEF ReclaimPayload, ReclaimLabels
<1>2. /\ arcPayload' = [arcPayload EXCEPT ![Target(p)] = NoPayload]
      /\ Goto(p, "reclaimRow")
      /\ UNCHANGED <<intent, meta, xint, payload, arcMeta, db, policy, nextInc,
                     locks, locals, acked>>
  BY DEF ReclaimPayload
<1>3. /\ LocalsTyped' /\ Frame(p) /\ pc'[p] = "reclaimRow" /\ found'[p] = found[p]
      /\ call'[p] = call[p] /\ vol'[p] = vol[p] /\ req'[p] = req[p]
  BY <1>1, <1>2, StayFacts DEF TypeOK, locks, Labels
<1>4. arcPayload' \in [Archives -> Payloads]
  BY <1>1, <1>2 DEF TypeOK, DurableTyped, Payloads
<1>5. TypeOK'
  BY <1>1, <1>2, <1>3, <1>4 DEF TypeOK, DurableTyped, LocksTyped, locks
<1>6. ProcOK(p)'
  BY <1>0, <1>1, <1>2, <1>3
     DEF ProcOK, CallOK, LockOK, FileOK, CreateOK, DeleteOK, ExpandOK, ReclaimOK,
         ArriveLabels, CreateLabels, DeleteLabels, ReclaimLabels, UnderLock,
         Expanding, locks, Past
<1> QED
  BY <1>2, <1>3, <1>5, <1>6, KeptStep DEF GoesOn

LEMMA ReclaimRowKeeps ==
    ASSUME IInv, NEW p \in Procs, ReclaimRow(p), ~Fail(p)
    PROVE  IInv' /\ Frame(p) /\ GoesOn(p)
<1>0. PICK v \in Vols : vol[p] = v
  BY DEF IInv, ProcOK, CallOK, ReclaimRow
<1>1. /\ TypeOK /\ ProcOK(p) /\ Past(v, found[p].inc) /\ call[p] = "reclaim"
      /\ pc[p] = "reclaimRow"
      /\ found[p].state \in {"archived", "reclaiming"} /\ Target(p) \in Archives
  BY <1>0, ReclaimingFacts DEF ReclaimRow, ReclaimLabels
<1>2. /\ db' = [Rebuilt EXCEPT ![Target(p)] = 0] /\ Goto(p, "reclaimUnlink")
      /\ UNCHANGED <<files, policy, nextInc, locks, locals, acked>>
  BY DEF ReclaimRow
<1>3. /\ LocalsTyped' /\ Frame(p) /\ pc'[p] = "reclaimUnlink" /\ found'[p] = found[p]
      /\ call'[p] = call[p] /\ vol'[p] = vol[p] /\ req'[p] = req[p]
  BY <1>1, <1>2, StayFacts DEF TypeOK, locks, Labels
<1>4. db' \in [Ids -> SizesOrZero]
  BY <1>1, <1>2, RebuiltType DEF SizesOrZero
<1>5. TypeOK'
  BY <1>1, <1>2, <1>3, <1>4 DEF TypeOK, DurableTyped, LocksTyped, locks, files
<1>6. ProcOK(p)'
  BY <1>0, <1>1, <1>2, <1>3
     DEF ProcOK, CallOK, LockOK, FileOK, CreateOK, DeleteOK, ExpandOK, ReclaimOK,
         ArriveLabels, CreateLabels, DeleteLabels, ReclaimLabels, UnderLock,
         Expanding, locks, Past, files
<1> QED
  BY <1>2, <1>3, <1>5, <1>6, QuietStep DEF GoesOn

LEMMA ReclaimUnlinkKeeps ==
    ASSUME IInv, NEW p \in Procs, ReclaimUnlink(p)
    PROVE  IInv' /\ Frame(p) /\ GoesOn(p)
<1>0. PICK v \in Vols : vol[p] = v
  BY DEF IInv, ProcOK, CallOK, ReclaimUnlink
<1>1. PICK i0 \in Incs : found[p].inc = i0
  BY ReclaimingFacts DEF ReclaimUnlink, ReclaimLabels
<1>2. TypeOK /\ GenerationOK(v) /\ Past(v, i0) /\ Target(p) = <<v, i0>>
  BY <1>0, <1>1, ReclaimingFacts DEF IInv, ReclaimUnlink, ReclaimLabels
<1>3. /\ arcMeta' = [arcMeta EXCEPT ![<<v, i0>>] = NoRec] /\ Leave(p)
      /\ UNCHANGED <<intent, meta, xint, payload, arcPayload, db, policy,
                     nextInc, acked>>
  BY <1>2 DEF ReclaimUnlink
<1>4. \A w \in Vols, i \in Incs :
         <<w, i>> \in Archives /\ (<<w, i>> = <<v, i0>> => w = v /\ i = i0)
  BY DEF Archives
<1>5. /\ arcMeta' \in [Archives -> Archived] /\ arcMeta'[<<v, i0>>] = NoRec
      /\ \A x \in Archives \ {<<v, i0>>} : arcMeta'[x] = arcMeta[x]
  BY <1>2, <1>3, <1>4 DEF TypeOK, DurableTyped, Archived, Kind
<1>6. /\ LocksTyped' /\ LocalsTyped' /\ Frame(p)
      /\ pc'[p] = "idle" /\ call'[p] = "none"
  BY <1>2, <1>3, LeaveFacts DEF TypeOK
<1>7. TypeOK' /\ \A w \in Vols \ {v} : FilesKept(w)
  BY <1>2, <1>3, <1>4, <1>5, <1>6 DEF TypeOK, DurableTyped, FilesKept
<1>8. GenerationOK(v)'
  BY <1>2, <1>3, <1>4, <1>5, RecordFacts DEF GenerationOK, Exists, NoRec, Rec
<1>9. /\ arcMeta[<<v, i0>>].state # "archiving" /\ arcMeta'[<<v, i0>>].state # "archiving"
      /\ \A i \in Incs \ {i0} : arcMeta'[<<v, i>>] = arcMeta[<<v, i>>]
  BY <1>2, <1>4, <1>5 DEF Past, NoRec, Rec
<1>10. \A q \in Procs \ {p} : vol[q] = v /\ pc[q] # "idle" => FileOK(q)'
  BY <1>3, <1>6, <1>9, ReclaimRivals
<1> QED
  BY <1>6, <1>7, <1>8, <1>10, IdleProcess, FileStep DEF GoesOn

LEMMA ReclaimKeeps ==
    ASSUME IInv, NEW p \in Procs, ReclaimStep(p)
    PROVE  IInv' /\ Frame(p) /\ GoesOn(p)
BY FailStep, ReclaimMarkKeeps, ReclaimPayloadKeeps, ReclaimRowKeeps,
   ReclaimUnlinkKeeps
   DEF ReclaimStep

LEMMA ChangePolicyKeeps ==
    ASSUME IInv, ChangePolicy
    PROVE  IInv'
<1>1. TypeOK'
  BY DEF ChangePolicy, IInv, TypeOK, DurableTyped, LocksTyped, LocalsTyped, files,
         locks, locals
<1>2. \A v \in Vols : FilesKept(v)
  BY DEF ChangePolicy, files, FilesKept
<1>3. \A q \in Procs : Same(q)
  BY DEF ChangePolicy, Same, locals, locks
<1>4. \A v \in Vols : GenerationOK(v)'
  BY <1>2, KeptGenerations DEF IInv
<1>5. \A q \in Procs : ProcOK(q)'
  BY <1>2, <1>3, KeptProcess DEF IInv
<1> QED
  BY <1>1, <1>4, <1>5 DEF IInv

LEMMA StepKeeps ==
    ASSUME IInv, NEW p \in Procs, Step(p)
    PROVE  IInv' /\ Frame(p) /\ GoesOn(p)
BY ArriveKeeps, CreateKeeps, DeleteKeeps, ExpandKeeps, ReclaimKeeps DEF Step

LEMMA AbandonKeeps ==
    ASSUME IInv, NEW p \in Procs, Abandon(p)
    PROVE  IInv' /\ Frame(p) /\ GoesOn(p)
BY FailStep DEF Abandon

LEMMA InitIInv == Init => IInv
<1> SUFFICES ASSUME Init PROVE IInv
  OBVIOUS
<1>1. NoRec \in Intents /\ NoRec \in Metadata /\ NoRec \in Archived /\ NoRec \in Answers
  BY DEF Intents, Metadata, Archived, Answers, Kind
<1>2. NoSpan \in Spans /\ NoPayload \in Payloads /\ NoRec \in Promises /\ 0 \in SizesOrZero
  BY DEF Spans, Payloads, Promises, Kind, SizesOrZero
<1>3. 1 \in 1..(MaxGen + 1)
  BY ConstantsAssumption
<1>4. DurableTyped
  BY <1>1, <1>2, <1>3 DEF Init, DurableTyped
<1>5. LocksTyped /\ LocalsTyped
  BY <1>1, <1>2 DEF Init, LocksTyped, LocalsTyped, Labels
<1>6. \A v \in Vols : GenerationOK(v)
  BY DEF Init, GenerationOK, Exists, NoRec, Rec, Archives
<1>7. \A p \in Procs : ProcOK(p)
  BY DEF Init, ProcOK, FileOK, CallOK, LockOK, CreateOK, DeleteOK, ExpandOK,
         ReclaimOK, ArriveLabels, CreateLabels, DeleteLabels, ReclaimLabels,
         UnderLock, Expanding
<1> QED
  BY <1>4, <1>5, <1>6, <1>7 DEF IInv, TypeOK

LEMMA NextKeeps == IInv /\ [Next]_vars => IInv'
<1> SUFFICES ASSUME IInv, [Next]_vars PROVE IInv'
  OBVIOUS
<1>1. CASE Next
  BY <1>1, StartKeeps, StepKeeps, AbandonKeeps, ChangePolicyKeeps DEF Next
<1>2. CASE UNCHANGED vars
  <2>1. TypeOK'
    BY <1>2 DEF IInv, TypeOK, DurableTyped, LocksTyped, LocalsTyped, vars, files,
                locks, locals
  <2>2. (\A v \in Vols : FilesKept(v)) /\ (\A q \in Procs : Same(q))
    BY <1>2 DEF vars, files, locks, locals, FilesKept, Same
  <2>3. \A v \in Vols : GenerationOK(v)'
    BY <2>2, KeptGenerations DEF IInv
  <2>4. \A q \in Procs : ProcOK(q)'
    BY <2>2, KeptProcess DEF IInv
  <2> QED
    BY <2>1, <2>3, <2>4 DEF IInv
<1> QED
  BY <1>1, <1>2

-----------------------------------------------------------------------------
(***************************************************************************)
(* Theorems.                                                               *)
(***************************************************************************)

\* The inductive invariant holds: whoever crashes wherever, every process
\* knows what its place in the code says it knows of locks and files.
THEOREM Inductive == Spec => []IInv
<1>1. Init => IInv
  BY InitIInv
<1>2. IInv /\ [Next]_vars => IInv'
  BY NextKeeps
<1> QED
  BY <1>1, <1>2, PTL DEF Spec

\* Every file, row, lock and local variable of CreateVolume, DeleteVolume,
\* ControllerExpandVolume and remove_archived_pv keeps its type; an existing
\* record names a size that was asked for and a generation handed out.
THEOREM TypeCorrect == Spec => []TypeOK
<1>1. IInv => TypeOK
  BY DEF IInv
<1> QED
  BY <1>1, Inductive, PTL

\* A process at a step that changes the files of a volume holds the lock
\* which serialized_existing_volume_operation and _delete_volume_locked take,
\* and a running create holds the identity of its name.
LocksHeld ==
    \A p \in Procs :
        /\ pc[p] \in UnderLock => vlock[vol[p]] = p
        /\ call[p] = "create" /\ pc[p] # "ident" => ident[vol[p]] = p

THEOREM LocksAreHeld == Spec => []LocksHeld
<1>1. IInv => LocksHeld
  BY DEF IInv, ProcOK, LockOK, LocksHeld
<1> QED
  BY <1>1, Inductive, PTL

-----------------------------------------------------------------------------
(***************************************************************************)
(* Loss of an active payload.                                              *)
(***************************************************************************)
Authorised(v) ==
    \/ meta[v].state = "deleting"
    \/ ~Exists(meta[v]) /\ Exists(intent[v])
    \/ \E i \in Incs : arcPayload'[<<v, i>>] = payload[v]

LossAuthorised ==
    \A v \in Vols : payload[v] # NoPayload /\ payload'[v] = NoPayload => Authorised(v)

LEMMA CancelLoss ==
    ASSUME IInv, NEW p \in Procs, CancelPayload(p) PROVE LossAuthorised
<1>1. PICK v \in Vols : vol[p] = v
  BY DEF IInv, ProcOK, CallOK, CancelPayload
<1>2. found[p].state = "creating"
  BY DEF IInv, ProcOK, FileOK, DeleteOK, CancelPayload
<1>3. CASE Fail(p)
  BY <1>3 DEF Fail, files, LossAuthorised
<1>4. CASE ~Fail(p)
  BY <1>1, <1>2, <1>4
     DEF CancelPayload, LossAuthorised, Authorised, Exists, IInv, TypeOK, DurableTyped
<1> QED
  BY <1>3, <1>4

LEMMA DestroyLoss ==
    ASSUME IInv, NEW p \in Procs, DestroyPayload(p) PROVE LossAuthorised
<1>1. PICK v \in Vols : vol[p] = v
  BY DEF IInv, ProcOK, CallOK, DestroyPayload
<1>2. meta[v].state = "deleting"
  BY <1>1 DEF IInv, ProcOK, FileOK, DeleteOK, DestroyPayload
<1> QED
  BY <1>1, <1>2
     DEF DestroyPayload, LossAuthorised, Authorised, IInv, TypeOK, DurableTyped

LEMMA MoveLoss ==
    ASSUME IInv, NEW p \in Procs, MovePayload(p) PROVE LossAuthorised
<1>1. PICK v \in Vols : vol[p] = v
  BY DEF IInv, ProcOK, CallOK, MovePayload
<1>2. MetadataOf(v).inc \in Incs
  <2>1. meta[v].state = "archiving" \/ (~Exists(meta[v]) /\ Arriving(v))
    BY <1>1 DEF IInv, ProcOK, FileOK, DeleteOK, MovePayload
  <2> QED
    BY <2>1, MetadataOfFacts, RecordFacts DEF IInv, Exists
<1> DEFINE i0 == MetadataOf(v).inc
           a  == <<v, i0>>
<1>3. a \in Archives
  BY <1>2 DEF Archives
<1>4. CASE Fail(p)
  BY <1>4 DEF Fail, files, LossAuthorised
<1>5. CASE ~Fail(p)
  <2>1. /\ (payload[v] = NoPayload) # (arcPayload[a] = NoPayload)
        /\ arcPayload' = [arcPayload EXCEPT ![a] = IF @ = NoPayload THEN payload[v] ELSE @]
        /\ payload' = [payload EXCEPT ![v] = NoPayload]
    BY <1>1, <1>5 DEF MovePayload, Movable, Emptied
  <2> HIDE DEF a
  <2>2. payload[v] # NoPayload => arcPayload'[a] = payload[v]
    BY <1>3, <2>1 DEF IInv, TypeOK, DurableTyped
  <2>3. payload[v] # NoPayload => Authorised(v)
    BY <1>2, <2>2 DEF a, Authorised
  <2>4. \A w \in Vols \ {v} : payload'[w] = payload[w]
    BY <2>1 DEF IInv, TypeOK, DurableTyped
  <2> QED
    BY <2>3, <2>4 DEF LossAuthorised
<1> QED
  BY <1>4, <1>5

\* The other steps leave a payload where there was one.
PayloadsStay == \A v \in Vols : payload[v] # NoPayload => payload'[v] # NoPayload

Removes(p) == CancelPayload(p) \/ DestroyPayload(p) \/ MovePayload(p)

LEMMA KeptPayloads == payload' = payload => PayloadsStay
BY DEF PayloadsStay

LEMMA WrittenStays ==
    ASSUME IInv, NEW p \in Procs,
           MakePayload(p) \/ SetQuota(p) \/ Requota(p) \/ GrowQuota(p)
    PROVE  PayloadsStay
<1>1. PICK v \in Vols : vol[p] = v
  BY DEF IInv, ProcOK, CallOK, MakePayload, SetQuota, Requota, GrowQuota
<1>2. CASE MakePayload(p)
  BY <1>1, <1>2 DEF MakePayload, PayloadsStay, IInv, TypeOK, DurableTyped
<1>3. CASE SetQuota(p)
  <2>1. payload[v] # NoPayload /\ req[p] \in Sizes
    BY <1>1, <1>3 DEF IInv, ProcOK, FileOK, CallOK, CreateOK, SetQuota, CreateLabels
  <2>2. payload'[v].quota = req[p] /\ \A w \in Vols \ {v} : payload'[w] = payload[w]
    BY <1>1, <1>3, <2>1 DEF SetQuota, IInv, TypeOK, DurableTyped, Payloads, NoPayload
  <2> QED
    BY <2>1, <2>2, ConstantsAssumption DEF PayloadsStay, NoPayload
<1>4. CASE Requota(p)
  BY <1>1, <1>4, QuotaFacts, ExpandingFacts
     DEF Requota, PayloadsStay, IInv, Expanding
<1>5. CASE GrowQuota(p)
  BY <1>1, <1>5, QuotaFacts, ExpandingFacts
     DEF GrowQuota, PayloadsStay, IInv, Expanding
<1> QED
  BY <1>2, <1>3, <1>4, <1>5

LEMMA StepStays ==
    ASSUME IInv, NEW p \in Procs, Step(p), ~Removes(p)
    PROVE  PayloadsStay
<1>1. CASE Arrive(p)
  BY <1>1, KeptPayloads
     DEF Arrive, TakeIdentity, LookMetadata, LookIntent, ReadEvidence,
         TakeVolumeLock, Relook, Fail, files
<1>2. CASE CreateStep(p)
  <2>1. CASE MakePayload(p) \/ SetQuota(p)
    BY <2>1, WrittenStays
  <2>2. CASE ~(MakePayload(p) \/ SetQuota(p))
    BY <1>2, <2>2, KeptPayloads
       DEF CreateStep, CreateBody, FinishCommitted, Reconcile, Admit, AdmitCommit,
           EnterCreation, SaveMetadata, DropIntent, RecordSize, Fail, files
  <2> QED
    BY <2>1, <2>2
<1>3. CASE DeleteStep(p)
  BY <1>3, KeptPayloads
     DEF Removes, DeleteStep, DeleteBody, CancelIntent, CancelCommit, FoldExpansion,
         DropExpansion, DropLeftover, MarkDeleting, ReleaseRow, UnlinkMetadata,
         PrepareArchive, MoveRow, MoveMetadata, MarkArchived, Fail, files
<1>4. CASE ExpandStep(p)
  <2>1. CASE Requota(p) \/ GrowQuota(p)
    BY <2>1, WrittenStays
  <2>2. CASE ~(Requota(p) \/ GrowQuota(p))
    BY <1>4, <2>2, KeptPayloads
       DEF ExpandStep, ExpandBody, Reserve, ReserveCommit, GrowMetadata,
           FinishExpansion, Fail, files
  <2> QED
    BY <2>1, <2>2
<1>5. CASE ReclaimStep(p)
  BY <1>5, KeptPayloads
     DEF ReclaimStep, ReclaimMark, ReclaimPayload, ReclaimRow, ReclaimUnlink,
         Fail, files
<1> QED
  BY <1>1, <1>2, <1>3, <1>4, <1>5 DEF Step

LEMMA NextStays ==
    IInv /\ [Next]_vars => PayloadsStay \/ \E p \in Procs : Removes(p)
<1> SUFFICES ASSUME IInv, [Next]_vars, \A p \in Procs : ~Removes(p)
             PROVE  PayloadsStay
  OBVIOUS
<1>1. CASE \E p \in Procs : Start(p)
  BY <1>1, KeptPayloads
     DEF Start, StartCreate, StartDelete, StartExpand, StartReclaim, Begin, files
<1>2. CASE \E p \in Procs : Step(p)
  BY <1>2, StepStays
<1>3. CASE \E p \in Procs : Abandon(p)
  BY <1>3, KeptPayloads DEF Abandon, Fail, files
<1>4. CASE ChangePolicy \/ UNCHANGED vars
  BY <1>4, KeptPayloads DEF ChangePolicy, vars, files
<1> QED
  BY <1>1, <1>2, <1>3, <1>4 DEF Next

LEMMA NextLoss == IInv /\ [Next]_vars => LossAuthorised
<1>1. PayloadsStay => LossAuthorised
  BY DEF PayloadsStay, LossAuthorised
<1>2. ASSUME IInv, NEW p \in Procs, Removes(p) PROVE LossAuthorised
  BY <1>2, CancelLoss, DestroyLoss, MoveLoss DEF Removes
<1> QED
  BY <1>1, <1>2, NextStays

\* No process of any number, dying wherever it may, makes an active payload
\* disappear but under the tombstone that _delete_managed_volume writes, in
\* _delete_pending_creation, or into the archive by _rename_for_archive.
THEOREM PayloadLossIsAuthorised == Spec => PayloadLossAuthorised
<1>1. IInv /\ [Next]_vars => LossAuthorised
  BY NextLoss
<1>2. LossAuthorised <=> \A v \in Vols : payload[v] # NoPayload /\ payload'[v] = NoPayload =>
           \/ meta[v].state = "deleting"
           \/ ~Exists(meta[v]) /\ Exists(intent[v])
           \/ \E i \in Incs : arcPayload'[<<v, i>>] = payload[v]
  BY DEF LossAuthorised, Authorised
<1>3. IInv /\ [Next]_vars =>
        [\A v \in Vols : payload[v] # NoPayload /\ payload'[v] = NoPayload =>
           \/ meta[v].state = "deleting"
           \/ ~Exists(meta[v]) /\ Exists(intent[v])
           \/ \E i \in Incs : arcPayload'[<<v, i>>] = payload[v]]_vars
  BY <1>1, <1>2
<1> QED
  BY <1>3, Inductive, PTL DEF Spec, PayloadLossAuthorised

-----------------------------------------------------------------------------
(***************************************************************************)
(* One call at a time works on a volume, if callers are orderly.  An       *)
(* Expand that has found nothing goes on without the lock: it is harmless  *)
(* only because no create can be running that would commit the volume.     *)
(***************************************************************************)
ExpandAlone(p) ==
    call[p] = "expand" =>
        LET v == vol[p]
        IN  /\ \A q \in Procs : call[q] = "create" => vol[q] # v
            /\ pc[p] = "lookIntent" => ~Exists(meta[v])
            /\ pc[p] = "body" => vlock[v] = p \/ ~Exists(meta[v])
            /\ pc[p] \in Expanding => vlock[v] = p

Alone == IInv /\ \A p \in Procs : ExpandAlone(p)

\* Only a create brings metadata into being.
LEMMA MetadataFromCreate ==
    ASSUME IInv, NEW p \in Procs, Step(p), NEW v \in Vols,
           ~Exists(meta[v]), Exists(meta'[v])
    PROVE  call[p] = "create" /\ vol[p] = v
<1>0. meta' # meta
  OBVIOUS
<1>1. meta \in [Vols -> Metadata]
  BY DEF IInv, TypeOK, DurableTyped
<1>2. CASE Arrive(p)
  BY <1>0, <1>2
     DEF Arrive, TakeIdentity, LookMetadata, LookIntent, ReadEvidence,
         TakeVolumeLock, Relook, Fail, files
<1>3. CASE CreateStep(p)
  <2>1. SaveMetadata(p)
    BY <1>0, <1>3
       DEF CreateStep, CreateBody, FinishCommitted, Reconcile, Admit, AdmitCommit,
           EnterCreation, MakePayload, SetQuota, DropIntent, RecordSize, Fail, files
  <2>2. call[p] = "create"
    BY <2>1 DEF IInv, ProcOK, CallOK, SaveMetadata, CreateLabels
  <2>3. vol[p] = v
    BY <1>1, <2>1 DEF SaveMetadata
  <2> QED
    BY <2>2, <2>3
<1>4. CASE DeleteStep(p)
  <2>1. FoldExpansion(p) \/ MarkDeleting(p) \/ UnlinkMetadata(p)
          \/ PrepareArchive(p) \/ MoveMetadata(p)
    BY <1>0, <1>4
       DEF DeleteStep, DeleteBody, CancelPayload, CancelIntent, CancelCommit,
           DropExpansion, DropLeftover, DestroyPayload, ReleaseRow, MovePayload,
           MoveRow, MarkArchived, Fail, files
  <2>2. PICK w \in Vols : vol[p] = w
    BY <2>1 DEF IInv, ProcOK, CallOK, FoldExpansion, MarkDeleting, UnlinkMetadata,
                PrepareArchive, MoveMetadata
  <2>3. CASE UnlinkMetadata(p) \/ MoveMetadata(p)
    BY <1>0, <1>1, <2>2, <2>3 DEF UnlinkMetadata, MoveMetadata, Exists, NoRec, Rec
  <2>4. CASE FoldExpansion(p)
    <3>1. Exists(meta[w])
      <4>1. xint[w].from # 0 /\ xint[w].to # 0 /\ xint[w] # NoSpan
        BY <1>0, <2>2, <2>4, ConstantsAssumption
           DEF FoldExpansion, Fail, files, IInv, TypeOK, DurableTyped, Spans
      <4> QED
        BY <1>0, <1>1, <2>2, <2>4, <4>1
           DEF FoldExpansion, Fail, files, Metadata, Kind, NoRec, Rec, Exists
    <3> QED
      BY <1>0, <1>1, <2>2, <2>4, <3>1 DEF FoldExpansion, Fail, files, Exists
  <2>5. CASE MarkDeleting(p)
    <3>1. Exists(meta[w])
      <4>1. MetadataOf(w).state \in {"live", "deleting"}
        BY <1>0, <2>2, <2>5 DEF MarkDeleting, Deletable, Fail, files
      <4> QED
        BY <4>1, MetadataOfFacts DEF IInv, NoRec, Rec, HasMetadata, Exists
    <3> QED
      BY <1>0, <1>1, <2>2, <2>5, <3>1 DEF MarkDeleting, Fail, files, Exists
  <2>6. CASE PrepareArchive(p)
    BY <1>0, <1>1, <2>2, <2>6 DEF PrepareArchive, Exists
  <2> QED
    BY <2>1, <2>3, <2>4, <2>5, <2>6
<1>5. CASE ExpandStep(p)
  <2>1. GrowMetadata(p) /\ ~Fail(p)
    BY <1>0, <1>5
       DEF ExpandStep, ExpandBody, Requota, Reserve, ReserveCommit, GrowQuota,
           GrowMetadata, FinishExpansion, Fail, files
  <2>2. PICK w \in Vols : vol[p] = w
    BY <2>1 DEF IInv, ProcOK, CallOK, GrowMetadata
  <2> QED
    BY <1>1, <2>1, <2>2 DEF GrowMetadata, Exists
<1>6. CASE ReclaimStep(p)
  BY <1>0, <1>6
     DEF ReclaimStep, ReclaimMark, ReclaimPayload, ReclaimRow, ReclaimUnlink,
         Fail, files
<1> QED
  BY <1>2, <1>3, <1>4, <1>5, <1>6 DEF Step

\* The way of an expand: it goes past the lock without it only where no
\* metadata is, and then it has nothing to expand.
LEMMA ExpandLocked ==
    ASSUME IInv, NEW p \in Procs, ExpandAlone(p), Step(p),
           call[p] = "expand", call'[p] = "expand", NEW v \in Vols, vol[p] = v
    PROVE  /\ pc'[p] = "lookIntent" => ~Exists(meta'[v])
           /\ pc'[p] = "body" => vlock'[v] = p \/ ~Exists(meta'[v])
           /\ pc'[p] \in Expanding => vlock'[v] = p
<1>1. /\ TypeOK /\ CallOK(p) /\ LockOK(p)
      /\ pc[p] = "lookIntent" => ~Exists(meta[v])
      /\ pc[p] = "body" => vlock[v] = p \/ ~Exists(meta[v])
      /\ pc[p] \in Expanding => vlock[v] = p
  BY DEF IInv, ProcOK, ExpandAlone
<1>2. ASSUME NEW l, Goto(p, l) PROVE pc'[p] = l
  BY <1>1, <1>2 DEF TypeOK, LocalsTyped, Goto
<1>3. ~Fail(p)
  BY <1>1 DEF Fail, Leave, TypeOK, LocalsTyped
<1>4. CASE Arrive(p)
  <2>1. ~TakeIdentity(p)
    BY <1>1 DEF TakeIdentity, CallOK, CreateLabels
  <2>2. CASE LookMetadata(p)
    <3>1. pc'[p] \in {"evidence", "lookIntent"}
      BY <1>2, <2>2 DEF LookMetadata
    <3>2. pc'[p] = "lookIntent" => ~Exists(MetadataOf(v))
      BY <1>2, <2>2 DEF LookMetadata
    <3>3. ~Exists(MetadataOf(v)) => ~Exists(meta[v])
      BY <1>1, MetadataOfFacts
    <3> QED
      BY <2>2, <3>1, <3>2, <3>3 DEF LookMetadata, files, Expanding
  <2>3. CASE LookIntent(p)
    <3>1. pc'[p] \in {"evidence", "body"} /\ UNCHANGED meta
      BY <1>2, <1>3, <2>3 DEF LookIntent, files
    <3>2. ~Exists(meta[v])
      BY <1>1, <2>3 DEF LookIntent
    <3> QED
      BY <3>1, <3>2 DEF Expanding
  <2>4. CASE ReadEvidence(p)
    <3>1. pc'[p] = "lock"
      BY <1>2, <2>4 DEF ReadEvidence
    <3> QED
      BY <3>1 DEF Expanding
  <2>5. CASE TakeVolumeLock(p)
    <3>1. pc'[p] = "relook"
      BY <1>2, <2>5 DEF TakeVolumeLock
    <3> QED
      BY <3>1 DEF Expanding
  <2>6. CASE Relook(p)
    <3>1. pc'[p] = "body" /\ UNCHANGED vlock
      BY <1>2, <1>3, <2>6 DEF Relook, locks
    <3>2. vlock[v] = p
      BY <1>1, <2>6 DEF Relook, LockOK, UnderLock
    <3> QED
      BY <3>1, <3>2 DEF Expanding
  <2> QED
    BY <1>4, <2>1, <2>2, <2>3, <2>4, <2>5, <2>6 DEF Arrive
<1>5. CASE ExpandStep(p)
  <2>1. vlock' = vlock /\ pc'[p] \notin {"lookIntent", "body"}
    <3>1. CASE ExpandBody(p)
      <4>1. pc'[p] \in {"requota", FirstOfGrowth} /\ UNCHANGED vlock
        BY <1>2, <1>3, <3>1 DEF ExpandBody, locks
      <4> QED
        BY <4>1 DEF FirstOfGrowth
    <3>2. CASE Requota(p)
      BY <1>1, <3>2 DEF Requota, Leave, TypeOK, LocalsTyped
    <3>3. CASE Reserve(p)
      <4>1. call' = call
        BY <1>1, <1>3, <3>3 DEF Reserve, Leave, TypeOK, LocalsTyped, locals
      <4>2. ~Leave(p)
        BY <1>1, <4>1 DEF Leave, TypeOK, LocalsTyped
      <4>3. pc'[p] = "reserveCommit" /\ UNCHANGED vlock
        BY <1>2, <1>3, <3>3, <4>2 DEF Reserve
      <4> QED
        BY <4>3
    <3>4. CASE ReserveCommit(p)
      <4>1. pc'[p] = AfterReserve /\ UNCHANGED vlock
        BY <1>2, <3>4 DEF ReserveCommit
      <4> QED
        BY <4>1 DEF AfterReserve
    <3>5. CASE GrowQuota(p)
      <4>1. pc'[p] = "growMetadata" /\ UNCHANGED vlock
        BY <1>2, <3>5 DEF GrowQuota, locks
      <4> QED
        BY <4>1
    <3>6. CASE GrowMetadata(p)
      <4>1. pc'[p] = "finishExpansion" /\ UNCHANGED vlock
        BY <1>2, <1>3, <3>6 DEF GrowMetadata, locks
      <4> QED
        BY <4>1
    <3>7. CASE FinishExpansion(p)
      BY <1>1, <1>3, <3>7 DEF FinishExpansion, Leave, TypeOK, LocalsTyped
    <3> QED
      BY <1>5, <3>1, <3>2, <3>3, <3>4, <3>5, <3>6, <3>7 DEF ExpandStep
  <2>2. pc'[p] \in Expanding => vlock[v] = p
    <3>1. CASE pc[p] \in Expanding
      BY <1>1, <3>1
    <3>2. CASE ExpandBody(p)
      <4>1. Lookup(v).state = "live"
        BY <1>3, <3>2 DEF ExpandBody
      <4>2. Exists(meta[v])
        BY <1>1, <4>1, LookupFacts DEF Exists
      <4> QED
        BY <1>1, <3>2, <4>2 DEF ExpandBody
    <3> QED
      BY <1>5, <3>1, <3>2
         DEF ExpandStep, Expanding, Requota, Reserve, ReserveCommit, GrowQuota,
             GrowMetadata, FinishExpansion
  <2> QED
    BY <2>1, <2>2
<1>6. ~CreateStep(p) /\ ~DeleteStep(p) /\ ~ReclaimStep(p)
  <2>1. ~CreateStep(p)
    BY <1>1 DEF CreateStep, CreateBody, FinishCommitted, Reconcile, Admit,
                AdmitCommit, EnterCreation, MakePayload, SetQuota, SaveMetadata,
                DropIntent, RecordSize, CallOK, CreateLabels
  <2>2. ~DeleteStep(p)
    BY <1>1 DEF DeleteStep, DeleteBody, CancelPayload, CancelIntent, CancelCommit,
                FoldExpansion, DropExpansion, DropLeftover, MarkDeleting,
                DestroyPayload, ReleaseRow, UnlinkMetadata, PrepareArchive,
                MovePayload, MoveRow, MoveMetadata, MarkArchived, CallOK,
                DeleteLabels
  <2>3. ~ReclaimStep(p)
    BY <1>1 DEF ReclaimStep, ReclaimMark, ReclaimPayload, ReclaimRow,
                ReclaimUnlink, CallOK, ReclaimLabels
  <2> QED
    BY <2>1, <2>2, <2>3
<1> QED
  BY <1>4, <1>5, <1>6 DEF Step

\* A call that is begun is alone if its caller is orderly.
LEMMA StartAlone ==
    ASSUME OrderlyCaller, Alone, NEW p \in Procs, Start(p)
    PROVE  Alone'
<1>1. IInv' /\ Frame(p) /\ TypeOK
  BY StartKeeps DEF Alone, IInv
<1>2. meta' = meta /\ vlock' = vlock
  BY DEF Start, StartCreate, StartDelete, StartExpand, StartReclaim, Begin, files, locks
<1>3. pc'[p] \notin {"lookIntent", "body"} \cup Expanding
  BY <1>1 DEF Start, StartCreate, StartDelete, StartExpand, StartReclaim, Goto,
              TypeOK, LocalsTyped, Expanding
<1>4. ASSUME NEW q \in Procs, NEW r \in Procs,
             call'[q] = "expand", call'[r] = "create"
      PROVE  vol'[q] # vol'[r]
  <2>1. CASE q # p /\ r # p
    BY <1>1, <1>4, <2>1 DEF Alone, ExpandAlone, Frame, Same
  <2>2. CASE q = p
    <3>1. PICK v \in Vols, s \in Sizes : StartExpand(p, v, s)
      BY <1>1, <1>4, <2>2
         DEF Start, StartCreate, StartDelete, StartExpand, StartReclaim, Begin,
             TypeOK, LocalsTyped
    <3>2. r # p /\ vol'[p] = v /\ ~InFlight("create", v)
      BY <1>1, <1>4, <2>2, <3>1 DEF StartExpand, Begin, TypeOK, LocalsTyped
    <3> QED
      BY <1>1, <1>4, <2>2, <3>2 DEF InFlight, Frame, Same
  <2>3. CASE r = p
    <3>1. PICK v \in Vols, s \in Sizes : StartCreate(p, v, s)
      BY <1>1, <1>4, <2>3
         DEF Start, StartCreate, StartDelete, StartExpand, StartReclaim, Begin,
             TypeOK, LocalsTyped
    <3>2. q # p /\ vol'[p] = v /\ ~InFlight("expand", v)
      BY <1>1, <1>4, <2>3, <3>1 DEF StartCreate, Begin, TypeOK, LocalsTyped
    <3> QED
      BY <1>1, <1>4, <2>3, <3>2 DEF InFlight, Frame, Same
  <2> QED
    BY <2>1, <2>2, <2>3
<1>5. ASSUME NEW q \in Procs PROVE ExpandAlone(q)'
  <2>1. CASE q = p
    BY <1>3, <1>4, <2>1 DEF ExpandAlone
  <2>2. CASE q # p
    BY <1>1, <1>2, <1>4, <2>2 DEF Alone, ExpandAlone, Frame, Same
  <2> QED
    BY <2>1, <2>2
<1> QED
  BY <1>1, <1>5 DEF Alone

LEMMA StepAlone ==
    ASSUME Alone, NEW p \in Procs, Step(p) \/ Abandon(p)
    PROVE  Alone'
<1>1. IInv /\ IInv' /\ Frame(p) /\ GoesOn(p)
  BY StepKeeps, AbandonKeeps DEF Alone
<1>2. Abandon(p) => call'[p] = "none" /\ meta' = meta
  BY <1>1 DEF Abandon, Fail, Leave, files, IInv, TypeOK, LocalsTyped
<1>3. ASSUME NEW q \in Procs, NEW r \in Procs,
             call'[q] = "expand", call'[r] = "create"
      PROVE  vol'[q] # vol'[r]
  BY <1>1, <1>3 DEF Alone, ExpandAlone, Frame, Same, GoesOn
<1>4. ASSUME NEW q \in Procs, call'[q] = "expand" PROVE ExpandAlone(q)'
  <2>1. /\ call[q] = "expand" /\ vol'[q] = vol[q] /\ ExpandAlone(q)
        /\ q # p => Same(q)
    BY <1>1, <1>4 DEF Alone, Frame, Same, GoesOn
  <2>2. PICK v \in Vols : vol[q] = v
    BY <1>1, <2>1 DEF IInv, ProcOK, CallOK
  <2>3. CASE q = p
    <3>1. Step(p)
      BY <1>2, <1>4, <2>3
    <3> QED
      BY <1>1, <1>3, <1>4, <2>1, <2>2, <2>3, <3>1, ExpandLocked DEF ExpandAlone
  <2>4. CASE q # p
    <3>1. ~Exists(meta[v]) => ~Exists(meta'[v])
      <4>1. ~(call[p] = "create" /\ vol[p] = v)
        BY <2>1, <2>2 DEF ExpandAlone
      <4> QED
        BY <1>1, <1>2, <4>1, MetadataFromCreate
    <3>2. Same(q) /\ vol'[q] = v
      BY <2>1, <2>2, <2>4
    <3> QED
      BY <1>3, <1>4, <2>1, <2>2, <3>1, <3>2 DEF ExpandAlone, Same
  <2> QED
    BY <2>3, <2>4
<1>5. \A q \in Procs : ExpandAlone(q)'
  BY <1>4 DEF ExpandAlone
<1> QED
  BY <1>1, <1>5 DEF Alone

LEMMA NextAlone == OrderlyCaller /\ Alone /\ [Next]_vars => Alone'
<1> SUFFICES ASSUME OrderlyCaller, Alone, [Next]_vars PROVE Alone'
  OBVIOUS
<1>1. CASE \E p \in Procs : Start(p) \/ Step(p) \/ Abandon(p)
  BY <1>1, StartAlone, StepAlone
<1>2. CASE ChangePolicy \/ UNCHANGED vars
  <2>1. IInv'
    BY <1>2, NextKeeps DEF Alone
  <2>2. UNCHANGED <<meta, vlock, pc, call, vol>>
    BY <1>2 DEF ChangePolicy, vars, files, locks, locals
  <2> QED
    BY <2>1, <2>2 DEF Alone, ExpandAlone
<1> QED
  BY <1>1, <1>2 DEF Next

\* If callers expand only what they were told exists, no two calls of the
\* controllers are ever in the middle of changing the same volume, though
\* serialized_existing_volume_operation may run an expand without the lock.
THEOREM OneWorker ==
    ASSUME OrderlyCaller PROVE Spec => []OneWorkerPerVolume
<1>1. Init => Alone
  BY InitIInv DEF Alone, ExpandAlone, Init
<1>2. Alone /\ [Next]_vars => Alone'
  BY NextAlone
<1>3. Alone => OneWorkerPerVolume
  <2> SUFFICES ASSUME Alone, NEW p \in Procs, pc[p] \in UnderLock \cup Expanding
               PROVE  vlock[vol[p]] = p
    BY DEF OneWorkerPerVolume
  <2>1. CASE pc[p] \in UnderLock
    BY <2>1 DEF Alone, IInv, ProcOK, LockOK
  <2>2. CASE pc[p] \in Expanding
    BY <2>2 DEF Alone, IInv, ProcOK, CallOK, ExpandAlone
  <2> QED
    BY <2>1, <2>2
<1> QED
  BY <1>1, <1>2, <1>3, PTL DEF Spec

-----------------------------------------------------------------------------
(***************************************************************************)
(* Loss of an archived payload.  remove_archived_pv works from a snapshot  *)
(* and without a lock; a doomed archive stays doomed.                      *)
(***************************************************************************)
Doomed(a) == arcMeta[a].state = "reclaiming" \/ arcPayload[a] = NoPayload

PurgeOK(p) ==
    /\ pc[p] = "reclaimMark" /\ found[p].state = "reclaiming" => Doomed(Target(p))
    /\ pc[p] = "reclaimPayload" => Doomed(Target(p))
    /\ pc[p] \in {"reclaimRow", "reclaimUnlink"} => arcPayload[Target(p)] = NoPayload

Purging == IInv /\ \A p \in Procs : PurgeOK(p)

\* What a step leaves of an archive of a past generation.
StaysDoomed(a) == /\ Doomed(a) => Doomed(a)'
                  /\ arcPayload[a] = NoPayload => arcPayload'[a] = NoPayload

LEMMA KeptDoom ==
    ASSUME UNCHANGED <<arcMeta, arcPayload>>, NEW a
    PROVE  StaysDoomed(a)
BY DEF StaysDoomed, Doomed

LEMMA DeleteDoom ==
    ASSUME IInv, NEW p \in Procs, DeleteStep(p),
           NEW v \in Vols, NEW i \in Incs, Past(v, i)
    PROVE  StaysDoomed(<<v, i>>)
<1> DEFINE a == <<v, i>>
<1>1. TypeOK /\ a \in Archives /\ arcMeta[a].state # "archiving"
  BY DEF IInv, Archives, Past
<1>2. CASE MovePayload(p) /\ ~Fail(p)
  <2>1. PICK w \in Vols : vol[p] = w
    BY <1>2 DEF IInv, ProcOK, CallOK, MovePayload
  <2>2. meta[w].state = "archiving" \/ (~Exists(meta[w]) /\ Arriving(w))
    BY <1>2, <2>1 DEF IInv, ProcOK, FileOK, DeleteOK, MovePayload
  <2>3. <<w, MetadataOf(w).inc>> # a
    BY <1>1, <2>2, MetadataOfFacts DEF Past, Exists
  <2> HIDE DEF a
  <2>4. arcMeta' = arcMeta /\ arcPayload'[a] = arcPayload[a]
    BY <1>1, <1>2, <2>1, <2>3 DEF MovePayload, TypeOK, DurableTyped
  <2> QED
    BY <2>4 DEF StaysDoomed, Doomed, a
<1>3. CASE MoveMetadata(p)
  <2>1. PICK w \in Vols : vol[p] = w
    BY <1>3 DEF IInv, ProcOK, CallOK, MoveMetadata
  <2>2. Exists(meta[w]) => <<w, meta[w].inc>> # a
    BY DEF Past
  <2> HIDE DEF a
  <2>3. arcPayload' = arcPayload /\ arcMeta'[a] = arcMeta[a]
    BY <1>1, <1>3, <2>1, <2>2 DEF MoveMetadata, TypeOK, DurableTyped
  <2> QED
    BY <2>3 DEF StaysDoomed, Doomed, a
<1>4. CASE MarkArchived(p)
  <2>1. PICK w \in Vols : vol[p] = w
    BY <1>4 DEF IInv, ProcOK, CallOK, MarkArchived
  <2>2. arcMeta[<<w, found[p].inc>>].state = "archiving"
    BY <1>4, <2>1 DEF IInv, ProcOK, FileOK, DeleteOK, MarkArchived
  <2>3. <<w, found[p].inc>> # a
    BY <1>1, <2>2
  <2> HIDE DEF a
  <2>4. arcPayload' = arcPayload /\ arcMeta'[a] = arcMeta[a]
    BY <1>1, <1>4, <2>1, <2>3 DEF MarkArchived, TypeOK, DurableTyped
  <2> QED
    BY <2>4 DEF StaysDoomed, Doomed, a
<1>5. CASE \/ ~(MovePayload(p) \/ MoveMetadata(p) \/ MarkArchived(p))
           \/ MovePayload(p) /\ Fail(p)
  BY <1>5, KeptDoom
     DEF DeleteStep, DeleteBody, CancelPayload, CancelIntent, CancelCommit,
         FoldExpansion, DropExpansion, DropLeftover, MarkDeleting, DestroyPayload,
         ReleaseRow, UnlinkMetadata, PrepareArchive, MoveRow, Fail, files
<1> QED
  BY <1>2, <1>3, <1>4, <1>5

LEMMA ReclaimDoom ==
    ASSUME IInv, NEW p \in Procs, PurgeOK(p), ReclaimStep(p),
           NEW v \in Vols, NEW i \in Incs, Past(v, i)
    PROVE  StaysDoomed(<<v, i>>)
<1> DEFINE a == <<v, i>>
<1>1. TypeOK /\ a \in Archives
  BY DEF IInv, Archives
<1> HIDE DEF a
<1>2. CASE ReclaimMark(p)
  BY <1>1, <1>2 DEF ReclaimMark, StaysDoomed, Doomed, TypeOK, DurableTyped, Rec, a
<1>3. CASE ReclaimPayload(p)
  BY <1>1, <1>3 DEF ReclaimPayload, StaysDoomed, Doomed, TypeOK, DurableTyped, a
<1>4. CASE ReclaimRow(p)
  BY <1>4, KeptDoom DEF ReclaimRow, Fail, files
<1>5. CASE ReclaimUnlink(p)
  BY <1>1, <1>5
     DEF ReclaimUnlink, PurgeOK, StaysDoomed, Doomed, TypeOK, DurableTyped, a
<1> QED
  BY <1>2, <1>3, <1>4, <1>5 DEF ReclaimStep

LEMMA StepDoom ==
    ASSUME IInv, NEW p \in Procs, PurgeOK(p), Step(p),
           NEW v \in Vols, NEW i \in Incs, Past(v, i)
    PROVE  StaysDoomed(<<v, i>>)
<1>1. CASE Arrive(p)
  BY <1>1, KeptDoom
     DEF Arrive, TakeIdentity, LookMetadata, LookIntent, ReadEvidence,
         TakeVolumeLock, Relook, Fail, files
<1>2. CASE CreateStep(p)
  BY <1>2, KeptDoom
     DEF CreateStep, CreateBody, FinishCommitted, Reconcile, Admit, AdmitCommit,
         EnterCreation, MakePayload, SetQuota, SaveMetadata, DropIntent, RecordSize,
         Fail, files
<1>3. CASE ExpandStep(p)
  BY <1>3, KeptDoom
     DEF ExpandStep, ExpandBody, Requota, Reserve, ReserveCommit, GrowQuota,
         GrowMetadata, FinishExpansion, Fail, files
<1> QED
  BY <1>1, <1>2, <1>3, DeleteDoom, ReclaimDoom DEF Step

\* A purge that goes on keeps what it knows of its target.
LEMMA PurgeGoesOn ==
    ASSUME IInv, NEW p \in Procs, PurgeOK(p), Step(p),
           pc'[p] \in ReclaimLabels
    PROVE  PurgeOK(p)'
<1>1. IInv' /\ GoesOn(p) /\ TypeOK
  BY StepKeeps DEF IInv
<1>2. call'[p] = "reclaim"
  BY <1>1, ReclaimingFacts DEF IInv, ProcOK, CallOK
<1>3. call[p] = "reclaim"
  BY <1>1, <1>2 DEF GoesOn
<1>4. ReclaimStep(p)
  BY <1>3 DEF IInv, ProcOK, CallOK, Step, Arrive, TakeIdentity, LookMetadata,
     LookIntent, ReadEvidence, TakeVolumeLock, Relook, CreateStep, CreateBody,
     FinishCommitted, Reconcile, Admit, AdmitCommit, EnterCreation, MakePayload,
     SetQuota, SaveMetadata, DropIntent, RecordSize, DeleteStep, DeleteBody,
     CancelPayload, CancelIntent, CancelCommit, FoldExpansion, DropExpansion,
     DropLeftover, MarkDeleting, DestroyPayload, ReleaseRow, UnlinkMetadata,
     PrepareArchive, MovePayload, MoveRow, MoveMetadata, MarkArchived, ExpandStep,
     ExpandBody, Requota, Reserve, ReserveCommit, GrowQuota, GrowMetadata,
     FinishExpansion, ArriveLabels, CreateLabels, DeleteLabels, Expanding,
     UnderLock
<1>5. ~Fail(p) /\ ~Leave(p)
  BY <1>1 DEF Fail, Leave, Goto, TypeOK, LocalsTyped, ReclaimLabels
<1>6. PICK a \in Archives : Target(p) = a
  BY <1>4, ReclaimingFacts
     DEF ReclaimStep, ReclaimMark, ReclaimPayload, ReclaimRow, ReclaimUnlink,
         ReclaimLabels
<1>7. UNCHANGED locals => Target(p)' = a
  BY <1>6 DEF locals, Target
<1>8. CASE ReclaimMark(p)
  <2>1. pc'[p] = "reclaimPayload" /\ Target(p)' = a
    BY <1>1, <1>7, <1>8 DEF ReclaimMark, Goto, TypeOK, LocalsTyped
  <2>2. Doomed(a)'
    <3>1. CASE found[p].state = "archived"
      BY <1>1, <1>6, <1>8, <3>1
         DEF ReclaimMark, Doomed, TypeOK, DurableTyped, Rec
    <3>2. CASE found[p].state # "archived"
      <4>1. found[p].state = "reclaiming"
        BY <1>8, <3>2, ReclaimingFacts DEF ReclaimMark, ReclaimLabels
      <4> QED
        BY <1>6, <1>8, <3>2, <4>1 DEF ReclaimMark, PurgeOK, Doomed
    <3> QED
      BY <3>1, <3>2
  <2> QED
    BY <2>1, <2>2 DEF PurgeOK
<1>9. CASE ReclaimPayload(p)
  <2>1. pc'[p] = "reclaimRow" /\ Target(p)' = a
    BY <1>1, <1>7, <1>9 DEF ReclaimPayload, Goto, TypeOK, LocalsTyped
  <2>2. arcPayload'[a] = NoPayload
    BY <1>1, <1>6, <1>9 DEF ReclaimPayload, TypeOK, DurableTyped
  <2> QED
    BY <2>1, <2>2 DEF PurgeOK
<1>10. CASE ReclaimRow(p)
  <2>1. pc'[p] = "reclaimUnlink" /\ Target(p)' = a
    BY <1>1, <1>5, <1>7, <1>10 DEF ReclaimRow, Goto, TypeOK, LocalsTyped
  <2>2. arcPayload'[a] = NoPayload
    BY <1>5, <1>6, <1>10 DEF ReclaimRow, PurgeOK, files
  <2> QED
    BY <2>1, <2>2 DEF PurgeOK
<1>11. ~ReclaimUnlink(p)
  BY <1>5 DEF ReclaimUnlink
<1> QED
  BY <1>4, <1>8, <1>9, <1>10, <1>11 DEF ReclaimStep

\* Another process at its purge keeps what it knows.
LEMMA PurgeKept ==
    ASSUME IInv, NEW q \in Procs, PurgeOK(q), Same(q),
           \A v \in Vols, i \in Incs : Past(v, i) => StaysDoomed(<<v, i>>)
    PROVE  PurgeOK(q)'
<1>1. CASE pc[q] \in ReclaimLabels
  <2>1. Target(q)' = Target(q)
    BY DEF Same, Target
  <2>2. StaysDoomed(Target(q))
    BY <1>1, ReclaimingFacts
  <2> QED
    BY <2>1, <2>2 DEF PurgeOK, Same, StaysDoomed, Doomed
<1>2. CASE pc[q] \notin ReclaimLabels
  BY <1>2 DEF PurgeOK, Same, ReclaimLabels
<1> QED
  BY <1>1, <1>2

LEMMA NextPurging == Purging /\ [Next]_vars => Purging'
<1> SUFFICES ASSUME Purging, [Next]_vars PROVE Purging'
  OBVIOUS
<1>1. IInv /\ IInv' /\ TypeOK
  BY NextKeeps DEF Purging, IInv
<1>2. ASSUME NEW p \in Procs, Step(p) PROVE Purging'
  <2>1. Frame(p) /\ \A v \in Vols, i \in Incs : Past(v, i) => StaysDoomed(<<v, i>>)
    BY <1>1, <1>2, StepKeeps, StepDoom DEF Purging
  <2>2. \A q \in Procs \ {p} : PurgeOK(q)'
    BY <1>1, <2>1, PurgeKept DEF Frame, Purging
  <2>3. PurgeOK(p)'
    <3>1. CASE pc'[p] \in ReclaimLabels
      BY <1>1, <1>2, <3>1, PurgeGoesOn DEF Purging
    <3>2. CASE pc'[p] \notin ReclaimLabels
      BY <3>2 DEF PurgeOK, ReclaimLabels
    <3> QED
      BY <3>1, <3>2
  <2> QED
    BY <1>1, <2>2, <2>3 DEF Purging
<1>3. ASSUME NEW p \in Procs, Start(p) \/ Abandon(p) PROVE Purging'
  <2>1. Frame(p) /\ UNCHANGED <<arcMeta, arcPayload>>
    BY <1>1, <1>3, StartKeeps, AbandonKeeps
       DEF Start, StartCreate, StartDelete, StartExpand, StartReclaim, Begin,
           Abandon, Fail, files
  <2>2. \A q \in Procs \ {p} : PurgeOK(q)'
    BY <1>1, <2>1, KeptDoom, PurgeKept DEF Frame, Purging
  <2>3. PurgeOK(p)'
    <3>1. CASE \E a \in Archives : StartReclaim(p, a)
      <4>1. PICK a \in Archives : StartReclaim(p, a)
        BY <3>1
      <4>2. PICK v \in Vols, i \in Incs : a = <<v, i>>
        BY DEF Archives
      <4>3. arcMeta[a].inc = i
        BY <1>1, <4>1, <4>2 DEF IInv, GenerationOK, StartReclaim, Exists
      <4>4. pc'[p] = "reclaimMark" /\ found'[p] = arcMeta[a] /\ vol'[p] = v
        BY <1>1, <4>1, <4>2 DEF StartReclaim, Begin, Goto, TypeOK, LocalsTyped
      <4>5. Target(p)' = a
        BY <4>2, <4>3, <4>4 DEF Target
      <4> QED
        BY <2>1, <4>4, <4>5 DEF PurgeOK, Doomed
    <3>2. CASE ~\E a \in Archives : StartReclaim(p, a)
      <4>1. pc'[p] \in {"ident", "look", "idle"}
        BY <1>1, <1>3, <3>2
           DEF Start, StartCreate, StartDelete, StartExpand, Abandon, Fail, Leave,
               Goto, TypeOK, LocalsTyped
      <4> QED
        BY <4>1 DEF PurgeOK
    <3> QED
      BY <3>1, <3>2
  <2> QED
    BY <1>1, <2>2, <2>3 DEF Purging
<1>4. CASE ChangePolicy \/ UNCHANGED vars
  <2>1. UNCHANGED <<arcMeta, arcPayload, pc, vol, found>>
    BY <1>4 DEF ChangePolicy, vars, files, locals
  <2> QED
    BY <1>1, <2>1 DEF Purging, PurgeOK, Doomed, Target
<1> QED
  BY <1>2, <1>3, <1>4 DEF Next

\* The only step that removes archived data is the purge of a doomed archive.
ArchiveLoss ==
    \A a \in Archives : arcPayload[a] # NoPayload /\ arcPayload'[a] = NoPayload =>
        arcMeta[a].state = "reclaiming"

LEMMA NextArchiveLoss == Purging /\ [Next]_vars => ArchiveLoss
<1> SUFFICES ASSUME Purging, [Next]_vars PROVE ArchiveLoss
  OBVIOUS
<1>1. IInv /\ TypeOK /\ \A p \in Procs : PurgeOK(p)
  BY DEF Purging, IInv
<1>2. CASE UNCHANGED arcPayload
  BY <1>2 DEF ArchiveLoss
<1>3. ASSUME NEW p \in Procs, ReclaimPayload(p) PROVE ArchiveLoss
  <2>1. PICK t \in Archives : Target(p) = t
    BY <1>1, <1>3, ReclaimingFacts DEF ReclaimPayload, ReclaimLabels
  <2>2. \A a \in Archives \ {t} : arcPayload'[a] = arcPayload[a]
    BY <1>1, <1>3, <2>1 DEF ReclaimPayload, TypeOK, DurableTyped
  <2>3. Doomed(t)
    BY <1>1, <1>3, <2>1 DEF ReclaimPayload, PurgeOK
  <2> QED
    BY <2>2, <2>3 DEF ArchiveLoss, Doomed
<1>4. ASSUME NEW p \in Procs, MovePayload(p) PROVE ArchiveLoss
  <2>1. PICK b, x : arcPayload' = [arcPayload EXCEPT ![b] =
                                      IF @ = NoPayload THEN x ELSE @]
                    \/ UNCHANGED arcPayload
    BY <1>4 DEF MovePayload, Fail, files
  <2> QED
    BY <1>1, <2>1 DEF ArchiveLoss, TypeOK, DurableTyped
<1>5. CASE \E p \in Procs : Step(p)
  BY <1>2, <1>3, <1>4, <1>5
     DEF Step, Arrive, TakeIdentity, LookMetadata, LookIntent, ReadEvidence,
         TakeVolumeLock, Relook, CreateStep, CreateBody, FinishCommitted, Reconcile,
         Admit, AdmitCommit, EnterCreation, MakePayload, SetQuota, SaveMetadata,
         DropIntent, RecordSize, DeleteStep, DeleteBody, CancelPayload,
         CancelIntent, CancelCommit, FoldExpansion, DropExpansion, DropLeftover,
         MarkDeleting, DestroyPayload, ReleaseRow, UnlinkMetadata, PrepareArchive,
         MoveRow, MoveMetadata, MarkArchived, ExpandStep, ExpandBody, Requota,
         Reserve, ReserveCommit, GrowQuota, GrowMetadata, FinishExpansion,
         ReclaimStep, ReclaimMark, ReclaimRow, ReclaimUnlink, Fail, files
<1>6. CASE (\E p \in Procs : Start(p) \/ Abandon(p)) \/ ChangePolicy \/ UNCHANGED vars
  BY <1>2, <1>6
     DEF Start, StartCreate, StartDelete, StartExpand, StartReclaim, Begin,
         Abandon, ChangePolicy, Fail, vars, files
<1> QED
  BY <1>5, <1>6 DEF Next

\* However many shells run remove_archived_pv from whatever old listing, and
\* whatever the controllers do meanwhile, archived data disappears only under
\* the durable "reclaiming" record of its own archive.
THEOREM ArchiveLossIsAuthorised == Spec => ArchiveLossAuthorised
<1>1. Init => Purging
  BY InitIInv DEF Purging, PurgeOK, Init
<1>2. Purging /\ [Next]_vars => Purging'
  BY NextPurging
<1>3. Purging /\ [Next]_vars =>
        [\A a \in Archives : arcPayload[a] # NoPayload /\ arcPayload'[a] = NoPayload =>
             arcMeta[a].state = "reclaiming"]_vars
  BY NextArchiveLoss DEF ArchiveLoss
<1> QED
  BY <1>1, <1>2, <1>3, PTL DEF Spec, ArchiveLossAuthorised

=============================================================================
