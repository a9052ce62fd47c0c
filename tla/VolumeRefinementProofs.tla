------------------------ MODULE VolumeRefinementProofs ------------------------
(***************************************************************************)
(* The lifecycle of the files of a pool implements ManagedVolumes: to the  *)
(* owners of the volumes none of the locks, intents, renames and crashes   *)
(* can be seen.  What the files say of each other (Integrity) and what a   *)
(* purge may rely on (Purging) is not enough for that: an archive whose    *)
(* hand-off is unfinished must also be the only one of its volume, or a    *)
(* lookup could find either, and its data must be there, or it would be    *)
(* finished without.                                                       *)
(***************************************************************************)
EXTENDS VolumeFilesProofs

\* At most one hand-off of a volume is unfinished, and it has its data.
HandOffOK(v) ==
    /\ \A i, j \in Incs : /\ arcMeta[<<v, i>>].state = "archiving"
                          /\ arcMeta[<<v, j>>].state = "archiving"
                          => i = j
    /\ \A i \in Incs : arcMeta[<<v, i>>].state = "archiving" =>
           arcPayload[<<v, i>>] # NoPayload

\* A delete hands the record off after the data.
MovedOK(p) ==
    pc[p] \in {"moveRow", "moveMetadata"} /\ Exists(meta[vol[p]]) =>
        arcPayload[<<vol[p], meta[vol[p]].inc>>] # NoPayload

HandedDown == (\A v \in Vols : HandOffOK(v)) /\ (\A p \in Procs : MovedOK(p))

-----------------------------------------------------------------------------
(***************************************************************************)
(* HandedDown is kept.                                                     *)
(***************************************************************************)

\* No archive begins to be handed off, and none that is loses its data.
NoneBegins ==
    \A v \in Vols, i \in Incs : arcMeta'[<<v, i>>].state = "archiving" =>
        /\ arcMeta[<<v, i>>].state = "archiving"
        /\ arcPayload[<<v, i>>] # NoPayload => arcPayload'[<<v, i>>] # NoPayload

LEMMA KeptHandOffs ==
    ASSUME HandedDown, NoneBegins PROVE \A v \in Vols : HandOffOK(v)'
BY DEF HandedDown, NoneBegins, HandOffOK

\* Metadata that is there is of the generation it was of, and its archived
\* data stays.
ActiveStays(v) ==
    Exists(meta'[v]) =>
        /\ Exists(meta[v]) /\ meta'[v].inc = meta[v].inc
        /\ arcPayload[<<v, meta[v].inc>>] # NoPayload =>
               arcPayload'[<<v, meta[v].inc>>] # NoPayload

LEMMA KeptMoved ==
    ASSUME IInv, HandedDown, NEW p \in Procs, Frame(p), MovedOK(p)',
           \A v \in Vols : ActiveStays(v) \/ (vol[p] = v /\ vlock[v] = p)
    PROVE  \A q \in Procs : MovedOK(q)'
<1> SUFFICES ASSUME NEW q \in Procs \ {p}, pc[q] \in {"moveRow", "moveMetadata"}
             PROVE  MovedOK(q)'
  BY DEF Frame, Same, MovedOK
<1>1. Same(q) /\ ProcOK(q) /\ MovedOK(q)
  BY DEF Frame, IInv, HandedDown
<1>2. vol[q] \in Vols /\ vlock[vol[q]] = q
  BY <1>1 DEF ProcOK, CallOK, LockOK, UnderLock
<1>3. ActiveStays(vol[q])
  BY <1>2
<1> QED
  BY <1>1, <1>3 DEF ActiveStays, MovedOK, Same

\* Most steps write neither metadata nor archives.
LEMMA StillHandedDown ==
    ASSUME Integrity, HandedDown, NEW p \in Procs, Frame(p), MovedOK(p)',
           UNCHANGED <<meta, arcMeta, arcPayload>>
    PROVE  HandedDown'
<1>1. \A v \in Vols : HandOffOK(v)'
  BY KeptHandOffs DEF NoneBegins
<1>2. \A v \in Vols : ActiveStays(v)
  BY DEF ActiveStays
<1> QED
  BY <1>1, <1>2, KeptMoved DEF HandedDown, Integrity, Alone

Filing == {"moveRow", "moveMetadata"}

\* The steps that write the metadata where it is.
LEMMA MetadataStepFiles ==
    ASSUME Integrity, HandedDown, NEW p \in Procs, ~Fail(p),
           \/ SaveMetadata(p) \/ FoldExpansion(p) \/ MarkDeleting(p)
           \/ UnlinkMetadata(p) \/ PrepareArchive(p) \/ GrowMetadata(p)
    PROVE  HandedDown'
<1>1. Step(p)
  BY DEF Step, CreateStep, DeleteStep, ExpandStep
<1>2. TypeOK /\ IInv /\ Frame(p)
  BY <1>1, StepFacts
<1>3. PICK v \in Vols : vol[p] = v /\ vlock[v] = p
  BY <1>1, HolderFacts
     DEF SaveMetadata, FoldExpansion, MarkDeleting, UnlinkMetadata, PrepareArchive,
         GrowMetadata, UnderLock, Expanding
<1>4. /\ UNCHANGED <<arcMeta, arcPayload>>
      /\ \A w \in Vols \ {v} : meta'[w] = meta[w]
  BY <1>2, <1>3 DEF SaveMetadata, FoldExpansion, MarkDeleting, UnlinkMetadata,
                    PrepareArchive, GrowMetadata, TypeOK, DurableTyped, files
<1>5. pc'[p] \notin Filing
  <2>1. CASE UnlinkMetadata(p)
    BY <1>2, <2>1, LeaveFacts DEF UnlinkMetadata, TypeOK, Filing
  <2>2. CASE ~UnlinkMetadata(p)
    BY <1>2, <2>2
       DEF SaveMetadata, FoldExpansion, MarkDeleting, PrepareArchive, GrowMetadata,
           Goto, TypeOK, LocalsTyped, Filing
  <2> QED
    BY <2>1, <2>2
<1>6. \A w \in Vols : HandOffOK(w)'
  BY <1>4, KeptHandOffs DEF NoneBegins
<1>7. \A w \in Vols \ {v} : ActiveStays(w)
  BY <1>4 DEF ActiveStays
<1> QED
  BY <1>2, <1>3, <1>5, <1>6, <1>7, KeptMoved DEF HandedDown, MovedOK, Filing

\* The rename of the data.
LEMMA MovePayloadFiles ==
    ASSUME Integrity, HandedDown, NEW p \in Procs, ~Fail(p), MovePayload(p)
    PROVE  HandedDown'
<1>1. Step(p)
  BY DEF Step, DeleteStep
<1>2. TypeOK /\ IInv /\ Frame(p) /\ ProcOK(p)
  BY <1>1, StepFacts
<1>3. PICK v \in Vols : vol[p] = v
  BY <1>2 DEF ProcOK, CallOK, MovePayload
<1>4. meta[v].state = "archiving" \/ (~Exists(meta[v]) /\ Arriving(v))
  BY <1>2, <1>3 DEF ProcOK, FileOK, DeleteOK, MovePayload
<1>5. PICK i0 \in Incs : /\ MetadataOf(v).inc = i0
                         /\ Exists(meta[v]) => meta[v].inc = i0
  BY <1>2, <1>4, MetadataOfFacts, RecordFacts DEF Exists
<1> DEFINE a == <<v, i0>>
<1>6. a \in Archives
  BY DEF Archives
<1>7. /\ UNCHANGED <<meta, arcMeta, vol>>
      /\ (payload[v] = NoPayload) # (arcPayload[a] = NoPayload)
      /\ arcPayload' = [arcPayload EXCEPT ![a] = IF @ = NoPayload THEN payload[v] ELSE @]
  BY <1>3, <1>5 DEF MovePayload, Movable, locals
<1> HIDE DEF a
<1>8. /\ arcPayload'[a] # NoPayload
      /\ \A b \in Archives \ {a} : arcPayload'[b] = arcPayload[b]
  BY <1>2, <1>6, <1>7 DEF TypeOK, DurableTyped
<1>9. \A w \in Vols, i \in Incs : arcPayload[<<w, i>>] # NoPayload =>
          arcPayload'[<<w, i>>] # NoPayload
  BY <1>8 DEF Archives
<1>10. \A w \in Vols : HandOffOK(w)'
  BY <1>7, <1>9, KeptHandOffs DEF NoneBegins
<1>11. \A w \in Vols : ActiveStays(w)
  <2> SUFFICES ASSUME NEW w \in Vols, Exists(meta'[w]) PROVE ActiveStays(w)
    BY DEF ActiveStays
  <2>1. meta[w].inc \in Incs
    BY <1>2, <1>7, RecordFacts
  <2> QED
    BY <1>7, <1>9, <2>1 DEF ActiveStays
<1>12. MovedOK(p)'
  BY <1>3, <1>5, <1>7, <1>8 DEF MovedOK, a
<1> QED
  BY <1>2, <1>10, <1>11, <1>12, KeptMoved DEF HandedDown

\* The hand-off of the record: it is the volume's only one, and its data is
\* there before.
LEMMA MoveMetadataFiles ==
    ASSUME Integrity, HandedDown, NEW p \in Procs, MoveMetadata(p)
    PROVE  HandedDown'
<1>1. Step(p)
  BY DEF Step, DeleteStep
<1>2. TypeOK /\ IInv /\ Frame(p) /\ ProcOK(p) /\ Knows(p)
  BY <1>1, StepFacts
<1>3. PICK v \in Vols : vol[p] = v /\ vlock[v] = p
  BY <1>1, HolderFacts DEF MoveMetadata, UnderLock
<1>4. MovedOK(p)' /\ arcPayload' = arcPayload
  BY <1>2 DEF MoveMetadata, Goto, TypeOK, LocalsTyped, MovedOK
<1>5. CASE ~Exists(meta[v])
  <2>1. UNCHANGED <<meta, arcMeta>>
    BY <1>3, <1>5 DEF MoveMetadata
  <2> QED
    BY <1>2, <1>4, <2>1, StillHandedDown
<1>6. CASE Exists(meta[v])
  <2>1. PICK i0 \in Incs : meta[v].inc = i0
    BY <1>2, <1>6, RecordFacts
  <2>2. ~Arriving(v) /\ arcPayload[<<v, i0>>] # NoPayload
    BY <1>3, <1>6, <2>1
       DEF Integrity, Sound, GoneOK, HandedDown, MovedOK, MoveMetadata
  <2> DEFINE a == <<v, i0>>
  <2>3. a \in Archives
    BY DEF Archives
  <2>4. /\ arcMeta' = [arcMeta EXCEPT ![a] = meta[v]]
        /\ meta' = [meta EXCEPT ![v] = NoRec]
    BY <1>3, <1>6, <2>1 DEF MoveMetadata
  <2> HIDE DEF a
  <2>5. /\ meta'[v] = NoRec /\ \A w \in Vols \ {v} : meta'[w] = meta[w]
        /\ \A b \in Archives \ {a} : arcMeta'[b] = arcMeta[b]
    BY <1>2, <2>3, <2>4 DEF TypeOK, DurableTyped
  <2>6. \A w \in Vols, i \in Incs : w # v \/ i # i0 =>
            arcMeta'[<<w, i>>] = arcMeta[<<w, i>>]
    BY <2>5 DEF a, Archives
  <2>7. HandOffOK(v)'
    <3>1. \A i \in Incs : arcMeta'[<<v, i>>].state = "archiving" => i = i0
      BY <2>2, <2>6 DEF Arriving
    <3> QED
      BY <1>4, <2>2, <3>1 DEF HandOffOK
  <2>8. \A w \in Vols \ {v} : HandOffOK(w)'
    <3> SUFFICES ASSUME NEW w \in Vols \ {v} PROVE HandOffOK(w)'
      OBVIOUS
    <3>1. \A i \in Incs : arcMeta'[<<w, i>>] = arcMeta[<<w, i>>]
      BY <2>6
    <3> QED
      BY <1>4, <3>1 DEF HandedDown, HandOffOK
  <2>9. \A w \in Vols : ActiveStays(w)
    BY <1>4, <2>5 DEF ActiveStays, Exists, NoRec, Rec
  <2> QED
    BY <1>2, <1>4, <2>7, <2>8, <2>9, KeptMoved DEF HandedDown
<1> QED
  BY <1>5, <1>6

LEMMA MarkArchivedFiles ==
    ASSUME Integrity, HandedDown, NEW p \in Procs, MarkArchived(p)
    PROVE  HandedDown'
<1>1. Step(p)
  BY DEF Step, DeleteStep
<1>2. TypeOK /\ IInv /\ Frame(p) /\ ProcOK(p)
  BY <1>1, StepFacts
<1>3. PICK v \in Vols : vol[p] = v
  BY <1>2 DEF ProcOK, CallOK, MarkArchived
<1>4. PICK i0 \in Incs : found[p].inc = i0
  BY <1>2, <1>3 DEF MarkArchived, ProcOK, FileOK, DeleteOK
<1> DEFINE a == <<v, i0>>
<1>5. a \in Archives
  BY DEF Archives
<1>6. /\ UNCHANGED <<meta, arcPayload>> /\ pc'[p] = "idle"
      /\ arcMeta' = [arcMeta EXCEPT ![a].state = "archived"]
  BY <1>2, <1>3, <1>4, LeaveFacts DEF MarkArchived, TypeOK
<1> HIDE DEF a
<1>7. arcMeta'[a].state = "archived" /\ \A b \in Archives \ {a} : arcMeta'[b] = arcMeta[b]
  BY <1>2, <1>5, <1>6 DEF TypeOK, DurableTyped, Archived, Kind, NoRec, Rec
<1>8. NoneBegins
  BY <1>6, <1>7 DEF NoneBegins, Archives
<1>9. \A w \in Vols : ActiveStays(w)
  BY <1>6 DEF ActiveStays
<1>10. MovedOK(p)'
  BY <1>6 DEF MovedOK
<1> QED
  BY <1>2, <1>8, <1>9, <1>10, KeptHandOffs, KeptMoved DEF HandedDown

\* A purge works on a generation that no metadata names and whose hand-off
\* has ended.
LEMMA ReclaimFiles ==
    ASSUME Integrity, HandedDown, NEW p \in Procs, ~Fail(p), ReclaimStep(p)
    PROVE  HandedDown'
<1>1. Step(p) /\ pc[p] \in ReclaimLabels
  BY DEF Step, ReclaimStep, ReclaimMark, ReclaimPayload, ReclaimRow, ReclaimUnlink,
         ReclaimLabels
<1>2. TypeOK /\ IInv /\ Frame(p)
  BY <1>1, StepFacts
<1>3. PICK v \in Vols, i0 \in Incs : vol[p] = v /\ found[p].inc = i0
  BY <1>1, <1>2, ReclaimingFacts
<1> DEFINE a == <<v, i0>>
<1>4. Target(p) = a /\ a \in Archives /\ Past(v, i0)
  BY <1>1, <1>2, <1>3, ReclaimingFacts
<1> HIDE DEF a
<1>5. /\ meta' = meta /\ pc'[p] \notin Filing
      /\ \A b \in Archives \ {a} : arcMeta'[b] = arcMeta[b] /\ arcPayload'[b] = arcPayload[b]
      /\ arcMeta'[a].state # "archiving"
  <2>1. arcMeta[a].state # "archiving"
    BY <1>4 DEF Past, a
  <2>2. CASE ReclaimMark(p)
    BY <1>2, <1>4, <2>1, <2>2
       DEF ReclaimMark, Rec, Goto, Filing, TypeOK, DurableTyped, LocalsTyped
  <2>3. CASE ReclaimPayload(p)
    BY <1>2, <1>4, <2>1, <2>3
       DEF ReclaimPayload, Goto, Filing, TypeOK, DurableTyped, LocalsTyped
  <2>4. CASE ReclaimRow(p)
    BY <1>2, <2>1, <2>4 DEF ReclaimRow, files, Goto, Filing, TypeOK, LocalsTyped
  <2>5. CASE ReclaimUnlink(p)
    BY <1>2, <1>4, <2>1, <2>5, LeaveFacts
       DEF ReclaimUnlink, NoRec, Rec, Filing, TypeOK, DurableTyped
  <2> QED
    BY <2>2, <2>3, <2>4, <2>5 DEF ReclaimStep
<1>6. NoneBegins
  BY <1>5 DEF NoneBegins, Archives
<1>7. \A w \in Vols : ActiveStays(w)
  <2> SUFFICES ASSUME NEW w \in Vols, Exists(meta'[w]) PROVE ActiveStays(w)
    BY DEF ActiveStays
  <2>1. <<w, meta[w].inc>> \in Archives
    BY <1>2, <1>5, RecordFacts DEF Archives
  <2>2. <<w, meta[w].inc>> # a
    BY <1>4, <1>5 DEF Past, a
  <2> QED
    BY <1>5, <2>1, <2>2 DEF ActiveStays
<1> QED
  BY <1>2, <1>5, <1>6, <1>7, KeptHandOffs, KeptMoved DEF HandedDown, MovedOK, Filing

LEMMA StepHandedDown ==
    ASSUME Integrity, HandedDown, NEW p \in Procs, Step(p)
    PROVE  HandedDown'
<1>1. TypeOK /\ Frame(p)
  BY StepFacts
<1>2. CASE Leave(p) /\ UNCHANGED <<meta, arcMeta, arcPayload>>
  <2>1. MovedOK(p)'
    BY <1>1, <1>2, LeaveFacts DEF TypeOK, MovedOK
  <2> QED
    BY <1>1, <1>2, <2>1, StillHandedDown
<1>3. CASE /\ UNCHANGED <<meta, arcMeta, arcPayload>> /\ pc'[p] \notin Filing
  BY <1>1, <1>3, StillHandedDown DEF MovedOK, Filing
<1>4. CASE ~Fail(p) /\ ~(Leave(p) /\ UNCHANGED <<meta, arcMeta, arcPayload>>)
  <2>1. CASE Arrive(p)
    BY <1>1, <1>3, <1>4, <2>1
       DEF Arrive, TakeIdentity, LookMetadata, LookIntent, ReadEvidence,
           TakeVolumeLock, Relook, files, Goto, TypeOK, LocalsTyped, Filing
  <2>2. CASE CreateStep(p)
    <3>1. CASE SaveMetadata(p)
      BY <1>4, <3>1, MetadataStepFiles
    <3>2. CASE ~SaveMetadata(p)
      BY <1>1, <1>3, <1>4, <2>2, <3>2
         DEF CreateStep, CreateBody, FinishCommitted, Reconcile, Admit, AdmitCommit,
             EnterCreation, MakePayload, SetQuota, DropIntent, RecordSize, files,
             Goto, TypeOK, LocalsTyped, Filing, AfterMakedirs
    <3> QED
      BY <3>1, <3>2
  <2>3. CASE DeleteStep(p)
    <3>1. CASE FoldExpansion(p) \/ MarkDeleting(p) \/ UnlinkMetadata(p) \/ PrepareArchive(p)
      BY <1>4, <3>1, MetadataStepFiles
    <3>2. CASE MovePayload(p) \/ MoveMetadata(p) \/ MarkArchived(p)
      BY <1>4, <3>2, MovePayloadFiles, MoveMetadataFiles, MarkArchivedFiles
    <3>3. CASE MoveRow(p)
      <4>1. UNCHANGED <<meta, arcMeta, arcPayload, vol>> /\ pc[p] = "moveRow"
        BY <3>3 DEF MoveRow, files, locals
      <4>2. MovedOK(p)'
        BY <4>1 DEF HandedDown, MovedOK
      <4> QED
        BY <1>1, <4>1, <4>2, StillHandedDown
    <3>4. CASE DeleteBody(p) \/ CancelPayload(p) \/ CancelIntent(p) \/ CancelCommit(p)
               \/ DropExpansion(p) \/ DropLeftover(p) \/ DestroyPayload(p) \/ ReleaseRow(p)
      BY <1>1, <1>3, <1>4, <3>4
         DEF DeleteBody, CancelPayload, CancelIntent, CancelCommit, DropExpansion,
             DropLeftover, DestroyPayload, ReleaseRow, FirstOfReclaim, files,
             Goto, TypeOK, LocalsTyped, Filing
    <3> QED
      BY <2>3, <3>1, <3>2, <3>3, <3>4 DEF DeleteStep
  <2>4. CASE ExpandStep(p)
    <3>1. CASE GrowMetadata(p)
      BY <1>4, <3>1, MetadataStepFiles
    <3>2. CASE ~GrowMetadata(p)
      BY <1>1, <1>3, <1>4, <2>4, <3>2
         DEF ExpandStep, ExpandBody, Requota, Reserve, ReserveCommit, GrowQuota,
             FinishExpansion, files, Goto, TypeOK, LocalsTyped, Filing,
             FirstOfGrowth, AfterReserve
    <3> QED
      BY <3>1, <3>2
  <2> QED
    BY <1>4, <2>1, <2>2, <2>3, <2>4, ReclaimFiles DEF Step
<1> QED
  BY <1>2, <1>4 DEF Fail, files

LEMMA NextHandedDown == Integrity /\ HandedDown /\ [Next]_vars => HandedDown'
<1> SUFFICES ASSUME Integrity, HandedDown, [Next]_vars PROVE HandedDown'
  OBVIOUS
<1>1. TypeOK
  BY DEF Integrity, Alone, IInv
<1>2. ASSUME NEW p \in Procs, Start(p) PROVE HandedDown'
  <2>1. /\ UNCHANGED <<meta, arcMeta, arcPayload>> /\ pc'[p] \notin Filing
        /\ \A q \in Procs \ {p} : pc'[q] = pc[q] /\ vol'[q] = vol[q]
    BY <1>1, <1>2
       DEF Start, StartCreate, StartDelete, StartExpand, StartReclaim, Begin, Goto,
           files, Filing, TypeOK, LocalsTyped
  <2> QED
    BY <2>1 DEF HandedDown, HandOffOK, MovedOK, Filing
<1>3. ASSUME NEW p \in Procs, Abandon(p) PROVE HandedDown'
  <2>1. Leave(p) /\ UNCHANGED <<meta, arcMeta, arcPayload>>
    BY <1>3 DEF Abandon, Fail, files
  <2>2. Frame(p) /\ MovedOK(p)'
    BY <1>1, <2>1, LeaveFacts DEF TypeOK, MovedOK
  <2> QED
    BY <2>1, <2>2, StillHandedDown
<1>4. CASE ChangePolicy \/ UNCHANGED vars
  <2>1. UNCHANGED <<meta, arcMeta, arcPayload, pc, vol>>
    BY <1>4 DEF ChangePolicy, vars, files, locals
  <2> QED
    BY <2>1 DEF HandedDown, HandOffOK, MovedOK
<1> QED
  BY <1>2, <1>3, <1>4, StepHandedDown DEF Next

LEMMA HandedDownHolds == ASSUME OrderlyCaller PROVE Spec => []HandedDown
<1>1. Init => HandedDown
  BY DEF Init, HandedDown, HandOffOK, MovedOK, NoRec, Rec, Archives
<1>2. Integrity /\ Purging /\ HandedDown /\ [Next]_vars => HandedDown'
  BY NextHandedDown
<1> QED
  BY <1>1, <1>2, IntegrityHolds, PTL DEF Spec

-----------------------------------------------------------------------------
(***************************************************************************)
(* The mapping.                                                            *)
(***************************************************************************)
Shown(v)  == Bytes(Lookup(v))
VolumeMap == [v \in Vols |-> Shown(v)]
DataMap   == [v \in Vols |-> payload[v].inc]
ShelfMap  == {a \in Archives : arcPayload[a] # NoPayload}
FiledMap  == [a \in Archives |-> IF arcMeta[a].state = "archived"
                                 THEN arcMeta[a].size ELSE 0]

Mappable == TypeOK /\ \A v \in Vols : HandOffOK(v)

\* What is shown of a volume: its metadata, else the record that is being
\* handed off, else its create intent.
ShownIs(v) ==
    /\ Exists(meta[v]) => Shown(v) = meta[v]
    /\ ~Exists(meta[v]) => \A i \in Incs : arcMeta[<<v, i>>].state = "archiving" =>
           Shown(v) = Rec("archiving", arcMeta[<<v, i>>].size, i)
    /\ ~HasMetadata(v) => Shown(v) = intent[v]
AllShown == \A v \in Vols : ShownIs(v)

LEMMA ShownHere == Mappable => AllShown
<1> SUFFICES ASSUME Mappable, NEW v \in Vols PROVE ShownIs(v)
  BY DEF AllShown
<1>1. TypeOK /\ HandOffOK(v)
  BY DEF Mappable
<1>2. meta[v] \in Metadata /\ intent[v] \in Intents
  BY <1>1, RecordFacts
<1>3. CASE Exists(meta[v])
  <2>1. Lookup(v) = meta[v]
    BY <1>1, <1>3, MetadataOfFacts, LookupFacts DEF HasMetadata
  <2> QED
    BY <1>2, <1>3, <2>1
       DEF ShownIs, Shown, Bytes, HasMetadata, Metadata, Kind, NoRec, Rec
<1>4. ASSUME ~Exists(meta[v]), NEW i \in Incs, arcMeta[<<v, i>>].state = "archiving"
      PROVE  Shown(v) = Rec("archiving", arcMeta[<<v, i>>].size, i)
  <2> DEFINE arcs == {j \in Incs : arcMeta[<<v, j>>].state = "archiving"}
  <2>1. arcs = {i}
    BY <1>1, <1>4 DEF HandOffOK
  <2>2. MetadataOf(v) = Rec("handoff", arcMeta[<<v, i>>].size, i)
    BY <1>4, <2>1 DEF MetadataOf
  <2>3. Lookup(v) = MetadataOf(v)
    BY <2>2 DEF Lookup, Exists, Rec
  <2> QED
    BY <2>2, <2>3 DEF Shown, Bytes, Rec
<1>5. CASE ~HasMetadata(v)
  <2>1. Lookup(v) = intent[v]
    BY <1>1, <1>5, LookupFacts
  <2> QED
    BY <1>2, <1>5, <2>1
       DEF ShownIs, Shown, Bytes, HasMetadata, Arriving, Intents, Kind, NoRec, Rec
<1>6. CASE ~Exists(meta[v]) /\ HasMetadata(v)
  BY <1>4, <1>6 DEF ShownIs
<1> QED
  BY <1>3, <1>5, <1>6

LEMMA ShownThere == Mappable' => AllShown'
BY ShownHere, PTL

\* A volume is shown as it was if its metadata and what is handed off of it
\* are kept, and its create intent as far as it counts.
SameFiles(v) ==
    /\ meta'[v] = meta[v]
    /\ intent'[v] = intent[v] \/ HasMetadata(v)
    /\ \A i \in Incs : \/ arcMeta'[<<v, i>>] = arcMeta[<<v, i>>]
                       \/ /\ arcMeta[<<v, i>>].state # "archiving"
                          /\ arcMeta'[<<v, i>>].state # "archiving"

LEMMA SameShown ==
    ASSUME Mappable, Mappable', NEW v \in Vols, SameFiles(v)
    PROVE  Shown(v)' = Shown(v) /\ (HasMetadata(v)' <=> HasMetadata(v))
<1>1. ShownIs(v) /\ ShownIs(v)'
  BY ShownHere, ShownThere DEF AllShown
<1>2. /\ meta'[v] = meta[v]
      /\ \A i \in Incs :
            /\ arcMeta'[<<v, i>>].state = "archiving" <=> arcMeta[<<v, i>>].state = "archiving"
            /\ arcMeta[<<v, i>>].state = "archiving" => arcMeta'[<<v, i>>] = arcMeta[<<v, i>>]
  BY DEF SameFiles
<1>3. HasMetadata(v)' <=> HasMetadata(v)
  BY <1>2 DEF HasMetadata, Arriving
<1>4. CASE Exists(meta[v])
  BY <1>1, <1>2, <1>3, <1>4 DEF ShownIs
<1>5. CASE ~Exists(meta[v]) /\ Arriving(v)
  <2>1. PICK i \in Incs : arcMeta[<<v, i>>].state = "archiving"
    BY <1>5 DEF Arriving
  <2> QED
    BY <1>1, <1>2, <1>3, <1>5, <2>1 DEF ShownIs
<1>6. CASE ~HasMetadata(v)
  BY <1>1, <1>3, <1>6 DEF ShownIs, SameFiles
<1> QED
  BY <1>3, <1>4, <1>5, <1>6 DEF HasMetadata

\* Of all other volumes nothing changes that is shown.
Elsewhere(v) ==
    \A w \in Vols \ {v} :
        /\ SameFiles(w)
        /\ payload'[w].inc = payload[w].inc
        /\ acked'[w] = acked[w] /\ nextInc'[w] = nextInc[w]

LEMMA OneVolume ==
    ASSUME Mappable, Mappable', NEW v \in Vols, Elsewhere(v)
    PROVE  /\ VolumeMap' = [VolumeMap EXCEPT ![v] = Shown(v)']
           /\ DataMap' = [DataMap EXCEPT ![v] = payload'[v].inc]
           /\ acked' = [acked EXCEPT ![v] = acked'[v]]
           /\ nextInc' = [nextInc EXCEPT ![v] = nextInc'[v]]
<1>1. \A w \in Vols \ {v} : Shown(w)' = Shown(w)
  BY SameShown DEF Elsewhere
<1>2. VolumeMap' = [VolumeMap EXCEPT ![v] = Shown(v)']
  BY <1>1 DEF VolumeMap
<1>3. DataMap' = [DataMap EXCEPT ![v] = payload'[v].inc]
  BY DEF DataMap, Elsewhere
<1>4. acked' = [acked EXCEPT ![v] = acked'[v]] /\ nextInc' = [nextInc EXCEPT ![v] = nextInc'[v]]
  BY DEF Elsewhere, Mappable, TypeOK, DurableTyped
<1> QED
  BY <1>2, <1>3, <1>4

\* What is shown of the archives.
LEMMA SameArchives ==
    /\ UNCHANGED arcPayload => ShelfMap' = ShelfMap
    /\ UNCHANGED arcMeta => FiledMap' = FiledMap
BY DEF ShelfMap, FiledMap

LEMMA ManagedStutters ==
    ASSUME UNCHANGED <<VolumeMap, DataMap, ShelfMap, FiledMap, acked, nextInc>>
    PROVE  UNCHANGED Managed!managed
BY DEF Managed!managed, VolumeMap, DataMap, ShelfMap, FiledMap, Shown

\* A step that changes none of what is shown.
LEMMA QuietMaps ==
    ASSUME Mappable, Mappable',
           \A v \in Vols : SameFiles(v) /\ payload'[v].inc = payload[v].inc,
           UNCHANGED <<arcMeta, arcPayload, acked, nextInc>>
    PROVE  UNCHANGED Managed!managed
<1>1. VolumeMap' = VolumeMap
  BY SameShown DEF VolumeMap
<1>2. DataMap' = DataMap
  BY DEF DataMap
<1> QED
  BY <1>1, <1>2, SameArchives, ManagedStutters

LEMMA StillMaps ==
    ASSUME Mappable, Mappable',
           UNCHANGED <<intent, meta, payload, arcMeta, arcPayload, acked, nextInc>>
    PROVE  UNCHANGED Managed!managed
BY QuietMaps DEF SameFiles

-----------------------------------------------------------------------------
(***************************************************************************)
(* The steps.  Each is a step of ManagedVolumes or shows nothing.          *)
(***************************************************************************)
LEMMA StepMappable ==
    ASSUME Integrity, HandedDown, NEW p \in Procs, Step(p)
    PROVE  Mappable /\ Mappable' /\ HandedDown' /\ TypeOK /\ TypeOK' /\ AllShown /\ AllShown'
<1>1. TypeOK /\ TypeOK' /\ HandedDown'
  BY StepFacts, StepHandedDown
<1> QED
  BY <1>1, ShownHere, ShownThere DEF Mappable, HandedDown

\* An admitted volume ID was free, and its generation is new.
LEMMA AdmitMaps ==
    ASSUME Integrity, HandedDown, NEW p \in Procs, ~Fail(p), Admit(p)
    PROVE  [Managed!Next]_(Managed!managed)
<1>1. Step(p)
  BY DEF Step, CreateStep
<1>2. /\ Mappable /\ Mappable' /\ TypeOK /\ TypeOK' /\ AllShown /\ AllShown'
      /\ ProcOK(p)
  BY <1>1, StepMappable, StepFacts
<1>3. PICK v \in Vols : vol[p] = v
  BY <1>2 DEF Admit, ProcOK, CallOK
<1>4. ~HasMetadata(v) /\ ~Exists(intent[v]) /\ req[p] \in Sizes
  BY <1>2, <1>3 DEF Admit, ProcOK, FileOK, CreateOK, CallOK, CreateLabels
<1>5. CASE UNCHANGED <<intent, meta, payload, arcMeta, arcPayload, acked, nextInc>>
  BY <1>2, <1>5, StillMaps
<1>6. CASE /\ nextInc[v] <= MaxGen /\ nextInc' = [nextInc EXCEPT ![v] = @ + 1]
           /\ intent' = [intent EXCEPT ![v] = Rec("creating", req[p], nextInc[v])]
           /\ UNCHANGED <<meta, payload, arcMeta, arcPayload, acked>>
  <2>1. Elsewhere(v)
    BY <1>2, <1>6 DEF Elsewhere, SameFiles, TypeOK, DurableTyped
  <2>2. ~HasMetadata(v)'
    BY <1>4, <1>6 DEF HasMetadata, Arriving
  <2>3. Shown(v) = intent[v] /\ intent[v] = NoRec
    BY <1>2, <1>4, RecordFacts DEF AllShown, ShownIs, Exists, Intents, Kind
  <2>4. Shown(v)' = Rec("creating", req[p], nextInc[v])
    BY <1>2, <1>6, <2>2 DEF AllShown, ShownIs, TypeOK, DurableTyped
  <2>5. VolumeMap' = [VolumeMap EXCEPT ![v] = Rec("creating", req[p], nextInc[v])]
    BY <1>2, <2>1, <2>4, OneVolume
  <2>6. UNCHANGED <<DataMap, ShelfMap, FiledMap>>
    BY <1>6, SameArchives DEF DataMap
  <2>7. Managed!Reserve(v, req[p])
    BY <1>6, <2>3, <2>5, <2>6
       DEF Managed!Reserve, Managed!As, Managed!Free, Rec, NoRec, VolumeMap, Shown,
           DataMap, ShelfMap, FiledMap
  <2> QED
    BY <1>4, <2>7 DEF Managed!Next
<1> QED
  BY <1>3, <1>4, <1>5, <1>6 DEF Admit, files

\* The payload is made for the generation that is being created.
LEMMA MakePayloadMaps ==
    ASSUME Integrity, HandedDown, NEW p \in Procs, MakePayload(p) \/ SetQuota(p)
    PROVE  [Managed!Next]_(Managed!managed)
<1>1. Step(p)
  BY DEF Step, CreateStep
<1>2. /\ Mappable /\ Mappable' /\ TypeOK /\ TypeOK' /\ AllShown /\ AllShown'
      /\ ProcOK(p) /\ Knows(p)
  BY <1>1, StepMappable, StepFacts
<1>3. PICK v \in Vols : vol[p] = v
  BY <1>2 DEF MakePayload, SetQuota, ProcOK, CallOK
<1>4. ~HasMetadata(v) /\ ~Exists(meta[v]) /\ Exists(intent[v])
  BY <1>2, <1>3 DEF MakePayload, SetQuota, Knows, Unlocked, LockedCreate, HasMetadata
<1>5. UNCHANGED <<intent, meta, arcMeta, arcPayload, acked, nextInc>>
  BY DEF MakePayload, SetQuota
<1>6. intent[v].state = "creating" /\ payload[v] \in Payloads
  BY <1>2, <1>4, RecordFacts DEF TypeOK, DurableTyped
<1>7. CASE MakePayload(p) /\ payload[v] = NoPayload
  <2>1. payload' = [payload EXCEPT ![v] = [inc |-> intent[v].inc, quota |-> 0]]
    BY <1>3, <1>4, <1>7 DEF MakePayload
  <2>2. Elsewhere(v) /\ payload'[v].inc = intent[v].inc
    BY <1>2, <1>5, <2>1 DEF Elsewhere, SameFiles, TypeOK, DurableTyped
  <2>3. Shown(v) = intent[v]
    BY <1>2, <1>4 DEF AllShown, ShownIs
  <2>4. DataMap' = [DataMap EXCEPT ![v] = Shown(v).inc]
    BY <1>2, <2>2, <2>3, OneVolume
  <2>5. VolumeMap' = VolumeMap
    BY <1>2, <1>5, SameShown DEF VolumeMap, SameFiles
  <2>6. UNCHANGED <<ShelfMap, FiledMap>>
    BY <1>5, SameArchives
  <2>7. payload[v].inc = 0
    BY <1>7 DEF NoPayload
  <2>8. Managed!Fill(v)
    BY <1>5, <1>6, <2>3, <2>4, <2>5, <2>6, <2>7
       DEF Managed!Fill, Managed!Is, VolumeMap, Shown, DataMap, ShelfMap, FiledMap
  <2> QED
    BY <2>8 DEF Managed!Next
<1>8. CASE ~(MakePayload(p) /\ payload[v] = NoPayload)
  <2>1. \A w \in Vols : payload'[w].inc = payload[w].inc
    <3>1. CASE MakePayload(p)
      BY <1>2, <1>3, <1>4, <1>8, <3>1 DEF MakePayload, TypeOK, DurableTyped
    <3>2. CASE SetQuota(p)
      <4>1. payload[v] # NoPayload
        BY <1>2, <1>3, <3>2 DEF SetQuota, ProcOK, FileOK, CreateOK
      <4> QED
        BY <1>2, <1>3, <1>6, <3>2, <4>1 DEF SetQuota, TypeOK, DurableTyped, Payloads
    <3> QED
      BY <3>1, <3>2
  <2> QED
    BY <1>2, <1>5, <2>1, QuietMaps DEF SameFiles
<1> QED
  BY <1>7, <1>8

\* The volume is committed with the payload of its generation.
LEMMA SaveMetadataMaps ==
    ASSUME Integrity, HandedDown, NEW p \in Procs, SaveMetadata(p)
    PROVE  [Managed!Next]_(Managed!managed)
<1>1. Step(p)
  BY DEF Step, CreateStep
<1>2. /\ Mappable /\ Mappable' /\ TypeOK /\ TypeOK' /\ AllShown /\ AllShown'
      /\ ProcOK(p) /\ Knows(p)
  BY <1>1, StepMappable, StepFacts
<1>3. PICK v \in Vols : vol[p] = v
  BY <1>2 DEF SaveMetadata, ProcOK, CallOK
<1>4. /\ ~HasMetadata(v) /\ ~Exists(meta[v]) /\ Exists(intent[v])
      /\ intent[v].size = req[p] /\ payload[v] # NoPayload
  BY <1>2, <1>3 DEF SaveMetadata, Knows, Unlocked, LockedCreate, HasMetadata
<1>5. /\ UNCHANGED <<intent, payload, arcMeta, arcPayload, acked, nextInc>>
      /\ meta' = [meta EXCEPT ![v] = Rec("live", req[p], intent[v].inc)]
  BY <1>3 DEF SaveMetadata
<1>6. /\ intent[v].state = "creating" /\ intent[v] \in Intents
      /\ payload[v].inc = intent[v].inc
  BY <1>2, <1>4, RecordFacts DEF Integrity, Sound, PayloadOK
<1>7. Elsewhere(v) /\ meta'[v] = Rec("live", req[p], intent[v].inc)
  BY <1>2, <1>5 DEF Elsewhere, SameFiles, TypeOK, DurableTyped
<1>8. Shown(v) = intent[v]
  BY <1>2, <1>4 DEF AllShown, ShownIs
<1>9. Shown(v)' = [Shown(v) EXCEPT !.state = "live"]
  <2>1. Shown(v)' = Rec("live", req[p], intent[v].inc)
    BY <1>2, <1>7 DEF AllShown, ShownIs, Exists, Rec
  <2>2. intent[v] = Rec("creating", req[p], intent[v].inc)
    BY <1>4, <1>6 DEF Intents, Kind, NoRec, Rec, Exists
  <2> QED
    BY <1>8, <2>1, <2>2 DEF Rec
<1>10. VolumeMap' = [VolumeMap EXCEPT ![v].state = "live"]
  <2>1. VolumeMap' = [VolumeMap EXCEPT ![v] = [Shown(v) EXCEPT !.state = "live"]]
    BY <1>2, <1>7, <1>9, OneVolume
  <2> QED
    BY <2>1 DEF VolumeMap
<1>11. UNCHANGED <<DataMap, ShelfMap, FiledMap>>
  BY <1>5, SameArchives DEF DataMap
<1>12. Managed!Commit(v)
  BY <1>5, <1>6, <1>8, <1>10, <1>11
     DEF Managed!Commit, Managed!Is, VolumeMap, Shown, DataMap, ShelfMap, FiledMap
<1> QED
  BY <1>12 DEF Managed!Next

\* An answer of Create or Expand is true of the volume, and takes nothing back.
LEMMA TellMaps ==
    ASSUME Mappable, Mappable', NEW p \in Procs, NEW v \in Vols,
           NEW r \in Kind({"live"}), Promise(p, v, r), r.state = "live",
           meta[v].state = "live", r.inc = meta[v].inc, r.size = meta[v].size,
           \A w \in Vols : SameFiles(w) /\ payload'[w].inc = payload[w].inc,
           UNCHANGED <<arcMeta, arcPayload, nextInc>>
    PROVE  [Managed!Next]_(Managed!managed)
<1>1. TypeOK /\ ShownIs(v)
  BY ShownHere DEF Mappable, AllShown
<1>2. CASE acked' = acked
  BY <1>2, QuietMaps
<1>3. CASE acked' # acked
  <2>1. /\ acked' = [acked EXCEPT ![v] = r]
        /\ ~(acked[v].state = "deleting" /\ acked[v].inc = r.inc)
        /\ ~(acked[v].inc = r.inc /\ r.size < acked[v].size)
    BY <1>3 DEF Promise
  <2>2. r = Rec("live", r.size, r.inc) /\ r.size \in Sizes /\ r.inc \in Incs
    BY DEF Kind, NoRec, Rec
  <2>3. r.size \in Nat /\ r.inc # 0
    <3>1. Sizes \subseteq Nat /\ MaxGen \in Nat
      BY ConstantsAssumption
    <3>2. r.inc # 0
      BY <2>2, <3>1 DEF Incs
    <3> QED
      BY <2>2, <3>1, <3>2
  <2>4. acked[v] \in Promises
    BY <1>1 DEF TypeOK, DurableTyped
  <2>5. ASSUME acked[v].inc = r.inc
        PROVE  acked[v].state = "live" /\ acked[v].size <= r.size
    <3>1. acked[v].state = "live"
      BY <2>1, <2>3, <2>4, <2>5 DEF Promises, Kind, NoRec, Rec
    <3>2. acked[v].size \in Sizes
      BY <2>4, <3>1 DEF Promises, Kind, NoRec, Rec
    <3>3. acked[v].size \in Nat
      BY <3>2, ConstantsAssumption
    <3> QED
      BY <2>1, <2>3, <2>5, <3>1, <3>3
  <2>6. Shown(v) = meta[v]
    BY <1>1 DEF ShownIs, Exists
  <2>7. UNCHANGED <<VolumeMap, DataMap, ShelfMap, FiledMap>>
    BY SameShown, SameArchives DEF VolumeMap, DataMap
  <2>8. r.size <= Shown(v).size
    BY <2>3, <2>6
  <2>9. acked' = [acked EXCEPT ![v] = Rec("live", r.size, Shown(v).inc)]
    BY <2>1, <2>2, <2>6
  <2>10. Managed!Tell(v, r.size)
    BY <2>5, <2>6, <2>7, <2>8, <2>9
       DEF Managed!Tell, Managed!Is, Managed!As, Rec, VolumeMap, Shown, DataMap,
           ShelfMap, FiledMap
  <2> QED
    BY <2>2, <2>10 DEF Managed!Next
<1> QED
  BY <1>2, <1>3

LEMMA AnswerMaps ==
    ASSUME Integrity, HandedDown, NEW p \in Procs, Reconcile(p) \/ RecordSize(p)
    PROVE  [Managed!Next]_(Managed!managed)
<1>1. Step(p)
  BY DEF Step, CreateStep
<1>2. /\ Mappable /\ Mappable' /\ TypeOK /\ ProcOK(p) /\ Knows(p)
  BY <1>1, StepMappable, StepFacts
<1>3. PICK v \in Vols : vol[p] = v
  BY <1>2 DEF Reconcile, RecordSize, ProcOK, CallOK
<1>4. PICK r \in {found[p], Rec("live", req[p], meta[v].inc)} :
        /\ Promise(p, v, r) /\ meta[v].state = "live" /\ r.state = "live"
        /\ r.inc = meta[v].inc /\ r.size = meta[v].size
  <2>1. CASE Reconcile(p)
    BY <1>2, <1>3, <2>1
       DEF Reconcile, Knows, LockedCreate, ProcOK, FileOK, CreateOK
  <2>2. CASE RecordSize(p)
    BY <1>2, <1>3, <2>2 DEF RecordSize, Knows, LockedCreate, Rec
  <2> QED
    BY <2>1, <2>2
<1>5. meta[v].size \in Sizes /\ meta[v].inc \in Incs /\ found[p] \in Answers
  BY <1>2, <1>4, RecordFacts DEF Exists, TypeOK, LocalsTyped
<1>6. r \in Kind({"live"})
  <2>1. CASE r = found[p]
    BY <1>4, <1>5, <2>1, AnswerFacts
  <2>2. CASE r = Rec("live", req[p], meta[v].inc)
    BY <1>4, <1>5, <2>2 DEF Rec, Kind
  <2> QED
    BY <1>4, <2>1, <2>2
<1>7. /\ \A w \in Vols : SameFiles(w) /\ payload'[w].inc = payload[w].inc
      /\ UNCHANGED <<arcMeta, arcPayload, nextInc>>
  BY DEF Reconcile, RecordSize, files, SameFiles
<1> QED
  BY <1>2, <1>4, <1>6, <1>7, TellMaps

\* A leftover create intent is dropped once there is metadata.
LEMMA DropMaps ==
    ASSUME Integrity, HandedDown, NEW p \in Procs, ~Fail(p),
           FinishCommitted(p) \/ DropIntent(p) \/ DropLeftover(p)
    PROVE  [Managed!Next]_(Managed!managed)
<1>1. Step(p)
  BY DEF Step, CreateStep, DeleteStep
<1>2. /\ Mappable /\ Mappable' /\ TypeOK /\ ProcOK(p) /\ Knows(p)
  BY <1>1, StepMappable, StepFacts
<1>3. PICK v \in Vols : vol[p] = v
  BY <1>2 DEF FinishCommitted, DropIntent, DropLeftover, ProcOK, CallOK
<1>4. /\ UNCHANGED <<meta, payload, arcMeta, arcPayload, acked, nextInc>>
      /\ \A w \in Vols \ {v} : intent'[w] = intent[w]
  BY <1>2, <1>3 DEF FinishCommitted, DropIntent, DropLeftover, TypeOK, DurableTyped
<1>5. HasMetadata(v)
  BY <1>2, <1>3
     DEF FinishCommitted, DropIntent, DropLeftover, Knows, LockedCreate, ProcOK,
         FileOK, CreateOK, DeleteOK, HasMetadata, Exists
<1> QED
  BY <1>2, <1>4, <1>5, QuietMaps DEF SameFiles

\* A live volume grows, in its metadata, to the size that was reserved.
LEMMA GrowMaps ==
    ASSUME Integrity, HandedDown, NEW p \in Procs, ~Fail(p),
           FoldExpansion(p) \/ GrowMetadata(p)
    PROVE  [Managed!Next]_(Managed!managed)
<1>1. Step(p)
  BY DEF Step, DeleteStep, ExpandStep
<1>2. /\ Mappable /\ Mappable' /\ TypeOK /\ TypeOK' /\ AllShown /\ AllShown'
      /\ ProcOK(p) /\ Knows(p)
  BY <1>1, StepMappable, StepFacts
<1>3. PICK v \in Vols : vol[p] = v
  BY <1>2 DEF FoldExpansion, GrowMetadata, ProcOK, CallOK
<1>4. UNCHANGED <<intent, payload, arcMeta, arcPayload, acked, nextInc>>
  BY DEF FoldExpansion, GrowMetadata, files
<1>5. CASE meta' = meta
  BY <1>2, <1>4, <1>5, StillMaps
<1>6. CASE meta' # meta
  <2>1. xint[v] # NoSpan /\ meta' = [meta EXCEPT ![v].size = xint[v].to]
    <3>1. CASE FoldExpansion(p)
      BY <1>3, <1>6, <3>1 DEF FoldExpansion, files
    <3>2. CASE GrowMetadata(p)
      <4>1. xint[v] = [from |-> found[p].size, to |-> req[p]]
        BY <1>2, <1>3, <3>2 DEF GrowMetadata, Knows, LockedExpand, Growing
      <4>2. req[p] \in Sizes /\ 0 \notin Sizes
        BY <1>2, <3>2, ConstantsAssumption DEF GrowMetadata, ProcOK, CallOK, Expanding
      <4> QED
        BY <1>3, <3>2, <4>1, <4>2 DEF GrowMetadata, NoSpan
    <3> QED
      BY <3>1, <3>2
  <2>2. /\ meta[v].state = "live" /\ meta[v].size \in {xint[v].from, xint[v].to}
        /\ xint[v].from <= xint[v].to
    BY <2>1 DEF Integrity, Sound, SpanOK
  <2>3. xint[v].from \in Sizes /\ xint[v].to \in Sizes
    BY <1>2, <2>1 DEF TypeOK, DurableTyped, Spans
  <2>4. xint[v].from \in Nat /\ xint[v].to \in Nat
    BY <2>3, ConstantsAssumption
  <2>5. Exists(meta[v]) /\ meta[v] \in Metadata
    BY <1>2, <2>2, RecordFacts DEF Exists
  <2>6. /\ Elsewhere(v) /\ meta'[v] = [meta[v] EXCEPT !.size = xint[v].to]
        /\ Exists(meta'[v])
    BY <1>2, <1>4, <2>1, <2>5
       DEF Elsewhere, SameFiles, TypeOK, DurableTyped, Metadata, Kind, NoRec, Rec, Exists
  <2>7. Shown(v) = meta[v] /\ Shown(v)' = meta'[v]
    BY <1>2, <2>5, <2>6 DEF AllShown, ShownIs
  <2>8. VolumeMap' = [VolumeMap EXCEPT ![v].size = xint[v].to]
    <3>1. VolumeMap' = [VolumeMap EXCEPT ![v] = [Shown(v) EXCEPT !.size = xint[v].to]]
      BY <1>2, <2>6, <2>7, OneVolume
    <3> QED
      BY <3>1 DEF VolumeMap
  <2>9. UNCHANGED <<DataMap, ShelfMap, FiledMap>>
    BY <1>4, SameArchives DEF DataMap
  <2>10. xint[v].to > Shown(v).size
    <3>1. xint[v].to # meta[v].size
      <4> SUFFICES ASSUME xint[v].to = meta[v].size PROVE meta'[v] = meta[v]
        BY <1>2, <1>6, <2>1, <2>6 DEF TypeOK, DurableTyped
      <4> QED
        BY <2>5, <2>6 DEF Metadata, Kind, NoRec, Rec, Exists
    <3> QED
      BY <2>2, <2>4, <2>7, <3>1
  <2>11. Managed!Grow(v, xint[v].to)
    BY <1>4, <2>2, <2>7, <2>8, <2>9, <2>10
       DEF Managed!Grow, Managed!Is, VolumeMap, Shown, DataMap, ShelfMap, FiledMap
  <2> QED
    BY <2>3, <2>11 DEF Managed!Next
<1> QED
  BY <1>5, <1>6

\* The quota of an expansion shows nothing; its answer is one.
LEMMA ExpandedMaps ==
    ASSUME Integrity, HandedDown, NEW p \in Procs, ~Fail(p),
           GrowQuota(p) \/ Requota(p) \/ FinishExpansion(p)
    PROVE  [Managed!Next]_(Managed!managed)
<1>1. Step(p) /\ pc[p] \in Expanding
  BY DEF Step, ExpandStep, GrowQuota, Requota, FinishExpansion, Expanding
<1>2. /\ Mappable /\ Mappable'
  BY <1>1, StepMappable
<1>3. PICK v \in Vols :
        /\ vol[p] = v /\ req[p] \in Sizes /\ LockedExpand(p) /\ TypeOK
        /\ meta[v].state = "live" /\ Exists(meta[v])
        /\ meta[v].inc = found[p].inc /\ payload[v] # NoPayload
        /\ found[p].state = "live"
  BY <1>1, GrowingFacts
<1>4. /\ UNCHANGED <<intent, meta, arcMeta, arcPayload, nextInc>>
      /\ \A w \in Vols : payload'[w].inc = payload[w].inc
  <2>1. CASE GrowQuota(p) \/ Requota(p)
    BY <1>3, <2>1
       DEF GrowQuota, Requota, QuotaSet, TypeOK, DurableTyped, Payloads
  <2>2. CASE FinishExpansion(p)
    BY <2>2 DEF FinishExpansion
  <2> QED
    BY <2>1, <2>2
<1>5. \A w \in Vols : SameFiles(w)
  BY <1>4 DEF SameFiles
<1>6. CASE GrowQuota(p)
  BY <1>2, <1>4, <1>5, <1>6, QuietMaps DEF GrowQuota
<1>7. CASE Requota(p) \/ FinishExpansion(p)
  <2>1. meta[v].size \in Sizes /\ meta[v].inc \in Incs /\ found[p] \in Answers
    BY <1>3, RecordFacts DEF TypeOK, LocalsTyped
  <2>2. PICK r \in {found[p], Rec("live", req[p], found[p].inc)} :
          /\ Promise(p, v, r) /\ r.state = "live"
          /\ r.inc = meta[v].inc /\ r.size = meta[v].size
    <3>1. CASE Requota(p)
      BY <1>3, <3>1 DEF Requota, LockedExpand
    <3>2. CASE FinishExpansion(p)
      BY <1>3, <3>2 DEF FinishExpansion, LockedExpand, Rec
    <3> QED
      BY <1>7, <3>1, <3>2
  <2>3. r \in Kind({"live"})
    <3>1. CASE r = found[p]
      BY <1>3, <2>1, <3>1, AnswerFacts
    <3>2. CASE r = Rec("live", req[p], found[p].inc)
      BY <1>3, <2>1, <2>2, <3>2 DEF Rec, Kind
    <3> QED
      BY <2>2, <3>1, <3>2
  <2> QED
    BY <1>2, <1>3, <1>4, <1>5, <2>2, <2>3, TellMaps
<1> QED
  BY <1>6, <1>7

\* The payload goes of what was never committed, or is being deleted.
LEMMA DestroyMaps ==
    ASSUME Integrity, HandedDown, NEW p \in Procs, ~Fail(p),
           CancelPayload(p) \/ DestroyPayload(p)
    PROVE  [Managed!Next]_(Managed!managed)
<1>1. Step(p) /\ pc[p] \in DeleteLabels
  BY DEF Step, DeleteStep, CancelPayload, DestroyPayload, DeleteLabels
<1>2. /\ Mappable /\ Mappable' /\ TypeOK /\ AllShown
  BY <1>1, StepMappable
<1>3. PICK v \in Vols : /\ vol[p] = v /\ acked[v].state = "deleting" /\ Sound(v)
                        /\ DeleteOK(p)
  BY <1>1, DeletingFacts
<1>4. /\ UNCHANGED <<intent, meta, arcMeta, arcPayload, acked, nextInc>>
      /\ payload' = [payload EXCEPT ![v] = NoPayload]
  BY <1>3 DEF CancelPayload, DestroyPayload
<1>5. Shown(v).state \in {"creating", "deleting"}
  <2>1. CASE CancelPayload(p)
    <3>1. ~Exists(meta[v]) /\ intent[v].state = "creating"
      BY <1>3, <2>1 DEF CancelPayload, DeleteOK
    <3>2. ~HasMetadata(v)
      BY <1>3, <3>1 DEF Sound, GoneOK, HasMetadata, Exists
    <3> QED
      BY <1>2, <3>1, <3>2 DEF AllShown, ShownIs
  <2>2. CASE DestroyPayload(p)
    <3>1. meta[v].state = "deleting"
      BY <1>3, <2>2 DEF DestroyPayload, DeleteOK
    <3> QED
      BY <1>2, <3>1 DEF AllShown, ShownIs, Exists
  <2> QED
    BY <2>1, <2>2
<1>6. payload[v] \in Payloads
  BY <1>2 DEF TypeOK, DurableTyped
<1>7. CASE payload[v] = NoPayload
  <2>1. payload' = payload
    BY <1>2, <1>4, <1>7 DEF TypeOK, DurableTyped
  <2> QED
    BY <1>2, <1>4, <2>1, StillMaps
<1>8. CASE payload[v] # NoPayload
  <2>1. payload[v].inc # 0
    BY <1>6, <1>8, ConstantsAssumption DEF Payloads, Incs
  <2>2. Elsewhere(v) /\ payload'[v].inc = 0
    BY <1>2, <1>4 DEF Elsewhere, SameFiles, NoPayload, TypeOK, DurableTyped
  <2>3. DataMap' = [DataMap EXCEPT ![v] = 0]
    BY <1>2, <2>2, OneVolume
  <2>4. VolumeMap' = VolumeMap
    BY <1>2, <1>4, SameShown DEF VolumeMap, SameFiles
  <2>5. Managed!Destroy(v)
    BY <1>3, <1>4, <1>5, <2>1, <2>3, <2>4, SameArchives
       DEF Managed!Destroy, Managed!Is, Managed!Unwanted, VolumeMap, Shown, DataMap,
           ShelfMap, FiledMap
  <2> QED
    BY <2>5 DEF Managed!Next
<1> QED
  BY <1>7, <1>8

\* The ID of a create that is given up is free again.
LEMMA CancelMaps ==
    ASSUME Integrity, HandedDown, NEW p \in Procs, ~Fail(p), CancelIntent(p)
    PROVE  [Managed!Next]_(Managed!managed)
<1>1. Step(p) /\ pc[p] \in DeleteLabels
  BY DEF Step, DeleteStep, CancelIntent, DeleteLabels
<1>2. /\ Mappable /\ Mappable' /\ TypeOK /\ AllShown /\ AllShown'
  BY <1>1, StepMappable
<1>3. PICK v \in Vols : /\ vol[p] = v /\ acked[v].state = "deleting" /\ Sound(v)
                        /\ LockedDelete(p)
  BY <1>1, DeletingFacts
<1>4. /\ UNCHANGED <<meta, payload, arcMeta, arcPayload, acked, nextInc>>
      /\ intent' = [intent EXCEPT ![v] = NoRec]
      /\ ~Exists(meta[v]) /\ payload[v] = NoPayload
  BY <1>3 DEF CancelIntent, LockedDelete
<1>5. CASE ~Exists(intent[v])
  <2>1. intent[v] = NoRec
    BY <1>2, <1>5, RecordFacts DEF Intents, Kind, Exists
  <2>2. intent' = intent
    BY <1>2, <1>4, <2>1 DEF TypeOK, DurableTyped
  <2> QED
    BY <1>2, <1>4, <2>2, StillMaps
<1>6. CASE Exists(intent[v])
  <2>1. ~HasMetadata(v) /\ intent[v].state = "creating"
    BY <1>2, <1>3, <1>4, <1>6, RecordFacts DEF Sound, GoneOK, HasMetadata
  <2>2. ~HasMetadata(v)'
    BY <1>4, <2>1 DEF HasMetadata, Arriving
  <2>3. Elsewhere(v) /\ intent'[v] = NoRec
    BY <1>2, <1>4 DEF Elsewhere, SameFiles, TypeOK, DurableTyped
  <2>4. Shown(v) = intent[v] /\ Shown(v)' = NoRec
    BY <1>2, <2>1, <2>2, <2>3 DEF AllShown, ShownIs
  <2>5. VolumeMap' = [VolumeMap EXCEPT ![v] = NoRec]
    BY <1>2, <2>3, <2>4, OneVolume
  <2>6. UNCHANGED <<DataMap, ShelfMap, FiledMap>> /\ payload[v].inc = 0
    BY <1>4, SameArchives DEF DataMap, NoPayload
  <2>7. Managed!Cancel(v)
    BY <1>3, <1>4, <2>1, <2>4, <2>5, <2>6
       DEF Managed!Cancel, Managed!Is, Managed!Unwanted, Managed!Free, Managed!As,
           NoRec, Rec, VolumeMap, Shown, DataMap, ShelfMap, FiledMap
  <2> QED
    BY <2>7 DEF Managed!Next
<1> QED
  BY <1>5, <1>6

\* A committed volume begins to leave because its caller asked for it.
LEMMA WithdrawMaps ==
    ASSUME Integrity, HandedDown, NEW p \in Procs, ~Fail(p),
           MarkDeleting(p) \/ PrepareArchive(p)
    PROVE  [Managed!Next]_(Managed!managed)
<1>1. Step(p) /\ pc[p] \in DeleteLabels
  BY DEF Step, DeleteStep, MarkDeleting, PrepareArchive, DeleteLabels
<1>2. /\ Mappable /\ Mappable' /\ TypeOK /\ TypeOK' /\ AllShown /\ AllShown'
  BY <1>1, StepMappable
<1>3. PICK v \in Vols : vol[p] = v /\ acked[v].state = "deleting"
  BY <1>1, DeletingFacts
<1>4. UNCHANGED <<intent, payload, arcMeta, arcPayload, acked, nextInc>>
  BY DEF MarkDeleting, PrepareArchive
<1>5. CASE ~Exists(meta[v])
  <2>1. PrepareArchive(p)
    <3>1. MetadataOf(v).state \notin Deletable
      <4>1. CASE Arriving(v)
        <5>1. MetadataOf(v).state = "handoff"
          BY <1>2, <1>5, <4>1, MetadataOfFacts
        <5> QED
          BY <5>1 DEF Deletable
      <4>2. CASE ~Arriving(v)
        <5>1. MetadataOf(v) = NoRec
          BY <1>2, <1>5, <4>2, MetadataOfFacts DEF HasMetadata
        <5> QED
          BY <5>1 DEF Deletable, NoRec, Rec
      <4> QED
        BY <4>1, <4>2
    <3> QED
      BY <1>3, <3>1 DEF MarkDeleting
  <2>2. meta' = meta
    BY <1>3, <1>5, <2>1 DEF PrepareArchive
  <2> QED
    BY <1>2, <1>4, <2>2, StillMaps
<1>6. CASE Exists(meta[v])
  <2>1. PICK way \in {"deleting", "archiving"} :
          /\ meta' = [meta EXCEPT ![v].state = way]
          /\ way = "deleting" => meta[v].state \in {"live", "deleting"}
    <3>1. MetadataOf(v) = meta[v]
      BY <1>2, <1>6, MetadataOfFacts
    <3> QED
      BY <1>3, <1>6, <3>1 DEF MarkDeleting, PrepareArchive, Deletable
  <2>2. meta[v] \in Metadata /\ meta[v].state \in {"live", "archiving", "deleting"}
    BY <1>2, <1>6, RecordFacts DEF Metadata, Kind, NoRec, Rec, Exists
  <2>3. /\ Elsewhere(v) /\ meta'[v] = [meta[v] EXCEPT !.state = way]
        /\ Exists(meta'[v])
    BY <1>2, <1>4, <2>1, <2>2
       DEF Elsewhere, SameFiles, TypeOK, DurableTyped, Metadata, Kind, NoRec, Rec, Exists
  <2>4. Shown(v) = meta[v] /\ Shown(v)' = meta'[v]
    BY <1>2, <1>6, <2>3 DEF AllShown, ShownIs
  <2>5. CASE meta[v].state = way
    <3>1. meta'[v] = meta[v]
      BY <2>2, <2>3, <2>5 DEF Metadata, Kind, NoRec, Rec
    <3>2. meta' = meta
      BY <1>2, <2>1, <2>3, <3>1 DEF TypeOK, DurableTyped
    <3> QED
      BY <1>2, <1>4, <3>2, StillMaps
  <2>6. CASE meta[v].state # way
    <3>1. meta[v].state = "live" \/ (meta[v].state = "deleting" /\ way = "archiving")
      BY <2>1, <2>2, <2>6
    <3>2. VolumeMap' = [VolumeMap EXCEPT ![v].state = way]
      <4>1. VolumeMap' = [VolumeMap EXCEPT ![v] = [Shown(v) EXCEPT !.state = way]]
        BY <1>2, <2>3, <2>4, OneVolume
      <4> QED
        BY <4>1 DEF VolumeMap
    <3>3. UNCHANGED <<DataMap, ShelfMap, FiledMap>>
      BY <1>4, SameArchives DEF DataMap
    <3>4. Managed!Withdraw(v, way)
      BY <1>3, <1>4, <2>4, <3>1, <3>2, <3>3
         DEF Managed!Withdraw, Managed!Is, Managed!Unwanted, VolumeMap, Shown,
             DataMap, ShelfMap, FiledMap
    <3> QED
      BY <3>4 DEF Managed!Next
  <2> QED
    BY <2>5, <2>6
<1> QED
  BY <1>5, <1>6

\* The ID of a deleted volume is free again.
LEMMA ForgetMaps ==
    ASSUME Integrity, HandedDown, NEW p \in Procs, UnlinkMetadata(p)
    PROVE  [Managed!Next]_(Managed!managed)
<1>1. Step(p) /\ pc[p] \in DeleteLabels
  BY DEF Step, DeleteStep, UnlinkMetadata, DeleteLabels
<1>2. /\ Mappable /\ Mappable' /\ TypeOK /\ AllShown /\ AllShown'
  BY <1>1, StepMappable
<1>3. PICK v \in Vols : vol[p] = v /\ Sound(v) /\ LockedDelete(p) /\ DeleteOK(p)
  BY <1>1, DeletingFacts
<1>4. /\ UNCHANGED <<intent, payload, arcMeta, arcPayload, acked, nextInc>>
      /\ meta' = [meta EXCEPT ![v] = NoRec]
      /\ meta[v].state = "deleting" /\ payload[v] = NoPayload
  BY <1>3 DEF UnlinkMetadata, LockedDelete, DeleteOK
<1>5. ~Exists(intent[v]) /\ ~Arriving(v) /\ intent[v] = NoRec
  <2>1. ~Exists(intent[v]) /\ ~Arriving(v)
    BY <1>3, <1>4 DEF Sound, GoneOK, Exists
  <2> QED
    BY <1>2, <2>1, RecordFacts DEF Intents, Kind, Exists
<1>6. Elsewhere(v) /\ meta'[v] = NoRec
  BY <1>2, <1>4 DEF Elsewhere, SameFiles, TypeOK, DurableTyped
<1>7. ~HasMetadata(v)'
  BY <1>4, <1>5, <1>6 DEF HasMetadata, Arriving, Exists, NoRec, Rec
<1>8. Shown(v) = meta[v] /\ Shown(v)' = NoRec
  BY <1>2, <1>4, <1>5, <1>7 DEF AllShown, ShownIs, Exists
<1>9. VolumeMap' = [VolumeMap EXCEPT ![v] = NoRec]
  BY <1>2, <1>6, <1>8, OneVolume
<1>10. UNCHANGED <<DataMap, ShelfMap, FiledMap>> /\ payload[v].inc = 0
  BY <1>4, SameArchives DEF DataMap, NoPayload
<1>11. Managed!Forget(v)
  BY <1>4, <1>8, <1>9, <1>10
     DEF Managed!Forget, Managed!Is, Managed!Free, Managed!As, NoRec, Rec,
         VolumeMap, Shown, DataMap, ShelfMap, FiledMap
<1> QED
  BY <1>11 DEF Managed!Next

\* The payload is moved to the archive of its generation.
LEMMA ShelveMaps ==
    ASSUME Integrity, HandedDown, NEW p \in Procs, ~Fail(p), MovePayload(p)
    PROVE  [Managed!Next]_(Managed!managed)
<1>1. Step(p) /\ pc[p] \in DeleteLabels
  BY DEF Step, DeleteStep, MovePayload, DeleteLabels
<1>2. /\ Mappable /\ Mappable' /\ TypeOK /\ AllShown
  BY <1>1, StepMappable
<1>3. PICK v \in Vols : vol[p] = v /\ Sound(v) /\ DeleteOK(p)
  BY <1>1, DeletingFacts
<1>4. meta[v].state = "archiving" \/ (~Exists(meta[v]) /\ Arriving(v))
  BY <1>3 DEF DeleteOK, MovePayload
<1>5. PICK i0 \in Incs : /\ MetadataOf(v).inc = i0
                         /\ Exists(meta[v]) => meta[v].inc = i0
  BY <1>2, <1>4, MetadataOfFacts, RecordFacts DEF Exists
<1> DEFINE a == <<v, i0>>
<1>6. a \in Archives
  BY DEF Archives
<1>7. /\ UNCHANGED <<intent, meta, arcMeta, acked, nextInc>>
      /\ (payload[v] = NoPayload) # (arcPayload[a] = NoPayload)
      /\ arcPayload' = [arcPayload EXCEPT ![a] = IF @ = NoPayload THEN payload[v] ELSE @]
      /\ payload' = [payload EXCEPT ![v] = NoPayload]
  BY <1>3, <1>5 DEF MovePayload, Movable, Emptied
<1> HIDE DEF a
<1>8. CASE payload[v] = NoPayload
  <2>1. UNCHANGED <<payload, arcPayload>>
    BY <1>2, <1>6, <1>7, <1>8 DEF TypeOK, DurableTyped
  <2> QED
    BY <1>2, <1>7, <2>1, StillMaps
<1>9. CASE payload[v] # NoPayload
  <2>1. /\ arcPayload[a] = NoPayload
        /\ arcPayload' = [arcPayload EXCEPT ![a] = payload[v]]
    BY <1>7, <1>9
  <2>2. /\ meta[v].state = "archiving" /\ Exists(meta[v]) /\ meta[v].inc = i0
        /\ payload[v].inc = i0
    BY <1>3, <1>4, <1>5, <1>9 DEF Sound, PayloadOK, Exists
  <2>3. Shown(v) = meta[v]
    BY <1>2, <2>2 DEF AllShown, ShownIs
  <2>4. Elsewhere(v) /\ payload'[v].inc = 0
    BY <1>2, <1>7 DEF Elsewhere, SameFiles, NoPayload, TypeOK, DurableTyped
  <2>5. DataMap' = [DataMap EXCEPT ![v] = 0]
    BY <1>2, <2>4, OneVolume
  <2>6. VolumeMap' = VolumeMap
    BY <1>2, <1>7, SameShown DEF VolumeMap, SameFiles
  <2>7. ShelfMap' = ShelfMap \cup {a} /\ a \notin ShelfMap
    <3>1. /\ arcPayload'[a] # NoPayload
          /\ \A b \in Archives \ {a} : arcPayload'[b] = arcPayload[b]
      BY <1>2, <1>6, <1>9, <2>1 DEF TypeOK, DurableTyped
    <3> QED
      BY <1>6, <2>1, <3>1 DEF ShelfMap
  <2>8. a = <<v, Shown(v).inc>>
    BY <2>2, <2>3 DEF a
  <2>9. Managed!Shelve(v)
    BY <1>7, <2>2, <2>3, <2>5, <2>6, <2>7, <2>8, SameArchives
       DEF Managed!Shelve, Managed!Is, VolumeMap, Shown, DataMap, ShelfMap, FiledMap
  <2> QED
    BY <2>9 DEF Managed!Next
<1> QED
  BY <1>8, <1>9

\* The hand-off of the record shows nothing: the volume is found by it.
LEMMA HandOffMaps ==
    ASSUME Integrity, HandedDown, NEW p \in Procs, MoveMetadata(p)
    PROVE  [Managed!Next]_(Managed!managed)
<1>1. Step(p) /\ pc[p] \in DeleteLabels
  BY DEF Step, DeleteStep, MoveMetadata, DeleteLabels
<1>2. /\ Mappable /\ Mappable' /\ TypeOK /\ TypeOK' /\ AllShown /\ AllShown' /\ IInv
  BY <1>1, StepMappable, StepFacts
<1>3. PICK v \in Vols : vol[p] = v /\ DeleteOK(p)
  BY <1>1, DeletingFacts
<1>4. UNCHANGED <<intent, payload, arcPayload, acked, nextInc>>
  BY DEF MoveMetadata
<1>5. CASE ~Exists(meta[v])
  <2>1. UNCHANGED <<meta, arcMeta>>
    BY <1>3, <1>5 DEF MoveMetadata
  <2> QED
    BY <1>2, <1>4, <2>1, StillMaps
<1>6. CASE Exists(meta[v])
  <2>1. meta[v].state = "archiving" /\ meta[v] \in Metadata
    BY <1>2, <1>3, <1>6, RecordFacts DEF DeleteOK, MoveMetadata
  <2>2. PICK i0 \in Incs : meta[v].inc = i0
    BY <1>2, <1>6, RecordFacts
  <2>3. ~Exists(arcMeta[<<v, i0>>])
    BY <1>2, <1>6, <2>2 DEF IInv, GenerationOK
  <2> DEFINE a == <<v, i0>>
  <2>4. a \in Archives /\ ~Exists(arcMeta[a])
    BY <2>3 DEF Archives
  <2>5. /\ arcMeta' = [arcMeta EXCEPT ![a] = meta[v]]
        /\ meta' = [meta EXCEPT ![v] = NoRec]
    BY <1>3, <1>6, <2>2 DEF MoveMetadata
  <2> HIDE DEF a
  <2>6. /\ meta'[v] = NoRec /\ \A w \in Vols \ {v} : meta'[w] = meta[w]
        /\ arcMeta'[a] = meta[v]
        /\ \A b \in Archives \ {a} : arcMeta'[b] = arcMeta[b]
    BY <1>2, <2>4, <2>5 DEF TypeOK, DurableTyped
  <2>7. Elsewhere(v)
    <3>1. \A w \in Vols \ {v}, i \in Incs : arcMeta'[<<w, i>>] = arcMeta[<<w, i>>]
      BY <2>6 DEF a, Archives
    <3> QED
      BY <1>4, <2>6, <3>1 DEF Elsewhere, SameFiles
  <2>8. Shown(v)' = Shown(v)
    <3>1. Shown(v) = meta[v]
      BY <1>2, <1>6 DEF AllShown, ShownIs
    <3>2. Shown(v)' = Rec("archiving", meta[v].size, i0)
      BY <1>2, <2>1, <2>6 DEF AllShown, ShownIs, Exists, NoRec, Rec, a
    <3>3. meta[v] = Rec("archiving", meta[v].size, i0)
      BY <2>1, <2>2 DEF Metadata, Kind, NoRec, Rec
    <3> QED
      BY <3>1, <3>2, <3>3
  <2>9. VolumeMap' = VolumeMap
    <3>1. VolumeMap' = [VolumeMap EXCEPT ![v] = Shown(v)]
      BY <1>2, <2>7, <2>8, OneVolume
    <3> QED
      BY <3>1 DEF VolumeMap
  <2>10. FiledMap' = FiledMap
    <3>1. arcMeta[a].state # "archived" /\ arcMeta'[a].state # "archived"
      BY <2>1, <2>4, <2>6 DEF Exists
    <3> QED
      BY <2>6, <3>1 DEF FiledMap
  <2>11. UNCHANGED <<DataMap, ShelfMap>>
    BY <1>4, SameArchives DEF DataMap
  <2> QED
    BY <1>4, <2>9, <2>10, <2>11, ManagedStutters
<1> QED
  BY <1>5, <1>6

\* An archive is finished, with its data, and the volume ID is free again.
LEMMA FileMaps ==
    ASSUME Integrity, HandedDown, NEW p \in Procs, MarkArchived(p)
    PROVE  [Managed!Next]_(Managed!managed)
<1>1. Step(p) /\ pc[p] \in DeleteLabels
  BY DEF Step, DeleteStep, MarkArchived, DeleteLabels
<1>2. /\ Mappable /\ Mappable' /\ TypeOK /\ TypeOK' /\ AllShown /\ AllShown'
  BY <1>1, StepMappable
<1>3. PICK v \in Vols : vol[p] = v /\ Sound(v) /\ DeleteOK(p)
  BY <1>1, DeletingFacts
<1>4. PICK i0 \in Incs : found[p].inc = i0 /\ arcMeta[<<v, i0>>].state = "archiving"
  BY <1>3 DEF DeleteOK, MarkArchived
<1>5. UNCHANGED <<intent, meta, payload, arcPayload, acked, nextInc>>
  BY DEF MarkArchived
<1>6. /\ ~Exists(meta[v]) /\ payload[v] = NoPayload /\ intent[v] = NoRec
  <2>1. Arriving(v)
    BY <1>4 DEF Arriving
  <2>2. ~Exists(intent[v])
    BY <1>3, <2>1 DEF Sound, GoneOK
  <2> QED
    BY <1>2, <1>3, <2>1, <2>2, RecordFacts
       DEF Sound, GoneOK, PayloadOK, Intents, Kind, Exists
<1>7. arcPayload[<<v, i0>>] # NoPayload
  BY <1>4 DEF HandedDown, HandOffOK
<1> DEFINE a == <<v, i0>>
<1>8. /\ a \in Archives /\ arcMeta[a].state = "archiving" /\ arcMeta[a] \in Archived
      /\ arcPayload[a] # NoPayload
  BY <1>2, <1>4, <1>7, RecordFacts
<1>9. arcMeta' = [arcMeta EXCEPT ![a].state = "archived"]
  BY <1>3, <1>4 DEF MarkArchived
<1>10. Shown(v) = Rec("archiving", arcMeta[a].size, i0)
  BY <1>2, <1>4, <1>6 DEF AllShown, ShownIs
<1> HIDE DEF a
<1>11. /\ arcMeta'[a].state = "archived" /\ arcMeta'[a].size = arcMeta[a].size
       /\ \A b \in Archives \ {a} : arcMeta'[b] = arcMeta[b]
  BY <1>2, <1>8, <1>9 DEF TypeOK, DurableTyped, Archived, Kind, NoRec, Rec
<1>12. Elsewhere(v)
  <2>1. \A w \in Vols \ {v}, i \in Incs : arcMeta'[<<w, i>>] = arcMeta[<<w, i>>]
    BY <1>11 DEF a, Archives
  <2> QED
    BY <1>5, <2>1 DEF Elsewhere, SameFiles
<1>13. Shown(v)' = NoRec
  <2>1. \A i \in Incs : arcMeta'[<<v, i>>].state # "archiving"
    <3>1. HandOffOK(v)
      BY DEF HandedDown
    <3>2. \A i \in Incs \ {i0} : /\ arcMeta[<<v, i>>].state # "archiving"
                                 /\ arcMeta'[<<v, i>>] = arcMeta[<<v, i>>]
      BY <1>4, <1>11, <3>1 DEF HandOffOK, a, Archives
    <3>3. arcMeta'[<<v, i0>>].state = "archived"
      BY <1>11 DEF a
    <3> QED
      BY <3>2, <3>3
  <2>2. ~HasMetadata(v)'
    BY <1>5, <1>6, <2>1 DEF HasMetadata, Arriving
  <2> QED
    BY <1>2, <1>5, <1>6, <2>2 DEF AllShown, ShownIs
<1>14. VolumeMap' = [VolumeMap EXCEPT ![v] = NoRec]
  BY <1>2, <1>12, <1>13, OneVolume
<1>15. FiledMap' = [FiledMap EXCEPT ![a] = Shown(v).size]
  <2>1. arcMeta'[a].state = "archived" /\ arcMeta'[a].size = Shown(v).size
    BY <1>10, <1>11 DEF Rec
  <2>2. \A b \in Archives \ {a} : arcMeta'[b] = arcMeta[b]
    BY <1>11
  <2> QED
    BY <1>8, <2>1, <2>2 DEF FiledMap
<1>16. UNCHANGED <<DataMap, ShelfMap>> /\ a \in ShelfMap /\ payload[v].inc = 0
  BY <1>5, <1>6, <1>8, SameArchives DEF DataMap, ShelfMap, NoPayload
<1>17. a = <<v, Shown(v).inc>> /\ Shown(v).state = "archiving"
  BY <1>10 DEF a, Rec
<1>18. Managed!File(v)
  BY <1>5, <1>14, <1>15, <1>16, <1>17
     DEF Managed!File, Managed!Is, Managed!Free, Managed!As, NoRec, Rec, VolumeMap,
         Shown, DataMap, ShelfMap, FiledMap
<1> QED
  BY <1>18 DEF Managed!Next

\* A purge gives an archive up before it takes its data.
LEMMA ReclaimMaps ==
    ASSUME Integrity, Purging, HandedDown, NEW p \in Procs, ~Fail(p), ReclaimStep(p)
    PROVE  [Managed!Next]_(Managed!managed)
<1>1. Step(p) /\ pc[p] \in ReclaimLabels
  BY DEF Step, ReclaimStep, ReclaimMark, ReclaimPayload, ReclaimRow, ReclaimUnlink,
         ReclaimLabels
<1>2. /\ Mappable /\ Mappable' /\ TypeOK /\ AllShown /\ IInv
  BY <1>1, StepMappable, StepFacts
<1>3. PICK v \in Vols, i0 \in Incs : vol[p] = v /\ found[p].inc = i0
  BY <1>1, <1>2, ReclaimingFacts
<1> DEFINE a == <<v, i0>>
<1>4. /\ Target(p) = a /\ a \in Archives /\ Past(v, i0)
      /\ arcMeta[a].state # "archiving" /\ arcMeta[a] \in Archived
  BY <1>1, <1>2, <1>3, ReclaimingFacts, RecordFacts DEF Past
<1> HIDE DEF a
<1>5. UNCHANGED <<intent, meta, payload, acked, nextInc>>
  BY DEF ReclaimStep, ReclaimMark, ReclaimPayload, ReclaimRow, ReclaimUnlink, files
<1>6. CASE UNCHANGED <<arcMeta, arcPayload>>
  BY <1>2, <1>5, <1>6, StillMaps
<1>7. ASSUME UNCHANGED arcPayload,
             \A b \in Archives \ {a} : arcMeta'[b] = arcMeta[b],
             arcMeta'[a].state \notin {"archiving", "archived"}
      PROVE  [Managed!Next]_(Managed!managed)
  <2>1. \A w \in Vols : SameFiles(w)
    <3>1. arcMeta[a].state # "archiving" /\ arcMeta'[a].state # "archiving"
      BY <1>4, <1>7
    <3>2. \A w \in Vols, i \in Incs : <<w, i>> = a \/ arcMeta'[<<w, i>>] = arcMeta[<<w, i>>]
      BY <1>7 DEF Archives
    <3> QED
      BY <1>5, <3>1, <3>2 DEF SameFiles
  <2>2. UNCHANGED <<VolumeMap, DataMap, ShelfMap>>
    BY <1>2, <1>5, <1>7, <2>1, SameShown, SameArchives DEF VolumeMap, DataMap
  <2>3. FiledMap' = [FiledMap EXCEPT ![a] = 0]
    BY <1>4, <1>7 DEF FiledMap
  <2>4. CASE FiledMap[a] = 0
    <3>1. FiledMap' = FiledMap
      BY <2>3, <2>4 DEF FiledMap
    <3> QED
      BY <1>5, <2>2, <3>1, ManagedStutters
  <2>5. CASE FiledMap[a] # 0
    <3>1. Managed!Purge(a)
      BY <1>5, <2>2, <2>3, <2>5
         DEF Managed!Purge, VolumeMap, Shown, DataMap, ShelfMap, FiledMap
    <3> QED
      BY <1>4, <3>1 DEF Managed!Next, Managed!Archives, Archives, Incs
  <2> QED
    BY <2>4, <2>5
<1>8. CASE ReclaimMark(p)
  <2>1. CASE arcMeta' = arcMeta
    BY <1>6, <1>8, <2>1 DEF ReclaimMark
  <2>2. CASE arcMeta' # arcMeta
    <3>1. arcMeta' = [arcMeta EXCEPT ![a] = Rec("reclaiming", found[p].size, found[p].inc)]
      BY <1>4, <1>8, <2>2 DEF ReclaimMark
    <3>2. /\ arcMeta'[a].state = "reclaiming"
          /\ \A b \in Archives \ {a} : arcMeta'[b] = arcMeta[b]
      BY <1>2, <1>4, <3>1 DEF Rec, TypeOK, DurableTyped
    <3> QED
      BY <1>7, <1>8, <3>2 DEF ReclaimMark
  <2> QED
    BY <2>1, <2>2
<1>9. CASE ReclaimUnlink(p)
  <2>1. /\ arcMeta'[a] = NoRec
        /\ \A b \in Archives \ {a} : arcMeta'[b] = arcMeta[b]
    BY <1>2, <1>4, <1>9 DEF ReclaimUnlink, TypeOK, DurableTyped
  <2> QED
    BY <1>7, <1>9, <2>1 DEF ReclaimUnlink, NoRec, Rec
<1>10. CASE ReclaimRow(p)
  BY <1>6, <1>10 DEF ReclaimRow, files
<1>11. CASE ReclaimPayload(p)
  <2>1. UNCHANGED arcMeta /\ arcPayload' = [arcPayload EXCEPT ![a] = NoPayload]
    BY <1>4, <1>11 DEF ReclaimPayload
  <2>2. CASE arcPayload[a] = NoPayload
    <3>1. arcPayload' = arcPayload
      BY <1>2, <1>4, <2>1, <2>2 DEF TypeOK, DurableTyped
    <3> QED
      BY <1>6, <2>1, <3>1
  <2>3. CASE arcPayload[a] # NoPayload
    <3>1. arcMeta[a].state = "reclaiming"
      BY <1>4, <1>11, <2>3 DEF Purging, PurgeOK, Doomed, ReclaimPayload
    <3>2. FiledMap[a] = 0 /\ FiledMap' = FiledMap
      BY <1>4, <2>1, <3>1, SameArchives DEF FiledMap
    <3>3. a \in ShelfMap /\ ShelfMap' = ShelfMap \ {a}
      BY <1>2, <1>4, <2>1, <2>3 DEF ShelfMap, TypeOK, DurableTyped
    <3>4. UNCHANGED <<VolumeMap, DataMap>>
      BY <1>2, <1>5, <2>1, SameShown DEF VolumeMap, DataMap, SameFiles
    <3>5. Shown(v).inc # i0
      <4>1. i0 # 0 /\ ShownIs(v)
        BY <1>2, ConstantsAssumption DEF Incs, AllShown
      <4>2. CASE Exists(meta[v])
        BY <1>4, <4>1, <4>2 DEF ShownIs, Past
      <4>3. CASE ~Exists(meta[v]) /\ Arriving(v)
        <5>1. PICK i \in Incs : arcMeta[<<v, i>>].state = "archiving"
          BY <4>3 DEF Arriving
        <5>2. i # i0
          BY <1>4, <5>1 DEF Past
        <5> QED
          BY <4>1, <4>3, <5>1, <5>2 DEF ShownIs, Rec
      <4>4. CASE ~HasMetadata(v)
        <5>1. Shown(v) = intent[v] /\ intent[v] \in Intents
          BY <1>2, <4>1, <4>4, RecordFacts DEF ShownIs
        <5> QED
          BY <1>4, <4>1, <5>1 DEF Past, Exists, Intents, Kind, NoRec, Rec
      <4> QED
        BY <4>2, <4>3, <4>4 DEF HasMetadata
    <3>6. Managed!Empty(a)
      BY <1>5, <3>2, <3>3, <3>4, <3>5
         DEF Managed!Empty, VolumeMap, Shown, DataMap, ShelfMap, FiledMap, a
    <3> QED
      BY <1>4, <3>6 DEF Managed!Next, Managed!Archives, Archives, Incs
  <2> QED
    BY <2>2, <2>3
<1> QED
  BY <1>8, <1>9, <1>10, <1>11 DEF ReclaimStep

\* Asking for the delete of whatever the ID stands for.
LEMMA AskMaps ==
    ASSUME Mappable, Mappable', NEW p \in Procs, NEW v \in Vols, StartDelete(p, v)
    PROVE  Managed!Next
<1>1. UNCHANGED <<intent, meta, payload, arcMeta, arcPayload, nextInc>>
  BY DEF StartDelete, Begin, files
<1>2. Lookup(v).inc = Shown(v).inc
  BY DEF Shown, Bytes, Rec
<1>3. acked' = [acked EXCEPT ![v] = Rec("deleting", 0, Shown(v).inc)]
  BY <1>2 DEF StartDelete
<1>4. UNCHANGED <<VolumeMap, DataMap, ShelfMap, FiledMap>>
  BY <1>1, SameShown, SameArchives DEF VolumeMap, DataMap, SameFiles
<1>5. Managed!Ask(v)
  BY <1>1, <1>3, <1>4
     DEF Managed!Ask, Managed!As, Rec, VolumeMap, Shown, DataMap, ShelfMap, FiledMap
<1> QED
  BY <1>5 DEF Managed!Next

LEMMA StepMaps ==
    ASSUME Integrity, Purging, HandedDown, NEW p \in Procs, Step(p)
    PROVE  [Managed!Next]_(Managed!managed)
<1>1. Mappable /\ Mappable'
  BY StepMappable
<1>2. CASE UNCHANGED <<intent, meta, payload, arcMeta, arcPayload, acked, nextInc>>
  BY <1>1, <1>2, StillMaps
<1>3. CASE ~Fail(p) /\ ~UNCHANGED <<intent, meta, payload, arcMeta, arcPayload, acked, nextInc>>
  <2>1. CASE Arrive(p)
    BY <1>3, <2>1
       DEF Arrive, TakeIdentity, LookMetadata, LookIntent, ReadEvidence,
           TakeVolumeLock, Relook, files
  <2>2. CASE CreateStep(p)
    <3>1. CASE CreateBody(p) \/ AdmitCommit(p) \/ EnterCreation(p)
      BY <1>3, <3>1 DEF CreateBody, AdmitCommit, EnterCreation, files
    <3> QED
      BY <1>3, <2>2, <3>1, DropMaps, AnswerMaps, AdmitMaps, MakePayloadMaps,
         SaveMetadataMaps DEF CreateStep
  <2>3. CASE DeleteStep(p)
    <3>1. CASE DeleteBody(p) \/ CancelCommit(p) \/ DropExpansion(p) \/ ReleaseRow(p)
               \/ MoveRow(p)
      BY <1>3, <3>1
         DEF DeleteBody, CancelCommit, DropExpansion, ReleaseRow, MoveRow, files
    <3> QED
      BY <1>3, <2>3, <3>1, DestroyMaps, CancelMaps, GrowMaps, DropMaps,
         WithdrawMaps, ForgetMaps, ShelveMaps, HandOffMaps, FileMaps DEF DeleteStep
  <2>4. CASE ExpandStep(p)
    <3>1. CASE ExpandBody(p) \/ Reserve(p) \/ ReserveCommit(p)
      BY <1>3, <3>1 DEF ExpandBody, Reserve, ReserveCommit, files
    <3> QED
      BY <1>3, <2>4, <3>1, ExpandedMaps, GrowMaps DEF ExpandStep
  <2> QED
    BY <1>3, <2>1, <2>2, <2>3, <2>4, ReclaimMaps DEF Step
<1> QED
  BY <1>2, <1>3 DEF Fail, files

LEMMA InitMaps == Init => Managed!Init
<1> SUFFICES ASSUME Init PROVE Managed!Init
  OBVIOUS
<1>1. ASSUME NEW v \in Vols PROVE Shown(v) = NoRec
  <2>1. MetadataOf(v) = NoRec
    BY <1>1 DEF Init, MetadataOf, Exists, NoRec, Rec, Archives
  <2>2. Lookup(v) = NoRec
    BY <1>1, <2>1 DEF Init, Lookup
  <2> QED
    BY <2>2 DEF Shown, Bytes, NoRec, Rec
<1>2. /\ VolumeMap = [v \in Vols |-> NoRec] /\ DataMap = [v \in Vols |-> 0]
      /\ ShelfMap = {} /\ FiledMap = [a \in Archives |-> 0]
  BY <1>1 DEF Init, VolumeMap, DataMap, ShelfMap, FiledMap, NoPayload, NoRec, Rec
<1> QED
  BY <1>2
     DEF Init, Managed!Init, Managed!Free, Managed!As, Managed!Archives, Archives,
         Incs, NoRec, Rec, VolumeMap, Shown, DataMap, ShelfMap, FiledMap

\* Whatever the interleaving of the calls and whoever dies where, every step
\* of the pool's files is a step of ManagedVolumes or shows its owners
\* nothing: CreateVolume, DeleteVolume, ControllerExpandVolume and the purge
\* keep the life of a volume that search_volume and the answers describe.
THEOREM LifecycleRefinement == ASSUME OrderlyCaller PROVE Spec => LifecycleKept
<1>1. Integrity /\ Purging /\ HandedDown /\ Integrity' /\ HandedDown' /\ [Next]_vars
         => [Managed!Next]_(Managed!managed)
  <2> SUFFICES ASSUME Integrity, Purging, HandedDown, Integrity', HandedDown', [Next]_vars
               PROVE  [Managed!Next]_(Managed!managed)
    OBVIOUS
  <2>1. Mappable /\ Mappable'
    BY DEF Mappable, HandedDown, Integrity, Alone, IInv
  <2>2. ASSUME NEW p \in Procs, Start(p) PROVE [Managed!Next]_(Managed!managed)
    <3>1. CASE \E v \in Vols : StartDelete(p, v)
      BY <2>1, <3>1, AskMaps
    <3>2. CASE ~\E v \in Vols : StartDelete(p, v)
      <4>1. UNCHANGED <<intent, meta, payload, arcMeta, arcPayload, acked, nextInc>>
        BY <2>2, <3>2 DEF Start, StartCreate, StartExpand, StartReclaim, Begin, files
      <4> QED
        BY <2>1, <4>1, StillMaps
    <3> QED
      BY <3>1, <3>2
  <2>3. ASSUME NEW p \in Procs, Abandon(p) PROVE [Managed!Next]_(Managed!managed)
    BY <2>1, <2>3, StillMaps DEF Abandon, Fail, files
  <2>4. CASE ChangePolicy \/ UNCHANGED vars
    <3>1. UNCHANGED <<intent, meta, payload, arcMeta, arcPayload, acked, nextInc>>
      BY <2>4 DEF ChangePolicy, vars, files
    <3> QED
      BY <2>1, <3>1, StillMaps
  <2> QED
    BY <2>2, <2>3, <2>4, StepMaps DEF Next
<1> QED
  BY <1>1, InitMaps, IntegrityHolds, HandedDownHolds, PTL
     DEF Spec, LifecycleKept, Managed!Spec

=============================================================================
