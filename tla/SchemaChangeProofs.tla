-------------------------- MODULE SchemaChangeProofs --------------------------
(***************************************************************************)
(* Theorems about SchemaChange, for any numbers of threads, names and      *)
(* identities, with the end of the process at any step.                    *)
(***************************************************************************)
EXTENDS SchemaChange, TLAPS

\* Where a creator is inside the gate, and where it has a table under way.
Inside == {"validate", "heap", "index", "catalog", "runtime", "resources", "manifest",
           "published", "unresource", "unregister", "close", "unlinkIndex",
           "unlinkHeap", "failed"}
Making == MakingFiles \union {"heap"}

\* The tables of the creators at some steps.
Wanted(steps) == {want[c] : c \in {d \in Creators : step[d] \in steps}}

\* A process that is not there has no threads and no registries.
Downtime ==
    ~up => /\ \A c \in Creators : At(c, "idle")
           /\ \A u \in Users : At(u, "idle")
           /\ reading = {} /\ writing = {}
           /\ waitingReaders = {} /\ waitingWriters = {}
           /\ holdsS = {}

\* One creator is inside the gate, and nobody is beside it.
GateOrder ==
    /\ Gate!Exclusion
    /\ writing \subseteq Creators
    /\ waitingWriters \subseteq Creators
    /\ \A c \in Creators : step[c] \in Inside <=> c \in writing
    /\ \A c \in waitingWriters : At(c, "gate")

\* Schema X covers a creator from before the gate until its report.
SchemaOrder ==
    /\ \A c \in Creators : step[c] \in Inside \union {"gate", "commit"} => holdsX = c
    /\ holdsX # Nobody => holdsS = {}
    /\ \A u \in Users : step[u] \in {"table", "validate", "using"} => u \in holdsS
    /\ \A u \in Users : step[u] \in {"validate", "using"} => locked[u] = Id(u)

\* A table under way shares no name and no identity with the manifest.
TablesApart ==
    /\ \A a, b \in manifest : a[1] = b[1] \/ a[2] = b[2] => a = b
    /\ \A c \in Creators : ~At(c, "idle") => Name(c) \in Names
    /\ \A c \in Creators : step[c] \in Making =>
          /\ want[c] \in Names \X Ids
          /\ Name(c) \notin NamesOf(manifest)
          /\ Id(c) \notin IdsOf(manifest)
    /\ \A c \in Creators : step[c] \in {"published", "commit"} => want[c] \in manifest
    /\ \A u \in Users : At(u, "using") => want[u] \in manifest

\* The registries are the manifest and what the creator in the gate has added.
Registries ==
    up => /\ current = manifest
          /\ catalog = manifest \union
                 Wanted({"runtime", "resources", "manifest", "unresource", "unregister"})
          /\ manifest \union Wanted({"resources", "manifest", "unresource"}) \subseteq runtime
          /\ runtime \subseteq manifest \union
                 Wanted({"resources", "manifest", "unresource", "unregister"})
          /\ resources = manifest \union Wanted({"manifest", "unresource"})

\* Files are there before the manifest names them.  An available owner has no file
\* but those of the manifest, of the creator in the gate, and of earlier processes.
FilesAccounted ==
    /\ ManifestFindsFiles
    /\ \A c \in Creators :
          /\ step[c] \in {"index", "catalog", "runtime", "resources", "manifest"} =>
                <<Id(c), "heap">> \in files
          /\ step[c] \in {"catalog", "runtime", "resources", "manifest"} =>
                <<Id(c), "bpt">> \in files
    /\ up /\ available =>
          /\ files \subseteq FilesOf(manifest) \union stale \union FilesOf(Wanted(MakingFiles))
          /\ \A c \in Creators : At(c, "unlinkHeap") => <<Id(c), "bpt">> \notin files

SchemaIInv ==
    /\ TypeOK
    /\ Downtime
    /\ GateOrder
    /\ SchemaOrder
    /\ TablesApart
    /\ Registries
    /\ FilesAccounted
    /\ CommittedStays


\* Every step keeps the inductive invariant: one case per action of Next.
LEMMA Step == SchemaIInv /\ [Next]_vars => SchemaIInv'
<1> SUFFICES ASSUME SchemaIInv, [Next]_vars PROVE SchemaIInv'
  OBVIOUS
<1> USE NobodyAssumption, NoNameAssumption, NoIdAssumption, ThreadsAssumption
    DEF At, Goto, Name, Id, diskVars, ownerVars, lockVars, reportVars, gateVars
<1>1. ASSUME NEW c \in Creators, NEW n \in Names, StartCreate(c, n) PROVE SchemaIInv'
  <2>1. TypeOK' /\ Downtime'
    BY <1>1 DEF SchemaIInv, StartCreate, TypeOK, Gate!TypeOK, CreatorSteps, Downtime
  <2>2. GateOrder' /\ SchemaOrder'
    BY <1>1 DEF SchemaIInv, StartCreate, GateOrder, Gate!Exclusion, Inside, SchemaOrder
  <2>3. TablesApart' /\ Registries'
    BY <1>1 DEF SchemaIInv, StartCreate, TypeOK, TablesApart, Making, MakingFiles,
       Registries, Wanted
  <2>4. FilesAccounted' /\ CommittedStays'
    BY <1>1 DEF SchemaIInv, StartCreate, MakingFiles, FilesAccounted,
       ManifestFindsFiles, Wanted, CommittedStays
  <2> QED BY <2>1, <2>2, <2>3, <2>4 DEF SchemaIInv
<1>2. ASSUME NEW c \in Creators, LockSchemaX(c) PROVE SchemaIInv'
  <2>1. TypeOK' /\ Downtime'
    BY <1>2 DEF SchemaIInv, LockSchemaX, TypeOK, Gate!TypeOK, CreatorSteps, Downtime
  <2>2. GateOrder' /\ SchemaOrder'
    BY <1>2 DEF SchemaIInv, LockSchemaX, GateOrder, Gate!Exclusion, Inside, SchemaOrder
  <2>3. TablesApart' /\ Registries'
    BY <1>2 DEF SchemaIInv, LockSchemaX, TablesApart, Making, MakingFiles, Registries,
       Wanted
  <2>4. FilesAccounted' /\ CommittedStays'
    BY <1>2 DEF SchemaIInv, LockSchemaX, MakingFiles, FilesAccounted,
       ManifestFindsFiles, Wanted, CommittedStays
  <2> QED BY <2>1, <2>2, <2>3, <2>4 DEF SchemaIInv
<1>3. ASSUME NEW c \in Creators, LockSchemaXFails(c) PROVE SchemaIInv'
  <2>1. TypeOK' /\ Downtime'
    BY <1>3 DEF SchemaIInv, LockSchemaXFails, TypeOK, Gate!TypeOK, CreatorSteps,
       Downtime
  <2>2. GateOrder' /\ SchemaOrder'
    BY <1>3 DEF SchemaIInv, LockSchemaXFails, Gate!Outside, GateOrder, Gate!Exclusion,
       Inside, SchemaOrder
  <2>3. TablesApart' /\ Registries'
    BY <1>3 DEF SchemaIInv, LockSchemaXFails, TablesApart, Making, MakingFiles,
       Registries, Wanted
  <2>4. FilesAccounted' /\ CommittedStays'
    BY <1>3 DEF SchemaIInv, LockSchemaXFails, MakingFiles, FilesAccounted,
       ManifestFindsFiles, Wanted, CommittedStays
  <2> QED BY <2>1, <2>2, <2>3, <2>4 DEF SchemaIInv
<1>4. ASSUME NEW c \in Creators, CallGate(c) PROVE SchemaIInv'
  <2>1. TypeOK' /\ Downtime'
    BY <1>4 DEF SchemaIInv, CallGate, Gate!CallWrite, TypeOK, Gate!TypeOK, Downtime
  <2>2. GateOrder' /\ SchemaOrder'
    BY <1>4 DEF SchemaIInv, CallGate, Gate!CallWrite, GateOrder, Gate!Exclusion,
       SchemaOrder
  <2>3. TablesApart' /\ Registries'
    BY <1>4 DEF SchemaIInv, CallGate, TablesApart, Registries, Wanted
  <2>4. FilesAccounted'
    <3>1. UNCHANGED <<manifest, files, want, step, up, available, stale>>
      BY <1>4 DEF CallGate
    <3> QED BY <3>1 DEF SchemaIInv, FilesAccounted, ManifestFindsFiles, Wanted
  <2>5. CommittedStays'
    BY <1>4 DEF SchemaIInv, CallGate, CommittedStays
  <2> QED BY <2>1, <2>2, <2>3, <2>4, <2>5 DEF SchemaIInv
<1>5. ASSUME NEW c \in Creators, EnterGate(c) PROVE SchemaIInv'
  <2>1. TypeOK' /\ Downtime'
    BY <1>5 DEF SchemaIInv, EnterGate, Gate!EnterWrite, TypeOK, Gate!TypeOK,
       CreatorSteps, Downtime
  <2>2. GateOrder' /\ SchemaOrder'
    BY <1>5 DEF SchemaIInv, EnterGate, Gate!EnterWrite, TypeOK, GateOrder,
       Gate!Exclusion, Inside, SchemaOrder
  <2>3. TablesApart' /\ Registries'
    BY <1>5 DEF SchemaIInv, EnterGate, TablesApart, Making, MakingFiles, Registries,
       Wanted
  <2>4. FilesAccounted' /\ CommittedStays'
    BY <1>5 DEF SchemaIInv, EnterGate, MakingFiles, FilesAccounted, ManifestFindsFiles,
       Wanted, CommittedStays
  <2> QED BY <2>1, <2>2, <2>3, <2>4 DEF SchemaIInv
<1>6. ASSUME NEW c \in Creators, NEW i \in Ids, Validate(c, i) PROVE SchemaIInv'
  <2>1. TypeOK' /\ Downtime'
    BY <1>6 DEF SchemaIInv, Validate, TypeOK, Gate!TypeOK, CreatorSteps, Downtime
  <2>2. GateOrder' /\ SchemaOrder'
    BY <1>6 DEF SchemaIInv, Validate, GateOrder, Gate!Exclusion, Inside, SchemaOrder
  <2>3. TablesApart'
    <3>1. /\ want' = [want EXCEPT ![c] = <<Name(c), i>>]
          /\ step' = [step EXCEPT ![c] = "heap"]
          /\ UNCHANGED manifest
      BY <1>6 DEF Validate
    <3>2. up /\ At(c, "validate")
      BY <1>6 DEF Validate, SchemaIInv, Downtime
    <3>3. Name(c) \in Names /\ Name(c) \notin NamesOf(manifest) /\ i \notin IdsOf(manifest)
      <4>1. Name(c) \notin NamesOf(catalog) /\ i \notin IdsOf(current) /\ current = manifest
        BY <1>6 DEF Validate, MayCreate, UsedIds
      <4>2. manifest \subseteq catalog
        BY <3>2 DEF SchemaIInv, Registries
      <4> QED BY <3>2, <4>1, <4>2 DEF NamesOf, SchemaIInv, TablesApart
    <3> QED BY <3>1, <3>2, <3>3 DEF SchemaIInv, TypeOK, TablesApart
  <2>4. Registries'
    BY <1>6 DEF SchemaIInv, Validate, Registries, Wanted
  <2>5. FilesAccounted'
    BY <1>6 DEF SchemaIInv, Validate, MakingFiles, FilesAccounted, ManifestFindsFiles,
       Wanted
  <2>6. CommittedStays'
    BY <1>6 DEF SchemaIInv, Validate, CommittedStays
  <2> QED BY <2>1, <2>2, <2>3, <2>4, <2>5, <2>6 DEF SchemaIInv
<1>7. ASSUME NEW c \in Creators, Refuse(c) PROVE SchemaIInv'
  <2>1. TypeOK' /\ Downtime'
    BY <1>7 DEF SchemaIInv, Refuse, TypeOK, Gate!TypeOK, CreatorSteps, Downtime
  <2>2. GateOrder' /\ SchemaOrder'
    BY <1>7 DEF SchemaIInv, Refuse, GateOrder, Gate!Exclusion, Inside, SchemaOrder
  <2>3. TablesApart' /\ Registries'
    BY <1>7 DEF SchemaIInv, Refuse, TablesApart, Making, MakingFiles, Registries, Wanted
  <2>4. FilesAccounted' /\ CommittedStays'
    BY <1>7 DEF SchemaIInv, Refuse, MakingFiles, FilesAccounted, ManifestFindsFiles,
       Wanted, CommittedStays
  <2> QED BY <2>1, <2>2, <2>3, <2>4 DEF SchemaIInv
<1>8. ASSUME NEW c \in Creators, MakeHeap(c) PROVE SchemaIInv'
  <2>1. TypeOK' /\ Downtime'
    BY <1>8 DEF SchemaIInv, MakeHeap, MakeFile, TypeOK, Gate!TypeOK, CreatorSteps,
       Kinds, TablesApart, Making, Downtime
  <2>2. GateOrder' /\ SchemaOrder'
    BY <1>8 DEF SchemaIInv, MakeHeap, MakeFile, GateOrder, Gate!Exclusion, Inside,
       SchemaOrder
  <2>3. TablesApart' /\ Registries'
    BY <1>8 DEF SchemaIInv, MakeHeap, MakeFile, TablesApart, Making, Registries, Wanted
  <2>4. FilesAccounted' /\ CommittedStays'
    BY <1>8 DEF SchemaIInv, MakeHeap, MakeFile, TypeOK, Kinds, MakingFiles,
       FilesAccounted, ManifestFindsFiles, FilesOf, Wanted, CommittedStays
  <2> QED BY <2>1, <2>2, <2>3, <2>4 DEF SchemaIInv
<1>9. ASSUME NEW c \in Creators, MakeIndex(c) PROVE SchemaIInv'
  <2>1. TypeOK' /\ Downtime'
    BY <1>9 DEF SchemaIInv, MakeIndex, MakeFile, TypeOK, Gate!TypeOK, CreatorSteps,
       Kinds, TablesApart, Making, MakingFiles, Downtime
  <2>2. GateOrder' /\ SchemaOrder'
    BY <1>9 DEF SchemaIInv, MakeIndex, MakeFile, GateOrder, Gate!Exclusion, Inside,
       SchemaOrder
  <2>3. TablesApart' /\ Registries'
    BY <1>9 DEF SchemaIInv, MakeIndex, MakeFile, TablesApart, Making, MakingFiles,
       Registries, Wanted
  <2>4. FilesAccounted'
    <3>1. /\ UNCHANGED <<manifest, want, up, available, stale>>
          /\ files' = files \union {<<Id(c), "bpt">>}
          /\ \A d \in Creators : step'[d] # step[d] => d = c
          /\ At(c, "index") /\ step'[c] = "catalog"
      BY <1>9 DEF SchemaIInv, TypeOK, MakeIndex, MakeFile
    <3>2. Wanted(MakingFiles) \subseteq Wanted(MakingFiles)' /\ want[c] \in Wanted(MakingFiles)'
      BY <3>1 DEF Wanted, MakingFiles
    <3>3. FilesOf(Wanted(MakingFiles)) \union {<<Id(c), "bpt">>} \subseteq FilesOf(Wanted(MakingFiles)')
      BY <3>2 DEF FilesOf, Kinds
    <3>4. \A d \in Creators : step[d] \in Inside => d = c
      BY <1>9 DEF SchemaIInv, MakeIndex, MakeFile, GateOrder, Gate!Exclusion, Inside
    <3>5. ManifestFindsFiles'
      BY <3>1 DEF SchemaIInv, FilesAccounted, ManifestFindsFiles
    <3> QED BY <3>1, <3>3, <3>4, <3>5 DEF SchemaIInv, FilesAccounted, Inside
  <2>5. CommittedStays'
    BY <1>9 DEF SchemaIInv, MakeIndex, MakeFile, CommittedStays
  <2> QED BY <2>1, <2>2, <2>3, <2>4, <2>5 DEF SchemaIInv
<1>10. ASSUME NEW c \in Creators, RegisterCatalog(c) PROVE SchemaIInv'
  <2>1. TypeOK' /\ Downtime'
    BY <1>10 DEF SchemaIInv, RegisterCatalog, TypeOK, Gate!TypeOK, CreatorSteps,
       TablesApart, Making, MakingFiles, Downtime
  <2>2. GateOrder' /\ SchemaOrder'
    BY <1>10 DEF SchemaIInv, RegisterCatalog, GateOrder, Gate!Exclusion, Inside,
       SchemaOrder
  <2>3. TablesApart' /\ Registries'
    BY <1>10 DEF SchemaIInv, RegisterCatalog, TypeOK, TablesApart, Making, MakingFiles,
       Registries, Wanted
  <2>4. FilesAccounted' /\ CommittedStays'
    BY <1>10 DEF SchemaIInv, RegisterCatalog, MakingFiles, FilesAccounted,
       ManifestFindsFiles, Wanted, CommittedStays
  <2> QED BY <2>1, <2>2, <2>3, <2>4 DEF SchemaIInv
<1>11. ASSUME NEW c \in Creators, RegisterRuntime(c) PROVE SchemaIInv'
  <2>1. TypeOK' /\ Downtime'
    BY <1>11 DEF SchemaIInv, RegisterRuntime, TypeOK, Gate!TypeOK, CreatorSteps,
       TablesApart, Making, MakingFiles, Downtime
  <2>2. GateOrder' /\ SchemaOrder'
    BY <1>11 DEF SchemaIInv, RegisterRuntime, GateOrder, Gate!Exclusion, Inside,
       SchemaOrder
  <2>3. TablesApart' /\ Registries'
    BY <1>11 DEF SchemaIInv, RegisterRuntime, TypeOK, TablesApart, Making, MakingFiles,
       Registries, Wanted
  <2>4. FilesAccounted' /\ CommittedStays'
    BY <1>11 DEF SchemaIInv, RegisterRuntime, MakingFiles, FilesAccounted,
       ManifestFindsFiles, Wanted, CommittedStays
  <2> QED BY <2>1, <2>2, <2>3, <2>4 DEF SchemaIInv
<1>12. ASSUME NEW c \in Creators, RegisterResources(c) PROVE SchemaIInv'
  <2>1. TypeOK' /\ Downtime'
    BY <1>12 DEF SchemaIInv, RegisterResources, TypeOK, Gate!TypeOK, CreatorSteps,
       TablesApart, Making, MakingFiles, Downtime
  <2>2. GateOrder' /\ SchemaOrder'
    BY <1>12 DEF SchemaIInv, RegisterResources, GateOrder, Gate!Exclusion, Inside,
       SchemaOrder
  <2>3. TablesApart' /\ Registries'
    BY <1>12 DEF SchemaIInv, RegisterResources, NamesOf, IdsOf, TypeOK, TablesApart,
       Registries, Wanted, Downtime
  <2>4. FilesAccounted' /\ CommittedStays'
    BY <1>12 DEF SchemaIInv, RegisterResources, MakingFiles, FilesAccounted,
       ManifestFindsFiles, Wanted, CommittedStays
  <2> QED BY <2>1, <2>2, <2>3, <2>4 DEF SchemaIInv
<1>13. ASSUME NEW c \in Creators, WriteManifest(c) PROVE SchemaIInv'
  <2>1. TypeOK' /\ Downtime'
    BY <1>13 DEF SchemaIInv, WriteManifest, TypeOK, Gate!TypeOK, CreatorSteps,
       TablesApart, Making, MakingFiles, Downtime
  <2>2. GateOrder' /\ SchemaOrder'
    BY <1>13 DEF SchemaIInv, WriteManifest, GateOrder, Gate!Exclusion, Inside,
       SchemaOrder
  <2>3. TablesApart' /\ Registries'
    BY <1>13 DEF SchemaIInv, WriteManifest, TypeOK, TablesApart, Making, MakingFiles,
       NamesOf, IdsOf, Inside, Registries, SchemaOrder, Wanted, Downtime
  <2>4. FilesAccounted'
    <3>1. /\ manifest' = manifest \union {want[c]}
          /\ UNCHANGED <<files, want, up, available, stale>>
          /\ step' = [step EXCEPT ![c] = "published"]
      BY <1>13 DEF SchemaIInv, WriteManifest, Downtime, Registries
    <3>2. \A d \in Creators : step[d] \in Inside => d = c
      BY <1>13 DEF SchemaIInv, WriteManifest, GateOrder, Gate!Exclusion, Inside
    <3>3. \A d \in Creators : step'[d] \notin Inside \ {"published"}
      BY <3>1, <3>2 DEF SchemaIInv, TypeOK
    <3>4. ManifestFindsFiles'
      <4>1. <<Id(c), "heap">> \in files /\ <<Id(c), "bpt">> \in files
        BY <1>13 DEF SchemaIInv, WriteManifest, FilesAccounted
      <4>2. FilesOf(manifest \union {want[c]}) =
              FilesOf(manifest) \union {<<Id(c), "heap">>, <<Id(c), "bpt">>}
        BY DEF FilesOf, Kinds
      <4> QED BY <3>1, <4>1, <4>2 DEF SchemaIInv, FilesAccounted, ManifestFindsFiles
    <3>5. Wanted(MakingFiles) \subseteq {want[c]}
      BY <3>2 DEF Wanted, MakingFiles, Inside
    <3>6. FilesOf(manifest) \union FilesOf(Wanted(MakingFiles)) \subseteq FilesOf(manifest')
      BY <3>1, <3>5 DEF FilesOf
    <3> QED BY <3>1, <3>3, <3>4, <3>6 DEF SchemaIInv, FilesAccounted, Inside
  <2>5. CommittedStays'
    BY <1>13 DEF SchemaIInv, WriteManifest, CommittedStays, Registries, Downtime
  <2> QED BY <2>1, <2>2, <2>3, <2>4, <2>5 DEF SchemaIInv
<1>14. ASSUME NEW c \in Creators, Compensate(c) PROVE SchemaIInv'
  <2>1. TypeOK' /\ Downtime'
    BY <1>14 DEF SchemaIInv, Compensate, TypeOK, Gate!TypeOK, CreatorSteps, Downtime
  <2>2. GateOrder' /\ SchemaOrder'
    BY <1>14 DEF SchemaIInv, Compensate, TypeOK, GateOrder, Gate!Exclusion, Inside,
       SchemaOrder
  <2>3. TablesApart' /\ Registries'
    BY <1>14 DEF SchemaIInv, Compensate, TypeOK, Gate!TypeOK, TablesApart, Making,
       MakingFiles, IdsOf, Registries, Wanted
  <2>4. FilesAccounted'
    <3>1. /\ UNCHANGED <<manifest, files, want, up, available, stale>>
          /\ \A d \in Creators : step'[d] # step[d] =>
                d = c /\ step'[d] \in {"close", "unregister", "unresource"}
      BY <1>14 DEF SchemaIInv, TypeOK, Compensate
    <3>2. Wanted(MakingFiles) \subseteq Wanted(MakingFiles)'
      BY <3>1 DEF Wanted, MakingFiles
    <3>3. FilesOf(Wanted(MakingFiles)) \subseteq FilesOf(Wanted(MakingFiles)')
      BY <3>2 DEF FilesOf
    <3> QED BY <3>1, <3>3 DEF SchemaIInv, FilesAccounted, ManifestFindsFiles
  <2>5. CommittedStays'
    BY <1>14 DEF SchemaIInv, Compensate, CommittedStays
  <2> QED BY <2>1, <2>2, <2>3, <2>4, <2>5 DEF SchemaIInv
<1>15. ASSUME NEW c \in Creators, UnregisterResources(c) PROVE SchemaIInv'
  <2>1. TypeOK' /\ Downtime'
    BY <1>15 DEF SchemaIInv, UnregisterResources, Without, TypeOK, Gate!TypeOK,
       CreatorSteps, Downtime
  <2>2. GateOrder' /\ SchemaOrder'
    BY <1>15 DEF SchemaIInv, UnregisterResources, GateOrder, Gate!Exclusion, Inside,
       SchemaOrder
  <2>3. TablesApart' /\ Registries'
    BY <1>15 DEF SchemaIInv, UnregisterResources, Without, TypeOK, TablesApart, Making,
       MakingFiles, NamesOf, Inside, Registries, SchemaOrder, Wanted
  <2>4. FilesAccounted' /\ CommittedStays'
    BY <1>15 DEF SchemaIInv, UnregisterResources, MakingFiles, FilesAccounted,
       ManifestFindsFiles, Wanted, CommittedStays
  <2> QED BY <2>1, <2>2, <2>3, <2>4 DEF SchemaIInv
<1>16. ASSUME NEW c \in Creators, UnregisterTable(c) PROVE SchemaIInv'
  <2>1. TypeOK' /\ Downtime'
    BY <1>16 DEF SchemaIInv, UnregisterTable, Without, TypeOK, Gate!TypeOK,
       CreatorSteps, Downtime
  <2>2. GateOrder' /\ SchemaOrder'
    BY <1>16 DEF SchemaIInv, UnregisterTable, GateOrder, Gate!Exclusion, Inside,
       SchemaOrder
  <2>3. TablesApart' /\ Registries'
    BY <1>16 DEF SchemaIInv, UnregisterTable, Without, TypeOK, TablesApart, Making,
       MakingFiles, NamesOf, Inside, Registries, SchemaOrder, Wanted
  <2>4. FilesAccounted' /\ CommittedStays'
    BY <1>16 DEF SchemaIInv, UnregisterTable, MakingFiles, FilesAccounted,
       ManifestFindsFiles, Wanted, CommittedStays
  <2> QED BY <2>1, <2>2, <2>3, <2>4 DEF SchemaIInv
<1>17. ASSUME NEW c \in Creators, CloseHandles(c) PROVE SchemaIInv'
  <2>1. TypeOK' /\ Downtime'
    BY <1>17 DEF SchemaIInv, CloseHandles, TypeOK, Gate!TypeOK, CreatorSteps, Downtime
  <2>2. GateOrder' /\ SchemaOrder'
    BY <1>17 DEF SchemaIInv, CloseHandles, GateOrder, Gate!Exclusion, Inside,
       SchemaOrder
  <2>3. TablesApart' /\ Registries'
    BY <1>17 DEF SchemaIInv, CloseHandles, TablesApart, Making, MakingFiles, Registries,
       Wanted
  <2>4. FilesAccounted'
    <3>1. /\ UNCHANGED <<manifest, files, want, up, stale>>
          /\ \A d \in Creators : step'[d] # step[d] => d = c /\ step'[d] = "unlinkIndex"
          /\ At(c, "close")
      BY <1>17 DEF SchemaIInv, CloseHandles, TypeOK
    <3>2. available' => available
      BY <1>17, Zenon DEF CloseHandles
    <3>3. Wanted(MakingFiles)' = Wanted(MakingFiles)
      BY <1>17, <3>1 DEF Wanted, MakingFiles
    <3>4. ManifestFindsFiles'
      BY <3>1 DEF SchemaIInv, FilesAccounted, ManifestFindsFiles
    <3> QED BY <3>1, <3>2, <3>3, <3>4 DEF SchemaIInv, FilesAccounted
  <2>5. CommittedStays'
    BY <1>17 DEF SchemaIInv, CloseHandles, CommittedStays
  <2> QED BY <2>1, <2>2, <2>3, <2>4, <2>5 DEF SchemaIInv
<1>18. ASSUME NEW c \in Creators, UnlinkIndex(c) PROVE SchemaIInv'
  <2>1. TypeOK' /\ Downtime'
    BY <1>18 DEF SchemaIInv, UnlinkIndex, Unlink, TypeOK, Gate!TypeOK, CreatorSteps,
       Downtime
  <2>2. GateOrder' /\ SchemaOrder'
    BY <1>18 DEF SchemaIInv, UnlinkIndex, Unlink, GateOrder, Gate!Exclusion, Inside,
       SchemaOrder
  <2>3. TablesApart' /\ Registries'
    BY <1>18 DEF SchemaIInv, UnlinkIndex, Unlink, TablesApart, Making, MakingFiles,
       Registries, Wanted
  <2>4. FilesAccounted'
    <3>1. Wanted(MakingFiles)' = Wanted(MakingFiles)
      BY <1>18 DEF UnlinkIndex, Unlink, Wanted, MakingFiles
    <3>2. \A d \in Creators : step'[d] # step[d] => d = c /\ step'[d] = "unlinkHeap"
      BY <1>18 DEF SchemaIInv, UnlinkIndex, Unlink
    <3>3. \A d \in Creators : step[d] \in Inside => d = c
      BY <1>18 DEF SchemaIInv, UnlinkIndex, Unlink, GateOrder, Gate!Exclusion, Inside
    <3>4. Id(c) \notin IdsOf(manifest)
      BY <1>18 DEF SchemaIInv, UnlinkIndex, Unlink, TablesApart, Making, MakingFiles
    <3>5. ManifestFindsFiles'
      BY <1>18, <3>4 DEF SchemaIInv, UnlinkIndex, Unlink, FilesAccounted,
         ManifestFindsFiles, FilesOf, IdsOf
    <3> QED BY <1>18, <3>1, <3>2, <3>3, <3>5
            DEF SchemaIInv, UnlinkIndex, Unlink, FilesAccounted, Inside
  <2>5. CommittedStays'
    BY <1>18 DEF SchemaIInv, UnlinkIndex, Unlink, CommittedStays
  <2> QED BY <2>1, <2>2, <2>3, <2>4, <2>5 DEF SchemaIInv
<1>19. ASSUME NEW c \in Creators, UnlinkHeap(c) PROVE SchemaIInv'
  <2>1. TypeOK' /\ Downtime'
    BY <1>19 DEF SchemaIInv, UnlinkHeap, Unlink, TypeOK, Gate!TypeOK, CreatorSteps,
       Downtime
  <2>2. GateOrder' /\ SchemaOrder'
    BY <1>19 DEF SchemaIInv, UnlinkHeap, Unlink, GateOrder, Gate!Exclusion, Inside,
       SchemaOrder
  <2>3. TablesApart' /\ Registries'
    BY <1>19 DEF SchemaIInv, UnlinkHeap, Unlink, TablesApart, Making, MakingFiles,
       Registries, Wanted
  <2>4. FilesAccounted' /\ CommittedStays'
    BY <1>19 DEF SchemaIInv, UnlinkHeap, Unlink, Kinds, TablesApart, Making,
       MakingFiles, IdsOf, GateOrder, Gate!Exclusion, Inside, FilesAccounted,
       ManifestFindsFiles, FilesOf, Wanted, CommittedStays
  <2> QED BY <2>1, <2>2, <2>3, <2>4 DEF SchemaIInv
<1>20. ASSUME NEW c \in Creators, LeaveGate(c) PROVE SchemaIInv'
  <2>1. TypeOK' /\ Downtime'
    <3>1. /\ ~At(c, "idle") /\ up
          /\ \/ step' = [step EXCEPT ![c] = "commit"]
             \/ step' = [step EXCEPT ![c] = "abort"]
      BY <1>20 DEF SchemaIInv, LeaveGate, TypeOK, Downtime
    <3>2. Gate!TypeOK'
      BY <1>20 DEF SchemaIInv, LeaveGate, Gate!LeaveWrite, TypeOK, Gate!TypeOK
    <3> QED BY <1>20, <3>1, <3>2 DEF SchemaIInv, LeaveGate, TypeOK, CreatorSteps, Downtime
  <2>2. GateOrder' /\ SchemaOrder'
    BY <1>20 DEF SchemaIInv, LeaveGate, Gate!LeaveWrite, TypeOK, GateOrder,
       Gate!Exclusion, Inside, SchemaOrder
  <2>3. TablesApart' /\ Registries'
    BY <1>20 DEF SchemaIInv, LeaveGate, TypeOK, TablesApart, Making, MakingFiles,
       Registries, Wanted
  <2>4. FilesAccounted' /\ CommittedStays'
    BY <1>20 DEF SchemaIInv, LeaveGate, Gate!LeaveWrite, TypeOK, MakingFiles,
       FilesAccounted, ManifestFindsFiles, FilesOf, Wanted, CommittedStays
  <2> QED BY <2>1, <2>2, <2>3, <2>4 DEF SchemaIInv
<1>21. ASSUME NEW c \in Creators, Finish(c) PROVE SchemaIInv'
  <2>1. TypeOK' /\ Downtime'
    BY <1>21 DEF SchemaIInv, Finish, NoTable, UnlockX, TypeOK, Gate!TypeOK,
       CreatorSteps, TablesApart, Downtime
  <2>2. GateOrder' /\ SchemaOrder'
    BY <1>21 DEF SchemaIInv, Finish, UnlockX, TypeOK, GateOrder, Gate!Exclusion, Inside,
       SchemaOrder
  <2>3. TablesApart' /\ Registries'
    BY <1>21 DEF SchemaIInv, Finish, TypeOK, TablesApart, Making, MakingFiles,
       Registries, Wanted
  <2>4. FilesAccounted' /\ CommittedStays'
    BY <1>21 DEF SchemaIInv, Finish, TablesApart, MakingFiles, FilesAccounted,
       ManifestFindsFiles, Wanted, CommittedStays
  <2> QED BY <2>1, <2>2, <2>3, <2>4 DEF SchemaIInv
<1>22. ASSUME NEW u \in Users, NEW t \in resources, Plan(u, t) PROVE SchemaIInv'
  <2>1. TypeOK' /\ Downtime'
    BY <1>22 DEF SchemaIInv, Plan, TypeOK, Gate!TypeOK, UserSteps, Downtime
  <2>2. GateOrder' /\ SchemaOrder'
    BY <1>22 DEF SchemaIInv, Plan, GateOrder, Gate!Exclusion, SchemaOrder
  <2>3. TablesApart' /\ Registries'
    BY <1>22 DEF SchemaIInv, Plan, TablesApart, Registries, Wanted
  <2>4. FilesAccounted' /\ CommittedStays'
    BY <1>22 DEF SchemaIInv, Plan, FilesAccounted, ManifestFindsFiles, Wanted,
       CommittedStays
  <2> QED BY <2>1, <2>2, <2>3, <2>4 DEF SchemaIInv
<1>23. ASSUME NEW u \in Users, LockSchemaS(u) PROVE SchemaIInv'
  <2>1. TypeOK' /\ Downtime'
    BY <1>23 DEF SchemaIInv, LockSchemaS, TypeOK, Gate!TypeOK, UserSteps, Downtime
  <2>2. GateOrder' /\ SchemaOrder'
    BY <1>23 DEF SchemaIInv, LockSchemaS, GateOrder, Gate!Exclusion, SchemaOrder
  <2>3. TablesApart' /\ Registries'
    BY <1>23 DEF SchemaIInv, LockSchemaS, TablesApart, Registries, Wanted
  <2>4. FilesAccounted' /\ CommittedStays'
    BY <1>23 DEF SchemaIInv, LockSchemaS, FilesAccounted, ManifestFindsFiles, Wanted,
       CommittedStays
  <2> QED BY <2>1, <2>2, <2>3, <2>4 DEF SchemaIInv
<1>24. ASSUME NEW u \in Users, LockTable(u) PROVE SchemaIInv'
  <2>1. TypeOK' /\ Downtime'
    BY <1>24 DEF SchemaIInv, LockTable, TypeOK, Gate!TypeOK, UserSteps, Downtime
  <2>2. GateOrder' /\ SchemaOrder'
    BY <1>24 DEF SchemaIInv, LockTable, TypeOK, GateOrder, Gate!Exclusion, SchemaOrder
  <2>3. TablesApart' /\ Registries'
    BY <1>24 DEF SchemaIInv, LockTable, TablesApart, Registries, Wanted
  <2>4. FilesAccounted' /\ CommittedStays'
    BY <1>24 DEF SchemaIInv, LockTable, FilesAccounted, ManifestFindsFiles, Wanted,
       CommittedStays
  <2> QED BY <2>1, <2>2, <2>3, <2>4 DEF SchemaIInv
<1>25. ASSUME NEW u \in Users, ValidatePlan(u) PROVE SchemaIInv'
  <2>1. TypeOK' /\ Downtime'
    BY <1>25 DEF SchemaIInv, ValidatePlan, TypeOK, Gate!TypeOK, UserSteps, Downtime
  <2>2. GateOrder' /\ SchemaOrder'
    BY <1>25 DEF SchemaIInv, ValidatePlan, GateOrder, Gate!Exclusion, SchemaOrder
  <2>3. TablesApart' /\ Registries'
    BY <1>25 DEF SchemaIInv, ValidatePlan, StillPlanned, TablesApart, Inside,
       Registries, SchemaOrder, Wanted, Downtime
  <2>4. FilesAccounted' /\ CommittedStays'
    BY <1>25 DEF SchemaIInv, ValidatePlan, FilesAccounted, ManifestFindsFiles, Wanted,
       CommittedStays
  <2> QED BY <2>1, <2>2, <2>3, <2>4 DEF SchemaIInv
<1>26. ASSUME NEW u \in Users, ReleaseLocks(u) PROVE SchemaIInv'
  <2>1. TypeOK' /\ Downtime'
    BY <1>26 DEF SchemaIInv, ReleaseLocks, NoTable, TypeOK, Gate!TypeOK, UserSteps,
       Downtime
  <2>2. GateOrder' /\ SchemaOrder'
    BY <1>26 DEF SchemaIInv, ReleaseLocks, TypeOK, GateOrder, Gate!Exclusion,
       SchemaOrder
  <2>3. TablesApart' /\ Registries'
    BY <1>26 DEF SchemaIInv, ReleaseLocks, TypeOK, TablesApart, Registries, Wanted
  <2>4. FilesAccounted'
    <3>1. /\ UNCHANGED <<manifest, files, up, available, stale>>
          /\ \A d \in Creators : step'[d] = step[d] /\ want'[d] = want[d]
      BY <1>26 DEF SchemaIInv, TypeOK, ReleaseLocks
    <3>2. Wanted(MakingFiles)' = Wanted(MakingFiles)
      BY <3>1 DEF Wanted
    <3> QED BY <3>1, <3>2 DEF SchemaIInv, FilesAccounted, ManifestFindsFiles
  <2>5. CommittedStays'
    BY <1>26 DEF SchemaIInv, ReleaseLocks, CommittedStays
  <2> QED BY <2>1, <2>2, <2>3, <2>4, <2>5 DEF SchemaIInv
<1>27. ASSUME NEW l \in Listers, CallList(l) PROVE SchemaIInv'
  <2>1. TypeOK' /\ Downtime'
    BY <1>27 DEF SchemaIInv, CallList, Gate!CallRead, TypeOK, Gate!TypeOK, Downtime
  <2>2. GateOrder' /\ SchemaOrder'
    BY <1>27 DEF SchemaIInv, CallList, Gate!CallRead, GateOrder, Gate!Exclusion,
       SchemaOrder
  <2>3. TablesApart' /\ Registries'
    BY <1>27 DEF SchemaIInv, CallList, TablesApart, Registries, Wanted
  <2>4. FilesAccounted' /\ CommittedStays'
    BY <1>27 DEF SchemaIInv, CallList, FilesAccounted, ManifestFindsFiles, Wanted,
       CommittedStays
  <2> QED BY <2>1, <2>2, <2>3, <2>4 DEF SchemaIInv
<1>28. ASSUME NEW l \in Listers, EnterList(l) PROVE SchemaIInv'
  <2>1. TypeOK' /\ Downtime'
    BY <1>28 DEF SchemaIInv, EnterList, Gate!EnterRead, TypeOK, Gate!TypeOK, Downtime
  <2>2. GateOrder' /\ SchemaOrder'
    BY <1>28 DEF SchemaIInv, EnterList, Gate!EnterRead, GateOrder, Gate!Exclusion,
       SchemaOrder
  <2>3. TablesApart' /\ Registries'
    BY <1>28 DEF SchemaIInv, EnterList, TablesApart, Registries, Wanted
  <2>4. FilesAccounted' /\ CommittedStays'
    BY <1>28 DEF SchemaIInv, EnterList, FilesAccounted, ManifestFindsFiles, Wanted,
       CommittedStays
  <2> QED BY <2>1, <2>2, <2>3, <2>4 DEF SchemaIInv
<1>29. ASSUME NEW l \in Listers, LeaveList(l) PROVE SchemaIInv'
  <2>1. TypeOK' /\ Downtime'
    BY <1>29 DEF SchemaIInv, LeaveList, Gate!LeaveRead, TypeOK, Gate!TypeOK, Downtime
  <2>2. GateOrder' /\ SchemaOrder'
    BY <1>29 DEF SchemaIInv, LeaveList, Gate!LeaveRead, GateOrder, Gate!Exclusion,
       SchemaOrder
  <2>3. TablesApart' /\ Registries'
    BY <1>29 DEF SchemaIInv, LeaveList, TablesApart, Registries, Wanted
  <2>4. FilesAccounted' /\ CommittedStays'
    BY <1>29 DEF SchemaIInv, LeaveList, FilesAccounted, ManifestFindsFiles, Wanted,
       CommittedStays
  <2> QED BY <2>1, <2>2, <2>3, <2>4 DEF SchemaIInv
<1>30. ASSUME Crash PROVE SchemaIInv'
  <2>1. TypeOK'
    <3>1. /\ step' \in [Creators \union Users -> CreatorSteps \union UserSteps]
          /\ want' \in [Creators \union Users -> (Names \union {NoName}) \X (Ids \union {NoId})]
          /\ locked' \in [Users -> Ids \union {NoId}]
      BY <1>30 DEF Crash, AllIdle, WantsNone, LocksNone, NoTable, UserSteps
    <3>2. \A t \in Creators \union Users : step'[t] = "idle"
      BY <1>30 DEF Crash, AllIdle
    <3> QED BY <1>30, <3>1, <3>2 DEF SchemaIInv, TypeOK, Crash, Load, Gate!TypeOK,
       CreatorSteps, UserSteps
  <2>2. Downtime'
    BY <1>30 DEF Crash, AllIdle, Downtime
  <2>3. GateOrder' /\ SchemaOrder'
    BY <1>30 DEF Crash, AllIdle, GateOrder, Gate!Exclusion, Inside, SchemaOrder
  <2>4. TablesApart' /\ Registries'
    BY <1>30 DEF SchemaIInv, Crash, AllIdle, TablesApart, Making, MakingFiles,
       Registries
  <2>5. FilesAccounted' /\ CommittedStays'
    BY <1>30 DEF SchemaIInv, Crash, AllIdle, FilesAccounted, ManifestFindsFiles,
       CommittedStays
  <2> QED BY <2>1, <2>2, <2>3, <2>4, <2>5 DEF SchemaIInv
<1>31. ASSUME Reopen PROVE SchemaIInv'
  <2>1. TypeOK' /\ Downtime'
    BY <1>31 DEF SchemaIInv, Reopen, Load, TypeOK, Gate!TypeOK, Downtime
  <2>2. GateOrder' /\ SchemaOrder'
    BY <1>31 DEF SchemaIInv, Reopen, GateOrder, Gate!Exclusion, SchemaOrder
  <2>3. TablesApart' /\ Registries'
    BY <1>31 DEF SchemaIInv, Reopen, Load, TablesApart, Registries, Wanted, Downtime
  <2>4. FilesAccounted' /\ CommittedStays'
    BY <1>31 DEF SchemaIInv, Reopen, FilesAccounted, ManifestFindsFiles, Downtime,
       CommittedStays
  <2> QED BY <2>1, <2>2, <2>3, <2>4 DEF SchemaIInv
<1>32. CASE UNCHANGED vars
  BY <1>32 DEF vars, SchemaIInv, TypeOK, Gate!TypeOK, Downtime, GateOrder,
     Gate!Exclusion, SchemaOrder, TablesApart, Registries, FilesAccounted,
     ManifestFindsFiles, CommittedStays, Wanted
<1> HIDE DEF At, Goto, Name, Id, diskVars, ownerVars, lockVars, reportVars, gateVars
<1> QED BY <1>1, <1>2, <1>3, <1>4, <1>5, <1>6, <1>7, <1>8, <1>9, <1>10, <1>11, <1>12,
   <1>13, <1>14, <1>15, <1>16, <1>17, <1>18, <1>19, <1>20, <1>21, <1>22, <1>23, <1>24,
   <1>25, <1>26, <1>27, <1>28, <1>29, <1>30, <1>31, <1>32 DEF Next, CreatorNext,
   UserNext

\* Database.create leaves the owner in such a state.
LEMMA InitSchemaIInv == Init => SchemaIInv
<1> SUFFICES ASSUME Init PROVE SchemaIInv
  OBVIOUS
<1> USE NobodyAssumption, NoNameAssumption, NoIdAssumption, ThreadsAssumption
<1>1. /\ manifest = {} /\ files = {} /\ catalog = {} /\ runtime = {} /\ resources = {}
      /\ current = {} /\ committed = {} /\ stale = {} /\ up
      /\ reading = {} /\ writing = {} /\ waitingReaders = {} /\ waitingWriters = {}
      /\ \A t \in Creators \union Users : step[t] = "idle"
      /\ holdsX = Nobody /\ holdsS = {}
  BY DEF Init, Gate!Init, AllIdle
<1>2. TypeOK
  <2>1. /\ step \in [Creators \union Users -> CreatorSteps \union UserSteps]
        /\ want \in [Creators \union Users -> (Names \union {NoName}) \X (Ids \union {NoId})]
        /\ locked \in [Users -> Ids \union {NoId}]
    BY DEF Init, AllIdle, WantsNone, LocksNone, NoTable, CreatorSteps, UserSteps
  <2> QED BY <1>1, <2>1 DEF Init, TypeOK, Gate!TypeOK, CreatorSteps, UserSteps
<1>3. Wanted({"runtime", "resources", "manifest", "unresource", "unregister"}) = {}
      /\ Wanted({"resources", "manifest", "unresource"}) = {}
      /\ Wanted({"resources", "manifest", "unresource", "unregister"}) = {}
      /\ Wanted({"manifest", "unresource"}) = {}
  BY <1>1 DEF Wanted
<1>4. Downtime /\ GateOrder /\ SchemaOrder
  BY <1>1 DEF Downtime, GateOrder, Gate!Exclusion, SchemaOrder, At, Inside
<1>5. TablesApart
  BY <1>1 DEF TablesApart, Making, MakingFiles, At
<1>6. Registries
  BY <1>1, <1>3 DEF Registries
<1>7. FilesAccounted /\ CommittedStays
  BY <1>1 DEF FilesAccounted, ManifestFindsFiles, FilesOf, CommittedStays, At
<1> QED BY <1>2, <1>4, <1>5, <1>6, <1>7 DEF SchemaIInv

\* Whatever the order of CREATEs, statements, prepare calls, failures and ends of
\* the process, the inductive invariant holds.
THEOREM SchemaInvariant == Spec => []SchemaIInv
<1>1. Init => SchemaIInv
  BY InitSchemaIInv
<1>2. SchemaIInv /\ [Next]_vars => SchemaIInv'
  BY Step
<1> QED BY <1>1, <1>2, PTL DEF Spec

\* All variables keep their types, and no CREATE returns with schema X still held
\* (session.py:964-990).
THEOREM SchemaTypes == Spec => []TypeOK
<1>1. SchemaIInv => TypeOK
  BY DEF SchemaIInv
<1> QED BY <1>1, SchemaInvariant, PTL

\* The next open finds the files of every table that the manifest lists, whenever
\* the process ends (owner.py:230-239).
THEOREM OpenFindsFiles == Spec => []ManifestFindsFiles
<1>1. SchemaIInv => ManifestFindsFiles
  BY DEF SchemaIInv, FilesAccounted
<1> QED BY <1>1, SchemaInvariant, PTL

\* A CREATE that was reported COMMITTED survives every later CREATE, compensation
\* and end of the process (owner.py:597-599).
THEOREM CommittedTablesStay == Spec => []CommittedStays
<1>1. SchemaIInv => CommittedStays
  BY DEF SchemaIInv
<1> QED BY <1>1, SchemaInvariant, PTL

\* Readers of the gate and holders of schema S never see a CREATE half done, nor
\* half undone (gate.py:14-18, docs/transactions.md:25).
THEOREM SchemaIsAlwaysWhole == Spec => []SchemaIsWhole
<1>1. SchemaIInv => SchemaIsWhole
  <2> SUFFICES ASSUME SchemaIInv, reading # {} \/ holdsS # {}
               PROVE  /\ current = manifest /\ catalog = manifest
                      /\ runtime = manifest /\ resources = manifest
    BY DEF SchemaIsWhole
  <2>1. up
    BY DEF SchemaIInv, Downtime
  <2>2. \A c \in Creators : step[c] \notin Inside
    <3>1. CASE reading # {}
      BY <3>1 DEF SchemaIInv, GateOrder, Gate!Exclusion
    <3>2. CASE holdsS # {}
      BY <3>2, NobodyAssumption DEF SchemaIInv, SchemaOrder
    <3> QED BY <3>1, <3>2
  <2>3. Wanted({"runtime", "resources", "manifest", "unresource", "unregister"}) = {}
        /\ Wanted({"resources", "manifest", "unresource", "unregister"}) = {}
        /\ Wanted({"manifest", "unresource"}) = {}
    BY <2>2 DEF Wanted, Inside
  <2> QED BY <2>1, <2>3 DEF SchemaIInv, Registries
<1> QED BY <1>1, SchemaInvariant, PTL

\* A statement never runs on a table whose lock is of another identity, although it
\* planned without a lock (session.py:504-527, resources.py:240-262).
THEOREM StatementsLockWhatTheyUse == Spec => []UsersLockWhatTheyUse
<1>1. SchemaIInv => UsersLockWhatTheyUse
  <2> SUFFICES ASSUME SchemaIInv, NEW u \in Users, At(u, "using")
               PROVE  /\ <<Name(u), locked[u]>> \in runtime \intersect manifest
                      /\ \A t \in runtime : t[1] = Name(u) => t[2] = locked[u]
    BY DEF UsersLockWhatTheyUse
  <2>1. want[u] \in manifest /\ locked[u] = Id(u) /\ u \in holdsS
    BY DEF SchemaIInv, TablesApart, SchemaOrder, At
  <2>2. want[u] = <<Name(u), locked[u]>>
    BY <2>1 DEF SchemaIInv, TypeOK, Name, Id
  <2>3. up
    BY <2>1 DEF SchemaIInv, Downtime
  <2>4. \A c \in Creators : step[c] \notin Inside
    BY <2>1, NobodyAssumption DEF SchemaIInv, SchemaOrder
  <2>5. runtime = manifest
    <3>1. Wanted({"resources", "manifest", "unresource", "unregister"}) = {}
      BY <2>4 DEF Wanted, Inside
    <3> QED BY <2>3, <3>1 DEF SchemaIInv, Registries
  <2> QED BY <2>1, <2>2, <2>5 DEF SchemaIInv, TablesApart, Name, Id
<1> QED BY <1>1, SchemaInvariant, PTL

\* A failed CREATE removes its files or the owner becomes unavailable
\* (owner.py:601-635).
THEOREM NothingIsLeftBehind == Spec => []NothingLeftBehind
<1>1. SchemaIInv => NothingLeftBehind
  <2> SUFFICES ASSUME SchemaIInv, up, available,
                      \A c \in Creators : step[c] \notin MakingFiles
               PROVE  files \subseteq FilesOf(manifest) \union stale
    BY DEF NothingLeftBehind
  <2>1. FilesOf(Wanted(MakingFiles)) = {}
    BY DEF FilesOf, Wanted
  <2> QED BY <2>1 DEF SchemaIInv, FilesAccounted
<1> QED BY <1>1, SchemaInvariant, PTL
==============================================================================
