------------------------------ MODULE TempFiles ------------------------------
(***************************************************************************)
(* The temporary files of one blocking operator: its workspace with the    *)
(* ownership registry on disk, row writers and readers, and the run        *)
(* catalogue (operators/temp_files.py, temp_stream.py, run_catalog.py, and *)
(* the handles of context.py).  Any input or output may fail.              *)
(*                                                                         *)
(* An operation maps a workspace to the set of its outcomes: the workspace *)
(* afterwards and how the call ended, "ok", "error" (an OSError or a       *)
(* DatabaseError) or "broken" (the RuntimeError of the byte accounting).   *)
(* A file is known by the position of its entry in the registry.           *)
(***************************************************************************)
EXTENDS Integers, Sequences, SequencesExt

CONSTANTS MaxHandles,   \* handles of the operator's context
          SlotBytes,    \* REGISTRY_SLOT_BYTES
          RunBytes      \* the physical size of a file of rows

\* A context allows at least one handle (context.py:311).
ASSUME SizesAssumption ==
  MaxHandles \in Nat \ {0} /\ SlotBytes \in Nat /\ RunBytes \in Nat

\* Two more paths of the workspace beside its files.
Registry  == 0
Directory == -1

\* faults bounds the input and output operations that fail from here on.
Fresh(faults) ==
  [files       |-> <<>>,                    \* the entries of the registry
   disk        |-> {Registry, Directory},   \* the paths that exist
   resources   |-> <<>>,   \* _resources: open writers, readers, catalogues
   leases      |-> 0,
   live        |-> 0,      \* live_temporary_bytes
   closed      |-> FALSE,
   unreclaimed |-> {},     \* unreclaimed_paths
   broken      |-> FALSE,  \* close ended in the RuntimeError
   faults      |-> faults]

Ok(w)     == {[w |-> w, end |-> "ok"]}
Raises(w) == {[w |-> w, end |-> "error"]}

\* An input or output that happens, or fails and changes nothing.
Io(before, after) ==
  Ok(after) \union
  (IF before.faults > 0 THEN Raises([before EXCEPT !.faults = @ - 1]) ELSE {})

\* One call after another, and a call in a finally block.
Then(outcomes, Call(_)) ==
  UNION {IF o.end = "ok" THEN Call(o.w) ELSE {o} : o \in outcomes}

Finally(outcomes, Call(_)) ==
  UNION {{[w |-> n.w, end |-> IF n.end = "ok" THEN o.end ELSE n.end] :
            n \in Call(o.w)} : o \in outcomes}

\* Cleanup on the way out: what it raises is a note to the error.
Failing(outcomes, Cleanup(_)) ==
  UNION {IF o.end = "ok" THEN {o}
         ELSE {[w |-> n.w, end |-> o.end] : n \in Cleanup(o.w)} : o \in outcomes}

-----------------------------------------------------------------------------
(* Handles, the registry and the byte account *)

Lease(w) == IF w.leases >= MaxHandles THEN Raises(w)
            ELSE Ok([w EXCEPT !.leases = @ + 1])

Returned(w) == [w EXCEPT !.leases = @ - 1]

\* The registry is opened and closed for every entry read or written.
RegistryFile(before, after) ==
  IF before.leases >= MaxHandles THEN Raises(before) ELSE Io(before, after)

Write(w, f, entry) == RegistryFile(w, [w EXCEPT !.files[f] = entry])

Tracked(w, f) ==
  Then(RegistryFile(w, w), LAMBDA v :
    IF v.files[f].active THEN Ok(v) ELSE Raises(v))

AdjustSize(w, delta) ==
  LET v == [w EXCEPT !.live = @ + delta]
  IN  {[w |-> v, end |-> IF v.live < 0 THEN "broken" ELSE "ok"]}

NoteSize(w, f, size) ==
  Then(Tracked(w, f), LAMBDA v :
    IF v.files[f].size = size THEN Ok(v)
    ELSE Then(Write(v, f, [v.files[f] EXCEPT !.size = size]), LAMBDA u :
           AdjustSize(u, size - v.files[f].size)))

\* The entry is written before the file is made.
Allocate(w) ==
  Then(RegistryFile(w, [w EXCEPT !.files =
         Append(@, [readers |-> 0, discard |-> FALSE, active |-> TRUE, size |-> 0])]),
       LAMBDA v : AdjustSize(v, SlotBytes))

\* The file goes first, then its bytes, then its entry.
Delete(w, f) ==
  Then(Io(w, [w EXCEPT !.disk = @ \ {f}]), LAMBDA v :
    Then(AdjustSize(v, - v.files[f].size), LAMBDA u :
      Write(u, f, [u.files[f] EXCEPT !.active = FALSE, !.size = 0])))

Acquire(w, f) ==
  Then(Tracked(w, f), LAMBDA v :
    IF v.files[f].discard THEN Raises(v)
    ELSE Write(v, f, [v.files[f] EXCEPT !.readers = @ + 1]))

Release(w, f) ==
  Then(Tracked(w, f), LAMBDA v :
    Then(Write(v, f, [v.files[f] EXCEPT !.readers = IF @ = 0 THEN 0 ELSE @ - 1]),
         LAMBDA u : IF u.files[f].discard /\ u.files[f].readers = 0
                    THEN Delete(u, f) ELSE Ok(u)))

\* Fault: the file is deleted under its readers.
DiscardAtOnce(w, f) ==
  Then(Tracked(w, f), LAMBDA v :
    Then(Write(v, f, [v.files[f] EXCEPT !.discard = TRUE]), LAMBDA u :
      Delete(u, f)))

\* A file that is still read goes with its last reader.
Discard(w, f) ==
  Then(Tracked(w, f), LAMBDA v :
    Then(Write(v, f, [v.files[f] EXCEPT !.discard = TRUE]), LAMBDA u :
      IF u.files[f].readers = 0 THEN Delete(u, f) ELSE Ok(u)))

-----------------------------------------------------------------------------
(* Writers, readers and catalogues *)

Resource(kind, f) == [kind |-> kind, file |-> f]

Managed(w, kind, f) == [w EXCEPT !.resources = Append(@, Resource(kind, f))]
Forgotten(w, kind, f) ==
  [w EXCEPT !.resources = RemoveFirst(@, Resource(kind, f))]

\* TemporaryRowWriter.close: every step is tried; a writer that was never
\* finished takes its file with it.
CloseWriter(w, f, finished, sized) ==
  LET noted == IF sized THEN NoteSize(w, f, RunBytes) ELSE Ok(w)
      freed == Finally(noted, LAMBDA v : Release(Forgotten(v, "writer", f), f))
  IN  IF finished THEN freed ELSE Finally(freed, LAMBDA v : Discard(v, f))

\* The new file may be there although its creation failed.
CreateFile(w, f) ==
  Io(w, [w EXCEPT !.disk = @ \union {f}])
    \union (IF w.faults = 0 THEN {}
            ELSE Raises([w EXCEPT !.disk = @ \union {f}, !.faults = @ - 1]))

OpenWriter(w) ==
  LET f == Len(w.files) + 1
      Opened(v) ==
        UNION {IF o.end = "ok"
               THEN Failing(CreateFile(o.w, f), LAMBDA u :
                      CloseWriter(Returned(u), f, FALSE, FALSE))
               ELSE Failing({o}, LAMBDA u : CloseWriter(u, f, FALSE, FALSE)) :
               o \in Lease(v)}
  IN  Then(Then(Then(Allocate(w), LAMBDA v : Acquire(v, f)), Opened),
           LAMBDA v : Ok(Managed(v, "writer", f)))

\* finish: the last pages and the descriptor are written, then it is closed.
FinishWriter(w, f) ==
  UNION {IF o.end = "ok" THEN CloseWriter(Returned(o.w), f, TRUE, TRUE)
         ELSE Failing({o}, LAMBDA v : CloseWriter(Returned(v), f, FALSE, TRUE)) :
         o \in Io(w, w)}

\* Left unfinished: the rows it was to hold could not be produced.
AbandonWriter(w, f) == CloseWriter(Returned(w), f, FALSE, TRUE)

CloseReader(w, f) == Release(Forgotten(w, "reader", f), f)

OpenReader(w, f) ==
  LET Opened(v) ==
        UNION {IF o.end = "ok"
               THEN Failing(Io(o.w, o.w), LAMBDA u : CloseReader(Returned(u), f))
               ELSE Failing({o}, LAMBDA u : CloseReader(u, f)) : o \in Lease(v)}
  IN  Then(Then(Acquire(w, f), Opened), LAMBDA v : Ok(Managed(v, "reader", f)))

\* metadata_file: a handle and a reader for as long as the file is used.
MetadataFile(w, f, Use(_)) ==
  Then(Acquire(w, f), LAMBDA v :
    Finally(UNION {IF o.end = "ok"
                   THEN {[u EXCEPT !.w = Returned(@)] : u \in Use(o.w)}
                   ELSE {o} : o \in Lease(v)},
            LAMBDA u : Release(u, f)))

OpenCatalog(w) ==
  LET f == Len(w.files) + 1
  IN  Then(Then(Allocate(w), LAMBDA v :
                  MetadataFile(v, f, LAMBDA u : CreateFile(u, f))),
           LAMBDA v : Ok(Managed(v, "catalog", f)))

AppendRun(w, f) ==
  Then(MetadataFile(w, f, LAMBDA v : Io(v, v)), LAMBDA v :
    NoteSize(v, f, v.files[f].size + SlotBytes))

CloseCatalog(w, f) == Discard(Forgotten(w, "catalog", f), f)

-----------------------------------------------------------------------------
(* The end of the workspace *)

CloseResource(w, r) ==
  CASE r.kind = "writer"  -> AbandonWriter(w, r.file)
    [] r.kind = "reader"  -> CloseReader(Returned(w), r.file)
    [] r.kind = "catalog" -> CloseCatalog(w, r.file)

\* The resources in reverse, whatever any of them raises.
CloseAll(w) ==
  LET N == Len(w.resources)
      after[k \in 0 .. N] ==
        IF k = 0 THEN Ok(w)
        ELSE Finally(after[k - 1], LAMBDA v : CloseResource(v, w.resources[N + 1 - k]))
  IN  after[N]

\* Fault: a file that cannot be deleted is passed over.
ReclaimSilently(w, f) ==
  Then(RegistryFile(w, w), LAMBDA v :
    IF ~ v.files[f].active THEN Ok(v)
    ELSE IF v.files[f].readers > 0
    THEN Ok([v EXCEPT !.unreclaimed = @ \union {f}])
    ELSE {IF o.end = "error" THEN [o EXCEPT !.end = "ok"] ELSE o : o \in Delete(v, f)})

\* One entry: a file that is still read, or cannot be deleted, is reported.
Reclaim(w, f) ==
  Then(RegistryFile(w, w), LAMBDA v :
    IF ~ v.files[f].active THEN Ok(v)
    ELSE IF v.files[f].readers > 0
    THEN Ok([v EXCEPT !.unreclaimed = @ \union {f}])
    ELSE {IF o.end = "error"
          THEN [w |-> [o.w EXCEPT !.unreclaimed = @ \union {f}], end |-> "ok"]
          ELSE o : o \in Delete(v, f)})

ReclaimAll(w) ==
  LET N == Len(w.files)
      after[f \in 0 .. N] ==
        IF f = 0 THEN Ok(w) ELSE Then(after[f - 1], LAMBDA v : Reclaim(v, f))
  IN  after[N]

\* The registry, its bytes, and the directory if nothing is left in it.
RemoveDirectory(w) ==
  LET Emptied(v) ==
        IF v.disk = {Directory}
        THEN {IF o.end = "ok" THEN o
              ELSE [w |-> [o.w EXCEPT !.unreclaimed = @ \union {Directory}], end |-> "ok"] :
              o \in Io(v, [v EXCEPT !.disk = {}])}
        ELSE Ok([v EXCEPT !.unreclaimed = @ \union {Directory}])
  IN  UNION {IF o.end = "ok"
             THEN Then(AdjustSize(o.w, - SlotBytes * Len(w.files)), Emptied)
             ELSE Emptied([o.w EXCEPT !.unreclaimed = @ \union {Registry}]) :
             o \in Io(w, [w EXCEPT !.disk = @ \ {Registry}])}

\* The paths are recorded at the end, so an error that escapes records none.
CloseWorkspace(w) ==
  LET Recorded(o) == IF o.end = "broken"
                     THEN [w |-> [o.w EXCEPT !.broken = TRUE, !.unreclaimed = {}],
                           end |-> "broken"]
                     ELSE [w |-> o.w, end |-> IF o.w.unreclaimed = {} THEN "ok" ELSE "error"]
      Removed(o) == CASE o.end = "ok" -> RemoveDirectory(o.w)
                      [] o.end = "error" ->
                           {[o EXCEPT !.w.unreclaimed = @ \union {Registry, Directory}]}
                      [] o.end = "broken" -> {o}
      Reclaimed(v) == {Recorded(o) : o \in
                         UNION {Removed(p) : p \in ReclaimAll([v EXCEPT !.closed = TRUE])}}
  IN  IF w.closed THEN Ok(w) ELSE Finally(CloseAll(w), Reclaimed)
=============================================================================
