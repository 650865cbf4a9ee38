----------------------------- MODULE MarketData -----------------------------
(***************************************************************************)
(* The market data store (marketdata/): one directory, several processes,  *)
(* each running one command at a time, any of them dying at any point.     *)
(*                                                                         *)
(* A file is written by opening it, which empties it, and then filling it. *)
(* Every command begins with its checks, after which what it will write is *)
(* settled: `todo` lists those files in order.  Only the raw file itself   *)
(* appears by an atomic rename.  Contents of raw files are numbered in the *)
(* order of their digests.  The lock of a pack is kept beside the code, in *)
(* one document of all packs.                                              *)
(***************************************************************************)
EXTENDS MarketDataRows

CONSTANTS Procs, Contents, Versions, Windows,
          SourceOf,     \* content -> source
          Documents,    \* content -> document
          MaxCalls,     \* bound: commands run
          Absent, Torn, \* no file, or one that was opened and never filled
          NoPack        \* the lock names no digest for a version

Raw(c)         == <<"raw", c>>
Metadata(c)    == <<"metadata", c>>
Rows(c)        == <<"rows", c>>
Sidecar(c)     == <<"sidecar", c>>
Directory(v)   == <<"directory", v>>
Calibration(v) == <<"calibration", v>>
Manifest(v)    == <<"manifest", v>>
Lock           == <<"lock", 0>>
Copy(f)        == <<"copy", f>>
ManifestFirst(v) == <<Manifest(v), Calibration(v)>>
PackFiles(v)   == <<Calibration(v), Manifest(v)>>
Originals      == {Calibration(v) : v \in Versions} \cup {Manifest(v) : v \in Versions}
Files == {Raw(c) : c \in Contents} \cup {Metadata(c) : c \in Contents}
         \cup {Rows(c) : c \in Contents} \cup {Sidecar(c) : c \in Contents}
         \cup {Directory(v) : v \in Versions} \cup Originals
         \cup {Copy(f) : f \in Originals} \cup {Lock}

\* What a file may hold.  A citation is the content and the window a pack was
\* made of; it stands for the calibration file and for its digest.
Citations == Contents \X Windows

\* Contents are numbered by their digests and versions by their names, so that
\* the greatest digest and the order of the directories are those of numbers;
\* a missing or torn file is told from one that holds anything.
ASSUME StoreIsRanked == /\ Contents \subseteq Nat /\ IsFiniteSet(Contents)
                        /\ Versions \subseteq Nat /\ IsFiniteSet(Versions)
ASSUME MarksAreNoContents == /\ Absent # Torn
                             /\ \A x \in Contents : x # Absent /\ x # Torn
                             /\ \A x \in Citations : x # Absent /\ x # Torn
                             /\ "made" # Absent

VARIABLES disk,         \* file -> what it holds
          served,       \* source -> the content its publisher serves
          temporary,    \* process -> where its download is: none, raw, moved
          calls,        \* process -> the command it is running
          begun,        \* commands begun
          overlapped    \* two syncs have once been under way together

vars == <<disk, served, temporary, calls, begun, overlapped>>

Sources == {SourceOf[c] : c \in Contents}
Idle    == [op |-> "idle"]
Held(f) == disk[f] \notin {Absent, Torn}

Init ==
  /\ disk = [f \in Files |-> IF f = Lock THEN [v \in Versions |-> NoPack] ELSE Absent]
  /\ served \in [Sources -> Contents]
  /\ \A s \in Sources : SourceOf[served[s]] = s
  /\ temporary = [p \in Procs |-> "none"]
  /\ calls = [p \in Procs |-> Idle]
  /\ begun = 0
  /\ overlapped = FALSE

-----------------------------------------------------------------------------
\* initialize(): whatever lies in raw/ under another name than a raw file's is
\* moved to quarantine, the download of a running process too.
Moved == [p \in Procs |-> IF temporary[p] = "raw" THEN "moved" ELSE temporary[p]]
Initialized == temporary' = Moved /\ UNCHANGED disk

Begin(p, call) ==
  /\ calls[p] = Idle
  /\ begun < MaxCalls
  /\ begun' = begun + 1
  /\ calls' = [calls EXCEPT ![p] = call]
End(p) == calls' = [calls EXCEPT ![p] = Idle]

\* A command whose checks refuse it has initialized the store and no more.
Refused(p) ==
  /\ Begin(p, Idle)
  /\ Initialized
  /\ UNCHANGED <<served, overlapped>>

\* ingest: the download, under a temporary name.
IngestBegin(p, s) ==
  /\ SourceValid(s)
  /\ Begin(p, [op |-> "ingest", content |-> served[s], open |-> FALSE,
               todo |-> <<>>])
  /\ temporary' = [Moved EXCEPT ![p] = "raw"]
  /\ UNCHANGED <<disk, served, overlapped>>

Downloading(p) == calls[p].op = "ingest" /\ temporary[p] # "none"

\* ingest: the file gets its name, unless its content is there already or the
\* temporary file is gone.
IngestName(p) ==
  /\ Downloading(p) /\ temporary[p] = "raw"
  /\ temporary' = [temporary EXCEPT ![p] = "none"]
  /\ disk' = [disk EXCEPT ![Raw(calls[p].content)] = calls[p].content]
  /\ calls' = [calls EXCEPT ![p].todo = <<Metadata(calls[p].content)>>]
  /\ UNCHANGED <<served, begun, overlapped>>

\* ingest: the volume is full, the connection drops or the file was moved.
IngestFails(p) ==
  /\ Downloading(p)
  /\ temporary' = [temporary EXCEPT ![p] = "none"]
  /\ End(p)
  /\ UNCHANGED <<disk, served, begun, overlapped>>

\* normalize: the raw file of the greatest digest, read and validated.
RawOf(s)    == {c \in Contents : SourceOf[c] = s /\ disk[Raw(c)] # Absent}
Latest(s) == CHOOSE c \in RawOf(s) : \A d \in RawOf(s) : d <= c
Normalize(p, s) ==
  /\ RawOf(s) # {}
  /\ ~Unreadable(Documents[Latest(s)])
  /\ Begin(p, [op |-> "normalize", open |-> FALSE, content |-> Latest(s),
               todo |-> <<Rows(Latest(s)), Sidecar(Latest(s))>>])
  /\ Initialized
  /\ UNCHANGED <<served, overlapped>>

\* build_pack: the rows of the window are validated again, whatever the sidecar
\* says of the whole file.
WindowTrusted(c, w) == Window(Parsed(Documents[c]), w) # <<>>
WindowClean(c, w) ==
  LET rows == Window(Parsed(Documents[c]), w)
  IN  rows # <<>> /\ RowErrors(rows) = {}
BuildBegin(p, v, c, w) ==
  /\ Held(Rows(c)) /\ Held(Sidecar(c))
  /\ WindowClean(c, w)
  /\ disk[Directory(v)] = Absent
  /\ Begin(p, [op |-> "build", open |-> FALSE, version |-> v,
               cites |-> <<c, w>>, todo |-> <<Directory(v)>> \o PackFiles(v)])
  /\ Initialized
  /\ UNCHANGED <<served, overlapped>>

\* verify_pack and load_calibration_pack: a manifest, and the file it digests.
Verifies(v) == Held(Manifest(v)) /\ disk[Calibration(v)] = disk[Manifest(v)]
InputOf(citation) ==
  LET s == SourceOf[citation[1]]
  IN  [source |-> s, class |-> Catalog[s].class, notice |-> Catalog[s].notice]
LoadsAs(calibration, manifest) ==
  /\ manifest \in Citations /\ calibration = manifest
  /\ Admitted(InputOf(calibration))
Loads(v)     == LoadsAs(disk[Calibration(v)], disk[Manifest(v)])
CopyLoads(v) == LoadsAs(disk[Copy(Calibration(v))], disk[Copy(Manifest(v))])

\* write_pack_lock: the whole document is read, and written again.
LockBegin(p, v) ==
  /\ Verifies(v)
  /\ Held(Lock)
  /\ disk[Lock][v] \in {NoPack, disk[Manifest(v)]}
  /\ Begin(p, [op |-> "lock", open |-> FALSE, todo |-> <<Lock>>,
               document |-> [disk[Lock] EXCEPT ![v] = disk[Manifest(v)]]])
  /\ Initialized
  /\ UNCHANGED <<served, overlapped>>

\* sync: every pack with a manifest is verified, then copied file by file.
Published == {v \in Versions : disk[Manifest(v)] # Absent}
InOrder(S) ==
  CHOOSE s \in [1..Cardinality(S) -> S] : \A i, j \in DOMAIN s : i < j => s[i] < s[j]
PackList ==
  [i \in 1..(2 * Cardinality(Published)) |->
     PackFiles(InOrder(Published)[(i + 1) \div 2])[2 - (i % 2)]]
Syncing(p) == calls[p].op = "sync"
SyncBegin(p, prune) ==
  /\ \A v \in Published : Verifies(v)
  /\ Begin(p, [op |-> "sync", open |-> FALSE, filled |-> FALSE, prune |-> prune,
               expected |-> ToSet(PackList),
               todo |-> [i \in DOMAIN PackList |-> Copy(PackList[i])]])
  /\ overlapped' = (overlapped \/ \E q \in Procs : Syncing(q))
  /\ Initialized
  /\ UNCHANGED served
-----------------------------------------------------------------------------
\* The writing of files, whatever the command.
Writing(p) == calls[p].op # "idle" /\ calls[p].todo # <<>>
Next1(p)   == Head(calls[p].todo)
Done(p)    == [calls EXCEPT ![p].todo = Tail(@), ![p].open = FALSE]

\* A sync skips the files that are equal; an ingest, metadata that exist.
Skips(p, f) == \/ Syncing(p) /\ disk[f] = disk[f[2]]
               \/ f[1] = "metadata" /\ disk[f] # Absent
\* Mutant: a directory can be made twice.
MadeTwice(f) == FALSE
Collides(f) == f[1] = "directory" /\ disk[f] # Absent

Skip(p) ==
  /\ Writing(p) /\ ~calls[p].open
  /\ Skips(p, Next1(p))
  /\ calls' = Done(p)
  /\ UNCHANGED <<disk, served, temporary, begun, overlapped>>

Collide(p) ==
  /\ Writing(p)
  /\ Collides(Next1(p))
  /\ End(p)
  /\ UNCHANGED <<disk, served, temporary, begun, overlapped>>

MakeDirectory(p) ==
  /\ Writing(p)
  /\ Next1(p)[1] = "directory" /\ ~Collides(Next1(p))
  /\ disk' = [disk EXCEPT ![Next1(p)] = "made"]
  /\ calls' = Done(p)
  /\ UNCHANGED <<served, temporary, begun, overlapped>>

Open(p) ==
  /\ Writing(p) /\ ~calls[p].open
  /\ Next1(p)[1] # "directory" /\ ~Skips(p, Next1(p))
  /\ disk' = [disk EXCEPT ![Next1(p)] = Torn]
  /\ calls' = [calls EXCEPT ![p].open = TRUE]
  /\ UNCHANGED <<served, temporary, begun, overlapped>>

\* What a command writes; a manifest digests the calibration file as it stands.
Value(p, f) ==
  CASE f[1] \in {"metadata", "rows", "sidecar"} -> calls[p].content
    [] f[1] = "calibration" -> calls[p].cites
    [] f[1] = "manifest"    -> disk[Calibration(f[2])]
    [] f[1] = "lock"        -> calls[p].document
    [] f[1] = "copy"        -> disk[f[2]]

Fill(p) ==
  /\ Writing(p) /\ calls[p].open
  /\ ~(Syncing(p) /\ calls[p].filled)
  /\ disk' = [disk EXCEPT ![Next1(p)] = Value(p, Next1(p))]
  /\ calls' = IF Syncing(p) THEN [calls EXCEPT ![p].filled = TRUE] ELSE Done(p)
  /\ UNCHANGED <<served, temporary, begun, overlapped>>

\* sync compares what it wrote, and fails where another has written since.
Compare(p) ==
  /\ Writing(p) /\ Syncing(p) /\ calls[p].filled
  /\ calls' = IF disk[Next1(p)] = disk[Next1(p)[2]]
              THEN [Done(p) EXCEPT ![p].filled = FALSE]
              ELSE [calls EXCEPT ![p] = Idle]
  /\ UNCHANGED <<disk, served, temporary, begun, overlapped>>

\* Pruning removes every file of the destination that this run did not expect.
Pruned(p) ==
  IF Syncing(p) /\ calls[p].prune
  THEN {Copy(f) : f \in Originals \ calls[p].expected} ELSE {}

Return(p) ==
  /\ calls[p].op # "idle" /\ calls[p].todo = <<>> /\ ~Downloading(p)
  /\ disk' = [f \in Files |-> IF f \in Pruned(p) THEN Absent ELSE disk[f]]
  /\ temporary' = IF Syncing(p) THEN Moved ELSE temporary
  /\ End(p)
  /\ UNCHANGED <<served, begun, overlapped>>

\* A process dies; what it was writing stays as it is.
Crash(p) ==
  /\ calls[p].op # "idle"
  /\ End(p)
  /\ temporary' = [temporary EXCEPT ![p] = "none"]
  /\ UNCHANGED <<disk, served, begun, overlapped>>

\* A publisher serves something else from now on (external).
Publish(s, c) ==
  /\ SourceOf[c] = s
  /\ served' = [served EXCEPT ![s] = c]
  /\ UNCHANGED <<disk, temporary, calls, begun, overlapped>>

Next ==
  \/ \E p \in Procs :
       \/ Refused(p)
       \/ \E s \in Sources : IngestBegin(p, s) \/ Normalize(p, s)
       \/ IngestName(p) \/ IngestFails(p)
       \/ \E v \in Versions, c \in Contents, w \in Windows : BuildBegin(p, v, c, w)
       \/ \E v \in Versions : LockBegin(p, v)
       \/ \E prune \in BOOLEAN : SyncBegin(p, prune)
       \/ Skip(p) \/ Collide(p) \/ MakeDirectory(p) \/ Open(p) \/ Fill(p)
       \/ Compare(p) \/ Return(p) \/ Crash(p)
  \/ \E s \in Sources, c \in Contents : Publish(s, c)

Spec == Init /\ [][Next]_vars

-----------------------------------------------------------------------------
\* A pack that loads cites a raw file that is in the store, and rows that stand
\* beside one another day by day: nothing that the store does afterwards, and no
\* crash on the way from the download to the manifest, leaves a pack without its
\* source (store.ingest, normalize, packs.build_pack).
PackIsTraceable ==
  \A v \in Versions :
    Loads(v) =>
      LET c == disk[Calibration(v)][1]
          rows == Window(Parsed(Documents[c]), disk[Calibration(v)][2])
      IN  /\ disk[Raw(c)] = c
          /\ \A i, j, l \in DOMAIN rows : \A d \in Days :
               ( /\ rows[i].date <= d /\ d <= rows[j].date
                 /\ Calendar[d] = "business" )
               => \E k \in DOMAIN rows : /\ rows[k].date = d
                                         /\ rows[k].metric = rows[l].metric

\* What loads at the destination of a sync, and what the lock names, is the pack
\* of the store, whichever syncs, prunes and crashes came between
\* (sync.sync_to_ssd, packs.write_pack_lock).
CopiesAreThePack ==
  \A v \in Versions :
    /\ CopyLoads(v) =>
         Loads(v) /\ disk[Copy(Calibration(v))] = disk[Calibration(v)]
    /\ Held(Lock) /\ disk[Lock][v] # NoPack =>
         Loads(v) /\ disk[Lock][v] = disk[Manifest(v)]

\* The manifest comes last, in the store and at a destination to which one sync
\* at a time writes: where it stands, the file it digests stands whole, so that
\* a crash leaves no pack that a search for manifests finds and cannot verify
\* but one whose manifest itself is torn (sync._pack_files).
ManifestComesLast ==
  \A v \in Versions :
    /\ disk[Manifest(v)] # Absent => Held(Calibration(v))
    /\ ~overlapped /\ disk[Copy(Manifest(v))] # Absent =>
         disk[Copy(Calibration(v))] = disk[Calibration(v)]
=============================================================================
