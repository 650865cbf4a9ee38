--------------------------- MODULE MarketData_proofs ---------------------------
(***************************************************************************)
(* Theorems about MarketData, for any documents, calendar, processes and   *)
(* versions: whatever commands run at once and wherever they die, a pack   *)
(* that loads is traceable, its copies and its lock are of it, and its     *)
(* manifest comes last.  They rest on one observation: a manifest that     *)
(* stands is final (Grows), because only the process that made the         *)
(* directory of a version ever writes its two files, and it writes each    *)
(* of them once.                                                           *)
(***************************************************************************)
EXTENDS MarketData, Sums, SequenceTheorems

Command ==
  {Idle}
  \cup [op : {"ingest", "normalize"}, content : Contents, open : BOOLEAN, todo : Seq(Files)]
  \cup [op : {"build"}, open : BOOLEAN, version : Versions, cites : Citations,
        todo : Seq(Files)]
  \cup [op : {"lock"}, open : BOOLEAN, todo : Seq(Files),
        document : [Versions -> Citations \cup {NoPack}]]
  \cup [op : {"sync"}, open : BOOLEAN, filled : BOOLEAN, prune : BOOLEAN,
        expected : SUBSET Originals, todo : Seq(Files)]

StoreTypes ==
  /\ DOMAIN disk = Files
  /\ DOMAIN temporary = Procs
  /\ calls \in [Procs -> Command]
  /\ served \in [Sources -> Contents]
  /\ \A s \in Sources : SourceOf[served[s]] = s
  /\ overlapped \in BOOLEAN

\* A manifest of d that was opened and filled.
Stands(d, v) == d[Manifest(v)] \notin {Absent, Torn}

\* What of d is final is in e as it was.
Grows(d, e) ==
  /\ \A c \in Contents : d[Raw(c)] # Absent => e[Raw(c)] = d[Raw(c)]
  /\ \A v \in Versions :
       /\ Stands(d, v) => /\ e[Manifest(v)] = d[Manifest(v)]
                          /\ e[Calibration(v)] = d[Calibration(v)]
       /\ d[Directory(v)] # Absent => e[Directory(v)] # Absent

\* A citation whose raw file is there, of a catalogued source, and whose rows
\* were validated.
Sound(d, citation) ==
  /\ citation \in Citations
  /\ d[Raw(citation[1])] = citation[1]
  /\ SourceValid(SourceOf[citation[1]])
  /\ WindowClean(citation[1], citation[2])

RawSound(d, c) ==
  /\ d[Raw(c)] \in {Absent, c}
  /\ d[Raw(c)] = c => SourceValid(SourceOf[c])
  /\ d[Rows(c)] # Absent => d[Raw(c)] = c
PackSound(d, v) ==
  /\ d[Calibration(v)] \in {Absent, Torn} \/ Sound(d, d[Calibration(v)])
  /\ d[Manifest(v)] \in {Absent, Torn, d[Calibration(v)]}
  /\ d[Manifest(v)] # Absent => d[Calibration(v)] \notin {Absent, Torn}
  /\ d[Directory(v)] = Absent => d[Calibration(v)] = Absent /\ d[Manifest(v)] = Absent
CopySound(d, f) ==
  d[Copy(f)] # Absent => d[Copy(f)] \in {Torn, d[f]} /\ Stands(d, f[2])
LockSound(d, document) ==
  /\ document \in [Versions -> Citations \cup {NoPack}]
  /\ \A v \in Versions :
       document[v] # NoPack => Stands(d, v) /\ document[v] = d[Manifest(v)]

DiskSound(d) ==
  /\ \A c \in Contents : RawSound(d, c)
  /\ \A v \in Versions : PackSound(d, v)
  /\ \A f \in Originals : CopySound(d, f)
  /\ d[Lock] = Torn \/ LockSound(d, d[Lock])

\* What a command has read is still so, and it writes its own files only.
IngestSound(call, t) ==
  /\ SourceValid(SourceOf[call.content])
  /\ call.todo \in {<<>>, <<Metadata(call.content)>>}
  /\ t # "none" => call.todo = <<>>
NormalizeSound(d, call) ==
  /\ d[Raw(call.content)] = call.content
  /\ call.todo \in {<<>>, <<Sidecar(call.content)>>,
                    <<Rows(call.content), Sidecar(call.content)>>}
BuildSound(d, call) ==
  LET v == call.version
  IN  /\ Sound(d, call.cites)
      /\ \/ call.todo = <<Directory(v), Calibration(v), Manifest(v)>> /\ ~call.open
         \/ /\ call.todo = <<Calibration(v), Manifest(v)>>
            /\ d[Directory(v)] # Absent /\ d[Manifest(v)] = Absent
            /\ d[Calibration(v)] \in {Absent, Torn}
         \/ /\ call.todo = <<Manifest(v)>>
            /\ d[Directory(v)] # Absent /\ d[Manifest(v)] \in {Absent, Torn}
            /\ d[Calibration(v)] = call.cites
         \/ call.todo = <<>>
LockingSound(d, call) ==
  /\ LockSound(d, call.document)
  /\ call.todo \in {<<>>, <<Lock>>}
SyncSound(d, call) ==
  /\ \A i \in DOMAIN call.todo :
       \E f \in Originals : call.todo[i] = Copy(f) /\ Stands(d, f[2])
  /\ \A v \in Versions : Manifest(v) \in call.expected => Calibration(v) \in call.expected

CallSound(d, call, t) ==
  /\ call.op = "ingest" => IngestSound(call, t)
  /\ call.op = "normalize" => NormalizeSound(d, call)
  /\ call.op = "build" => BuildSound(d, call)
  /\ call.op = "lock" => LockingSound(d, call)
  /\ call.op = "sync" => SyncSound(d, call)

\* The build of v has made its directory and is writing its files.
Owns(call, v) ==
  /\ call.op = "build" /\ call.version = v
  /\ call.todo \in {<<Calibration(v), Manifest(v)>>, <<Manifest(v)>>}
OneOwner ==
  \A v \in Versions : \A p, q \in Procs : Owns(calls[p], v) /\ Owns(calls[q], v) => p = q

\* A sync that has still to copy a manifest has to copy, or has copied, the
\* calibration file that it digests.
SyncOrdered(d, call) ==
  call.op = "sync" =>
    \A i \in DOMAIN call.todo : \A v \in Versions :
      call.todo[i] = Copy(Manifest(v)) =>
        \/ \E j \in 1..(i - 1) : call.todo[j] = Copy(Calibration(v))
        \/ d[Copy(Calibration(v))] = d[Calibration(v)]
CopyOrdered(d, v) ==
  d[Copy(Manifest(v))] # Absent => d[Copy(Calibration(v))] = d[Calibration(v)]
OneSync ==
  /\ \A p, q \in Procs : Syncing(p) /\ Syncing(q) => p = q
  /\ \A p \in Procs : SyncOrdered(disk, calls[p])
  /\ \A v \in Versions : CopyOrdered(disk, v)

Inv ==
  /\ StoreTypes
  /\ DiskSound(disk)
  /\ \A p \in Procs : CallSound(disk, calls[p], temporary[p])
  /\ OneOwner
  /\ ~overlapped => OneSync
-----------------------------------------------------------------------------
\* Files of different kinds differ, and a file names what it is of.
LEMMA FileFacts ==
    /\ \A x : Raw(x)[1] = "raw" /\ Raw(x)[2] = x
    /\ \A x : Metadata(x)[1] = "metadata" /\ Metadata(x)[2] = x
    /\ \A x : Rows(x)[1] = "rows" /\ Rows(x)[2] = x
    /\ \A x : Sidecar(x)[1] = "sidecar" /\ Sidecar(x)[2] = x
    /\ \A x : Directory(x)[1] = "directory" /\ Directory(x)[2] = x
    /\ \A x : Calibration(x)[1] = "calibration" /\ Calibration(x)[2] = x
    /\ \A x : Manifest(x)[1] = "manifest" /\ Manifest(x)[2] = x
    /\ \A x : Copy(x)[1] = "copy" /\ Copy(x)[2] = x
    /\ Lock[1] = "lock"
BY DEF Raw, Metadata, Rows, Sidecar, Directory, Calibration, Manifest, Copy, Lock

\* Which files a process, a pack and a copy have.
LEMMA StoreFiles ==
    /\ \A c \in Contents : {Raw(c), Metadata(c), Rows(c), Sidecar(c)} \subseteq Files
    /\ \A v \in Versions : /\ {Directory(v), Calibration(v), Manifest(v)} \subseteq Files
                           /\ {Calibration(v), Manifest(v)} \subseteq Originals
    /\ \A f \in Originals : /\ f \in Files /\ Copy(f) \in Files /\ f[2] \in Versions
                            /\ f[1] \in {"calibration", "manifest"}
                            /\ f \in {Calibration(f[2]), Manifest(f[2])}
    /\ Lock \in Files
<1>1. \A f \in Originals : /\ f[2] \in Versions
                          /\ f[1] \in {"calibration", "manifest"}
                          /\ f \in {Calibration(f[2]), Manifest(f[2])}
  BY FileFacts DEF Originals
<1> QED
  BY <1>1 DEF Files, Originals

-----------------------------------------------------------------------------
Ascending(S, s) ==
  /\ s \in [1..Cardinality(S) -> S]
  /\ \A i, j \in DOMAIN s : i < j => s[i] < s[j]

\* A finite set of numbers can be listed in their order.
LEMMA OrderExists ==
    ASSUME NEW S \in SUBSET Nat, IsFiniteSet(S)
    PROVE  \E s : Ascending(S, s)
<1> DEFINE Bad == {T \in SUBSET S : ~\E s : Ascending(T, s)}
<1> SUFFICES ASSUME Bad # {} PROVE FALSE
  OBVIOUS
<1>1. Bad \subseteq FiniteSubsetsOf(S)
  BY FS_FiniteSubsetsOfFinite, Zenon
<1>2. PICK T \in Bad : \A U \in Bad : ~(<<U, T>> \in StrictSubsetOrdering(S))
  BY <1>1, FS_StrictSubsetOrderingWellFounded, WFMin
<1>3. IsFiniteSet(T) /\ T \in SUBSET Nat
  BY FS_Subset
<1>4. CASE T = {}
  <2>1. 1..Cardinality(T) = {}
    BY <1>4, FS_EmptySet
  <2>2. Ascending(T, [i \in 1..Cardinality(T) |-> i])
    BY <2>1 DEF Ascending
  <2> QED
    BY <2>2
<1>5. CASE T # {}
  <2>1. PICK m \in T : \A x \in T : x <= m
    BY <1>3, <1>5, Greatest
  <2> DEFINE U == T \ {m}
             n == Cardinality(U)
  <2>2. <<U, T>> \in StrictSubsetOrdering(S)
    BY <2>1 DEF StrictSubsetOrdering
  <2>3. PICK s : Ascending(U, s)
    BY <1>2, <2>2
  <2>4. n \in Nat /\ Cardinality(T) = n + 1
    <3>1. IsFiniteSet(U) /\ n = Cardinality(T) - 1
      BY <1>3, <2>1, FS_RemoveElement
    <3>2. n \in Nat /\ Cardinality(T) \in Nat
      BY <1>3, <3>1, FS_CardinalityType
    <3> QED
      BY <3>1, <3>2
  <2> DEFINE t == [i \in 1..(n + 1) |-> IF i = n + 1 THEN m ELSE s[i]]
  <2>5. \A i \in 1..n : s[i] \in T /\ s[i] < m
    <3> SUFFICES ASSUME NEW i \in 1..n PROVE s[i] \in T /\ s[i] < m
      OBVIOUS
    <3>1. s[i] \in U
      BY <2>3 DEF Ascending
    <3>2. s[i] \in T /\ s[i] # m
      BY <3>1
    <3>3. s[i] \in Nat /\ m \in Nat /\ s[i] <= m
      BY <1>3, <2>1, <3>2
    <3> QED
      BY <3>2, <3>3
  <2>6. t \in [1..Cardinality(T) -> T]
    BY <2>1, <2>4, <2>5
  <2>7. ASSUME NEW i \in 1..(n + 1), NEW j \in 1..(n + 1), i < j PROVE t[i] < t[j]
    <3>1. i \in 1..n /\ t[i] = s[i]
      BY <2>4, <2>7
    <3>2. CASE j = n + 1
      BY <2>5, <3>1, <3>2
    <3>3. CASE j \in 1..n
      <4>1. t[j] = s[j]
        BY <2>4, <3>3
      <4>2. DOMAIN s = 1..n /\ s[i] < s[j]
        BY <2>3, <2>7, <3>1, <3>3 DEF Ascending
      <4> QED
        BY <3>1, <4>1, <4>2
    <3> QED
      BY <2>4, <3>2, <3>3
  <2>8. Ascending(T, t)
    BY <2>4, <2>6, <2>7 DEF Ascending
  <2> QED
    BY <2>8
<1> QED
  BY <1>4, <1>5

\* A sync lists two files of each pack that has a manifest, which comes second.
LEMMA PackListFacts ==
    /\ \E n \in Nat : DOMAIN PackList = 1..n
    /\ \A i \in DOMAIN PackList : PackList[i] \in Originals /\ PackList[i][2] \in Published
    /\ \A i \in DOMAIN PackList : \A v \in Versions :
         PackList[i] = Manifest(v) =>
           i - 1 \in DOMAIN PackList /\ PackList[i - 1] = Calibration(v)
<1> DEFINE n == Cardinality(Published)
           order == InOrder(Published)
<1>1. Published \in SUBSET Nat /\ IsFiniteSet(Published) /\ Published \subseteq Versions
  <2>1. Published \in SUBSET Versions
    BY DEF Published
  <2> QED
    BY <2>1, StoreIsRanked, FS_Subset
<1>2. n \in Nat
  BY <1>1, FS_CardinalityType
<1>3. Ascending(Published, order)
  BY <1>1, OrderExists DEF Ascending, InOrder
<1>4. \A k \in 1..n : order[k] \in Published
  BY <1>3 DEF Ascending
<1>5. DOMAIN PackList = 1..(2 * n)
  BY DEF PackList
<1>6. ASSUME NEW i \in 1..(2 * n)
      PROVE  /\ order[(i + 1) \div 2] \in Published
             /\ i % 2 = 1 => PackList[i] = Calibration(order[(i + 1) \div 2])
             /\ i % 2 = 0 => PackList[i] = Manifest(order[(i + 1) \div 2])
             /\ i % 2 \in {0, 1}
  <2>1. (i + 1) \div 2 \in 1..n /\ i % 2 \in {0, 1}
    BY <1>2
  <2>2. PackList[i] = PackFiles(order[(i + 1) \div 2])[2 - (i % 2)]
    BY <1>5 DEF PackList
  <2>3. order[(i + 1) \div 2] \in Published
    BY <1>4, <2>1
  <2> QED
    BY <2>1, <2>2, <2>3 DEF PackFiles
<1>7. ASSUME NEW i \in 1..(2 * n), NEW v \in Versions, PackList[i] = Manifest(v)
      PROVE  i - 1 \in 1..(2 * n) /\ PackList[i - 1] = Calibration(v)
  <2>1. i % 2 = 0 /\ order[(i + 1) \div 2] = v
    BY <1>6, <1>7, FileFacts
  <2>2. i - 1 \in 1..(2 * n) /\ (i - 1) % 2 = 1 /\ (i + 1) \div 2 = ((i - 1) + 1) \div 2
    BY <1>2, <2>1
  <2> QED
    BY <1>6, <2>1, <2>2
<1>8. ASSUME NEW i \in 1..(2 * n)
      PROVE  PackList[i] \in Originals /\ PackList[i][2] \in Published
  <2> DEFINE v == order[(i + 1) \div 2]
  <2>1. v \in Published /\ PackList[i] \in {Calibration(v), Manifest(v)}
    BY <1>6
  <2>2. v \in Versions
    BY <1>1, <2>1
  <2>3. Calibration(v) \in Originals /\ Manifest(v) \in Originals
    BY <2>2, StoreFiles
  <2>4. Calibration(v)[2] = v /\ Manifest(v)[2] = v
    BY FileFacts
  <2> HIDE DEF v
  <2> QED
    BY <2>1, <2>3, <2>4
<1> QED
  BY <1>2, <1>5, <1>7, <1>8

-----------------------------------------------------------------------------
\* One file is written, and the others are as they were.
Written(d, e, F, x) ==
  /\ \A c \in Contents : /\ e[Raw(c)] = IF F = Raw(c) THEN x ELSE d[Raw(c)]
                        /\ e[Rows(c)] = IF F = Rows(c) THEN x ELSE d[Rows(c)]
  /\ \A v \in Versions : /\ e[Directory(v)] = IF F = Directory(v) THEN x ELSE d[Directory(v)]
  /\ \A f \in Originals : /\ e[f] = IF F = f THEN x ELSE d[f]
                         /\ e[Copy(f)] = IF F = Copy(f) THEN x ELSE d[Copy(f)]
  /\ e[Lock] = IF F = Lock THEN x ELSE d[Lock]

LEMMA OneFileWritten ==
    ASSUME NEW d, DOMAIN d = Files, NEW F \in Files, NEW x
    PROVE  LET e == [d EXCEPT ![F] = x] IN DOMAIN e = Files /\ Written(d, e, F, x)
<1> DEFINE e == [d EXCEPT ![F] = x]
<1>1. \A G \in Files : e[G] = IF F = G THEN x ELSE d[G]
  OBVIOUS
<1>2. DOMAIN e = Files
  OBVIOUS
<1> HIDE DEF e
<1> QED
  BY <1>1, <1>2, StoreFiles DEF e, Written

\* What a citation, a lock or a command rests on is final.
LEMMA SoundStays ==
    ASSUME NEW d, NEW e, Grows(d, e)
    PROVE  /\ \A x : Sound(d, x) => Sound(e, x)
           /\ \A x : LockSound(d, x) => LockSound(e, x)
           /\ \A v \in Versions : Stands(d, v) => Stands(e, v)
<1>1. ASSUME NEW x, Sound(d, x) PROVE Sound(e, x)
  <2>1. x \in Citations /\ x[1] \in Contents /\ x[1] # Absent
    BY <1>1, MarksAreNoContents DEF Sound, Citations
  <2> QED
    BY <1>1, <2>1 DEF Sound, Grows
<1>2. \A v \in Versions : Stands(d, v) => Stands(e, v)
  BY DEF Grows, Stands
<1>3. ASSUME NEW x, LockSound(d, x) PROVE LockSound(e, x)
  BY <1>2, <1>3 DEF LockSound, Grows
<1> QED
  BY <1>1, <1>2, <1>3

LEMMA CallStays ==
    ASSUME NEW d, NEW e, Grows(d, e),
           NEW call \in Command, NEW t, CallSound(d, call, t),
           \A v \in Versions : Owns(call, v) =>
             e[Manifest(v)] = d[Manifest(v)] /\ e[Calibration(v)] = d[Calibration(v)]
    PROVE  CallSound(e, call, t)
<1>1. call.op = "ingest" => IngestSound(call, t)
  BY DEF CallSound
<1>2. ASSUME call.op = "normalize" PROVE NormalizeSound(e, call)
  <2>1. call.content \in Contents /\ call.content # Absent
    BY <1>2, MarksAreNoContents DEF Command, Idle
  <2> QED
    BY <1>2, <2>1 DEF CallSound, NormalizeSound, Grows
<1>3. ASSUME call.op = "build" PROVE BuildSound(e, call)
  <2> DEFINE v == call.version
  <2>1. v \in Versions
    BY <1>3 DEF Command, Idle
  <2>2. Sound(e, call.cites)
    BY <1>3, SoundStays DEF CallSound, BuildSound
  <2>3. d[Directory(v)] # Absent => e[Directory(v)] # Absent
    BY <2>1 DEF Grows
  <2>4. Owns(call, v) => e[Manifest(v)] = d[Manifest(v)] /\ e[Calibration(v)] = d[Calibration(v)]
    BY <2>1
  <2> QED
    BY <1>3, <2>2, <2>3, <2>4 DEF CallSound, BuildSound, Owns
<1>4. call.op = "lock" => LockingSound(e, call)
  BY SoundStays DEF CallSound, LockingSound
<1>5. ASSUME call.op = "sync" PROVE SyncSound(e, call)
  BY <1>5, SoundStays, StoreFiles DEF CallSound, SyncSound
<1> QED
  BY <1>1, <1>2, <1>3, <1>4, <1>5 DEF CallSound
-----------------------------------------------------------------------------
\* What may be written to a file of the store as it is.
Lawful(d, F, x) ==
  /\ \A c \in Contents :
       /\ F = Raw(c) => x = c /\ SourceValid(SourceOf[c])
       /\ F = Rows(c) => d[Raw(c)] = c
  /\ \A v \in Versions :
       /\ F = Directory(v) => x # Absent
       /\ F = Calibration(v) =>
            /\ d[Directory(v)] # Absent /\ d[Manifest(v)] = Absent
            /\ x = Torn \/ Sound(d, x)
       /\ F = Manifest(v) =>
            /\ d[Directory(v)] # Absent /\ d[Manifest(v)] \in {Absent, Torn}
            /\ d[Calibration(v)] \notin {Absent, Torn}
            /\ x \in {Torn, d[Calibration(v)]}
  /\ \A f \in Originals :
       F = Copy(f) => Stands(d, f[2]) /\ x \in {Torn, d[f]}
  /\ F = Lock => x = Torn \/ LockSound(d, x)

LEMMA LawfulGrows ==
    ASSUME NEW d, NEW e, NEW F, NEW x, DiskSound(d), Written(d, e, F, x), Lawful(d, F, x)
    PROVE  Grows(d, e)
<1>1. ASSUME NEW c \in Contents, d[Raw(c)] # Absent PROVE e[Raw(c)] = d[Raw(c)]
  BY <1>1 DEF Written, Lawful, DiskSound, RawSound
<1>2. ASSUME NEW v \in Versions, Stands(d, v)
      PROVE  e[Manifest(v)] = d[Manifest(v)] /\ e[Calibration(v)] = d[Calibration(v)]
  BY <1>2, StoreFiles DEF Written, Lawful, Stands
<1>3. ASSUME NEW v \in Versions, d[Directory(v)] # Absent PROVE e[Directory(v)] # Absent
  BY <1>3 DEF Written, Lawful
<1> QED
  BY <1>1, <1>2, <1>3 DEF Grows

LEMMA LawfulIsSound ==
    ASSUME NEW d, NEW e, NEW F, NEW x, DiskSound(d), Written(d, e, F, x), Lawful(d, F, x)
    PROVE  DiskSound(e)
<1>1. Grows(d, e)
  BY LawfulGrows
<1>2. ASSUME NEW c \in Contents PROVE RawSound(e, c)
  <2>1. RawSound(d, c) /\ c # Absent
    BY MarksAreNoContents DEF DiskSound
  <2>2. /\ e[Raw(c)] = IF F = Raw(c) THEN x ELSE d[Raw(c)]
        /\ e[Rows(c)] = IF F = Rows(c) THEN x ELSE d[Rows(c)]
        /\ d[Raw(c)] # Absent => e[Raw(c)] = d[Raw(c)]
    BY <1>1 DEF Grows, Written
  <2>3. /\ F = Raw(c) => x = c /\ SourceValid(SourceOf[c])
        /\ F = Rows(c) => d[Raw(c)] = c
    BY DEF Lawful
  <2> QED
    BY <2>1, <2>2, <2>3 DEF RawSound
<1>3. ASSUME NEW v \in Versions PROVE PackSound(e, v)
  <2> DEFINE C == Calibration(v)
             M == Manifest(v)
  <2>1. C \in Originals /\ M \in Originals /\ C # M /\ C # Directory(v) /\ M # Directory(v)
    BY FileFacts, StoreFiles
  <2>2. /\ e[C] = IF F = C THEN x ELSE d[C]
        /\ e[M] = IF F = M THEN x ELSE d[M]
        /\ d[Directory(v)] # Absent => e[Directory(v)] # Absent
        /\ F = C \/ F = M => d[Directory(v)] # Absent
    BY <1>1, <2>1 DEF Written, Lawful, Grows
  <2>3. PackSound(d, v) /\ (Sound(d, d[C]) => Sound(e, d[C])) /\ (Sound(d, x) => Sound(e, x))
    BY <1>1, SoundStays DEF DiskSound
  <2>4. CASE F = C
    <3>1. d[M] = Absent /\ (x = Torn \/ Sound(d, x))
      BY <2>4 DEF Lawful
    <3>2. e[C] = x /\ e[M] = Absent /\ d[Directory(v)] # Absent /\ e[Directory(v)] # Absent
      BY <2>1, <2>2, <2>4, <3>1
    <3>3. e[C] \in {Absent, Torn} \/ Sound(e, e[C])
      BY <2>3, <3>1, <3>2
    <3> QED
      BY <3>2, <3>3 DEF PackSound
  <2>5. CASE F = M
    <3>1. d[C] \notin {Absent, Torn} /\ x \in {Torn, d[C]}
      BY <2>5 DEF Lawful
    <3>2. e[C] = d[C] /\ e[M] = x /\ d[Directory(v)] # Absent /\ e[Directory(v)] # Absent
      BY <2>1, <2>2, <2>5
    <3>3. Sound(e, e[C])
      BY <2>3, <3>1, <3>2 DEF PackSound
    <3> QED
      BY <3>1, <3>2, <3>3 DEF PackSound
  <2>6. CASE F # C /\ F # M
    BY <1>1, <2>2, <2>3, <2>6 DEF PackSound, Grows
  <2> QED
    BY <2>4, <2>5, <2>6
<1>4. ASSUME NEW f \in Originals PROVE CopySound(e, f)
  <2>1. f[2] \in Versions /\ f \in {Calibration(f[2]), Manifest(f[2])} /\ CopySound(d, f)
    BY StoreFiles DEF DiskSound
  <2>2. Stands(d, f[2]) => Stands(e, f[2]) /\ e[f] = d[f]
    BY <1>1, <2>1, SoundStays DEF Grows
  <2> QED
    BY <2>1, <2>2 DEF CopySound, Written, Lawful
<1>5. e[Lock] = Torn \/ LockSound(e, e[Lock])
  BY <1>1, SoundStays DEF DiskSound, Written, Lawful
<1> QED
  BY <1>2, <1>3, <1>4, <1>5 DEF DiskSound
-----------------------------------------------------------------------------
\* Steps of one process, by what they change.
OthersKept(p) ==
  /\ DOMAIN temporary' = Procs
  /\ \A q \in Procs \ {p} : temporary'[q] # "none" => temporary[q] # "none"
  /\ served' = served

LEMMA ProcessStep ==
    ASSUME Inv, NEW p \in Procs, NEW call \in Command,
           calls' = [calls EXCEPT ![p] = call], OthersKept(p),
           DOMAIN disk' = Files, Grows(disk, disk'), DiskSound(disk'),
           CallSound(disk', call, temporary'[p]),
           \A v \in Versions : \A q \in Procs \ {p} :
             Owns(calls[q], v) => /\ ~Owns(call, v)
                                  /\ disk'[Manifest(v)] = disk[Manifest(v)]
                                  /\ disk'[Calibration(v)] = disk[Calibration(v)],
           overlapped' \in BOOLEAN, ~overlapped' => OneSync'
    PROVE  Inv'
<1>1. /\ calls \in [Procs -> Command] /\ calls' \in [Procs -> Command]
      /\ calls'[p] = call
      /\ \A q \in Procs \ {p} : calls'[q] = calls[q]
  BY DEF Inv, StoreTypes
<1>2. StoreTypes'
  BY <1>1 DEF Inv, StoreTypes, OthersKept
<1>3. ASSUME NEW q \in Procs PROVE CallSound(disk', calls'[q], temporary'[q])
  <2>1. CASE q = p
    BY <1>1, <2>1
  <2>2. CASE q # p
    <3>1. CallSound(disk, calls[q], temporary[q])
      BY DEF Inv
    <3>2. CallSound(disk, calls[q], temporary'[q])
      BY <2>2, <3>1 DEF CallSound, IngestSound, OthersKept
    <3>3. \A v \in Versions : Owns(calls[q], v) =>
             disk'[Manifest(v)] = disk[Manifest(v)]
             /\ disk'[Calibration(v)] = disk[Calibration(v)]
      BY <2>2
    <3> QED
      BY <1>1, <2>2, <3>2, <3>3, CallStays
  <2> QED
    BY <2>1, <2>2
<1>4. ASSUME NEW v \in Versions, NEW q \in Procs, NEW r \in Procs,
             Owns(calls'[q], v), Owns(calls'[r], v)
      PROVE  q = r
  BY <1>1, <1>4 DEF Inv, OneOwner
<1>5. OneOwner'
  BY <1>4 DEF OneOwner, Owns
<1>6. (\A q \in Procs : CallSound(disk, calls[q], temporary[q]))'
  BY <1>3
<1> QED
  BY <1>2, <1>5, <1>6 DEF Inv

\* A step that writes no copy leaves the syncs in order.
LEMMA SyncKept ==
    ASSUME Inv, NEW p \in Procs, NEW call \in Command,
           calls' = [calls EXCEPT ![p] = call], Grows(disk, disk'),
           overlapped' = overlapped,
           \A f \in Originals : disk'[Copy(f)] = disk[Copy(f)],
           call.op = "sync" => Syncing(p) /\ SyncSound(disk, call),
           ~overlapped => SyncOrdered(disk, call)
    PROVE  ~overlapped' => OneSync'
<1> SUFFICES ASSUME ~overlapped PROVE OneSync'
  OBVIOUS
<1>1. /\ calls'[p] = call
      /\ \A q \in Procs \ {p} : calls'[q] = calls[q]
  BY DEF Inv, StoreTypes
<1>2. \A v \in Versions : Stands(disk, v) =>
         /\ disk'[Calibration(v)] = disk[Calibration(v)]
         /\ disk'[Copy(Calibration(v))] = disk[Copy(Calibration(v))]
  BY StoreFiles DEF Grows
<1>3. OneSync
  BY DEF Inv
<1>4. ASSUME NEW c \in Command, SyncOrdered(disk, c), c.op = "sync" => SyncSound(disk, c)
      PROVE  SyncOrdered(disk', c)
  <2> SUFFICES ASSUME c.op = "sync", NEW i \in DOMAIN c.todo, NEW v \in Versions,
                      c.todo[i] = Copy(Manifest(v)),
                      disk[Copy(Calibration(v))] = disk[Calibration(v)]
               PROVE  disk'[Copy(Calibration(v))] = disk'[Calibration(v)]
    BY <1>4 DEF SyncOrdered
  <2>1. PICK f \in Originals : c.todo[i] = Copy(f) /\ Stands(disk, f[2])
    BY <1>4 DEF SyncSound
  <2>2. f = Manifest(v) /\ f[2] = v
    <3>1. Copy(f) = Copy(Manifest(v))
      BY <2>1
    <3>2. Copy(f)[2] = f /\ Copy(Manifest(v))[2] = Manifest(v) /\ Manifest(v)[2] = v
      BY FileFacts
    <3> QED
      BY <3>1, <3>2
  <2> QED
    BY <1>2, <2>1, <2>2
<1>5. ASSUME NEW q \in Procs PROVE SyncOrdered(disk', calls'[q])
  <2>1. CASE q = p
    BY <1>1, <1>4, <2>1
  <2>2. CASE q # p
    <3>1. calls[q] \in Command /\ SyncOrdered(disk, calls[q])
      BY <1>3 DEF Inv, StoreTypes, OneSync
    <3>2. calls[q].op = "sync" => SyncSound(disk, calls[q])
      BY DEF Inv, CallSound
    <3> QED
      BY <1>1, <1>4, <2>2, <3>1, <3>2
  <2> QED
    BY <2>1, <2>2
<1>6. ASSUME NEW v \in Versions PROVE CopyOrdered(disk', v)
  <2> SUFFICES ASSUME disk'[Copy(Manifest(v))] # Absent
               PROVE  disk'[Copy(Calibration(v))] = disk'[Calibration(v)]
    BY DEF CopyOrdered
  <2>1. Manifest(v) \in Originals /\ Manifest(v)[2] = v
    BY FileFacts, StoreFiles
  <2>2. disk[Copy(Manifest(v))] # Absent /\ Stands(disk, v)
    BY <2>1 DEF Inv, DiskSound, CopySound
  <2> QED
    BY <1>2, <1>3, <2>2 DEF OneSync, CopyOrdered
<1>7. ASSUME NEW q \in Procs, NEW r \in Procs,
             calls'[q].op = "sync", calls'[r].op = "sync"
      PROVE  q = r
  BY <1>1, <1>3, <1>7 DEF OneSync, Syncing
<1>8. (\A q, r \in Procs : Syncing(q) /\ Syncing(r) => q = r)'
  BY <1>7 DEF Syncing
<1>9. (\A q \in Procs : SyncOrdered(disk, calls[q]))'
  BY <1>5
<1>10. (\A v \in Versions : CopyOrdered(disk, v))'
  BY <1>6
<1> QED
  BY <1>8, <1>9, <1>10 DEF OneSync

\* A step that writes nothing, after which its process writes no more than it
\* might before.
LEMMA QuietStep ==
    ASSUME Inv, NEW p \in Procs, NEW call \in Command,
           calls' = [calls EXCEPT ![p] = call], OthersKept(p),
           disk' = disk, overlapped' = overlapped,
           CallSound(disk, call, temporary'[p]),
           \A v \in Versions : Owns(call, v) => Owns(calls[p], v),
           call.op = "sync" => Syncing(p),
           ~overlapped => SyncOrdered(disk, call)
    PROVE  Inv'
<1>1. Grows(disk, disk')
  BY DEF Grows
<1>2. ~overlapped' => OneSync'
  BY <1>1, SyncKept DEF CallSound
<1>3. overlapped' \in BOOLEAN /\ DOMAIN disk' = Files /\ DiskSound(disk')
  BY DEF Inv, StoreTypes
<1>4. \A v \in Versions : \A q \in Procs \ {p} :
         Owns(calls[q], v) => /\ ~Owns(call, v)
                              /\ disk'[Manifest(v)] = disk[Manifest(v)]
                              /\ disk'[Calibration(v)] = disk[Calibration(v)]
  BY DEF Inv, OneOwner
<1>5. CallSound(disk', call, temporary'[p])
  OBVIOUS
<1> QED
  BY <1>1, <1>2, <1>3, <1>4, <1>5, ProcessStep

\* A command that ends, however it ends, leaves the store as it is.
LEMMA EndStep ==
    ASSUME Inv, NEW p \in Procs, End(p), OthersKept(p), disk' = disk,
           overlapped' = overlapped
    PROVE  Inv'
<1>1. Idle \in Command /\ calls' = [calls EXCEPT ![p] = Idle]
  BY DEF End, Command
<1>2. /\ CallSound(disk, Idle, temporary'[p])
      /\ \A v \in Versions : ~Owns(Idle, v)
      /\ SyncOrdered(disk, Idle)
      /\ Idle.op # "sync"
  BY DEF Idle, CallSound, Owns, SyncOrdered
<1> QED
  BY <1>1, <1>2, QuietStep
-----------------------------------------------------------------------------
\* Commands begin: with what has been checked.
LEMMA StandingIsSound ==
    ASSUME NEW d, DiskSound(d), NEW v \in Versions, Stands(d, v)
    PROVE  d[Manifest(v)] = d[Calibration(v)] /\ Sound(d, d[Manifest(v)])
BY DEF DiskSound, PackSound, Stands

LEMMA MovedKeeps ==
    ASSUME Inv, NEW p \in Procs, temporary' = Moved, served' = served
    PROVE  OthersKept(p)
BY DEF Inv, StoreTypes, Moved, OthersKept

LEMMA RefusedInv == ASSUME Inv, NEW p \in Procs, Refused(p) PROVE Inv'
<1>1. /\ End(p) /\ temporary' = Moved /\ disk' = disk
      /\ served' = served /\ overlapped' = overlapped
  BY DEF Refused, Begin, End, Initialized
<1> QED
  BY <1>1, MovedKeeps, EndStep

LEMMA IngestBeginInv ==
    ASSUME Inv, NEW p \in Procs, NEW s \in Sources, IngestBegin(p, s) PROVE Inv'
<1> DEFINE call == [op |-> "ingest", content |-> served[s], open |-> FALSE, todo |-> <<>>]
<1>1. /\ SourceValid(s) /\ calls' = [calls EXCEPT ![p] = call]
      /\ temporary' = [Moved EXCEPT ![p] = "raw"] /\ disk' = disk
      /\ served' = served /\ overlapped' = overlapped
  BY DEF IngestBegin, Begin
<1>2. served[s] \in Contents /\ SourceOf[served[s]] = s
  BY DEF Inv, StoreTypes
<1>3. call \in Command
  BY <1>2 DEF Command
<1>4. OthersKept(p)
  BY <1>1 DEF Inv, StoreTypes, Moved, OthersKept
<1>5. CallSound(disk, call, temporary'[p])
  BY <1>1, <1>2 DEF CallSound, IngestSound
<1>6. (\A v \in Versions : ~Owns(call, v)) /\ call.op # "sync" /\ SyncOrdered(disk, call)
  BY DEF Owns, SyncOrdered
<1> HIDE DEF call
<1> QED
  BY <1>1, <1>3, <1>4, <1>5, <1>6, QuietStep

LEMMA NormalizeInv ==
    ASSUME Inv, NEW p \in Procs, NEW s \in Sources, Normalize(p, s) PROVE Inv'
<1> DEFINE c == Latest(s)
           call == [op |-> "normalize", open |-> FALSE, content |-> c,
                    todo |-> <<Rows(c), Sidecar(c)>>]
<1>1. /\ RawOf(s) # {} /\ calls' = [calls EXCEPT ![p] = call]
      /\ temporary' = Moved /\ disk' = disk
      /\ served' = served /\ overlapped' = overlapped
  BY DEF Normalize, Begin, Initialized
<1>2. c \in RawOf(s)
  <2>1. RawOf(s) \in SUBSET Contents
    BY DEF RawOf
  <2>2. RawOf(s) \in SUBSET Nat /\ IsFiniteSet(RawOf(s))
    BY <2>1, StoreIsRanked, FS_Subset
  <2>3. \E m \in RawOf(s) : \A x \in RawOf(s) : x <= m
    BY <1>1, <2>2, Greatest
  <2> QED
    BY <2>3 DEF Latest
<1>3. c \in Contents /\ disk[Raw(c)] = c
  BY <1>2 DEF RawOf, Inv, DiskSound, RawSound
<1> HIDE DEF c
<1>4. call \in Command
  BY <1>3, StoreFiles DEF Command
<1>5. CallSound(disk, call, temporary'[p])
  BY <1>3 DEF CallSound, NormalizeSound
<1>6. (\A v \in Versions : ~Owns(call, v)) /\ call.op # "sync" /\ SyncOrdered(disk, call)
  BY DEF Owns, SyncOrdered
<1>7. OthersKept(p)
  BY <1>1, MovedKeeps
<1> HIDE DEF call
<1> QED
  BY <1>1, <1>4, <1>5, <1>6, <1>7, QuietStep

LEMMA ThreeInARow ==
    ASSUME NEW a, NEW b, NEW c
    PROVE  <<a>> \o <<b, c>> = <<a, b, c>>
<1> DEFINE S == {a, b, c}
           t == <<a>> \o <<b, c>>
<1>1. /\ <<a>> \in Seq(S) /\ <<b, c>> \in Seq(S) /\ <<a, b, c>> \in Seq(S)
      /\ Len(<<a>>) = 1 /\ Len(<<b, c>>) = 2 /\ Len(<<a, b, c>>) = 3
  OBVIOUS
<1>2. t \in Seq(S) /\ Len(t) = 3
  BY <1>1
<1>3. t[1] = a /\ t[2] = b /\ t[3] = c
  BY <1>1
<1> HIDE DEF t
<1>4. \A i \in 1..3 : t[i] = <<a, b, c>>[i]
  BY <1>3
<1>5. t = <<a, b, c>>
  BY <1>1, <1>2, <1>4, SeqEqual
<1> QED
  BY <1>5 DEF t

LEMMA BuildBeginInv ==
    ASSUME Inv, NEW p \in Procs, NEW v \in Versions, NEW c \in Contents, NEW w \in Windows,
           BuildBegin(p, v, c, w)
    PROVE  Inv'
<1> DEFINE call == [op |-> "build", open |-> FALSE, version |-> v, cites |-> <<c, w>>,
                    todo |-> <<Directory(v)>> \o PackFiles(v)]
<1>1. /\ Held(Rows(c)) /\ WindowClean(c, w) /\ calls' = [calls EXCEPT ![p] = call]
      /\ temporary' = Moved /\ disk' = disk
      /\ served' = served /\ overlapped' = overlapped
  BY DEF BuildBegin, Begin, Initialized
<1>2. <<Directory(v)>> \o PackFiles(v) = <<Directory(v), Calibration(v), Manifest(v)>>
  BY ThreeInARow DEF PackFiles
<1>3. Sound(disk, <<c, w>>)
  BY <1>1 DEF Held, Inv, DiskSound, RawSound, Sound, Citations
<1>4. call \in Command
  <2>1. <<Directory(v), Calibration(v), Manifest(v)>> \in Seq(Files)
    BY StoreFiles
  <2>2. <<c, w>> \in Citations
    BY DEF Citations
  <2> QED
    BY <1>2, <2>1, <2>2 DEF Command
<1>5. CallSound(disk, call, temporary'[p])
  BY <1>2, <1>3 DEF CallSound, BuildSound
<1>6. (\A u \in Versions : ~Owns(call, u)) /\ call.op # "sync" /\ SyncOrdered(disk, call)
  <2>1. \A u : call.todo \notin {<<Calibration(u), Manifest(u)>>, <<Manifest(u)>>}
    BY <1>2
  <2> QED
    BY <2>1 DEF Owns, SyncOrdered
<1>7. OthersKept(p)
  BY <1>1, MovedKeeps
<1> HIDE DEF call
<1> QED
  BY <1>1, <1>4, <1>5, <1>6, <1>7, QuietStep

LEMMA LockBeginInv ==
    ASSUME Inv, NEW p \in Procs, NEW v \in Versions, LockBegin(p, v) PROVE Inv'
<1> DEFINE document == [disk[Lock] EXCEPT ![v] = disk[Manifest(v)]]
           call == [op |-> "lock", open |-> FALSE, todo |-> <<Lock>>, document |-> document]
<1>1. /\ Verifies(v) /\ Held(Lock) /\ calls' = [calls EXCEPT ![p] = call]
      /\ temporary' = Moved /\ disk' = disk
      /\ served' = served /\ overlapped' = overlapped
  BY DEF LockBegin, Begin, Initialized
<1>2. LockSound(disk, disk[Lock])
  BY <1>1 DEF Held, Inv, DiskSound
<1>3. Stands(disk, v) /\ disk[Manifest(v)] \in Citations
  <2>1. Stands(disk, v)
    BY <1>1 DEF Verifies, Held, Stands
  <2> QED
    BY <2>1, StandingIsSound DEF Inv, Sound
<1>4. LockSound(disk, document)
  BY <1>2, <1>3 DEF LockSound
<1>5. call \in Command
  BY <1>4, StoreFiles DEF Command, LockSound
<1>6. CallSound(disk, call, temporary'[p])
  BY <1>4 DEF CallSound, LockingSound
<1>7. (\A u \in Versions : ~Owns(call, u)) /\ call.op # "sync" /\ SyncOrdered(disk, call)
  BY DEF Owns, SyncOrdered
<1>8. OthersKept(p)
  BY <1>1, MovedKeeps
<1> HIDE DEF call
<1> QED
  BY <1>1, <1>5, <1>6, <1>7, <1>8, QuietStep

LEMMA SyncBeginInv ==
    ASSUME Inv, NEW p \in Procs, NEW prune \in BOOLEAN, SyncBegin(p, prune) PROVE Inv'
<1> DEFINE todo == [i \in DOMAIN PackList |-> Copy(PackList[i])]
           call == [op |-> "sync", open |-> FALSE, filled |-> FALSE, prune |-> prune,
                    expected |-> ToSet(PackList), todo |-> todo]
<1>1. /\ \A v \in Published : Verifies(v)
      /\ calls[p] = Idle /\ calls' = [calls EXCEPT ![p] = call]
      /\ temporary' = Moved /\ disk' = disk /\ served' = served
      /\ overlapped' = (overlapped \/ \E q \in Procs : Syncing(q))
  BY DEF SyncBegin, Begin, Initialized
<1>2. \A v \in Published : v \in Versions /\ Stands(disk, v)
  BY <1>1 DEF Verifies, Held, Stands, Published
<1>3. \A i \in DOMAIN PackList : PackList[i] \in Originals /\ Stands(disk, PackList[i][2])
  BY <1>2, PackListFacts
<1>4. todo \in Seq(Files) /\ DOMAIN todo = DOMAIN PackList
  <2>1. PICK n \in Nat : DOMAIN PackList = 1..n
    BY PackListFacts
  <2>2. todo \in [1..n -> Files]
    BY <1>3, <2>1, StoreFiles
  <2> QED
    BY <2>1, <2>2
<1>5. ToSet(PackList) \in SUBSET Originals
  BY <1>3 DEF ToSet
<1>6. call \in Command
  <2> HIDE DEF todo
  <2> QED
    BY <1>4, <1>5 DEF Command
<1>7. SyncSound(disk, call)
  <2>1. ASSUME NEW i \in DOMAIN todo
        PROVE  \E f \in Originals : todo[i] = Copy(f) /\ Stands(disk, f[2])
    BY <1>3
  <2>2. ASSUME NEW v \in Versions, Manifest(v) \in ToSet(PackList)
        PROVE  Calibration(v) \in ToSet(PackList)
    <3>1. PICK i \in DOMAIN PackList : PackList[i] = Manifest(v)
      BY <2>2 DEF ToSet
    <3>2. i - 1 \in DOMAIN PackList /\ PackList[i - 1] = Calibration(v)
      BY <3>1, PackListFacts
    <3> QED
      BY <3>2 DEF ToSet
  <2> QED
    BY <2>1, <2>2 DEF SyncSound
<1>8. SyncOrdered(disk, call)
  <2> SUFFICES ASSUME NEW i \in DOMAIN todo, NEW v \in Versions, todo[i] = Copy(Manifest(v))
               PROVE  \E j \in 1..(i - 1) : todo[j] = Copy(Calibration(v))
    BY DEF SyncOrdered
  <2>1. Copy(PackList[i])[2] = PackList[i] /\ Copy(Manifest(v))[2] = Manifest(v)
    BY FileFacts
  <2>2. PackList[i] = Manifest(v)
    BY <2>1
  <2>3. i - 1 \in DOMAIN PackList /\ PackList[i - 1] = Calibration(v)
    BY <2>2, PackListFacts
  <2>4. PICK n \in Nat : DOMAIN PackList = 1..n
    BY PackListFacts
  <2>5. i - 1 \in 1..(i - 1)
    BY <2>3, <2>4
  <2> QED
    BY <2>3, <2>5
<1>9. CallSound(disk, call, temporary'[p]) /\ \A v \in Versions : ~Owns(call, v)
  BY <1>7 DEF CallSound, Owns
<1>10. call.op = "sync"
  OBVIOUS
<1> HIDE DEF call, todo
<1>11. ~overlapped' => OneSync'
  <2> SUFFICES ASSUME ~overlapped' PROVE OneSync'
    OBVIOUS
  <2>1. \A q \in Procs : ~Syncing(q)
    BY <1>1
  <2>2. ~overlapped
    BY <1>1 DEF Inv, StoreTypes
  <2>3. OneSync
    BY <2>2 DEF Inv
  <2>4. calls'[p] = call /\ \A q \in Procs \ {p} : calls'[q] = calls[q]
    BY <1>1 DEF Inv, StoreTypes
  <2>5. \A q, r \in Procs : calls'[q].op = "sync" /\ calls'[r].op = "sync" => q = r
    BY <2>1, <2>4 DEF Syncing
  <2>6. \A q \in Procs : SyncOrdered(disk, calls'[q])
    BY <1>8, <2>3, <2>4 DEF OneSync
  <2>7. (\A q, r \in Procs : Syncing(q) /\ Syncing(r) => q = r)'
    BY <2>5 DEF Syncing
  <2>8. (\A q \in Procs : SyncOrdered(disk, calls[q]))'
    BY <1>1, <2>6
  <2>9. (\A v \in Versions : CopyOrdered(disk, v))'
    BY <1>1, <2>3 DEF OneSync
  <2> QED
    BY <2>7, <2>8, <2>9 DEF OneSync
<1>12. OthersKept(p)
  BY <1>1, MovedKeeps
<1>13. Grows(disk, disk') /\ DOMAIN disk' = Files /\ DiskSound(disk') /\ overlapped' \in BOOLEAN
  BY <1>1 DEF Inv, StoreTypes, Grows
<1> QED
  BY <1>1, <1>6, <1>9, <1>11, <1>12, <1>13, ProcessStep
-----------------------------------------------------------------------------
\* A command goes on: what it is of does not change.
SameCommand(c, r) ==
  /\ r.op = c.op
  /\ c.op \in {"ingest", "normalize"} => r.content = c.content
  /\ c.op = "build" => r.version = c.version /\ r.cites = c.cites
  /\ c.op = "lock" => r.document = c.document
  /\ c.op = "sync" => r.expected = c.expected

LEMMA Opened ==
    ASSUME NEW c \in Command, c.op # "idle"
    PROVE  LET r == [c EXCEPT !.open = TRUE]
           IN  r \in Command /\ SameCommand(c, r) /\ r.todo = c.todo
BY DEF Command, Idle, SameCommand

LEMMA Filled ==
    ASSUME NEW c \in Command, c.op = "sync"
    PROVE  LET r == [c EXCEPT !.filled = TRUE]
           IN  r \in Command /\ SameCommand(c, r) /\ r.todo = c.todo
BY DEF Command, Idle, SameCommand

LEMMA Advanced ==
    ASSUME NEW c \in Command, c.op # "idle", c.todo # <<>>
    PROVE  LET r == [c EXCEPT !.todo = Tail(@), !.open = FALSE]
           IN  r \in Command /\ SameCommand(c, r) /\ r.todo = Tail(c.todo) /\ ~r.open
<1> DEFINE r == [c EXCEPT !.todo = Tail(@), !.open = FALSE]
<1>1. c.todo \in Seq(Files) /\ Tail(c.todo) \in Seq(Files)
  <2>1. c.todo \in Seq(Files)
    BY DEF Command, Idle
  <2> QED
    BY <2>1
<1>2. r \in Command
  BY <1>1 DEF Command, Idle
<1>3. SameCommand(c, r) /\ r.todo = Tail(c.todo) /\ ~r.open
  BY DEF Command, Idle, SameCommand
<1> QED
  BY <1>2, <1>3

LEMMA Unfilled ==
    ASSUME NEW c \in Command, c.op = "sync"
    PROVE  LET r == [c EXCEPT !.filled = FALSE]
           IN  r \in Command /\ SameCommand(c, r) /\ r.todo = c.todo
BY DEF Command, Idle, SameCommand

-----------------------------------------------------------------------------
\* Commands write their files.
LEMMA WriteStep ==
    ASSUME Inv, NEW p \in Procs, NEW F \in Files, NEW x,
           disk' = [disk EXCEPT ![F] = x], Lawful(disk, F, x),
           NEW call \in Command, calls' = [calls EXCEPT ![p] = call],
           OthersKept(p), overlapped' = overlapped,
           CallSound(disk', call, temporary'[p]),
           \A v \in Versions : Owns(call, v) => Owns(calls[p], v) \/ disk[Directory(v)] = Absent,
           \A v \in Versions : F \in {Calibration(v), Manifest(v)} => Owns(calls[p], v),
           ~overlapped' => OneSync'
    PROVE  Inv'
<1>1. DOMAIN disk = Files /\ DiskSound(disk)
  BY DEF Inv, StoreTypes
<1>2. DOMAIN disk' = Files /\ Written(disk, disk', F, x)
  BY <1>1, OneFileWritten
<1>3. Grows(disk, disk') /\ DiskSound(disk')
  BY <1>1, <1>2, LawfulGrows, LawfulIsSound
<1>4. ASSUME NEW v \in Versions, NEW q \in Procs \ {p}, Owns(calls[q], v)
      PROVE  /\ ~Owns(call, v)
             /\ disk'[Manifest(v)] = disk[Manifest(v)]
             /\ disk'[Calibration(v)] = disk[Calibration(v)]
  <2>1. ~Owns(calls[p], v)
    BY <1>4 DEF Inv, OneOwner
  <2>2. disk[Directory(v)] # Absent
    <3>1. BuildSound(disk, calls[q])
      BY <1>4 DEF Inv, CallSound, Owns
    <3>2. \/ calls[q].todo = <<Calibration(v), Manifest(v)>>
          \/ calls[q].todo = <<Manifest(v)>>
      BY <1>4 DEF Owns
    <3>3. calls[q].todo # <<>> /\ calls[q].todo # <<Directory(v), Calibration(v), Manifest(v)>>
      <4> DEFINE calibration == Calibration(v)
                 manifest == Manifest(v)
      <4>1. Len(calls[q].todo) \in {1, 2}
        <5>1. calls[q].todo \in {<<calibration, manifest>>, <<manifest>>}
          BY <3>2
        <5> HIDE DEF calibration, manifest
        <5>2. Len(<<calibration, manifest>>) = 2 /\ Len(<<manifest>>) = 1
          OBVIOUS
        <5>3. CASE calls[q].todo = <<calibration, manifest>>
          BY <5>2, <5>3
        <5>4. CASE calls[q].todo = <<manifest>>
          BY <5>2, <5>4
        <5> QED
          BY <5>1, <5>3, <5>4
      <4>2. ASSUME calls[q].todo = <<>> PROVE FALSE
        <5>1. Len(calls[q].todo) = 0
          BY <4>2
        <5> QED
          BY <4>1, <5>1
      <4>3. ASSUME calls[q].todo = <<Directory(v), Calibration(v), Manifest(v)>> PROVE FALSE
        <5>1. Len(calls[q].todo) = 3
          BY <4>3
        <5> QED
          BY <4>1, <5>1
      <4> QED
        BY <4>2, <4>3
    <3>4. calls[q].version = v
      BY <1>4 DEF Owns
    <3> QED
      BY <3>1, <3>3, <3>4 DEF BuildSound
  <2>3. F # Calibration(v) /\ F # Manifest(v)
    BY <2>1
  <2> QED
    BY <1>2, <2>1, <2>2, <2>3, StoreFiles DEF Written
<1>5. overlapped' \in BOOLEAN
  BY DEF Inv, StoreTypes
<1> QED
  BY <1>2, <1>3, <1>4, <1>5, ProcessStep

\* A sync with nothing else to read has the rest to copy in order.
LEMMA SyncAdvances ==
    ASSUME NEW d, NEW c \in Command, NEW r \in Command, c.todo # <<>>, c.op = "sync",
           SyncOrdered(d, c), r.todo = Tail(c.todo),
           NEW f \in Originals, Head(c.todo) = Copy(f), d[Copy(f)] = d[f]
    PROVE  SyncOrdered(d, r)
<1>1. c.todo \in Seq(Files)
  BY DEF Command, Idle
<1>2. /\ Len(c.todo) \in Nat /\ Len(c.todo) > 0
      /\ DOMAIN c.todo = 1..Len(c.todo)
      /\ DOMAIN r.todo = 1..(Len(c.todo) - 1)
      /\ \A i \in 1..(Len(c.todo) - 1) : r.todo[i] = c.todo[i + 1]
      /\ c.todo[1] = Copy(f)
  BY <1>1
<1> SUFFICES ASSUME NEW i \in DOMAIN r.todo, NEW v \in Versions, r.todo[i] = Copy(Manifest(v)),
                    d[Copy(Calibration(v))] # d[Calibration(v)]
             PROVE  \E j \in 1..(i - 1) : r.todo[j] = Copy(Calibration(v))
  BY DEF SyncOrdered
<1>3. i \in 1..(Len(c.todo) - 1) /\ i + 1 \in DOMAIN c.todo /\ c.todo[i + 1] = Copy(Manifest(v))
  BY <1>2
<1>4. PICK j \in 1..((i + 1) - 1) : c.todo[j] = Copy(Calibration(v))
  BY <1>3 DEF SyncOrdered
<1>5. j # 1
  <2>1. Copy(f)[2] = f /\ Copy(Calibration(v))[2] = Calibration(v)
    BY FileFacts
  <2> QED
    BY <1>2, <1>4, <2>1
<1>6. j - 1 \in 1..(i - 1) /\ j - 1 \in 1..(Len(c.todo) - 1)
  <2> DEFINE n == Len(c.todo)
  <2>1. n \in Nat /\ i \in 1..(n - 1) /\ j \in 1..((i + 1) - 1) /\ j # 1
    BY <1>2, <1>3, <1>4, <1>5
  <2> HIDE DEF n
  <2>2. j - 1 \in 1..(i - 1) /\ j - 1 \in 1..(n - 1)
    BY <2>1
  <2> QED
    BY <2>2 DEF n
<1>7. r.todo[j - 1] = c.todo[(j - 1) + 1] /\ (j - 1) + 1 = j
  BY <1>2, <1>6
<1> QED
  BY <1>4, <1>6, <1>7

\* What a sync writes to a copy keeps it in order: it opens the ones that differ
\* and fills them with what they are copies of.
LEMMA SyncWrites ==
    ASSUME Inv, NEW p \in Procs, calls[p].op = "sync", calls[p].todo # <<>>,
           NEW f \in Originals, Head(calls[p].todo) = Copy(f), NEW x,
           disk' = [disk EXCEPT ![Copy(f)] = x],
           x = disk[f] \/ (x = Torn /\ disk[Copy(f)] # disk[f]),
           NEW call \in Command, calls' = [calls EXCEPT ![p] = call],
           call.op = "sync", call.todo = calls[p].todo, overlapped' = overlapped
    PROVE  ~overlapped' => OneSync'
<1> SUFFICES ASSUME ~overlapped PROVE OneSync'
  OBVIOUS
<1>1. OneSync /\ calls[p] \in Command /\ DOMAIN disk = Files
  BY DEF Inv, StoreTypes
<1>2. Written(disk, disk', Copy(f), x)
  BY <1>1, OneFileWritten, StoreFiles
<1>3. /\ calls'[p] = call
      /\ \A q \in Procs \ {p} : calls'[q] = calls[q] /\ calls[q].op # "sync"
  BY <1>1 DEF Inv, StoreTypes, OneSync, Syncing
<1>4. /\ \A g \in Originals : disk'[g] = disk[g]
      /\ \A g \in Originals : g # f => disk'[Copy(g)] = disk[Copy(g)]
      /\ disk'[Copy(f)] = x
  <2>1. \A g \in Originals : Copy(f) # g /\ (Copy(f) = Copy(g) => f = g)
    <3> SUFFICES ASSUME NEW g \in Originals PROVE Copy(f) # g /\ (Copy(f) = Copy(g) => f = g)
      OBVIOUS
    <3>1. Copy(f)[1] = "copy" /\ g[1] # "copy"
      BY FileFacts, StoreFiles
    <3>2. Copy(f)[2] = f /\ Copy(g)[2] = g
      BY FileFacts
    <3> QED
      BY <3>1, <3>2
  <2> QED
    BY <1>2, <2>1 DEF Written
<1>5. ASSUME NEW v \in Versions,
             disk[Copy(Calibration(v))] = disk[Calibration(v)]
      PROVE  disk'[Copy(Calibration(v))] = disk'[Calibration(v)]
  BY <1>4, <1>5, StoreFiles
<1>6. SyncOrdered(disk', call)
  <2>1. SyncOrdered(disk, calls[p])
    BY <1>1 DEF OneSync
  <2> QED
    BY <1>5, <2>1 DEF SyncOrdered
<1>7. ASSUME NEW v \in Versions PROVE CopyOrdered(disk', v)
  <2>1. CopyOrdered(disk, v) /\ Manifest(v) \in Originals /\ Calibration(v) \in Originals
        /\ Manifest(v) # Calibration(v)
    BY <1>1, StoreFiles, FileFacts DEF OneSync
  <2>2. CASE f = Manifest(v)
    <3>1. calls[p].todo \in Seq(Files)
      BY <1>1 DEF Command, Idle
    <3>2. 1 \in DOMAIN calls[p].todo /\ calls[p].todo[1] = Copy(Manifest(v))
      BY <2>2, <3>1
    <3>3. SyncOrdered(disk, calls[p])
      BY <1>1 DEF OneSync
    <3>4. disk[Copy(Calibration(v))] = disk[Calibration(v)]
      BY <3>2, <3>3 DEF SyncOrdered
    <3> QED
      BY <1>5, <3>4 DEF CopyOrdered
  <2>3. CASE f = Calibration(v)
    BY <1>4, <2>1, <2>3 DEF CopyOrdered
  <2>4. CASE f # Manifest(v) /\ f # Calibration(v)
    BY <1>4, <2>1, <2>4 DEF CopyOrdered
  <2> QED
    BY <2>2, <2>3, <2>4
<1>8. (\A q, r \in Procs : Syncing(q) /\ Syncing(r) => q = r)'
  BY <1>3 DEF Syncing
<1>9. \A q \in Procs : SyncOrdered(disk', calls'[q])
  BY <1>3, <1>6 DEF SyncOrdered
<1>10. (\A q \in Procs : SyncOrdered(disk, calls[q]))'
  BY <1>9
<1>11. (\A v \in Versions : CopyOrdered(disk, v))'
  BY <1>7
<1> QED
  BY <1>8, <1>10, <1>11 DEF OneSync
-----------------------------------------------------------------------------
\* What a command writes next.
LEMMA WritingFacts ==
    ASSUME Inv, NEW p \in Procs, Writing(p)
    PROVE  /\ calls[p] \in Command /\ calls[p].op # "idle" /\ calls[p].todo # <<>>
           /\ calls[p].op \in {"ingest", "normalize", "build", "lock", "sync"}
           /\ calls[p].open \in BOOLEAN
           /\ Next1(p) = Head(calls[p].todo) /\ Next1(p) \in Files
           /\ CallSound(disk, calls[p], temporary[p])
<1>1. calls[p] \in Command /\ calls[p].op # "idle" /\ calls[p].todo # <<>>
  BY DEF Inv, StoreTypes, Writing
<1>2. calls[p].todo \in Seq(Files)
  BY <1>1 DEF Command, Idle
<1>3. Next1(p) = Head(calls[p].todo) /\ Next1(p) \in Files
  BY <1>1, <1>2 DEF Next1
<1>4. calls[p].op \in {"ingest", "normalize", "build", "lock", "sync"} /\ calls[p].open \in BOOLEAN
  BY <1>1 DEF Command, Idle
<1>5. CallSound(disk, calls[p], temporary[p])
  BY DEF Inv
<1> QED
  BY <1>1, <1>3, <1>4, <1>5

LEMMA IngestNext ==
    ASSUME Inv, NEW p \in Procs, Writing(p), calls[p].op = "ingest"
    PROVE  /\ calls[p].content \in Contents
           /\ Next1(p) = Metadata(calls[p].content)
           /\ Tail(calls[p].todo) = <<>> /\ temporary[p] = "none"
           /\ SourceValid(SourceOf[calls[p].content])
<1>1. IngestSound(calls[p], temporary[p]) /\ calls[p].todo # <<>> /\ calls[p] \in Command
  BY WritingFacts DEF CallSound
<1>2. calls[p].content \in Contents
  BY <1>1 DEF Command, Idle
<1>3. calls[p].todo = <<Metadata(calls[p].content)>>
  BY <1>1 DEF IngestSound
<1> QED
  BY <1>1, <1>2, <1>3 DEF IngestSound, Next1

LEMMA NormalizeNext ==
    ASSUME Inv, NEW p \in Procs, Writing(p), calls[p].op = "normalize"
    PROVE  LET c == calls[p].content
           IN  /\ c \in Contents /\ disk[Raw(c)] = c
               /\ \/ Next1(p) = Rows(c) /\ Tail(calls[p].todo) = <<Sidecar(c)>>
                  \/ Next1(p) = Sidecar(c) /\ Tail(calls[p].todo) = <<>>
<1> DEFINE c == calls[p].content
<1>1. NormalizeSound(disk, calls[p]) /\ calls[p].todo # <<>> /\ calls[p] \in Command
  BY WritingFacts DEF CallSound
<1>2. c \in Contents
  BY <1>1 DEF Command, Idle
<1>3. calls[p].todo \in {<<Sidecar(c)>>, <<Rows(c), Sidecar(c)>>} /\ disk[Raw(c)] = c
  BY <1>1 DEF NormalizeSound
<1>4. CASE calls[p].todo = <<Sidecar(c)>>
  BY <1>2, <1>3, <1>4 DEF Next1
<1>5. CASE calls[p].todo = <<Rows(c), Sidecar(c)>>
  BY <1>2, <1>3, <1>5 DEF Next1
<1> QED
  BY <1>3, <1>4, <1>5

LEMMA BuildNext ==
    ASSUME Inv, NEW p \in Procs, Writing(p), calls[p].op = "build"
    PROVE  LET v == calls[p].version
           IN  /\ v \in Versions /\ Sound(disk, calls[p].cites)
               /\ \/ /\ Next1(p) = Directory(v) /\ ~calls[p].open
                     /\ Tail(calls[p].todo) = <<Calibration(v), Manifest(v)>>
                  \/ /\ Next1(p) = Calibration(v) /\ Owns(calls[p], v)
                     /\ calls[p].todo = <<Calibration(v), Manifest(v)>>
                     /\ Tail(calls[p].todo) = <<Manifest(v)>>
                     /\ disk[Directory(v)] # Absent /\ disk[Manifest(v)] = Absent
                     /\ disk[Calibration(v)] \in {Absent, Torn}
                  \/ /\ Next1(p) = Manifest(v) /\ Owns(calls[p], v)
                     /\ calls[p].todo = <<Manifest(v)>>
                     /\ Tail(calls[p].todo) = <<>>
                     /\ disk[Directory(v)] # Absent /\ disk[Manifest(v)] \in {Absent, Torn}
                     /\ disk[Calibration(v)] = calls[p].cites
<1> DEFINE v == calls[p].version
<1>1. BuildSound(disk, calls[p]) /\ calls[p].todo # <<>> /\ calls[p] \in Command
  BY WritingFacts DEF CallSound
<1>2. v \in Versions /\ Sound(disk, calls[p].cites)
  BY <1>1 DEF Command, Idle, BuildSound
<1>3. CASE calls[p].todo = <<Directory(v), Calibration(v), Manifest(v)>> /\ ~calls[p].open
  BY <1>2, <1>3 DEF Next1
<1>4. CASE /\ calls[p].todo = <<Calibration(v), Manifest(v)>>
           /\ disk[Directory(v)] # Absent /\ disk[Manifest(v)] = Absent
           /\ disk[Calibration(v)] \in {Absent, Torn}
  <2>1. Next1(p) = Calibration(v) /\ Tail(calls[p].todo) = <<Manifest(v)>>
    BY <1>4 DEF Next1
  <2>2. Owns(calls[p], v)
    BY <1>4 DEF Owns
  <2> QED
    BY <1>2, <1>4, <2>1, <2>2
<1>5. CASE /\ calls[p].todo = <<Manifest(v)>>
           /\ disk[Directory(v)] # Absent /\ disk[Manifest(v)] \in {Absent, Torn}
           /\ disk[Calibration(v)] = calls[p].cites
  <2>1. Next1(p) = Manifest(v) /\ Tail(calls[p].todo) = <<>>
    BY <1>5 DEF Next1
  <2>2. Owns(calls[p], v)
    BY <1>5 DEF Owns
  <2> QED
    BY <1>2, <1>5, <2>1, <2>2
<1> QED
  BY <1>1, <1>3, <1>4, <1>5 DEF BuildSound

LEMMA LockNext ==
    ASSUME Inv, NEW p \in Procs, Writing(p), calls[p].op = "lock"
    PROVE  /\ Next1(p) = Lock /\ Tail(calls[p].todo) = <<>>
           /\ LockSound(disk, calls[p].document)
<1>1. LockingSound(disk, calls[p]) /\ calls[p].todo # <<>>
  BY WritingFacts DEF CallSound
<1>2. calls[p].todo = <<Lock>>
  BY <1>1 DEF LockingSound
<1> QED
  BY <1>1, <1>2 DEF LockingSound, Next1

LEMMA SyncNext ==
    ASSUME Inv, NEW p \in Procs, Writing(p), calls[p].op = "sync"
    PROVE  \E f \in Originals : Next1(p) = Copy(f) /\ Stands(disk, f[2])
<1>1. SyncSound(disk, calls[p]) /\ calls[p].todo # <<>> /\ calls[p] \in Command
  BY WritingFacts DEF CallSound
<1>2. calls[p].todo \in Seq(Files)
  BY <1>1 DEF Command, Idle
<1>3. 1 \in DOMAIN calls[p].todo /\ Next1(p) = calls[p].todo[1]
  BY <1>1, <1>2 DEF Next1
<1> QED
  BY <1>1, <1>3 DEF SyncSound
-----------------------------------------------------------------------------
\* What each kind of file asks of what is written to it.
LEMMA LawfulKinds ==
    ASSUME NEW d, NEW F, NEW x
    PROVE  /\ F[1] \in {"metadata", "sidecar"} => Lawful(d, F, x)
           /\ \A c \in Contents : F = Raw(c) /\ x = c /\ SourceValid(SourceOf[c])
                                => Lawful(d, F, x)
           /\ \A c \in Contents : F = Rows(c) /\ d[Raw(c)] = c => Lawful(d, F, x)
           /\ \A v \in Versions : F = Directory(v) /\ x # Absent => Lawful(d, F, x)
           /\ \A v \in Versions :
                 /\ F = Calibration(v) /\ d[Directory(v)] # Absent /\ d[Manifest(v)] = Absent
                 /\ x = Torn \/ Sound(d, x)
                 => Lawful(d, F, x)
           /\ \A v \in Versions :
                 /\ F = Manifest(v) /\ d[Directory(v)] # Absent /\ d[Manifest(v)] \in {Absent, Torn}
                 /\ d[Calibration(v)] \notin {Absent, Torn} /\ x \in {Torn, d[Calibration(v)]}
                 => Lawful(d, F, x)
           /\ \A f \in Originals : F = Copy(f) /\ Stands(d, f[2]) /\ x \in {Torn, d[f]}
                                 => Lawful(d, F, x)
           /\ F = Lock /\ (x = Torn \/ LockSound(d, x)) => Lawful(d, F, x)
<1>1. F[1] \in {"metadata", "sidecar"} => Lawful(d, F, x)
  BY FileFacts DEF Lawful
<1>2. ASSUME NEW c \in Contents
      PROVE  /\ F = Raw(c) /\ x = c /\ SourceValid(SourceOf[c]) => Lawful(d, F, x)
             /\ F = Rows(c) /\ d[Raw(c)] = c => Lawful(d, F, x)
  BY FileFacts DEF Lawful
<1>3. ASSUME NEW v \in Versions
      PROVE  /\ F = Directory(v) /\ x # Absent => Lawful(d, F, x)
             /\ /\ F = Calibration(v) /\ d[Directory(v)] # Absent /\ d[Manifest(v)] = Absent
                /\ x = Torn \/ Sound(d, x)
                => Lawful(d, F, x)
             /\ /\ F = Manifest(v) /\ d[Directory(v)] # Absent /\ d[Manifest(v)] \in {Absent, Torn}
                /\ d[Calibration(v)] \notin {Absent, Torn} /\ x \in {Torn, d[Calibration(v)]}
                => Lawful(d, F, x)
  BY FileFacts DEF Lawful
<1>4. ASSUME NEW f \in Originals, F = Copy(f), Stands(d, f[2]), x \in {Torn, d[f]}
      PROVE  Lawful(d, F, x)
  BY <1>4, FileFacts DEF Lawful
<1>5. F = Lock /\ (x = Torn \/ LockSound(d, x)) => Lawful(d, F, x)
  BY FileFacts DEF Lawful
<1> QED
  BY <1>1, <1>2, <1>3, <1>4, <1>5

LEMMA OpeningIsLawful ==
    ASSUME Inv, NEW p \in Procs, Writing(p), Next1(p)[1] # "directory"
    PROVE  Lawful(disk, Next1(p), Torn)
<1> DEFINE F == Next1(p)
<1>1. CASE calls[p].op = "ingest"
  BY <1>1, IngestNext, FileFacts, LawfulKinds
<1>2. CASE calls[p].op = "normalize"
  BY <1>2, NormalizeNext, FileFacts, LawfulKinds
<1>3. CASE calls[p].op = "build"
  <2> DEFINE v == calls[p].version
  <2>1. v \in Versions /\ Sound(disk, calls[p].cites)
    BY <1>3, BuildNext
  <2>2. calls[p].cites \notin {Absent, Torn}
    BY <2>1, MarksAreNoContents DEF Sound
  <2>3. F # Directory(v)
    BY FileFacts
  <2> HIDE DEF F, v
  <2> QED
    BY <1>3, <2>1, <2>2, <2>3, BuildNext, LawfulKinds DEF F, v
<1>4. CASE calls[p].op = "lock"
  BY <1>4, LockNext, LawfulKinds
<1>5. CASE calls[p].op = "sync"
  BY <1>5, SyncNext, LawfulKinds
<1> QED
  BY <1>1, <1>2, <1>3, <1>4, <1>5, WritingFacts

LEMMA FillingIsLawful ==
    ASSUME Inv, NEW p \in Procs, Writing(p), calls[p].open
    PROVE  Lawful(disk, Next1(p), Value(p, Next1(p)))
<1> DEFINE F == Next1(p)
           x == Value(p, F)
<1>1. CASE calls[p].op = "ingest"
  <2>1. F[1] = "metadata"
    BY <1>1, IngestNext, FileFacts
  <2> QED
    BY <2>1, LawfulKinds
<1>2. CASE calls[p].op = "normalize"
  <2>1. CASE F[1] = "sidecar"
    BY <2>1, LawfulKinds
  <2>2. CASE F = Rows(calls[p].content)
    BY <1>2, <2>2, NormalizeNext, LawfulKinds
  <2> QED
    BY <1>2, <2>1, <2>2, NormalizeNext, FileFacts
<1>3. CASE calls[p].op = "build"
  <2> DEFINE v == calls[p].version
  <2>1. v \in Versions /\ Sound(disk, calls[p].cites)
    BY <1>3, BuildNext
  <2>2. calls[p].cites \notin {Absent, Torn}
    BY <2>1, MarksAreNoContents DEF Sound
  <2>3. CASE F = Calibration(v)
    <3>1. x = calls[p].cites
      BY <2>3, FileFacts DEF Value
    <3>2. disk[Directory(v)] # Absent /\ disk[Manifest(v)] = Absent
      BY <1>3, <2>3, BuildNext, FileFacts
    <3> QED
      BY <2>1, <2>3, <3>1, <3>2, LawfulKinds
  <2>4. CASE F = Manifest(v)
    <3>1. x = disk[Calibration(v)]
      BY <2>4, FileFacts DEF Value
    <3>2. /\ disk[Directory(v)] # Absent /\ disk[Manifest(v)] \in {Absent, Torn}
          /\ disk[Calibration(v)] = calls[p].cites
      BY <1>3, <2>4, BuildNext, FileFacts
    <3> QED
      BY <2>1, <2>2, <2>4, <3>1, <3>2, LawfulKinds
  <2> QED
    BY <1>3, <2>3, <2>4, BuildNext
<1>4. CASE calls[p].op = "lock"
  <2>1. F = Lock /\ LockSound(disk, calls[p].document)
    BY <1>4, LockNext
  <2>2. x = calls[p].document
    BY <2>1, FileFacts DEF Value
  <2> QED
    BY <2>1, <2>2, LawfulKinds
<1>5. CASE calls[p].op = "sync"
  <2>1. PICK f \in Originals : F = Copy(f) /\ Stands(disk, f[2])
    BY <1>5, SyncNext
  <2>2. x = disk[f]
    BY <2>1, FileFacts DEF Value
  <2> QED
    BY <2>1, <2>2, LawfulKinds
<1> QED
  BY <1>1, <1>2, <1>3, <1>4, <1>5, WritingFacts
-----------------------------------------------------------------------------
\* A command that writes neither a pack nor copies goes on.
LEMMA PlainAdvances ==
    ASSUME Inv, NEW p \in Procs, Writing(p), calls[p].op \in {"ingest", "normalize", "lock"},
           NEW d, Grows(disk, d), NEW r \in Command, SameCommand(calls[p], r),
           r.todo \in {calls[p].todo, Tail(calls[p].todo)}
    PROVE  /\ CallSound(d, r, temporary[p]) /\ r.op # "sync"
           /\ \A v \in Versions : ~Owns(r, v)
           /\ SyncOrdered(disk, r)
<1>1. r.op = calls[p].op
  BY DEF SameCommand
<1>2. CASE calls[p].op = "ingest"
  <2>1. IngestSound(calls[p], temporary[p]) /\ temporary[p] = "none"
    BY <1>2, WritingFacts, IngestNext DEF CallSound
  <2>2. IngestSound(r, temporary[p])
    BY <1>2, <2>1, IngestNext DEF IngestSound, SameCommand
  <2> QED
    BY <1>1, <1>2, <2>2 DEF CallSound, Owns, SyncOrdered
<1>3. CASE calls[p].op = "normalize"
  <2> DEFINE c == calls[p].content
  <2>1. NormalizeSound(disk, calls[p]) /\ c \in Contents /\ c # Absent /\ disk[Raw(c)] = c
    BY <1>3, WritingFacts, NormalizeNext, MarksAreNoContents DEF CallSound
  <2>2. d[Raw(c)] = c /\ r.content = c
    BY <1>3, <2>1 DEF Grows, SameCommand
  <2>3. Tail(calls[p].todo) \in {<<>>, <<Sidecar(c)>>}
    BY <1>3, NormalizeNext
  <2>4. NormalizeSound(d, r)
    BY <2>1, <2>2, <2>3 DEF NormalizeSound
  <2> QED
    BY <1>1, <1>3, <2>4 DEF CallSound, Owns, SyncOrdered
<1>4. CASE calls[p].op = "lock"
  <2>1. LockingSound(disk, calls[p]) /\ Tail(calls[p].todo) = <<>>
    BY <1>4, WritingFacts, LockNext DEF CallSound
  <2>2. LockingSound(d, r)
    BY <1>4, <2>1, SoundStays DEF LockingSound, SameCommand
  <2> QED
    BY <1>1, <1>4, <2>2 DEF CallSound, Owns, SyncOrdered
<1> QED
  BY <1>2, <1>3, <1>4

\* A sync goes on: what it has to copy stands.
LEMMA SyncStaysSound ==
    ASSUME Inv, NEW p \in Procs, Writing(p), calls[p].op = "sync",
           NEW d, Grows(disk, d), NEW r \in Command, SameCommand(calls[p], r),
           r.todo \in {calls[p].todo, Tail(calls[p].todo)}, NEW t
    PROVE  CallSound(d, r, t) /\ SyncSound(d, r) /\ r.op = "sync" /\ \A v \in Versions : ~Owns(r, v)
<1>1. SyncSound(disk, calls[p]) /\ calls[p].todo # <<>> /\ calls[p] \in Command
  BY WritingFacts DEF CallSound
<1>2. calls[p].todo \in Seq(Files)
  BY <1>1 DEF Command, Idle
<1>3. r.op = "sync" /\ r.expected = calls[p].expected
  BY DEF SameCommand
<1>4. \A i \in DOMAIN Tail(calls[p].todo) :
        i + 1 \in DOMAIN calls[p].todo /\ Tail(calls[p].todo)[i] = calls[p].todo[i + 1]
  BY <1>1, <1>2
<1>5. ASSUME NEW i \in DOMAIN r.todo
      PROVE  \E f \in Originals : r.todo[i] = Copy(f) /\ Stands(d, f[2])
  <2>1. PICK j \in DOMAIN calls[p].todo : r.todo[i] = calls[p].todo[j]
    BY <1>4
  <2> QED
    BY <1>1, <2>1, SoundStays, StoreFiles DEF SyncSound
<1>6. SyncSound(d, r)
  BY <1>1, <1>3, <1>5 DEF SyncSound
<1> QED
  BY <1>3, <1>6 DEF CallSound, Owns

LEMMA SkipInv == ASSUME Inv, NEW p \in Procs, Skip(p) PROVE Inv'
<1> DEFINE r == [calls[p] EXCEPT !.todo = Tail(@), !.open = FALSE]
           F == Next1(p)
<1>1. /\ Writing(p) /\ Skips(p, F) /\ disk' = disk /\ served' = served
      /\ temporary' = temporary /\ overlapped' = overlapped
      /\ calls' = [calls EXCEPT ![p] = r]
  <2>1. Done(p) = [calls EXCEPT ![p] = r]
    BY DEF Done, Inv, StoreTypes
  <2> QED
    BY <2>1 DEF Skip
<1>2. OthersKept(p)
  BY <1>1 DEF OthersKept, Inv, StoreTypes
<1>3. r \in Command /\ SameCommand(calls[p], r) /\ r.todo = Tail(calls[p].todo)
  BY <1>1, WritingFacts, Advanced
<1> HIDE DEF r
<1>4. Grows(disk, disk)
  BY DEF Grows
<1>5. CASE calls[p].op = "sync"
  <2>1. PICK f \in Originals : F = Copy(f) /\ Stands(disk, f[2])
    BY <1>1, <1>5, SyncNext
  <2>2. F[2] = f /\ F[1] = "copy"
    BY <2>1, FileFacts
  <2>3. disk[Copy(f)] = disk[f]
    BY <1>1, <2>1, <2>2 DEF Skips
  <2>4. ~overlapped => SyncOrdered(disk, r)
    <3>1. ~overlapped => SyncOrdered(disk, calls[p])
      BY DEF Inv, OneSync
    <3> QED
      BY <1>1, <1>3, <1>5, <2>1, <2>3, <3>1, WritingFacts, SyncAdvances
  <2>5. CallSound(disk, r, temporary'[p]) /\ \A v \in Versions : ~Owns(r, v)
    BY <1>1, <1>3, <1>4, <1>5, SyncStaysSound
  <2> QED
    BY <1>1, <1>2, <1>3, <1>5, <2>4, <2>5, QuietStep DEF Syncing
<1>6. CASE calls[p].op # "sync"
  <2>1. F[1] = "metadata"
    BY <1>1, <1>6 DEF Skips, Syncing
  <2>2. calls[p].op \in {"ingest", "normalize", "lock"}
    BY <1>1, <1>6, <2>1, WritingFacts, BuildNext, FileFacts
  <2>3. /\ CallSound(disk, r, temporary[p]) /\ r.op # "sync"
        /\ \A v \in Versions : ~Owns(r, v)
        /\ SyncOrdered(disk, r)
    BY <1>1, <1>3, <1>4, <2>2, PlainAdvances
  <2> QED
    BY <1>1, <1>2, <1>3, <2>3, QuietStep
<1> QED
  BY <1>5, <1>6

\* Steps that end a command.
LEMMA EndingInv ==
    ASSUME Inv, NEW p \in Procs, IngestFails(p) \/ Collide(p) \/ Crash(p)
    PROVE  Inv'
<1>1. OthersKept(p)
  BY DEF IngestFails, Collide, Crash, OthersKept, Inv, StoreTypes
<1>2. End(p) /\ disk' = disk /\ overlapped' = overlapped
  BY DEF IngestFails, Collide, Crash
<1> QED
  BY <1>1, <1>2, EndStep

LEMMA IngestNameInv == ASSUME Inv, NEW p \in Procs, IngestName(p) PROVE Inv'
<1> DEFINE c == calls[p].content
           r == [calls[p] EXCEPT !.todo = <<Metadata(c)>>]
<1>1. /\ calls[p].op = "ingest" /\ temporary[p] = "raw"
      /\ temporary' = [temporary EXCEPT ![p] = "none"]
      /\ disk' = [disk EXCEPT ![Raw(c)] = c]
      /\ served' = served /\ overlapped' = overlapped
      /\ calls' = [calls EXCEPT ![p] = r]
  BY DEF IngestName, Downloading, Inv, StoreTypes
<1>2. calls[p] \in Command /\ IngestSound(calls[p], temporary[p])
  BY <1>1 DEF Inv, StoreTypes, CallSound
<1>3. c \in Contents /\ SourceValid(SourceOf[c]) /\ Raw(c) \in Files /\ Metadata(c) \in Files
  <2>1. c \in Contents
    BY <1>1, <1>2 DEF Command, Idle
  <2> QED
    BY <1>2, <2>1, StoreFiles DEF IngestSound
<1>4. r \in Command /\ r.op = "ingest" /\ r.content = c /\ r.todo = <<Metadata(c)>>
  <2>1. <<Metadata(c)>> \in Seq(Files)
    BY <1>3
  <2> DEFINE Ingests == [op : {"ingest", "normalize"}, content : Contents, open : BOOLEAN,
                         todo : Seq(Files)]
  <2>2. calls[p] \in Ingests
    BY <1>1, <1>2 DEF Command, Idle
  <2> DEFINE todo == <<Metadata(c)>>
  <2> HIDE DEF todo
  <2>3. /\ [calls[p] EXCEPT !.todo = todo] \in Ingests
        /\ [calls[p] EXCEPT !.todo = todo].op = "ingest"
        /\ [calls[p] EXCEPT !.todo = todo].content = calls[p].content
        /\ [calls[p] EXCEPT !.todo = todo].todo = todo
    BY <1>1, <2>1, <2>2 DEF todo
  <2>4. Ingests \subseteq Command
    BY DEF Command
  <2> QED
    BY <2>3, <2>4 DEF todo
<1>5. OthersKept(p) /\ temporary'[p] = "none"
  BY <1>1 DEF OthersKept, Inv, StoreTypes
<1>6. Lawful(disk, Raw(c), c)
  BY <1>3, LawfulKinds
<1> HIDE DEF r, c
<1>7. CallSound(disk', r, temporary'[p])
  BY <1>3, <1>4, <1>5 DEF CallSound, IngestSound
<1>8. (\A v \in Versions : ~Owns(r, v)) /\ SyncOrdered(disk, r)
  BY <1>4 DEF Owns, SyncOrdered
<1>9. DOMAIN disk = Files /\ DiskSound(disk)
  BY DEF Inv, StoreTypes
<1>10. Written(disk, disk', Raw(c), c)
  BY <1>1, <1>3, <1>9, OneFileWritten
<1>11. Grows(disk, disk')
  BY <1>6, <1>9, <1>10, LawfulGrows
<1>12. \A f \in Originals : disk'[Copy(f)] = disk[Copy(f)]
  BY <1>10, FileFacts DEF Written
<1>13. ~overlapped' => OneSync'
  BY <1>1, <1>4, <1>8, <1>11, <1>12, SyncKept
<1>14. \A v \in Versions : Raw(c) \notin {Calibration(v), Manifest(v)}
  BY FileFacts
<1> QED
  BY <1>1, <1>3, <1>4, <1>5, <1>6, <1>7, <1>8, <1>13, <1>14, WriteStep

\* What is not a copy can be written while syncs are under way.
LEMMA StoreWrites ==
    ASSUME Inv, NEW p \in Procs, NEW F \in Files, NEW x, F[1] # "copy",
           disk' = [disk EXCEPT ![F] = x], Lawful(disk, F, x),
           NEW r \in Command, calls' = [calls EXCEPT ![p] = r], r.op # "sync",
           overlapped' = overlapped
    PROVE  Grows(disk, disk') /\ Written(disk, disk', F, x) /\ (~overlapped' => OneSync')
<1>1. DOMAIN disk = Files /\ DiskSound(disk)
  BY DEF Inv, StoreTypes
<1>2. Written(disk, disk', F, x)
  BY <1>1, OneFileWritten
<1>3. Grows(disk, disk')
  BY <1>1, <1>2, LawfulGrows
<1>4. \A f \in Originals : disk'[Copy(f)] = disk[Copy(f)]
  BY <1>2, FileFacts DEF Written
<1>5. SyncOrdered(disk, r)
  BY DEF SyncOrdered
<1> QED
  BY <1>2, <1>3, <1>4, <1>5, SyncKept

LEMMA MakeDirectoryInv == ASSUME Inv, NEW p \in Procs, MakeDirectory(p) PROVE Inv'
<1> DEFINE r == [calls[p] EXCEPT !.todo = Tail(@), !.open = FALSE]
           F == Next1(p)
           v == calls[p].version
<1>1. /\ Writing(p) /\ F[1] = "directory" /\ disk[F] = Absent
      /\ disk' = [disk EXCEPT ![F] = "made"] /\ served' = served
      /\ temporary' = temporary /\ overlapped' = overlapped
      /\ calls' = [calls EXCEPT ![p] = r]
  <2>1. Done(p) = [calls EXCEPT ![p] = r]
    BY DEF Done, Inv, StoreTypes
  <2> QED
    BY <2>1 DEF MakeDirectory, Collides
<1>2. OthersKept(p)
  BY <1>1 DEF OthersKept, Inv, StoreTypes
<1>3. r \in Command /\ SameCommand(calls[p], r) /\ r.todo = Tail(calls[p].todo) /\ ~r.open
  BY <1>1, WritingFacts, Advanced
<1> HIDE DEF r, v, F
<1>4. calls[p].op = "build"
  BY <1>1, WritingFacts, IngestNext, NormalizeNext, LockNext, SyncNext, FileFacts DEF F
<1>5. /\ v \in Versions /\ Sound(disk, calls[p].cites) /\ F = Directory(v)
      /\ r.todo = <<Calibration(v), Manifest(v)>>
  BY <1>1, <1>3, <1>4, BuildNext, FileFacts DEF F, v
<1>6. r.op = "build" /\ r.version = v /\ r.cites = calls[p].cites
  BY <1>3, <1>4 DEF SameCommand, v
<1>7. disk[Calibration(v)] = Absent /\ disk[Manifest(v)] = Absent
  BY <1>1, <1>5 DEF Inv, DiskSound, PackSound
<1>8. Lawful(disk, F, "made") /\ F \in Files
  BY <1>1, <1>5, LawfulKinds, MarksAreNoContents, StoreFiles
<1>9. Grows(disk, disk') /\ Written(disk, disk', F, "made") /\ (~overlapped' => OneSync')
  BY <1>1, <1>3, <1>6, <1>8, StoreWrites
<1>10. /\ disk'[Calibration(v)] = Absent /\ disk'[Manifest(v)] = Absent
       /\ disk'[Directory(v)] # Absent
  <2>1. F # Calibration(v) /\ F # Manifest(v)
    BY <1>1, FileFacts
  <2> QED
    BY <1>5, <1>7, <1>9, <2>1, StoreFiles, MarksAreNoContents DEF Written
<1>11. BuildSound(disk', r)
  <2>1. Sound(disk', r.cites)
    BY <1>5, <1>6, <1>9, SoundStays
  <2> QED
    BY <1>5, <1>6, <1>10, <2>1 DEF BuildSound
<1>12. CallSound(disk', r, temporary'[p])
  BY <1>6, <1>11 DEF CallSound
<1>13. \A u \in Versions : Owns(r, u) => disk[Directory(u)] = Absent
  BY <1>1, <1>5, <1>6 DEF Owns
<1>14. \A u \in Versions : F \notin {Calibration(u), Manifest(u)}
  BY <1>1, FileFacts
<1> QED
  BY <1>1, <1>2, <1>3, <1>8, <1>9, <1>12, <1>13, <1>14, WriteStep

\* A build opens one of its two files, or fills it and goes on to the next.
LEMMA BuildWrites ==
    ASSUME Inv, NEW p \in Procs, Writing(p), calls[p].op = "build",
           Next1(p)[1] # "directory", NEW x,
           Grows(disk, disk'), Written(disk, disk', Next1(p), x),
           NEW r \in Command, SameCommand(calls[p], r),
           \/ r.todo = calls[p].todo /\ x = Torn
           \/ r.todo = Tail(calls[p].todo) /\ x = Value(p, Next1(p))
    PROVE  /\ CallSound(disk', r, temporary[p])
           /\ \A u \in Versions : Owns(r, u) => Owns(calls[p], u)
           /\ \A u \in Versions : Next1(p) \in {Calibration(u), Manifest(u)} => Owns(calls[p], u)
<1> DEFINE F == Next1(p)
           v == calls[p].version
           C == Calibration(v)
           M == Manifest(v)
<1>1. v \in Versions /\ Sound(disk', calls[p].cites)
  BY BuildNext, SoundStays
<1>2. r.op = "build" /\ r.version = v /\ r.cites = calls[p].cites
  BY DEF SameCommand
<1>3. C # M /\ C \in Originals /\ M \in Originals /\ C[1] = "calibration" /\ M[1] = "manifest"
      /\ M[2] = v /\ C[2] = v
  BY <1>1, FileFacts, StoreFiles
<1>4. \/ /\ F = C /\ calls[p].todo = <<C, M>> /\ Tail(calls[p].todo) = <<M>>
         /\ disk[Directory(v)] # Absent /\ disk[M] = Absent
      \/ /\ F = M /\ calls[p].todo = <<M>> /\ Tail(calls[p].todo) = <<>>
         /\ disk[Directory(v)] # Absent /\ disk[C] = calls[p].cites
  BY BuildNext, FileFacts
<1>5. Owns(calls[p], v)
  BY <1>4 DEF Owns
<1>6. disk'[Directory(v)] # Absent
  BY <1>1, <1>4 DEF Grows
<1>7. /\ disk'[C] = IF F = C THEN x ELSE disk[C]
      /\ disk'[M] = IF F = M THEN x ELSE disk[M]
  BY <1>3 DEF Written
<1>8. F = C => Value(p, F) = calls[p].cites
  BY <1>3 DEF Value
<1> HIDE DEF F, v
<1>9. BuildSound(disk', r)
  <2>1. CASE F = C
    <3>1. calls[p].todo = <<C, M>> /\ Tail(calls[p].todo) = <<M>> /\ disk'[M] = Absent /\ disk'[C] = x
      BY <1>3, <1>4, <1>7, <2>1
    <3>2. CASE r.todo = calls[p].todo /\ x = Torn
      BY <1>1, <1>2, <1>6, <3>1, <3>2 DEF BuildSound
    <3>3. CASE r.todo = Tail(calls[p].todo) /\ x = Value(p, F)
      BY <1>1, <1>2, <1>6, <1>8, <2>1, <3>1, <3>3 DEF BuildSound
    <3> QED
      BY <3>2, <3>3 DEF F
  <2>2. CASE F = M
    <3>1. /\ calls[p].todo = <<M>> /\ Tail(calls[p].todo) = <<>>
          /\ disk'[M] = x /\ disk'[C] = calls[p].cites
      BY <1>3, <1>4, <1>7, <2>2
    <3>2. CASE r.todo = calls[p].todo /\ x = Torn
      BY <1>1, <1>2, <1>6, <3>1, <3>2 DEF BuildSound
    <3>3. CASE r.todo = Tail(calls[p].todo)
      BY <1>1, <1>2, <3>1, <3>3 DEF BuildSound
    <3> QED
      BY <3>2, <3>3
  <2> QED
    BY <1>4, <2>1, <2>2
<1>10. CallSound(disk', r, temporary[p])
  BY <1>2, <1>9 DEF CallSound
<1>11. \A u \in Versions : Owns(r, u) => Owns(calls[p], u)
  BY <1>2, <1>5 DEF Owns
<1>12. \A u \in Versions : F \in {Calibration(u), Manifest(u)} => u = v
  <2> SUFFICES ASSUME NEW u \in Versions, F \in {Calibration(u), Manifest(u)} PROVE u = v
    OBVIOUS
  <2>1. Calibration(u)[2] = u /\ Manifest(u)[2] = u
    BY FileFacts
  <2>2. F[2] = v
    BY <1>3, <1>4
  <2> QED
    BY <2>1, <2>2
<1> QED
  BY <1>5, <1>10, <1>11, <1>12 DEF F

\* A command other than a sync opens a file, or fills it.
LEMMA CommandWrites ==
    ASSUME Inv, NEW p \in Procs, Writing(p), ~Syncing(p), Next1(p)[1] # "directory",
           NEW x, disk' = [disk EXCEPT ![Next1(p)] = x], Lawful(disk, Next1(p), x),
           NEW r \in Command, SameCommand(calls[p], r), calls' = [calls EXCEPT ![p] = r],
           \/ r.todo = calls[p].todo /\ x = Torn
           \/ r.todo = Tail(calls[p].todo) /\ x = Value(p, Next1(p)),
           served' = served, temporary' = temporary, overlapped' = overlapped
    PROVE  Inv'
<1> DEFINE F == Next1(p)
<1>1. OthersKept(p)
  BY DEF OthersKept, Inv, StoreTypes
<1>2. F \in Files /\ calls[p].op # "sync" /\ r.op = calls[p].op
      /\ calls[p].op \in {"ingest", "normalize", "build", "lock"}
  BY WritingFacts DEF Syncing, SameCommand
<1>3. F[1] # "copy"
  BY <1>2, IngestNext, NormalizeNext, BuildNext, LockNext, FileFacts
<1> HIDE DEF F
<1>4. /\ Grows(disk, disk') /\ Written(disk, disk', F, x)
      /\ ~overlapped' => OneSync'
  BY <1>2, <1>3, StoreWrites DEF F
<1>5. CASE calls[p].op = "build"
  <2>1. /\ CallSound(disk', r, temporary'[p])
        /\ \A u \in Versions : Owns(r, u) => Owns(calls[p], u)
        /\ \A u \in Versions : F \in {Calibration(u), Manifest(u)} => Owns(calls[p], u)
    BY <1>4, <1>5, BuildWrites DEF F
  <2> QED
    BY <1>1, <1>2, <1>4, <2>1, WriteStep DEF F
<1>6. CASE calls[p].op \in {"ingest", "normalize", "lock"}
  <2>1. CallSound(disk', r, temporary'[p]) /\ \A v \in Versions : ~Owns(r, v)
    BY <1>4, <1>6, PlainAdvances
  <2>2. \A v \in Versions : F \notin {Calibration(v), Manifest(v)}
    BY <1>6, IngestNext, NormalizeNext, LockNext, FileFacts DEF F
  <2> QED
    BY <1>1, <1>2, <1>4, <2>1, <2>2, WriteStep DEF F
<1> QED
  BY <1>2, <1>5, <1>6

\* A sync opens a copy that differs, or fills it.
LEMMA SyncWritesInv ==
    ASSUME Inv, NEW p \in Procs, Writing(p), Syncing(p), NEW f \in Originals,
           Next1(p) = Copy(f), NEW x,
           disk' = [disk EXCEPT ![Copy(f)] = x],
           x = disk[f] \/ (x = Torn /\ disk[Copy(f)] # disk[f]),
           Lawful(disk, Copy(f), x),
           NEW r \in Command, SameCommand(calls[p], r), r.todo = calls[p].todo,
           calls' = [calls EXCEPT ![p] = r],
           served' = served, temporary' = temporary, overlapped' = overlapped
    PROVE  Inv'
<1>1. OthersKept(p)
  BY DEF OthersKept, Inv, StoreTypes
<1>2. /\ calls[p].op = "sync" /\ calls[p].todo # <<>> /\ Head(calls[p].todo) = Copy(f)
      /\ Copy(f) \in Files
  BY WritingFacts DEF Syncing
<1>3. DOMAIN disk = Files /\ DiskSound(disk)
  BY DEF Inv, StoreTypes
<1>4. Written(disk, disk', Copy(f), x)
  BY <1>2, <1>3, OneFileWritten
<1>5. Grows(disk, disk')
  BY <1>3, <1>4, LawfulGrows
<1>6. CallSound(disk', r, temporary'[p]) /\ r.op = "sync" /\ \A v \in Versions : ~Owns(r, v)
  BY <1>2, <1>5, SyncStaysSound
<1>7. ~overlapped' => OneSync'
  BY <1>2, <1>6, SyncWrites
<1>8. \A v \in Versions : Copy(f) \notin {Calibration(v), Manifest(v)}
  BY FileFacts
<1> QED
  BY <1>1, <1>2, <1>6, <1>7, <1>8, WriteStep

LEMMA OpenInv == ASSUME Inv, NEW p \in Procs, Open(p) PROVE Inv'
<1> DEFINE r == [calls[p] EXCEPT !.open = TRUE]
<1>1. /\ Writing(p) /\ Next1(p)[1] # "directory" /\ ~Skips(p, Next1(p))
      /\ disk' = [disk EXCEPT ![Next1(p)] = Torn] /\ served' = served
      /\ temporary' = temporary /\ overlapped' = overlapped
      /\ calls' = [calls EXCEPT ![p] = r]
  BY DEF Open, Inv, StoreTypes
<1>2. r \in Command /\ SameCommand(calls[p], r) /\ r.todo = calls[p].todo
  BY <1>1, WritingFacts, Opened
<1> HIDE DEF r
<1>3. Lawful(disk, Next1(p), Torn)
  BY <1>1, OpeningIsLawful
<1>4. CASE Syncing(p)
  <2>1. PICK f \in Originals : Next1(p) = Copy(f) /\ Stands(disk, f[2])
    BY <1>1, <1>4, SyncNext DEF Syncing
  <2>2. disk[Copy(f)] # disk[f]
    BY <1>1, <1>4, <2>1, FileFacts DEF Skips
  <2> QED
    BY <1>1, <1>2, <1>3, <1>4, <2>1, <2>2, SyncWritesInv
<1>5. CASE ~Syncing(p)
  BY <1>1, <1>2, <1>3, <1>5, CommandWrites
<1> QED
  BY <1>4, <1>5

LEMMA FillInv == ASSUME Inv, NEW p \in Procs, Fill(p) PROVE Inv'
<1> DEFINE x == Value(p, Next1(p))
<1>1. /\ Writing(p) /\ calls[p].open
      /\ disk' = [disk EXCEPT ![Next1(p)] = x] /\ served' = served
      /\ temporary' = temporary /\ overlapped' = overlapped
  BY DEF Fill
<1>2. Lawful(disk, Next1(p), x)
  BY <1>1, FillingIsLawful
<1>3. CASE Syncing(p)
  <2> DEFINE r == [calls[p] EXCEPT !.filled = TRUE]
  <2>1. calls' = [calls EXCEPT ![p] = r]
    BY <1>3 DEF Fill, Inv, StoreTypes
  <2>2. r \in Command /\ SameCommand(calls[p], r) /\ r.todo = calls[p].todo
    BY <1>1, <1>3, WritingFacts, Filled DEF Syncing
  <2> HIDE DEF r
  <2>3. PICK f \in Originals : Next1(p) = Copy(f) /\ Stands(disk, f[2])
    BY <1>1, <1>3, SyncNext DEF Syncing
  <2>4. x = disk[f]
    BY <2>3, FileFacts DEF Value
  <2> QED
    BY <1>1, <1>2, <1>3, <2>1, <2>2, <2>3, <2>4, SyncWritesInv
<1>4. CASE ~Syncing(p)
  <2> DEFINE r == [calls[p] EXCEPT !.todo = Tail(@), !.open = FALSE]
  <2>1. calls' = [calls EXCEPT ![p] = r]
    <3>1. Done(p) = [calls EXCEPT ![p] = r]
      BY DEF Done, Inv, StoreTypes
    <3> QED
      BY <1>4, <3>1 DEF Fill
  <2>2. r \in Command /\ SameCommand(calls[p], r) /\ r.todo = Tail(calls[p].todo)
    BY <1>1, WritingFacts, Advanced
  <2> HIDE DEF r
  <2>3. Next1(p)[1] # "directory"
    BY <1>1, <1>4, WritingFacts, IngestNext, NormalizeNext, BuildNext, LockNext, FileFacts DEF Syncing
  <2> QED
    BY <1>1, <1>2, <1>4, <2>1, <2>2, <2>3, CommandWrites
<1> QED
  BY <1>3, <1>4

LEMMA CompareInv == ASSUME Inv, NEW p \in Procs, Compare(p) PROVE Inv'
<1>1. /\ Writing(p) /\ calls[p].op = "sync" /\ disk' = disk /\ served' = served
      /\ temporary' = temporary /\ overlapped' = overlapped
  BY DEF Compare, Syncing
<1>2. OthersKept(p)
  BY <1>1 DEF OthersKept, Inv, StoreTypes
<1>3. PICK f \in Originals : Next1(p) = Copy(f) /\ Stands(disk, f[2])
  BY <1>1, SyncNext
<1>4. Next1(p)[2] = f
  BY <1>3, FileFacts
<1>5. CASE disk[Next1(p)] = disk[Next1(p)[2]]
  <2> DEFINE c == [calls[p] EXCEPT !.todo = Tail(@), !.open = FALSE]
             r == [c EXCEPT !.filled = FALSE]
  <2>1. calls' = [calls EXCEPT ![p] = r]
    <3>1. Done(p) = [calls EXCEPT ![p] = c]
      BY DEF Done, Inv, StoreTypes
    <3>2. [[calls EXCEPT ![p] = c] EXCEPT ![p].filled = FALSE] = [calls EXCEPT ![p] = r]
      <4>1. DOMAIN calls = Procs
        BY DEF Inv, StoreTypes
      <4> HIDE DEF c
      <4> QED
        BY <4>1
    <3> QED
      BY <1>5, <3>1, <3>2 DEF Compare
  <2>2. c \in Command /\ SameCommand(calls[p], c) /\ c.todo = Tail(calls[p].todo)
    BY <1>1, WritingFacts, Advanced
  <2>3. c.op = "sync"
    BY <1>1, <2>2 DEF SameCommand
  <2> HIDE DEF c
  <2>4. r \in Command /\ SameCommand(c, r) /\ r.todo = c.todo
    BY <2>2, <2>3, Unfilled
  <2> HIDE DEF r
  <2>5. SameCommand(calls[p], r) /\ r.todo = Tail(calls[p].todo)
    BY <1>1, <2>2, <2>4 DEF SameCommand
  <2>6. Grows(disk, disk)
    BY DEF Grows
  <2>7. CallSound(disk, r, temporary'[p]) /\ r.op = "sync" /\ \A v \in Versions : ~Owns(r, v)
    BY <1>1, <2>4, <2>5, <2>6, SyncStaysSound
  <2>8. ~overlapped => SyncOrdered(disk, r)
    <3>1. ~overlapped => SyncOrdered(disk, calls[p])
      BY DEF Inv, OneSync
    <3>2. disk[Copy(f)] = disk[f]
      BY <1>3, <1>4, <1>5
    <3> QED
      BY <1>1, <1>3, <2>4, <2>5, <3>1, <3>2, WritingFacts, SyncAdvances
  <2> QED
    BY <1>1, <1>2, <2>1, <2>4, <2>7, <2>8, QuietStep DEF Syncing
<1>6. CASE disk[Next1(p)] # disk[Next1(p)[2]]
  <2>1. End(p)
    BY <1>6 DEF Compare, End
  <2> QED
    BY <1>1, <1>2, <2>1, EndStep
<1> QED
  BY <1>5, <1>6

\* A sync that returns has pruned copies, and of no pack the calibration file alone.
LEMMA ReturnInv == ASSUME Inv, NEW p \in Procs, Return(p) PROVE Inv'
<1> DEFINE P == Pruned(p)
<1>1. /\ \A f \in Files : disk'[f] = IF f \in P THEN Absent ELSE disk[f]
      /\ DOMAIN disk' = Files
      /\ temporary' = IF Syncing(p) THEN Moved ELSE temporary
      /\ calls' = [calls EXCEPT ![p] = Idle]
      /\ served' = served /\ overlapped' = overlapped
  BY DEF Return, End
<1>2. OthersKept(p)
  BY <1>1 DEF OthersKept, Moved, Inv, StoreTypes
<1>3. \A f \in P : f[1] = "copy"
  BY FileFacts DEF Pruned
<1> HIDE DEF P
<1>4. /\ \A c \in Contents : disk'[Raw(c)] = disk[Raw(c)] /\ disk'[Rows(c)] = disk[Rows(c)]
      /\ \A v \in Versions : disk'[Directory(v)] = disk[Directory(v)]
      /\ \A f \in Originals : disk'[f] = disk[f]
      /\ disk'[Lock] = disk[Lock]
  <2>1. \A f \in Files : f[1] # "copy" => disk'[f] = disk[f]
    BY <1>1, <1>3
  <2> QED
    BY <2>1, FileFacts, StoreFiles
<1>5. \A f \in Originals : disk'[Copy(f)] \in {Absent, disk[Copy(f)]}
  BY <1>1, StoreFiles
<1>6. Grows(disk, disk')
  BY <1>4, StoreFiles DEF Grows
<1>7. DiskSound(disk')
  <2>1. DiskSound(disk)
    BY DEF Inv
  <2>2. ASSUME NEW c \in Contents PROVE RawSound(disk', c)
    BY <1>4, <2>1 DEF DiskSound, RawSound
  <2>3. ASSUME NEW v \in Versions PROVE PackSound(disk', v)
    BY <1>4, <1>6, <2>1, StoreFiles, SoundStays DEF DiskSound, PackSound
  <2>4. ASSUME NEW f \in Originals PROVE CopySound(disk', f)
    BY <1>4, <1>5, <1>6, <2>1, StoreFiles, SoundStays DEF DiskSound, CopySound
  <2>5. disk'[Lock] = Torn \/ LockSound(disk', disk'[Lock])
    BY <1>4, <1>6, <2>1, SoundStays DEF DiskSound
  <2> QED
    BY <2>2, <2>3, <2>4, <2>5 DEF DiskSound
<1>8. /\ Idle \in Command /\ CallSound(disk', Idle, temporary'[p])
      /\ \A v \in Versions : ~Owns(Idle, v)
      /\ SyncOrdered(disk, Idle) /\ SyncOrdered(disk', Idle) /\ Idle.op # "sync"
  BY DEF Idle, Command, CallSound, Owns, SyncOrdered
<1>9. ~overlapped' => OneSync'
  <2>1. CASE ~Syncing(p)
    <3>1. P = {}
      BY <2>1 DEF P, Pruned
    <3>2. \A f \in Originals : disk'[Copy(f)] = disk[Copy(f)]
      BY <1>1, <3>1, StoreFiles
    <3> QED
      BY <1>1, <1>6, <1>8, <3>2, SyncKept
  <2>2. CASE Syncing(p)
    <3> SUFFICES ASSUME ~overlapped PROVE OneSync'
      BY <1>1
    <3>1. OneSync
      BY DEF Inv
    <3>2. \A q \in Procs : calls'[q].op # "sync"
      BY <1>1, <1>8, <2>2, <3>1 DEF OneSync, Syncing, Inv, StoreTypes
    <3>3. ASSUME NEW v \in Versions PROVE CopyOrdered(disk', v)
      <4> DEFINE C == Calibration(v)
                 M == Manifest(v)
      <4>1. C \in Originals /\ M \in Originals /\ Copy(C) \in Files /\ Copy(M) \in Files
        BY StoreFiles
      <4> SUFFICES ASSUME disk'[Copy(M)] # Absent PROVE disk'[Copy(C)] = disk'[C]
        BY DEF CopyOrdered
      <4>2. Copy(M) \notin P /\ disk[Copy(M)] # Absent
        BY <1>1, <4>1
      <4>3. disk[Copy(C)] = disk[C]
        BY <3>1, <4>2 DEF OneSync, CopyOrdered
      <4>4. Copy(C) \notin P
        <5> SUFFICES ASSUME Copy(C) \in P PROVE FALSE
          OBVIOUS
        <5>1. PICK f \in Originals \ calls[p].expected : Copy(C) = Copy(f) /\ calls[p].prune
          BY DEF P, Pruned
        <5>2. Copy(C)[2] = C /\ Copy(f)[2] = f
          BY FileFacts
        <5>3. C \notin calls[p].expected
          BY <5>1, <5>2
        <5>4. SyncSound(disk, calls[p])
          BY <2>2 DEF Inv, CallSound, Syncing
        <5>5. M \notin calls[p].expected
          BY <5>3, <5>4 DEF SyncSound
        <5> QED
          BY <2>2, <4>1, <4>2, <5>1, <5>5 DEF P, Pruned
      <4> QED
        BY <1>1, <1>4, <4>1, <4>3, <4>4
    <3>4. (\A q, r \in Procs : Syncing(q) /\ Syncing(r) => q = r)'
      BY <3>2 DEF Syncing
    <3>5. \A q \in Procs : SyncOrdered(disk', calls'[q])
      BY <3>2 DEF SyncOrdered
    <3>6. (\A q \in Procs : SyncOrdered(disk, calls[q]))'
      BY <3>5
    <3>7. (\A v \in Versions : CopyOrdered(disk, v))'
      BY <3>3
    <3> QED
      BY <3>4, <3>6, <3>7 DEF OneSync
  <2> QED
    BY <2>1, <2>2
<1>10. \A v \in Versions : \A q \in Procs \ {p} :
         Owns(calls[q], v) => /\ ~Owns(Idle, v)
                              /\ disk'[Manifest(v)] = disk[Manifest(v)]
                              /\ disk'[Calibration(v)] = disk[Calibration(v)]
  BY <1>4, <1>8, StoreFiles
<1>11. overlapped' \in BOOLEAN
  BY <1>1 DEF Inv, StoreTypes
<1> QED
  BY <1>1, <1>2, <1>6, <1>7, <1>8, <1>9, <1>10, <1>11, ProcessStep

\* What the publishers serve is in no command that has begun.
LEMMA PublishInv ==
    ASSUME Inv, UNCHANGED <<disk, temporary, calls, begun, overlapped>>,
           served' = served \/ \E s \in Sources, c \in Contents : Publish(s, c)
    PROVE  Inv'
<1>1. /\ served' \in [Sources -> Contents]
      /\ \A s \in Sources : SourceOf[served'[s]] = s
  BY DEF Inv, StoreTypes, Publish
<1>2. StoreTypes'
  BY <1>1 DEF Inv, StoreTypes
<1>3. OneSync => OneSync'
  BY DEF OneSync, Syncing
<1> QED
  BY <1>2, <1>3 DEF Inv, OneOwner

\* Inv is inductive.
THEOREM InvHolds == Spec => []Inv
<1>1. Init => Inv
  <2> SUFFICES ASSUME Init PROVE Inv
    OBVIOUS
  <2> DEFINE empty == [v \in Versions |-> NoPack]
  <2>1. \A f \in Files : disk[f] = IF f = Lock THEN empty ELSE Absent
    BY DEF Init
  <2>2. /\ \A c \in Contents : disk[Raw(c)] = Absent /\ disk[Rows(c)] = Absent
        /\ \A v \in Versions : /\ disk[Calibration(v)] = Absent /\ disk[Manifest(v)] = Absent
                               /\ disk[Directory(v)] = Absent
        /\ \A f \in Originals : disk[Copy(f)] = Absent
        /\ disk[Lock] = empty
    <3>1. \A f \in Files : f[1] # "lock" => disk[f] = Absent
      BY <2>1, FileFacts
    <3> QED
      BY <2>1, <3>1, FileFacts, StoreFiles
  <2> HIDE DEF empty
  <2>3. LockSound(disk, empty)
    BY DEF empty, LockSound
  <2>4. DiskSound(disk)
    <3>1. \A c \in Contents : RawSound(disk, c)
      BY <2>2, MarksAreNoContents DEF RawSound
    <3>2. \A v \in Versions : PackSound(disk, v)
      BY <2>2 DEF PackSound
    <3>3. \A f \in Originals : CopySound(disk, f)
      BY <2>2 DEF CopySound
    <3> QED
      BY <2>2, <2>3, <3>1, <3>2, <3>3 DEF DiskSound
  <2>5. \A p \in Procs : calls[p] = Idle /\ calls[p].op = "idle"
    BY DEF Init, Idle
  <2>6. StoreTypes
    <3>1. calls \in [Procs -> Command]
      BY DEF Init, Command
    <3>2. DOMAIN disk = Files /\ DOMAIN temporary = Procs /\ overlapped \in BOOLEAN
      BY DEF Init
    <3> QED
      BY <3>1, <3>2 DEF Init, StoreTypes
  <2>7. \A p \in Procs : CallSound(disk, calls[p], temporary[p])
    BY <2>5 DEF CallSound
  <2>8. OneOwner
    BY <2>5 DEF OneOwner, Owns
  <2>9. OneSync
    <3>1. \A p \in Procs : SyncOrdered(disk, calls[p]) /\ ~Syncing(p)
      BY <2>5 DEF Syncing, SyncOrdered
    <3>2. \A v \in Versions : CopyOrdered(disk, v)
      BY <2>2, StoreFiles DEF CopyOrdered
    <3> QED
      BY <3>1, <3>2 DEF OneSync
  <2> QED
    BY <2>4, <2>6, <2>7, <2>8, <2>9 DEF Inv
<1>2. Inv /\ [Next]_vars => Inv'
  <2> SUFFICES ASSUME Inv, [Next]_vars PROVE Inv'
    OBVIOUS
  <2>1. ASSUME NEW p \in Procs, Refused(p) PROVE Inv'
    BY <2>1, RefusedInv
  <2>2. ASSUME NEW p \in Procs, NEW s \in Sources, IngestBegin(p, s) PROVE Inv'
    BY <2>2, IngestBeginInv
  <2>3. ASSUME NEW p \in Procs, NEW s \in Sources, Normalize(p, s) PROVE Inv'
    BY <2>3, NormalizeInv
  <2>4. ASSUME NEW p \in Procs, IngestName(p) PROVE Inv'
    BY <2>4, IngestNameInv
  <2>5. ASSUME NEW p \in Procs, IngestFails(p) \/ Collide(p) \/ Crash(p) PROVE Inv'
    BY <2>5, EndingInv
  <2>6. ASSUME NEW p \in Procs, NEW v \in Versions, NEW c \in Contents, NEW w \in Windows,
               BuildBegin(p, v, c, w)
        PROVE  Inv'
    BY <2>6, BuildBeginInv
  <2>7. ASSUME NEW p \in Procs, NEW v \in Versions, LockBegin(p, v) PROVE Inv'
    BY <2>7, LockBeginInv
  <2>8. ASSUME NEW p \in Procs, NEW prune \in BOOLEAN, SyncBegin(p, prune) PROVE Inv'
    BY <2>8, SyncBeginInv
  <2>9. ASSUME NEW p \in Procs, Skip(p) PROVE Inv'
    BY <2>9, SkipInv
  <2>10. ASSUME NEW p \in Procs, MakeDirectory(p) PROVE Inv'
    BY <2>10, MakeDirectoryInv
  <2>11. ASSUME NEW p \in Procs, Open(p) PROVE Inv'
    BY <2>11, OpenInv
  <2>12. ASSUME NEW p \in Procs, Fill(p) PROVE Inv'
    BY <2>12, FillInv
  <2>13. ASSUME NEW p \in Procs, Compare(p) PROVE Inv'
    BY <2>13, CompareInv
  <2>14. ASSUME NEW p \in Procs, Return(p) PROVE Inv'
    BY <2>14, ReturnInv
  <2>15. ASSUME NEW s \in Sources, NEW c \in Contents, Publish(s, c) PROVE Inv'
    <3>1. UNCHANGED <<disk, temporary, calls, begun, overlapped>>
      BY <2>15 DEF Publish
    <3> QED
      BY <2>15, <3>1, PublishInv
  <2>16. CASE UNCHANGED vars
    BY <2>16, PublishInv DEF vars
  <2> QED
    BY <2>1, <2>2, <2>3, <2>4, <2>5, <2>6, <2>7, <2>8, <2>9, <2>10, <2>11, <2>12, <2>13,
       <2>14, <2>15, <2>16 DEF Next
<1> QED
  BY <1>1, <1>2, PTL DEF Spec

-----------------------------------------------------------------------------
\* A table without errors has a row of every metric for every business day
\* between two of its rows.
LEMMA CleanRows ==
    ASSUME NEW rows, RowErrors(rows) = {},
           NEW i \in DOMAIN rows, NEW j \in DOMAIN rows, NEW l \in DOMAIN rows,
           NEW d \in Days, rows[i].date <= d, d <= rows[j].date, Calendar[d] = "business"
    PROVE  \E k \in DOMAIN rows : rows[k].date = d /\ rows[k].metric = rows[l].metric
<1> DEFINE all     == {rows[x] : x \in DOMAIN rows}
           metrics == {r.metric : r \in all}
           on(m)   == {r.date : r \in {q \in all : q.metric = m}}
           dates   == {r.date : r \in all}
           span    == {y \in Days : (\E a \in dates : a <= y) /\ (\E b \in dates : y <= b)}
           scanned == {y \in span : \A e \in span : e <= y => Calendar[e] # "unknown"}
           gap     == \E m \in metrics, y \in scanned : Calendar[y] = "business" /\ y \notin on(m)
<1>1. scanned = span /\ ~gap
  <2> DEFINE same(x, y) == /\ x < y
                           /\ rows[x].date = rows[y].date /\ rows[x].metric = rows[y].metric
             range == \E r \in all : r.unit = "percent" /\ r.value \notin RateMin..RateMax
             differing == \E x, y \in DOMAIN rows : same(x, y) /\ rows[x].value # rows[y].value
             uneven == \E m, n \in metrics : on(m) # on(n)
             unknown == scanned # span
             fault == [range |-> range, differing |-> differing, uneven |-> uneven,
                       unknown |-> unknown, gap |-> gap]
  <2>1. RowErrors(rows) = {name \in DOMAIN fault : fault[name]}
    BY DEF RowErrors
  <2>2. "gap" \in DOMAIN fault /\ "unknown" \in DOMAIN fault
    OBVIOUS
  <2>3. fault["gap"] = gap /\ fault["unknown"] = unknown
    OBVIOUS
  <2> HIDE DEF fault
  <2>4. ~fault["gap"] /\ ~fault["unknown"]
    BY <2>1, <2>2
  <2> HIDE DEF gap, unknown
  <2>5. ~gap /\ ~unknown
    BY <2>3, <2>4, Zenon
  <2> QED
    BY <2>5 DEF unknown
<1>2. d \in scanned
  <2>1. rows[i].date \in dates /\ rows[j].date \in dates
    OBVIOUS
  <2>2. d \in span
    BY <2>1
  <2> QED
    BY <1>1, <2>2
<1>3. rows[l].metric \in metrics
  OBVIOUS
<1>4. d \in on(rows[l].metric)
  BY <1>1, <1>2, <1>3
<1> QED
  BY <1>4

LEMMA LoadsIsSound ==
    ASSUME Inv, NEW v \in Versions, Loads(v)
    PROVE  /\ Stands(disk, v) /\ disk[Calibration(v)] = disk[Manifest(v)]
           /\ Sound(disk, disk[Calibration(v)])
<1>1. disk[Manifest(v)] \in Citations /\ disk[Calibration(v)] = disk[Manifest(v)]
  BY DEF Loads, LoadsAs
<1>2. Stands(disk, v)
  BY <1>1, MarksAreNoContents DEF Stands
<1> QED
  BY <1>1, <1>2, StandingIsSound DEF Inv

\* A manifest that stands is of a pack that loads: its source is catalogued,
\* and in a class that the loader admits.
LEMMA StandingLoads ==
    ASSUME Inv, NEW v \in Versions, Stands(disk, v)
    PROVE  Loads(v)
<1>1. disk[Manifest(v)] = disk[Calibration(v)] /\ Sound(disk, disk[Manifest(v)])
  BY StandingIsSound DEF Inv
<1>2. Admitted(InputOf(disk[Calibration(v)]))
  BY <1>1 DEF Sound, SourceValid, InputOf, Admitted
<1> QED
  BY <1>1, <1>2 DEF Loads, LoadsAs, Sound

\* A pack that loads cites a raw file that is in the store, and rows with no
\* day missing (packs.build_pack, store.ingest, normalize).
THEOREM PacksAreTraceable == Spec => []PackIsTraceable
<1>1. Inv => PackIsTraceable
  <2> SUFFICES ASSUME Inv, NEW v \in Versions, Loads(v)
               PROVE  LET c == disk[Calibration(v)][1]
                          rows == Window(Parsed(Documents[c]), disk[Calibration(v)][2])
                      IN  /\ disk[Raw(c)] = c
                          /\ \A i, j, l \in DOMAIN rows : \A d \in Days :
                               ( /\ rows[i].date <= d /\ d <= rows[j].date
                                 /\ Calendar[d] = "business" )
                               => \E k \in DOMAIN rows :
                                    rows[k].date = d /\ rows[k].metric = rows[l].metric
    BY DEF PackIsTraceable
  <2> DEFINE c == disk[Calibration(v)][1]
             w == disk[Calibration(v)][2]
             rows == Window(Parsed(Documents[c]), w)
  <2>1. disk[Raw(c)] = c /\ WindowClean(c, w)
    BY LoadsIsSound DEF Sound
  <2>2. RowErrors(rows) = {}
    BY <2>1 DEF WindowClean
  <2> HIDE DEF rows
  <2>3. \A i, j, l \in DOMAIN rows : \A d \in Days :
          rows[i].date <= d /\ d <= rows[j].date /\ Calendar[d] = "business"
          => \E k \in DOMAIN rows : rows[k].date = d /\ rows[k].metric = rows[l].metric
    BY <2>2, CleanRows
  <2> QED
    BY <2>1, <2>3 DEF rows
<1> QED
  BY <1>1, InvHolds, PTL

\* What loads at a destination, and what the lock names, is the pack of the
\* store (sync.sync_to_ssd, packs.write_pack_lock).
THEOREM CopiesAreOfThePack == Spec => []CopiesAreThePack
<1>1. Inv => CopiesAreThePack
  <2> SUFFICES ASSUME Inv, NEW v \in Versions
               PROVE  /\ CopyLoads(v) =>
                           Loads(v) /\ disk[Copy(Calibration(v))] = disk[Calibration(v)]
                      /\ Held(Lock) /\ disk[Lock][v] # NoPack =>
                           Loads(v) /\ disk[Lock][v] = disk[Manifest(v)]
    BY DEF CopiesAreThePack
  <2>1. ASSUME CopyLoads(v)
        PROVE  Loads(v) /\ disk[Copy(Calibration(v))] = disk[Calibration(v)]
    <3>1. /\ disk[Copy(Manifest(v))] \in Citations
          /\ disk[Copy(Calibration(v))] = disk[Copy(Manifest(v))]
      BY <2>1 DEF CopyLoads, LoadsAs
    <3>2. disk[Copy(Calibration(v))] \notin {Absent, Torn}
      BY <3>1, MarksAreNoContents
    <3>3. Calibration(v) \in Originals /\ Calibration(v)[2] = v
      BY StoreFiles, FileFacts
    <3>4. CopySound(disk, Calibration(v))
      BY <3>3 DEF Inv, DiskSound
    <3>5. disk[Copy(Calibration(v))] = disk[Calibration(v)] /\ Stands(disk, v)
      BY <3>2, <3>3, <3>4 DEF CopySound
    <3> QED
      BY <3>5, StandingLoads
  <2>2. ASSUME Held(Lock), disk[Lock][v] # NoPack
        PROVE  Loads(v) /\ disk[Lock][v] = disk[Manifest(v)]
    <3>1. LockSound(disk, disk[Lock])
      BY <2>2 DEF Held, Inv, DiskSound
    <3> QED
      BY <2>2, <3>1, StandingLoads DEF LockSound
  <2> QED
    BY <2>1, <2>2
<1> QED
  BY <1>1, InvHolds, PTL

\* A manifest, in the store or at a destination that one sync at a time writes
\* to, stands beside the calibration file it digests (sync._pack_files).
THEOREM ManifestsComeLast == Spec => []ManifestComesLast
<1>1. Inv => ManifestComesLast
  <2> SUFFICES ASSUME Inv, NEW v \in Versions
               PROVE  /\ disk[Manifest(v)] # Absent => Held(Calibration(v))
                      /\ ~overlapped /\ disk[Copy(Manifest(v))] # Absent =>
                           disk[Copy(Calibration(v))] = disk[Calibration(v)]
    BY DEF ManifestComesLast
  <2>1. disk[Manifest(v)] # Absent => Held(Calibration(v))
    BY DEF Inv, DiskSound, PackSound, Held
  <2>2. ~overlapped => CopyOrdered(disk, v)
    BY DEF Inv, OneSync
  <2> QED
    BY <2>1, <2>2 DEF CopyOrdered
<1> QED
  BY <1>1, InvHolds, PTL
=============================================================================
