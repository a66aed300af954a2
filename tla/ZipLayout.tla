------------------------------ MODULE ZipLayout ------------------------------
(***************************************************************************)
(* zip/zip.go and jar/jar.go: which entries an archive gets, and in which  *)
(* order.  The producer's part of ZipWriter.write: jarSort of the path     *)
(* mappings, then addFile or addManifest for each, with the maps           *)
(* createdFiles and createdDirs that reject clashing destinations.         *)
(* A path is the sequence of its components.                               *)
(***************************************************************************)
EXTENDS Integers, Sequences, FiniteSets, SequencesExt

CONSTANTS Mappings,   \* sets of mappings [dest, kind, javaDest] to draw from
          MaxMappings,\* how many mappings an archive has at most
          NameOrder   \* the destinations in the order of Go's string "<"

MetaDir == <<"META-INF">>
ManifestFile == <<"META-INF", "MANIFEST.MF">>

ASSUME MappingsAssumption ==
  /\ MaxMappings \in Nat
  /\ \A m \in Mappings : /\ m.dest \in Range(NameOrder)
                         /\ m.kind \in {"file", "symlink", "dir", "missing", "other"}
                         /\ m.javaDest \in Seq(STRING)

VARIABLES mappings,     \* pathMappings
          opts,         \* [directories, emulateJar, srcJar, manifest, ignoreMissing]
          createdFiles, createdDirs,
          entries,      \* the entries queued so far: [name, isDir], in order
          i,            \* the mapping the producer is at
          status        \* "start", "adding", "ok" or "error"

vars == <<mappings, opts, createdFiles, createdDirs, entries, i, status>>

\* EmulateJar implies directory entries (ZipTo).
Options ==
  {o \in [directories : BOOLEAN, emulateJar : BOOLEAN, srcJar : BOOLEAN,
          manifest : BOOLEAN, ignoreMissing : BOOLEAN] : o.emulateJar => o.directories}

Init ==
  /\ mappings \in BoundedSeq(Mappings, MaxMappings)
  /\ opts \in Options
  /\ createdFiles = {} /\ createdDirs = {}
  /\ entries = <<>> /\ i = 1 /\ status = "start"

(***************************************************************************)
(* jar.EntryNamesLess: the manifest, then the rest of META-INF/, then the  *)
(* others; by name within each group.                                      *)
(***************************************************************************)
MutIndex(name) ==
  IF Len(name) > 1 /\ IsPrefix(MetaDir, name) THEN 2 ELSE 3

Index(name) ==
  CASE name = ManifestFile -> 1
    [] name # ManifestFile /\ Len(name) > 1 /\ IsPrefix(MetaDir, name) -> 2
    [] OTHER -> 3

Rank(name) == CHOOSE k \in DOMAIN NameOrder : NameOrder[k] = name

EntryNamesLess(a, b) ==
  IF Index(a) = Index(b) THEN Rank(a) < Rank(b) ELSE Index(a) < Index(b)

\* sort.SliceStable: sorted, and equal names keep their order.
JarSort(ms) ==
  LET perm == CHOOSE p \in [DOMAIN ms -> DOMAIN ms] :
        \A j, k \in DOMAIN ms : j < k =>
           \/ EntryNamesLess(ms[p[j]].dest, ms[p[k]].dest)
           \/ ms[p[j]].dest = ms[p[k]].dest /\ p[j] < p[k]
  IN [k \in DOMAIN ms |-> ms[perm[k]]]

ManifestMapping == [dest |-> ManifestFile, kind |-> "file", javaDest |-> <<>>]

Prepare ==
  /\ status = "start"
  /\ IF opts.manifest /\ ~opts.emulateJar
     THEN status' = "error" /\ UNCHANGED mappings
     ELSE /\ status' = "adding"
          /\ mappings' = IF opts.emulateJar THEN JarSort(Append(mappings, ManifestMapping))
                         ELSE mappings
  /\ UNCHANGED <<opts, createdFiles, createdDirs, entries, i>>

(***************************************************************************)
(* writeDirectory: walk up from dir until a created directory; every       *)
(* directory on the way is new, and must not be a file.                    *)
(***************************************************************************)
Ancestors(dir) == {SubSeq(dir, 1, n) : n \in 1 .. Len(dir)}

NewDirs(dir) ==
  {p \in Ancestors(dir) : \A q \in Ancestors(dir) : Len(q) >= Len(p) => q \notin createdDirs}

DirClash(dir) == NewDirs(dir) \cap createdFiles # {}

\* The directories recorded before the walk meets a file; all the new ones if
\* it meets none.
Recorded(dir) ==
  {p \in NewDirs(dir) : \A q \in NewDirs(dir) : Len(q) >= Len(p) => q \notin createdFiles}

MutDirEntries(dir) ==
  IF opts.directories
  THEN [k \in 1 .. Cardinality(NewDirs(dir)) |->
          [name |-> SubSeq(dir, 1, Len(dir) - k + 1), isDir |-> TRUE]]
  ELSE <<>>

\* Parent directories precede their children.
DirEntries(dir) ==
  IF opts.directories
  THEN LET old == Len(dir) - Cardinality(NewDirs(dir))
       IN [k \in 1 .. Cardinality(NewDirs(dir)) |->
             [name |-> SubSeq(dir, 1, old + k), isDir |-> TRUE]]
  ELSE <<>>

Parent(path) == Front(path)

\* One mapping is done: the producer goes on, or stops with an error.
Fail(dirs, new) ==
  /\ status' = "error"
  /\ createdDirs' = createdDirs \cup dirs
  /\ entries' = entries \o new
  /\ UNCHANGED <<mappings, opts, createdFiles, i>>

Emit(dirs, files, new) ==
  /\ createdDirs' = createdDirs \cup dirs
  /\ createdFiles' = createdFiles \cup files
  /\ entries' = entries \o new
  /\ i' = i + 1
  /\ UNCHANGED <<mappings, opts, status>>

FileEntry(dest) == [name |-> dest, isDir |-> FALSE]

Current == mappings[i]
Adding == status = "adding" /\ i <= Len(mappings)
IsManifest == opts.emulateJar /\ Current.dest = ManifestFile

\* createParentDirs records the file and rejects a destination that is taken.
MutTaken(dest) == dest \in createdFiles
Taken(dest) == dest \in createdDirs \cup createdFiles

MutAddContents(dest) ==
  IF DirClash(Parent(dest)) \/ Taken(dest) THEN Emit({}, {}, <<>>)
  ELSE Emit(NewDirs(Parent(dest)), {dest}, Append(DirEntries(Parent(dest)), FileEntry(dest)))

AddContents(dest) ==
  LET dir == Parent(dest)
  IN \/ DirClash(dir) /\ Fail(Recorded(dir), <<>>)
     \/ ~DirClash(dir) /\ Taken(dest) /\ Fail(NewDirs(dir), DirEntries(dir))
     \/ /\ ~DirClash(dir) /\ ~Taken(dest)
        /\ Emit(NewDirs(dir), {dest}, Append(DirEntries(dir), FileEntry(dest)))

\* A .java file of a srcjar goes where its package statement says, if it has one.
JavaDest(m) == IF opts.srcJar /\ m.javaDest # <<>> THEN m.javaDest ELSE m.dest

AddFile ==
  /\ Adding /\ ~IsManifest
  /\ \/ /\ Current.kind = "missing"
        /\ IF opts.ignoreMissing THEN Emit({}, {}, <<>>) ELSE Fail({}, <<>>)
     \/ Current.kind = "other" /\ Fail({}, <<>>)
     \/ Current.kind = "dir" /\ ~opts.directories /\ Emit({}, {}, <<>>)
     \/ /\ Current.kind = "dir" /\ opts.directories
        /\ IF DirClash(Current.dest) THEN Fail(Recorded(Current.dest), <<>>)
           ELSE Emit(NewDirs(Current.dest), {}, DirEntries(Current.dest))
     \/ Current.kind = "symlink" /\ AddContents(Current.dest)
     \/ Current.kind = "file" /\ AddContents(JavaDest(Current))

\* addManifest checks the two maps but does not record the manifest in them.
AddManifest ==
  /\ Adding /\ IsManifest
  /\ \/ Taken(ManifestFile) /\ Fail({}, <<>>)
     \/ ~Taken(ManifestFile) /\ DirClash(MetaDir) /\ Fail(Recorded(MetaDir), <<>>)
     \/ /\ ~Taken(ManifestFile) /\ ~DirClash(MetaDir)
        /\ IF Current.kind \in {"missing", "dir"} THEN Fail(NewDirs(MetaDir), DirEntries(MetaDir))
           ELSE Emit(NewDirs(MetaDir), {}, Append(DirEntries(MetaDir), FileEntry(ManifestFile)))

Finish ==
  /\ status = "adding" /\ i > Len(mappings)
  /\ status' = "ok"
  /\ UNCHANGED <<mappings, opts, createdFiles, createdDirs, entries, i>>

Next == Prepare \/ AddFile \/ AddManifest \/ Finish
Spec == Init /\ [][Next]_vars

-----------------------------------------------------------------------------
Names == [k \in DOMAIN entries |-> entries[k].name]

\* Type invariant.
TypeOK ==
  /\ status \in {"start", "adding", "ok", "error"}
  /\ i \in 1 .. MaxMappings + 2
  /\ opts \in Options
  /\ createdDirs \cup createdFiles \cup Range(Names) \subseteq Seq(STRING) \ {<<>>}
  /\ \A k \in DOMAIN entries : entries[k].isDir \in BOOLEAN

\* No destination is written twice, as two files, two directories or a file and
\* a directory: addFile rejects the second one.  The manifest of a jar, which
\* addManifest does not record, is OneEntryPerName's subject.
NoClash ==
  \A j, k \in DOMAIN entries :
    j # k /\ Names[j] = Names[k] => opts.emulateJar /\ Names[j] = ManifestFile

\* With directory entries on, every entry comes after all its parent
\* directories, however files, symlinks and directories are mixed and
\* whatever srcjar renames ("parent directories precede their children").
ParentsFirst ==
  opts.directories =>
    \A k \in DOMAIN entries : \A d \in Ancestors(Parent(Names[k])) :
      \E j \in 1 .. k - 1 : Names[j] = d /\ entries[j].isDir

\* The first entries of a jar are META-INF/ and its manifest, wherever they are
\* among the mappings: tools that read the manifest look there.
ManifestFirst ==
  opts.emulateJar /\ status = "ok" => SubSeq(Names, 1, 2) = <<MetaDir, ManifestFile>>

\* A file of the archive never lies below another file of it.
NoFileBelowFile ==
  \A j, k \in DOMAIN entries :
    ~entries[j].isDir => Names[j] \notin Ancestors(Parent(Names[k]))

\* Success means that the files of the archive are exactly the files and
\* symlinks that were asked for, in the order of the mappings: addFile skips
\* only what it was told to skip.
NothingDropped ==
  status = "ok" =>
    LET files  == SelectSeq(entries, LAMBDA e : ~e.isDir)
        wanted == SelectSeq(mappings, LAMBDA m : m.kind \in {"file", "symlink"})
    IN /\ Len(files) = Len(wanted)
       /\ \A k \in DOMAIN files :
            files[k].name = IF wanted[k].kind = "file" THEN JavaDest(wanted[k]) ELSE wanted[k].dest

\* addManifest's error "destination %q has two files %q and %q": an archive has
\* one entry per name, its manifest included.
OneEntryPerName == IsInjective(Names)
=============================================================================
