----------------------------- MODULE FinderLoad -----------------------------
(***************************************************************************)
(* finder/finder.go: how a Finder fills its tree of directories, from the  *)
(* database of an earlier Finder and from the filesystem, while the        *)
(* filesystem changes; one Finder after the other.                         *)
(*                                                                         *)
(* A directory is the sequence of its path's components.  Its stat         *)
(* (modification time, inode, device) is a stamp: every change of its      *)
(* contents or permissions gives it a new one; 0 stands for a directory    *)
(* that could not be statted.  Files are the relevant ones (IncludeFiles)  *)
(* and the prune-file.  A task of the thread pool reads the filesystem     *)
(* once and is otherwise alone on its node, so it is one step.             *)
(***************************************************************************)
EXTENDS Integers, Sequences, FiniteSets, SequencesExt

CONSTANTS DirOrder,    \* the directories that may exist, in the order of their paths
          Roots,       \* RootDirs, none of them below another one
          ExcludeDirs, \* names of directories that are left out
          Files,       \* the names of the relevant files and of the prune-file
          PruneFile,
          NumThreads,  \* numDbLoadingThreads: the number of blocks in the database
          MaxChanges,  \* bound: changes of the filesystem
          MaxLoads,    \* bound: Finders
          Racing,      \* may the filesystem change while a Finder loads?
          Chmods,      \* the permissions that may change: "r" (list), "x" (search)
          None

Dirs == Range(DirOrder)

ASSUME FinderAssumption ==
  /\ Roots \subseteq Dirs /\ PruneFile \in Files
  /\ \A d \in Dirs \ Roots : Len(d) > 1 /\ Front(d) \in Dirs
  /\ NumThreads \in Nat \ {0} /\ MaxChanges \in Nat /\ MaxLoads \in Nat
  /\ Racing \in BOOLEAN /\ Chmods \subseteq {"r", "x"}

VARIABLES
  fs,        \* None or [stamp, files, r, x] for each directory
  changes,   \* how often the filesystem changed
  db,        \* the database on disk: None, or None or [stamp, files] for each directory
  loads,     \* Finders so far
  phase,     \* "idle", "stat" (the blocks of the db), "walk" or "loaded"
  blocks,    \* the directories of each block that are not statted yet
  stats,     \* the stats of the directories in the db, None before
  unmerged,  \* the blocks that are not merged into the tree yet
  nodes,     \* the pathMap: None or [stamp, files, kids] for each directory
  tasks,     \* the thread pool: [kind: "stat" or "list", dirs: sequence of directories]
  errs,      \* fsErrs: the paths
  modified,  \* modifiedFlag
  quiet      \* the filesystem did not change since this Finder started

fsVars == <<fs, changes>>
treeVars == <<blocks, stats, unmerged, nodes, tasks, errs, modified>>
vars == <<fsVars, db, loads, phase, treeVars, quiet>>

Subdirs(d) == {c \in Dirs \ Roots : Front(c) = d}
Above(d) == {a \in Dirs : IsStrictPrefix(a, d)}

-----------------------------------------------------------------------------
(***************************************************************************)
(* The filesystem and what changes it.                                     *)
(***************************************************************************)
NewDir(stamp, files) == [stamp |-> stamp, files |-> files, r |-> TRUE, x |-> TRUE]

MayChange == changes < MaxChanges /\ (Racing \/ phase = "idle")
Stamp == changes + 2

Changed(f) ==
  /\ fs' = f
  /\ changes' = changes + 1
  /\ quiet' = FALSE
  /\ UNCHANGED <<db, loads, phase, treeVars>>

Touch(f, d) == IF d \in Roots THEN f ELSE [f EXCEPT ![Front(d)].stamp = Stamp]

MakeDir(d) ==
  /\ MayChange /\ fs[d] = None /\ \A a \in Above(d) : fs[a] # None
  /\ Changed(Touch([fs EXCEPT ![d] = NewDir(Stamp, {})], d))

RemoveDir(d) ==
  /\ MayChange /\ fs[d] # None /\ \A c \in Subdirs(d) : fs[c] = None
  /\ Changed(Touch([fs EXCEPT ![d] = None], d))

ToggleFile(d, f) ==
  /\ MayChange /\ fs[d] # None
  /\ Changed([fs EXCEPT ![d].stamp = Stamp,
                        ![d].files = IF f \in @ THEN @ \ {f} ELSE @ \cup {f}])

Chmod(d) ==
  /\ MayChange /\ fs[d] # None
  /\ \/ "r" \in Chmods /\ Changed([fs EXCEPT ![d].stamp = Stamp, ![d].r = ~@])
     \/ "x" \in Chmods /\ Changed([fs EXCEPT ![d].stamp = Stamp, ![d].x = ~@])

\* The database is deleted, damaged, or made for other parameters: it will not
\* be used.
LoseDb ==
  /\ phase = "idle" /\ db # None
  /\ db' = None
  /\ UNCHANGED <<fsVars, loads, phase, treeVars, quiet>>

Environment ==
  \/ \E d \in Dirs : MakeDir(d) \/ RemoveDir(d) \/ Chmod(d) \/ \E f \in Files : ToggleFile(d, f)
  \/ LoseDb

Searchable(d) == \A a \in Above(d) : fs[a] # None => fs[a].x

\* statDirSync and the error it records: permission errors are ignored.  The
\* error of a path that does not exist holds the errno, not os.ErrNotExist, so
\* canIgnoreFsErr does not ignore it.
StatDirSync(d) == IF Searchable(d) /\ fs[d] # None THEN fs[d].stamp ELSE 0
CanIgnoreFsErr(d) == ~Searchable(d)
FsErr(d) == IF fs[d] = None /\ ~CanIgnoreFsErr(d) THEN {d} ELSE {}

\* ReadDir, then pruneCacheCandidates.
MutPruneCacheCandidates(l) == IF PruneFile \in l.files THEN [l EXCEPT !.files = {}] ELSE l

PruneCacheCandidates(l) ==
  IF PruneFile \in l.files THEN [files |-> {}, dirs |-> {}]
  ELSE [l EXCEPT !.dirs = {c \in @ : Last(c) \notin ExcludeDirs}]

ReadDir(d) ==
  IF Searchable(d) /\ fs[d] # None /\ fs[d].r
  THEN [files |-> fs[d].files, dirs |-> {c \in Subdirs(d) : fs[c] # None}]
  ELSE [files |-> {}, dirs |-> {}]

-----------------------------------------------------------------------------
(***************************************************************************)
(* startWithoutExternalCache, or the start of startFromExternalCache: the  *)
(* entries of the database are split into blocks of about equal length.    *)
(***************************************************************************)
Stat(d) == [kind |-> "stat", dirs |-> <<d>>]
List(ds) == IF ds = <<>> THEN {} ELSE {[kind |-> "list", dirs |-> ds]}

NewNode == [stamp |-> 0, files |-> {}, kids |-> {}]

CachedDirs == IF db = None THEN <<>> ELSE SelectSeq(DirOrder, LAMBDA d : db[d] # None)
NumBlocks == IF NumThreads > Len(CachedDirs) THEN Len(CachedDirs) ELSE NumThreads
BlockMax(k) == (Len(CachedDirs) * k) \div NumBlocks
Block(k) == SubSeq(CachedDirs, BlockMax(k - 1) + 1, BlockMax(k))

StartFind ==
  /\ phase' = "walk"
  /\ nodes' = [d \in Dirs |-> IF d \in Roots THEN NewNode ELSE None]
  /\ tasks' = {Stat(d) : d \in Roots}
  /\ blocks' = <<>> /\ unmerged' = {}

StartFromExternalCache ==
  /\ phase' = "stat"
  /\ nodes' = [d \in Dirs |-> None] /\ tasks' = {}
  /\ blocks' = [k \in 1 .. NumBlocks |-> Block(k)]
  /\ unmerged' = 1 .. NumBlocks

StartLoad ==
  /\ phase = "idle" /\ loads < MaxLoads
  /\ IF db = None THEN StartFind ELSE StartFromExternalCache
  /\ loads' = loads + 1
  /\ stats' = [d \in Dirs |-> None]
  /\ errs' = {} /\ modified' = FALSE /\ quiet' = TRUE
  /\ UNCHANGED <<fsVars, db>>

-----------------------------------------------------------------------------
IsInfoUpToDate(old, new) == old = new

StatCached(k) ==
  LET d == Head(blocks[k]) IN
  /\ phase = "stat" /\ blocks[k] # <<>>
  /\ stats' = [stats EXCEPT ![d] = StatDirSync(d)]
  /\ errs' = errs \cup FsErr(d)
  /\ blocks' = [blocks EXCEPT ![k] = Tail(@)]
  /\ UNCHANGED <<fsVars, db, loads, phase, unmerged, nodes, tasks, modified, quiet>>

ToWalk(d) == ~IsInfoUpToDate(db[d].stamp, stats[d]) /\ stats[d] # 0

\* The tree of block k: its directories and, without stats, those above them.
BlockNode(k, d) ==
  IF Contains(Block(k), d)
  THEN [stamp |-> stats[d], files |-> IF ToWalk(d) THEN {} ELSE db[d].files]
  ELSE [stamp |-> 0, files |-> {}]

MergeIn(ours, theirs, kids) ==
  CASE ours = None -> [stamp |-> theirs.stamp, files |-> theirs.files, kids |-> kids]
    [] ours # None /\ theirs.stamp # 0 ->
         [stamp |-> theirs.stamp, files |-> theirs.files, kids |-> ours.kids \cup kids]
    [] OTHER -> [ours EXCEPT !.kids = @ \cup kids]

MergeBlock(k) ==
  LET mine == Range(Block(k)) \cup UNION {Above(d) : d \in Range(Block(k))}
      walk == SelectSeq(Block(k), ToWalk)
  IN
  /\ phase = "stat" /\ k \in unmerged /\ blocks[k] = <<>>
  /\ nodes' = [d \in Dirs |-> IF d \in mine
                              THEN MergeIn(nodes[d], BlockNode(k, d), Subdirs(d) \cap mine)
                              ELSE nodes[d]]
  /\ tasks' = tasks \cup List(walk)
  /\ modified' = (modified \/ walk # <<>>)
  /\ unmerged' = unmerged \ {k}
  /\ phase' = IF unmerged' = {} THEN "walk" ELSE phase
  /\ UNCHANGED <<fsVars, db, loads, blocks, stats, errs, quiet>>

-----------------------------------------------------------------------------
(***************************************************************************)
(* The thread pool: Run adds a task, the tasks run in any order, Wait      *)
(* returns when there is none left.                                        *)
(***************************************************************************)
MutFinished(t, spawned) == tasks \cup spawned
Finished(t, spawned) == (tasks \ {t}) \cup spawned

\* statDirAsync.
StatDir(t) ==
  LET d   == Head(t.dirs)
      new == StatDirSync(d)
  IN
  /\ phase = "walk" /\ t \in tasks /\ t.kind = "stat"
  /\ errs' = errs \cup FsErr(d)
  /\ IF IsInfoUpToDate(nodes[d].stamp, new)
     THEN tasks' = Finished(t, {}) /\ UNCHANGED <<nodes, modified>>
     ELSE /\ nodes' = [nodes EXCEPT ![d].stamp = new, ![d].files = {}]
          /\ modified' = TRUE
          /\ tasks' = Finished(t, IF new # 0 THEN List(<<d>>) ELSE {})
  /\ UNCHANGED <<fsVars, db, loads, phase, blocks, stats, unmerged, quiet>>

\* listDirSync of the next directory of a task: unknown subdirectories get a
\* node and a stat, known ones keep theirs, the others are dropped.
MutToStat(d, subdirs) == subdirs
ToStat(d, subdirs) == subdirs \ nodes[d].kids

ListDir(t) ==
  LET d   == Head(t.dirs)
      l   == PruneCacheCandidates(ReadDir(d))
      new == l.dirs \ nodes[d].kids
  IN
  /\ phase = "walk" /\ t \in tasks /\ t.kind = "list"
  /\ errs' = errs \cup FsErr(d)
  /\ nodes' = [c \in Dirs |-> IF c = d THEN [nodes[d] EXCEPT !.files = l.files, !.kids = l.dirs]
                              ELSE IF c \in new THEN NewNode ELSE nodes[c]]
  /\ tasks' = Finished(t, List(Tail(t.dirs)) \cup {Stat(c) : c \in ToStat(d, l.dirs)})
  /\ UNCHANGED <<fsVars, db, loads, phase, blocks, stats, unmerged, modified, quiet>>

FinishLoad ==
  /\ phase = "walk" /\ tasks = {}
  /\ phase' = "loaded"
  /\ UNCHANGED <<fsVars, db, loads, treeVars, quiet>>

Attached(d) ==
  \A c \in Above(d) \cup {d} :
    nodes[c] # None /\ (c \notin Roots => c \in nodes[Front(c)].kids)

\* sortedDirEntries and serializeDb.  A database without entries ends with its
\* header, which validateCacheHeader then rejects.
InDump(d) == Attached(d) /\ nodes[d].stamp # 0

Dumped ==
  LET entries == [d \in Dirs |-> IF InDump(d)
                                 THEN [stamp |-> nodes[d].stamp, files |-> nodes[d].files]
                                 ELSE None]
  IN IF \A d \in Dirs : entries[d] = None THEN None ELSE entries

\* The process ends: the database is replaced if anything was modified, unless
\* the process is killed before it renames the new one.
Shutdown ==
  /\ phase = "loaded"
  /\ \/ modified /\ db' = Dumped
     \/ UNCHANGED db
  /\ phase' = "idle"
  /\ UNCHANGED <<fsVars, loads, treeVars, quiet>>

Load ==
  \/ \E k \in DOMAIN blocks : StatCached(k) \/ MergeBlock(k)
  \/ \E t \in tasks : StatDir(t) \/ ListDir(t)
  \/ FinishLoad

Next == Environment \/ StartLoad \/ Load \/ Shutdown

Init ==
  /\ fs \in [Dirs -> {None} \cup {NewDir(1, fl) : fl \in SUBSET (Files \ {PruneFile})}]
  /\ \A d \in Dirs : fs[d] # None => \A a \in Above(d) : fs[a] # None
  /\ \A d \in Roots : fs[d] # None
  /\ changes = 0 /\ db = None /\ loads = 0 /\ phase = "idle"
  /\ blocks = <<>> /\ stats = [d \in Dirs |-> None] /\ unmerged = {}
  /\ nodes = [d \in Dirs |-> None] /\ tasks = {} /\ errs = {}
  /\ modified = FALSE /\ quiet = TRUE

Spec == Init /\ [][Next]_vars
FairSpec == Spec /\ WF_vars(Load)

-----------------------------------------------------------------------------
(***************************************************************************)
(* What a scan of the filesystem as it is now finds: the reference.        *)
(***************************************************************************)
Relevant(d) == IF ~fs[d].r \/ PruneFile \in fs[d].files THEN {} ELSE fs[d].files

Walked(d) == /\ fs[d] # None /\ fs[d].r /\ PruneFile \notin fs[d].files
             /\ d \in Roots \/ Last(d) \notin ExcludeDirs
Visible(d) ==
  /\ fs[d] # None /\ (d \in Roots \/ Last(d) \notin ExcludeDirs)
  /\ \A a \in Above(d) : Walked(a) /\ fs[a].x
FreshFiles == UNION {{d} \X Relevant(d) : d \in {c \in Dirs : Visible(c)}}

\* What the loaded Finder answers: New's error, or FindAll.
NewFails == \/ \E d \in errs : Attached(d)
            \/ \E d \in Roots : nodes[d] = None \/ nodes[d].stamp = 0
FoundFiles == UNION {{d} \X nodes[d].files : d \in {c \in Dirs : Attached(c)}}

EntryType == [stamp : 1 .. MaxChanges + 1, files : SUBSET Files]
NodeType == [stamp : 0 .. MaxChanges + 1, files : SUBSET Files, kids : SUBSET Dirs]

\* Type invariant; every task is about nodes that exist.
TypeOK ==
  /\ fs \in [Dirs -> {None} \cup [stamp : 1 .. MaxChanges + 1, files : SUBSET Files,
                                  r : BOOLEAN, x : BOOLEAN]]
  /\ db = None \/ db \in [Dirs -> {None} \cup EntryType]
  /\ nodes \in [Dirs -> {None} \cup NodeType]
  /\ \A t \in tasks : t.dirs # <<>> /\ \A d \in Range(t.dirs) : nodes[d] # None
  /\ errs \subseteq Dirs

\* "While building the node tree, only one thread may ever access the
\* <children> collection of a *pathMap at once": no directory is the subject
\* of two tasks, not even one that is in the database and is also rediscovered
\* by its parent's ReadDir.
OneTaskPerNode ==
  /\ \A t, u \in tasks : t # u => Range(t.dirs) \cap Range(u.dirs) = {}
  /\ \A t \in tasks : IsInjective(t.dirs)


\* A Finder that starts from the database finds exactly what a scan would,
\* if the filesystem holds still while it loads: files and directories that
\* were added, removed, pruned or made unreadable since the database was
\* written; and New fails only if a root is missing.
QuietLoadIsFresh ==
  phase = "loaded" /\ quiet =>
    IF \A d \in Roots : fs[d] # None THEN ~NewFails /\ FoundFiles = FreshFiles ELSE NewFails

\* "in case of a failure to stat the directory, treat the directory as missing":
\* no file of a directory that could not be statted is found.
UnstattedIsMissing ==
  phase = "loaded" /\ ~NewFails =>
    \A d \in Dirs : Attached(d) /\ nodes[d].stamp = 0 => nodes[d].files = {}

\* "If a directory doesn't exist, that generally means the cache is
\* out-of-date": a directory that vanishes does not make New fail.
VanishedIsIgnored ==
  phase = "loaded" /\ NewFails => \E d \in Roots : fs[d] = None \/ nodes[d] = None

\* "path %v was specified to be included in the cache but does not exist": New
\* says so only of a root that does not exist.
RootsExist ==
  phase = "loaded" /\ quiet => \A d \in Roots : nodes[d] = None => fs[d] = None

\* Loading ends: threadPool.Wait returns although tasks start tasks.
LoadEnds == phase \in {"stat", "walk"} ~> phase = "loaded"
=============================================================================
