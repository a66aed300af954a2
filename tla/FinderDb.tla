------------------------------ MODULE FinderDb ------------------------------
(***************************************************************************)
(* finder/finder.go: the entries of the database, from the dumping Finder  *)
(* to the one that loads it.  Entries are sorted by path and cut into      *)
(* blocks; in a block they are grouped by device, and the common prefix of *)
(* a group's paths is factored out and joined again.                       *)
(*                                                                         *)
(* A path string is Abs(c), "/" and the components c joined by "/", or     *)
(* Rel(c), without the leading "/"; Rel(<<>>) is the empty string.         *)
(***************************************************************************)
EXTENDS Integers, Sequences, FiniteSets, SequencesExt

CONSTANTS DirOrder,    \* the components of the directories' paths, in the order of the strings
          Devices,
          Threads      \* the numbers of threads: numDbLoadingThreads

ASSUME DbAssumption == Threads \subseteq Nat \ {0}

VARIABLES entries,     \* what sortedDirEntries gives: a sequence of [path, device]
          threads,
          db,          \* the sequence of the blocks, <<>> before they are written
          loaded       \* for each block, what parseCacheEntry gives

vars == <<entries, threads, db, loaded>>

Abs(c) == [abs |-> TRUE, c |-> c]
Rel(c) == [abs |-> FALSE, c |-> c]
Empty == Rel(<<>>)

\* dumpInto: the path of the root is the empty string.
DumpPath(d) == IF d = <<>> THEN Empty ELSE Abs(d)

\* A tree in which each directory exists or not, on some device, with at least
\* one entry: the stats of the others are zero.
Init ==
  /\ \E dev \in [Range(DirOrder) -> {0} \cup Devices] :
       LET dumped == SelectSeq(DirOrder, LAMBDA d : dev[d] # 0)
       IN  /\ dumped # <<>>
           /\ entries = [i \in DOMAIN dumped |-> [path |-> DumpPath(dumped[i]), device |-> dev[dumped[i]]]]
  /\ threads \in Threads
  /\ db = <<>> /\ loaded = <<>>

-----------------------------------------------------------------------------
(***************************************************************************)
(* serializeDb and serializeCacheEntry.                                    *)
(***************************************************************************)
\* strings.HasPrefix(p + "/", prefix + "/").
HasPrefix(p, prefix) ==
  CASE prefix = Empty -> TRUE
    [] prefix = Abs(<<>>) -> FALSE
    [] OTHER -> IsPrefix(prefix.c, p.c)

\* The loop that shortens the prefix until p has it, or it is "/".
Shorten(prefix, p) ==
  IF HasPrefix(p, prefix) THEN prefix ELSE Abs(LongestCommonPrefix({prefix.c, p.c}))

MutCommonPrefix(paths) == paths[1]
CommonPrefix(paths) == FoldLeft(Shorten, paths[1], paths)

\* The first occurrence of the prefix is removed, then a leading "/".
Suffix(p, prefix) == Rel(SubSeq(p.c, Len(prefix.c) + 1, Len(p.c)))

Group(block, dev) == SelectSeq(block, LAMBDA e : e.device = dev)

SerializeCacheEntry(block) ==
  {LET infos  == Group(block, dev)
       prefix == CommonPrefix([i \in DOMAIN infos |-> infos[i].path])
   IN  [device |-> dev, root |-> prefix,
        dirs |-> [i \in DOMAIN infos |-> Suffix(infos[i].path, prefix)]]
   : dev \in {block[i].device : i \in DOMAIN block}}

NumBlocks == IF threads > Len(entries) THEN Len(entries) ELSE threads
BlockMax(i) == (Len(entries) * i) \div NumBlocks
MutBlockMin(i) == 0
BlockMin(i) == BlockMax(i - 1)

SerializeDb ==
  /\ db = <<>>
  /\ db' = [i \in 1 .. NumBlocks |-> SerializeCacheEntry(SubSeq(entries, BlockMin(i) + 1, BlockMax(i)))]
  /\ UNCHANGED <<entries, threads, loaded>>

-----------------------------------------------------------------------------
(***************************************************************************)
(* parseCacheEntry, one block after the other.                             *)
(***************************************************************************)
JoinCleanPaths(base, leaf) == IF base = Empty THEN leaf ELSE [base EXCEPT !.c = @ \o leaf.c]

ParseCacheEntry(block) ==
  UNION {{[path |-> JoinCleanPaths(p.root, p.dirs[i]), device |-> p.device] : i \in DOMAIN p.dirs} : p \in block}

Load ==
  /\ db # <<>> /\ loaded = <<>>
  /\ loaded' = [i \in DOMAIN db |-> ParseCacheEntry(db[i])]
  /\ UNCHANGED <<entries, threads, db>>

Next == SerializeDb \/ Load

Spec == Init /\ [][Next]_vars

-----------------------------------------------------------------------------
\* The Finder that loads the database stats exactly the directories that were
\* dumped, under the paths and with the devices they had.
RoundTrip ==
  loaded # <<>> => UNION Range(loaded) = Range(entries)

\* Each directory is in one block, so only one goroutine of
\* startFromExternalCache works on it; every block has work, and none has more
\* than its share.
BlocksPartition ==
  loaded # <<>> =>
    /\ \A i, j \in DOMAIN loaded : i # j => loaded[i] \cap loaded[j] = {}
    /\ \A i \in DOMAIN loaded : LET n == Cardinality(loaded[i]) * NumBlocks
                                IN  n < Len(entries) + NumBlocks /\ n > Len(entries) - NumBlocks
=============================================================================
