---------------------------- MODULE FinderSearch ----------------------------
(***************************************************************************)
(* finder/finder.go: FindNamedAt and FindFirstNamedAt over a loaded tree,  *)
(* with one goroutine per subdirectory as long as there are threads to     *)
(* divide, and one queue below that.                                       *)
(***************************************************************************)
EXTENDS Integers, Sequences, FiniteSets, SequencesExt, FiniteSetsExt, Bags

CONSTANTS Dirs,       \* the directories, sequences of names
          MaxWork,    \* bound: approximateNumDescendents
          MaxThreads  \* bound: numSearchingThreads

VARIABLES has,        \* the directories that contain a file of the wanted name
          work,       \* approximateNumDescendents of each directory
          threads, root, first,
          found       \* "no" or the bag of the directories of the files found

vars == <<has, work, threads, root, first, found>>

Children(d) == {c \in Dirs : Len(c) = Len(d) + 1 /\ IsPrefix(d, c)}

Init ==
  /\ has \in SUBSET Dirs /\ work \in [Dirs -> 1 .. MaxWork]
  /\ threads \in 1 .. MaxThreads /\ root \in Dirs /\ first \in BOOLEAN
  /\ found = <<>>

\* listMatches with the filters of FindFirstNamedAt and FindNamedAt.
MutSubDirs(d) == IF first /\ d \notin has THEN {} ELSE Children(d)
SubDirs(d) == IF first /\ d \in has THEN {} ELSE Children(d)
FilePaths(d) == IF d \in has THEN SetToBag({d}) ELSE EmptyBag

RECURSIVE FindInCacheSinglethreaded(_, _)
FindInCacheSinglethreaded(nodes, matches) ==
  IF nodes = <<>> THEN matches
  ELSE FindInCacheSinglethreaded(Tail(nodes) \o SetToSeq(SubDirs(Head(nodes))), matches (+) FilePaths(Head(nodes)))

RECURSIVE FindInCacheMultithreaded(_, _)
FindInCacheMultithreaded(d, n) ==
  IF n < 2 THEN FindInCacheSinglethreaded(<<d>>, EmptyBag)
  ELSE LET totalWork == FoldSet(LAMBDA c, s : s + work[c], 0, Children(d))
       IN  FilePaths(d) (+) FoldSet(LAMBDA c, b : b (+) FindInCacheMultithreaded(c, (n * work[c]) \div totalWork),
                                    EmptyBag, SubDirs(d))

FindMatching ==
  /\ found = <<>>
  /\ found' = <<FindInCacheMultithreaded(root, threads)>>
  /\ UNCHANGED <<has, work, threads, root, first>>

Next == FindMatching
Spec == Init /\ [][Next]_vars

-----------------------------------------------------------------------------
Under(d) == {c \in Dirs : IsPrefix(d, c)}

\* Every file of that name under the root is found, once, however the threads
\* are divided; FindFirstNamed "stops search[ing] subdirectories" below a match.
FoundExactly ==
  found # <<>> =>
    found[1] = SetToBag({d \in has \cap Under(root) :
                 first => ~ \E a \in has \cap Under(root) : IsStrictPrefix(a, d)})
=============================================================================
