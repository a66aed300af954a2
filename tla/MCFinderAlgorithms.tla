------------------------- MODULE MCFinderAlgorithms -------------------------
(* The pure algorithms of the finder for TLC, over bounded inputs: FinderDb on
   directories that nest and that share the beginning of a name, and
   FinderSearch on a tree of six directories, three levels deep.  A behaviour
   is one of the two. *)
EXTENDS FinderDb

CONSTANTS MaxWork, MaxThreads

VARIABLES algorithm, has, work, numThreads, root, first, found

searchVars == <<has, work, numThreads, root, first, found>>

MCDirOrder == << <<"a">>, <<"a", "b">>, <<"a", "b", "c">>, <<"a", "d">>, <<"ab">>, <<"ab", "b">> >>
MCDirOrderRoot == << <<>>, <<"a">>, <<"a", "b">>, <<"ab">> >>
MCDirs == {<<>>, <<"a">>, <<"b">>, <<"a", "c">>, <<"a", "d">>, <<"a", "c", "e">>}

Search == INSTANCE FinderSearch WITH Dirs <- MCDirs, threads <- numThreads

NoSearch == has = {} /\ work = <<>> /\ numThreads = 1 /\ root = <<>> /\ first = FALSE /\ found = <<>>
NoDb == entries = <<>> /\ threads = 1 /\ db = <<>> /\ loaded = <<>>

MCInit ==
  \/ algorithm = "db" /\ Init /\ NoSearch
  \/ algorithm = "search" /\ Search!Init /\ NoDb

MCNext ==
  \/ algorithm = "db" /\ Next /\ UNCHANGED <<algorithm, searchVars>>
  \/ algorithm = "search" /\ Search!Next /\ UNCHANGED <<algorithm, vars>>

MCSpec == MCInit /\ [][MCNext]_<<algorithm, vars, searchVars>>

\* FinderSearch's property: FindNamedAt and FindFirstNamedAt find every file of
\* the name under the root, once, however the threads are divided.
FoundExactly == Search!FoundExactly
=============================================================================
