----------------------------- MODULE FinderDump -----------------------------
(***************************************************************************)
(* finder/finder.go: dumpDb writes DbPath.tmp and renames it to DbPath,    *)
(* while other processes load DbPath; any process may be killed.  Files    *)
(* are inodes, to which the two names refer, so a reader keeps the one it  *)
(* opened.  A database is a sequence of chunks; a chunk is the process     *)
(* that wrote it, and process p's database is Whole(p).                    *)
(***************************************************************************)
EXTENDS Integers, Sequences, FiniteSets

CONSTANTS Procs,      \* the processes, each with one Finder
          MaxSize,    \* bound: the chunks of a database
          Exclusive   \* is there only one process at a time?

ASSUME DumpAssumption == MaxSize \in Nat \ {0} /\ Exclusive \in BOOLEAN

VARIABLES size,       \* the chunks of each process's database
          pc,         \* "new", "reading", "loaded", "writing", "written", "end"
          tmp, dbFile,  \* the inodes of the two names; 0: there is no such file
          content,    \* the chunks of each inode
          fd,         \* the inode a process has open
          pos,        \* how many chunks it has read or written
          read        \* what it has read

vars == <<size, pc, tmp, dbFile, content, fd, pos, read>>

Whole(p) == [i \in 1 .. size[p] |-> p]

Init ==
  /\ size \in [Procs -> 1 .. MaxSize]
  /\ pc = [p \in Procs |-> "new"]
  /\ tmp = 0 /\ dbFile = 0 /\ content = <<>>
  /\ fd = [p \in Procs |-> 0] /\ pos = [p \in Procs |-> 0]
  /\ read = [p \in Procs |-> <<>>]

Goto(p, label) == pc' = [pc EXCEPT ![p] = label]
Alone(p) == Exclusive => \A q \in Procs \ {p} : pc[q] \in {"new", "end"}

\* New opens the database, if there is one, and reads it to its end.
OpenDb(p) ==
  /\ pc[p] = "new" /\ Alone(p)
  /\ fd' = [fd EXCEPT ![p] = dbFile]
  /\ Goto(p, IF dbFile = 0 THEN "loaded" ELSE "reading")
  /\ UNCHANGED <<size, tmp, dbFile, content, pos, read>>

ReadDb(p) ==
  LET c == content[fd[p]] IN
  /\ pc[p] = "reading"
  /\ IF pos[p] < Len(c)
     THEN /\ read' = [read EXCEPT ![p] = Append(@, c[pos[p] + 1])]
          /\ pos' = [pos EXCEPT ![p] = @ + 1]
          /\ UNCHANGED pc
     ELSE Goto(p, "loaded") /\ UNCHANGED <<pos, read>>
  /\ UNCHANGED <<size, tmp, dbFile, content, fd>>

\* Nothing was modified.
SkipDump(p) ==
  /\ pc[p] = "loaded"
  /\ Goto(p, "end")
  /\ UNCHANGED <<size, tmp, dbFile, content, fd, pos, read>>

\* WriteFile opens the temporary file with O_CREATE and O_TRUNC.
MutOpenTmp(p) ==
  /\ pc[p] = "loaded"
  /\ IF tmp = 0
     THEN tmp' = Len(content) + 1 /\ content' = Append(content, <<>>)
     ELSE UNCHANGED <<tmp, content>>
  /\ fd' = [fd EXCEPT ![p] = tmp'] /\ pos' = [pos EXCEPT ![p] = 0]
  /\ Goto(p, "writing")
  /\ UNCHANGED <<size, dbFile, read>>

OpenTmp(p) ==
  /\ pc[p] = "loaded"
  /\ IF tmp = 0
     THEN tmp' = Len(content) + 1 /\ content' = Append(content, <<>>)
     ELSE UNCHANGED tmp /\ content' = [content EXCEPT ![tmp] = <<>>]
  /\ fd' = [fd EXCEPT ![p] = tmp'] /\ pos' = [pos EXCEPT ![p] = 0]
  /\ Goto(p, "writing")
  /\ UNCHANGED <<size, dbFile, read>>

\* A chunk is written at the process's own offset; what another process has
\* truncated before it is filled with zeros.
WriteAt(c, i, p) ==
  [j \in 1 .. (IF i > Len(c) THEN i ELSE Len(c)) |-> IF j = i THEN p ELSE IF j <= Len(c) THEN c[j] ELSE "zeros"]

WriteTmp(p) ==
  /\ pc[p] = "writing"
  /\ content' = [content EXCEPT ![fd[p]] = WriteAt(@, pos[p] + 1, p)]
  /\ pos' = [pos EXCEPT ![p] = @ + 1]
  /\ Goto(p, IF pos'[p] = size[p] THEN "written" ELSE "writing")
  /\ UNCHANGED <<size, tmp, dbFile, fd, read>>

\* Rename, or its error when there is no temporary file (any more).
MutRename(p) ==
  /\ pc[p] \in {"writing", "written"}
  /\ tmp # 0 /\ dbFile' = tmp /\ tmp' = 0
  /\ Goto(p, IF pc[p] = "written" THEN "end" ELSE "writing")
  /\ UNCHANGED <<size, content, fd, pos, read>>

Rename(p) ==
  /\ pc[p] = "written"
  /\ IF tmp # 0 THEN dbFile' = tmp /\ tmp' = 0 ELSE UNCHANGED <<dbFile, tmp>>
  /\ Goto(p, "end")
  /\ UNCHANGED <<size, content, fd, pos, read>>

\* The process is killed; or a write fails, and dumpDb gives up.
Killed(p) ==
  /\ pc[p] \notin {"new", "end"}
  /\ Goto(p, "end")
  /\ UNCHANGED <<size, tmp, dbFile, content, fd, pos, read>>

Next ==
  \E p \in Procs :
    OpenDb(p) \/ ReadDb(p) \/ SkipDump(p) \/ OpenTmp(p) \/ WriteTmp(p) \/ Rename(p) \/ Killed(p)

Spec == Init /\ [][Next]_vars

-----------------------------------------------------------------------------
\* "dump file and atomically move": what is at DbPath is the whole database of
\* one Finder, whenever processes were killed before.
DbWhole == dbFile # 0 => \E p \in Procs : content[dbFile] = Whole(p)

\* And what New has read is the whole database of one Finder.
LoadedWhole ==
  \A p \in Procs : pc[p] = "loaded" /\ fd[p] # 0 => \E q \in Procs : read[p] = Whole(q)
=============================================================================
