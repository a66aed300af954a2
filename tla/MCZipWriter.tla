----------------------------- MODULE MCZipWriter -----------------------------
(* ZipWriter for TLC: small archives that mix the kinds of entries. *)
EXTENDS ZipWriter

File(n, d) == [kind |-> "file", size |-> n, deflate |-> d]
Other(k) == [kind |-> k, size |-> 0, deflate |-> FALSE]

\* A file compressed in two blocks, next to whole files, some of them larger
\* than the memory limit, directories, symlinks and skipped entries.
MCLayouts == {
  <<>>,
  <<File(4, TRUE), File(1, TRUE)>>,
  <<File(5, TRUE), File(4, TRUE)>>,
  <<File(0, TRUE), File(5, TRUE)>>,
  <<Other("dir"), File(3, FALSE), Other("symlink"), File(1, TRUE)>>,
  <<Other("skip"), File(2, TRUE), File(2, FALSE), Other("dir")>> }
=============================================================================
