----------------------------- MODULE MCZipLayout -----------------------------
(* ZipLayout for TLC. *)
EXTENDS ZipLayout

Meta(n) == <<"META-INF", n>>

\* In the byte order of the joined strings.
MCNameOrder == << <<"META-INF">>, Meta("A"), Meta("MANIFEST.MF"), Meta("S"),
                  <<"a">>, <<"a", "b">>, <<"a", "b", "c">>, <<"b">> >>

M(d, k) == [dest |-> d, kind |-> k, javaDest |-> <<>>]

\* Files and directories that nest and clash, a signature next to the manifest,
\* a user's own manifest, a .java file b that srcjar moves into directory a.
MCMappings ==
  {M(<<"a">>, "file"), M(<<"a">>, "dir"), M(<<"a", "b">>, "file"),
   M(<<"a", "b", "c">>, "symlink"), M(<<"a", "b">>, "missing"), M(<<"b">>, "other"),
   M(Meta("A"), "file"), M(<<"META-INF">>, "dir"),
   M(ManifestFile, "file"),
   [dest |-> <<"b">>, kind |-> "file", javaDest |-> <<"a", "b">>]}
=============================================================================
