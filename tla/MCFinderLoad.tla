---------------------------- MODULE MCFinderLoad ----------------------------
(* FinderLoad for TLC: one root with two levels below it, or two roots. *)
EXTENDS FinderLoad

MCDirOrder == << <<"t">>, <<"t", "a">>, <<"t", "a", "b">> >>
MCDirOrderExcluded == << <<"t">>, <<"t", "a">>, <<"t", "a", "b">>, <<"t", "out">> >>
MCDirOrderTwo == << <<"t">>, <<"u">> >>
MCRoots == {<<"t">>}
MCRootsTwo == {<<"t">>, <<"u">>}
=============================================================================
