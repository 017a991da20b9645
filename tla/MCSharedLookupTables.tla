----------------------- MODULE MCSharedLookupTables -----------------------
(* Instances of SharedLookupTables for TLC. *)
EXTENDS SharedLookupTables

\* The two markets share an address.
Curve == <<"a", "b">>
Swap  == <<"b", "c">>

\* A table from before: with part of the list, just enough room, or too little.
Old == {<<"b">>, <<"x", "a">>, <<"x", "y">>}

\* Two tables, one of them named twice.
Lists == {<<0, 1, 0>>}
=============================================================================
