----------------------------- MODULE MCInterface -----------------------------
(* Instances of Interface.                                                 *)
EXTENDS Interface

TwoSongs == <<"a", "b">>
OneLoaded == <<"b">>
OneList == {<<"a", "b", "c">>}
LowPanels == [hsplit |-> [left |-> 2, right |-> 2],
              vsplit |-> [left |-> 2, right |-> 1],
              single |-> [left |-> 4, right |-> 4]]

(* A file that is in the list or in a newer one of the server's: in the    *)
(* middle or past the end of the client's, or in none.                      *)
OneFile == [file : {"a"}, idx : {-1, 1, 3}]
=============================================================================
