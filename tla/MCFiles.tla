------------------------------ MODULE MCFiles ------------------------------
(* Two processes over two directories, a program with two names and a device. *)
EXTENDS Files
MCInodeOf == [dir1 |-> "D1", dir2 |-> "D2", prog |-> "F", link |-> "F", tty |-> "T"]
MCLookups ==
    {<<"stat", "link">>, <<"open_r", "prog">>, <<"open_w", "link">>, <<"open_r", "dir2">>,
     <<"open_r", "tty">>, <<"chdir", "dir1">>, <<"chdir", "dir2">>, <<"chdir", "prog">>,
     <<"mount", "dir2">>, <<"exec", "prog">>}
=============================================================================
