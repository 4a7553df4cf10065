------------------------------- MODULE MCDisk -------------------------------
(* Two processes and two drives of two cylinders with two sectors each: both  *)
(* processes miss a block of the one drive, and one of them uses the other.   *)
EXTENDS Disk
MCRequests == {<<"p1", "fd0", 1>>, <<"p2", "fd0", 2>>, <<"p2", "fd0", 1>>, <<"p2", "fd1", 1>>}
=============================================================================
