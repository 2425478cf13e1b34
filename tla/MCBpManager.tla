---------------------------- MODULE MCBpManager ----------------------------
(***************************************************************************)
(* BpManager on a small pool: three nodes, two user slots, two files and   *)
(* the addresses 0, 1, 2.  The requests hold an empty list, a breakpoint   *)
(* at 0 before and after another one, and a duplicate; two of them         *)
(* together pass the limit.  A step-out with two exits exhausts the pool.  *)
(***************************************************************************)
EXTENDS BpRefinement

CONSTANTS f1, f2

MCFiles    == {f1, f2}
MCRequests == {<<>>, <<0, 0>>, <<0, 1>>, <<2>>}
MCExits    == {<<0, 2>>, <<1, 1>>}
=============================================================================
