------------------------------ MODULE MCBoard ------------------------------
(* The board and the host on small instances:                               *)
(*  - uart: four bytes arriving as fast as frames allow, or whenever later; *)
(*  - bringup: three blocks of output at most, counters that wrap, one      *)
(*    spoiled line;                                                         *)
(*  - bench: three report blocks, one of them cold, under three command     *)
(*    lines, whole or cut at either end, with up to two lines lost.         *)
EXTENDS Board

MCWindows == {<<1, 39>>, <<5, 39>>, <<1, 30>>}
MCHits == {1 .. 3, {2}}

Option(m, n, w, t, s) ==
  [mode |-> m, minBlocks |-> n, warmup |-> w, tolerance |-> t, allowShort |-> s]
MCOptions == {Option("score", 2, 1, 2, FALSE), Option("score", 1, 0, 0, TRUE),
              Option("functional", 1, 0, 0, FALSE)}
=============================================================================
