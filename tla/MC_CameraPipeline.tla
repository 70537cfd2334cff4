-------------------------- MODULE MC_CameraPipeline --------------------------
(* A line of boxes of width 4: A and B, and B and C, are similar, A and C not. *)
EXTENDS CameraPipeline

At(x, width) == [x |-> x, y |-> 0, width |-> width, height |-> 1]

Gate(box) == [box |-> box, passed |-> TRUE]

A == Gate(At(0, 4))
B == Gate(At(1, 4))
C == Gate(At(3, 4))
Line == Gate(At(0, 0))
Faint == [box |-> At(0, 4), passed |-> FALSE]

MCScenes == {<<>>, <<A>>, <<B, A>>, <<C, A, B>>, <<C, Faint, Line>>}
=============================================================================
