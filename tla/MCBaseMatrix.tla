---------------------------- MODULE MCBaseMatrix ----------------------------
(* BaseMatrix on small matrices in one memory; see the README for the bounds. *)
EXTENDS BaseMatrix

MCOffsets == -1..2

View(at, height, width, stride) ==
    [at |-> at, height |-> height, width |-> width, stride |-> stride]

\* Packed and strided ones, vectors, an empty one, some on the same elements.
MCMatrices == { View(1, 2, 2, 2), View(5, 2, 2, 2), View(1, 2, 2, 3), View(2, 1, 3, 3),
                View(6, 2, 1, 2), View(5, 1, 2, 2), View(4, 1, 1, 1), View(3, 0, 2, 2) }
=============================================================================
