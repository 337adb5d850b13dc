---------------------------- MODULE MCLiveBoard ----------------------------
(***************************************************************************)
(* Instances of LiveBoard for TLC: two cards, three commits, one read and   *)
(* one request of the page.                                                 *)
(***************************************************************************)
EXTENDS LiveBoard, TLC

All == {"create", "edit", "move", "archive", "restore", "delete"}

Quietly == [ops |-> {"move"}, inOrder |-> FALSE, lossy |-> FALSE, gaps |-> FALSE,
            top |-> FALSE, own |-> FALSE, reads |-> FALSE]

\* Frames in any order and lost, around a read and a request of the page.
Disorder == [Quietly EXCEPT !.ops = {"edit", "move"}, !.lossy = TRUE, !.own = TRUE, !.reads = TRUE]

\* Everything the board's users do, the frames in order, around a request of the
\* page and a read.
Order == [Quietly EXCEPT !.ops = All, !.inOrder = TRUE, !.own = TRUE, !.reads = TRUE]

\* A gap of the socket.
Gap(ops) == [Quietly EXCEPT !.ops = ops, !.inOrder = TRUE, !.gaps = TRUE]

\* Drops at the top of a cell, the frames in any order or around a read; around a
\* read also where cards are created and restored.
Drops == {[Quietly EXCEPT !.ops = {"move", "archive", "delete"}, !.top = TRUE,
                          !.inOrder = i, !.reads = i] : i \in BOOLEAN}
         \cup {[Order EXCEPT !.ops = All \ {"edit"}, !.top = TRUE, !.own = FALSE]}

PassingWorlds ==
    {Disorder, Order, Gap({"edit", "move", "delete"}), Gap({"edit", "archive", "delete"})} \cup Drops

Symmetry == Permutations(Cards)
=============================================================================
