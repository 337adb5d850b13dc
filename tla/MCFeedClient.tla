---------------------------- MODULE MCFeedClient ----------------------------
(***************************************************************************)
(* Instances of FeedClient for TLC.                                         *)
(***************************************************************************)
EXTENDS FeedClient, TLC

CONSTANTS open, adminOnly   \* an event every member may see, and one for admins

MCKinds == {open, adminOnly}
\* The runs of the pruner are interchangeable.
PrunerSymmetry == Permutations(Pruners)

MCRoles == {{open}, {open, adminOnly}}
=============================================================================
