---------------------------- MODULE MCCardHistory ----------------------------
(***************************************************************************)
(* Instances of CardHistory for TLC.  Cards do not interact there, so one    *)
(* card stands for all.                                                     *)
(***************************************************************************)
EXTENDS CardHistory

WithAdmin    == {"admin"}
=============================================================================
