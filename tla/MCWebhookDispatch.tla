-------------------------- MODULE MCWebhookDispatch --------------------------
(***************************************************************************)
(* Instances of WebhookDispatch for TLC.                                    *)
(***************************************************************************)
EXTENDS WebhookDispatch, TLC

CONSTANTS card, comment

MCKinds == {card, comment}
MCReadable == {card, comment}
MCTypesets == {{card}, {card, comment}}

MCOneKind == {card}
MCOneType == {{card}}

MCOwnerOps == {"reconfigure", "disable", "reenable", "lose"}
MCOtherOps == {"types", "reenable"}

\* Runs are interchangeable; used for safety only.
RunSymmetry == Permutations(Dispatchers)
=============================================================================
