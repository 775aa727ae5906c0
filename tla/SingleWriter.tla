------------------------------ MODULE SingleWriter ------------------------------
(*****************************************************************************)
(* What the manifest object of a volume promises to the nodes that share it, *)
(* whatever their number and the protocol between them: a pack that has been *)
(* published stays published, and a publication is acknowledged to its node  *)
(* (which then evicts its only local copy) only once it has been published.  *)
(*****************************************************************************)
EXTENDS FiniteSets

CONSTANT Edits

VARIABLES
    published,   \* the packs the stored manifest refers to
    acked        \* the packs whose publication some node was told about

Init == /\ published \in SUBSET Edits
        /\ acked = {}

Publish == /\ published' \in SUBSET Edits
           /\ published \subseteq published'
           /\ acked' = acked

Acknowledge == /\ acked' \in SUBSET published
               /\ acked \subseteq acked'
               /\ published' = published

Spec == Init /\ [][Publish \/ Acknowledge]_<<published, acked>>
=============================================================================
