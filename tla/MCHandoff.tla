----------------------------- MODULE MCHandoff -----------------------------
(******************************************************************************)
(* Two volumes, one handoff, two writes and one death: the writes fall        *)
(* before, in and after the freeze, and every scenario of Handoff.cfg adds    *)
(* the failures that meet.                                                    *)
(******************************************************************************)
EXTENDS Handoff
=============================================================================
