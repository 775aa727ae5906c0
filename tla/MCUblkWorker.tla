----------------------------- MODULE MCUblkWorker -----------------------------
(******************************************************************************)
(* One worker with a buffer pool and an inbox of one place and a mask of two  *)
(* words of two slots, and two devices of two queues: a removal or a refusal  *)
(* leaves a sibling, and the first word holds a task beside the daemon.       *)
(******************************************************************************)
EXTENDS UblkWorker, TLC

CONSTANTS wd1, wd2

\* Two devices of two queues.
TwoEach == (wd1 :> 2) @@ (wd2 :> 2)

\* Where a late wake meets an empty pool it takes four requests to lose a wake,
\* and the device is not removed meanwhile; elsewhere two requests contend for
\* the buffer.  Of two devices the first is called wd1, and it is the one that
\* is removed.
Bounds ==
  /\ {"scarce", "late"} \subseteq wkMay => unreg[wd1].pc = "idle"
  /\ WkMay("scarce") /\ ~WkMay("late") => ios.asks >= MaxIos - 2
  /\ reg[wd2].pc # "idle" => reg[wd1].pc # "idle"
  /\ unreg[wd2].pc = "idle"
=============================================================================
