----------------------------- MODULE MCNbdServer -----------------------------
(******************************************************************************)
(* Two sessions of at most two requests, three in all; a scenario holds the   *)
(* requests and failures that meet.                                           *)
(******************************************************************************)
EXTENDS NbdServer

SessionCombos ==
  { {"write", "flush", "fail"}, {"fua", "flush", "disc"}, {"write", "disc", "replace"},
    {"fua", "panic"}, {"read", "write", "panic"}, {"flush", "panic"},
    {"write", "bad", "stop", "garble"}, {"write", "disc", "fail", "vanish"},
    {"write", "broken", "abort"}, {"write", "bad", "stall", "stop", "vanish"},
    {"write", "stall", "broken", "vanish"} }

\* A request of another session runs between the panic and the mark.
PanicRace == { {"write", "read", "panic"} }

\* A session that stays open while its export is resized.
OpenResize == { {"write", "replace"} }
================================================================================
