----------------------------- MODULE MCDevices -----------------------------
(***************************************************************************)
(* The block devices of a host: the control paths of the ublk and the nbd  *)
(* manager.                                                                *)
(*                                                                         *)
(* UblkControl: two exports, three device ids, two crashes.  NbdDevices:   *)
(* two exports, three indices, two crashes and one retry.                  *)
(***************************************************************************)
EXTENDS UblkControl, NbdDevices

VARIABLE part

ControlCombos ==
    {{"fail", "overlap"}, {"refail"}, {"reboot", "fail"}, {"foreign", "fail"},
     {"slow", "early"}, {"slow", "early", "refail"}, {"unsaved"}}

NbdCombos ==
    {{"crash", "timeout", "foreign", "delete"}, {"crash", "unsaved", "delete"},
     {"session", "timeout", "unsent", "delete"}, {"drop"}}

-----------------------------------------------------------------------------
(* A behaviour is one of the two parts; the other stays where it starts    *)
(* and is owed no step.                                                    *)

InU == part = "ublk"
InN == part = "nbd"

IdleU == uMay = CHOOSE s \in UScenarios : TRUE
IdleN == nMay = CHOOSE s \in NScenarios : TRUE

MCInit ==
    /\ UInit /\ NInit
    /\ \/ InU /\ IdleN
       \/ InN /\ IdleU

MCNext ==
    \/ InU /\ UNext /\ UNCHANGED <<nvars, part>>
    \/ InN /\ NNext /\ UNCHANGED <<uvars, part>>

MCFairness ==
    /\ WF_uvars(InU /\ AddSteps)
    /\ WF_uvars(InU /\ BootSteps)
    /\ WF_uvars(InU /\ \E s \in sweep : SweepOrphan(s))
    /\ WF_uvars(InU /\ \E d \in dying : Unregister(d))
    /\ WF_uvars(InU /\ \E i \in UIds : KernelParks(i))
    /\ WF_nvars(InN /\ (NQueueStep \/ NCallStep))
    /\ WF_nvars(InN /\ (NBoot \/ NBootDone))
    /\ WF_nvars(InN /\ \E i \in NIndices : KernelReleases(i))

MCSpec == MCInit /\ [][MCNext]_<<uvars, nvars, part>> /\ MCFairness

\* Bounds: a third attach only beside ublk removals that overlap and ublk maps
\* that are not written, or NBD devices without a second death or failing write;
\* a single one where an early scan meets failing recoveries; and no step after
\* a map that misled about every export.
Bounds ==
    /\ uAsked <= 2 \/ uMay \cap {"overlap", "unsaved"} # {}
    /\ nPut <= 2 \/ (nDeaths <= 1 /\ "unsaved" \notin nMay)
    /\ uAsked <= 1 \/ ~({"early", "refail"} \subseteq uMay)
    /\ hist.misled # UExports

\* Neither manager stops, deletes or disconnects a device that is not its own or
\* not that of the export it was asked about.
OthersUntouched == ForeignUntouched /\ RemovesOnlyItsOwn

\* Both managers: after a crash every device of a guest is served again, and
\* every other device that waits for a server is taken away.
DevicesRecover == []<>(UblkRecovered /\ GuestsResumed)
=============================================================================
