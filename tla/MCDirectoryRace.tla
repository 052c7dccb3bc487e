--------------------------- MODULE MCDirectoryRace ---------------------------
(* Node 1 unregisters its actor x while another call at node 1 registers x again: the new
   registration takes its clock before the unregister has written the tombstone.  The two
   critical sections run in either order, and gossip follows for ever. *)
EXTENDS DirectoryScript

RaceScenarios == {[Still EXCEPT !.regs = 2, !.hosts = {1}]}

Prefix ==
    \/ At(0, RegisterBegin(1, "x", 1, "normal")) \/ At(1, RegisterEnd(1, 1)) \/ At(2, Round(1))
    \/ Drain(3)
    \/ At(4, UnregisterBegin(1, "x")) \/ At(5, RegisterBegin(1, "x", 1, "normal"))
    \/ At(6, UnregisterEnd(1, 1) \/ RegisterEnd(1, 2)) \/ At(7, UnregisterEnd(1, 1) \/ RegisterEnd(1, 2))

RaceSpec ==
    /\ ScriptInit /\ [][Prefix \/ Settle(8)]_scriptVars
    /\ WF_scriptVars(Prefix \/ Settle(8))
=============================================================================
