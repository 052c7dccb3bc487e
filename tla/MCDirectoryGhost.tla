-------------------------- MODULE MCDirectoryGhost --------------------------
(* Three nodes.  2 and 3 register and unregister actors of their own until their sequence
   is as high as 1's will be; 1 registers x and everybody learns it; 1 unregisters it, and
   3 runs a round after 2 has read the full sync of 1 that omits x and before reading its
   own. *)
EXTENDS DirectoryScript

GhostScenarios == {[Still EXCEPT !.regs = 3, !.hosts = Nodes, !.crossing = Nodes]}

Prefix ==
    \/ At(0, RegisterBegin(2, "y", 1, "normal")) \/ At(1, RegisterEnd(2, 1)) \/ At(2, Round(2))
    \/ Drain(3)
    \/ At(4, UnregisterBegin(2, "y")) \/ At(5, UnregisterEnd(2, 1)) \/ At(6, Round(2)) \/ Drain(7)
    \/ At(8, Round(3)) \/ Drain(9)
    \/ At(10, RegisterBegin(3, "z", 1, "normal")) \/ At(11, RegisterEnd(3, 1)) \/ At(12, Round(3))
    \/ Drain(13)
    \/ At(14, RegisterBegin(1, "x", 1, "normal")) \/ At(15, RegisterEnd(1, 1)) \/ At(16, Round(1))
    \/ Drain(17)
    \/ At(18, UnregisterBegin(1, "x")) \/ At(19, UnregisterEnd(1, 1)) \/ At(20, Round(1))
    \/ At(21, Receive(2, 1)) \/ At(22, Round(3)) \/ At(23, Receive(2, 3))

GhostSpec ==
    /\ ScriptInit /\ [][Prefix \/ Settle(24)]_scriptVars
    /\ WF_scriptVars(Prefix \/ Settle(24))
=============================================================================
