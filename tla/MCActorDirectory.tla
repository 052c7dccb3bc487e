------------------------- MODULE MCActorDirectory --------------------------
(* Instances of ActorDirectory for TLC: what the environment may do in each. *)
EXTENDS ActorDirectory

Still == [regs |-> 1, reaps |-> 0, expiries |-> 0, forgotten |-> 0, outages |-> 0,
          restarts |-> 0, hosts |-> {1, 2}, dialers |-> {1, 2}, priorities |-> {"normal"},
          crossing |-> {}, removers |-> {1, 2}]

(* Two registrations of a name, with calls that overlap at its host, or by either node; a
   restart with immediate gossip, an actor expiry and a tombstone expiry; an outage and a
   reap. *)
SafetyScenarios ==
    {[Still EXCEPT !.regs = 2, !.hosts = {1}],
     [Still EXCEPT !.regs = 2, !.removers = {1}],
     [Still EXCEPT !.restarts = 1, !.forgotten = 1, !.expiries = 1, !.hosts = {1},
                   !.priorities = {"immediate"}],
     [Still EXCEPT !.outages = 1, !.reaps = 1, !.hosts = {1}]}

(* For liveness: an actor that is removed while its host's rounds cross; an outage and a reap
   of one that is removed meanwhile, or stays while rounds cross; a restart of either node
   with one that is removed, or stays while rounds cross. *)
Reaped == [Still EXCEPT !.outages = 1, !.reaps = 1, !.hosts = {1}, !.dialers = {2}]
Restarted == [Still EXCEPT !.restarts = 1, !.hosts = {1}]
FairScenarios ==
    {[Still EXCEPT !.hosts = {1}, !.crossing = {1}],
     Reaped, [Reaped EXCEPT !.removers = {}, !.crossing = Nodes],
     Restarted, [Restarted EXCEPT !.removers = {}, !.crossing = Nodes]}
=============================================================================
