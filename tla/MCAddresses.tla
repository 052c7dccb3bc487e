---------------------------- MODULE MCAddresses ----------------------------
(***************************************************************************)
(* Small instances of AddressClaims: two peers, two addresses.             *)
(***************************************************************************)
EXTENDS AddressClaims, TLC

MCSessionOf ==
    1 :> [peer |-> "p", source |-> "x", target |-> "x", inbound |-> TRUE]
 @@ 2 :> [peer |-> "p", source |-> "y", target |-> "x", inbound |-> TRUE]
 @@ 3 :> [peer |-> "q", source |-> "x", target |-> "x", inbound |-> TRUE]
 @@ 4 :> [peer |-> "p", source |-> "y", target |-> "y", inbound |-> FALSE]

MCRequestOf == 1 :> [peer |-> "p", addr |-> "x"] @@ 2 :> [peer |-> "p", addr |-> "y"]
MCRefreshOf == 1 :> [from |-> "x", to |-> "y"]

Quiet == [sessions |-> {}, frames |-> {}, rejected |-> {}, sweeps |-> {}, requests |-> {},
          refreshes |-> {}, routes |-> {}, known |-> {}, responds |-> FALSE, aborts |-> FALSE,
          evicts |-> FALSE]

PassScenarios ==
    { [Quiet EXCEPT !.sessions = {1, 3}, !.rejected = {1}, !.sweeps = {1}, !.aborts = TRUE],
      [Quiet EXCEPT !.sessions = {1, 3}, !.rejected = {1}, !.frames = {1, 3}],
      [Quiet EXCEPT !.sessions = {1, 2}, !.sweeps = {1}],
      [Quiet EXCEPT !.sessions = {1, 2}, !.frames = {2}],
      [Quiet EXCEPT !.sessions = {1}, !.sweeps = {1}, !.requests = {1, 2}],
      [Quiet EXCEPT !.sessions = {1}, !.requests = {1, 2}, !.routes = {<<"p", "x">>}],
      [Quiet EXCEPT !.sessions = {1}, !.frames = {1}, !.refreshes = {1}, !.sweeps = {1}],
      [Quiet EXCEPT !.sessions = {1, 4}, !.refreshes = {1}],
      [Quiet EXCEPT !.sessions = {1}, !.sweeps = {1, 2}, !.responds = TRUE, !.known = {"y"}],
      [Quiet EXCEPT !.sessions = {1, 3}, !.evicts = TRUE, !.known = {"y"}],
      [Quiet EXCEPT !.sessions = {1}, !.evicts = TRUE, !.known = {"y"}, !.requests = {1}],
      [Quiet EXCEPT !.sessions = {1, 2}, !.evicts = TRUE, !.known = {"y"}],
      [Quiet EXCEPT !.sessions = {1, 2}, !.evicts = TRUE, !.rejected = {1}] }
=============================================================================
