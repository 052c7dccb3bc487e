--------------------------- MODULE DirectoryScript ---------------------------
(* A given prefix of steps, between which Drain lets every frame and every answer be
   handled; then gossip in turns for ever, the next node running its round when the round
   before has drained. *)
EXTENDS MCActorDirectory

VARIABLES step, turn
scriptVars == <<vars, step, turn>>

At(k, A) == step = k /\ A /\ step' = k + 1 /\ UNCHANGED turn
Receive(n, m) == ReceiveDelta(n, m) \/ ReceiveFull(n, m)

Quiet == \A n \in Nodes : \A m \in Peers(n) : net[n][m] = <<>> /\ reply[n][m] = None
Handle == \E n \in Nodes : \E m \in Peers(n) :
    \/ Receive(n, m) \/ SnapshotReply(n, m) \/ SequenceReply(n, m) \/ SendReply(n, m)
Drain(k) ==
    /\ step = k /\ UNCHANGED turn
    /\ \/ Handle /\ UNCHANGED step
       \/ Quiet /\ step' = k + 1 /\ UNCHANGED vars
Settle(k) ==
    /\ step = k /\ UNCHANGED step
    /\ \/ Handle /\ UNCHANGED turn
       \/ /\ Quiet /\ Round(turn)
          /\ turn' = IF turn = Cardinality(Nodes) THEN 1 ELSE turn + 1

ScriptInit == Init /\ step = 0 /\ turn = 1
=============================================================================
