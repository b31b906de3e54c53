--------------------------- MODULE MCServerExchange ---------------------------
(* Instances of ServerExchange for TLC.                                      *)
EXTENDS ServerExchange, TLC

Interchangeable == Permutations(Threads) \cup Permutations(Servers)

(* What decides the future: not the history variable, nor the locals of a  *)
(* query_servers call that has returned, nor the level and the transport   *)
(* of the attempt before when ChooseLevel is about to choose them.         *)
Live(f, t) == IF pc[t] = "idle" THEN NoWalk ELSE f[t]
Chosen(t) == IF pc[t] \in {"loop", "level"}
             THEN [ex[t] EXCEPT !.level = Udp, !.transport = "udp"] ELSE ex[t]
Relevant == <<modeVars, sharedVars, pc, [t \in Threads |-> Chosen(t)],
              [t \in Threads |-> Live(budget, t)], [t \in Threads |-> Live(walk, t)]>>
=============================================================================
