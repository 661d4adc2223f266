------------------------------- MODULE MCSync -------------------------------
(***************************************************************************)
(* Small clusters for NodeSync: p and q propose in turn; x runs another    *)
(* network (a different chain id) on the same multicast group.             *)
(***************************************************************************)
EXTENDS NodeSync

CONSTANTS p, q, x, alien

Both == <<p, q>>
Mesh == [n \in Node |-> Node \ {n}]
Infos == [n \in Node |-> [wire |-> 2, min |-> 1, chain |-> IF n = x THEN 1 ELSE 0]]

\* Chains on disk at first: p one or two blocks ahead; x on its own chain.
OneAhead == [n \in Node |-> IF n = p THEN <<Block(p, {})>> ELSE << >>]
Ahead == [n \in Node |-> IF n = p THEN <<Block(p, {}), Block(q, {})>> ELSE << >>]
AlienStored == [n \in Node |-> IF n = x THEN <<Block(x, {alien})>> ELSE << >>]

NoFaults == {[lost |-> 0, restarts |-> 0]}
OneRestart == {[lost |-> 0, restarts |-> 1]}
OneFault == OneRestart \cup {[lost |-> 1, restarts |-> 0]}
=============================================================================
