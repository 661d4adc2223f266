--------------------------- MODULE ReplicatedLog ---------------------------
(***************************************************************************)
(* What a cluster of nodes with one validator list promises, with no       *)
(* messages, files, crashes or keys in sight: there is one log; it grows   *)
(* one entry at a time, each written by the writer of its slot and only    *)
(* when that writer holds everything before it; every member holds a       *)
(* prefix of the log, which only ever gets longer.                         *)
(***************************************************************************)
EXTENDS Naturals, Sequences, SequencesExt

CONSTANTS
    Member,
    Writer(_)     \* Writer(slot): who writes a slot

VARIABLES
    log,          \* the log
    held          \* held[n]: what member n holds of it

Init ==
    /\ log = << >>
    /\ held = [n \in Member |-> << >>]

Write(n) ==
    /\ n = Writer(Len(log) + 1)
    /\ held[n] = log
    /\ IsPrefix(log, log') /\ Len(log') = Len(log) + 1
    /\ held' = [held EXCEPT ![n] = log']

Learn(n) ==
    /\ \E k \in (Len(held[n]) + 1)..Len(log) :
          held' = [held EXCEPT ![n] = SubSeq(log, 1, k)]
    /\ UNCHANGED log

Next == \E n \in Member : Write(n) \/ Learn(n)

Spec == Init /\ [][Next]_<<log, held>>
=============================================================================
