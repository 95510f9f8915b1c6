------------------------------ MODULE Chronicle ------------------------------
(***************************************************************************)
(* What the game promises of what it tells its players.  There is one log  *)
(* of everything said, each part of it meant for some of the players; a    *)
(* player that joins is told what is said from then on, in the order of    *)
(* the log, and nothing twice.  Two players that hear the same things      *)
(* therefore hear them in the same order.  Nobody misses a part, except a  *)
(* player that falls behind.                                               *)
(***************************************************************************)
EXTENDS Naturals, Sequences

CONSTANTS
    Player,     \* the players
    MaxLen      \* parts of the longest message

VARIABLES
    log,    \* the parts of what was said, each the set of those it is for
    shown,  \* player |-> the last part shown to it, or when it joined
    whole   \* the players that have missed nothing since they joined

chronicleVars == <<log, shown, whole>>

Said(S, k) == log \o [i \in 1..k |-> S]

Owed(p) == {n \in (shown[p] + 1)..Len(log) : p \in log[n]}

ChronicleInit == /\ log = <<>>
                 /\ shown = [p \in Player |-> 0]
                 /\ whole = Player

Say(S, k) == log' = Said(S, k) /\ UNCHANGED <<shown, whole>>

\* A player that joins is greeted by k parts or by none.
Join(p, k) == /\ log' = Said({p}, k)
              /\ shown' = [shown EXCEPT ![p] = Len(log)]
              /\ whole' = whole \cup {p}

Show(p, n) == /\ n \in Owed(p)
              /\ p \in whole => \A m \in Owed(p) : n <= m
              /\ shown' = [shown EXCEPT ![p] = n]
              /\ UNCHANGED <<log, whole>>

FallBehind(p) == whole' = whole \ {p} /\ UNCHANGED <<log, shown>>

ChronicleNext == \/ \E S \in SUBSET Player, k \in 0..MaxLen : Say(S, k)
                 \/ \E p \in Player : \/ \E k \in 0..MaxLen : Join(p, k)
                                      \/ \E n \in Owed(p) : Show(p, n)
                                      \/ FallBehind(p)

ChronicleSpec == ChronicleInit /\ [][ChronicleNext]_chronicleVars

=============================================================================
