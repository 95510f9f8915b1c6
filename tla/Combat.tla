------------------------------- MODULE Combat -------------------------------
(***************************************************************************)
(* The characters of the game and their fights: Character (character.cpp), *)
(* CombatController (combatController.cpp) and the skill that starts a     *)
(* fight, SkillsActions::matar.                                            *)
(*                                                                         *)
(* A Character is a heap object named by its address.  Each keeps a        *)
(* std::set of raw pointers to the characters it fights; nothing but the   *)
(* code below keeps the two sets of a fight in step, and nothing but the   *)
(* test can_quit() stands between a delete and a dangling pointer.         *)
(*                                                                         *)
(* Where a character stands, whose turn it is and when its heart beats are *)
(* the server's business (module Server): here any fighter may strike any  *)
(* of its opponents at any time.                                           *)
(***************************************************************************)
EXTENDS Integers, FiniteSets

CONSTANTS
    Addr,       \* the addresses a Character object may have
    MaxPvs,     \* life of a new character (300 in character.h)
    Roll        \* the values of rand()%10

ASSUME CombatAssumption ==
    /\ MaxPvs \in Nat       \* a new character is alive
    /\ Roll \subseteq 0..9  \* what rand()%10 can return

VARIABLES
    chars,      \* the live Character objects
    pvs,        \* life of each; an unused address holds MaxPvs
    in_combat   \* whom each fights; an unused address holds {}

combatVars == <<chars, pvs, in_combat>>

CombatInit == /\ chars = {}
              /\ pvs = [a \in Addr |-> MaxPvs]
              /\ in_combat = [a \in Addr |-> {}]

-----------------------------------------------------------------------------
(***************************************************************************)
(* Character.                                                              *)
(***************************************************************************)

is_alive(a) == pvs[a] >= 0

is_in_combat(a) == in_combat[a] # {}

\* Faulty variant: the test reads the life instead of the fights.
can_quit_when_alive(a) == is_alive(a)

can_quit(a) == ~is_in_combat(a)

NewCharacter(a) == /\ a \notin chars
                   /\ chars' = chars \cup {a}
                   /\ pvs' = [pvs EXCEPT ![a] = MaxPvs]
                   /\ in_combat' = [in_combat EXCEPT ![a] = {}]

\* The delete expression, which asks nothing.
Delete(a) == /\ chars' = chars \ {a}
             /\ pvs' = [pvs EXCEPT ![a] = MaxPvs]
             /\ in_combat' = [in_combat EXCEPT ![a] = {}]

\* The server deletes a player only if can_quit() lets it leave.
DeleteCharacter(a) == /\ a \in chars
                      /\ can_quit(a)
                      /\ Delete(a)

-----------------------------------------------------------------------------
(***************************************************************************)
(* SkillsActions::matar.  The spirit of a dead player may not start a      *)
(* fight, nobody fights himself or the dead.                               *)
(***************************************************************************)

\* Faulty variant: the life of the victim is not looked at.
MayFightTheDead(p, c) == is_alive(p) /\ c # p

MayFight(p, c) == /\ is_alive(p)
                  /\ c # p
                  /\ is_alive(c)

\* Faulty variant: only the attacker learns of the fight.
StartFightOneSided(p, c) ==
    in_combat' = [in_combat EXCEPT ![p] = @ \cup {c}]

StartFight(p, c) ==
    in_combat' = [in_combat EXCEPT ![p] = @ \cup {c}, ![c] = @ \cup {p}]

Matar(p, c) == /\ MayFight(p, c)
               /\ StartFight(p, c)
               /\ UNCHANGED <<chars, pvs>>

-----------------------------------------------------------------------------
(***************************************************************************)
(* CombatController::injure_mele and injure.  The damage of a blow is      *)
(* (10 + rand()%10) * 0.9 truncated to an int: 9 to 17.                    *)
(***************************************************************************)

Mal(r) == ((10 + r) * 9) \div 10

\* The opponents of p forget p, then Character::die() clears p's own list.
AfterDeath(p) ==
    [a \in Addr |-> IF a = p THEN {}
                    ELSE IF a \in in_combat[p] THEN in_combat[a] \ {p}
                    ELSE in_combat[a]]

\* Faulty variant: a character left with exactly 0 points is taken for dead.
injure_dies_at_zero(p, mal) ==
    /\ pvs' = [pvs EXCEPT ![p] = @ - mal]
    /\ in_combat' = IF pvs[p] - mal > 0 THEN in_combat ELSE AfterDeath(p)

injure(p, mal) ==
    /\ pvs' = [pvs EXCEPT ![p] = @ - mal]
    /\ in_combat' = IF is_alive(p)' THEN in_combat ELSE AfterDeath(p)

injure_mele(from, to, r) == /\ injure(to, Mal(r))
                            /\ UNCHANGED chars

\* A fighter strikes one of its opponents.
Strike(from, to, r) == /\ to \in in_combat[from]
                       /\ injure_mele(from, to, r)

-----------------------------------------------------------------------------
CombatNext ==
    \E a \in Addr :
        \/ NewCharacter(a)
        \/ DeleteCharacter(a)
        \/ \E b \in Addr :
              \/ {a, b} \subseteq chars /\ Matar(a, b)
              \/ \E r \in Roll : Strike(a, b, r)

CombatSpec == CombatInit /\ [][CombatNext]_combatVars

-----------------------------------------------------------------------------
(***************************************************************************)
(* Properties.                                                             *)
(***************************************************************************)

(***************************************************************************)
(* The type invariant.  A life never falls further below zero than the     *)
(* heaviest blow, 17, because nobody strikes the dead.                     *)
(***************************************************************************)
CombatTypeOK == /\ chars \subseteq Addr
                /\ pvs \in [Addr -> (-Mal(9))..MaxPvs]
                /\ in_combat \in [Addr -> SUBSET Addr]

(***************************************************************************)
(* The two sets of a fight stay in step: matar inserts on both sides and   *)
(* injure erases on both, so whoever is attacked can strike back and no    *)
(* death leaves a pointer to the dead in an opponent's list.  Nobody is in *)
(* his own list: injure walks the list of the fallen while it erases the   *)
(* fallen from the lists it finds, which would invalidate its iterator.    *)
(***************************************************************************)
Mutual == \A a, b \in Addr :
             b \in in_combat[a] => a # b /\ a \in in_combat[b]

(***************************************************************************)
(* No fighter's list holds a pointer to an object that has been deleted:   *)
(* the delete of an idle character cannot leave one behind, although only  *)
(* the character's own list is consulted.                                  *)
(***************************************************************************)
NoDanglingFighter == \A a \in Addr : in_combat[a] \subseteq chars

(***************************************************************************)
(* The dead are at peace: they fight nobody and nobody fights them, so     *)
(* they can quit and are never struck again.                               *)
(***************************************************************************)
DeadAtPeace == \A a \in chars : ~is_alive(a) =>
                  /\ can_quit(a)
                  /\ \A b \in Addr : a \notin in_combat[b]

(***************************************************************************)
(* Death is final: as long as the object lives, a dead character neither   *)
(* revives nor takes another blow.                                         *)
(***************************************************************************)
DeathIsFinal ==
    [][\A a \in chars : ~is_alive(a) /\ a \in chars' => pvs'[a] = pvs[a]]_combatVars

(***************************************************************************)
(* Combat keeps the promise of module Fights: a fight is a pair of living  *)
(* characters, entered from either side, and only a death ends it.         *)
(***************************************************************************)
living == {a \in chars : is_alive(a)}

fights == UNION {{{a, b} : b \in in_combat[a]} : a \in Addr}

F == INSTANCE Fights WITH Fighter <- Addr, living <- living, fights <- fights

FightsKept == F!FightsSpec

=============================================================================
