------------------------------- MODULE Skills -------------------------------
(***************************************************************************)
(* The commands of the game and the life of one that was typed:            *)
(* SkillsController (skillsController.cpp), Skill (skill.cpp),             *)
(* GMP_Procotol::parse (gmp.cpp) and the queue skills_to_do of a Player    *)
(* (player.cpp).                                                           *)
(*                                                                         *)
(* init_skills() fills two tables by name and one of handlers by id.  What *)
(* a client types is looked up by name and copied with new; the copy goes  *)
(* by raw pointer from get_skill_by_name() to parse(), from there to the   *)
(* queue of the player, and to flush_commands(), which runs the handler of *)
(* its id and deletes it.  Nobody else ever frees a copy, neither parse()  *)
(* when it refuses one nor the destructor of a player.                     *)
(*                                                                         *)
(* What the handlers do is the business of module Server; here they matter *)
(* for who leaves.  A hang-up is noted and served in one step, since no    *)
(* command runs in between.                                                *)
(***************************************************************************)
EXTENDS Naturals, FiniteSets, Sequences, SequencesExt

CONSTANTS
    PlayerId,   \* the players
    Copy,       \* the addresses a copied Skill may have
    Typed       \* the words clients begin their lines with

(***************************************************************************)
(* init_skills().  Every command has the function of its own name for a    *)
(* handler; one with turns is an HBSkill.  "tell" is there twice.          *)
(***************************************************************************)
Command(names, type, turns) ==
    [i \in 1..Len(names) |-> [name |-> names[i], type |-> type, turns |-> turns]]

Commands ==
    Command(<<"n", "ne", "e", "se", "s", "so", "o", "no", "decir", "matar">>, "character", 0)
    \o Command(<<"glance", "sc", "tell", "salir", "ficha", "peleas", "stoppeleas",
                 "tell", "gcritico">>, "player", 0)
    \o Command(<<"golpear">>, "player", 1)
    \o Command(<<"formular">>, "player", 0)

VARIABLES
    added,              \* how many commands init_skills() has registered
    id,                 \* its counter
    character_skills,   \* name |-> Skill of the table, its id and its class
    player_skills,      \* the same of the other table
    skill_handlers,     \* id |-> name of the handler
    phase,              \* where the loop of main() is
    unread,             \* the clients this tick may still read
    todo,               \* the players execute_commands() has still to visit
    state,              \* player |-> "out", "Normal", "Disconnected" or "leaving"
    skills,             \* player |-> the ids it possesses
    skills_to_do,       \* player |-> its queue of copies
    copies              \* address |-> live copy: id, class, and what was typed

registryVars == <<added, id, character_skills, player_skills, skill_handlers>>

playerVars == <<state, skills, skills_to_do>>

skillsVars == <<registryVars, playerVars, phase, unread, todo, copies>>

Empty == [x \in {} |-> {}]

SkillsInit == /\ added = 0
              /\ id = 1
              /\ character_skills = Empty
              /\ player_skills = Empty
              /\ skill_handlers = Empty
              /\ phase = "init"
              /\ unread = {}
              /\ todo = <<>>
              /\ state = [p \in PlayerId |-> "out"]
              /\ skills = [p \in PlayerId |-> {}]
              /\ skills_to_do = [p \in PlayerId |-> <<>>]
              /\ copies = Empty

-----------------------------------------------------------------------------
(***************************************************************************)
(* The registry.                                                           *)
(***************************************************************************)
Assign(f, x, v) == [y \in DOMAIN f \cup {x} |-> IF y = x THEN v ELSE f[y]]

class(c) == IF c.turns = 0 THEN "Skill" ELSE "HBSkill"

Tabled(table, type, c) ==
    IF c.type = type THEN Assign(table, c.name, [id |-> id, class |-> class(c)]) ELSE table

\* Faulty variant: the counter stays where it is.
add_skill_same_id(c) ==
    /\ character_skills' = Tabled(character_skills, "character", c)
    /\ player_skills' = Tabled(player_skills, "player", c)
    /\ skill_handlers' = Assign(skill_handlers, id, c.name)
    /\ id' = id

add_skill(c) ==
    /\ character_skills' = Tabled(character_skills, "character", c)
    /\ player_skills' = Tabled(player_skills, "player", c)
    /\ skill_handlers' = Assign(skill_handlers, id, c.name)
    /\ id' = id + 1

init_skills == /\ phase = "init"
               /\ added < Len(Commands)
               /\ add_skill(Commands[added + 1])
               /\ added' = added + 1
               /\ UNCHANGED <<playerVars, phase, unread, todo, copies>>

Ready == /\ phase = "init" /\ added = Len(Commands)
         /\ phase' = "accept"
         /\ UNCHANGED <<registryVars, playerVars, unread, todo, copies>>

\* The players' table is looked at first.
Known(name) == name \in DOMAIN player_skills \cup DOMAIN character_skills

found(name) == IF name \in DOMAIN player_skills THEN player_skills[name]
                                                ELSE character_skills[name]

\* The tables hold pointers to Skill and clone() is not virtual: the copy of
\* an HBSkill is a Skill, without turns.
get_skill_by_name(name, c) ==
    /\ c \in Copy \ DOMAIN copies
    /\ copies' = Assign(copies, c, [id |-> found(name).id, class |-> "Skill", name |-> name])

ids(table) == {table[name].id : name \in DOMAIN table}

-----------------------------------------------------------------------------
(***************************************************************************)
(* accept: a new Player gets all commands there are and a glance to run.   *)
(* A statue is replaced, and its queue forgotten with it.  A login over a  *)
(* live connection creates nothing.                                        *)
(***************************************************************************)
\* Faulty variant: the commands of the second table are forgotten.
init_player_half == ids(character_skills)

init_player == ids(character_skills) \cup ids(player_skills)

create_player(p) ==
    \E c \in Copy :
        /\ get_skill_by_name("glance", c)
        /\ skills' = [skills EXCEPT ![p] = init_player]
        /\ skills_to_do' = [skills_to_do EXCEPT ![p] = <<c>>]
        /\ state' = [state EXCEPT ![p] = "Normal"]

Login(p) == /\ phase = "accept"
            /\ state[p] # "Normal"
            /\ create_player(p)
            /\ phase' = "read"
            /\ unread' = {q \in PlayerId : state'[q] = "Normal"}
            /\ UNCHANGED <<registryVars, todo>>

NobodyNew == /\ phase = "accept"
             /\ phase' = "read"
             /\ unread' = {q \in PlayerId : state[q] = "Normal"}
             /\ UNCHANGED <<registryVars, playerVars, todo, copies>>

-----------------------------------------------------------------------------
(***************************************************************************)
(* read: every client is read at most once.                                *)
(***************************************************************************)
Read(p) == /\ phase = "read" /\ p \in unread
           /\ unread' = unread \ {p}
           /\ UNCHANGED <<registryVars, phase, todo, skills>>

NotValid(p, name) == /\ Read(p)
                     /\ ~Known(name)
                     /\ UNCHANGED <<state, skills_to_do, copies>>

\* push_command(), or the copy is dropped.
parse(p, name) ==
    /\ Read(p)
    /\ Known(name)
    /\ \E c \in Copy :
          /\ get_skill_by_name(name, c)
          /\ skills_to_do' = IF copies'[c].id \in skills[p]
                             THEN [skills_to_do EXCEPT ![p] = Append(@, c)]
                             ELSE skills_to_do
    /\ UNCHANGED state

HangUp(p) == /\ Read(p)
             /\ \E s \in {"leaving", "Disconnected"} : state' = [state EXCEPT ![p] = s]
             /\ UNCHANGED <<skills_to_do, copies>>

AllRead == /\ phase = "read"
           /\ phase' = "exec"
           /\ unread' = {}
           /\ todo' \in SetToSeqs({p \in PlayerId : state[p] # "out"})
           /\ UNCHANGED <<registryVars, playerVars, copies>>

-----------------------------------------------------------------------------
(***************************************************************************)
(* exec: execute_commands() goes through the players in any order, and     *)
(* flush_commands() through the queue of each.                             *)
(***************************************************************************)
Visiting(p) == phase = "exec" /\ todo # <<>> /\ p = Head(todo)

\* salir lets a player go that is in no fight.
execute(p, handler) ==
    IF handler = "salir" THEN \E s \in {state[p], "leaving"} : state' = [state EXCEPT ![p] = s]
                         ELSE UNCHANGED state

flush_commands(p) ==
    LET c == Head(skills_to_do[p]) IN
    /\ Visiting(p) /\ skills_to_do[p] # <<>>
    /\ execute(p, skill_handlers[copies[c].id])
    /\ copies' = Restrict(copies, DOMAIN copies \ {c})
    /\ skills_to_do' = [skills_to_do EXCEPT ![p] = Tail(@)]
    /\ UNCHANGED <<registryVars, phase, unread, todo, skills>>

Flushed(p) == /\ Visiting(p) /\ skills_to_do[p] = <<>>
              /\ todo' = Tail(todo)
              /\ UNCHANGED <<registryVars, playerVars, phase, unread, copies>>

\* The destructor of a Player leaves its queue alone.
remove_players ==
    /\ phase = "exec" /\ todo = <<>>
    /\ phase' = "accept"
    /\ LET gone(p) == state[p] = "leaving" IN
       /\ state' = [p \in PlayerId |-> IF gone(p) THEN "out" ELSE state[p]]
       /\ skills' = [p \in PlayerId |-> IF gone(p) THEN {} ELSE skills[p]]
       /\ skills_to_do' = [p \in PlayerId |-> IF gone(p) THEN <<>> ELSE skills_to_do[p]]
    /\ UNCHANGED <<registryVars, unread, todo, copies>>

-----------------------------------------------------------------------------
SkillsNext == \/ init_skills \/ Ready \/ NobodyNew \/ AllRead \/ remove_players
              \/ \E p \in PlayerId : \/ Login(p) \/ HangUp(p)
                                     \/ flush_commands(p) \/ Flushed(p)
                                     \/ \E name \in Typed : NotValid(p, name) \/ parse(p, name)

SkillsSpec == SkillsInit /\ [][SkillsNext]_skillsVars

-----------------------------------------------------------------------------
(***************************************************************************)
(* Properties.                                                             *)
(***************************************************************************)
Places == UNION {{<<p, i>> : i \in DOMAIN skills_to_do[p]} : p \in PlayerId}

holds(place) == skills_to_do[place[1]][place[2]]

(***************************************************************************)
(* Every copy is in one place of one queue and nothing else is in a queue: *)
(* no copy is deleted twice or run after its deletion, and none is leaked  *)
(* when a player leaves, is replaced as a statue or is refused a command   *)
(* it does not possess; between two ticks there is none.  What player.h:63 *)
(* says, that only commands the player possesses are queued, holds too.    *)
(***************************************************************************)
EveryCopyIsOwned ==
    /\ \A c \in DOMAIN copies : Cardinality({l \in Places : holds(l) = c}) = 1
    /\ \A l \in Places : /\ holds(l) \in DOMAIN copies
                         /\ copies[holds(l)].id \in skills[l[1]]
    /\ phase = "accept" => Places = {}

(***************************************************************************)
(* A copy leads to the handler of the name that was typed, although the    *)
(* ids are given by position, names are registered twice and the tables    *)
(* are two.  It is of the class that was registered, except for golpear,   *)
(* whose copy has no turns; golpear() takes it for an HBSkill all the same *)
(* and counts its turns beyond its end (see RunGolpear of module Server).  *)
(***************************************************************************)
CopyOfWhatWasTyped ==
    \A c \in DOMAIN copies :
        /\ skill_handlers[copies[c].id] = copies[c].name
        /\ copies[c].class = found(copies[c].name).class \/ copies[c].name = "golpear"

=============================================================================
