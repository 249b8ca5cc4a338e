------------------------------- MODULE Battle -------------------------------
(***************************************************************************)
(* One game room and its warzone: how players come and go, how a battle    *)
(* begins, goes on and ends (core/engine_run_game_room.c, game/warzone.c,  *)
(* core/engine_game_room.c).                                               *)
(*                                                                         *)
(* The engine thread alone touches a warzone.  Its loops over tanks and    *)
(* over projectiles are taken one element at a time; commands are handled  *)
(* between ticks (pc = "idle").  Where things are on the map is left out:  *)
(* a move breaks at most MaxBreaks blocks (module Driving computes how     *)
(* many), and a projectile may meet anything.                              *)
(***************************************************************************)
EXTENDS Integers, FiniteSets

CONSTANTS RoomSize,            \* game_room.size
          ProjectilesPerTank,  \* WARZONE_PROJECTILES_PER_TANK, 20
          MaxHp,               \* rules.TANK_MAX_HP, 20
          MaxEp,               \* rules.TANK_MAX_EP, 250
          Cooldown,            \* rules.TANK_CANNON_COOLDOWN, 2; the rate is 1
          MaxBreaks,           \* blocks one move can break
          BufferSize           \* WARZONE_BLOCK_DIFF_BUFFER_SIZE, 200

ASSUME BattleAssumption ==
    /\ RoomSize \in Nat \ {0} /\ ProjectilesPerTank \in Nat \ {0}
    /\ MaxHp \in Nat \ {0} /\ MaxEp \in Nat /\ Cooldown \in Nat
    /\ MaxBreaks \in Nat /\ BufferSize \in Nat

VARIABLES
    state,      \* game_room.state
    players,    \* the player RIDs that are attached to a client
    holding,    \* the players whose controls have INPUT_SHOOT set
    tanks,      \* warzone.tanks, by player RID
    tanksSize,  \* warzone.tanks_size
    flying,     \* the slots of warzone.projectiles that are in use
    changes,    \* warzone.map_change_count
    tick,       \* game_room.current_tick, modulo 3
    pc, at,     \* what the update of the room does next, and with which tank
    todo,       \* the projectiles it has not come to yet
    clear       \* the variable of _engine_uwz_update_projectiles

room == <<state, players, holding>>
loop == <<pc, at, todo, clear>>
vars == <<room, tanks, tanksSize, flying, changes, tick, loop>>

RIDs == 0 .. RoomSize - 1

(* A slot belongs to a player RID and is scanned in this order.            *)
Slots == RIDs \X (0 .. ProjectilesPerTank - 1)
Before(p, q) == p[1] < q[1] \/ (p[1] = q[1] /\ p[2] < q[2])

NoTank == [status |-> "EMPTY", hp |-> 0, energy |-> 0, cooldown |-> 0]
NewTank == [status |-> "OPERATIVE", hp |-> MaxHp, energy |-> MaxEp, cooldown |-> 0]

Init ==
    /\ state = "IDLE" /\ players = {} /\ holding = {}
    /\ tanks = [i \in RIDs |-> NoTank] /\ tanksSize = 0
    /\ flying = {} /\ changes = 0 /\ tick = 0
    /\ pc = "idle" /\ at = 0 /\ todo = {} /\ clear = FALSE

-----------------------------------------------------------------------------
(* Between ticks: what commands and lost clients do to the room            *)

Outside == UNCHANGED <<tanks, tanksSize, flying, changes, tick, loop>>

(* game_room_init, and the player of the client that creates the room      *)
Create ==
    /\ pc = "idle" /\ state = "IDLE"
    /\ state' = "LOBBY" /\ players' = {0} /\ holding' = {}
    /\ Outside

(* game_room_attach_player: the first free one; its controls are cleared.  *)
Enter ==
    /\ pc = "idle" /\ state = "LOBBY"
    /\ \E i \in RIDs \ players :
         /\ \A j \in RIDs \ players : i <= j
         /\ players' = players \cup {i}
         /\ holding' = holding \ {i}
    /\ UNCHANGED state
    /\ Outside

(* Variant: detaching a player leaves its controls as they are.            *)
HeldAfterLeaveStale(i) == holding

HeldAfterLeave(i) == holding \ {i}

(* game_room_detach_player; in a battle the tank stays where it is.        *)
Leave(i) ==
    /\ pc = "idle" /\ players # {i}
    /\ i \in players
    /\ players' = players \ {i}
    /\ holding' = HeldAfterLeave(i)
    /\ UNCHANGED state
    /\ Outside

(* game_room_clean_up, when nobody in the room is connected                *)
Close ==
    /\ pc = "idle" /\ state # "IDLE"
    /\ state' = "IDLE" /\ players' = {} /\ holding' = {}
    /\ Outside

(* _exe_gpl_controls_set: a player presses or releases the trigger, in any *)
(* state of the room.                                                      *)
ControlsSet(i) ==
    /\ pc = "idle" /\ i \in players
    /\ holding' = IF i \in holding THEN holding \ {i} ELSE holding \cup {i}
    /\ UNCHANGED <<state, players>>
    /\ Outside

(* Variant: the projectiles of the last battle are not wiped.              *)
ProjectilesKept == flying

(* memset of warzone.projectiles                                           *)
ProjectilesAtBegin == {}

(* engine_game_room_set_state and engine_game_room_begin: a tank for every *)
(* player, at the index of its RID; tanks_size is how many players there   *)
(* are.                                                                    *)
Begin ==
    /\ pc = "idle" /\ state = "LOBBY" /\ players # {}
    /\ state' = "BATTLE_STARTING"
    /\ tanks' = [i \in RIDs |-> IF i \in players THEN NewTank ELSE NoTank]
    /\ tanksSize' = Cardinality(players)
    /\ flying' = ProjectilesAtBegin
    /\ changes' = 0
    /\ UNCHANGED <<players, holding, tick, loop>>

(* ... and when everyone is ready again the battle starts.                 *)
Start ==
    /\ pc = "idle" /\ state = "BATTLE_STARTING"
    /\ state' = "BATTLE" /\ holding' = {} /\ tick' = 0
    /\ UNCHANGED <<players, tanks, tanksSize, flying, changes, loop>>

(* _engine_update_gameroom_starting: a client is not there any more.       *)
CallOff ==
    /\ pc = "idle" /\ state = "BATTLE_STARTING"
    /\ state' = "LOBBY"
    /\ UNCHANGED <<players, holding>>
    /\ Outside

-----------------------------------------------------------------------------
(* A tick: _engine_update_gameroom_battle                                  *)

ToTank(i) == pc' = "move" /\ at' = i /\ todo' = {} /\ UNCHANGED clear

ToProjectiles == pc' = "fly" /\ at' = 0 /\ todo' = flying' /\ clear' = FALSE

Tick ==
    /\ pc = "idle" /\ state = "BATTLE"
    /\ tick' = (tick + 1) % 3
    /\ UNCHANGED <<room, tanks, tanksSize, flying, changes>>
    /\ IF tick' = 0 /\ tanksSize > 0 THEN ToTank(0) ELSE ToProjectiles

(* The loop over the tanks goes on.  Variants: it stops a tank early.      *)
NextTankShort ==
    IF at + 2 < tanksSize THEN ToTank(at + 1) ELSE ToProjectiles

NextTank ==
    IF at + 1 < tanksSize THEN ToTank(at + 1) ELSE ToProjectiles

SkipTank ==
    /\ pc = "move" /\ tanks[at].status # "OPERATIVE"
    /\ UNCHANGED <<room, tanks, tanksSize, flying, changes, tick>>
    /\ NextTank

(* _engine_uwz_move_tank; every block broken is one more change.           *)
MoveTank ==
    /\ pc = "move" /\ tanks[at].status = "OPERATIVE"
    /\ \E broken \in 0 .. MaxBreaks : changes' = changes + broken
    /\ pc' = "shoot"
    /\ UNCHANGED <<room, tanks, tanksSize, flying, tick, at, todo, clear>>

Cooled(t) == IF t.cooldown > 0 THEN t.cooldown - 1 ELSE 0

FreeSlots(i) == {p \in Slots : p[1] = i /\ p \notin flying}

(* The slot _engine_uwz_shoot_add_projectile takes, if there is one        *)
NewProjectile(i) ==
    {p \in FreeSlots(i) : \A q \in FreeSlots(i) : ~Before(q, p)}

(* _engine_uwz_update_tank_energy: in one's own base, in another's, or by  *)
(* chance one less                                                         *)

(* Variant: what a base gives has no limit.                                *)
Uncapped(e) == e

Capped(e) == IF e > MaxEp THEN MaxEp ELSE e
Energies(e) == {Capped(e + 7), Capped(e + 4), e} \cup (IF e > 0 THEN {e - 1} ELSE {})

(* Variant: the changes announced are not forgotten.                       *)
ChangesKept == changes

(* engine_gameroom_process_map_changes leaves none.                        *)
ChangesAnnounced == 0

ShootTank ==
    LET t == tanks[at]
        fires == at \in holding /\ Cooled(t) = 0 /\ FreeSlots(at) # {}
    IN  /\ pc = "shoot"
        /\ \E e \in Energies(t.energy) :
             tanks' = [tanks EXCEPT ![at] =
                         [t EXCEPT !.cooldown = IF fires THEN Cooldown ELSE Cooled(t),
                                   !.energy = e]]
        /\ flying' = IF fires THEN flying \cup NewProjectile(at) ELSE flying
        /\ changes' = ChangesAnnounced
        /\ UNCHANGED <<room, tanksSize, tick>>
        /\ NextTank

-----------------------------------------------------------------------------
(* _engine_uwz_update_projectiles, for the next projectile p               *)

Driven == {i \in RIDs : i < tanksSize /\ tanks[i].status = "OPERATIVE"}

(* Variant: a projectile may hit the tank that shot it.                    *)
TargetsAny(p) == Driven

(* _engine_uwz_find_tank_hit looks at the first tanks_size tanks.          *)
Targets(p) == Driven \ {p[1]}

(* What p left behind when it is gone: it goes when it met something, and  *)
(* also when one before it in the same tick did, as clear stays set.       *)
Afterwards(p, met) ==
    /\ clear' = (clear \/ met)
    /\ flying' = IF clear \/ met THEN flying \ {p} ELSE flying
    /\ todo' = todo \ {p}

MeetsBlock(p) ==
    /\ \/ UNCHANGED changes             \* an obstacle
       \/ changes' = changes + 1        \* a block that breaks
    /\ UNCHANGED <<state, tanks>>
    /\ Afterwards(p, TRUE)

Reduced(hp) == IF hp > 0 THEN hp - 1 ELSE hp

(* Variant: a tank is destroyed by the hit after its last.                 *)
DestroyedByLate(hp) == hp = 0

(* tank_reduce_hitpoints returns 0                                         *)
DestroyedBy(hp) == Reduced(hp) = 0

(* engine_gameroom_tank_destroyed sends the room to the lobby while the    *)
(* loop goes on.                                                           *)
Hit(i) ==
    /\ tanks' = [tanks EXCEPT ![i].hp = Reduced(@)]
    /\ state' = IF DestroyedBy(tanks[i].hp) THEN "LOBBY" ELSE state

MeetsTank(p) ==
    /\ \E i \in Targets(p) : Hit(i)
    /\ UNCHANGED changes
    /\ Afterwards(p, TRUE)

MeetsNothing(p) ==
    /\ UNCHANGED <<state, tanks, changes>>
    /\ Afterwards(p, FALSE)

UpdateProjectile ==
    /\ pc = "fly"
    /\ \E p \in todo :
         /\ \A q \in todo : ~Before(q, p)
         /\ MeetsBlock(p) \/ MeetsTank(p) \/ MeetsNothing(p)
    /\ UNCHANGED <<players, holding, tanksSize, tick, pc, at>>

EndTick ==
    /\ pc = "fly" /\ todo = {}
    /\ pc' = "idle" /\ clear' = FALSE
    /\ UNCHANGED <<room, tanks, tanksSize, flying, changes, tick, at, todo>>

Update == Tick \/ SkipTank \/ MoveTank \/ ShootTank \/ UpdateProjectile \/ EndTick

Next ==
    \/ Create \/ Enter \/ Close \/ Begin \/ Start \/ CallOff
    \/ \E i \in RIDs : Leave(i) \/ ControlsSet(i)
    \/ Update

Spec == Init /\ [][Next]_vars

(* The engine ticks for ever.                                              *)
FairSpec == Spec /\ WF_vars(Update)

-----------------------------------------------------------------------------
TankType ==
    [status: {"EMPTY", "OPERATIVE"}, hp: 0 .. MaxHp, energy: 0 .. MaxEp,
     cooldown: 0 .. Cooldown]

TypeOK ==
    /\ state \in {"IDLE", "LOBBY", "BATTLE_STARTING", "BATTLE"}
    /\ players \subseteq RIDs /\ holding \subseteq RIDs
    /\ tanks \in [RIDs -> TankType] /\ tanksSize \in 0 .. RoomSize
    /\ flying \subseteq Slots
    /\ changes \in Nat /\ tick \in 0 .. 2
    /\ pc \in {"idle", "move", "shoot", "fly"}
    /\ at \in RIDs /\ todo \subseteq flying
    /\ clear \in BOOLEAN

(* The buffer of block changes never overflows, although nothing checks:   *)
(* a projectile in flight can change one block only, and the changes of    *)
(* earlier ticks are announced with the next tank (warzone_set_block and   *)
(* the comment on WARZONE_BLOCK_DIFF_BUFFER_SIZE).                         *)
BlockChangesFit == changes <= BufferSize

(* Nobody shoots for a player that is gone: a trigger is held only by a    *)
(* player there is, whoever had the RID before (player.input over joining, *)
(* leaving, closing, starting).                                            *)
ControlsOwned == holding \subseteq players

(* A battle goes on exactly while all tanks in it live: it ends with the   *)
(* hit that destroys one, and nothing else sends the room back to the      *)
(* lobby (engine_gameroom_tank_destroyed).                                 *)
BattleEndsByDestruction ==
    /\ [](state = "BATTLE" => \A i \in Driven : tanks[i].hp > 0)
    /\ [][state = "BATTLE" /\ state' = "LOBBY" =>
            \E i \in Driven : tanks[i].hp > 0 /\ tanks'[i].hp = 0]_vars

(* A battle starts from scratch, whatever the last one in the room left    *)
(* and whatever was pressed while it was starting: every tank is whole, no *)
(* projectile flies, no trigger is held, no change is pending              *)
(* (warzone_init, engine_game_room_set_state).                             *)
FreshBattle ==
    [][state # "BATTLE" /\ state' = "BATTLE" =>
         /\ holding' = {} /\ flying' = {} /\ changes' = 0
         /\ \A i \in RIDs : tanks'[i] \in {NoTank, NewTank}]_vars

(* A tank is damaged only by a projectile of another tank, one point at a  *)
(* time, and that projectile is spent (_engine_uwz_update_projectiles).    *)
DamageSpends ==
    [][\A i \in RIDs : tanks'[i].hp < tanks[i].hp =>
         \/ state = "LOBBY" /\ state' = "BATTLE_STARTING"
         \/ /\ tanks'[i].hp = tanks[i].hp - 1
            /\ \E p \in flying \ flying' : p[1] # i]_vars

(* Whoever holds the trigger shoots, unless all projectiles of the tank    *)
(* are in flight: neither cooling down nor the other tanks starve it.  The *)
(* loop is over the first tanks_size tanks, so this is said of those.      *)
HeldFireShoots ==
    \A i \in RIDs :
      (state = "BATTLE" /\ i \in Driven \cap holding)
        ~> \/ state # "BATTLE" \/ i \notin holding
           \/ tanks[i].cooldown = Cooldown \/ FreeSlots(i) = {}
=============================================================================
