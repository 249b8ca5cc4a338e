---------------------------- MODULE BattleProofs ----------------------------
(***************************************************************************)
(* What Battle keeps for rooms of every size, tanks with any number of     *)
(* projectiles and hit points, and moves that break any number of blocks.  *)
(***************************************************************************)
EXTENDS Battle, FiniteSetTheorems, TLAPS

(* TypeOK, and projectiles wait to be updated only in their own loop.      *)
TypeInv ==
    /\ TypeOK
    /\ pc # "fly" => todo = {}

(* While a battle is starting, nothing is in flight and nobody moves.      *)
Prepared ==
    state = "BATTLE_STARTING" =>
      /\ pc = "idle" /\ flying = {} /\ changes = 0
      /\ \A i \in RIDs : tanks[i] \in {NoTank, NewTank}

Alive == state = "BATTLE" => \A i \in Driven : tanks[i].hp > 0

(* A change that is pending was in flight, or is one of the last move's.   *)
Budget == Cardinality(Slots) + (IF pc = "shoot" THEN MaxBreaks ELSE 0)

Budgeted == changes + Cardinality(flying) <= Budget

-----------------------------------------------------------------------------
(* What the actions are made of                                            *)

LEMMA SlotsFinite ==
    /\ IsFiniteSet(Slots)
    /\ Cardinality(Slots) = RoomSize * ProjectilesPerTank
    /\ IsFiniteSet(RIDs) /\ Cardinality(RIDs) = RoomSize
  <1> USE BattleAssumption
  <1>1. IsFiniteSet(RIDs) /\ Cardinality(RIDs) = RoomSize
    BY FS_Interval DEF RIDs
  <1>2. IsFiniteSet(0 .. ProjectilesPerTank - 1)
        /\ Cardinality(0 .. ProjectilesPerTank - 1) = ProjectilesPerTank
    BY FS_Interval
  <1> QED
    BY <1>1, <1>2, FS_Product DEF Slots

LEMMA TanksTyped == NewTank \in TankType /\ NoTank \in TankType
  BY BattleAssumption DEF NewTank, NoTank, TankType

(* A new projectile is a slot of the shooter that was free.                *)
LEMMA NewProjectileTyped ==
    ASSUME NEW i PROVE NewProjectile(i) \subseteq Slots
  BY DEF NewProjectile, FreeSlots

(* What a turn of the loop over the tanks does to the loop                 *)
LEMMA NextTankTyped ==
    ASSUME TypeOK, NextTank, flying' \subseteq Slots
    PROVE  /\ pc' \in {"move", "fly"} /\ at' \in RIDs
           /\ todo' \subseteq flying' /\ clear' \in BOOLEAN
           /\ pc' # "fly" => todo' = {}
  <1> USE BattleAssumption DEF TypeOK
  <1>1. CASE at + 1 < tanksSize
    <2>1. ToTank(at + 1)
      BY <1>1 DEF NextTank
    <2>2. clear' \in BOOLEAN
      BY <2>1, Zenon DEF ToTank
    <2>3. at' \in RIDs
      BY <1>1, <2>1 DEF ToTank, RIDs
    <2> QED
      BY <2>1, <2>2, <2>3 DEF ToTank
  <1>2. CASE ~(at + 1 < tanksSize)
    <2>1. ToProjectiles
      BY <1>2 DEF NextTank
    <2>2. clear' \in BOOLEAN
      BY <2>1, Zenon DEF ToProjectiles
    <2>3. 0 \in RIDs
      BY DEF RIDs
    <2> QED
      BY <2>1, <2>2, <2>3 DEF ToProjectiles
  <1> QED
    BY <1>1, <1>2

(* One projectile is taken from those that wait, and may be spent.         *)
LEMMA AfterwardsTyped ==
    ASSUME TypeOK, NEW p \in todo, NEW met \in BOOLEAN, Afterwards(p, met)
    PROVE  /\ flying' \in {flying, flying \ {p}}
           /\ flying' \subseteq Slots /\ todo' \subseteq flying'
           /\ clear' \in BOOLEAN
           /\ met => flying' = flying \ {p}
  <1>1. clear' \in BOOLEAN
    BY Zenon DEF Afterwards
  <1>2. flying' \in {flying, flying \ {p}} /\ (met => flying' = flying \ {p})
    BY Zenon DEF Afterwards
  <1>3. todo' = todo \ {p} /\ todo \subseteq flying /\ flying \subseteq Slots
    BY DEF Afterwards, TypeOK
  <1> QED
    BY <1>1, <1>2, <1>3

-----------------------------------------------------------------------------
(* Types: one lemma for the commands, one for the loop over the tanks, one *)
(* for the projectiles.                                                    *)

Commands ==
    \/ Create \/ Enter \/ Close \/ Begin \/ Start \/ CallOff
    \/ \E i \in RIDs : Leave(i) \/ ControlsSet(i)

LEMMA CommandsKeepTypes ==
    ASSUME TypeInv, Commands
    PROVE  TypeInv'
  <1> USE BattleAssumption DEF TypeInv, TypeOK, Outside, loop
  <1>1. CASE Create
    <2>1. 0 \in RIDs
      BY DEF RIDs
    <2> QED
      BY <1>1, <2>1 DEF Create
  <1>2. CASE Enter
    BY <1>2 DEF Enter
  <1>3. CASE Close
    BY <1>3 DEF Close
  <1>4. CASE Begin
    <2>1. Cardinality(players) \in 0 .. RoomSize
      <3>1. Cardinality(players) <= RoomSize /\ IsFiniteSet(players)
        BY SlotsFinite, FS_Subset
      <3>2. Cardinality(players) \in Nat
        BY <3>1, FS_CardinalityType
      <3> QED
        BY <3>1, <3>2
    <2>2. tanks' \in [RIDs -> TankType]
      BY <1>4, TanksTyped DEF Begin
    <2> QED
      BY <1>4, <2>1, <2>2 DEF Begin, ProjectilesAtBegin
  <1>5. CASE Start
    BY <1>5 DEF Start
  <1>6. CASE CallOff
    BY <1>6 DEF CallOff
  <1>7. ASSUME NEW i \in RIDs, Leave(i) PROVE TypeInv'
    BY <1>7 DEF Leave, HeldAfterLeave
  <1>8. ASSUME NEW i \in RIDs, ControlsSet(i) PROVE TypeInv'
    BY <1>8 DEF ControlsSet
  <1> QED
    BY <1>1, <1>2, <1>3, <1>4, <1>5, <1>6, <1>7, <1>8 DEF Commands

LEMMA TankLoopKeepsTypes ==
    ASSUME TypeInv, Tick \/ SkipTank \/ MoveTank \/ ShootTank
    PROVE  TypeInv'
  <1> USE BattleAssumption DEF TypeInv, TypeOK, room
  <1>1. CASE Tick
    <2>1. 0 \in RIDs
      BY DEF RIDs
    <2>2. tick' \in 0 .. 2 /\ UNCHANGED <<room, tanks, tanksSize, flying, changes>>
      BY <1>1 DEF Tick
    <2>3. CASE tick' = 0 /\ tanksSize > 0
      <3>1. ToTank(0)
        BY <1>1, <2>3 DEF Tick
      <3>2. clear' \in BOOLEAN
        BY <3>1, Zenon DEF ToTank
      <3> QED
        BY <2>1, <2>2, <3>1, <3>2 DEF ToTank
    <2>4. CASE ~(tick' = 0 /\ tanksSize > 0)
      <3>1. ToProjectiles
        BY <1>1, <2>4 DEF Tick
      <3>2. clear' \in BOOLEAN
        BY <3>1, Zenon DEF ToProjectiles
      <3> QED
        BY <2>1, <2>2, <3>1, <3>2 DEF ToProjectiles
    <2> QED
      BY <2>3, <2>4
  <1>2. CASE SkipTank
    <2>1. UNCHANGED <<room, tanks, tanksSize, flying, changes, tick>> /\ NextTank
      BY <1>2 DEF SkipTank
    <2> QED
      BY <2>1, NextTankTyped
  <1>3. CASE MoveTank
    BY <1>3 DEF MoveTank
  <1>4. CASE ShootTank
    <2> DEFINE t == tanks[at]
    <2>1. PICK e \in Energies(t.energy) :
            tanks' \in {[tanks EXCEPT ![at] = [t EXCEPT !.cooldown = c, !.energy = e]] :
                          c \in {Cooldown, Cooled(t)}}
      BY <1>4 DEF ShootTank
    <2>2. t \in TankType
      OBVIOUS
    <2>3. e \in 0 .. MaxEp /\ Cooled(t) \in 0 .. Cooldown /\ Cooldown \in 0 .. Cooldown
      BY <2>1, <2>2 DEF Energies, Capped, Cooled, TankType
    <2>4. tanks' \in [RIDs -> TankType]
      <3>1. \A c \in {Cooldown, Cooled(t)} :
              [t EXCEPT !.cooldown = c, !.energy = e] \in TankType
        BY <2>2, <2>3 DEF TankType
      <3> QED
        BY <2>1, <3>1
    <2>5. flying' \subseteq Slots
      BY <1>4, NewProjectileTyped DEF ShootTank
    <2>6. changes' \in Nat /\ UNCHANGED <<room, tanksSize, tick>> /\ NextTank
      BY <1>4 DEF ShootTank, ChangesAnnounced
    <2> QED
      BY <2>4, <2>5, <2>6, NextTankTyped
  <1> QED
    BY <1>1, <1>2, <1>3, <1>4

(* A hit takes one point from one tank.                                    *)
LEMMA HitTyped ==
    ASSUME TypeOK, NEW i \in Driven, Hit(i)
    PROVE  /\ tanks' \in [RIDs -> TankType]
           /\ state' \in {state, "LOBBY"}
  <1>1. i \in RIDs /\ tanks[i] \in TankType
    BY DEF Driven, TypeOK
  <1>2. Reduced(tanks[i].hp) \in 0 .. MaxHp
    BY <1>1, BattleAssumption DEF Reduced, TankType
  <1>3. [tanks[i] EXCEPT !.hp = Reduced(@)] \in TankType
    BY <1>1, <1>2 DEF TankType
  <1>4. tanks' \in [RIDs -> TankType]
    BY <1>1, <1>3 DEF Hit, TypeOK
  <1> QED
    BY <1>4 DEF Hit

(* What a hit does to every tank                                           *)
LEMMA HitDamage ==
    ASSUME TypeOK, NEW i \in Driven, Hit(i), NEW j \in RIDs
    PROVE  /\ tanks'[j].status = tanks[j].status
           /\ tanks'[j].hp = IF j = i THEN Reduced(tanks[i].hp) ELSE tanks[j].hp
  <1>1. i \in RIDs /\ tanks[i] \in TankType
    BY DEF Driven, TypeOK
  <1>2. [tanks[i] EXCEPT !.hp = Reduced(@)].hp = Reduced(tanks[i].hp)
        /\ [tanks[i] EXCEPT !.hp = Reduced(@)].status = tanks[i].status
    BY <1>1 DEF TankType
  <1> QED
    BY <1>1, <1>2 DEF Hit, TypeOK

LEMMA ProjectilesKeepTypes ==
    ASSUME TypeInv, UpdateProjectile \/ EndTick
    PROVE  TypeInv'
  <1>1. CASE UpdateProjectile
    <2>1. PICK p \in todo : MeetsBlock(p) \/ MeetsTank(p) \/ MeetsNothing(p)
      BY <1>1 DEF UpdateProjectile
    <2>2. PICK met \in BOOLEAN : Afterwards(p, met)
      <3>1. Afterwards(p, TRUE) \/ Afterwards(p, FALSE)
        BY <2>1, Zenon DEF MeetsBlock, MeetsTank, MeetsNothing
      <3> QED
        BY <3>1, Zenon
    <2>3. TypeOK /\ pc' = "fly" /\ UNCHANGED <<players, holding, tanksSize, tick, at>>
      BY <1>1 DEF TypeInv, UpdateProjectile
    <2>4. /\ flying' \subseteq Slots /\ todo' \subseteq flying'
          /\ clear' \in BOOLEAN
      BY <2>2, <2>3, AfterwardsTyped
    <2>5. changes' \in Nat /\ tanks' \in [RIDs -> TankType]
          /\ state' \in {"IDLE", "LOBBY", "BATTLE_STARTING", "BATTLE"}
      <3>1. CASE MeetsBlock(p)
        BY <2>3, <3>1 DEF MeetsBlock, TypeOK
      <3>2. CASE MeetsTank(p)
        <4>1. changes' = changes
          BY <3>2 DEF MeetsTank
        <4>2. PICK i \in Driven : Hit(i)
          BY <3>2 DEF MeetsTank, Targets
        <4> QED
          BY <2>3, <4>1, <4>2, HitTyped DEF TypeOK
      <3>3. CASE MeetsNothing(p)
        BY <2>3, <3>3 DEF MeetsNothing, TypeOK
      <3> QED
        BY <2>1, <3>1, <3>2, <3>3
    <2> QED
      BY <2>3, <2>4, <2>5 DEF TypeInv, TypeOK
  <1>2. CASE EndTick
    <2>1. clear' \in BOOLEAN
      BY <1>2, Zenon DEF EndTick
    <2> QED
      BY <1>2, <2>1 DEF EndTick, TypeInv, TypeOK, room
  <1> QED
    BY <1>1, <1>2

LEMMA TypeInductive == TypeInv /\ [Next]_vars => TypeInv'
  <1> SUFFICES ASSUME TypeInv, [Next]_vars PROVE TypeInv'
    OBVIOUS
  <1>1. CASE Commands
    BY <1>1, CommandsKeepTypes
  <1>2. CASE Update
    BY <1>2, TankLoopKeepsTypes, ProjectilesKeepTypes DEF Update
  <1>3. CASE UNCHANGED vars
    BY <1>3, Zenon DEF vars, room, loop, TypeInv, TypeOK
  <1> QED
    BY <1>1, <1>2, <1>3 DEF Next, Commands

LEMMA InitTyped == Init => TypeInv
  <1> SUFFICES ASSUME Init PROVE TypeInv
    OBVIOUS
  <1>1. clear \in BOOLEAN
    BY Zenon DEF Init
  <1>2. 0 \in RIDs
    BY BattleAssumption DEF RIDs
  <1> QED
    BY <1>1, <1>2, TanksTyped, BattleAssumption DEF Init, TypeInv, TypeOK

(* The room, its warzone and the loops of a tick keep their types: no loop *)
(* indexes a tank or a projectile that is not there.                       *)
THEOREM TypeCorrect == Spec => []TypeOK
  <1>1. TypeInv => TypeOK
    BY DEF TypeInv
  <1> QED
    BY <1>1, InitTyped, TypeInductive, PTL DEF Spec

LEMMA TypeAlways == Spec => []TypeInv
  BY InitTyped, TypeInductive, PTL DEF Spec

-----------------------------------------------------------------------------
(* Triggers: a player that comes has released controls, one that goes      *)
(* takes them along.                                                       *)

(* No trigger is held for a player RID nobody has, for rooms of every      *)
(* size and over every sequence of joining, leaving and closing.           *)
THEOREM TriggersOwned == Spec => []ControlsOwned
  <1>1. Init => ControlsOwned
    BY DEF Init, ControlsOwned
  <1>2. ControlsOwned /\ [Next]_vars => ControlsOwned'
    <2> SUFFICES ASSUME ControlsOwned, [Next]_vars PROVE ControlsOwned'
      OBVIOUS
    <2> USE DEF ControlsOwned
    <2>1. CASE Create \/ Close
      BY <2>1 DEF Create, Close
    <2>2. CASE Enter
      BY <2>2 DEF Enter
    <2>3. CASE Begin \/ Start \/ CallOff
      BY <2>3 DEF Begin, Start, CallOff
    <2>4. ASSUME NEW i \in RIDs, Leave(i) PROVE ControlsOwned'
      BY <2>4 DEF Leave, HeldAfterLeave
    <2>5. ASSUME NEW i \in RIDs, ControlsSet(i) PROVE ControlsOwned'
      BY <2>5 DEF ControlsSet
    <2>6. CASE Update
      <3>1. UNCHANGED <<players, holding>>
        BY <2>6 DEF Update, Tick, SkipTank, MoveTank, ShootTank, UpdateProjectile, EndTick, room
      <3> QED
        BY <3>1
    <2>7. CASE UNCHANGED vars
      BY <2>7 DEF vars, room
    <2> QED
      BY <2>1, <2>2, <2>3, <2>4, <2>5, <2>6, <2>7 DEF Next
  <1> QED
    BY <1>1, <1>2, PTL DEF Spec

-----------------------------------------------------------------------------
(* The buffer: what is pending and what is in flight together never exceed *)
(* the slots, apart from the blocks of the move just made, which are       *)
(* announced in the same turn.                                             *)

LEMMA FlyingFinite ==
    ASSUME TypeOK
    PROVE  /\ IsFiniteSet(flying) /\ Cardinality(flying) \in Nat
           /\ Cardinality(flying) <= Cardinality(Slots)
           /\ Cardinality(Slots) \in Nat
  BY SlotsFinite, FS_Subset, FS_CardinalityType DEF TypeOK

LEMMA BudgetInductive ==
    ASSUME TypeInv, TypeInv', Budgeted, [Next]_vars
    PROVE  Budgeted'
  <1> USE BattleAssumption
  <1>0. /\ TypeOK /\ TypeOK'
        /\ changes \in Nat /\ changes' \in Nat
        /\ IsFiniteSet(flying) /\ Cardinality(flying) \in Nat
        /\ IsFiniteSet(flying') /\ Cardinality(flying') \in Nat
        /\ Cardinality(flying') <= Cardinality(Slots)
        /\ Cardinality(Slots) \in Nat
    <2>1. TypeOK /\ TypeOK'
      BY DEF TypeInv
    <2>2. IsFiniteSet(flying') /\ Cardinality(flying') \in Nat
          /\ Cardinality(flying') <= Cardinality(Slots)
      BY <2>1, SlotsFinite, FS_Subset, FS_CardinalityType DEF TypeOK
    <2> QED
      BY <2>1, <2>2, FlyingFinite DEF TypeOK
  <1>1. ASSUME changes' = changes, flying' = flying, pc' = pc
        PROVE  Budgeted'
    BY <1>1, Zenon DEF Budgeted, Budget
  <1>2. ASSUME changes' = 0 PROVE Budgeted'
    BY <1>0, <1>2 DEF Budgeted, Budget
  <1>3. ASSUME pc # "shoot", changes' = changes, flying' = flying
        PROVE  Budgeted'
    BY <1>0, <1>3 DEF Budgeted, Budget
  <1>4. CASE Begin \/ ShootTank
    BY <1>2, <1>4 DEF Begin, ShootTank, ChangesAnnounced
  <1>5. CASE Create \/ Enter \/ Close \/ Start \/ CallOff
             \/ (\E i \in RIDs : Leave(i) \/ ControlsSet(i))
    <2>1. changes' = changes /\ flying' = flying /\ pc' = pc
      BY <1>5 DEF Create, Enter, Close, Start, CallOff, Leave, ControlsSet, Outside, loop
    <2> QED
      BY <1>1, <2>1
  <1>6. CASE Tick \/ SkipTank \/ EndTick
    <2>1. pc # "shoot" /\ changes' = changes /\ flying' = flying
      BY <1>6 DEF Tick, SkipTank, EndTick
    <2> QED
      BY <1>3, <2>1
  <1>7. CASE MoveTank
    <2>1. PICK broken \in 0 .. MaxBreaks : changes' = changes + broken
      BY <1>7 DEF MoveTank
    <2>2. pc = "move" /\ pc' = "shoot" /\ flying' = flying
      BY <1>7 DEF MoveTank
    <2> QED
      BY <1>0, <2>1, <2>2 DEF Budgeted, Budget
  <1>8. CASE UpdateProjectile
    <2>1. PICK p \in todo : MeetsBlock(p) \/ MeetsTank(p) \/ MeetsNothing(p)
      BY <1>8 DEF UpdateProjectile
    <2>2. pc = "fly" /\ pc' = "fly" /\ p \in flying
      BY <1>0, <1>8 DEF UpdateProjectile, TypeOK
    <2>3. Cardinality(flying \ {p}) = Cardinality(flying) - 1
      BY <1>0, <2>2, FS_RemoveElement
    <2>4. CASE MeetsBlock(p)
      <3>1. Afterwards(p, TRUE) /\ changes' \in {changes, changes + 1}
        BY <2>4 DEF MeetsBlock
      <3>2. flying' = flying \ {p}
        BY <3>1, Zenon DEF Afterwards
      <3> QED
        BY <1>0, <2>2, <2>3, <3>1, <3>2 DEF Budgeted, Budget
    <2>5. CASE MeetsTank(p) \/ MeetsNothing(p)
      <3>1. changes' = changes
        BY <2>5 DEF MeetsTank, MeetsNothing
      <3>2. Afterwards(p, TRUE) \/ Afterwards(p, FALSE)
        BY <2>5 DEF MeetsTank, MeetsNothing
      <3>3. flying' \in {flying, flying \ {p}}
        BY <3>2, Zenon DEF Afterwards
      <3> QED
        BY <1>0, <2>2, <2>3, <3>1, <3>3 DEF Budgeted, Budget
    <2> QED
      BY <2>1, <2>4, <2>5
  <1>9. CASE UNCHANGED vars
    <2>1. changes' = changes /\ flying' = flying /\ pc' = pc
      BY <1>9 DEF vars, loop
    <2> QED
      BY <1>1, <2>1
  <1> QED
    BY <1>4, <1>5, <1>6, <1>7, <1>8, <1>9 DEF Next, Update

(* With room for one change per projectile and for one move, the buffer of *)
(* block changes never overflows.  In the code that is 80 + 22 <= 200.     *)
THEOREM BlockChangesAlwaysFit ==
    ASSUME RoomSize * ProjectilesPerTank + MaxBreaks <= BufferSize
    PROVE  Spec => []BlockChangesFit
  <1>1. Init => Budgeted
    <2> SUFFICES ASSUME Init PROVE Budgeted
      OBVIOUS
    <2>1. Cardinality(flying) = 0 /\ changes = 0 /\ pc = "idle"
      BY FS_EmptySet DEF Init
    <2>2. Cardinality(Slots) \in Nat
      BY SlotsFinite, FS_CardinalityType
    <2> QED
      BY <2>1, <2>2 DEF Budgeted, Budget
  <1>2. TypeInv /\ TypeInv' /\ Budgeted /\ [Next]_vars => Budgeted'
    BY BudgetInductive
  <1>3. TypeInv /\ Budgeted => BlockChangesFit
    <2> SUFFICES ASSUME TypeInv, Budgeted PROVE BlockChangesFit
      OBVIOUS
    <2>1. /\ Cardinality(flying) \in Nat /\ changes \in Nat
          /\ Cardinality(Slots) \in Nat
          /\ Cardinality(Slots) = RoomSize * ProjectilesPerTank
      BY FlyingFinite, SlotsFinite DEF TypeInv, TypeOK
    <2>2. changes <= Cardinality(Slots) + MaxBreaks
      BY <2>1, BattleAssumption DEF Budgeted, Budget
    <2>3. Cardinality(Slots) + MaxBreaks <= BufferSize
      BY <2>1
    <2> QED
      BY <2>1, <2>2, <2>3, BattleAssumption DEF BlockChangesFit
  <1> QED
    BY <1>1, <1>2, <1>3, TypeAlways, PTL DEF Spec

-----------------------------------------------------------------------------
(* Beginning: engine_game_room_begin wipes what the last battle left, and  *)
(* nothing happens in the warzone until the battle starts.                 *)

LEMMA PreparedInductive ==
    ASSUME TypeInv, Prepared, [Next]_vars
    PROVE  Prepared'
  <1>1. ASSUME UNCHANGED <<tanks, flying, changes, pc>>,
               state' = state \/ state' # "BATTLE_STARTING"
        PROVE  Prepared'
    BY <1>1 DEF Prepared
  <1>2. CASE Create \/ Enter \/ Close \/ Start \/ CallOff
             \/ (\E i \in RIDs : Leave(i) \/ ControlsSet(i))
    <2>1. UNCHANGED <<tanks, flying, changes, pc>>
      BY <1>2 DEF Create, Enter, Close, Start, CallOff, Leave, ControlsSet, Outside, loop
    <2>2. state' = state \/ state' # "BATTLE_STARTING"
      BY <1>2 DEF Create, Enter, Close, Start, CallOff, Leave, ControlsSet
    <2> QED
      BY <1>1, <2>1, <2>2
  <1>3. CASE Begin
    <2>1. pc' = "idle" /\ flying' = {} /\ changes' = 0
      BY <1>3 DEF Begin, ProjectilesAtBegin, loop
    <2>2. \A i \in RIDs : tanks'[i] \in {NoTank, NewTank}
      BY <1>3 DEF Begin
    <2> QED
      BY <2>1, <2>2 DEF Prepared
  <1>4. CASE Update
    <2>1. pc # "idle" \/ state = "BATTLE"
      BY <1>4 DEF Update, Tick, SkipTank, MoveTank, ShootTank, UpdateProjectile, EndTick
    <2>2. state # "BATTLE_STARTING"
      BY <2>1 DEF Prepared
    <2>3. state' \in {state, "LOBBY"}
      <3>1. CASE UpdateProjectile
        <4>1. PICK p \in todo : MeetsBlock(p) \/ MeetsTank(p) \/ MeetsNothing(p)
          BY <3>1 DEF UpdateProjectile
        <4> QED
          BY <4>1 DEF MeetsBlock, MeetsTank, MeetsNothing, Hit
      <3>2. CASE Tick \/ SkipTank \/ MoveTank \/ ShootTank \/ EndTick
        BY <3>2 DEF Tick, SkipTank, MoveTank, ShootTank, EndTick, room
      <3> QED
        BY <1>4, <3>1, <3>2 DEF Update
    <2> QED
      BY <2>2, <2>3 DEF Prepared
  <1>5. CASE UNCHANGED vars
    BY <1>1, <1>5 DEF vars, room, loop
  <1> QED
    BY <1>2, <1>3, <1>4, <1>5 DEF Next

LEMMA PreparedAlways == Spec => []Prepared
  <1>1. Init => Prepared
    BY DEF Init, Prepared
  <1>2. TypeInv /\ Prepared /\ [Next]_vars => Prepared'
    BY PreparedInductive
  <1> QED
    BY <1>1, <1>2, TypeAlways, PTL DEF Spec

(* Whatever the last battle left in the room, the next one starts with     *)
(* whole tanks, nothing in flight, no change pending and no trigger held.  *)
THEOREM BattlesStartFresh == Spec => FreshBattle
  <1>1. TypeInv /\ Prepared /\ [Next]_vars =>
          (state # "BATTLE" /\ state' = "BATTLE" =>
             /\ holding' = {} /\ flying' = {} /\ changes' = 0
             /\ \A i \in RIDs : tanks'[i] \in {NoTank, NewTank})
    <2> SUFFICES ASSUME TypeInv, Prepared, [Next]_vars,
                        state # "BATTLE", state' = "BATTLE"
                 PROVE  /\ holding' = {} /\ flying' = {} /\ changes' = 0
                        /\ \A i \in RIDs : tanks'[i] \in {NoTank, NewTank}
      OBVIOUS
    <2>1. CASE Start
      BY <2>1 DEF Start, Prepared
    <2>2. CASE Create \/ Enter \/ Close \/ Begin \/ CallOff
               \/ (\E i \in RIDs : Leave(i) \/ ControlsSet(i))
      BY <2>2 DEF Create, Enter, Close, Begin, CallOff, Leave, ControlsSet
    <2>3. CASE UpdateProjectile
      <3>1. PICK p \in todo : MeetsBlock(p) \/ MeetsTank(p) \/ MeetsNothing(p)
        BY <2>3 DEF UpdateProjectile
      <3> QED
        BY <3>1 DEF MeetsBlock, MeetsTank, MeetsNothing, Hit
    <2>4. CASE Tick \/ SkipTank \/ MoveTank \/ ShootTank \/ EndTick \/ UNCHANGED vars
      BY <2>4 DEF Tick, SkipTank, MoveTank, ShootTank, EndTick, room, vars
    <2> QED
      BY <2>1, <2>2, <2>3, <2>4 DEF Next, Update
  <1> QED
    BY <1>1, TypeAlways, PreparedAlways, PTL DEF Spec, FreshBattle

-----------------------------------------------------------------------------
(* Damage and the end of a battle                                          *)

(* In a step of the battle other than a hit, the tanks keep their hit      *)
(* points and the battle goes on.                                          *)
LEMMA ShotKeepsHp ==
    ASSUME TypeOK, ShootTank
    PROVE  \A i \in RIDs : tanks'[i].hp = tanks[i].hp /\ tanks'[i].status = tanks[i].status
  <1> DEFINE t == tanks[at]
  <1>1. PICK e, c : tanks' = [tanks EXCEPT ![at] = [t EXCEPT !.cooldown = c, !.energy = e]]
    BY DEF ShootTank
  <1>2. t \in TankType
    BY DEF TypeOK
  <1>3. [t EXCEPT !.cooldown = c, !.energy = e].hp = t.hp
        /\ [t EXCEPT !.cooldown = c, !.energy = e].status = t.status
    BY <1>2 DEF TankType
  <1> QED
    BY <1>1, <1>3 DEF TypeOK

(* Tanks lose hit points one at a time, to projectiles that are spent and  *)
(* never their own, for any number of tanks and projectiles.               *)
THEOREM DamageAlwaysSpends == Spec => DamageSpends
  <1> DEFINE Lost(i) == tanks'[i].hp < tanks[i].hp
             Paid(i) == \/ state = "LOBBY" /\ state' = "BATTLE_STARTING"
                        \/ /\ tanks'[i].hp = tanks[i].hp - 1
                           /\ \E p \in flying \ flying' : p[1] # i
  <1>1. TypeInv /\ [Next]_vars => \A i \in RIDs : Lost(i) => Paid(i)
    <2> SUFFICES ASSUME TypeInv, [Next]_vars, NEW i \in RIDs, Lost(i) PROVE Paid(i)
      OBVIOUS
    <2>0. TypeOK /\ tanks[i].hp \in Nat
      BY BattleAssumption DEF TypeInv, TypeOK, TankType
    <2>1. CASE Create \/ Enter \/ Close \/ Start \/ CallOff \/ Tick \/ SkipTank
               \/ MoveTank \/ EndTick \/ UNCHANGED vars
               \/ (\E j \in RIDs : Leave(j) \/ ControlsSet(j))
      <3>1. tanks' = tanks
        BY <2>1 DEF Create, Enter, Close, Start, CallOff, Leave, ControlsSet, Outside,
                    Tick, SkipTank, MoveTank, EndTick, vars
      <3> QED
        BY <2>0, <3>1
    <2>2. CASE Begin
      BY <2>2 DEF Begin
    <2>3. CASE ShootTank
      BY <2>0, <2>3, ShotKeepsHp
    <2>4. CASE UpdateProjectile
      <3>1. PICK p \in todo : MeetsBlock(p) \/ MeetsTank(p) \/ MeetsNothing(p)
        BY <2>4 DEF UpdateProjectile
      <3>2. CASE MeetsBlock(p) \/ MeetsNothing(p)
        <4>1. tanks' = tanks
          BY <3>2 DEF MeetsBlock, MeetsNothing
        <4> QED
          BY <2>0, <4>1
      <3>3. CASE MeetsTank(p)
        <4>0. PICK j \in Targets(p) : Hit(j)
          BY <3>3 DEF MeetsTank
        <4>1. tanks'[i].hp = IF i = j THEN Reduced(tanks[j].hp) ELSE tanks[i].hp
          BY <2>0, <4>0, HitDamage DEF Targets
        <4>2. i = j
          BY <2>0, <4>1
        <4>3. p[1] # i
          BY <4>2 DEF Targets
        <4>4. p \in flying \ flying'
          <5>1. Afterwards(p, TRUE)
            BY <3>3 DEF MeetsTank
          <5>2. flying' = flying \ {p}
            BY <5>1, Zenon DEF Afterwards
          <5> QED
            BY <2>0, <5>2 DEF TypeOK
        <4>5. tanks'[i].hp = tanks[i].hp - 1
          BY <2>0, <4>1, <4>2 DEF Reduced
        <4> QED
          BY <4>3, <4>4, <4>5
      <3> QED
        BY <3>1, <3>2, <3>3
    <2> QED
      BY <2>1, <2>2, <2>3, <2>4 DEF Next, Update
  <1> QED
    BY <1>1, TypeAlways, PTL DEF Spec, DamageSpends

LEMMA AliveInductive ==
    ASSUME TypeInv, Prepared, Alive, [Next]_vars
    PROVE  Alive'
  <1>0. TypeOK
    BY DEF TypeInv
  <1>1. ASSUME UNCHANGED <<tanks, tanksSize>>, state' = state \/ state' # "BATTLE"
        PROVE  Alive'
    BY <1>1 DEF Alive, Driven
  <1>2. CASE Create \/ Enter \/ Close \/ CallOff \/ Tick \/ SkipTank \/ MoveTank
             \/ EndTick \/ UNCHANGED vars
             \/ (\E j \in RIDs : Leave(j) \/ ControlsSet(j))
    <2>1. UNCHANGED <<tanks, tanksSize>>
      BY <1>2 DEF Create, Enter, Close, CallOff, Leave, ControlsSet, Outside,
                  Tick, SkipTank, MoveTank, EndTick, vars
    <2>2. state' = state \/ state' # "BATTLE"
      BY <1>2 DEF Create, Enter, Close, CallOff, Leave, ControlsSet,
                  Tick, SkipTank, MoveTank, EndTick, vars, room
    <2> QED
      BY <1>1, <2>1, <2>2
  <1>3. CASE Begin
    BY <1>3 DEF Begin, Alive
  <1>4. CASE Start
    <2>1. \A i \in RIDs : tanks'[i] \in {NoTank, NewTank} /\ tanksSize' = tanksSize
      BY <1>4 DEF Start, Prepared
    <2>2. \A i \in Driven' : tanks'[i] = NewTank
      BY <2>1 DEF Driven, NoTank
    <2> QED
      BY <2>2, BattleAssumption DEF Alive, NewTank
  <1>5. CASE ShootTank
    <2>1. \A i \in RIDs : tanks'[i].hp = tanks[i].hp /\ tanks'[i].status = tanks[i].status
      BY <1>0, <1>5, ShotKeepsHp
    <2>2. state' = state /\ tanksSize' = tanksSize
      BY <1>5 DEF ShootTank, room
    <2> QED
      BY <2>1, <2>2 DEF Alive, Driven
  <1>6. CASE UpdateProjectile
    <2>1. PICK p \in todo : MeetsBlock(p) \/ MeetsTank(p) \/ MeetsNothing(p)
      BY <1>6 DEF UpdateProjectile
    <2>2. tanksSize' = tanksSize
      BY <1>6 DEF UpdateProjectile
    <2>3. CASE MeetsBlock(p) \/ MeetsNothing(p)
      BY <1>1, <2>2, <2>3 DEF MeetsBlock, MeetsNothing
    <2>4. CASE MeetsTank(p)
      <3>0. PICK i \in Targets(p) : Hit(i)
        BY <2>4 DEF MeetsTank
      <3>1. /\ \A j \in RIDs :
                 /\ tanks'[j].status = tanks[j].status
                 /\ tanks'[j].hp = IF j = i THEN Reduced(tanks[i].hp) ELSE tanks[j].hp
            /\ state' = IF Reduced(tanks[i].hp) = 0 THEN "LOBBY" ELSE state
        <4>1. i \in Driven
          BY <3>0 DEF Targets
        <4>2. state' = IF Reduced(tanks[i].hp) = 0 THEN "LOBBY" ELSE state
          BY <3>0 DEF Hit, DestroyedBy
        <4> QED
          BY <1>0, <3>0, <4>1, <4>2, HitDamage
      <3>2. Driven' = Driven
        BY <2>2, <3>1 DEF Driven
      <3>3. ASSUME state' = "BATTLE", NEW j \in Driven PROVE tanks'[j].hp > 0
        <4>1. state = "BATTLE" /\ Reduced(tanks[i].hp) # 0
          BY <3>1, <3>3
        <4>2. j \in RIDs /\ i \in RIDs /\ tanks[i] \in TankType
          BY <1>0, <3>0 DEF Driven, Targets, TypeOK
        <4>3. Reduced(tanks[i].hp) > 0
          BY <4>1, <4>2, BattleAssumption DEF Reduced, TankType
        <4> QED
          BY <3>1, <3>3, <4>1, <4>2, <4>3 DEF Alive
      <3> QED
        BY <3>2, <3>3 DEF Alive
    <2> QED
      BY <2>1, <2>3, <2>4
  <1> QED
    BY <1>2, <1>3, <1>4, <1>5, <1>6 DEF Next, Update

(* A battle lasts exactly as long as all its tanks do, for rooms of every  *)
(* size and any number of hit points.                                      *)
THEOREM BattlesEndByDestruction == Spec => BattleEndsByDestruction
  <1>1. Init => Alive
    BY DEF Init, Alive
  <1>2. TypeInv /\ Prepared /\ Alive /\ [Next]_vars => Alive'
    BY AliveInductive
  <1>3. Spec => []Alive
    BY <1>1, <1>2, TypeAlways, PreparedAlways, PTL DEF Spec
  <1> DEFINE Destroyed == \E i \in Driven : tanks[i].hp > 0 /\ tanks'[i].hp = 0
  <1>4. TypeInv /\ Alive /\ [Next]_vars =>
          (state = "BATTLE" /\ state' = "LOBBY" => Destroyed)
    <2> SUFFICES ASSUME TypeInv, Alive, [Next]_vars, state = "BATTLE", state' = "LOBBY"
                 PROVE  Destroyed
      OBVIOUS
    <2>1. UpdateProjectile
      BY DEF Next, Update, Create, Enter, Close, Begin, Start, CallOff, Leave, ControlsSet,
             Tick, SkipTank, MoveTank, ShootTank, EndTick, vars, room
    <2>2. PICK p \in todo : MeetsBlock(p) \/ MeetsTank(p) \/ MeetsNothing(p)
      BY <2>1 DEF UpdateProjectile
    <2>3. MeetsTank(p)
      BY <2>2 DEF MeetsBlock, MeetsNothing
    <2>4. PICK i \in Targets(p) : Hit(i)
      BY <2>3 DEF MeetsTank
    <2>5. i \in Driven /\ i \in RIDs /\ Reduced(tanks[i].hp) = 0
      BY <2>4 DEF Targets, Driven, Hit, DestroyedBy
    <2>6. tanks'[i].hp = Reduced(tanks[i].hp)
      BY <2>4, <2>5, HitDamage DEF TypeInv
    <2> QED
      BY <2>5, <2>6 DEF Alive
  <1>5. Alive <=> (state = "BATTLE" => \A i \in Driven : tanks[i].hp > 0)
    BY DEF Alive
  <1> QED
    BY <1>3, <1>4, <1>5, TypeAlways, PTL DEF Spec, BattleEndsByDestruction
=============================================================================
