SPECIFICATION FairSpec
CONSTANTS
    RoomSize = 2
    ProjectilesPerTank = 2
    MaxHp = 2
    MaxEp = 1
    Cooldown = 2
    MaxBreaks = 1
    BufferSize = 5
INVARIANTS TypeOK BlockChangesFit ControlsOwned
PROPERTIES BattleEndsByDestruction FreshBattle DamageSpends HeldFireShoots
