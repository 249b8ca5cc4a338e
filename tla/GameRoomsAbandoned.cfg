SPECIFICATION FairSpec
CONSTANTS
    NumClients = 2
    NumRooms = 1
    RoomSize = 2
    PlayersPerClient = 2
    NumColors = 3
PROPERTY AbandonedRoomCloses
