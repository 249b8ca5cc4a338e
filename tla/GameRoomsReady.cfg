SPECIFICATION Spec
CONSTANTS
    NumClients = 2
    NumRooms = 2
    RoomSize = 2
    PlayersPerClient = 2
    NumColors = 3
PROPERTY SeatTakenUnready
