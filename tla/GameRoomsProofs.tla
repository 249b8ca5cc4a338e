--------------------------- MODULE GameRoomsProofs ---------------------------
(***************************************************************************)
(* What GameRooms keeps for every number of clients, rooms, seats, players *)
(* and colors.                                                             *)
(***************************************************************************)
EXTENDS GameRooms, WellFoundedInduction, TLAPS

-----------------------------------------------------------------------------
(* The loops that return the first index that fits do return one if there  *)
(* is one.                                                                 *)
LEMMA FirstFits ==
    ASSUME NEW S, S \subseteq Nat
    PROVE  /\ S = {} => First(S) = ItemEmpty
           /\ S # {} => First(S) \in S
           /\ First(S) = ItemEmpty => S = {}
  <1>1. ASSUME S # {}
        PROVE  \E x \in S : \A y \in S : x <= y
    <2> DEFINE Less == OpToRel(<, Nat)
    <2>1. IsWellFoundedOn(Less, Nat)
      BY NatLessThanWellFounded
    <2>2. \A x, y \in Nat : <<y, x>> \in Less <=> y < x
      BY DEF OpToRel
    <2> HIDE DEF Less
    <2>3. PICK x \in S : \A y \in S : ~(<<y, x>> \in Less)
      BY <1>1, <2>1, WFMin
    <2>4. x \in Nat /\ \A y \in S : y \in Nat
      OBVIOUS
    <2>5. \A y \in S : ~(y < x)
      BY <2>2, <2>3, <2>4
    <2>6. \A y \in S : x <= y
      BY <2>4, <2>5
    <2> QED
      BY <2>6
  <1>2. S # {} => First(S) \in S
    BY <1>1 DEF First
  <1>3. S = {} => First(S) = ItemEmpty
    BY DEF First
  <1>4. First(S) = ItemEmpty => S = {}
    BY <1>2 DEF ItemEmpty
  <1> QED
    BY <1>2, <1>3, <1>4

(* Every set the model takes the first element of is one of natural        *)
(* numbers.                                                                *)
LEMMA SetsOfNumbers ==
    ASSUME NEW g, NEW c
    PROVE  /\ Seats(g) \subseteq Slots /\ Seated(g) \subseteq Slots
           /\ FreePlayerSlots(g) \subseteq Slots /\ Eligible(g, c) \subseteq Slots
           /\ Slots \subseteq Nat /\ Clients \subseteq Nat /\ Rooms \subseteq Nat
           /\ Colors \subseteq Nat /\ ClientSlots \subseteq Nat
  BY RoomsAssumption
  DEF Seats, Seated, FreePlayerSlots, Eligible, Slots, Clients, Rooms, Colors, ClientSlots

(* A client found in a room has one of its seats, and one not found has    *)
(* none.                                                                   *)
LEMMA FindClientRange ==
    ASSUME NEW g, NEW c
    PROVE  /\ FindClient(g, c) \in RIDs
           /\ FindClient(g, c) # ItemEmpty =>
                FindClient(g, c) \in Seats(g) /\ g.members[FindClient(g, c)] = c
           /\ FindClient(g, c) = ItemEmpty => \A i \in Seats(g) : g.members[i] # c
  <1> DEFINE S == {i \in Seats(g) : g.members[i] = c}
  <1>1. S \subseteq Nat /\ S \subseteq Slots
    BY SetsOfNumbers
  <1>2. FindClient(g, c) = First(S)
    BY DEF FindClient
  <1>3. /\ S = {} => First(S) = ItemEmpty
        /\ S # {} => First(S) \in S
        /\ First(S) = ItemEmpty => S = {}
    BY <1>1, FirstFits
  <1> QED
    BY <1>1, <1>2, <1>3 DEF RIDs

-----------------------------------------------------------------------------
(* What the handlers do to one room keeps its type.                        *)
LEMMA CleanUpType ==
    ASSUME NEW g \in RoomType
    PROVE  CleanUp(g) \in RoomType /\ CleanUp(g).state = "IDLE"
  BY DEF CleanUp, RoomType, RoomStates, PlayerType, NoPlayer, RIDs

(* Seating a client keeps the type and the state of the room.              *)
LEMMA PutMemberType ==
    ASSUME NEW g \in RoomType, NEW c \in Clients
    PROVE  PutMember(g, c) \in RoomType /\ PutMember(g, c).state = g.state
  BY DEF PutMember, RoomType

(* Removing a client keeps the type, the state and the leader of the room. *)
LEMMA RemoveClientType ==
    ASSUME NEW g \in RoomType, NEW c
    PROVE  RemoveClient(g, c) \in RoomType /\ RemoveClient(g, c).state = g.state
           /\ RemoveClient(g, c).leader = g.leader
  BY DEF RemoveClient, RoomType, PlayerType, NoPlayer, RIDs

(* Losing a client keeps the type of the room: the next leader is a seat.  *)
LEMMA ClientGoneType ==
    ASSUME NEW g \in RoomType, NEW c
    PROVE  ClientGone(g, c) \in RoomType
  <1> DEFINE left == IF g.state = "LOBBY" THEN RemoveClient(g, c) ELSE g
  <1>1. left \in RoomType
    BY RemoveClientType
  <1>2. CleanUp(left) \in RoomType
    BY <1>1, CleanUpType
  <1>3. ASSUME Eligible(left, c) # {}
        PROVE  [left EXCEPT !.leader = First(Eligible(left, c))] \in RoomType
    <2>1. First(Eligible(left, c)) \in Slots
      BY <1>3, FirstFits, SetsOfNumbers
    <2> HIDE DEF left
    <2> QED
      BY <1>1, <2>1 DEF RoomType
  <1> HIDE DEF left
  <1>4. ClientGone(g, c) \in
          {g, left, CleanUp(left), [left EXCEPT !.leader = First(Eligible(left, c))]}
        /\ (ClientGone(g, c) = [left EXCEPT !.leader = First(Eligible(left, c))]
              => ClientGone(g, c) \in {g, left, CleanUp(left)} \/ Eligible(left, c) # {})
    BY DEF ClientGone, left
  <1> QED
    BY <1>1, <1>2, <1>3, <1>4

(* Attaching a player keeps the type, the state and the seats of the room. *)
LEMMA PutPlayerType ==
    ASSUME NEW g \in RoomType, NEW c, NEW rids
    PROVE  PutPlayer(g, c, rids) \in RoomType
           /\ PutPlayer(g, c, rids).state = g.state
           /\ PutPlayer(g, c, rids).members = g.members
  <1>1. FindClient(g, c) \in RIDs
    BY FindClientRange
  <1>2. First(Colors \ g.usedColors) \in Colors \cup {ItemEmpty}
    BY FirstFits, SetsOfNumbers
  <1> QED
    BY <1>1, <1>2 DEF PutPlayer, AttachedPlayer, RoomType, PlayerType

(* A client's list of players keeps its type.                              *)
LEMMA RidsWithType ==
    ASSUME NEW rids \in [ClientSlots -> RIDs], NEW p \in RIDs
    PROVE  RidsWith(rids, p) \in [ClientSlots -> RIDs]
  BY DEF RidsWith

(* Changing the state of a room changes none of its seats.                 *)
LEMMA InStateType ==
    ASSUME NEW g \in RoomType, NEW s \in RoomStates
    PROVE  InState(g, s) \in RoomType
           /\ InState(g, s).state = s /\ InState(g, s).members = g.members
  BY DEF InState, RoomType

(* A wiped client is a client.                                             *)
LEMMA WipedType == WipedClient \in ClientType
  BY DEF WipedClient, ClientType, Statuses, RoomIds, RIDs

(* Telling the clients of a room its state frees no client and moves none. *)
LEMMA ClientsInStateType ==
    ASSUME NEW g, NEW s \in RoomStates, cli \in [Clients -> ClientType]
    PROVE  ClientsInState(g, s) \in [Clients -> ClientType]
           /\ \A c \in Clients : ClientsInState(g, s)[c].roomId = cli[c].roomId
                /\ (cli[c].status # "EMPTY" => ClientsInState(g, s)[c].status # "EMPTY")
  BY DEF ClientsInState, ClientType, Statuses, StatusFor

(* game_room_init gives the creator a seat.                                *)
LEMMA NewRoomSeatsCreator ==
    ASSUME NEW g \in RoomType, NEW c \in Clients,
           g.state = "LOBBY", g.members = [i \in Slots |-> Nobody]
    PROVE  /\ FindClient(PutMember(g, c), c) \in Slots
           /\ \A i \in Slots : PutMember(g, c).members[i] # Nobody =>
                PutMember(g, c).members[i] = c /\ i = FindClient(PutMember(g, c), c)
  <1>1. Seats(g) = Slots /\ Seated(g) = {} /\ 0 \in Slots /\ c # Nobody /\ Slots \subseteq Nat
    BY RoomsAssumption DEF Seats, Seated, Slots, Clients, Nobody
  <1>2. FindClient(g, c) = ItemEmpty
    <2>1. \A i \in Slots : g.members[i] = Nobody
      OBVIOUS
    <2>2. \A i \in Seats(g) : g.members[i] # c
      BY <1>1, <2>1
    <2> QED
      BY <2>2, FindClientRange
  <1> DEFINE free == First(Seats(g) \ Seated(g))
  <1>3. free \in Slots
    BY <1>1, FirstFits
  <1>4. free # ItemEmpty
    BY <1>1, <1>3 DEF ItemEmpty
  <1>5. PutMember(g, c) = [g EXCEPT !.members[free] = c]
    BY <1>2, <1>4 DEF PutMember
  <1> HIDE DEF free
  <1>6. /\ PutMember(g, c).members = [[i \in Slots |-> Nobody] EXCEPT ![free] = c]
        /\ PutMember(g, c).state = "LOBBY"
    BY <1>5 DEF RoomType
  <1>7. Seats(PutMember(g, c)) = Slots
    BY <1>6 DEF Seats
  <1>8. FindClient(PutMember(g, c), c) = free
    <2> DEFINE h == PutMember(g, c)
    <2>1. h.members[free] = c /\ free \in Seats(h)
      BY <1>3, <1>6, <1>7
    <2>2. /\ FindClient(h, c) # ItemEmpty =>
                FindClient(h, c) \in Seats(h) /\ h.members[FindClient(h, c)] = c
          /\ FindClient(h, c) = ItemEmpty => \A i \in Seats(h) : h.members[i] # c
      BY FindClientRange
    <2>3. FindClient(h, c) \in Slots /\ h.members[FindClient(h, c)] = c
      BY <1>7, <2>1, <2>2
    <2> HIDE DEF h
    <2>4. \A i \in Slots : h.members[i] = c => i = free
      BY <1>1, <1>3, <1>6 DEF h
    <2> QED
      BY <2>3, <2>4 DEF h
  <1> QED
    BY <1>1, <1>3, <1>6, <1>8

(* The first free player of a room is a player or none.                    *)
LEMMA FirstFreePlayer ==
    ASSUME NEW g
    PROVE  First(FreePlayerSlots(g)) \in RIDs
  BY FirstFits, SetsOfNumbers DEF RIDs

-----------------------------------------------------------------------------
(* Type correctness, handler by handler.                                   *)
TablesOK == cli \in [Clients -> ClientType] /\ rooms \in [Rooms -> RoomType]

(* A client that is in a room has the number of one.                       *)
LEMMA RoomOfClient ==
    ASSUME TablesOK, NEW c \in Clients
    PROVE  /\ cli[c] \in ClientType /\ cli[c].roomId \in RoomIds
           /\ cli[c].playerRids \in [ClientSlots -> RIDs]
           /\ cli[c].roomId # ItemEmpty =>
                cli[c].roomId \in Rooms /\ rooms[cli[c].roomId] \in RoomType
  BY DEF TablesOK, ClientType, RoomIds

(* engine_client_disconnected keeps the types.                             *)
LEMMA DisconnectType ==
    ASSUME TablesOK, NEW c \in Clients, Disconnect(c)
    PROVE  TablesOK'
  <1> DEFINE r == cli[c].roomId
             after == ClientGone(rooms[r], c)
  <1>1. CASE r = ItemEmpty
    BY <1>1, WipedType DEF Disconnect, TablesOK
  <1>2. CASE r # ItemEmpty
    <2>1. r \in Rooms /\ after \in RoomType
      BY <1>2, RoomOfClient, ClientGoneType
    <2>2. rooms' = [rooms EXCEPT ![r] = after]
          /\ cli' = [cli EXCEPT ![c] =
                IF after.state = "IDLE" THEN WipedClient
                ELSE [cli[c] EXCEPT !.conn = FALSE, !.status = "DISCONNECTED"]]
      BY <1>2 DEF Disconnect
    <2>3. [cli[c] EXCEPT !.conn = FALSE, !.status = "DISCONNECTED"] \in ClientType
      BY RoomOfClient DEF ClientType, Statuses
    <2> HIDE DEF r, after
    <2> QED
      BY <2>1, <2>2, <2>3, WipedType DEF TablesOK
  <1> QED
    BY <1>1, <1>2

(* Creating a room keeps the types.                                        *)
LEMMA CreateType ==
    ASSUME TablesOK, NEW c \in Clients, CmdCreate(c)
    PROVE  TablesOK'
  <1> DEFINE S == {q \in Rooms : rooms[q].state = "IDLE"}
             r == First(S)
             init == [CleanUp(rooms[r]) EXCEPT !.state = "LOBBY", !.usedColors = {}]
             lead == FindClient(PutMember(init, c), c)
             opened == [PutMember(init, c) EXCEPT !.leader = lead]
             p == First(FreePlayerSlots(opened))
  <1>1. r \in Rooms
    <2>1. S \subseteq Nat /\ r # ItemEmpty
      BY SetsOfNumbers DEF CmdCreate
    <2>2. r \in S
      BY <2>1, FirstFits
    <2> QED
      BY <2>2
  <1>2. init \in RoomType /\ init.state = "LOBBY" /\ init.members = [i \in Slots |-> Nobody]
    <2>1. CleanUp(rooms[r]) \in RoomType
      BY <1>1, CleanUpType DEF TablesOK
    <2> QED
      BY <2>1 DEF RoomType, RoomStates, CleanUp
  <1> HIDE DEF init
  <1>3. PutMember(init, c) \in RoomType /\ PutMember(init, c).state = "LOBBY"
    BY <1>2, PutMemberType
  <1>4. lead \in Slots
    BY <1>2, NewRoomSeatsCreator
  <1>5. opened \in RoomType
    BY <1>3, <1>4 DEF RoomType
  <1>6. rooms' = [rooms EXCEPT ![r] = PutPlayer(opened, c, cli[c].playerRids)]
        /\ cli' = [cli EXCEPT ![c].roomId = r,
                     ![c].playerRids = RidsWith(cli[c].playerRids, p)]
    BY DEF CmdCreate, init
  <1> HIDE DEF r, opened
  <1>7. rooms' \in [Rooms -> RoomType]
    BY <1>1, <1>5, <1>6, PutPlayerType DEF TablesOK
  <1>8. cli' \in [Clients -> ClientType]
    <2>1. RidsWith(cli[c].playerRids, p) \in [ClientSlots -> RIDs]
      BY RoomOfClient, FirstFreePlayer, RidsWithType
    <2> QED
      BY <1>1, <1>6, <2>1 DEF TablesOK, ClientType, RoomIds
  <1> QED
    BY <1>7, <1>8 DEF TablesOK

(* Joining a room keeps the types.                                         *)
LEMMA JoinType ==
    ASSUME TablesOK, NEW c \in Clients, NEW r \in Rooms, CmdJoin(c, r)
    PROVE  TablesOK'
  <1> DEFINE joined == PutMember(rooms[r], c)
             p == First(FreePlayerSlots(joined))
  <1>1. joined \in RoomType
    BY PutMemberType DEF TablesOK
  <1>2. rooms' = [rooms EXCEPT ![r] = PutPlayer(joined, c, cli[c].playerRids)]
        /\ cli' = [cli EXCEPT ![c].roomId = r,
                     ![c].playerRids = RidsWith(cli[c].playerRids, p)]
    BY DEF CmdJoin
  <1>3. RidsWith(cli[c].playerRids, p) \in [ClientSlots -> RIDs]
    BY RoomOfClient, FirstFreePlayer, RidsWithType
  <1> HIDE DEF joined
  <1> QED
    BY <1>1, <1>2, <1>3, PutPlayerType DEF TablesOK, ClientType, RoomIds

(* Leaving a room keeps the types.                                         *)
LEMMA LeaveType ==
    ASSUME TablesOK, NEW c \in Clients, CmdLeave(c)
    PROVE  TablesOK'
  <1> DEFINE r == cli[c].roomId
  <1>1. r \in Rooms
    BY RoomOfClient DEF CmdLeave
  <1>2. RemoveClient(ClientGone(rooms[r], c), c) \in RoomType
    BY <1>1, ClientGoneType, RemoveClientType DEF TablesOK
  <1> QED
    BY <1>1, <1>2 DEF CmdLeave, TablesOK, ClientType, RoomIds

(* Changing a ready state keeps the types.                                 *)
LEMMA ReadyType ==
    ASSUME TablesOK, NEW c \in Clients, NEW b \in BOOLEAN, CmdReady(c, b)
    PROVE  TablesOK'
  <1> DEFINE r == cli[c].roomId
             rid == FindClient(rooms[r], c)
             said == [rooms[r] EXCEPT !.ready[rid] = b]
             next == NextState(said.state)
  <1>1. r \in Rooms /\ rid \in Slots
    BY RoomOfClient, FindClientRange DEF CmdReady, InARoom, RIDs
  <1>2. said \in RoomType
    BY <1>1 DEF RoomType, TablesOK
  <1>3. next \in RoomStates
    BY DEF NextState, RoomStates
  <1>4. InState(said, next) \in RoomType
        /\ ClientsInState(said, next) \in [Clients -> ClientType]
    BY <1>2, <1>3, InStateType, ClientsInStateType DEF TablesOK
  <1>5. \/ rooms' = [rooms EXCEPT ![r] = InState(said, next)]
           /\ cli' = ClientsInState(said, next)
        \/ rooms' = [rooms EXCEPT ![r] = said] /\ cli' = cli
    BY DEF CmdReady
  <1> HIDE DEF r, said, next
  <1> QED
    BY <1>1, <1>2, <1>4, <1>5 DEF TablesOK

(* Every command keeps the types.                                          *)
LEMMA CommandType ==
    ASSUME TablesOK, Command
    PROVE  TablesOK'
  <1>1. CASE NewClient
    <2> DEFINE c == First({d \in Clients : cli[d].status = "EMPTY"})
    <2>1. [WipedClient EXCEPT !.status = "CONNECTED", !.conn = TRUE] \in ClientType
      BY WipedType DEF ClientType, Statuses
    <2> QED
      BY <1>1, <2>1 DEF NewClient, TablesOK
  <1>2. ASSUME NEW c \in Clients, Reintroduce(c)
        PROVE  TablesOK'
    BY <1>2 DEF Reintroduce, TablesOK, ClientType, Statuses
  <1>3. ASSUME NEW c \in Clients, CmdDisconnect(c)
        PROVE  TablesOK'
    BY <1>3, DisconnectType DEF CmdDisconnect
  <1> QED
    BY <1>1, <1>2, <1>3, CreateType, JoinType, LeaveType, ReadyType DEF Command

(* Every step of the tick keeps the types.                                 *)
LEMMA TickType ==
    ASSUME TypeOK, Tick
    PROVE  TablesOK'
  <1>0. TablesOK
    BY DEF TypeOK, TablesOK
  <1>1. CASE CheckClient
    <2>1. index \in Clients
      BY <1>1 DEF CheckClient, TypeOK
    <2> QED
      BY <1>0, <1>1, <2>1, DisconnectType DEF CheckClient, TablesOK
  <1>2. CASE EndCommands
    BY <1>0, <1>2 DEF EndCommands, TablesOK
  <1>3. CASE UpdateRoom
    <2>1. index \in Rooms /\ "LOBBY" \in RoomStates
      BY <1>3 DEF UpdateRoom, TypeOK, RoomStates
    <2>2. InState(rooms[index], "LOBBY") \in RoomType
          /\ ClientsInState(rooms[index], "LOBBY") \in [Clients -> ClientType]
      BY <1>0, <2>1, InStateType, ClientsInStateType DEF TablesOK
    <2> QED
      BY <1>0, <1>3, <2>1, <2>2 DEF UpdateRoom, TablesOK
  <1> QED
    BY <1>1, <1>2, <1>3 DEF Tick

(* Every step keeps the types.                                             *)
LEMMA TypeInductive ==
    ASSUME TypeOK, [Next]_vars
    PROVE  TypeOK'
  <1> DEFINE PositionOK == \/ phase = "check" /\ index \in Clients
                           \/ phase \in {"commands", "update"} /\ index \in Rooms
  <1>0. TablesOK /\ PositionOK
    BY DEF TypeOK, TablesOK
  <1>1. CASE Command
    <2>1. phase' = phase /\ index' = index
      BY <1>1 DEF Command, NewClient, Reintroduce, CmdDisconnect, CmdCreate, CmdLeave,
                  CmdReady, CmdJoin
    <2> QED
      BY <1>0, <1>1, <2>1, CommandType DEF TypeOK, TablesOK
  <1>2. CASE Tick
    <2>1. PositionOK'
      BY <1>0, <1>2, RoomsAssumption
      DEF Tick, CheckClient, EndCommands, UpdateRoom, Clients, Rooms
    <2> QED
      BY <1>2, <2>1, TickType DEF TypeOK, TablesOK
  <1>3. ASSUME NEW c \in Clients, ConnLost(c)
        PROVE  TypeOK'
    BY <1>3 DEF ConnLost, TypeOK, ClientType
  <1>4. CASE UNCHANGED vars
    BY <1>4 DEF vars, TypeOK
  <1> QED
    BY <1>1, <1>2, <1>3, <1>4 DEF Next

(* Clients, rooms and the engine's place in its tick keep their types: no  *)
(* handler leaves a room without a valid leader slot or a client with a    *)
(* room that does not exist.                                               *)
THEOREM TypeCorrect == Spec => []TypeOK
  <1>1. Init => TypeOK
    BY RoomsAssumption
    DEF Init, TypeOK, ClientType, RoomType, PlayerType, Statuses, RoomStates, RoomIds, RIDs,
        Clients, Rooms, Slots, Colors
  <1> QED
    BY <1>1, TypeInductive, PTL DEF Spec

-----------------------------------------------------------------------------
(* SeatsAgree is inductive.  Each handler changes the seats of one room:   *)
(* most only empty some (Shrinks), and the one that fills a seat fills it  *)
(* with a client that, by SeatsAgree itself, sits nowhere else.            *)

(* SeatsAgree for room number r, when it is g and the clients are t        *)
RoomAgrees(t, r, g) ==
    \A i \in Seated(g) :
      /\ t[g.members[i]].status # "EMPTY" /\ t[g.members[i]].roomId = r
      /\ \A j \in Seated(g) : g.members[j] = g.members[i] => j = i

(* The invariant, taken apart room by room.                                *)
LEMMA SeatsAgreeByRoom ==
    SeatsAgree <=> \A r \in Rooms : RoomAgrees(cli, r, rooms[r])
  BY DEF SeatsAgree, RoomAgrees

Shrinks(g, h) ==
    \A i \in Seated(h) : i \in Seated(g) /\ h.members[i] = g.members[i]

(* Whoever has a seat is a client.                                         *)
LEMMA SeatedClients ==
    ASSUME NEW g \in RoomType, NEW i \in Seated(g)
    PROVE  i \in Slots /\ i \in Seats(g) /\ g.members[i] \in Clients
           /\ g.members[i] # Nobody /\ g.state # "IDLE"
  BY DEF Seated, Seats, RoomType

(* Removing a client seats nobody, and that client has no seat left.       *)
LEMMA RemoveClientShrinks ==
    ASSUME NEW g \in RoomType, NEW c
    PROVE  /\ Shrinks(g, RemoveClient(g, c))
           /\ FindClient(g, c) \notin Seated(RemoveClient(g, c))
  <1> DEFINE rid == FindClient(g, c)
             h == RemoveClient(g, c)
  <1>1. CASE rid = ItemEmpty
    <2>1. h = g
      BY <1>1 DEF RemoveClient
    <2>2. ItemEmpty \notin Slots
      BY DEF ItemEmpty, Slots
    <2> QED
      BY <1>1, <2>1, <2>2 DEF Shrinks, Seated, Seats
  <1>2. CASE rid # ItemEmpty
    <2>1. rid \in Slots
      BY <1>2, FindClientRange DEF RIDs
    <2>2. h.members = [g.members EXCEPT ![rid] = Nobody] /\ h.state = g.state
      BY <1>2 DEF RemoveClient, RoomType
    <2>3. Seats(h) = Seats(g) /\ Seats(g) \subseteq Slots
      BY <2>2 DEF Seats
    <2>4. g.members \in [Slots -> Clients \cup {Nobody}]
      BY DEF RoomType
    <2> HIDE DEF h, rid
    <2> QED
      BY <2>1, <2>2, <2>3, <2>4 DEF Shrinks, Seated, h, rid
  <1> QED
    BY <1>1, <1>2

(* A room that is cleaned up seats nobody.                                 *)
LEMMA CleanUpEmpties ==
    ASSUME NEW g \in RoomType
    PROVE  Seated(CleanUp(g)) = {} /\ Shrinks(g, CleanUp(g))
  BY CleanUpType DEF Seated, Seats, Shrinks

(* Losing a client seats nobody new.                                       *)
LEMMA ClientGoneShrinks ==
    ASSUME NEW g \in RoomType, NEW c
    PROVE  Shrinks(g, ClientGone(g, c))
  <1> DEFINE left == IF g.state = "LOBBY" THEN RemoveClient(g, c) ELSE g
             led == [left EXCEPT !.leader = First(Eligible(left, c))]
  <1>1. left \in RoomType /\ Shrinks(g, g) /\ Shrinks(g, left)
    BY RemoveClientType, RemoveClientShrinks DEF Shrinks
  <1>2. ClientGone(g, c) \in {g, left, CleanUp(left), led}
    BY DEF ClientGone
  <1> HIDE DEF left
  <1>3. Shrinks(g, CleanUp(left))
    BY <1>1, CleanUpEmpties DEF Shrinks
  <1>4. Shrinks(g, led)
    <2>1. led.members = left.members /\ led.state = left.state
      BY <1>1 DEF RoomType
    <2>2. Seated(led) = Seated(left)
      BY <2>1 DEF Seated, Seats
    <2> HIDE DEF led
    <2> QED
      BY <1>1, <2>1, <2>2 DEF Shrinks
  <1> QED
    BY <1>1, <1>2, <1>3, <1>4

(* A room that only lost members still agrees with a client table that     *)
(* still has the rest.                                                     *)
LEMMA ShrunkRoomAgrees ==
    ASSUME NEW g, NEW h, NEW t, NEW u, NEW r,
           RoomAgrees(t, r, g), Shrinks(g, h),
           \A i \in Seated(h) : u[h.members[i]].roomId = t[h.members[i]].roomId
                                /\ u[h.members[i]].status # "EMPTY"
    PROVE  RoomAgrees(u, r, h)
  BY DEF RoomAgrees, Shrinks

(* A client that has no seat in its own room has none anywhere.            *)
LEMMA SeatedNowhere ==
    ASSUME TablesOK, SeatsAgree, NEW c \in Clients,
           NEW q \in Rooms, NEW i \in Seated(rooms[q]), rooms[q].members[i] = c
    PROVE  cli[c].roomId = q /\ cli[c].status # "EMPTY" /\ InARoom(c)
  <1>1. cli[c].roomId = q /\ cli[c].status # "EMPTY"
    BY DEF SeatsAgree
  <1>2. q # ItemEmpty
    BY DEF Rooms, ItemEmpty
  <1>3. i \in Seats(rooms[q])
    BY DEF Seated
  <1>4. FindClient(rooms[q], c) # ItemEmpty
    BY <1>3, FindClientRange
  <1> QED
    BY <1>1, <1>2, <1>4 DEF InARoom

(* engine_client_disconnected leaves no seat to a client it wipes.         *)
LEMMA DisconnectAgrees ==
    ASSUME TablesOK, SeatsAgree, NEW c \in Clients, Disconnect(c)
    PROVE  SeatsAgree'
  <1> DEFINE r == cli[c].roomId
             after == ClientGone(rooms[r], c)
  <1>1. SUFFICES ASSUME NEW q \in Rooms PROVE RoomAgrees(cli, q, rooms[q])'
    BY DEF SeatsAgree, RoomAgrees
  <1>2. RoomAgrees(cli, q, rooms[q]) /\ rooms[q] \in RoomType
    BY SeatsAgreeByRoom DEF TablesOK
  <1>3. Shrinks(rooms[q], rooms'[q])
    <2>1. CASE r # ItemEmpty /\ q = r
      <3>1. rooms'[q] = after
        BY <2>1, <1>1 DEF Disconnect, TablesOK
      <3> QED
        BY <1>2, <2>1, <3>1, ClientGoneShrinks
    <2>2. CASE ~(r # ItemEmpty /\ q = r)
      <3>1. rooms'[q] = rooms[q]
        BY <2>2, <1>1 DEF Disconnect, TablesOK
      <3> QED
        BY <3>1 DEF Shrinks
    <2> QED
      BY <2>1, <2>2
  <1>4. ASSUME NEW i \in Seated(rooms'[q])
        PROVE  /\ cli'[rooms'[q].members[i]].roomId = cli[rooms'[q].members[i]].roomId
               /\ cli'[rooms'[q].members[i]].status # "EMPTY"
    <2> DEFINE d == rooms'[q].members[i]
    <2>1. i \in Seated(rooms[q]) /\ d = rooms[q].members[i]
      BY <1>3 DEF Shrinks
    <2>2. d \in Clients /\ cli[d].roomId = q /\ cli[d].status # "EMPTY"
      BY <1>2, <2>1, SeatedClients DEF RoomAgrees
    <2>3. CASE d # c
      <3>1. cli'[d] = cli[d]
        BY <2>2, <2>3 DEF Disconnect, TablesOK
      <3> QED
        BY <2>2, <3>1
    <2>4. CASE d = c
      <3>1. r = q /\ r # ItemEmpty
        BY <2>2, <2>4 DEF Rooms, ItemEmpty
      <3>2. rooms'[q] = after
        BY <3>1 DEF Disconnect, TablesOK
      <3>3. after.state # "IDLE"
        BY <3>2 DEF Seated, Seats
      <3>4. cli'[c] = [cli[c] EXCEPT !.conn = FALSE, !.status = "DISCONNECTED"]
        BY <3>1, <3>3 DEF Disconnect, TablesOK
      <3>5. cli[c] \in ClientType
        BY DEF TablesOK
      <3> QED
        BY <2>4, <3>4, <3>5 DEF ClientType
    <2> QED
      BY <2>3, <2>4
  <1> QED
    BY <1>2, <1>3, <1>4, ShrunkRoomAgrees
(* A step that seats nobody and keeps every client that is in use in use   *)
(* and in its room.                                                        *)
LEMMA NobodySeatedAgrees ==
    ASSUME TablesOK, SeatsAgree,
           \A q \in Rooms : Shrinks(rooms[q], rooms'[q]),
           \A d \in Clients : cli[d].status # "EMPTY" =>
             cli'[d].roomId = cli[d].roomId /\ cli'[d].status # "EMPTY"
    PROVE  SeatsAgree'
  <1>1. SUFFICES ASSUME NEW q \in Rooms PROVE RoomAgrees(cli, q, rooms[q])'
    BY DEF SeatsAgree, RoomAgrees
  <1>2. RoomAgrees(cli, q, rooms[q]) /\ rooms[q] \in RoomType /\ Shrinks(rooms[q], rooms'[q])
    BY SeatsAgreeByRoom DEF TablesOK
  <1>3. ASSUME NEW i \in Seated(rooms'[q])
        PROVE  /\ cli'[rooms'[q].members[i]].roomId = cli[rooms'[q].members[i]].roomId
               /\ cli'[rooms'[q].members[i]].status # "EMPTY"
    <2> DEFINE d == rooms'[q].members[i]
    <2>1. i \in Seated(rooms[q]) /\ d = rooms[q].members[i]
      BY <1>2 DEF Shrinks
    <2>2. d \in Clients /\ cli[d].status # "EMPTY"
      BY <1>2, <2>1, SeatedClients DEF RoomAgrees
    <2> QED
      BY <2>2
  <1> QED
    BY <1>2, <1>3, ShrunkRoomAgrees

(* A step that gives client c, which sits in no other room, its only seat  *)
(* in room r.                                                              *)
LEMMA SeatTakenAgrees ==
    ASSUME TablesOK, SeatsAgree, NEW c \in Clients, NEW r \in Rooms, NEW h \in RoomType,
           rooms' = [rooms EXCEPT ![r] = h],
           \A i \in Seated(h) : \/ h.members[i] = c
                                \/ i \in Seated(rooms[r]) /\ h.members[i] = rooms[r].members[i],
           \A i, j \in Seated(h) : h.members[i] = c /\ h.members[j] = c => j = i,
           \A q \in Rooms : \A i \in Seated(rooms[q]) : rooms[q].members[i] = c => q = r,
           cli'[c].roomId = r, cli'[c].status # "EMPTY",
           \A d \in Clients : d # c => cli'[d] = cli[d]
    PROVE  SeatsAgree'
  <1>1. SUFFICES ASSUME NEW q \in Rooms PROVE RoomAgrees(cli, q, rooms[q])'
    BY DEF SeatsAgree, RoomAgrees
  <1>2. RoomAgrees(cli, q, rooms[q]) /\ rooms[q] \in RoomType
    BY SeatsAgreeByRoom DEF TablesOK
  <1>3. CASE q # r
    <2>1. rooms'[q] = rooms[q]
      BY <1>3 DEF TablesOK
    <2>2. \A i \in Seated(rooms[q]) :
            rooms[q].members[i] \in Clients /\ rooms[q].members[i] # c
      BY <1>2, <1>3, SeatedClients
    <2> QED
      BY <1>2, <2>1, <2>2 DEF RoomAgrees
  <1>4. CASE q = r
    <2>1. rooms'[q] = h
      BY <1>4 DEF TablesOK
    <2>2. \A i \in Seated(h) : h.members[i] # c =>
            /\ i \in Seated(rooms[q]) /\ h.members[i] = rooms[q].members[i]
            /\ h.members[i] \in Clients
      BY <1>2, <1>4, SeatedClients
    <2>3. \A i \in Seated(h) :
            cli'[h.members[i]].status # "EMPTY" /\ cli'[h.members[i]].roomId = q
      BY <1>2, <1>4, <2>2 DEF RoomAgrees
    <2>4. \A i, j \in Seated(h) : h.members[j] = h.members[i] => j = i
      BY <1>2, <2>2 DEF RoomAgrees
    <2> HIDE DEF RoomAgrees
    <2>5. RoomAgrees(cli', q, h)
      BY <2>3, <2>4 DEF RoomAgrees
    <2> QED
      BY <2>1, <2>5
  <1> QED
    BY <1>3, <1>4

(* Leaving leaves no seat behind.                                          *)
LEMMA LeaveAgrees ==
    ASSUME TablesOK, SeatsAgree, NEW c \in Clients, CmdLeave(c)
    PROVE  SeatsAgree'
  <1> DEFINE r == cli[c].roomId
             gone == ClientGone(rooms[r], c)
             left == RemoveClient(gone, c)
  <1>1. r \in Rooms /\ rooms[r] \in RoomType /\ gone \in RoomType
    BY RoomOfClient, ClientGoneType DEF CmdLeave
  <1>2. rooms' = [rooms EXCEPT ![r] = left]
        /\ cli' = [cli EXCEPT ![c].roomId = ItemEmpty]
    BY DEF CmdLeave
  <1>3. Shrinks(rooms[r], gone) /\ Shrinks(gone, left) /\ FindClient(gone, c) \notin Seated(left)
    BY <1>1, ClientGoneShrinks, RemoveClientShrinks
  <1>4. RoomAgrees(cli, r, rooms[r])
    BY <1>1, SeatsAgreeByRoom
  <1>5. ASSUME NEW i \in Seated(left), left.members[i] = c
        PROVE  FALSE
    <2>1. i \in Seated(gone) /\ gone.members[i] = c
      BY <1>3, <1>5 DEF Shrinks
    <2>2. i \in Seats(gone) /\ c # Nobody
      BY <1>1, <2>1, SeatedClients
    <2>3. FindClient(gone, c) \in Seats(gone) /\ gone.members[FindClient(gone, c)] = c
      BY <2>1, <2>2, FindClientRange
    <2>4. FindClient(gone, c) \in Seated(gone)
      BY <2>2, <2>3 DEF Seated
    <2>5. \A j \in Seated(gone) : j \in Seated(rooms[r]) /\ gone.members[j] = rooms[r].members[j]
      BY <1>3 DEF Shrinks
    <2>6. FindClient(gone, c) = i
      BY <1>4, <2>1, <2>3, <2>4, <2>5 DEF RoomAgrees
    <2> QED
      BY <1>3, <2>6
  <1> HIDE DEF gone, left
  <1>6. SUFFICES ASSUME NEW q \in Rooms PROVE RoomAgrees(cli, q, rooms[q])'
    BY DEF SeatsAgree, RoomAgrees
  <1>7. RoomAgrees(cli, q, rooms[q]) /\ rooms[q] \in RoomType
    BY SeatsAgreeByRoom DEF TablesOK
  <1>8. Shrinks(rooms[q], rooms'[q])
    <2>1. CASE q = r
      BY <1>1, <1>2, <1>3, <2>1 DEF Shrinks, TablesOK
    <2>2. CASE q # r
      BY <1>1, <1>2, <2>2 DEF Shrinks, TablesOK
    <2> QED
      BY <2>1, <2>2
  <1>9. ASSUME NEW i \in Seated(rooms'[q])
        PROVE  /\ cli'[rooms'[q].members[i]].roomId = cli[rooms'[q].members[i]].roomId
               /\ cli'[rooms'[q].members[i]].status # "EMPTY"
    <2> DEFINE d == rooms'[q].members[i]
    <2>1. i \in Seated(rooms[q]) /\ d = rooms[q].members[i]
      BY <1>8 DEF Shrinks
    <2>2. d \in Clients /\ cli[d].roomId = q /\ cli[d].status # "EMPTY"
      BY <1>7, <2>1, SeatedClients DEF RoomAgrees
    <2>3. d # c
      <3>1. SUFFICES ASSUME d = c PROVE FALSE
        OBVIOUS
      <3>2. q = r
        BY <2>2, <3>1
      <3>3. rooms'[q] = left
        BY <1>1, <1>2, <3>2 DEF TablesOK
      <3> QED
        BY <1>5, <3>1, <3>3
    <2>4. cli'[d] = cli[d]
      BY <1>2, <2>2, <2>3 DEF TablesOK
    <2> QED
      BY <2>2, <2>4
  <1> QED
    BY <1>7, <1>8, <1>9, ShrunkRoomAgrees

(* Creating a room seats its creator alone.                                *)
LEMMA CreateAgrees ==
    ASSUME TablesOK, SeatsAgree, NEW c \in Clients, cli[c].status # "EMPTY", CmdCreate(c)
    PROVE  SeatsAgree'
  <1> DEFINE S == {q \in Rooms : rooms[q].state = "IDLE"}
             r == First(S)
             init == [CleanUp(rooms[r]) EXCEPT !.state = "LOBBY", !.usedColors = {}]
             lead == FindClient(PutMember(init, c), c)
             opened == [PutMember(init, c) EXCEPT !.leader = lead]
             h == PutPlayer(opened, c, cli[c].playerRids)
  <1>1. r \in Rooms
    <2>1. S \subseteq Nat /\ r # ItemEmpty
      BY SetsOfNumbers DEF CmdCreate
    <2>2. r \in S
      BY <2>1, FirstFits
    <2> QED
      BY <2>2
  <1>2. init \in RoomType /\ init.state = "LOBBY" /\ init.members = [i \in Slots |-> Nobody]
    <2>1. CleanUp(rooms[r]) \in RoomType
      BY <1>1, CleanUpType DEF TablesOK
    <2> QED
      BY <2>1 DEF RoomType, RoomStates, CleanUp
  <1> HIDE DEF init
  <1>3. PutMember(init, c) \in RoomType
    BY <1>2, PutMemberType
  <1>4. /\ lead \in Slots
        /\ \A i \in Slots : PutMember(init, c).members[i] # Nobody =>
             PutMember(init, c).members[i] = c /\ i = lead
    BY <1>2, NewRoomSeatsCreator
  <1>5. opened \in RoomType /\ opened.members = PutMember(init, c).members
    BY <1>3, <1>4 DEF RoomType
  <1>6. rooms' = [rooms EXCEPT ![r] = h]
        /\ cli' = [cli EXCEPT ![c].roomId = r,
                     ![c].playerRids = RidsWith(cli[c].playerRids,
                                                First(FreePlayerSlots(opened)))]
    BY DEF CmdCreate, init
  <1> HIDE DEF r, opened, lead
  <1>7. h \in RoomType /\ h.members = PutMember(init, c).members
    BY <1>5, PutPlayerType
  <1> HIDE DEF h
  <1>8. \A i \in Seated(h) : h.members[i] = c /\ i = lead
    BY <1>4, <1>7, SeatedClients
  <1>9. \A q \in Rooms : \A i \in Seated(rooms[q]) : rooms[q].members[i] # c
    BY SeatedNowhere DEF CmdCreate
  <1>10. /\ cli'[c].roomId = r /\ cli'[c].status # "EMPTY"
         /\ \A d \in Clients : d # c => cli'[d] = cli[d]
    BY <1>6 DEF TablesOK, ClientType
  <1>11. /\ \A i \in Seated(h) : \/ h.members[i] = c
                                 \/ i \in Seated(rooms[r]) /\ h.members[i] = rooms[r].members[i]
         /\ \A i, j \in Seated(h) : h.members[i] = c /\ h.members[j] = c => j = i
    BY <1>8
  <1>12. \A q \in Rooms : \A i \in Seated(rooms[q]) : rooms[q].members[i] = c => q = r
    BY <1>9
  <1>13. rooms' = [rooms EXCEPT ![r] = h]
    BY <1>6
  <1> QED
    BY <1>1, <1>7, <1>10, <1>11, <1>12, <1>13, SeatTakenAgrees

(* Joining seats the client once, in the room it is told it is in.         *)
LEMMA JoinAgrees ==
    ASSUME TablesOK, SeatsAgree, NEW c \in Clients, NEW r \in Rooms,
           cli[c].status # "EMPTY", CmdJoin(c, r)
    PROVE  SeatsAgree'
  <1> DEFINE g == rooms[r]
             free == First(Seats(g) \ Seated(g))
             joined == PutMember(g, c)
             h == PutPlayer(joined, c, cli[c].playerRids)
  <1>1. g \in RoomType /\ RoomAgrees(cli, r, g) /\ joined \in RoomType
        /\ Seats(g) \ Seated(g) \subseteq Slots /\ Slots \subseteq Nat
    <2>1. g \in RoomType
      BY DEF TablesOK
    <2>2. joined \in RoomType
      BY <2>1, PutMemberType
    <2>3. RoomAgrees(cli, r, g)
      BY SeatsAgreeByRoom
    <2>4. Seats(g) \subseteq Slots /\ Slots \subseteq Nat
      BY SetsOfNumbers
    <2> QED
      BY <2>1, <2>2, <2>3, <2>4
  <1>2. rooms' = [rooms EXCEPT ![r] = h]
        /\ cli' = [cli EXCEPT ![c].roomId = r,
                     ![c].playerRids = RidsWith(cli[c].playerRids,
                                                First(FreePlayerSlots(joined)))]
    BY DEF CmdJoin
  <1>3. h \in RoomType /\ h.members = joined.members /\ h.state = joined.state
    BY <1>1, PutPlayerType
  <1>4. Seated(h) = Seated(joined)
    BY <1>3 DEF Seated, Seats
  <1>5. \/ joined = g
        \/ /\ FindClient(g, c) = ItemEmpty
           /\ free # ItemEmpty
           /\ joined = [g EXCEPT !.members[free] = c]
    BY DEF PutMember
  <1> HIDE DEF joined, h
  <1>6. /\ \A i \in Seated(joined) : \/ joined.members[i] = c
                                     \/ i \in Seated(g) /\ joined.members[i] = g.members[i]
        /\ \A i, j \in Seated(joined) :
             joined.members[i] = c /\ joined.members[j] = c => j = i
    <2>1. CASE joined = g
      BY <1>1, <2>1 DEF RoomAgrees
    <2>2. CASE FindClient(g, c) = ItemEmpty /\ free # ItemEmpty
               /\ joined = [g EXCEPT !.members[free] = c]
      <3>1. free \in Slots
        BY <1>1, <2>2, FirstFits
      <3>2. joined.members = [g.members EXCEPT ![free] = c] /\ joined.state = g.state
            /\ g.members \in [Slots -> Clients \cup {Nobody}]
        BY <1>1, <2>2 DEF RoomType
      <3>3. Seats(joined) = Seats(g) /\ Seats(g) \subseteq Slots
        BY <3>2 DEF Seats
      <3>4. \A i \in Seats(g) : g.members[i] # c
        BY <2>2, FindClientRange
      <3> HIDE DEF free, g
      <3>5. \A i \in Slots : joined.members[i] = IF i = free THEN c ELSE g.members[i]
        BY <3>1, <3>2
      <3>6. \A i \in Seated(joined) : i \in Slots /\ i \in Seats(g)
        BY <3>3 DEF Seated
      <3>7. \A i \in Seated(joined) : joined.members[i] # Nobody
        BY DEF Seated
      <3>8. \A i \in Seated(joined) : i # free =>
              i \in Seated(g) /\ joined.members[i] = g.members[i] /\ g.members[i] # c
        BY <3>4, <3>5, <3>6, <3>7 DEF Seated
      <3>9. free \in Seated(joined) => joined.members[free] = c
        BY <3>1, <3>5
      <3> QED
        BY <3>8, <3>9
    <2> QED
      BY <1>5, <2>1, <2>2
  <1>7. \A q \in Rooms : \A i \in Seated(rooms[q]) : rooms[q].members[i] = c => q = r
    <2>1. cli[c].roomId \in {ItemEmpty, r}
      BY DEF CmdJoin
    <2> QED
      BY <2>1, SeatedNowhere DEF InARoom
  <1>8. /\ cli'[c].roomId = r /\ cli'[c].status # "EMPTY"
        /\ \A d \in Clients : d # c => cli'[d] = cli[d]
    BY <1>2 DEF TablesOK, ClientType
  <1> HIDE DEF g
  <1>9. /\ \A i \in Seated(h) : \/ h.members[i] = c
                                \/ i \in Seated(g) /\ h.members[i] = g.members[i]
        /\ \A i, j \in Seated(h) : h.members[i] = c /\ h.members[j] = c => j = i
    BY <1>3, <1>4, <1>6
  <1> QED
    BY <1>2, <1>3, <1>7, <1>8, <1>9, SeatTakenAgrees DEF g

(* A change of the room's state seats nobody.                              *)
LEMMA SameMembersShrinks ==
    ASSUME NEW g, NEW h, h.members = g.members, g.state # "IDLE"
    PROVE  Shrinks(g, h)
  BY DEF Shrinks, Seated, Seats

(* Changing a ready state moves nobody.                                    *)
LEMMA ReadyAgrees ==
    ASSUME TablesOK, SeatsAgree, NEW c \in Clients, NEW b \in BOOLEAN, CmdReady(c, b)
    PROVE  SeatsAgree'
  <1> DEFINE r == cli[c].roomId
             g == rooms[r]
             rid == FindClient(g, c)
             said == [g EXCEPT !.ready[rid] = b]
             next == NextState(said.state)
  <1>1. r \in Rooms /\ rid \in Slots /\ g \in RoomType /\ rid \in Seats(g)
    BY RoomOfClient, FindClientRange DEF CmdReady, InARoom, RIDs
  <1>2. g.state # "IDLE"
    BY <1>1 DEF Seats
  <1>3. said \in RoomType /\ said.members = g.members
    BY <1>1 DEF RoomType
  <1>4. next \in RoomStates
    BY DEF NextState, RoomStates
  <1>5. InState(said, next).members = g.members
    BY <1>3, <1>4, InStateType
  <1>6. \/ rooms' = [rooms EXCEPT ![r] = InState(said, next)]
           /\ cli' = ClientsInState(said, next)
        \/ rooms' = [rooms EXCEPT ![r] = said] /\ cli' = cli
    BY DEF CmdReady
  <1> HIDE DEF said, next, rid
  <1>7. Shrinks(g, said) /\ Shrinks(g, InState(said, next))
    BY <1>2, <1>3, <1>5, SameMembersShrinks
  <1>8. \A q \in Rooms : Shrinks(rooms[q], rooms'[q])
    <2>1. \A q \in Rooms : Shrinks(rooms[q], rooms[q])
      BY DEF Shrinks
    <2> QED
      BY <1>1, <1>6, <1>7, <2>1 DEF TablesOK
  <1>9. \A d \in Clients : cli[d].status # "EMPTY" =>
          cli'[d].roomId = cli[d].roomId /\ cli'[d].status # "EMPTY"
    BY <1>4, <1>6, ClientsInStateType DEF TablesOK
  <1> QED
    BY <1>8, <1>9, NobodySeatedAgrees

(* A connection belongs to a client that is in use, which is why a command *)
(* cannot seat a client record that is free.                               *)
InUse == \A c \in Clients : cli[c].conn => cli[c].status # "EMPTY"

SeatsInv == SeatsAgree /\ InUse

(* Every step keeps in use the clients the engine takes commands from.     *)
LEMMA InUseKept ==
    ASSUME TypeOK, InUse, [Next]_vars
    PROVE  InUse'
  <1>0. TablesOK
    BY DEF TypeOK, TablesOK
  <1>1. ASSUME NEW c \in Clients, Disconnect(c)
        PROVE  InUse'
    <2> DEFINE away == [cli[c] EXCEPT !.conn = FALSE, !.status = "DISCONNECTED"]
    <2>1. cli' = [cli EXCEPT ![c] = WipedClient] \/ cli' = [cli EXCEPT ![c] = away]
      BY <1>1 DEF Disconnect
    <2>2. ~WipedClient.conn /\ ~away.conn
      BY <1>0, RoomOfClient DEF WipedClient, ClientType
    <2> HIDE DEF away
    <2>3. \A d \in Clients : cli'[d] = cli[d] \/ ~cli'[d].conn
      BY <1>0, <2>1, <2>2 DEF TablesOK
    <2> QED
      BY <2>3 DEF InUse
  <1>2. ASSUME NEW g, NEW s, cli' = ClientsInState(g, s)
        PROVE  InUse'
    <2>1. ASSUME NEW c \in Clients
          PROVE  cli'[c].conn = cli[c].conn
                 /\ (cli[c].status # "EMPTY" => cli'[c].status # "EMPTY")
      <3>1. cli[c] \in ClientType
        BY <1>0, RoomOfClient
      <3> QED
        BY <1>2, <3>1 DEF ClientsInState, ClientType, StatusFor
    <2> QED
      BY <2>1 DEF InUse
  <1>3. CASE NewClient
    <2> DEFINE e == First({d \in Clients : cli[d].status = "EMPTY"})
               new == [WipedClient EXCEPT !.status = "CONNECTED", !.conn = TRUE]
    <2>1. cli' = [cli EXCEPT ![e] = new] /\ new.status = "CONNECTED"
      BY <1>3 DEF NewClient, WipedClient
    <2> HIDE DEF e, new
    <2>2. \A d \in Clients : cli'[d] = cli[d] \/ cli'[d].status = "CONNECTED"
      BY <1>0, <2>1 DEF TablesOK
    <2> QED
      BY <2>2 DEF InUse
  <1>4. ASSUME NEW c \in Clients, Reintroduce(c)
        PROVE  InUse'
    BY <1>0, <1>4 DEF Reintroduce, InUse, TablesOK, ClientType
  <1>5. ASSUME NEW c \in Clients, CmdCreate(c) \/ CmdLeave(c) \/ \E r \in Rooms : CmdJoin(c, r)
        PROVE  InUse'
    <2>1. \A d \in Clients : cli'[d].status = cli[d].status /\ cli'[d].conn = cli[d].conn
      <3> SUFFICES ASSUME NEW d \in Clients
                   PROVE  cli'[d].status = cli[d].status /\ cli'[d].conn = cli[d].conn
        OBVIOUS
      <3>1. cli[d] \in ClientType /\ cli[c] \in ClientType /\ cli \in [Clients -> ClientType]
        BY <1>0 DEF TablesOK
      <3>2. \E r, rids : \/ cli' = [cli EXCEPT ![c].roomId = r, ![c].playerRids = rids]
                         \/ cli' = [cli EXCEPT ![c].roomId = r]
        BY <1>5 DEF CmdCreate, CmdLeave, CmdJoin
      <3> QED
        BY <3>1, <3>2 DEF ClientType
    <2> QED
      BY <2>1 DEF InUse
  <1>6. ASSUME NEW c \in Clients, NEW b \in BOOLEAN, CmdReady(c, b)
        PROVE  InUse'
    <2>1. (\E g, s : cli' = ClientsInState(g, s)) \/ cli' = cli
      BY <1>6 DEF CmdReady
    <2> QED
      BY <1>2, <2>1 DEF InUse
  <1>7. CASE CheckClient
    <2>1. index \in Clients
      BY <1>7 DEF CheckClient, TypeOK
    <2> QED
      BY <1>1, <1>7, <2>1 DEF CheckClient, InUse
  <1>8. CASE UpdateRoom
    BY <1>2, <1>8 DEF UpdateRoom, InUse
  <1>9. CASE EndCommands \/ UNCHANGED vars
    BY <1>9 DEF EndCommands, vars, InUse
  <1>10. ASSUME NEW c \in Clients, ConnLost(c)
         PROVE  InUse'
    BY <1>0, <1>10 DEF ConnLost, InUse, TablesOK, ClientType
  <1> QED
    BY <1>1, <1>3, <1>4, <1>5, <1>6, <1>7, <1>8, <1>9, <1>10
    DEF Next, Command, Tick, CmdDisconnect

(* Every step keeps the agreement of seats and clients.                    *)
LEMMA SeatsAgreeKept ==
    ASSUME TypeOK, SeatsAgree, InUse, [Next]_vars
    PROVE  SeatsAgree'
  <1>0. TablesOK
    BY DEF TypeOK, TablesOK
  <1>1. \A q \in Rooms : Shrinks(rooms[q], rooms[q])
    BY DEF Shrinks
  <1>2. CASE NewClient
    <2> DEFINE e == First({d \in Clients : cli[d].status = "EMPTY"})
               new == [WipedClient EXCEPT !.status = "CONNECTED", !.conn = TRUE]
    <2>1. cli[e].status = "EMPTY"
      <3>1. {d \in Clients : cli[d].status = "EMPTY"} \subseteq Nat
        BY SetsOfNumbers
      <3>2. e \in {d \in Clients : cli[d].status = "EMPTY"}
        BY <1>2, <3>1, FirstFits DEF NewClient
      <3> QED
        BY <3>2
    <2>2. cli' = [cli EXCEPT ![e] = new] /\ rooms' = rooms
      BY <1>2 DEF NewClient
    <2> HIDE DEF e, new
    <2>3. \A d \in Clients : cli[d].status # "EMPTY" => cli'[d] = cli[d]
      BY <1>0, <2>1, <2>2 DEF TablesOK
    <2> QED
      BY <1>0, <1>1, <2>2, <2>3, NobodySeatedAgrees
  <1>3. ASSUME NEW c \in Clients, Reintroduce(c) \/ ConnLost(c)
        PROVE  SeatsAgree'
    <2>1. rooms' = rooms
      BY <1>3 DEF Reintroduce, ConnLost
    <2>2. \A d \in Clients : cli[d].status # "EMPTY" =>
            cli'[d].roomId = cli[d].roomId /\ cli'[d].status # "EMPTY"
      <3>1. \E b \in BOOLEAN, s \in {"PLAYING", "CONNECTED"} :
              \/ cli' = [cli EXCEPT ![c].conn = b]
              \/ cli' = [cli EXCEPT ![c].conn = b, ![c].status = s]
        BY <1>3 DEF Reintroduce, ConnLost
      <3>2. cli[c] \in ClientType /\ cli \in [Clients -> ClientType]
        BY <1>0, RoomOfClient DEF TablesOK
      <3>3. /\ cli'[c].roomId = cli[c].roomId
            /\ cli[c].status # "EMPTY" => cli'[c].status # "EMPTY"
            /\ \A d \in Clients : d # c => cli'[d] = cli[d]
        BY <3>1, <3>2 DEF ClientType
      <3> QED
        BY <3>3
    <2> QED
      BY <1>0, <1>1, <2>1, <2>2, NobodySeatedAgrees
  <1>4. ASSUME NEW c \in Clients, FromClient(c)
        PROVE  cli[c].status # "EMPTY"
    BY <1>4 DEF FromClient, InUse
  <1>5. ASSUME NEW c \in Clients, CmdDisconnect(c)
        PROVE  SeatsAgree'
    BY <1>0, <1>5, DisconnectAgrees DEF CmdDisconnect
  <1>6. ASSUME NEW c \in Clients, CmdCreate(c)
        PROVE  SeatsAgree'
    <2>1. cli[c].status # "EMPTY"
      BY <1>4, <1>6 DEF CmdCreate
    <2> QED
      BY <1>0, <1>6, <2>1, CreateAgrees
  <1>7. ASSUME NEW c \in Clients, NEW r \in Rooms, CmdJoin(c, r)
        PROVE  SeatsAgree'
    <2>1. cli[c].status # "EMPTY"
      BY <1>4, <1>7 DEF CmdJoin
    <2> QED
      BY <1>0, <1>7, <2>1, JoinAgrees
  <1>8. CASE CheckClient
    <2>1. index \in Clients
      BY <1>8 DEF CheckClient, TypeOK
    <2>2. Disconnect(index) \/ (cli' = cli /\ rooms' = rooms)
      BY <1>8 DEF CheckClient
    <2> QED
      BY <1>0, <1>1, <2>1, <2>2, DisconnectAgrees, NobodySeatedAgrees
  <1>9. CASE EndCommands \/ UNCHANGED vars
    BY <1>9 DEF EndCommands, vars, SeatsAgree
  <1>10. CASE UpdateRoom
    <2> DEFINE g == rooms[index]
    <2>1. index \in Rooms /\ "LOBBY" \in RoomStates /\ g \in RoomType
      BY <1>0, <1>10 DEF UpdateRoom, TypeOK, RoomStates, TablesOK
    <2>2. CASE cli' = cli /\ rooms' = rooms
      BY <1>0, <1>1, <2>2, NobodySeatedAgrees
    <2>3. CASE BackToLobby(g)
               /\ rooms' = [rooms EXCEPT ![index] = InState(g, "LOBBY")]
               /\ cli' = ClientsInState(g, "LOBBY")
      <3>1. Shrinks(g, InState(g, "LOBBY"))
        BY <2>1, <2>3, InStateType, SameMembersShrinks DEF BackToLobby
      <3>2. \A q \in Rooms : Shrinks(rooms[q], rooms'[q])
        BY <1>0, <1>1, <2>1, <2>3, <3>1 DEF TablesOK
      <3>3. \A d \in Clients : cli[d].status # "EMPTY" =>
              cli'[d].roomId = cli[d].roomId /\ cli'[d].status # "EMPTY"
        BY <1>0, <2>1, <2>3, ClientsInStateType DEF TablesOK
      <3> QED
        BY <1>0, <3>2, <3>3, NobodySeatedAgrees
    <2> QED
      BY <1>10, <2>2, <2>3 DEF UpdateRoom
  <1> QED
    BY <1>0, <1>2, <1>3, <1>5, <1>6, <1>7, <1>8, <1>9, <1>10, LeaveAgrees, ReadyAgrees
    DEF Next, Command, Tick

(* No room ever holds a pointer to a client record that was wiped, or to a *)
(* client that went on to another room, and nobody sits twice: whichever   *)
(* way the client left, engine_game_room_client_disconnected and           *)
(* engine_game_room_remove_client took its seat before its room_id.        *)
THEOREM SeatsAlwaysAgree == Spec => []SeatsAgree
  <1>1. Init => SeatsInv
    BY DEF Init, SeatsInv, SeatsAgree, InUse, Seated, Seats
  <1>2. TypeOK /\ SeatsInv /\ [Next]_vars => SeatsInv'
    BY InUseKept, SeatsAgreeKept DEF SeatsInv
  <1>3. SeatsInv => SeatsAgree
    BY DEF SeatsInv
  <1> QED
    BY <1>1, <1>2, <1>3, TypeCorrect, PTL DEF Spec
=============================================================================
