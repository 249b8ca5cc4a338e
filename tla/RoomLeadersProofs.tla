-------------------------- MODULE RoomLeadersProofs --------------------------
(***************************************************************************)
(* Who leads a room of GameRooms, who plays in its battle and when it is   *)
(* closed, for every number of clients, rooms, seats, players and colors.  *)
(***************************************************************************)
EXTENDS GameRoomsProofs

-----------------------------------------------------------------------------
(* What a step may do to a room.                                           *)

(* game_room_init, the seat and the leadership of the creator: the room    *)
(* CmdCreate attaches the first player to                                  *)
OpenedBy(g, c) ==
    LET init == [CleanUp(g) EXCEPT !.state = "LOBBY", !.usedColors = {}]
    IN  [PutMember(init, c) EXCEPT !.leader = FindClient(PutMember(init, c), c)]

LostBy(c, r) == r # ItemEmpty /\ cli[c].roomId = r /\ (Disconnect(c) \/ CmdLeave(c))

CreatedBy(c, r) ==
    /\ CmdCreate(c)
    /\ rooms[r].state = "IDLE"
    /\ rooms'[r] = PutPlayer(OpenedBy(rooms[r], c), c, cli[c].playerRids)
    /\ cli' = [cli EXCEPT ![c].roomId = r,
                 ![c].playerRids = RidsWith(@, First(FreePlayerSlots(OpenedBy(rooms[r], c))))]

(* The state and the ready states of a room in use change, nothing else.   *)
Restated(g, h) ==
    /\ g.state # "IDLE" /\ h.state # "IDLE"
    /\ \E s \in RoomStates, f \in [Slots -> BOOLEAN] :
         h = [g EXCEPT !.state = s, !.ready = f]

(* The clients of a room are told its new state.                           *)
Told(r) ==
    \E g : /\ g.members = rooms[r].members /\ g.state = rooms[r].state
          /\ cli' = ClientsInState(g, rooms'[r].state)

RestatedIn(r) ==
    /\ Restated(rooms[r], rooms'[r])
    /\ \A q \in Rooms : q # r => rooms'[q] = rooms[q]
    /\ Told(r) \/ (cli' = cli /\ rooms'[r].state = rooms[r].state)

(* A room changes when a client of its leaves or is lost, when it is       *)
(* created or joined, and when its state or a ready state does: the cases  *)
(* every proof about rooms goes through.                                   *)
RoomStep(r) ==
    \/ rooms'[r] = rooms[r]
    \/ \E c \in Clients : \/ LostBy(c, r) \/ CreatedBy(c, r) \/ CmdJoin(c, r)
    \/ RestatedIn(r)

(* Opening a room is what CmdCreate does to the room it takes.             *)
LEMMA CreateStep ==
    ASSUME TablesOK, NEW c \in Clients, CmdCreate(c), NEW q \in Rooms
    PROVE  rooms'[q] = rooms[q] \/ CreatedBy(c, q)
  <1> DEFINE S == {p \in Rooms : rooms[p].state = "IDLE"}
             r == First(S)
  <1>1. r \in S
    <2>1. S \subseteq Nat /\ r # ItemEmpty
      BY SetsOfNumbers DEF CmdCreate
    <2> QED
      BY <2>1, FirstFits
  <1>2. /\ rooms' = [rooms EXCEPT ![r] = PutPlayer(OpenedBy(rooms[r], c), c, cli[c].playerRids)]
        /\ cli' = [cli EXCEPT ![c].roomId = r,
             ![c].playerRids = RidsWith(@, First(FreePlayerSlots(OpenedBy(rooms[r], c))))]
    BY DEF CmdCreate, OpenedBy
  <1>3. r \in Rooms /\ rooms[r].state = "IDLE"
    BY <1>1
  <1> HIDE DEF r
  <1>4. CASE q = r
    BY <1>2, <1>3, <1>4 DEF CreatedBy, TablesOK
  <1>5. CASE q # r
    BY <1>2, <1>5 DEF TablesOK
  <1> QED
    BY <1>4, <1>5

(* A change of state is one of the room it is said of.                     *)
LEMMA RestatedStep ==
    ASSUME NEW g \in RoomType, g.state # "IDLE"
    PROVE  /\ \A i \in Slots, b \in BOOLEAN : Restated(g, [g EXCEPT !.ready[i] = b])
           /\ \A i \in Slots, b \in BOOLEAN, s \in RoomStates \ {"IDLE"} :
                Restated(g, InState([g EXCEPT !.ready[i] = b], s))
           /\ \A s \in RoomStates \ {"IDLE"} : Restated(g, InState(g, s))
  <1>1. ASSUME NEW i \in Slots, NEW b \in BOOLEAN
        PROVE  /\ [g EXCEPT !.ready[i] = b] =
                    [g EXCEPT !.state = g.state, !.ready = [g.ready EXCEPT ![i] = b]]
               /\ [g.ready EXCEPT ![i] = b] \in [Slots -> BOOLEAN]
               /\ [g EXCEPT !.ready[i] = b].state = g.state /\ g.state \in RoomStates
    BY <1>1 DEF RoomType
  <1>2. ASSUME NEW i \in Slots, NEW b \in BOOLEAN
        PROVE  Restated(g, [g EXCEPT !.ready[i] = b])
    <2> DEFINE h == [g EXCEPT !.ready[i] = b]
    <2>1. h.state # "IDLE"
      BY <1>1
    <2>2. \E s \in RoomStates, f \in [Slots -> BOOLEAN] : h = [g EXCEPT !.state = s, !.ready = f]
      BY <1>1
    <2> QED
      BY <2>1, <2>2 DEF Restated
  <1>3. ASSUME NEW s \in RoomStates \ {"IDLE"}, NEW h, h \in RoomType,
               \E f : h = [g EXCEPT !.ready = f]
        PROVE  Restated(g, InState(h, s))
    <2>1. InState(h, s) = [g EXCEPT !.state = s, !.ready = [i \in Slots |-> FALSE]]
      BY <1>3 DEF InState, RoomType
    <2>2. InState(h, s).state = s
      BY <1>3, InStateType
    <2>3. [i \in Slots |-> FALSE] \in [Slots -> BOOLEAN] /\ s \in RoomStates /\ s # "IDLE"
      OBVIOUS
    <2> QED
      BY <2>1, <2>2, <2>3 DEF Restated
  <1>4. ASSUME NEW i \in Slots, NEW b \in BOOLEAN
        PROVE  /\ [g EXCEPT !.ready[i] = b] = [g EXCEPT !.ready = [g.ready EXCEPT ![i] = b]]
               /\ [g EXCEPT !.ready[i] = b] \in RoomType
    BY DEF RoomType
  <1>5. g = [g EXCEPT !.ready = g.ready]
    BY DEF RoomType
  <1> QED
    BY <1>2, <1>3, <1>4, <1>5

(* Changing a ready state restates the room of the client.                 *)
LEMMA ReadyRestates ==
    ASSUME TablesOK, NEW c \in Clients, NEW b \in BOOLEAN, CmdReady(c, b)
    PROVE  cli[c].roomId \in Rooms /\ RestatedIn(cli[c].roomId)
  <1> DEFINE r == cli[c].roomId
             g == rooms[r]
             rid == FindClient(g, c)
             said == [g EXCEPT !.ready[rid] = b]
             next == NextState(said.state)
  <1>1. r \in Rooms /\ rid \in Slots /\ rid \in Seats(g) /\ g \in RoomType
    BY RoomOfClient, FindClientRange DEF CmdReady, InARoom, RIDs
  <1>2. g.state # "IDLE"
    BY <1>1 DEF Seats
  <1>3. next \in RoomStates \ {"IDLE"}
    BY DEF NextState, RoomStates
  <1>4. \/ /\ rooms' = [rooms EXCEPT ![r] = InState(said, next)]
           /\ cli' = ClientsInState(said, next)
        \/ rooms' = [rooms EXCEPT ![r] = said] /\ cli' = cli
    BY DEF CmdReady
  <1>5. /\ said.members = g.members /\ said.state = g.state
        /\ InState(said, next).state = next
    BY <1>1 DEF RoomType, InState
  <1>6. Restated(g, said) /\ Restated(g, InState(said, next))
    <2> HIDE DEF g, rid, next
    <2> QED
      BY <1>1, <1>2, <1>3, RestatedStep
  <1> HIDE DEF said, next
  <1>7. \A q \in Rooms : q # r => rooms'[q] = rooms[q]
    BY <1>4 DEF TablesOK
  <1>8. \/ /\ rooms'[r] = InState(said, next)
           /\ cli' = ClientsInState(said, next)
        \/ rooms'[r] = said /\ cli' = cli
    BY <1>1, <1>4 DEF TablesOK
  <1>9. Told(r) \/ (cli' = cli /\ rooms'[r].state = g.state)
    BY <1>5, <1>8 DEF Told
  <1> HIDE DEF g
  <1> QED
    BY <1>1, <1>6, <1>7, <1>8, <1>9 DEF RestatedIn, g

(* Going back to the lobby restates the room that is updated.              *)
LEMMA UpdateRestates ==
    ASSUME TypeOK, UpdateRoom
    PROVE  (cli' = cli /\ rooms' = rooms) \/ (index \in Rooms /\ RestatedIn(index))
  <1> DEFINE g == rooms[index]
  <1>1. /\ index \in Rooms /\ "LOBBY" \in RoomStates \ {"IDLE"} /\ g \in RoomType
        /\ rooms \in [Rooms -> RoomType]
    BY DEF UpdateRoom, TypeOK, RoomStates
  <1>2. CASE /\ BackToLobby(g) /\ rooms' = [rooms EXCEPT ![index] = InState(g, "LOBBY")]
             /\ cli' = ClientsInState(g, "LOBBY")
    <2>1. Restated(g, InState(g, "LOBBY"))
      BY <1>1, <1>2, RestatedStep DEF BackToLobby
    <2>2. InState(g, "LOBBY").state = "LOBBY"
      BY <1>1 DEF InState, RoomType
    <2>3. /\ rooms'[index] = InState(g, "LOBBY")
          /\ \A q \in Rooms : q # index => rooms'[q] = rooms[q]
      BY <1>1, <1>2
    <2>4. Told(index)
      BY <1>2, <2>2, <2>3 DEF Told
    <2> QED
      BY <1>1, <2>1, <2>3, <2>4 DEF RestatedIn
  <1> QED
    BY <1>2 DEF UpdateRoom

(* Every step does one of these things to every room.                      *)
LEMMA RoomSteps ==
    ASSUME TypeOK, [Next]_vars, NEW q \in Rooms
    PROVE  RoomStep(q)
  <1>0. TablesOK /\ rooms[q] \in RoomType
    BY DEF TypeOK, TablesOK
  <1>1. CASE rooms' = rooms
    BY <1>1 DEF RoomStep
  <1>2. ASSUME NEW c \in Clients, Disconnect(c) \/ CmdLeave(c)
        PROVE  RoomStep(q)
    <2>1. CASE rooms'[q] = rooms[q]
      BY <2>1 DEF RoomStep
    <2>2. CASE rooms'[q] # rooms[q]
      <3>1. cli[c].roomId = q
        BY <1>0, <1>2, <2>2 DEF Disconnect, CmdLeave, TablesOK
      <3>2. q # ItemEmpty
        BY DEF Rooms, ItemEmpty
      <3> QED
        BY <1>2, <3>1, <3>2 DEF RoomStep, LostBy
    <2> QED
      BY <2>1, <2>2
  <1>3. ASSUME NEW c \in Clients, CmdCreate(c)
        PROVE  RoomStep(q)
    BY <1>0, <1>3, CreateStep DEF RoomStep
  <1>4. ASSUME NEW c \in Clients, NEW r \in Rooms, CmdJoin(c, r)
        PROVE  RoomStep(q)
    <2>1. CASE q = r
      BY <1>4, <2>1 DEF RoomStep
    <2>2. CASE q # r
      BY <1>0, <1>4, <2>2 DEF RoomStep, CmdJoin, TablesOK
    <2> QED
      BY <2>1, <2>2
  <1>5. ASSUME NEW c \in Clients, NEW b \in BOOLEAN, CmdReady(c, b)
        PROVE  RoomStep(q)
    BY <1>0, <1>5, ReadyRestates DEF RoomStep, RestatedIn
  <1>6. CASE CheckClient
    <2>1. index \in Clients
      BY <1>6 DEF CheckClient, TypeOK
    <2> QED
      BY <1>1, <1>2, <1>6, <2>1 DEF CheckClient
  <1>7. CASE UpdateRoom
    BY <1>1, <1>7, UpdateRestates DEF RoomStep, RestatedIn
  <1> QED
    BY <1>1, <1>2, <1>3, <1>4, <1>5, <1>6, <1>7
    DEF Next, Command, Tick, NewClient, Reintroduce, CmdDisconnect, ConnLost, EndCommands, vars

-----------------------------------------------------------------------------
(* What losing a client leaves of its room.                                *)

(* Everybody in g but the client in seat rid keeps the seat.               *)
KeepsOthers(g, h, rid) ==
    \A i \in Seated(g) : i # rid => i \in Seated(h) /\ h.members[i] = g.members[i]

(* Removing a client takes its seat alone, and the room keeps its state.   *)
LEMMA RemoveClientKeepsOthers ==
    ASSUME NEW g \in RoomType, NEW c
    PROVE  /\ KeepsOthers(g, RemoveClient(g, c), FindClient(g, c))
           /\ RemoveClient(g, c).state = g.state /\ RemoveClient(g, c).leader = g.leader
           /\ FindClient(g, c) = ItemEmpty => RemoveClient(g, c) = g
  <1> DEFINE rid == FindClient(g, c)
             h == RemoveClient(g, c)
  <1>1. rid = ItemEmpty => h = g
    BY DEF RemoveClient
  <1>2. h.state = g.state /\ h.leader = g.leader
    BY RemoveClientType
  <1>3. CASE rid # ItemEmpty
    <2>1. h.members = [g.members EXCEPT ![rid] = Nobody]
      BY <1>3 DEF RemoveClient, RoomType
    <2>2. Seats(h) = Seats(g) /\ Seats(g) \subseteq Slots
      BY <1>2 DEF Seats
    <2>3. g.members \in [Slots -> Clients \cup {Nobody}]
      BY DEF RoomType
    <2> HIDE DEF h, rid
    <2>4. \A i \in Slots : i # rid => h.members[i] = g.members[i]
      BY <2>1, <2>3
    <2> QED
      BY <1>1, <1>2, <2>2, <2>4 DEF KeepsOthers, Seated, h, rid
  <1> QED
    BY <1>1, <1>2, <1>3 DEF KeepsOthers

(* Who may lead is somebody else that is in the room and connected.        *)
LEMMA EligibleOthers ==
    ASSUME NEW g, NEW c, NEW i \in Eligible(g, c)
    PROVE  i \in Seated(g) /\ g.members[i] # c /\ cli[g.members[i]].conn
  BY DEF Eligible

(* A room that loses a client is closed only when nobody else in it is     *)
(* connected; if it stays open the others stay, and it is led by whoever   *)
(* led it, when that was another, or else by one that is connected.        *)
LEMMA ClientGoneLeads ==
    ASSUME NEW g \in RoomType, NEW c \in Clients, FindClient(g, c) # ItemEmpty
    PROVE  LET rid == FindClient(g, c)
               h == ClientGone(g, c)
           IN  \/ /\ h.state = "IDLE"
                  /\ \A i \in Seated(g) : i # rid => ~cli[g.members[i]].conn \/ g.members[i] = c
               \/ /\ h.state = g.state /\ h.leader = g.leader /\ g.leader # rid
                  /\ KeepsOthers(g, h, rid)
               \/ /\ h.state = g.state /\ h.leader \in Eligible(h, c)
                  /\ KeepsOthers(g, h, rid)
  <1> DEFINE rid == FindClient(g, c)
             h == ClientGone(g, c)
             left == IF g.state = "LOBBY" THEN RemoveClient(g, c) ELSE g
             led == [left EXCEPT !.leader = First(Eligible(left, c))]
  <1>1. /\ left \in RoomType /\ left.state = g.state /\ left.leader = g.leader
        /\ KeepsOthers(g, left, rid)
    <2>1. g.state = g.state /\ KeepsOthers(g, g, rid)
      BY DEF KeepsOthers
    <2> QED
      BY <2>1, RemoveClientType, RemoveClientKeepsOthers
  <1>2. /\ left.leader # rid => h = left
        /\ left.leader = rid /\ Eligible(left, c) = {} => h = CleanUp(left)
        /\ left.leader = rid /\ Eligible(left, c) # {} => h = led
    BY DEF ClientGone
  <1> HIDE DEF left, rid, h
  <1>3. CASE left.leader # rid
    BY <1>1, <1>2, <1>3 DEF rid, h
  <1>4. CASE left.leader = rid /\ Eligible(left, c) = {}
    <2>1. h.state = "IDLE"
      BY <1>1, <1>2, <1>4, CleanUpType
    <2>2. ASSUME NEW i \in Seated(g), i # rid, cli[g.members[i]].conn, g.members[i] # c
          PROVE  FALSE
      <3>1. i \in Seated(left) /\ left.members[i] = g.members[i]
        BY <1>1, <2>2 DEF KeepsOthers
      <3>2. i \in Eligible(left, c)
        BY <2>2, <3>1 DEF Eligible
      <3> QED
        BY <1>4, <3>2
    <2> QED
      BY <2>1, <2>2 DEF rid, h
  <1>5. CASE left.leader = rid /\ Eligible(left, c) # {}
    <2>1. First(Eligible(left, c)) \in Eligible(left, c)
      BY <1>5, FirstFits, SetsOfNumbers
    <2>2. led.members = left.members /\ led.state = left.state
          /\ led.leader = First(Eligible(left, c))
      BY <1>1 DEF RoomType
    <2> HIDE DEF led
    <2>3. Seated(led) = Seated(left) /\ Eligible(led, c) = Eligible(left, c)
      BY <2>2 DEF Seated, Seats, Eligible
    <2>4. KeepsOthers(g, led, rid)
      BY <1>1, <2>2, <2>3 DEF KeepsOthers
    <2> QED
      BY <1>1, <1>2, <1>5, <2>1, <2>2, <2>3, <2>4 DEF rid, h
  <1> QED
    BY <1>3, <1>4, <1>5

(* Nobody leads a room that does not have the client.                      *)
LEMMA ClientGoneStranger ==
    ASSUME NEW g, NEW c, FindClient(g, c) = ItemEmpty
    PROVE  ClientGone(g, c) = g
  BY DEF ClientGone

(* The room a client leaves or is lost from.                               *)
LEMMA LostRoom ==
    ASSUME TablesOK, NEW r \in Rooms, NEW c \in Clients, LostBy(c, r)
    PROVE  \/ Disconnect(c) /\ rooms'[r] = ClientGone(rooms[r], c)
           \/ CmdLeave(c) /\ rooms'[r] = RemoveClient(ClientGone(rooms[r], c), c)
  BY DEF LostBy, Disconnect, CmdLeave, TablesOK

(* The room a client joins keeps its state and its leader.                 *)
LEMMA JoinedRoom ==
    ASSUME TablesOK, NEW r \in Rooms, NEW c \in Clients, CmdJoin(c, r)
    PROVE  /\ rooms[r].state = "LOBBY"
           /\ rooms'[r] = PutPlayer(PutMember(rooms[r], c), c, cli[c].playerRids)
           /\ rooms'[r].state = rooms[r].state /\ rooms'[r].leader = rooms[r].leader
           /\ rooms'[r].members = PutMember(rooms[r], c).members
  <1> DEFINE joined == PutMember(rooms[r], c)
  <1>1. rooms[r] \in RoomType /\ joined \in RoomType /\ joined.state = rooms[r].state
    BY PutMemberType DEF TablesOK
  <1>2. joined.leader = rooms[r].leader
    BY <1>1 DEF PutMember, RoomType
  <1>3. /\ rooms[r].state = "LOBBY"
        /\ rooms'[r] = PutPlayer(joined, c, cli[c].playerRids)
    BY DEF CmdJoin, TablesOK
  <1> HIDE DEF joined
  <1>4. /\ PutPlayer(joined, c, cli[c].playerRids).state = joined.state
        /\ PutPlayer(joined, c, cli[c].playerRids).members = joined.members
    BY <1>1, PutPlayerType
  <1>5. PutPlayer(joined, c, cli[c].playerRids).leader = joined.leader
    BY <1>1 DEF PutPlayer, RoomType
  <1> QED
    BY <1>1, <1>2, <1>3, <1>4, <1>5 DEF joined

(* engine_game_room_cleanup: a client gives the room up, and every other   *)
(* member has lost its connection.                                         *)
LeftAlone(c, r) ==
    /\ cli[c].roomId = r /\ cli'[c].roomId # r
    /\ \A i \in Seated(rooms[r]) :
         rooms[r].members[i] # c => ~cli[rooms[r].members[i]].conn

LEMMA ClosingStep ==
    ASSUME TypeOK, [Next]_vars, NEW r \in Rooms, Closes(r)
    PROVE  \E c \in Clients : LeftAlone(c, r)
  <1> DEFINE g == rooms[r]
  <1>1. TablesOK /\ g \in RoomType
    BY DEF TypeOK, TablesOK
  <1>0. rooms[r].state # "IDLE" /\ rooms'[r].state = "IDLE"
    BY DEF Closes
  <1>2. PICK c \in Clients : LostBy(c, r)
    <2>1. ASSUME NEW c \in Clients, CmdJoin(c, r)
          PROVE  FALSE
      BY <1>0, <1>1, <2>1, JoinedRoom
    <2> QED
      BY <1>0, <2>1, RoomSteps DEF RoomStep, CreatedBy, RestatedIn, Restated
  <1> DEFINE gone == ClientGone(g, c)
             rid == FindClient(g, c)
  <1>3. gone \in RoomType
    BY <1>1, ClientGoneType
  <1>4. gone.state = "IDLE"
    BY <1>0, <1>1, <1>2, <1>3, LostRoom, RemoveClientType
  <1>5. rid # ItemEmpty
    BY <1>0, <1>4, ClientGoneStranger
  <1>6. \A k \in Seated(g) : cli[g.members[k]].conn => k = rid \/ g.members[k] = c
    <2> HIDE DEF gone, rid, g
    <2>1. gone.state # g.state
      BY <1>0, <1>4 DEF g
    <2> QED
      BY <1>1, <1>5, <2>1, ClientGoneLeads DEF gone, rid
  <1>7. g.members[rid] = c
    BY <1>5, FindClientRange
  <1>8. cli[c].roomId = r /\ r # ItemEmpty
    BY <1>2 DEF LostBy
  <1>9. cli'[c].roomId = ItemEmpty
    <2>1. cli[c] \in ClientType /\ cli \in [Clients -> ClientType]
      BY <1>1 DEF TablesOK
    <2>2. CASE CmdLeave(c)
      BY <2>1, <2>2 DEF CmdLeave, ClientType
    <2>3. CASE Disconnect(c)
      <3>1. cli' = [cli EXCEPT ![c] = WipedClient]
        BY <1>4, <1>8, <2>3 DEF Disconnect
      <3>2. WipedClient.roomId = ItemEmpty
        BY DEF WipedClient
      <3> QED
        BY <2>1, <3>1, <3>2
    <2> QED
      BY <1>2, <2>2, <2>3 DEF LostBy
  <1>10. LeftAlone(c, r)
    <2>1. \A k \in Seated(g) : g.members[k] # c => ~cli[g.members[k]].conn
      BY <1>6, <1>7
    <2> QED
      BY <1>8, <1>9, <2>1 DEF LeftAlone
  <1> QED
    BY <1>10

(* Seats and clients agree, and the engine takes commands only from        *)
(* clients in use: what the theorems below rest on.                        *)
LEMMA SeatsInvariant == Spec => []SeatsInv
  <1>1. Init => SeatsInv
    BY DEF Init, SeatsInv, SeatsAgree, InUse, Seated, Seats
  <1>2. TypeOK /\ SeatsInv /\ [Next]_vars => SeatsInv'
    BY InUseKept, SeatsAgreeKept DEF SeatsInv
  <1> QED
    BY <1>1, <1>2, TypeCorrect, PTL DEF Spec

(* A room is closed only by a client that gives it up, and only when every *)
(* other member has lost its connection, be the one that leaves connected  *)
(* or timed out itself: engine_game_room_client_disconnected first looks   *)
(* for another leader among those who are still there.                     *)
THEOREM RoomsClosedWhenAbandoned == Spec => ClosedOnlyWhenAbandoned
  <1> DEFINE Step == \A r \in Rooms : Closes(r) =>
               \E c \in Clients :
                 /\ cli[c].roomId = r /\ cli'[c].roomId # r
                 /\ \A i \in Seated(rooms[r]) :
                      rooms[r].members[i] # c => ~cli[rooms[r].members[i]].conn
  <1>1. TypeOK /\ [Next]_vars => [Step]_vars
    BY ClosingStep DEF LeftAlone
  <1>2. ClosedOnlyWhenAbandoned <=> [][Step]_vars
    BY DEF ClosedOnlyWhenAbandoned
  <1> HIDE DEF Step
  <1> QED
    BY <1>1, <1>2, TypeCorrect, PTL DEF Spec

-----------------------------------------------------------------------------
(* What a step may do to a client.                                         *)

(* Whoever is connected is neither free nor away: the status of a client   *)
(* changes in the step that closes or opens its connection, or before.     *)
Present == \A c \in Clients : cli[c].conn => cli[c].status \notin {"EMPTY", "DISCONNECTED"}

(* Telling the clients of a room its state makes nobody free or away, and  *)
(* nobody that was stays anything else.                                    *)
LEMMA ClientsInStateStatus ==
    ASSUME NEW g, NEW s, cli \in [Clients -> ClientType], NEW d \in Clients
    PROVE  LET e == ClientsInState(g, s)[d]
           IN  /\ e.conn = cli[d].conn /\ e.roomId = cli[d].roomId
               /\ e.playerRids = cli[d].playerRids
               /\ e.status = cli[d].status
                    \/ {e.status, cli[d].status} \cap {"EMPTY", "DISCONNECTED"} = {}
  <1>1. cli[d] \in ClientType
    OBVIOUS
  <1>2. ClientsInState(g, s)[d] \in
          {cli[d], [cli[d] EXCEPT !.status = StatusFor(s)]}
        /\ (ClientsInState(g, s)[d] # cli[d] => cli[d].status \notin {"DISCONNECTED", "EMPTY"})
    BY DEF ClientsInState
  <1>3. StatusFor(s) \in {"PLAYING", "CONNECTED"}
    BY DEF StatusFor
  <1>4. /\ [cli[d] EXCEPT !.status = StatusFor(s)].conn = cli[d].conn
        /\ [cli[d] EXCEPT !.status = StatusFor(s)].roomId = cli[d].roomId
        /\ [cli[d] EXCEPT !.status = StatusFor(s)].playerRids = cli[d].playerRids
        /\ [cli[d] EXCEPT !.status = StatusFor(s)].status = StatusFor(s)
    BY <1>1 DEF ClientType
  <1> QED
    BY <1>2, <1>3, <1>4

(* A client that takes a seat or gives it up keeps status and connection.  *)
SeatingBy(c) == CmdCreate(c) \/ CmdLeave(c) \/ \E r \in Rooms : CmdJoin(c, r)

LEMMA SeatingStatus ==
    ASSUME TablesOK, NEW c \in Clients, SeatingBy(c), NEW d \in Clients
    PROVE  cli'[d].status = cli[d].status /\ cli'[d].conn = cli[d].conn
           /\ (d # c => cli'[d] = cli[d])
  <1>1. cli[d] \in ClientType /\ cli[c] \in ClientType /\ cli \in [Clients -> ClientType]
    BY DEF TablesOK
  <1>2. \E r, rids : \/ cli' = [cli EXCEPT ![c].roomId = r, ![c].playerRids = rids]
                     \/ cli' = [cli EXCEPT ![c].roomId = r]
    BY DEF SeatingBy, CmdCreate, CmdLeave, CmdJoin
  <1> QED
    BY <1>1, <1>2 DEF ClientType

(* A client is wiped or becomes one that is away.                          *)
LEMMA DisconnectStatus ==
    ASSUME TablesOK, NEW c \in Clients, Disconnect(c), NEW d \in Clients
    PROVE  /\ d # c => cli'[d] = cli[d]
           /\ ~cli'[c].conn
           /\ \/ cli'[c] = WipedClient
              \/ /\ cli'[c].status = "DISCONNECTED" /\ cli'[c].roomId = cli[c].roomId
                 /\ cli'[c].playerRids = cli[c].playerRids
                 /\ cli[c].roomId # ItemEmpty
                 /\ rooms'[cli[c].roomId] = ClientGone(rooms[cli[c].roomId], c)
                 /\ rooms'[cli[c].roomId].state # "IDLE"
  <1> DEFINE away == [cli[c] EXCEPT !.conn = FALSE, !.status = "DISCONNECTED"]
             r == cli[c].roomId
  <1>1. \/ cli' = [cli EXCEPT ![c] = WipedClient]
        \/ /\ cli' = [cli EXCEPT ![c] = away] /\ r # ItemEmpty
           /\ rooms' = [rooms EXCEPT ![r] = ClientGone(rooms[r], c)]
           /\ ClientGone(rooms[r], c).state # "IDLE"
    BY DEF Disconnect
  <1>2. ~WipedClient.conn /\ ~away.conn /\ away.status = "DISCONNECTED" /\ away.roomId = r
        /\ away.playerRids = cli[c].playerRids
    BY RoomOfClient DEF WipedClient, ClientType
  <1>3. r # ItemEmpty => r \in Rooms
    BY RoomOfClient
  <1> HIDE DEF away, r
  <1> QED
    BY <1>1, <1>2, <1>3 DEF TablesOK, r

(* The record a new client gets was free.                                  *)
LEMMA NewClientFree ==
    ASSUME TablesOK, NewClient
    PROVE  \E e \in Clients :
             /\ cli[e].status = "EMPTY"
             /\ cli' = [cli EXCEPT ![e] =
                          [WipedClient EXCEPT !.status = "CONNECTED", !.conn = TRUE]]
             /\ [WipedClient EXCEPT !.status = "CONNECTED", !.conn = TRUE].status = "CONNECTED"
             /\ [WipedClient EXCEPT !.status = "CONNECTED", !.conn = TRUE].playerRids
                  = WipedClient.playerRids
  <1> DEFINE S == {d \in Clients : cli[d].status = "EMPTY"}
  <1>1. S \subseteq Nat /\ First(S) # ItemEmpty
    BY SetsOfNumbers DEF NewClient
  <1>2. First(S) \in S
    BY <1>1, FirstFits
  <1> QED
    BY <1>2 DEF NewClient, WipedClient

(* What can happen to the record of a client: nothing; it was free and is  *)
(* now connected; it returns or loses its connection; it is disconnected,  *)
(* which only happens to one that was there; it takes or gives up a seat;  *)
(* or its room tells it a state.                                           *)
WasThere(d) == cli[d].conn \/ cli[d].status \notin {"EMPTY", "DISCONNECTED"}

ClientStep(d) ==
    \/ cli'[d] = cli[d]
    \/ cli[d].status = "EMPTY" /\ cli'[d].status = "CONNECTED"
         /\ cli'[d].playerRids = WipedClient.playerRids
    \/ cli[d].status = "DISCONNECTED" /\ Reintroduce(d)
    \/ ConnLost(d)
    \/ Disconnect(d) /\ WasThere(d)
    \/ SeatingBy(d)
    \/ \E r \in Rooms : RestatedIn(r) /\ Told(r)

(* Every step does one of these things to every client.                    *)
LEMMA ClientSteps ==
    ASSUME TypeOK, [Next]_vars, NEW d \in Clients
    PROVE  ClientStep(d)
  <1>0. TablesOK
    BY DEF TypeOK, TablesOK
  <1>1. CASE cli' = cli
    BY <1>1 DEF ClientStep
  <1>2. CASE NewClient
    BY <1>0, <1>2, NewClientFree DEF ClientStep, TablesOK
  <1>3. ASSUME NEW c \in Clients, Reintroduce(c) \/ ConnLost(c)
        PROVE  ClientStep(d)
    <2>1. d # c => cli'[d] = cli[d]
      BY <1>0, <1>3 DEF Reintroduce, ConnLost, TablesOK
    <2> QED
      BY <1>3, <2>1 DEF ClientStep, Reintroduce
  <1>4. ASSUME NEW c \in Clients, Disconnect(c), WasThere(c)
        PROVE  ClientStep(d)
    BY <1>0, <1>4, DisconnectStatus DEF ClientStep
  <1>5. ASSUME NEW c \in Clients, SeatingBy(c)
        PROVE  ClientStep(d)
    BY <1>0, <1>5, SeatingStatus DEF ClientStep
  <1>6. ASSUME NEW c \in Clients, NEW b \in BOOLEAN, CmdReady(c, b)
        PROVE  ClientStep(d)
    BY <1>0, <1>1, <1>6, ReadyRestates DEF RestatedIn, ClientStep
  <1>7. CASE CheckClient
    <2>1. index \in Clients
      BY <1>7 DEF CheckClient, TypeOK
    <2> QED
      BY <1>1, <1>4, <1>7, <2>1 DEF CheckClient, WasThere
  <1>8. CASE UpdateRoom
    BY <1>1, <1>8, UpdateRestates DEF RestatedIn, ClientStep
  <1> QED
    BY <1>1, <1>2, <1>3, <1>4, <1>5, <1>6, <1>7, <1>8
    DEF Next, Command, Tick, CmdDisconnect, FromClient, WasThere, EndCommands, vars, SeatingBy

(* Whoever is connected stays in use and not away.                         *)
LEMMA PresentKept ==
    ASSUME TypeOK, Present, [Next]_vars
    PROVE  Present'
  <1>0. TablesOK
    BY DEF TypeOK, TablesOK
  <1>1. SUFFICES ASSUME NEW d \in Clients, cli'[d].conn
                 PROVE  cli'[d].status \notin {"EMPTY", "DISCONNECTED"}
    BY DEF Present
  <1>2. cli[d].conn => cli[d].status \notin {"EMPTY", "DISCONNECTED"}
    BY DEF Present
  <1>3. cli[d] \in ClientType
    BY <1>0, RoomOfClient
  <1>4. CASE Reintroduce(d)
    BY <1>0, <1>3, <1>4 DEF Reintroduce, TablesOK, ClientType
  <1>5. CASE ConnLost(d)
    BY <1>0, <1>1, <1>3, <1>5 DEF ConnLost, TablesOK, ClientType
  <1>6. CASE Disconnect(d)
    BY <1>0, <1>1, <1>6, DisconnectStatus
  <1>7. CASE SeatingBy(d)
    BY <1>0, <1>1, <1>2, <1>7, SeatingStatus
  <1>8. ASSUME NEW g, NEW s, cli' = ClientsInState(g, s)
        PROVE  cli'[d].status \notin {"EMPTY", "DISCONNECTED"}
    <2>1. cli \in [Clients -> ClientType]
      BY <1>0 DEF TablesOK
    <2>2. cli'[d].conn = cli[d].conn
          /\ (\/ cli'[d].status = cli[d].status
              \/ {cli'[d].status, cli[d].status} \cap {"EMPTY", "DISCONNECTED"} = {})
      BY <1>8, <2>1, ClientsInStateStatus
    <2> QED
      BY <1>1, <1>2, <2>2
  <1> QED
    BY <1>1, <1>2, <1>4, <1>5, <1>6, <1>7, <1>8, ClientSteps DEF ClientStep, Told

(* Only a disconnection makes a client in use one that is away.            *)
LEMMA AwayByDisconnect ==
    ASSUME TypeOK, [Next]_vars, NEW d \in Clients,
           cli[d].status \notin {"EMPTY", "DISCONNECTED"}
    PROVE  cli'[d].status # "DISCONNECTED" \/ Disconnect(d)
  <1>0. TablesOK /\ cli[d] \in ClientType /\ cli \in [Clients -> ClientType]
    BY RoomOfClient DEF TypeOK, TablesOK
  <1>1. CASE ConnLost(d)
    BY <1>0, <1>1 DEF ConnLost, ClientType
  <1>2. CASE SeatingBy(d)
    BY <1>0, <1>2, SeatingStatus
  <1>3. ASSUME NEW g, NEW s, cli' = ClientsInState(g, s)
        PROVE  cli'[d].status # "DISCONNECTED"
    <2>1. \/ cli'[d].status = cli[d].status
          \/ {cli'[d].status, cli[d].status} \cap {"EMPTY", "DISCONNECTED"} = {}
      BY <1>0, <1>3, ClientsInStateStatus
    <2> QED
      BY <2>1
  <1> QED
    BY <1>1, <1>2, <1>3, ClientSteps DEF ClientStep, Told

-----------------------------------------------------------------------------
(* LeaderPresent, with SeatsInv and Present, is inductive.                 *)

(* The leader of g is seated there as client d.                            *)
LedBy(g, d) == g.leader \in Seated(g) /\ g.members[g.leader] = d

(* LeaderPresent, said of the client that leads.                           *)
LEMMA LeaderIsClient ==
    ASSUME TablesOK, SeatsAgree, LeaderPresent, NEW r \in Rooms, rooms[r].state # "IDLE"
    PROVE  \E d \in Clients : /\ LedBy(rooms[r], d) /\ cli[d].roomId = r
                              /\ cli[d].status \notin {"EMPTY", "DISCONNECTED"}
  <1> DEFINE g == rooms[r]
             d == g.members[g.leader]
  <1>1. g.leader \in Seated(g) /\ cli[d].status # "DISCONNECTED"
    BY DEF LeaderPresent
  <1>2. d \in Clients
    BY <1>1, SeatedClients DEF TablesOK
  <1>3. cli[d].status # "EMPTY" /\ cli[d].roomId = r
    BY <1>1 DEF SeatsAgree
  <1> QED
    BY <1>1, <1>2, <1>3 DEF LedBy

(* The creator leads the room it creates.                                  *)
LEMMA OpenedByCreator ==
    ASSUME NEW g \in RoomType, NEW c \in Clients, NEW rids
    PROVE  /\ OpenedBy(g, c) \in RoomType /\ OpenedBy(g, c).state = "LOBBY"
           /\ LedBy(PutPlayer(OpenedBy(g, c), c, rids), c)
  <1> DEFINE init == [CleanUp(g) EXCEPT !.state = "LOBBY", !.usedColors = {}]
             put == PutMember(init, c)
             lead == FindClient(put, c)
             o == [put EXCEPT !.leader = lead]
             h == PutPlayer(o, c, rids)
  <1>1. init \in RoomType /\ init.state = "LOBBY" /\ init.members = [i \in Slots |-> Nobody]
    BY CleanUpType DEF RoomType, RoomStates, CleanUp
  <1>2. OpenedBy(g, c) = o
    BY DEF OpenedBy
  <1> HIDE DEF init
  <1>3. put \in RoomType /\ put.state = "LOBBY" /\ lead \in Slots
    BY <1>1, PutMemberType, NewRoomSeatsCreator
  <1>4. put.members[lead] = c
    <2>1. lead # ItemEmpty
      BY <1>3 DEF Slots, ItemEmpty
    <2> QED
      BY <2>1, FindClientRange
  <1> HIDE DEF put, lead
  <1>5. o \in RoomType /\ o.state = "LOBBY" /\ o.leader = lead /\ o.members = put.members
    BY <1>3 DEF RoomType
  <1> HIDE DEF o
  <1>6. h.state = "LOBBY" /\ h.members = put.members /\ h.leader = lead
    <2>1. h.state = o.state /\ h.members = o.members
      BY <1>5, PutPlayerType
    <2>2. h.leader = o.leader
      BY <1>5 DEF PutPlayer, RoomType
    <2> QED
      BY <1>5, <2>1, <2>2
  <1> HIDE DEF h
  <1>7. lead \in Seated(h) /\ h.members[h.leader] = c
    <2>1. c # Nobody
      BY DEF Clients, Nobody
    <2> QED
      BY <1>3, <1>4, <1>6, <2>1 DEF Seated, Seats
  <1> QED
    BY <1>2, <1>5, <1>6, <1>7 DEF LedBy, h

(* A room that is joined keeps who was in it.                              *)
LEMMA PutMemberKeepsOthers ==
    ASSUME NEW g \in RoomType, NEW c \in Clients, NEW i \in Seated(g)
    PROVE  i \in Seated(PutMember(g, c)) /\ PutMember(g, c).members[i] = g.members[i]
  <1> DEFINE free == First(Seats(g) \ Seated(g))
             h == PutMember(g, c)
  <1>1. CASE h = g
    BY <1>1
  <1>2. CASE h # g
    <2>1. free # ItemEmpty /\ h = [g EXCEPT !.members[free] = c]
      BY <1>2 DEF PutMember
    <2>2. Seats(g) \ Seated(g) \subseteq Nat
      BY SetsOfNumbers
    <2>3. free \in Seats(g) \ Seated(g)
      BY <2>1, <2>2, FirstFits
    <2>4. free # i
      BY <2>3
    <2> HIDE DEF free, h
    <2>5. h.members = [g.members EXCEPT ![free] = c] /\ h.state = g.state
          /\ g.members \in [Slots -> Clients \cup {Nobody}]
      BY <2>1 DEF RoomType
    <2>6. Seats(h) = Seats(g) /\ Seats(g) \subseteq Slots
      BY <2>5 DEF Seats
    <2> QED
      BY <2>4, <2>5, <2>6 DEF Seated, h
  <1> QED
    BY <1>1, <1>2

(* When the leader is lost or leaves, the room is closed or led by another *)
(* that is not away.                                                       *)
LEMMA LostRoomLed ==
    ASSUME TypeOK, SeatsAgree, Present, LeaderPresent, NEW r \in Rooms, NEW c \in Clients,
           LostBy(c, r), rooms'[r].state # "IDLE"
    PROVE  \E e \in Clients : /\ LedBy(rooms'[r], e)
                              /\ cli'[e].status # "DISCONNECTED"
  <1> DEFINE g == rooms[r]
             rid == FindClient(g, c)
             gone == ClientGone(g, c)
  <1>0. TablesOK /\ g \in RoomType /\ gone \in RoomType
    BY ClientGoneType DEF TypeOK, TablesOK
  <1>1. rooms'[r] = gone \/ rooms'[r] = RemoveClient(gone, c)
    BY <1>0, LostRoom
  <1>2. gone.state # "IDLE"
    BY <1>0, <1>1, RemoveClientType
  <1>3. g.state # "IDLE"
    <2>1. rid = ItemEmpty => gone = g
      BY ClientGoneStranger
    <2>2. rid # ItemEmpty => rid \in Seats(g)
      BY FindClientRange
    <2> QED
      BY <1>2, <2>1, <2>2 DEF Seats
  <1>4. PICK d \in Clients : /\ LedBy(g, d) /\ cli[d].roomId = r
                             /\ cli[d].status \notin {"EMPTY", "DISCONNECTED"}
    BY <1>0, <1>3, LeaderIsClient
  <1>5. \E e \in Clients : LedBy(gone, e) /\ e # c /\ cli[e].status # "DISCONNECTED"
    <2>1. CASE rid = ItemEmpty
      <3>1. gone = g
        BY <2>1, ClientGoneStranger
      <3>2. \A i \in Seats(g) : g.members[i] # c
        BY <2>1, FindClientRange
      <3> QED
        BY <1>4, <3>1, <3>2 DEF LedBy, Seated
    <2>2. CASE rid # ItemEmpty
      <3>1. \/ /\ gone.leader = g.leader /\ g.leader # rid
               /\ KeepsOthers(g, gone, rid)
            \/ gone.leader \in Eligible(gone, c)
        <4> HIDE DEF g, rid, gone
        <4> QED
          BY <1>0, <1>2, <2>2, ClientGoneLeads DEF rid, gone
      <3>2. rid \in Seated(g) /\ g.members[rid] = c
        <4>1. rid \in Seats(g) /\ g.members[rid] = c
          BY <2>2, FindClientRange
        <4> QED
          BY <4>1 DEF Seated, Clients, Nobody
      <3> HIDE DEF gone, rid
      <3>3. CASE gone.leader = g.leader /\ g.leader # rid /\ KeepsOthers(g, gone, rid)
        <4>1. LedBy(gone, d)
          BY <1>4, <3>3 DEF LedBy, KeepsOthers
        <4>2. d # c
          BY <1>4, <3>2, <3>3 DEF LedBy, SeatsAgree
        <4> QED
          BY <1>4, <4>1, <4>2
      <3>4. CASE gone.leader \in Eligible(gone, c)
        <4> DEFINE e == gone.members[gone.leader]
        <4>1. gone.leader \in Seated(gone) /\ e # c /\ cli[e].conn
          BY <3>4, EligibleOthers
        <4>2. e \in Clients
          BY <1>0, <4>1, SeatedClients
        <4> QED
          BY <4>1, <4>2 DEF LedBy, Present
      <3> QED
        BY <3>1, <3>3, <3>4
    <2> QED
      BY <2>1, <2>2
  <1>6. PICK e \in Clients : LedBy(gone, e) /\ e # c /\ cli[e].status # "DISCONNECTED"
    BY <1>5
  <1> HIDE DEF gone
  <1>7. LedBy(RemoveClient(gone, c), e)
    <2>1. /\ KeepsOthers(gone, RemoveClient(gone, c), FindClient(gone, c))
          /\ RemoveClient(gone, c).leader = gone.leader
      BY <1>0, RemoveClientKeepsOthers
    <2>2. gone.leader # FindClient(gone, c)
      <3>1. FindClient(gone, c) # ItemEmpty => gone.members[FindClient(gone, c)] = c
        BY FindClientRange
      <3>2. gone.leader # ItemEmpty
        BY <1>6 DEF LedBy, Seated, Seats, Slots, ItemEmpty
      <3> QED
        BY <1>6, <3>1, <3>2 DEF LedBy
    <2> QED
      BY <1>6, <2>1, <2>2 DEF LedBy, KeepsOthers
  <1>8. cli'[e] = cli[e]
    <2>1. Disconnect(c) \/ SeatingBy(c)
      BY DEF LostBy, SeatingBy
    <2> QED
      BY <1>0, <1>6, <2>1, DisconnectStatus, SeatingStatus
  <1> QED
    BY <1>1, <1>6, <1>7, <1>8

(* Every step leaves a room in use led by a member that is not away.       *)
LEMMA LeaderPresentKept ==
    ASSUME TypeOK, SeatsInv, Present, LeaderPresent, [Next]_vars
    PROVE  LeaderPresent'
  <1>0. TablesOK /\ SeatsAgree
    BY DEF TypeOK, TablesOK, SeatsInv
  <1>1. SUFFICES ASSUME NEW r \in Rooms, rooms'[r].state # "IDLE"
                 PROVE  \E e \in Clients : LedBy(rooms'[r], e) /\ cli'[e].status # "DISCONNECTED"
    BY DEF LeaderPresent, LedBy
  <1> DEFINE g == rooms[r]
             h == rooms'[r]
  <1>2. g \in RoomType
    BY <1>0 DEF TablesOK
  <1>3. CASE \E c \in Clients : LostBy(c, r)
    BY <1>0, <1>1, <1>3, LostRoomLed
  <1>4. ASSUME ~(\E c \in Clients : LostBy(c, r)), g.state # "IDLE",
               h.leader = g.leader,
               \A i \in Seated(g) : i \in Seated(h) /\ h.members[i] = g.members[i]
        PROVE  \E e \in Clients : LedBy(h, e) /\ cli'[e].status # "DISCONNECTED"
    <2>1. PICK d \in Clients : /\ LedBy(g, d) /\ cli[d].roomId = r
                               /\ cli[d].status \notin {"EMPTY", "DISCONNECTED"}
      BY <1>0, <1>4, LeaderIsClient
    <2>2. ~Disconnect(d)
      BY <1>4, <2>1 DEF LostBy, Rooms, ItemEmpty
    <2>3. cli'[d].status # "DISCONNECTED"
      BY <2>1, <2>2, AwayByDisconnect
    <2>4. LedBy(h, d)
      BY <1>4, <2>1 DEF LedBy
    <2> QED
      BY <2>3, <2>4
  <1>5. CASE h = g
    BY <1>1, <1>3, <1>4, <1>5
  <1>6. ASSUME NEW c \in Clients, CreatedBy(c, r)
        PROVE  \E e \in Clients : LedBy(h, e) /\ cli'[e].status # "DISCONNECTED"
    <2>1. LedBy(h, c)
      BY <1>2, <1>6, OpenedByCreator DEF CreatedBy
    <2>2. cli[c].conn
      BY <1>6 DEF CreatedBy, CmdCreate, FromClient
    <2>3. cli'[c].status = cli[c].status
      BY <1>0, <1>6, SeatingStatus DEF CreatedBy, SeatingBy
    <2> QED
      BY <2>1, <2>2, <2>3 DEF Present
  <1>7. ASSUME NEW c \in Clients, CmdJoin(c, r)
        PROVE  \E e \in Clients : LedBy(h, e) /\ cli'[e].status # "DISCONNECTED"
    <2>1. /\ g.state = "LOBBY" /\ h.state = g.state /\ h.leader = g.leader
          /\ h.members = PutMember(g, c).members
      BY <1>0, <1>7, JoinedRoom
    <2>2. PutMember(g, c).state = g.state
      BY <1>2, PutMemberType
    <2>3. Seated(h) = Seated(PutMember(g, c))
      BY <2>1, <2>2 DEF Seated, Seats
    <2>4. \A i \in Seated(g) : i \in Seated(h) /\ h.members[i] = g.members[i]
      BY <1>2, <2>1, <2>3, PutMemberKeepsOthers
    <2>5. g.state # "IDLE"
      BY <2>1
    <2> HIDE DEF g, h
    <2>6. CASE ~(\E d \in Clients : LostBy(d, r))
      BY <1>4, <2>1, <2>4, <2>5, <2>6
    <2>7. CASE \E d \in Clients : LostBy(d, r)
      BY <1>3, <2>7 DEF h
    <2> QED
      BY <2>6, <2>7
  <1>8. CASE Restated(g, h)
    <2>1. g.state # "IDLE" /\ h.state # "IDLE" /\ h.leader = g.leader /\ h.members = g.members
      BY <1>2, <1>8 DEF Restated, RoomType
    <2>2. Seated(h) = Seated(g)
      BY <2>1 DEF Seated, Seats
    <2> QED
      BY <1>3, <1>4, <2>1, <2>2
  <1> QED
    BY <1>3, <1>5, <1>6, <1>7, <1>8, RoomSteps DEF RoomStep, RestatedIn

(* A room in use is always led by a client that is in it and is not away:  *)
(* engine_game_room_client_disconnected replaces the leader in the step    *)
(* that loses it, and picks one that is connected, or closes the room.     *)
THEOREM LeadersPresent == Spec => []LeaderPresent
  <1>1. Init => Present /\ LeaderPresent
    BY DEF Init, Present, LeaderPresent
  <1>2. TypeOK /\ SeatsInv /\ (Present /\ LeaderPresent) /\ [Next]_vars
          => (Present /\ LeaderPresent)'
    BY PresentKept, LeaderPresentKept
  <1> QED
    BY <1>1, <1>2, TypeCorrect, SeatsInvariant, PTL DEF Spec

-----------------------------------------------------------------------------
(* BattleMembersPlay, with SeatsInv, is inductive.                         *)

(* Only the members of a room are told its state, and all of them are that *)
(* are in use and not away.                                                *)
LEMMA ToldStatus ==
    ASSUME TablesOK, NEW q \in Rooms, Told(q), NEW d \in Clients
    PROVE  /\ \/ cli'[d] = cli[d]
              \/ /\ cli'[d].status = StatusFor(rooms'[q].state)
                 /\ \E i \in Seated(rooms[q]) : rooms[q].members[i] = d
           /\ \A i \in Seated(rooms[q]) :
                /\ rooms[q].members[i] = d
                /\ cli[d].status \notin {"DISCONNECTED", "EMPTY"}
                /\ rooms'[q].state \in {"BATTLE", "LOBBY"}
                => cli'[d].status = StatusFor(rooms'[q].state)
  <1> DEFINE g == rooms[q]
             s == rooms'[q].state
  <1>1. cli[d] \in ClientType
    BY RoomOfClient
  <1>2. PICK x : x.members = g.members /\ x.state = g.state /\ cli' = ClientsInState(x, s)
    BY DEF Told
  <1>3. Seats(x) = Seats(g)
    BY <1>2 DEF Seats
  <1>4. d # Nobody
    BY DEF Clients, Nobody
  <1>5. cli'[d] = IF /\ s \in {"BATTLE", "LOBBY"}
                     /\ \E i \in Seats(g) : g.members[i] = d
                     /\ cli[d].status \notin {"DISCONNECTED", "EMPTY"}
                    THEN [cli[d] EXCEPT !.status = StatusFor(s)] ELSE cli[d]
    <2> HIDE DEF g, s
    <2> QED
      BY <1>2, <1>3 DEF ClientsInState
  <1>6. [cli[d] EXCEPT !.status = StatusFor(s)].status = StatusFor(s)
    BY <1>1 DEF ClientType
  <1> HIDE DEF g, s
  <1>7. \A i : i \in Seated(g) /\ g.members[i] = d <=> i \in Seats(g) /\ g.members[i] = d
    BY <1>4 DEF Seated
  <1> QED
    BY <1>5, <1>6, <1>7 DEF g, s

(* Who plays, or is away, in a room in battle does so until it gives up    *)
(* its seat or the battle ends.                                            *)
LEMMA PlayerStays ==
    ASSUME TypeOK, SeatsAgree, [Next]_vars, NEW r \in Rooms, rooms'[r].state = "BATTLE",
           NEW i \in Seated(rooms[r]), NEW d \in Clients, rooms[r].members[i] = d,
           cli[d].status \in {"PLAYING", "DISCONNECTED"}
    PROVE  cli'[d].status \in {"PLAYING", "DISCONNECTED"}
  <1>0. TablesOK /\ cli \in [Clients -> ClientType] /\ cli[d] \in ClientType
    BY RoomOfClient DEF TypeOK, TablesOK
  <1>1. cli[d].roomId = r /\ InARoom(d)
    BY <1>0, SeatedNowhere
  <1>2. CASE Reintroduce(d)
    BY <1>0, <1>1, <1>2 DEF Reintroduce, ClientType
  <1>3. CASE ConnLost(d)
    BY <1>0, <1>3 DEF ConnLost, ClientType
  <1>4. CASE Disconnect(d)
    <2>1. r # ItemEmpty /\ rooms'[r] = ClientGone(rooms[r], d)
      <3>1. r # ItemEmpty
        BY DEF Rooms, ItemEmpty
      <3>2. rooms' = [rooms EXCEPT ![r] = ClientGone(rooms[r], d)]
        BY <1>1, <1>4, <3>1 DEF Disconnect
      <3> QED
        BY <1>0, <3>1, <3>2 DEF TablesOK
    <2>2. cli' = [cli EXCEPT ![d] = [cli[d] EXCEPT !.conn = FALSE, !.status = "DISCONNECTED"]]
      BY <1>1, <1>4, <2>1 DEF Disconnect
    <2> QED
      BY <1>0, <2>2 DEF ClientType
  <1>5. CASE SeatingBy(d)
    BY <1>0, <1>5, SeatingStatus
  <1>6. ASSUME NEW q \in Rooms, RestatedIn(q), Told(q)
        PROVE  cli'[d].status \in {"PLAYING", "DISCONNECTED"}
    <2>1. CASE cli'[d] = cli[d]
      BY <2>1
    <2>2. CASE cli'[d].status = StatusFor(rooms'[q].state)
               /\ \E j \in Seated(rooms[q]) : rooms[q].members[j] = d
      <3>1. q = r
        BY <1>1, <2>2 DEF SeatsAgree
      <3> QED
        BY <2>2, <3>1 DEF StatusFor
    <2> QED
      BY <1>0, <1>6, <2>1, <2>2, ToldStatus
  <1> QED
    BY <1>2, <1>3, <1>4, <1>5, <1>6, ClientSteps DEF ClientStep

(* Everybody in a room plays, or is away, when its battle begins.          *)
LEMMA BattleBegins ==
    ASSUME TypeOK, SeatsAgree, NEW r \in Rooms, RestatedIn(r), rooms[r].state # "BATTLE",
           rooms'[r].state = "BATTLE", NEW i \in Seated(rooms'[r])
    PROVE  cli'[rooms'[r].members[i]].status \in {"PLAYING", "DISCONNECTED"}
  <1> DEFINE g == rooms[r]
             h == rooms'[r]
             d == g.members[i]
  <1>1. TablesOK /\ g \in RoomType
    BY DEF TypeOK, TablesOK
  <1>2. g.state # "IDLE" /\ h.members = g.members
    BY <1>1 DEF RestatedIn, Restated, RoomType
  <1>3. i \in Seated(g) /\ h.members[i] = d
    BY <1>2 DEF Seated, Seats
  <1>4. d \in Clients
    BY <1>1, <1>3, SeatedClients
  <1>5. cli[d].status # "EMPTY"
    BY <1>3 DEF SeatsAgree
  <1>6. Told(r)
    BY DEF RestatedIn
  <1>7. CASE cli[d].status = "DISCONNECTED"
    <2>1. cli'[d] = cli[d] \/ cli'[d].status = StatusFor(h.state)
      BY <1>1, <1>4, <1>6, ToldStatus
    <2> QED
      BY <1>3, <1>7, <2>1 DEF StatusFor
  <1>8. CASE cli[d].status # "DISCONNECTED"
    <2>1. cli'[d].status = StatusFor(h.state)
      BY <1>1, <1>3, <1>4, <1>5, <1>6, <1>8, ToldStatus
    <2> QED
      BY <1>3, <2>1 DEF StatusFor
  <1> QED
    BY <1>7, <1>8

(* Every step leaves everybody in a battle playing or away.                *)
LEMMA BattleMembersPlayKept ==
    ASSUME TypeOK, SeatsAgree, BattleMembersPlay, [Next]_vars
    PROVE  BattleMembersPlay'
  <1>1. SUFFICES ASSUME NEW r \in Rooms, rooms'[r].state = "BATTLE", NEW i \in Seated(rooms'[r])
                 PROVE  cli'[rooms'[r].members[i]].status \in {"PLAYING", "DISCONNECTED"}
    BY DEF BattleMembersPlay
  <1> DEFINE g == rooms[r]
             h == rooms'[r]
  <1>2. TablesOK /\ g \in RoomType
    BY DEF TypeOK, TablesOK
  <1>3. ASSUME g.state = "BATTLE", Shrinks(g, h)
        PROVE  cli'[h.members[i]].status \in {"PLAYING", "DISCONNECTED"}
    <2> DEFINE d == g.members[i]
    <2>1. i \in Seated(g) /\ h.members[i] = d
      BY <1>1, <1>3 DEF Shrinks
    <2>2. d \in Clients
      BY <1>2, <2>1, SeatedClients
    <2>3. cli[d].status \in {"PLAYING", "DISCONNECTED"}
      BY <1>3, <2>1 DEF BattleMembersPlay
    <2> HIDE DEF d
    <2>4. cli'[d].status \in {"PLAYING", "DISCONNECTED"}
      BY <1>1, <2>1, <2>2, <2>3, PlayerStays DEF d
    <2> QED
      BY <2>1, <2>4
  <1>4. CASE h = g
    BY <1>1, <1>3, <1>4 DEF Shrinks
  <1>5. ASSUME NEW c \in Clients, LostBy(c, r)
        PROVE  cli'[h.members[i]].status \in {"PLAYING", "DISCONNECTED"}
    <2> DEFINE gone == ClientGone(g, c)
    <2>1. gone \in RoomType /\ Shrinks(g, gone) /\ Shrinks(gone, RemoveClient(gone, c))
          /\ RemoveClient(gone, c).state = gone.state
      BY <1>2, ClientGoneType, ClientGoneShrinks, RemoveClientShrinks, RemoveClientType
    <2>2. h = gone \/ h = RemoveClient(gone, c)
      BY <1>2, <1>5, LostRoom
    <2>3. Shrinks(g, h) /\ gone.state = "BATTLE"
      <3> HIDE DEF gone, g, h
      <3>1. Shrinks(g, h)
        BY <2>1, <2>2 DEF Shrinks
      <3>2. gone.state = "BATTLE"
        BY <1>1, <2>1, <2>2 DEF h
      <3> QED
        BY <3>1, <3>2
    <2>4. g.state = "BATTLE"
      <3>1. FindClient(g, c) = ItemEmpty => gone = g
        BY ClientGoneStranger
      <3>2. FindClient(g, c) # ItemEmpty => gone.state = "IDLE" \/ gone.state = g.state
        <4> HIDE DEF gone, g
        <4> QED
          BY <1>2, ClientGoneLeads DEF gone
      <3> QED
        BY <2>3, <3>1, <3>2
    <2> QED
      BY <1>3, <2>3, <2>4
  <1>6. ASSUME NEW c \in Clients, CreatedBy(c, r) \/ CmdJoin(c, r)
        PROVE  FALSE
    <2>1. CASE CreatedBy(c, r)
      <3>1. OpenedBy(g, c) \in RoomType /\ OpenedBy(g, c).state = "LOBBY"
        BY <1>2, OpenedByCreator
      <3>2. PutPlayer(OpenedBy(g, c), c, cli[c].playerRids).state = OpenedBy(g, c).state
        BY <3>1, PutPlayerType
      <3> QED
        BY <1>1, <2>1, <3>1, <3>2 DEF CreatedBy
    <2>2. CASE CmdJoin(c, r)
      BY <1>1, <1>2, <2>2, JoinedRoom
    <2> QED
      BY <1>6, <2>1, <2>2
  <1>7. CASE RestatedIn(r)
    <2>1. CASE g.state # "BATTLE"
      BY <1>1, <1>7, <2>1, BattleBegins
    <2>2. CASE g.state = "BATTLE"
      <3>1. h.members = g.members /\ g.state # "IDLE"
        BY <1>2, <1>7 DEF RestatedIn, Restated, RoomType
      <3>2. Shrinks(g, h)
        BY <3>1, SameMembersShrinks
      <3> QED
        BY <1>3, <2>2, <3>2
    <2> QED
      BY <2>1, <2>2
  <1> QED
    BY <1>4, <1>5, <1>6, <1>7, RoomSteps DEF RoomStep

(* Whoever is in a room in battle plays or is away, however it came by its *)
(* seat: engine_game_room_set_state tells everybody in the room, and a     *)
(* client that returns plays on only if it still has its seat.             *)
THEOREM BattlesPlayed == Spec => []BattleMembersPlay
  <1>1. Init => BattleMembersPlay
    BY DEF Init, BattleMembersPlay
  <1>2. TypeOK /\ SeatsInv /\ BattleMembersPlay /\ [Next]_vars => BattleMembersPlay'
    BY BattleMembersPlayKept DEF SeatsInv
  <1> QED
    BY <1>1, <1>2, TypeCorrect, SeatsInvariant, PTL DEF Spec
=============================================================================
