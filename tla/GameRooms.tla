------------------------------ MODULE GameRooms ------------------------------
(***************************************************************************)
(* The engine thread's view of clients and game rooms: who is authorized,  *)
(* who sits in which room, who leads it, who is ready, and which phase the *)
(* room is in (core/engine.c, core/engine_game_room.c, core/engine_run.c,  *)
(* core/engine_cmd_exec_*.c, game/game_room.c, networks/net_client.c).     *)
(*                                                                         *)
(* The engine runs one tick after another: it looks at every client, it    *)
(* processes the commands in the queue, it updates every room.  The only   *)
(* thing that happens to this state from outside is that a connection      *)
(* goes away (ConnLost), at any point of the tick.  Every handler is one   *)
(* step; what happens when the network thread interferes inside a handler  *)
(* is not modelled here.                                                   *)
(*                                                                         *)
(* The handlers are operators on one room record g and the client table    *)
(* cli; refused commands change nothing and have no action.                *)
(***************************************************************************)
EXTENDS Integers

CONSTANTS NumClients,       \* resources.clients_length
          NumRooms,         \* resources.game_rooms_length
          RoomSize,         \* 2, the size rooms are created with
          PlayersPerClient, \* NET_CLIENT_MAX_PLAYERS, 2
          NumColors         \* _COLORS_COUNT, 13

ASSUME RoomsAssumption ==
    /\ NumClients \in Nat \ {0} /\ NumRooms \in Nat \ {0}
    /\ RoomSize \in Nat \ {0} /\ PlayersPerClient \in Nat \ {0}
    /\ NumColors \in Nat \ {0}

VARIABLES
    cli,     \* resources.clients
    rooms,   \* resources.game_rooms
    phase,   \* where in its tick the engine is
    index    \* the client or room a loop of the tick is at

vars == <<cli, rooms, phase, index>>

ItemEmpty == -1
Clients == 1 .. NumClients
Nobody == 0                          \* a NULL entry of game_room.clients
Rooms == 0 .. NumRooms - 1
Slots == 0 .. RoomSize - 1           \* client RIDs and player RIDs
ClientSlots == 0 .. PlayersPerClient - 1
Colors == 0 .. NumColors - 1

Statuses == {"EMPTY", "CONNECTED", "PLAYING", "DISCONNECTED"}
RoomStates == {"IDLE", "LOBBY", "BATTLE_STARTING", "BATTLE"}

(* The loops of the code that return the first index that fits.            *)
First(S) == IF S = {} THEN ItemEmpty
                      ELSE CHOOSE x \in S : \A y \in S : x <= y

NoPlayer == [owner |-> ItemEmpty, color |-> ItemEmpty]

(* net_client_wipe                                                         *)
WipedClient == [status |-> "EMPTY", conn |-> FALSE, roomId |-> ItemEmpty,
                playerRids |-> [k \in ClientSlots |-> ItemEmpty]]

-----------------------------------------------------------------------------
(* One room                                                                *)

(* The room's size is 0 after clean-up and RoomSize after initialisation,  *)
(* so the loops over a room that is IDLE see no slot.                      *)
Seats(g) == IF g.state = "IDLE" THEN {} ELSE Slots

Seated(g) == {i \in Seats(g) : g.members[i] # Nobody}

(* game_room_find_client                                                   *)
FindClient(g, c) == First({i \in Seats(g) : g.members[i] = c})

FreePlayerSlots(g) == {p \in Seats(g) : g.players[p].owner = ItemEmpty}

HasOpenSlots(g) == Seats(g) # Seated(g) /\ FreePlayerSlots(g) # {}

IsEveryoneReady(g) == \A i \in Seated(g) : g.ready[i]

(* game_room_clean_up; leader, ready_state and colors stay as they are     *)
CleanUp(g) == [g EXCEPT !.members = [i \in Slots |-> Nobody],
                        !.players = [p \in Slots |-> NoPlayer],
                        !.state = "IDLE"]

(* game_room_put_client                                                    *)
PutMember(g, c) ==
    LET free == First(Seats(g) \ Seated(g))
    IN  IF FindClient(g, c) # ItemEmpty \/ free = ItemEmpty THEN g
        ELSE [g EXCEPT !.members[free] = c]

(* Variant: the players are forgotten, as the "todo: client cleanup" fears. *)
RemoveClientKeepsPlayers(g, c) ==
    IF FindClient(g, c) = ItemEmpty THEN g
    ELSE [g EXCEPT !.members[FindClient(g, c)] = Nobody]

(* engine_game_room_remove_client: the client's players are detached, the  *)
(* slot's ready_state stays.                                               *)
RemoveClient(g, c) ==
    LET rid == FindClient(g, c)
        owned == {p \in Seats(g) : g.players[p].owner = rid}
    IN  IF rid = ItemEmpty THEN g
        ELSE [g EXCEPT
               !.members[rid] = Nobody,
               !.players = [p \in Slots |-> IF p \in owned THEN NoPlayer ELSE @[p]],
               !.usedColors = @ \ {g.players[p].color : p \in owned}]

(* Variants: the connection of the next leader is not looked at; a leader  *)
(* that timed out is not replaced.                                         *)
EligibleAnyone(g, c) == {i \in Seated(g) : g.members[i] # c}
EligibleIfLeft(g, c) ==
    {i \in Seated(g) : g.members[i] # c /\ cli[c].conn /\ cli[g.members[i]].conn}

(* game_room_choose_leader_other_than: the seats it may choose             *)
Eligible(g, c) == {i \in Seated(g) : g.members[i] # c /\ cli[g.members[i]].conn}

(* Variant: a room nobody can lead is not cleaned up.                      *)
ClientGoneNoCleanUp(g, c) ==
    LET rid == FindClient(g, c)
        left == IF g.state = "LOBBY" THEN RemoveClient(g, c) ELSE g
    IN  IF rid = ItemEmpty \/ left.leader # rid THEN left
        ELSE [left EXCEPT !.leader = First(Eligible(left, c))]

(* engine_game_room_client_disconnected, with engine_game_room_cleanup,    *)
(* whose second loop finds only NULL and wipes nobody.                     *)
ClientGone(g, c) ==
    LET rid == FindClient(g, c)
        left == IF g.state = "LOBBY" THEN RemoveClient(g, c) ELSE g
    IN  CASE rid = ItemEmpty -> g
          [] rid # ItemEmpty /\ left.leader # rid -> left
          [] rid # ItemEmpty /\ left.leader = rid /\ Eligible(left, c) = {} ->
               CleanUp(left)
          [] OTHER -> [left EXCEPT !.leader = First(Eligible(left, c))]

(* engine_game_room_put_player: the room after it and the client's list of *)
(* players after it.  A player whose client has no place for it is         *)
(* detached again.                                                         *)
AttachedPlayer(g, c) ==
    [owner |-> FindClient(g, c), color |-> First(Colors \ g.usedColors)]

ClientCanHold(rids, p) == \E k \in ClientSlots : rids[k] \in {p, ItemEmpty}

RidsWith(rids, p) ==
    LET free == First({k \in ClientSlots : rids[k] = ItemEmpty})
    IN  IF p = ItemEmpty \/ (\E k \in ClientSlots : rids[k] = p) \/ free = ItemEmpty
          THEN rids ELSE [rids EXCEPT ![free] = p]

(* Variant: the color of the new player is not marked as used.             *)
PutPlayerColorFree(g, c, rids) ==
    LET p == First(FreePlayerSlots(g))
    IN  IF p = ItemEmpty \/ ~ClientCanHold(rids, p) THEN g
        ELSE [g EXCEPT !.players[p] = AttachedPlayer(g, c)]

PutPlayer(g, c, rids) ==
    LET p == First(FreePlayerSlots(g))
        new == AttachedPlayer(g, c)
    IN  IF p = ItemEmpty \/ ~ClientCanHold(rids, p) THEN g
        ELSE [g EXCEPT !.players[p] = new, !.usedColors = @ \cup ({new.color} \ {ItemEmpty})]

(* engine_game_room_set_state, what it does to the room                    *)
InState(g, s) == [g EXCEPT !.state = s, !.ready = [i \in Slots |-> FALSE]]

(* _engine_game_room_set_clients_status and the states it is called for    *)
StatusFor(s) == IF s = "BATTLE" THEN "PLAYING" ELSE "CONNECTED"

ClientsInState(g, s) ==
    IF s \notin {"BATTLE", "LOBBY"} THEN cli
    ELSE [c \in Clients |->
            IF (\E i \in Seats(g) : g.members[i] = c)
                /\ cli[c].status \notin {"DISCONNECTED", "EMPTY"}
              THEN [cli[c] EXCEPT !.status = StatusFor(s)] ELSE cli[c]]

-----------------------------------------------------------------------------
(* calloc leaves everything 0 (resources_allocate): room ids, player RIDs, *)
(* owners and colors too, none of which is read before it is initialised.  *)
Init ==
    /\ cli = [c \in Clients |->
               [status |-> "EMPTY", conn |-> FALSE, roomId |-> 0,
                playerRids |-> [k \in ClientSlots |-> 0]]]
    /\ rooms = [r \in Rooms |->
                 [state |-> "IDLE", leader |-> 0,
                  members |-> [i \in Slots |-> Nobody],
                  ready |-> [i \in Slots |-> FALSE],
                  players |-> [p \in Slots |-> [owner |-> 0, color |-> 0]],
                  usedColors |-> {}]]
    /\ phase = "check" /\ index = 1

(* A connection is closed: by the network thread when the peer is gone, or *)
(* by either thread after too many invalid messages.                       *)
ConnLost(c) ==
    /\ cli[c].conn
    /\ cli' = [cli EXCEPT ![c].conn = FALSE]
    /\ UNCHANGED <<rooms, phase, index>>

-----------------------------------------------------------------------------
(* The commands.  A command belongs to a client while con_to_cli leads     *)
(* from its socket to one.                                                 *)

FromClient(c) == phase = "commands" /\ cli[c].conn

(* engine_game_room_by_id of the client's room_id, and its seat there      *)
InARoom(c) ==
    /\ cli[c].roomId # ItemEmpty
    /\ FindClient(rooms[cli[c].roomId], c) # ItemEmpty

(* engine_client_disconnected for a client whose connection is closed      *)
Disconnect(c) ==
    LET r == cli[c].roomId
        after == ClientGone(rooms[r], c)
    IN  IF r = ItemEmpty
          THEN cli' = [cli EXCEPT ![c] = WipedClient] /\ UNCHANGED rooms
          ELSE /\ rooms' = [rooms EXCEPT ![r] = after]
               /\ cli' = [cli EXCEPT ![c] =
                    IF after.state = "IDLE" THEN WipedClient
                    ELSE [@ EXCEPT !.conn = FALSE, !.status = "DISCONNECTED"]]

(* _engine_authorize_connection for a client that is new, or whose secret  *)
(* nobody has                                                              *)
NewClient ==
    /\ phase = "commands"
    /\ LET c == First({d \in Clients : cli[d].status = "EMPTY"})
       IN  /\ c # ItemEmpty
           /\ cli' = [cli EXCEPT ![c] =
                       [WipedClient EXCEPT !.status = "CONNECTED", !.conn = TRUE]]
    /\ UNCHANGED <<rooms, phase, index>>

(* Variant: a client that returns is not told to play on.                  *)
ReintroduceConnected(c) ==
    /\ phase = "commands"
    /\ cli[c].status = "DISCONNECTED"
    /\ cli' = [cli EXCEPT ![c].conn = TRUE, ![c].status = "CONNECTED"]
    /\ UNCHANGED <<rooms, phase, index>>

(* _engine_authorize_connection with a known secret, and                   *)
(* engine_game_room_put_client_again when the client still has its seat    *)
Reintroduce(c) ==
    /\ phase = "commands"
    /\ cli[c].status = "DISCONNECTED"
    /\ cli' = [cli EXCEPT ![c].conn = TRUE,
                          ![c].status = IF InARoom(c) THEN "PLAYING" ELSE "CONNECTED"]
    /\ UNCHANGED <<rooms, phase, index>>

(* _exe_solo_lead_disconnect                                               *)
CmdDisconnect(c) ==
    /\ FromClient(c)
    /\ Disconnect(c)
    /\ UNCHANGED <<phase, index>>

(* _exe_solo_rooms_create, with game_room_init                             *)
CmdCreate(c) ==
    LET r == First({q \in Rooms : rooms[q].state = "IDLE"})
        init == [CleanUp(rooms[r]) EXCEPT !.state = "LOBBY", !.usedColors = {}]
        opened == [PutMember(init, c) EXCEPT !.leader = FindClient(PutMember(init, c), c)]
    IN  /\ FromClient(c)
        /\ ~InARoom(c)
        /\ r # ItemEmpty
        /\ rooms' = [rooms EXCEPT ![r] = PutPlayer(opened, c, cli[c].playerRids)]
        /\ cli' = [cli EXCEPT ![c].roomId = r,
                     ![c].playerRids = RidsWith(@, First(FreePlayerSlots(opened)))]
        /\ UNCHANGED <<phase, index>>

(* _exe_solo_rooms_join, with engine_game_room_put_client.  A client that  *)
(* joins the room it is in gets a second player.                           *)
CmdJoin(c, r) ==
    LET joined == PutMember(rooms[r], c)
    IN  /\ FromClient(c)
        /\ cli[c].roomId \in {ItemEmpty, r}
        /\ HasOpenSlots(rooms[r])
        /\ rooms[r].state = "LOBBY"
        /\ rooms' = [rooms EXCEPT ![r] = PutPlayer(joined, c, cli[c].playerRids)]
        /\ cli' = [cli EXCEPT ![c].roomId = r,
                     ![c].playerRids = RidsWith(@, First(FreePlayerSlots(joined)))]
        /\ UNCHANGED <<phase, index>>

(* Variant: leaving relies on engine_game_room_client_disconnected alone,  *)
(* which gives up the seat in a lobby only.                                *)
CmdLeaveKeepsSeat(c) ==
    LET r == cli[c].roomId
    IN  /\ FromClient(c)
        /\ r # ItemEmpty
        /\ rooms' = [rooms EXCEPT ![r] = ClientGone(@, c)]
        /\ cli' = [cli EXCEPT ![c].roomId = ItemEmpty]
        /\ UNCHANGED <<phase, index>>

(* _exe_solo_rooms_leave; the status stays what it was                     *)
CmdLeave(c) ==
    LET r == cli[c].roomId
    IN  /\ FromClient(c)
        /\ r # ItemEmpty
        /\ rooms' = [rooms EXCEPT ![r] = RemoveClient(ClientGone(@, c), c)]
        /\ cli' = [cli EXCEPT ![c].roomId = ItemEmpty]
        /\ UNCHANGED <<phase, index>>

(* _exe_gr_ready_state.  Every byte but 0 says ready; one that differs     *)
(* from the byte before is a change even when both say ready.              *)
NextState(s) == IF s = "LOBBY" THEN "BATTLE_STARTING" ELSE "BATTLE"

CmdReady(c, ready) ==
    LET r == cli[c].roomId
        rid == FindClient(rooms[r], c)
        said == [rooms[r] EXCEPT !.ready[rid] = ready]
        next == NextState(said.state)
    IN  /\ FromClient(c)
        /\ InARoom(c)
        /\ ready \/ rooms[r].ready[rid]
        /\ IF IsEveryoneReady(said) /\ said.state \in {"LOBBY", "BATTLE_STARTING"}
             THEN /\ rooms' = [rooms EXCEPT ![r] = InState(said, next)]
                  /\ cli' = ClientsInState(said, next)
             ELSE rooms' = [rooms EXCEPT ![r] = said] /\ UNCHANGED cli
        /\ UNCHANGED <<phase, index>>

Command ==
    \/ NewClient
    \/ \E c \in Clients :
         \/ Reintroduce(c) \/ CmdDisconnect(c) \/ CmdCreate(c) \/ CmdLeave(c)
         \/ \E r \in Rooms : CmdJoin(c, r)
         \/ \E ready \in BOOLEAN : CmdReady(c, ready)

-----------------------------------------------------------------------------
(* The tick                                                                *)

(* Variant: only clients that are CONNECTED are looked at.                 *)
CheckClientConnected ==
    /\ phase = "check"
    /\ IF ~cli[index].conn /\ cli[index].status = "CONNECTED"
         THEN Disconnect(index)
         ELSE UNCHANGED <<cli, rooms>>
    /\ IF index < NumClients
         THEN index' = index + 1 /\ UNCHANGED phase
         ELSE phase' = "commands" /\ index' = 0

(* _engine_check_active_clients, for client number index                   *)
CheckClient ==
    /\ phase = "check"
    /\ IF ~cli[index].conn /\ cli[index].status \notin {"DISCONNECTED", "EMPTY"}
         THEN Disconnect(index)
         ELSE UNCHANGED <<cli, rooms>>
    /\ IF index < NumClients
         THEN index' = index + 1 /\ UNCHANGED phase
         ELSE phase' = "commands" /\ index' = 0

(* The command queue is empty.                                             *)
EndCommands ==
    /\ phase = "commands"
    /\ phase' = "update"
    /\ UNCHANGED <<cli, rooms, index>>

(* A connection is missing in a room about to begin: only every sixteenth  *)
(* tick looks.  Or the battle ends because a tank is destroyed.            *)
BackToLobby(g) ==
    \/ g.state = "BATTLE_STARTING" /\ \E i \in Seated(g) : ~cli[g.members[i]].conn
    \/ g.state = "BATTLE"

(* engine_update_gamerooms, for room number index                          *)
UpdateRoom ==
    /\ phase = "update"
    /\ \/ UNCHANGED <<cli, rooms>>
       \/ /\ BackToLobby(rooms[index])
          /\ rooms' = [rooms EXCEPT ![index] = InState(@, "LOBBY")]
          /\ cli' = ClientsInState(rooms[index], "LOBBY")
    /\ IF index < NumRooms - 1
         THEN index' = index + 1 /\ UNCHANGED phase
         ELSE phase' = "check" /\ index' = 1

Tick == CheckClient \/ EndCommands \/ UpdateRoom

Next == Command \/ Tick \/ \E c \in Clients : ConnLost(c)

Spec == Init /\ [][Next]_vars

(* The engine thread never stops ticking, and its command queue runs empty *)
(* again and again.                                                        *)
FairSpec == Spec /\ WF_vars(Tick)

-----------------------------------------------------------------------------
RoomIds == Rooms \cup {ItemEmpty}
RIDs == Slots \cup {ItemEmpty}

ClientType ==
    [status: Statuses, conn: BOOLEAN, roomId: RoomIds, playerRids: [ClientSlots -> RIDs]]

PlayerType == [owner: RIDs, color: Colors \cup {ItemEmpty}]

RoomType ==
    [state: RoomStates, leader: Slots,
     members: [Slots -> Clients \cup {Nobody}], ready: [Slots -> BOOLEAN],
     players: [Slots -> PlayerType], usedColors: SUBSET Colors]

TypeOK ==
    /\ cli \in [Clients -> ClientType]
    /\ rooms \in [Rooms -> RoomType]
    /\ \/ phase = "check" /\ index \in Clients
       \/ phase \in {"commands", "update"} /\ index \in Rooms

(* A client found in a room is in use, knows that room as its own, and has *)
(* one seat only: no room holds a pointer to a client that was wiped or    *)
(* that went on to another room (game_room.clients against                 *)
(* net_client.room_id, over every way of leaving).                         *)
SeatsAgree ==
    \A r \in Rooms : \A i \in Seated(rooms[r]) :
      LET c == rooms[r].members[i]
      IN  /\ cli[c].status # "EMPTY" /\ cli[c].roomId = r
          /\ \A j \in Seated(rooms[r]) : rooms[r].members[j] = c => j = i

(* Every player belongs to a client that is in the room, and every client  *)
(* in the room has a player: engine_game_room_put_player never gives up    *)
(* after the client was seated, although player_rids is never cleared.     *)
MembersPlay ==
    \A r \in Rooms :
      LET g == rooms[r]
      IN  /\ \A p \in Seats(g) : g.players[p].owner \in Seated(g) \cup {ItemEmpty}
          /\ \A i \in Seated(g) : \E p \in Seats(g) : g.players[p].owner = i

(* A room in use is led by a client that is in it and is not away: the     *)
(* leader is replaced in the step that loses it, or the room is closed     *)
(* (leaderClientRID, engine_game_room_client_disconnected).                *)
LeaderPresent ==
    \A r \in Rooms : rooms[r].state # "IDLE" =>
      /\ rooms[r].leader \in Seated(rooms[r])
      /\ cli[rooms[r].members[rooms[r].leader]].status # "DISCONNECTED"

(* Whoever is in a room in battle is playing or away, however the client   *)
(* came by its seat: tank positions go only to those who are PLAYING       *)
(* (engine_gameroom_sync_tanks).                                           *)
BattleMembersPlay ==
    \A r \in Rooms : rooms[r].state = "BATTLE" =>
      \A i \in Seated(rooms[r]) :
        cli[rooms[r].members[i]].status \in {"PLAYING", "DISCONNECTED"}

(* The colors in use are those of the players in the room, each one's own: *)
(* leaving gives the color back (colors_set_in_use) and none runs out.     *)
ColorsAccounted ==
    \A r \in Rooms :
      LET g == rooms[r]
          owned == Seats(g) \ FreePlayerSlots(g)
      IN  /\ g.state # "IDLE" => g.usedColors = {g.players[p].color : p \in owned}
          /\ \A p, q \in owned : p # q => g.players[p].color # g.players[q].color

Closes(r) == rooms[r].state # "IDLE" /\ rooms'[r].state = "IDLE"

(* A room is closed only by a client that gives it up, and only when every *)
(* other member has lost its connection, be the one that leaves connected  *)
(* or timed out itself (engine_game_room_client_disconnected).             *)
ClosedOnlyWhenAbandoned ==
    [][\A r \in Rooms : Closes(r) =>
         \E c \in Clients :
           /\ cli[c].roomId = r /\ cli'[c].roomId # r
           /\ \A i \in Seated(rooms[r]) :
                rooms[r].members[i] # c => ~cli[rooms[r].members[i]].conn]_vars

(* A room whose clients have all lost their connections is closed, unless  *)
(* one of them comes back: no room stays taken for ever.                   *)
Abandoned(r) ==
    /\ rooms[r].state # "IDLE"
    /\ \A i \in Seated(rooms[r]) : ~cli[rooms[r].members[i]].conn

AbandonedRoomCloses == \A r \in Rooms : Abandoned(r) ~> ~Abandoned(r)

(* What the log lines "Everyone in room %d is ready" and "changed ready    *)
(* state to" say: a client is ready when it has said so, so one that just  *)
(* took a seat is not.                                                     *)
SeatTakenUnready ==
    [][\A r \in Rooms : \A i \in Slots :
         rooms[r].members[i] = Nobody /\ rooms'[r].members[i] # Nobody
           => ~rooms'[r].ready[i]]_vars

(* What the wiping loop of engine_game_room_cleanup and the log line "left *)
(* room which was cleaned up, cleaning client as well" say: whoever is     *)
(* kept as DISCONNECTED in a room that is closed is wiped with it.         *)
ClosedRoomWipesClients ==
    [][\A r \in Rooms : Closes(r) =>
         \A i \in Seated(rooms[r]) :
           LET c == rooms[r].members[i]
           IN  cli[c].status = "DISCONNECTED" => cli'[c].status = "EMPTY"]_vars
=============================================================================
