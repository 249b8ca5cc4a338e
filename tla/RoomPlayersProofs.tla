-------------------------- MODULE RoomPlayersProofs --------------------------
(***************************************************************************)
(* The players of a room of GameRooms and their colors, for every number   *)
(* of clients and rooms, and for every size of the room and number of      *)
(* places for players and of colors that is not smaller than the size.     *)
(***************************************************************************)
EXTENDS RoomLeadersProofs, FiniteSetTheorems

-----------------------------------------------------------------------------
(* Counting.                                                               *)

(* As many slots as the room has.                                          *)
LEMMA SlotsCounted ==
    /\ IsFiniteSet(Slots) /\ Cardinality(Slots) = RoomSize
    /\ IsFiniteSet(Colors) /\ Cardinality(Colors) = NumColors
    /\ IsFiniteSet(ClientSlots) /\ Cardinality(ClientSlots) = PlayersPerClient
  <1>1. \A n \in Nat \ {0} : IsFiniteSet(0 .. n - 1) /\ Cardinality(0 .. n - 1) = n
    <2> SUFFICES ASSUME NEW n \in Nat \ {0}
                 PROVE  IsFiniteSet(0 .. n - 1) /\ Cardinality(0 .. n - 1) = n
      OBVIOUS
    <2>1. 0 \in Int /\ n - 1 \in Int /\ ~(0 > n - 1) /\ n - 1 - 0 + 1 = n
      OBVIOUS
    <2> QED
      BY <2>1, FS_Interval
  <1> QED
    BY <1>1, RoomsAssumption DEF Slots, Colors, ClientSlots

(* While a player slot is free there is a color nobody in the room has.    *)
LEMMA ColorLeft ==
    ASSUME RoomSize <= NumColors,
           NEW p \in Slots, NEW owned \in SUBSET (Slots \ {p}), NEW color \in [Slots -> Colors \cup {ItemEmpty}]
    PROVE  \E k \in Colors : \A q \in owned : color[q] # k
  <1>1. SUFFICES ASSUME \A k \in Colors : \E q \in owned : color[q] = k
                 PROVE  FALSE
    OBVIOUS
  <1> DEFINE holder == [k \in Colors |-> CHOOSE q \in owned : color[q] = k]
  <1>2. \A k \in Colors : holder[k] \in owned /\ color[holder[k]] = k
    BY <1>1
  <1>3. holder \in [Colors -> Slots \ {p}]
    BY <1>2
  <1> HIDE DEF holder
  <1>4. \A k, l \in Colors : holder[k] = holder[l] => k = l
    BY <1>2
  <1>5. /\ IsFiniteSet(Slots \ {p}) /\ Cardinality(Slots \ {p}) = RoomSize - 1
        /\ IsFiniteSet(Colors) /\ Cardinality(Colors) = NumColors
    BY SlotsCounted, FS_RemoveElement
  <1>6. RoomSize - 1 < NumColors
    BY RoomsAssumption
  <1>7. \E k, l \in Colors : k # l /\ holder[k] = holder[l]
    BY <1>3, <1>5, <1>6, FS_PigeonHole
  <1> QED
    BY <1>4, <1>7

(* No two entries of a client's list name the same player.                 *)
Distinct(rids) ==
    \A k, l \in ClientSlots : rids[k] = rids[l] /\ rids[k] # ItemEmpty => k = l

(* A client with a place for each player of a room can hold any of them.   *)
LEMMA CanHoldAny ==
    ASSUME RoomSize <= PlayersPerClient,
           NEW rids \in [ClientSlots -> RIDs], Distinct(rids), NEW p \in Slots
    PROVE  ClientCanHold(rids, p)
  <1>1. SUFFICES ASSUME \A k \in ClientSlots : rids[k] \notin {p, ItemEmpty}
                 PROVE  FALSE
    BY DEF ClientCanHold
  <1>2. rids \in [ClientSlots -> Slots \ {p}]
    BY <1>1 DEF RIDs
  <1>3. /\ IsFiniteSet(Slots \ {p}) /\ Cardinality(Slots \ {p}) = RoomSize - 1
        /\ IsFiniteSet(ClientSlots) /\ Cardinality(ClientSlots) = PlayersPerClient
    BY SlotsCounted, FS_RemoveElement
  <1>4. RoomSize - 1 < PlayersPerClient
    BY RoomsAssumption
  <1>5. \E k, l \in ClientSlots : k # l /\ rids[k] = rids[l]
    BY <1>2, <1>3, <1>4, FS_PigeonHole
  <1> QED
    BY <1>1, <1>5 DEF Distinct

(* Noting a player keeps the entries of the list apart.                    *)
LEMMA RidsWithDistinct ==
    ASSUME NEW rids \in [ClientSlots -> RIDs], Distinct(rids), NEW p \in RIDs
    PROVE  Distinct(RidsWith(rids, p))
  <1> DEFINE free == First({k \in ClientSlots : rids[k] = ItemEmpty})
  <1>1. CASE RidsWith(rids, p) = rids
    BY <1>1
  <1>2. CASE RidsWith(rids, p) # rids
    <2>1. /\ \A k \in ClientSlots : rids[k] # p
          /\ RidsWith(rids, p) = [rids EXCEPT ![free] = p]
      BY <1>2 DEF RidsWith
    <2> HIDE DEF free
    <2> QED
      BY <2>1 DEF Distinct
  <1> QED
    BY <1>1, <1>2


-----------------------------------------------------------------------------
(* The two properties, said of one room, and what the operations on a room *)
(* do to them.                                                             *)

Owned(g) == Seats(g) \ FreePlayerSlots(g)

(* ColorsAccounted, of room g                                              *)
Painted(g) ==
    /\ g.state # "IDLE" => g.usedColors = {g.players[p].color : p \in Owned(g)}
    /\ \A p, q \in Owned(g) : p # q => g.players[p].color # g.players[q].color

(* MembersPlay, of room g                                                  *)
Plays(g) ==
    /\ \A p \in Seats(g) : g.players[p].owner \in Seated(g) \cup {ItemEmpty}
    /\ \A i \in Seated(g) : \E p \in Seats(g) : g.players[p].owner = i

(* A player is owned when its client_rid is not empty.                     *)
LEMMA OwnedPlayers ==
    ASSUME NEW g, NEW p
    PROVE  p \in Owned(g) <=> p \in Seats(g) /\ g.players[p].owner # ItemEmpty
  BY DEF Owned, FreePlayerSlots

(* A closed room has neither members nor players.                          *)
LEMMA ClosedRoom ==
    ASSUME NEW g, g.state = "IDLE"
    PROVE  Painted(g) /\ Plays(g)
  BY DEF Painted, Plays, Owned, Seated, Seats

(* Leader, state and ready states have no part in it.                      *)
LEMMA SamePlayers ==
    ASSUME NEW g, NEW h, g.state # "IDLE", h.state # "IDLE", h.members = g.members,
           h.players = g.players, h.usedColors = g.usedColors
    PROVE  (Painted(g) => Painted(h)) /\ (Plays(g) => Plays(h))
  <1>1. Seats(h) = Seats(g)
    BY DEF Seats
  <1>2. Seated(h) = Seated(g) /\ Owned(h) = Owned(g)
    BY <1>1 DEF Seated, Owned, FreePlayerSlots
  <1> QED
    BY <1>1, <1>2 DEF Painted, Plays

(* Removing a client detaches its players and gives their colors back.     *)
LEMMA RemoveClientPlayers ==
    ASSUME NEW g \in RoomType, NEW c
    PROVE  /\ Painted(g) => Painted(RemoveClient(g, c))
           /\ Plays(g) => Plays(RemoveClient(g, c))
  <1> DEFINE rid == FindClient(g, c)
             h == RemoveClient(g, c)
             mine == {p \in Seats(g) : g.players[p].owner = rid}
  <1>1. CASE rid = ItemEmpty
    BY <1>1 DEF RemoveClient
  <1>2. CASE rid # ItemEmpty
    <2>1. rid \in Seats(g) /\ Seats(g) \subseteq Slots
      BY <1>2, FindClientRange, SetsOfNumbers
    <2>2. /\ h.members = [g.members EXCEPT ![rid] = Nobody] /\ h.state = g.state
          /\ h.players = [p \in Slots |-> IF p \in mine THEN NoPlayer ELSE g.players[p]]
          /\ h.usedColors = g.usedColors \ {g.players[p].color : p \in mine}
      BY <1>2 DEF RemoveClient, RoomType
    <2>3. Seats(h) = Seats(g) /\ g.state # "IDLE"
      BY <2>1, <2>2 DEF Seats
    <2>4. g.members \in [Slots -> Clients \cup {Nobody}]
      BY DEF RoomType
    <2> HIDE DEF h, rid
    <2>5. \A i \in Seated(g) : i # rid => i \in Seated(h)
      BY <2>1, <2>2, <2>3, <2>4 DEF Seated
    <2>6. \A i \in Seated(h) : i \in Seated(g) /\ i # rid
      BY <2>1, <2>2, <2>3, <2>4 DEF Seated
    <2>7. \A p \in Seats(g) :
            h.players[p] = IF g.players[p].owner = rid THEN NoPlayer ELSE g.players[p]
      BY <2>1, <2>2
    <2>8. \A p \in Seats(g) :
            /\ g.players[p].owner = rid => h.players[p].owner = ItemEmpty
            /\ g.players[p].owner # rid => h.players[p] = g.players[p]
      BY <2>7 DEF NoPlayer
    <2>9. \A p : /\ p \in Owned(h) <=> p \in Owned(g) /\ p \notin mine
                 /\ p \in mine => p \in Owned(g)
                 /\ p \in Owned(h) => h.players[p] = g.players[p]
      <3>1. \A p : p \in Owned(h) <=> p \in Seats(g) /\ h.players[p].owner # ItemEmpty
        BY <2>3, OwnedPlayers
      <3>2. \A p : p \in Owned(g) <=> p \in Seats(g) /\ g.players[p].owner # ItemEmpty
        BY OwnedPlayers
      <3> QED
        BY <1>2, <2>8, <3>1, <3>2
    <2>10. ASSUME Plays(g)
           PROVE  Plays(h)
      <3>1. \A p \in Seats(h) : h.players[p].owner \in Seated(h) \cup {ItemEmpty}
        BY <2>3, <2>5, <2>8, <2>10 DEF Plays
      <3>2. \A i \in Seated(h) : \E p \in Seats(h) : h.players[p].owner = i
        BY <2>3, <2>6, <2>8, <2>10 DEF Plays
      <3> QED
        BY <3>1, <3>2 DEF Plays
    <2>11. ASSUME Painted(g)
           PROVE  \A p, q \in Owned(h) : p # q => h.players[p].color # h.players[q].color
      BY <2>9, <2>11 DEF Painted
    <2>12. ASSUME Painted(g)
           PROVE  h.usedColors = {h.players[p].color : p \in Owned(h)}
      <3> HIDE DEF mine
      <3>1. h.usedColors =
              {g.players[p].color : p \in Owned(g)} \ {g.players[p].color : p \in mine}
        BY <2>2, <2>3, <2>12 DEF Painted
      <3>2. \A k : k \in {h.players[p].color : p \in Owned(h)} <=>
              k \in {g.players[p].color : p \in Owned(g)} \ {g.players[p].color : p \in mine}
        <4>1. ASSUME NEW k, k \in {h.players[p].color : p \in Owned(h)}
              PROVE  k \in {g.players[p].color : p \in Owned(g)} \ {g.players[p].color : p \in mine}
          <5>1. PICK p \in Owned(h) : k = h.players[p].color
            BY <4>1
          <5>2. p \in Owned(g) /\ p \notin mine /\ k = g.players[p].color
            BY <2>9, <5>1
          <5>3. \A q \in mine : g.players[q].color # k
            BY <2>9, <2>12, <5>2 DEF Painted
          <5> QED
            BY <5>2, <5>3
        <4>2. ASSUME NEW k,
                     k \in {g.players[p].color : p \in Owned(g)} \ {g.players[p].color : p \in mine}
              PROVE  k \in {h.players[p].color : p \in Owned(h)}
          <5>1. PICK p \in Owned(g) : k = g.players[p].color
            BY <4>2
          <5>2. p \notin mine
            BY <4>2, <5>1
          <5>3. p \in Owned(h) /\ k = h.players[p].color
            BY <2>9, <5>1, <5>2
          <5> QED
            BY <5>3
        <4> QED
          BY <4>1, <4>2
      <3> QED
        BY <3>1, <3>2
    <2> QED
      BY <2>10, <2>11, <2>12 DEF Painted, h
  <1> QED
    BY <1>1, <1>2

(* Losing a client leaves every player with its client and its color.      *)
LEMMA ClientGonePlayers ==
    ASSUME NEW g \in RoomType, NEW c
    PROVE  /\ Painted(g) => Painted(ClientGone(g, c))
           /\ Plays(g) => Plays(ClientGone(g, c))
  <1> DEFINE left == IF g.state = "LOBBY" THEN RemoveClient(g, c) ELSE g
             led == [left EXCEPT !.leader = First(Eligible(left, c))]
  <1>1. left \in RoomType /\ (Painted(g) => Painted(left)) /\ (Plays(g) => Plays(left))
    BY RemoveClientType, RemoveClientPlayers
  <1>2. ClientGone(g, c) \in {g, left, CleanUp(left), led}
    BY DEF ClientGone
  <1> HIDE DEF left
  <1>3. Painted(CleanUp(left)) /\ Plays(CleanUp(left))
    BY <1>1, CleanUpType, ClosedRoom
  <1>4. (Painted(left) => Painted(led)) /\ (Plays(left) => Plays(led))
    <2>1. led.members = left.members /\ led.players = left.players
          /\ led.usedColors = left.usedColors /\ led.state = left.state
      BY <1>1 DEF RoomType
    <2> HIDE DEF led
    <2> QED
      BY <1>1, <2>1, SamePlayers, ClosedRoom
  <1> QED
    BY <1>1, <1>2, <1>3, <1>4

(* What attaching a player changes.                                        *)
LEMMA PutPlayerFields ==
    ASSUME NEW g \in RoomType, NEW c, NEW rids
    PROVE  LET p == First(FreePlayerSlots(g))
               h == PutPlayer(g, c, rids)
               new == AttachedPlayer(g, c)
           IN  \/ h = g /\ (FreePlayerSlots(g) = {} \/ ~ClientCanHold(rids, p))
               \/ /\ p \in FreePlayerSlots(g)
                  /\ h.state = g.state /\ h.members = g.members
                  /\ h.players = [g.players EXCEPT ![p] = new]
                  /\ h.usedColors = g.usedColors \cup ({new.color} \ {ItemEmpty})
  <1> DEFINE p == First(FreePlayerSlots(g))
             h == PutPlayer(g, c, rids)
             new == AttachedPlayer(g, c)
  <1>1. p = ItemEmpty => FreePlayerSlots(g) = {}
    BY FirstFits, SetsOfNumbers
  <1>2. p # ItemEmpty => p \in FreePlayerSlots(g)
    BY FirstFits, SetsOfNumbers
  <1>3. CASE p = ItemEmpty \/ ~ClientCanHold(rids, p)
    BY <1>1, <1>3 DEF PutPlayer
  <1>4. CASE p # ItemEmpty /\ ClientCanHold(rids, p)
    <2>1. h = [g EXCEPT !.players[p] = new,
                        !.usedColors = @ \cup ({new.color} \ {ItemEmpty})]
      BY <1>4 DEF PutPlayer
    <2> HIDE DEF h, p, new
    <2> QED
      BY <1>2, <1>4, <2>1 DEF RoomType, h, p, new
  <1> QED
    BY <1>3, <1>4

(* A player that is attached gets a color of its own.                      *)
LEMMA PutPlayerPaints ==
    ASSUME RoomSize <= NumColors, NEW g \in RoomType, NEW c, NEW rids, g.state # "IDLE",
           FindClient(g, c) # ItemEmpty, Painted(g)
    PROVE  Painted(PutPlayer(g, c, rids))
  <1> DEFINE p == First(FreePlayerSlots(g))
             h == PutPlayer(g, c, rids)
             new == AttachedPlayer(g, c)
             rid == FindClient(g, c)
  <1>1. CASE h = g
    BY <1>1
  <1>2. CASE /\ p \in FreePlayerSlots(g)
             /\ h.state = g.state /\ h.members = g.members
             /\ h.players = [g.players EXCEPT ![p] = new]
             /\ h.usedColors = g.usedColors \cup ({new.color} \ {ItemEmpty})
    <2>1. Seats(h) = Seats(g) /\ Seats(g) = Slots /\ p \in Slots
      BY <1>2 DEF Seats, FreePlayerSlots
    <2>2. p \notin Owned(g) /\ Owned(g) \subseteq Slots
      BY <1>2, <2>1 DEF Owned
    <2>3. new.owner = rid /\ new.color = First(Colors \ g.usedColors)
      BY DEF AttachedPlayer
    <2> HIDE DEF new, h, p, rid
    <2>4. new.color \in Colors \ g.usedColors
      <3> DEFINE color == [q \in Slots |-> g.players[q].color]
      <3>1. color \in [Slots -> Colors \cup {ItemEmpty}]
        BY DEF RoomType, PlayerType
      <3>2. Owned(g) \in SUBSET (Slots \ {p})
        BY <2>1, <2>2
      <3> HIDE DEF color
      <3>3. PICK k \in Colors : \A q \in Owned(g) : color[q] # k
        BY <2>1, <3>1, <3>2, ColorLeft
      <3>4. \A q \in Owned(g) : g.players[q].color # k
        BY <2>2, <3>3 DEF color
      <3>5. k \notin g.usedColors
        BY <3>4 DEF Painted
      <3>6. Colors \ g.usedColors # {} /\ Colors \ g.usedColors \subseteq Nat
        BY <3>5, SetsOfNumbers
      <3> QED
        BY <2>3, <3>6, FirstFits
    <2>5. h.usedColors = g.usedColors \cup {new.color}
      BY <1>2, <2>4 DEF Colors, ItemEmpty
    <2>6. g.players \in [Slots -> PlayerType]
      BY DEF RoomType
    <2>7. /\ h.players[p] = new
          /\ \A q \in Slots : q # p => h.players[q] = g.players[q]
      BY <1>2, <2>1, <2>6
    <2>8. \A q : q \in Owned(h) <=> q \in Owned(g) \/ q = p
      <3>1. \A q : q \in Owned(h) <=> q \in Slots /\ h.players[q].owner # ItemEmpty
        BY <2>1, OwnedPlayers
      <3>2. \A q : q \in Owned(g) <=> q \in Slots /\ g.players[q].owner # ItemEmpty
        BY <2>1, OwnedPlayers
      <3>3. h.players[p].owner # ItemEmpty
        BY <2>3, <2>7 DEF rid
      <3> QED
        BY <2>1, <2>7, <3>1, <3>2, <3>3
    <2>9. g.usedColors = {g.players[q].color : q \in Owned(g)}
      BY DEF Painted
    <2>10. \A q \in Owned(g) : q # p /\ h.players[q] = g.players[q]
      BY <2>2, <2>7
    <2>11. h.usedColors = {h.players[q].color : q \in Owned(h)}
      <3>1. \A q \in Owned(h) : h.players[q].color \in h.usedColors
        BY <2>5, <2>7, <2>8, <2>9, <2>10
      <3>2. \A k \in h.usedColors : \E q \in Owned(h) : h.players[q].color = k
        BY <2>5, <2>7, <2>8, <2>9, <2>10
      <3> QED
        BY <3>1, <3>2
    <2>12. \A q \in Owned(g) : h.players[q].color # h.players[p].color
      BY <2>4, <2>7, <2>9, <2>10
    <2>13. \A q, s \in Owned(h) : q # s => h.players[q].color # h.players[s].color
      BY <2>8, <2>10, <2>12 DEF Painted
    <2> QED
      BY <2>11, <2>13 DEF Painted, h
  <1> QED
    BY <1>1, <1>2, PutPlayerFields

(* A client that takes a seat gets a player, and so everybody has one.     *)
LEMMA PutPlayerPlays ==
    ASSUME NEW g \in RoomType, NEW c \in Clients, NEW rids, g.state # "IDLE",
           FindClient(g, c) # ItemEmpty,
           \A p \in Seats(g) : g.players[p].owner \in Seated(g) \cup {ItemEmpty},
           \A i \in Seated(g) : i # FindClient(g, c) => \E p \in Seats(g) : g.players[p].owner = i,
           Plays(g) \/ (FreePlayerSlots(g) # {} /\ \A p \in Slots : ClientCanHold(rids, p))
    PROVE  Plays(PutPlayer(g, c, rids))
  <1> DEFINE p == First(FreePlayerSlots(g))
             h == PutPlayer(g, c, rids)
             new == AttachedPlayer(g, c)
             rid == FindClient(g, c)
  <1>1. CASE h = g /\ (FreePlayerSlots(g) = {} \/ ~ClientCanHold(rids, p))
    <2>1. FreePlayerSlots(g) # {} => p \in Slots
      BY FirstFits, SetsOfNumbers
    <2> QED
      BY <1>1, <2>1
  <1>2. CASE /\ p \in FreePlayerSlots(g)
             /\ h.state = g.state /\ h.members = g.members
             /\ h.players = [g.players EXCEPT ![p] = new]
             /\ h.usedColors = g.usedColors \cup ({new.color} \ {ItemEmpty})
    <2>1. Seats(h) = Seats(g) /\ Seats(g) = Slots /\ p \in Slots
      BY <1>2 DEF Seats, FreePlayerSlots
    <2>2. Seated(h) = Seated(g)
      BY <1>2, <2>1 DEF Seated
    <2>3. new.owner = rid /\ g.players[p].owner = ItemEmpty
      BY <1>2 DEF AttachedPlayer, FreePlayerSlots
    <2>4. g.players \in [Slots -> PlayerType]
      BY DEF RoomType
    <2>5. rid \in Seated(g)
      <3>1. rid \in Seats(g) /\ g.members[rid] = c
        BY FindClientRange
      <3> QED
        BY <3>1 DEF Seated, Clients, Nobody
    <2> HIDE DEF new, h, p, rid
    <2>6. /\ h.players[p].owner = rid
          /\ \A q \in Slots : q # p => h.players[q] = g.players[q]
      BY <1>2, <2>1, <2>3, <2>4
    <2>7. \A q \in Seats(h) : h.players[q].owner \in Seated(h) \cup {ItemEmpty}
      BY <2>1, <2>2, <2>5, <2>6
    <2>8. ASSUME NEW i \in Seated(h), i # rid
          PROVE  \E q \in Seats(h) : h.players[q].owner = i
      <3>1. PICK q \in Seats(g) : g.players[q].owner = i
        BY <2>2, <2>8 DEF rid
      <3>2. i # ItemEmpty
        BY <2>8 DEF Seated, Seats, Slots, ItemEmpty
      <3>3. q # p
        BY <2>3, <3>1, <3>2
      <3> QED
        BY <2>1, <2>6, <3>1, <3>3
    <2>9. \E q \in Seats(h) : h.players[q].owner = rid
      BY <2>1, <2>6
    <2> QED
      BY <2>7, <2>8, <2>9 DEF Plays, h
  <1> QED
    BY <1>1, <1>2, PutPlayerFields

(* A room that is opened has one member and no player.                     *)
LEMMA OpenedPlayers ==
    ASSUME NEW g \in RoomType, NEW c \in Clients
    PROVE  LET o == OpenedBy(g, c)
           IN  /\ o \in RoomType /\ o.state = "LOBBY" /\ FindClient(o, c) # ItemEmpty
               /\ \A i \in Seated(o) : i = FindClient(o, c)
               /\ FreePlayerSlots(o) = Slots /\ Slots # {}
               /\ \A p \in Slots : o.players[p].owner = ItemEmpty
               /\ Painted(o)
  <1> DEFINE init == [CleanUp(g) EXCEPT !.state = "LOBBY", !.usedColors = {}]
             put == PutMember(init, c)
             lead == FindClient(put, c)
             o == [put EXCEPT !.leader = lead]
  <1>1. /\ init \in RoomType /\ init.state = "LOBBY"
        /\ init.members = [i \in Slots |-> Nobody]
        /\ init.players = [p \in Slots |-> NoPlayer] /\ init.usedColors = {}
    BY CleanUpType DEF RoomType, RoomStates, CleanUp
  <1>2. OpenedBy(g, c) = o
    BY DEF OpenedBy
  <1> HIDE DEF init
  <1>3. put \in RoomType /\ put.state = "LOBBY" /\ lead \in Slots
        /\ \A i \in Slots : put.members[i] # Nobody => i = lead
    BY <1>1, PutMemberType, NewRoomSeatsCreator
  <1>4. put.players = init.players /\ put.usedColors = init.usedColors
    BY <1>1 DEF PutMember, RoomType
  <1> HIDE DEF put, lead
  <1>5. o \in RoomType /\ o.state = "LOBBY" /\ o.members = put.members
        /\ o.players = init.players /\ o.usedColors = {}
    BY <1>1, <1>3, <1>4 DEF RoomType
  <1> HIDE DEF o
  <1>6. Seats(o) = Slots /\ Seats(put) = Slots
    BY <1>3, <1>5 DEF Seats
  <1>7. FindClient(o, c) = lead
    BY <1>5, <1>6 DEF FindClient, lead
  <1>8. \A i \in Seated(o) : i = lead
    BY <1>3, <1>5, <1>6 DEF Seated
  <1>9. lead # ItemEmpty /\ Slots # {}
    BY <1>3 DEF Slots, ItemEmpty
  <1>10. \A p \in Slots : o.players[p].owner = ItemEmpty
    BY <1>1, <1>5 DEF NoPlayer
  <1>11. FreePlayerSlots(o) = Slots
    BY <1>6, <1>10 DEF FreePlayerSlots
  <1>12. Owned(o) = {}
    BY <1>6, <1>11 DEF Owned
  <1>13. Painted(o)
    BY <1>5, <1>12 DEF Painted
  <1> QED
    BY <1>2, <1>5, <1>7, <1>8, <1>9, <1>10, <1>11, <1>13

(* A new room is painted, and its creator plays.                           *)
LEMMA CreatedPlayers ==
    ASSUME NEW g \in RoomType, NEW c \in Clients, NEW rids \in [ClientSlots -> RIDs]
    PROVE  LET h == PutPlayer(OpenedBy(g, c), c, rids)
           IN  /\ RoomSize <= NumColors => Painted(h)
               /\ RoomSize <= PlayersPerClient /\ Distinct(rids) => Plays(h)
  <1> DEFINE o == OpenedBy(g, c)
  <1>1. /\ o \in RoomType /\ o.state # "IDLE" /\ FindClient(o, c) # ItemEmpty
        /\ \A i \in Seated(o) : i = FindClient(o, c)
        /\ FreePlayerSlots(o) = Slots /\ Slots # {}
        /\ \A p \in Slots : o.players[p].owner = ItemEmpty
        /\ Painted(o)
    BY OpenedPlayers
  <1> HIDE DEF o
  <1>2. RoomSize <= NumColors => Painted(PutPlayer(o, c, rids))
    BY <1>1, PutPlayerPaints
  <1>3. ASSUME RoomSize <= PlayersPerClient, Distinct(rids)
        PROVE  Plays(PutPlayer(o, c, rids))
    <2>1. \A p \in Slots : ClientCanHold(rids, p)
      BY <1>3, CanHoldAny
    <2>2. \A p \in Seats(o) : o.players[p].owner \in Seated(o) \cup {ItemEmpty}
      BY <1>1, SetsOfNumbers
    <2>3. \A i \in Seated(o) : i # FindClient(o, c) => \E p \in Seats(o) : o.players[p].owner = i
      BY <1>1
    <2> QED
      BY <1>1, <2>1, <2>2, <2>3, PutPlayerPlays
  <1> QED
    BY <1>2, <1>3 DEF o

(* Taking a seat leaves the players to their clients.                      *)
LEMMA PutMemberPlayers ==
    ASSUME NEW g \in RoomType, NEW c \in Clients, g.state # "IDLE", HasOpenSlots(g)
    PROVE  LET j == PutMember(g, c)
           IN  /\ j \in RoomType /\ j.state = g.state /\ FindClient(j, c) # ItemEmpty
               /\ j.players = g.players /\ j.usedColors = g.usedColors
               /\ FreePlayerSlots(j) = FreePlayerSlots(g) /\ Seats(j) = Seats(g)
               /\ \A i \in Seated(g) : i \in Seated(j)
               /\ \A i \in Seated(j) : i # FindClient(j, c) => i \in Seated(g)
               /\ FindClient(g, c) # ItemEmpty => j = g
  <1> DEFINE free == First(Seats(g) \ Seated(g))
             j == PutMember(g, c)
             rid == FindClient(j, c)
  <1>1. j \in RoomType /\ j.state = g.state
    BY PutMemberType
  <1>2. \A i \in Seated(g) : i \in Seated(j)
    BY PutMemberKeepsOthers
  <1>3. FindClient(g, c) # ItemEmpty => j = g
    BY DEF PutMember
  <1>4. j.players = g.players /\ j.usedColors = g.usedColors
    BY DEF PutMember, RoomType
  <1>5. Seats(j) = Seats(g) /\ Seats(g) = Slots
    BY <1>1 DEF Seats
  <1>6. FreePlayerSlots(j) = FreePlayerSlots(g)
    BY <1>4, <1>5 DEF FreePlayerSlots
  <1>7. rid # ItemEmpty /\ \A i \in Seated(j) : i # rid => i \in Seated(g)
    <2>1. CASE FindClient(g, c) # ItemEmpty
      BY <1>3, <2>1
    <2>2. CASE FindClient(g, c) = ItemEmpty
      <3>1. free \in Seats(g) \ Seated(g)
        <4>1. Seats(g) \ Seated(g) # {} /\ Seats(g) \ Seated(g) \subseteq Nat
          BY SetsOfNumbers DEF HasOpenSlots, Seated
        <4> QED
          BY <4>1, FirstFits
      <3>2. free \in Slots /\ free # ItemEmpty
        BY <1>5, <3>1 DEF Slots, ItemEmpty
      <3>3. j = [g EXCEPT !.members[free] = c]
        BY <2>2, <3>2 DEF PutMember
      <3>4. \A i \in Seats(g) : g.members[i] # c
        BY <2>2, FindClientRange
      <3>5. rid # ItemEmpty => rid \in Seats(j) /\ j.members[rid] = c
        BY FindClientRange
      <3>6. rid = ItemEmpty => \A i \in Seats(j) : j.members[i] # c
        BY FindClientRange
      <3> HIDE DEF free, j, rid
      <3>7. j.members = [g.members EXCEPT ![free] = c]
            /\ g.members \in [Slots -> Clients \cup {Nobody}]
        BY <3>3 DEF RoomType
      <3>8. j.members[free] = c /\ \A i \in Slots : i # free => j.members[i] = g.members[i]
        BY <3>2, <3>7
      <3>9. rid = free
        BY <1>5, <3>2, <3>4, <3>5, <3>6, <3>8
      <3> QED
        BY <1>5, <3>2, <3>8, <3>9 DEF Seated
    <2> QED
      BY <2>1, <2>2
  <1> QED
    BY <1>1, <1>2, <1>3, <1>4, <1>5, <1>6, <1>7

(* A room that is joined stays painted, and who joins it plays.            *)
LEMMA JoinedPlayers ==
    ASSUME NEW g \in RoomType, NEW c \in Clients, NEW rids \in [ClientSlots -> RIDs],
           g.state # "IDLE", HasOpenSlots(g)
    PROVE  LET h == PutPlayer(PutMember(g, c), c, rids)
           IN  /\ RoomSize <= NumColors /\ Painted(g) => Painted(h)
               /\ RoomSize <= PlayersPerClient /\ Distinct(rids) /\ Plays(g) => Plays(h)
  <1> DEFINE j == PutMember(g, c)
             rid == FindClient(j, c)
  <1>1. /\ j \in RoomType /\ j.state = g.state /\ rid # ItemEmpty
        /\ j.players = g.players /\ j.usedColors = g.usedColors
        /\ FreePlayerSlots(j) = FreePlayerSlots(g) /\ Seats(j) = Seats(g)
        /\ \A i \in Seated(g) : i \in Seated(j)
        /\ \A i \in Seated(j) : i # rid => i \in Seated(g)
    BY PutMemberPlayers
  <1> HIDE DEF j
  <1>2. Painted(g) => Painted(j)
    BY <1>1 DEF Painted, Owned
  <1>3. RoomSize <= NumColors /\ Painted(g) => Painted(PutPlayer(j, c, rids))
    BY <1>1, <1>2, PutPlayerPaints
  <1>4. ASSUME RoomSize <= PlayersPerClient, Distinct(rids), Plays(g)
        PROVE  Plays(PutPlayer(j, c, rids))
    <2>1. \A p \in Slots : ClientCanHold(rids, p)
      BY <1>4, CanHoldAny
    <2>2. FreePlayerSlots(j) # {}
      BY <1>1 DEF HasOpenSlots
    <2>3. \A p \in Seats(j) : j.players[p].owner \in Seated(j) \cup {ItemEmpty}
      BY <1>1, <1>4 DEF Plays
    <2>4. \A i \in Seated(j) : i # rid => \E p \in Seats(j) : j.players[p].owner = i
      BY <1>1, <1>4 DEF Plays
    <2> QED
      BY <1>1, <2>1, <2>2, <2>3, <2>4, PutPlayerPlays
  <1> QED
    BY <1>3, <1>4 DEF j

-----------------------------------------------------------------------------
(* Every step keeps both properties of every room.                         *)

(* The lists of the clients in use name no player twice, for none of them  *)
(* is ever cleared but with its client.                                    *)
RidsDistinct == \A c \in Clients : cli[c].status # "EMPTY" => Distinct(cli[c].playerRids)

(* What a step does to the players of a room.                              *)
LEMMA PlayersStep ==
    ASSUME TypeOK, InUse, [Next]_vars, NEW r \in Rooms
    PROVE  /\ RoomSize <= NumColors /\ Painted(rooms[r]) => Painted(rooms'[r])
           /\ RoomSize <= PlayersPerClient /\ RidsDistinct /\ Plays(rooms[r])
                => Plays(rooms'[r])
  <1> DEFINE g == rooms[r]
             h == rooms'[r]
  <1>0. TablesOK /\ g \in RoomType
    BY DEF TypeOK, TablesOK
  <1>1. ASSUME NEW c \in Clients, LostBy(c, r)
        PROVE  (Painted(g) => Painted(h)) /\ (Plays(g) => Plays(h))
    <2> DEFINE gone == ClientGone(g, c)
    <2>1. gone \in RoomType
      BY <1>0, ClientGoneType
    <2>2. (Painted(g) => Painted(gone)) /\ (Plays(g) => Plays(gone))
      BY <1>0, ClientGonePlayers
    <2>3. /\ Painted(gone) => Painted(RemoveClient(gone, c))
          /\ Plays(gone) => Plays(RemoveClient(gone, c))
      <3> HIDE DEF gone
      <3> QED
        BY <2>1, RemoveClientPlayers
    <2>4. h = gone \/ h = RemoveClient(gone, c)
      BY <1>0, <1>1, LostRoom
    <2> HIDE DEF gone
    <2> QED
      BY <2>2, <2>3, <2>4
  <1>2. ASSUME NEW c \in Clients, FromClient(c)
        PROVE  /\ cli[c].playerRids \in [ClientSlots -> RIDs]
               /\ RidsDistinct => Distinct(cli[c].playerRids)
    BY <1>0, <1>2, RoomOfClient DEF InUse, FromClient, RidsDistinct
  <1>3. ASSUME NEW c \in Clients, CreatedBy(c, r)
        PROVE  /\ RoomSize <= NumColors => Painted(h)
               /\ RoomSize <= PlayersPerClient /\ RidsDistinct => Plays(h)
    <2>1. /\ cli[c].playerRids \in [ClientSlots -> RIDs]
          /\ RidsDistinct => Distinct(cli[c].playerRids)
      BY <1>2, <1>3 DEF CreatedBy, CmdCreate
    <2>2. h = PutPlayer(OpenedBy(g, c), c, cli[c].playerRids)
      BY <1>3 DEF CreatedBy
    <2> QED
      BY <1>0, <2>1, <2>2, CreatedPlayers
  <1>4. ASSUME NEW c \in Clients, CmdJoin(c, r)
        PROVE  /\ RoomSize <= NumColors /\ Painted(g) => Painted(h)
               /\ RoomSize <= PlayersPerClient /\ RidsDistinct /\ Plays(g) => Plays(h)
    <2>1. /\ cli[c].playerRids \in [ClientSlots -> RIDs]
          /\ RidsDistinct => Distinct(cli[c].playerRids)
      BY <1>2, <1>4 DEF CmdJoin
    <2>2. h = PutPlayer(PutMember(g, c), c, cli[c].playerRids) /\ g.state = "LOBBY"
      BY <1>0, <1>4, JoinedRoom
    <2>3. HasOpenSlots(g)
      BY <1>4 DEF CmdJoin
    <2> QED
      BY <1>0, <2>1, <2>2, <2>3, JoinedPlayers
  <1>5. ASSUME RestatedIn(r)
        PROVE  (Painted(g) => Painted(h)) /\ (Plays(g) => Plays(h))
    <2>1. /\ g.state # "IDLE" /\ h.state # "IDLE" /\ h.members = g.members
          /\ h.players = g.players /\ h.usedColors = g.usedColors
      BY <1>0, <1>5 DEF RestatedIn, Restated, RoomType
    <2> QED
      BY <2>1, SamePlayers
  <1> QED
    BY <1>1, <1>3, <1>4, <1>5, RoomSteps DEF RoomStep

(* Every step keeps the entries of the lists apart.                        *)
LEMMA RidsDistinctKept ==
    ASSUME TypeOK, InUse, RidsDistinct, [Next]_vars
    PROVE  RidsDistinct'
  <1>0. TablesOK /\ cli \in [Clients -> ClientType]
    BY DEF TypeOK, TablesOK
  <1>1. SUFFICES ASSUME NEW d \in Clients, cli'[d].status # "EMPTY"
                 PROVE  Distinct(cli'[d].playerRids)
    BY DEF RidsDistinct, Distinct
  <1>2. cli[d] \in ClientType /\ cli[d].playerRids \in [ClientSlots -> RIDs]
    BY <1>0, RoomOfClient
  <1>3. cli[d].status # "EMPTY" => Distinct(cli[d].playerRids)
    BY DEF RidsDistinct
  <1>4. Distinct(WipedClient.playerRids)
    BY DEF Distinct, WipedClient
  <1>5. ASSUME cli'[d].playerRids = cli[d].playerRids, cli[d].status # "EMPTY"
        PROVE  Distinct(cli'[d].playerRids)
    BY <1>3, <1>5
  <1>6. CASE cli'[d] = cli[d]
    BY <1>1, <1>5, <1>6
  <1>7. CASE Reintroduce(d) /\ cli[d].status = "DISCONNECTED"
    <2>1. cli'[d].playerRids = cli[d].playerRids
      BY <1>0, <1>2, <1>7 DEF Reintroduce, ClientType
    <2> QED
      BY <1>5, <1>7, <2>1
  <1>8. CASE ConnLost(d)
    <2>1. cli'[d].playerRids = cli[d].playerRids /\ cli[d].conn
      BY <1>0, <1>2, <1>8 DEF ConnLost, ClientType
    <2> QED
      BY <1>5, <2>1 DEF InUse
  <1>9. CASE Disconnect(d) /\ WasThere(d)
    <2>1. cli[d].status # "EMPTY"
      BY <1>9 DEF WasThere, InUse
    <2>2. cli'[d] = WipedClient \/ cli'[d].playerRids = cli[d].playerRids
      BY <1>0, <1>9, DisconnectStatus
    <2> QED
      BY <1>4, <1>5, <2>1, <2>2
  <1>10. CASE SeatingBy(d)
    <2>1. cli[d].status # "EMPTY"
      BY <1>10 DEF SeatingBy, CmdCreate, CmdLeave, CmdJoin, FromClient, InUse
    <2>2. \E r, g : \/ cli' = [cli EXCEPT ![d].roomId = r,
                            ![d].playerRids = RidsWith(@, First(FreePlayerSlots(g)))]
                    \/ cli' = [cli EXCEPT ![d].roomId = r]
      BY <1>10 DEF SeatingBy, CmdCreate, CmdLeave, CmdJoin
    <2>3. \E g : \/ cli'[d].playerRids = RidsWith(cli[d].playerRids, First(FreePlayerSlots(g)))
                 \/ cli'[d].playerRids = cli[d].playerRids
      BY <1>0, <1>2, <2>2 DEF ClientType
    <2>4. \A g : Distinct(RidsWith(cli[d].playerRids, First(FreePlayerSlots(g))))
      BY <1>2, <1>3, <2>1, FirstFreePlayer, RidsWithDistinct
    <2> QED
      BY <1>5, <2>1, <2>3, <2>4
  <1>11. ASSUME NEW r \in Rooms, Told(r)
         PROVE  Distinct(cli'[d].playerRids)
    <2>1. PICK g : cli' = ClientsInState(g, rooms'[r].state)
      BY <1>11 DEF Told
    <2>2. /\ cli'[d].playerRids = cli[d].playerRids
          /\ \/ cli'[d].status = cli[d].status
             \/ {cli'[d].status, cli[d].status} \cap {"EMPTY", "DISCONNECTED"} = {}
      BY <1>0, <2>1, ClientsInStateStatus
    <2> QED
      BY <1>1, <1>5, <2>2
  <1> QED
    BY <1>4, <1>6, <1>7, <1>8, <1>9, <1>10, <1>11, ClientSteps DEF ClientStep

(* The two properties, taken apart room by room.                           *)
LEMMA PlayersByRoom ==
    /\ ColorsAccounted <=> \A r \in Rooms : Painted(rooms[r])
    /\ MembersPlay <=> \A r \in Rooms : Plays(rooms[r])
  BY DEF ColorsAccounted, MembersPlay, Painted, Plays, Owned

(* With no fewer colors than a room has players (13 and 2 in the code),    *)
(* the colors in use are those of the players in the room, each one's own: *)
(* first_unused always finds one, and leaving gives the color back.        *)
THEOREM ColorsAlwaysAccounted ==
    ASSUME RoomSize <= NumColors
    PROVE  Spec => []ColorsAccounted
  <1>1. Init => ColorsAccounted
    BY DEF Init, ColorsAccounted, Seats
  <1>2. TypeOK /\ SeatsInv /\ ColorsAccounted /\ [Next]_vars => ColorsAccounted'
    <2>1. SUFFICES ASSUME TypeOK, InUse, ColorsAccounted, [Next]_vars, NEW r \in Rooms
                   PROVE  Painted(rooms'[r])
      BY DEF ColorsAccounted, Painted, Owned, SeatsInv, Seats, FreePlayerSlots
    <2> QED
      BY <2>1, PlayersStep, PlayersByRoom
  <1> QED
    BY <1>1, <1>2, TypeCorrect, SeatsInvariant, PTL DEF Spec

(* With no fewer places in a client's list than a room has players (2 and  *)
(* 2 in the code), whoever is in a room has a player and every player      *)
(* belongs to somebody in the room, although the lists are never cleared:  *)
(* engine_game_room_put_player never gives up after the client was seated. *)
THEOREM MembersAlwaysPlay ==
    ASSUME RoomSize <= PlayersPerClient
    PROVE  Spec => []MembersPlay
  <1>1. Init => RidsDistinct /\ MembersPlay
    BY DEF Init, RidsDistinct, MembersPlay, Seated, Seats
  <1>2. TypeOK /\ SeatsInv /\ (RidsDistinct /\ MembersPlay) /\ [Next]_vars
          => (RidsDistinct /\ MembersPlay)'
    <2>1. ASSUME TypeOK, InUse, RidsDistinct, MembersPlay, [Next]_vars
          PROVE  MembersPlay'
      <3>1. SUFFICES ASSUME NEW r \in Rooms PROVE Plays(rooms'[r])
        BY DEF MembersPlay, Plays, Seated, Seats
      <3> QED
        BY <2>1, PlayersStep, PlayersByRoom
    <2> QED
      BY <2>1, RidsDistinctKept DEF SeatsInv
  <1> QED
    BY <1>1, <1>2, TypeCorrect, SeatsInvariant, PTL DEF Spec
=============================================================================
