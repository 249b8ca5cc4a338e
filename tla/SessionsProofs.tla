--------------------------- MODULE SessionsProofs ---------------------------
(***************************************************************************)
(* What the tables of Sessions keep for every number of descriptors and    *)
(* clients: their types however the threads interleave, and, as long as    *)
(* handlers do not overlap, that connections and clients are never         *)
(* crossed, that a handler finds its client's connection and that what is  *)
(* open is live and watched, except what a second closing clears.          *)
(***************************************************************************)
EXTENDS Sessions, SequenceTheorems, WellFoundedInduction, TLAPS

(* The strengthening.  With no handlers overlapping, one thread is between *)
(* handlers; a client being bound is in the map and not in use; and until  *)
(* a connection is closed twice, the map and the clients agree both ways   *)
(* except for the entry being bound, and the engine's handlers work on the *)
(* connection of their client.                                             *)
Exclusive == BetweenHandlers("net") \/ BetweenHandlers("engine")

EngineAt(pcs) == thread["engine"].pc \in pcs
Working == thread["engine"].client

BindMapped ==
    EngineAt({"bind"}) =>
      /\ thread["engine"].fd \in Fds
      /\ conToCli[thread["engine"].fd] = Working
      /\ cli[Working].status # "CONNECTED"

MapHolds ==
    \A fd \in Fds : conToCli[fd] # Empty =>
      cli[conToCli[fd]].conn = fd \/ (EngineAt({"bind"}) /\ thread["engine"].fd = fd)

UnusedUnconnected ==
    \A c \in Clients : cli[c].status # "CONNECTED" => cli[c].conn = Empty

HandlerConnected ==
    /\ EngineAt({"answer", "exit", "refuse"}) => cli[Working].conn # Empty
    /\ Working \in Clients =>
         /\ EngineAt({"close", "unlink"}) => cli[Working].conn = thread["engine"].fd
         /\ EngineAt({"forget", "leave"}) => cli[Working].conn = Empty
    /\ ~Crashed

SessionsInv ==
    /\ TypeOK
    /\ Exclusive
    /\ ConnKnown
    /\ BindMapped
    /\ ~closedTwice => MapHolds /\ UnusedUnconnected /\ HandlerConnected

-----------------------------------------------------------------------------
(* There is a lowest descriptor, or client, in every set of them.          *)
LEMMA LowestIn ==
    ASSUME NEW S, S \subseteq Nat, S # {}
    PROVE  Lowest(S) \in S
  <1> DEFINE Less == OpToRel(<, Nat)
  <1>1. IsWellFoundedOn(Less, Nat)
    BY NatLessThanWellFounded
  <1>2. \A x, y \in Nat : <<y, x>> \in Less <=> y < x
    BY DEF OpToRel
  <1> HIDE DEF Less
  <1>3. PICK x \in S : \A y \in S : ~(<<y, x>> \in Less)
    BY <1>1, WFMin
  <1>4. x \in Nat /\ \A y \in S : y \in Nat
    OBVIOUS
  <1>5. \A y \in S : ~(y < x)
    BY <1>2, <1>3, <1>4
  <1>6. \A y \in S : x <= y
    BY <1>4, <1>5
  <1> QED
    BY <1>6 DEF Lowest

(* Descriptors and clients are numbers, and none of them is Empty.         *)
LEMMA Numbers ==
    /\ Fds \subseteq Nat /\ Clients \subseteq Nat /\ 1 \in Clients
    /\ Empty \notin Fds /\ Empty \notin Clients
    /\ Exiting \notin Clients /\ Exiting # Empty
  BY SessionsAssumption DEF Fds, Clients, Empty, Exiting

(* The loop that shuts down goes from each descriptor to the next.         *)
LEMMA NextFd ==
    /\ 1 \in Fds
    /\ \A fd \in Fds \cup {Empty, NumFds + 1} : PastLast(fd) \/ fd = Empty \/ fd \in Fds
    /\ \A fd \in Fds \cup {Empty} : fd + 1 \in Fds \cup {NumFds + 1}
  BY SessionsAssumption DEF Fds, Empty, PastLast

-----------------------------------------------------------------------------
(* Type correctness: whatever the overlap of the two threads, no table and *)
(* no handler leaves the descriptors and clients there are.                *)
LEMMA InitType == Init => TypeOK
  <1> SUFFICES ASSUME Init PROVE TypeOK
    OBVIOUS
  <1>1. /\ open \subseteq Fds /\ live \subseteq Fds /\ watched \subseteq Fds
        /\ ready \subseteq Fds
        /\ conToCli \in [Fds -> Clients \cup {Empty}]
        /\ beforeMap \in Clients \cup {Empty}
        /\ cli \in [Clients -> [status: Statuses, conn: Fds \cup {Empty}]]
        /\ closedTwice \in BOOLEAN
    BY DEF Init, Statuses
  <1>4. queue \in Seq(Command)
    BY EmptySeq DEF Init
  <1>2. accepted \in 0 .. MaxAccepts
    BY SessionsAssumption DEF Init
  <1>3. /\ thread["net"] = [pc |-> "serve", fd |-> Empty, client |-> Empty]
        /\ thread["engine"] = [pc |-> "check", fd |-> Empty, client |-> 1]
        /\ thread = [t \in Threads |-> thread[t]]
    BY DEF Init, Threads
  <1> QED
    BY <1>1, <1>2, <1>3, <1>4, Numbers DEF TypeOK, Threads, NetPCs, EnginePCs

(* Closing a connection, by either thread, keeps the types.                *)
LEMMA CloseType ==
    ASSUME TypeOK, NEW t \in Threads, Close(t)
    PROVE  TypeOK'
  <1> USE DEF TypeOK, Threads, Go, At, NetPCs, EnginePCs, tables
  <1>1. CASE CloseSocket(t)
    BY <1>1 DEF CloseSocket
  <1>2. CASE Unlink(t)
    <2>1. Unbound(Owner(thread[t].fd)) \in [Clients -> [status: Statuses, conn: Fds \cup {Empty}]]
      BY DEF Unbound
    <2>2. /\ ClearedMap(thread[t].fd) \in [Fds -> Clients \cup {Empty}]
          /\ ClearedSet(thread[t].fd) \subseteq Fds
      BY DEF ClearedMap, ClearedSet
    <2> QED
      BY <1>2, <2>1, <2>2 DEF Unlink
  <1>3. CASE Forget(t)
    <2>1. /\ thread[t].fd \in Fds \cup {Empty}
          /\ live' \subseteq Fds
          /\ UNCHANGED <<open, watched, ready, conToCli, beforeMap, cli, queue, accepted, closedTwice>>
      BY <1>3 DEF Forget
    <2>2. thread[t].fd + 1 \in Fds \cup {NumFds + 1}
      BY <2>1, NextFd
    <2>3. CASE t = "net"
      BY <1>3, <2>1, <2>3 DEF Forget
    <2>4. CASE t = "engine"
      <3> DEFINE pc == thread'["engine"].pc
      <3>1. \/ Go("engine", "take", Empty, Empty)
            \/ /\ thread["engine"].client \in Clients
               /\ Go("engine", "leave", Empty, thread["engine"].client)
            \/ Go("engine", "shut", thread["engine"].fd + 1, Empty)
        BY <1>3, <2>4 DEF Forget
      <3> QED
        BY <2>1, <2>2, <2>4, <3>1
    <2> QED
      BY <2>3, <2>4
  <1> QED
    BY <1>1, <1>2, <1>3 DEF Close

(* The network thread's steps keep the types.                              *)
LEMMA NetType ==
    ASSUME TypeOK, Net
    PROVE  TypeOK'
  <1> USE DEF TypeOK, Threads, Go, At, Starts, NetPCs, EnginePCs, tables
  <1>1. CASE NetCopySet
    BY <1>1 DEF NetCopySet
  <1>2. CASE NetSelect
    BY <1>2 DEF NetSelect
  <1>3. CASE NetAccept
    <2>1. Lowest(Fds \ open) \in Fds \ open
      BY <1>3, Numbers, LowestIn DEF NetAccept
    <2> QED
      BY <1>3, <2>1, SessionsAssumption DEF NetAccept
  <1>4. CASE NetRegister
    BY <1>4 DEF NetRegister
  <1>5. CASE NetNoAccept
    BY <1>5 DEF NetNoAccept
  <1>6. CASE NetRead
    <2>1. Lowest(ready) \in Fds
      BY <1>6, Numbers, LowestIn DEF NetRead
    <2>2. queue' \in Seq(Command)
      <3>0. CASE UNCHANGED queue
        BY <3>0
      <3> SUFFICES ASSUME ~UNCHANGED queue PROVE queue' \in Seq(Command)
        BY <3>0
      <3>1. PICK kind \in Kinds :
              queue' = Append(queue, [fd |-> Lowest(ready), kind |-> kind])
        BY <1>6 DEF NetRead
      <3>2. [fd |-> Lowest(ready), kind |-> kind] \in Command
        BY <2>1 DEF Command
      <3> QED
        BY <3>1, <3>2
    <2>3. ready' \subseteq Fds
      BY <1>6 DEF NetRead
    <2> QED
      BY <1>6, <2>2, <2>3 DEF NetRead
  <1>7. CASE NetReadFails
    <2>1. Lowest(ready) \in Fds
      BY <1>7, Numbers, LowestIn DEF NetReadFails
    <2> QED
      BY <1>7, <2>1 DEF NetReadFails
  <1>8. CASE NetEnd
    BY <1>8 DEF NetEnd
  <1>9. CASE Close("net")
    BY <1>9, CloseType
  <1> QED
    BY <1>1, <1>2, <1>3, <1>4, <1>5, <1>6, <1>7, <1>8, <1>9 DEF Net

(* A client that is gone is still one of the clients.                      *)
LEMMA GoneType ==
    ASSUME TypeOK, NEW c, Gone(c)
    PROVE  cli' \in [Clients -> [status: Statuses, conn: Fds \cup {Empty}]]
  BY DEF TypeOK, Gone, Statuses

(* The engine's steps keep the types.                                      *)
LEMMA EngineType ==
    ASSUME TypeOK, Engine
    PROVE  TypeOK'
  <1> USE DEF TypeOK, Threads, Go, At, Starts, NetPCs, EnginePCs, tables
  <1>0. ASSUME queue # <<>>
        PROVE  Head(queue) \in Command /\ Tail(queue) \in Seq(Command)
               /\ Head(queue).fd \in Fds
    <2>1. queue \in Seq(Command)
      OBVIOUS
    <2>2. Head(queue) \in Command /\ Tail(queue) \in Seq(Command)
      BY <1>0, <2>1, HeadTailProperties
    <2> QED
      BY <2>2 DEF Command
  <1>1. CASE EngCheck
    <2>1. cli' \in [Clients -> [status: Statuses, conn: Fds \cup {Empty}]]
      BY <1>1, GoneType DEF EngCheck
    <2>2. Working \in Clients
      BY <1>1 DEF EngCheck, Working
    <2>3. Working < NumClients => Working + 1 \in Clients
      BY <2>2, SessionsAssumption DEF Clients
    <2> QED
      BY <1>1, <2>1, <2>2, <2>3 DEF EngCheck, NextCheck, Working
  <1>2. CASE EngTick
    BY <1>2, Numbers DEF EngTick
  <1>3. CASE EngAuthorize
    <2>1. Free \subseteq Clients /\ Away \subseteq Clients
      BY DEF Free, Away
    <2>2. Candidates \subseteq Clients
      BY <2>1, Numbers, LowestIn DEF Candidates
    <2> QED
      BY <1>0, <1>3, <2>2 DEF EngAuthorize, EngTake, MapTo
  <1>4. CASE EngBind
    BY <1>4 DEF EngBind, Statuses
  <1>5. CASE EngReject
    BY <1>0, <1>5 DEF EngReject, EngTake
  <1>6. CASE EngCommand
    <2>1. PICK c \in Clients :
            /\ queue # <<>> /\ queue' = Tail(queue)
            /\ \E pc \in {"answer", "exit", "refuse"} : Go("engine", pc, Empty, c)
      BY <1>6 DEF EngCommand, EngTake
    <2>2. queue' \in Seq(Command)
      BY <1>0, <2>1
    <2> QED
      BY <1>6, <2>1, <2>2 DEF EngCommand
  <1>7. CASE EngUse
    <2>1. Working \in Clients /\ cli[Working].conn \in Fds \cup {Empty}
      BY <1>7 DEF EngUse, Working
    <2> QED
      BY <1>7, <2>1 DEF EngUse, Working
  <1>8. CASE EngLeave
    <2>1. cli' \in [Clients -> [status: Statuses, conn: Fds \cup {Empty}]]
      BY <1>8, GoneType DEF EngLeave
    <2> QED
      BY <1>8, <2>1 DEF EngLeave
  <1>9. CASE EngExit
    BY <1>9, NextFd DEF EngExit
  <1>10. CASE EngShut
    BY <1>10, NextFd DEF EngShut
  <1>11. CASE Close("engine")
    BY <1>11, CloseType
  <1> QED
    BY <1>1, <1>2, <1>3, <1>4, <1>5, <1>6, <1>7, <1>8, <1>9, <1>10, <1>11 DEF Engine

(* Every step keeps the types.                                             *)
LEMMA TypeStep == TypeOK /\ [Next]_vars => TypeOK'
  <1>1. TypeOK /\ UNCHANGED vars => TypeOK'
    BY DEF TypeOK, vars, tables
  <1> QED
    BY <1>1, NetType, EngineType DEF Next

(* Every descriptor, client and command the two threads work on exists,    *)
(* for every number of them and whether or not handlers overlap.           *)
THEOREM TypeCorrect == Spec => []TypeOK
  BY InitType, TypeStep, PTL DEF Spec

-----------------------------------------------------------------------------
(* The invariant.  With no overlap, whichever thread takes a step finds    *)
(* the other between handlers and leaves it there.                         *)
LEMMA OneThreadSteps ==
    ASSUME TypeOK, Exclusive, ~Overlap
    PROVE  /\ Net => /\ BetweenHandlers("engine")
                     /\ thread'["engine"] = thread["engine"]
           /\ Engine => /\ BetweenHandlers("net")
                        /\ thread'["net"] = thread["net"]
  <1>1. thread = [t \in Threads |-> thread[t]]
    BY DEF TypeOK
  <1> USE <1>1 DEF Threads, Go, At, Starts, BetweenHandlers, Exclusive, Other
  <1>2. ASSUME Net
        PROVE  BetweenHandlers("engine") /\ thread'["engine"] = thread["engine"]
    BY <1>2 DEF Net, NetCopySet, NetSelect, NetAccept, NetRegister, NetNoAccept,
                NetRead, NetReadFails, NetEnd, Close, CloseSocket, Unlink, Forget
  <1>3. ASSUME Engine
        PROVE  BetweenHandlers("net") /\ thread'["net"] = thread["net"]
    BY <1>3 DEF Engine, EngCheck, NextCheck, EngTick, EngAuthorize, EngBind, EngReject,
                EngCommand, EngUse, EngLeave, EngExit, EngShut, EngTake, Close,
                CloseSocket, Unlink, Forget
  <1> QED
    BY <1>2, <1>3

(* So at most one thread is ever inside a handler.                         *)
LEMMA ExclusiveStep ==
    ASSUME TypeOK, Exclusive, ~Overlap, Next
    PROVE  Exclusive'
  BY OneThreadSteps DEF Next, Exclusive, BetweenHandlers

(* Unlinking a connection clears it from its client and from the map in    *)
(* one step; closed twice, it clears some client and nothing in the map.   *)
LEMMA UnlinkTables ==
    ASSUME TypeOK, ConnKnown, NEW t \in Threads, Unlink(t)
    PROVE  /\ ConnKnown'
           /\ \A c \in Clients : /\ cli'[c].status = cli[c].status
                                 /\ cli'[c].conn \in {Empty, cli[c].conn}
           /\ ~closedTwice' =>
                /\ ~closedTwice
                /\ thread[t].fd \in Fds
                /\ conToCli' = [conToCli EXCEPT ![thread[t].fd] = Empty]
                /\ \A c \in Clients : cli'[c].conn =
                     IF c = conToCli[thread[t].fd] THEN Empty ELSE cli[c].conn
  <1> DEFINE fd == thread[t].fd
  <1>1. \A c \in Clients : /\ cli'[c].status = cli[c].status
                           /\ cli'[c].conn = IF c = Owner(fd) THEN Empty ELSE cli[c].conn
    BY DEF Unlink, Unbound, TypeOK
  <1>2. CASE fd \in live
    <2>1. /\ fd \in Fds /\ Owner(fd) = conToCli[fd] /\ closedTwice' = closedTwice
          /\ conToCli' = [conToCli EXCEPT ![fd] = Empty]
      BY <1>2 DEF Unlink, Owner, ClearedMap, TypeOK
    <2>2. ASSUME NEW c \in Clients, cli'[c].conn # Empty
          PROVE  conToCli'[cli'[c].conn] = c
      <3>1. c # conToCli[fd] /\ cli'[c].conn = cli[c].conn
        BY <1>1, <2>1, <2>2
      <3>2. conToCli[cli[c].conn] = c
        BY <2>2, <3>1 DEF ConnKnown
      <3>3. cli[c].conn # fd
        BY <3>1, <3>2
      <3> QED
        BY <2>1, <3>1, <3>2, <3>3 DEF TypeOK
    <2> QED
      BY <1>1, <2>1, <2>2 DEF ConnKnown
  <1>3. CASE fd \notin live
    <2>1. closedTwice' /\ conToCli' = conToCli
      BY <1>3 DEF Unlink, ClearedMap
    <2> QED
      BY <1>1, <2>1 DEF ConnKnown
  <1> QED
    BY <1>2, <1>3

(* With every entry of the map right, unlinking leaves every entry right.  *)
LEMMA UnlinkMap ==
    ASSUME TypeOK, ConnKnown, NEW t \in Threads, Unlink(t), ~closedTwice',
           \A fd \in Fds : conToCli[fd] # Empty => cli[conToCli[fd]].conn = fd
    PROVE  \A fd \in Fds : conToCli'[fd] # Empty => cli'[conToCli'[fd]].conn = fd
  <1> SUFFICES ASSUME NEW fd \in Fds, conToCli'[fd] # Empty
               PROVE  cli'[conToCli'[fd]].conn = fd
    OBVIOUS
  <1>1. /\ thread[t].fd \in Fds
        /\ conToCli' = [conToCli EXCEPT ![thread[t].fd] = Empty]
        /\ \A c \in Clients : cli'[c].conn =
             IF c = conToCli[thread[t].fd] THEN Empty ELSE cli[c].conn
    BY UnlinkTables
  <1>2. fd # thread[t].fd /\ conToCli'[fd] = conToCli[fd] /\ conToCli[fd] \in Clients
    BY <1>1 DEF TypeOK
  <1>3. cli[conToCli[fd]].conn = fd
    BY <1>2
  <1>4. conToCli[fd] # conToCli[thread[t].fd]
    BY <1>1, <1>2, <1>3
  <1> QED
    BY <1>1, <1>2, <1>3, <1>4

(* The network thread keeps the invariant.                                 *)
LEMMA NetKeepsInv ==
    ASSUME SessionsInv, ~Overlap, Net
    PROVE  SessionsInv'
  <1> USE DEF SessionsInv
  <1>1. TypeOK' /\ Exclusive'
    BY NetType, ExclusiveStep DEF Next
  <1>2. /\ thread'["engine"] = thread["engine"]
        /\ thread["engine"].pc \in {"selecting", "accept", "serve", "check", "take", "shut", "done", "ended"}
    BY OneThreadSteps DEF BetweenHandlers
  <1>3. BindMapped' /\ HandlerConnected'
    BY <1>2 DEF BindMapped, HandlerConnected, EngineAt, Crashed
  <1>4. CASE Unlink("net")
    <2>1. ConnKnown' /\ (~closedTwice' => ~closedTwice)
      BY <1>4, UnlinkTables DEF Threads
    <2>2. ASSUME ~closedTwice'
          PROVE  MapHolds'
      <3>1. \A fd \in Fds : conToCli[fd] # Empty => cli[conToCli[fd]].conn = fd
        BY <1>2, <2>1, <2>2 DEF MapHolds, EngineAt
      <3> QED
        BY <1>4, <2>2, <3>1, UnlinkMap DEF MapHolds, Threads
    <2>3. ASSUME ~closedTwice'
          PROVE  UnusedUnconnected'
      BY <1>4, <2>1, <2>3, UnlinkTables DEF UnusedUnconnected, Threads
    <2> QED
      BY <1>1, <1>3, <2>1, <2>2, <2>3
  <1>5. CASE ~Unlink("net")
    <2>1. UNCHANGED <<cli, conToCli, closedTwice>>
      BY <1>5 DEF Net, NetCopySet, NetSelect, NetAccept, NetRegister, NetNoAccept,
                  NetRead, NetReadFails, NetEnd, Close, CloseSocket, Forget, tables
    <2>2. ConnKnown'
      BY <2>1 DEF ConnKnown
    <2>3. ~closedTwice' => MapHolds' /\ UnusedUnconnected'
      BY <1>2, <2>1 DEF MapHolds, UnusedUnconnected, EngineAt
    <2> QED
      BY <1>1, <1>3, <2>2, <2>3
  <1> QED
    BY <1>4, <1>5

-----------------------------------------------------------------------------
(* The engine's steps.                                                     *)
LEMMA GoFields ==
    ASSUME TypeOK, NEW t \in Threads, NEW pc, NEW fd, NEW c, Go(t, pc, fd, c)
    PROVE  thread'[t].pc = pc /\ thread'[t].fd = fd /\ thread'[t].client = c
  BY DEF TypeOK, Go

(* engine_client_disconnected touches one client and never binds it.       *)
LEMMA GoneTables ==
    ASSUME TypeOK, ConnKnown, NEW c, Gone(c), UNCHANGED conToCli
    PROVE  /\ ConnKnown'
           /\ \A d \in Clients : d # c => cli'[d] = cli[d]
           /\ c \in Clients => /\ cli'[c].conn \in {Empty, cli[c].conn}
                              /\ cli'[c].status # "CONNECTED"
  <1>1. /\ \A d \in Clients : d # c => cli'[d] = cli[d]
        /\ c \in Clients => /\ cli'[c].conn \in {Empty, cli[c].conn}
                           /\ cli'[c].status # "CONNECTED"
    BY DEF Gone, TypeOK
  <1>2. ConnKnown'
    BY <1>1 DEF ConnKnown
  <1> QED
    BY <1>1, <1>2

(* A client whose connection is gone is gone: nothing else is disturbed.   *)
LEMMA GoneKeepsMap ==
    ASSUME TypeOK, ConnKnown, NEW c \in Clients, Gone(c), UNCHANGED conToCli,
           cli[c].conn = Empty, UnusedUnconnected,
           \A fd \in Fds : conToCli[fd] # Empty => cli[conToCli[fd]].conn = fd
    PROVE  /\ UnusedUnconnected'
           /\ \A fd \in Fds : conToCli'[fd] # Empty => cli'[conToCli'[fd]].conn = fd
  <1>1. cli'[c].conn = Empty /\ \A d \in Clients : d # c => cli'[d] = cli[d]
    BY GoneTables
  <1>2. UnusedUnconnected'
    BY <1>1 DEF UnusedUnconnected
  <1>3. ASSUME NEW fd \in Fds, conToCli[fd] # Empty
        PROVE  cli'[conToCli[fd]].conn = fd
    <2>1. conToCli[fd] \in Clients /\ cli[conToCli[fd]].conn = fd /\ fd # Empty
      BY <1>3, Numbers DEF TypeOK
    <2> QED
      BY <1>1, <2>1
  <1> QED
    BY <1>2, <1>3

(* Looking for lost connections keeps the invariant.                       *)
LEMMA CheckKeepsInv ==
    ASSUME SessionsInv, ~Overlap, EngCheck, TypeOK', Exclusive'
    PROVE  SessionsInv'
  <1> USE DEF SessionsInv
  <1>1. /\ thread["engine"].pc = "check" /\ Working \in Clients
        /\ UNCHANGED <<conToCli, closedTwice>>
    BY DEF EngCheck, Starts, At, Working, TypeOK
  <1>2. thread'["engine"].pc \in {"check", "take"}
    BY GoFields DEF EngCheck, NextCheck, Threads
  <1>3. BindMapped' /\ HandlerConnected'
    BY <1>2 DEF BindMapped, HandlerConnected, EngineAt, Crashed
  <1>4. CASE UNCHANGED cli
    BY <1>1, <1>2, <1>3, <1>4 DEF ConnKnown, MapHolds, UnusedUnconnected, EngineAt
  <1>5. CASE Gone(Working) /\ cli[Working].conn = Empty
    <2>1. ConnKnown'
      BY <1>1, <1>5, GoneTables
    <2>2. ASSUME ~closedTwice'
          PROVE  MapHolds' /\ UnusedUnconnected'
      <3>1. \A fd \in Fds : conToCli[fd] # Empty => cli[conToCli[fd]].conn = fd
        BY <1>1, <2>2 DEF MapHolds, EngineAt
      <3>2. UnusedUnconnected
        BY <1>1, <2>2
      <3> QED
        BY <1>1, <1>5, <3>1, <3>2, GoneKeepsMap DEF MapHolds
    <2> QED
      BY <1>3, <2>1, <2>2
  <1> QED
    BY <1>4, <1>5 DEF EngCheck, Working

(* A client's goodbye keeps the invariant.                                 *)
LEMMA LeaveKeepsInv ==
    ASSUME SessionsInv, ~Overlap, EngLeave, TypeOK', Exclusive'
    PROVE  SessionsInv'
  <1> USE DEF SessionsInv
  <1>1. /\ thread["engine"].pc = "leave" /\ Gone(Working)
        /\ UNCHANGED <<conToCli, closedTwice>>
    BY DEF EngLeave, At, Working
  <1>2. thread'["engine"].pc = "take"
    BY GoFields DEF EngLeave, Threads
  <1>3. BindMapped' /\ HandlerConnected'
    BY <1>2 DEF BindMapped, HandlerConnected, EngineAt, Crashed
  <1>4. ConnKnown'
    BY <1>1, GoneTables
  <1>5. ASSUME ~closedTwice'
        PROVE  MapHolds' /\ UnusedUnconnected'
    <2>1. /\ \A fd \in Fds : conToCli[fd] # Empty => cli[conToCli[fd]].conn = fd
          /\ UnusedUnconnected
      BY <1>1, <1>5 DEF MapHolds, EngineAt
    <2>2. CASE Working \in Clients
      <3>1. cli[Working].conn = Empty
        BY <1>1, <1>5, <2>2 DEF HandlerConnected, EngineAt
      <3> QED
        BY <1>1, <2>1, <2>2, <3>1, GoneKeepsMap DEF MapHolds
    <2>3. CASE Working \notin Clients
      <3>1. UNCHANGED cli
        BY <1>1, <2>3, Numbers DEF Gone, TypeOK
      <3> QED
        BY <1>1, <2>1, <3>1 DEF MapHolds, UnusedUnconnected
    <2> QED
      BY <2>2, <2>3
  <1> QED
    BY <1>3, <1>4, <1>5

(* The map learns of a client that is not in use.                          *)
LEMMA AuthorizeKeepsInv ==
    ASSUME SessionsInv, ~Overlap, EngAuthorize, TypeOK', Exclusive'
    PROVE  SessionsInv'
  <1> USE DEF SessionsInv
  <1> DEFINE fd == Head(queue).fd
  <1>1. PICK c \in Candidates : /\ conToCli' = [conToCli EXCEPT ![fd] = c]
                                /\ Go("engine", "bind", fd, c)
    BY DEF EngAuthorize, MapTo
  <1>2. /\ thread["engine"].pc = "take" /\ conToCli[fd] = Empty
        /\ UNCHANGED <<cli, closedTwice>>
    BY DEF EngAuthorize, EngTake, Starts, At
  <1>3. Head(queue) \in Command
    BY HeadTailProperties DEF EngAuthorize, EngTake, TypeOK
  <1>4. fd \in Fds
    BY <1>3 DEF Command
  <1>5. c \in Clients /\ cli[c].status # "CONNECTED"
    <2>1. Free \subseteq Clients /\ (Free # {} => Lowest(Free) \in Free)
      BY Numbers, LowestIn DEF Free
    <2> QED
      BY <2>1 DEF Candidates, Free, Away
  <1>6. /\ thread'["engine"].pc = "bind" /\ thread'["engine"].fd = fd
        /\ thread'["engine"].client = c
    BY <1>1, GoFields DEF Threads
  <1> HIDE DEF fd
  <1>7. BindMapped'
    BY <1>1, <1>2, <1>4, <1>5, <1>6 DEF BindMapped, Working, TypeOK
  <1>8. ConnKnown'
    BY <1>1, <1>2, <1>4, Numbers DEF ConnKnown, TypeOK
  <1>9. ~closedTwice' => MapHolds' /\ UnusedUnconnected' /\ HandlerConnected'
    BY <1>1, <1>2, <1>4, <1>6
    DEF MapHolds, UnusedUnconnected, HandlerConnected, EngineAt, Crashed, TypeOK
  <1> QED
    BY <1>7, <1>8, <1>9

(* The client learns of its connection.                                    *)
LEMMA BindKeepsInv ==
    ASSUME SessionsInv, ~Overlap, EngBind, TypeOK', Exclusive'
    PROVE  SessionsInv'
  <1> USE DEF SessionsInv
  <1> DEFINE fd == thread["engine"].fd
  <1>1. /\ thread["engine"].pc = "bind" /\ Working \in Clients
        /\ cli' = [cli EXCEPT ![Working] = [status |-> "CONNECTED", conn |-> fd]]
        /\ UNCHANGED <<conToCli, closedTwice>>
    BY DEF EngBind, At, Working, TypeOK
  <1>2. fd \in Fds /\ conToCli[fd] = Working /\ cli[Working].status # "CONNECTED"
    BY <1>1 DEF BindMapped, EngineAt
  <1>3. thread'["engine"].pc = "take"
    BY GoFields DEF EngBind, Threads
  <1> HIDE DEF fd
  <1>4. /\ cli'[Working].conn = fd /\ cli'[Working].status = "CONNECTED"
        /\ \A c \in Clients : c # Working => cli'[c] = cli[c]
    BY <1>1 DEF TypeOK
  <1>5. BindMapped' /\ HandlerConnected'
    BY <1>3 DEF BindMapped, HandlerConnected, EngineAt, Crashed
  <1>6. ConnKnown'
    BY <1>1, <1>2, <1>4 DEF ConnKnown
  <1>7. ASSUME ~closedTwice'
        PROVE  MapHolds' /\ UnusedUnconnected'
    <2>1. cli[Working].conn = Empty
      BY <1>1, <1>2, <1>7 DEF UnusedUnconnected
    <2>2. ASSUME NEW d \in Fds, conToCli[d] # Empty
          PROVE  cli'[conToCli[d]].conn = d
      <3>1. conToCli[d] \in Clients
        BY <2>2 DEF TypeOK
      <3>2. cli[conToCli[d]].conn = d \/ d = fd
        BY <1>1, <1>7, <2>2 DEF MapHolds, fd
      <3>3. d # Empty
        BY Numbers
      <3> QED
        BY <1>2, <1>4, <2>1, <3>1, <3>2, <3>3
    <2>3. UnusedUnconnected'
      BY <1>1, <1>4, <1>7 DEF UnusedUnconnected
    <2> QED
      BY <1>1, <2>2, <2>3 DEF MapHolds
  <1> QED
    BY <1>5, <1>6, <1>7

(* Steps that only move the engine to another point of its work.           *)
LEMMA MoveKeepsInv ==
    ASSUME SessionsInv, TypeOK', Exclusive', UNCHANGED <<cli, conToCli, closedTwice>>,
           ~EngineAt({"bind"}), ~EngineAt({"bind"})', HandlerConnected => HandlerConnected'
    PROVE  SessionsInv'
  BY DEF SessionsInv, ConnKnown, BindMapped, MapHolds, UnusedUnconnected

(* A handler starts with a client the map knows.                           *)
LEMMA CommandKeepsInv ==
    ASSUME SessionsInv, ~Overlap, EngCommand, TypeOK', Exclusive'
    PROVE  SessionsInv'
  <1>1. PICK c \in Clients, pc \in {"answer", "exit", "refuse"} :
          Go("engine", pc, Empty, c) /\ conToCli[Head(queue).fd] = c
    BY DEF EngCommand, EngTake
  <1>2. Head(queue) \in Command
    BY HeadTailProperties DEF EngCommand, EngTake, TypeOK, SessionsInv
  <1>3. Head(queue).fd \in Fds
    BY <1>2 DEF Command
  <1>4. /\ thread["engine"].pc = "take" /\ UNCHANGED <<cli, conToCli, closedTwice>>
    BY DEF EngCommand, EngTake, Starts, At, tables
  <1>5. thread'["engine"].pc = pc /\ thread'["engine"].client = c
    BY <1>1, GoFields DEF Threads, SessionsInv
  <1>6. MapHolds => cli[c].conn # Empty
    BY <1>1, <1>3, <1>4, Numbers DEF MapHolds, EngineAt
  <1>7. ~closedTwice => HandlerConnected'
    BY <1>4, <1>5, <1>6 DEF HandlerConnected, EngineAt, Working, Crashed, SessionsInv
  <1>8. BindMapped' /\ ConnKnown' /\ (~closedTwice => MapHolds' /\ UnusedUnconnected')
    BY <1>4, <1>5
    DEF SessionsInv, BindMapped, ConnKnown, MapHolds, UnusedUnconnected, EngineAt
  <1> QED
    BY <1>4, <1>7, <1>8 DEF SessionsInv

(* A handler uses the connection of its client.                            *)
LEMMA UseKeepsInv ==
    ASSUME SessionsInv, ~Overlap, EngUse, TypeOK', Exclusive'
    PROVE  SessionsInv'
  <1> DEFINE conn == cli[Working].conn
  <1>1. /\ UNCHANGED <<cli, conToCli, closedTwice>>
        /\ EngineAt({"answer", "exit", "refuse"})
        /\ \/ Go("engine", "take", Empty, Empty)
           \/ Go("engine", "close", conn, Working)
           \/ Go("engine", "close", conn, Empty)
           \/ conn = Empty /\ Go("engine", "crashed", Empty, Working)
    BY DEF EngUse, At, EngineAt, Working, tables
  <1>2. /\ thread'["engine"].pc \in {"take", "close", "crashed"}
        /\ thread'["engine"].pc = "crashed" => conn = Empty
        /\ thread'["engine"].pc = "close" =>
             /\ thread'["engine"].client \in {Working, Empty}
             /\ thread'["engine"].fd = conn
    BY <1>1, GoFields DEF Threads, SessionsInv
  <1> HIDE DEF conn
  <1>3. HandlerConnected => HandlerConnected'
    <2>1. HandlerConnected => conn # Empty
      BY <1>1 DEF HandlerConnected, conn
    <2> QED
      BY <1>1, <1>2, <2>1, Numbers DEF HandlerConnected, EngineAt, Working, Crashed, conn
  <1> QED
    BY <1>1, <1>2, <1>3, MoveKeepsInv DEF EngineAt

(* Closing a connection, by the engine, keeps the invariant.               *)
LEMMA EngineCloseKeepsInv ==
    ASSUME SessionsInv, ~Overlap, Close("engine"), TypeOK', Exclusive'
    PROVE  SessionsInv'
  <1> DEFINE e == thread["engine"]
  <1>1. CASE CloseSocket("engine")
    <2>1. /\ e.pc = "close" /\ Go("engine", "unlink", e.fd, e.client)
          /\ UNCHANGED <<cli, conToCli, closedTwice>>
      BY <1>1 DEF CloseSocket, At
    <2>2. /\ thread'["engine"].pc = "unlink" /\ thread'["engine"].fd = e.fd
          /\ thread'["engine"].client = e.client
      BY <2>1, GoFields DEF Threads, SessionsInv
    <2>3. HandlerConnected => HandlerConnected'
      BY <2>1, <2>2 DEF HandlerConnected, EngineAt, Working, Crashed
    <2> QED
      BY <2>1, <2>2, <2>3, MoveKeepsInv DEF EngineAt
  <1>2. CASE Unlink("engine")
    <2>1. e.pc = "unlink" /\ Go("engine", "forget", e.fd, e.client)
      BY <1>2 DEF Unlink, At
    <2>2. thread'["engine"].pc = "forget" /\ thread'["engine"].client = e.client
      BY <2>1, GoFields DEF Threads, SessionsInv
    <2>3. /\ ConnKnown'
          /\ \A c \in Clients : /\ cli'[c].status = cli[c].status
                                /\ cli'[c].conn \in {Empty, cli[c].conn}
          /\ ~closedTwice' =>
               /\ ~closedTwice /\ e.fd \in Fds
               /\ \A c \in Clients : cli'[c].conn =
                    IF c = conToCli[e.fd] THEN Empty ELSE cli[c].conn
      BY <1>2, UnlinkTables DEF Threads, SessionsInv
    <2>4. ASSUME ~closedTwice'
          PROVE  MapHolds'
      <3>1. \A fd \in Fds : conToCli[fd] # Empty => cli[conToCli[fd]].conn = fd
        BY <2>1, <2>3, <2>4 DEF MapHolds, EngineAt, SessionsInv
      <3> QED
        BY <1>2, <2>4, <3>1, UnlinkMap DEF MapHolds, Threads, SessionsInv
    <2>5. ASSUME ~closedTwice'
          PROVE  UnusedUnconnected' /\ HandlerConnected'
      <3>1. UnusedUnconnected'
        BY <2>3, <2>5 DEF UnusedUnconnected, SessionsInv
      <3>2. ASSUME e.client \in Clients
            PROVE  cli'[e.client].conn = Empty
        <4>1. cli[e.client].conn = e.fd
          BY <2>1, <2>3, <2>5, <3>2 DEF HandlerConnected, EngineAt, Working, SessionsInv
        <4>2. e.client = conToCli[e.fd]
          BY <2>3, <2>5, <3>2, <4>1, Numbers DEF ConnKnown, SessionsInv
        <4> QED
          BY <2>3, <2>5, <3>2, <4>2
      <3> QED
        BY <2>2, <3>1, <3>2 DEF HandlerConnected, EngineAt, Working, Crashed
    <2>6. BindMapped'
      BY <2>2 DEF BindMapped, EngineAt
    <2> QED
      BY <2>3, <2>4, <2>5, <2>6 DEF SessionsInv
  <1>3. CASE Forget("engine")
    <2>1. /\ e.pc = "forget"
          /\ \/ \E pc \in {"take", "leave"} : Go("engine", pc, Empty, e.client)
             \/ Go("engine", "shut", e.fd + 1, Empty)
          /\ UNCHANGED <<cli, conToCli, closedTwice>>
      BY <1>3 DEF Forget, At
    <2>2. /\ thread'["engine"].pc \in {"take", "leave", "shut"}
          /\ thread'["engine"].client \in {e.client, Empty}
      BY <2>1, GoFields DEF Threads, SessionsInv
    <2>3. HandlerConnected => HandlerConnected'
      BY <2>1, <2>2, Numbers DEF HandlerConnected, EngineAt, Working, Crashed
    <2> QED
      BY <2>1, <2>2, <2>3, MoveKeepsInv DEF EngineAt
  <1> QED
    BY <1>1, <1>2, <1>3 DEF Close

(* The engine keeps the invariant.                                         *)
LEMMA EngineKeepsInv ==
    ASSUME SessionsInv, ~Overlap, Engine
    PROVE  SessionsInv'
  <1>1. TypeOK' /\ Exclusive'
    BY EngineType, ExclusiveStep DEF Next, SessionsInv
  <1>2. ASSUME EngTick \/ EngReject \/ EngExit \/ EngShut
        PROVE  SessionsInv'
    <2>1. /\ thread["engine"].pc \in {"take", "shut"}
          /\ \/ Go("engine", "check", Empty, 1)
             \/ Go("engine", "close", Head(queue).fd, Empty)
             \/ Go("engine", "shut", 1, Empty)
             \/ Go("engine", "done", Empty, Empty)
             \/ Go("engine", "close", thread["engine"].fd, Exiting)
             \/ Go("engine", "shut", thread["engine"].fd + 1, Empty)
          /\ UNCHANGED <<cli, conToCli, closedTwice>>
      BY <1>2 DEF EngTick, EngReject, EngExit, EngShut, EngTake, Starts, At, tables
    <2>2. /\ thread'["engine"].pc \in {"check", "close", "shut", "done"}
          /\ thread'["engine"].pc = "close" => thread'["engine"].client \in {Empty, Exiting}
      BY <2>1, GoFields DEF Threads, SessionsInv
    <2>3. HandlerConnected => HandlerConnected'
      BY <2>1, <2>2, Numbers DEF HandlerConnected, EngineAt, Working, Crashed
    <2> QED
      BY <1>1, <2>1, <2>2, <2>3, MoveKeepsInv DEF EngineAt
  <1> QED
    BY <1>1, <1>2, CheckKeepsInv, LeaveKeepsInv, AuthorizeKeepsInv, BindKeepsInv,
       CommandKeepsInv, UseKeepsInv, EngineCloseKeepsInv DEF Engine

-----------------------------------------------------------------------------
(* The server starts with nothing open and nobody bound.                   *)
LEMMA InitInv == Init => SessionsInv
  <1> SUFFICES ASSUME Init PROVE SessionsInv
    OBVIOUS
  <1>1. TypeOK
    BY InitType
  <1>2. thread["engine"].pc = "check" /\ thread["net"].pc = "serve"
    BY DEF Init, Threads
  <1> QED
    BY <1>1, <1>2
    DEF Init, SessionsInv, Exclusive, BetweenHandlers, ConnKnown, BindMapped, MapHolds,
        UnusedUnconnected, HandlerConnected, EngineAt, Crashed

(* The invariant is inductive as long as handlers do not overlap.          *)
LEMMA InvStep == ~Overlap /\ SessionsInv /\ [Next]_vars => SessionsInv'
  <1>1. SessionsInv /\ UNCHANGED vars => SessionsInv'
    BY TypeStep
    DEF SessionsInv, Exclusive, BetweenHandlers, ConnKnown, BindMapped, MapHolds,
        UnusedUnconnected, HandlerConnected, EngineAt, Working, Crashed, vars, tables
  <1> QED
    BY <1>1, NetKeepsInv, EngineKeepsInv DEF Next

(* While handlers do not overlap, a client's connection always leads back  *)
(* to that client, for every number of descriptors and clients: reusing a  *)
(* descriptor, or closing a connection twice, never gives two clients one  *)
(* connection.                                                             *)
THEOREM ConnectionsKnown == ASSUME ~Overlap PROVE Spec => []ConnKnown
  <1>1. SessionsInv => ConnKnown
    BY DEF SessionsInv
  <1>2. SessionsInv /\ [Next]_vars => SessionsInv'
    BY InvStep
  <1> QED
    BY <1>1, <1>2, InitInv, PTL DEF Spec

(* And a handler that uses its client's connection finds one, unless some  *)
(* connection has been closed twice.                                       *)
THEOREM ConnectionsFound == ASSUME ~Overlap PROVE Spec => []HandlersFindConnection
  <1>1. SessionsInv => HandlersFindConnection
    BY DEF SessionsInv, HandlersFindConnection, HandlerConnected
  <1>2. SessionsInv /\ [Next]_vars => SessionsInv'
    BY InvStep
  <1> QED
    BY <1>1, <1>2, InitInv, PTL DEF Spec

-----------------------------------------------------------------------------
(* What the kernel has open, what the records say and what select is told, *)
(* while a thread is at pc with connection fd and the other is between     *)
(* handlers: a connection being closed is closed first, leaves the set     *)
(* next and loses its record last; one being accepted is open before it is *)
(* recorded.  Of those select should be told, only the one that a second   *)
(* closing cleared may be missing.                                         *)
Told(pc, fd) == IF pc = "forget" THEN live \ {fd} ELSE live

TablesAt(pc, fd) ==
    /\ open = CASE pc \in {"unlink", "forget"} -> live \ {fd}
                [] pc = "register" -> live \cup {fd}
                [] OTHER -> live
    /\ watched \subseteq Told(pc, fd) /\ Told(pc, fd) \ watched \subseteq Deaf

TablesFollow ==
    \A t \in Threads : BetweenHandlers(Other(t)) => TablesAt(thread[t].pc, thread[t].fd)

(* Between handlers that is what OpenWatched says.                         *)
Settled == open = live /\ watched \subseteq live /\ live \ watched \subseteq Deaf

LEMMA TablesSettled ==
    ASSUME NEW t \in Threads, BetweenHandlers(t)
    PROVE  TablesAt(thread[t].pc, thread[t].fd) <=> Settled
  BY DEF TablesAt, Told, Settled, BetweenHandlers

(* It is enough to follow the thread that takes the step.                  *)
LEMMA FollowStep ==
    ASSUME NEW t \in Threads, BetweenHandlers(Other(t)),
           thread'[Other(t)] = thread[Other(t)], TablesAt(thread[t].pc, thread[t].fd)'
    PROVE  TablesFollow'
  <1>1. Threads = {t, Other(t)} /\ Other(Other(t)) = t
    BY DEF Threads, Other
  <1>2. BetweenHandlers(Other(t))'
    BY DEF BetweenHandlers
  <1>3. ASSUME BetweenHandlers(t)'
        PROVE  TablesAt(thread[Other(t)].pc, thread[Other(t)].fd)'
    <2>1. Settled'
      BY <1>3 DEF TablesAt, Told, Settled, BetweenHandlers
    <2> QED
      BY <1>2, <2>1 DEF TablesAt, Told, Settled, BetweenHandlers
  <1> QED
    BY <1>1, <1>3 DEF TablesFollow

(* Closing a connection, by either thread.                                 *)
LEMMA CloseFollows ==
    ASSUME TypeOK, NEW t \in Threads, Close(t), TablesAt(thread[t].pc, thread[t].fd)
    PROVE  TablesAt(thread[t].pc, thread[t].fd)'
  <1> DEFINE fd == thread[t].fd
  <1>1. CASE CloseSocket(t)
    <2>1. /\ thread[t].pc = "close" /\ open' = open \ (live \cap {fd})
          /\ UNCHANGED <<live, watched, closedTwice>>
      BY <1>1 DEF CloseSocket, At
    <2>2. thread'[t].pc = "unlink" /\ thread'[t].fd = fd
      BY <1>1, GoFields DEF CloseSocket
    <2> QED
      BY <2>1, <2>2 DEF TablesAt, Told, Deaf
  <1>2. CASE Unlink(t)
    <2>1. /\ thread[t].pc = "unlink"
          /\ watched' = watched \ {IF fd \in live THEN fd ELSE WrapFd}
          /\ closedTwice' = (closedTwice \/ fd \notin live)
          /\ UNCHANGED <<open, live>>
      BY <1>2 DEF Unlink, At, ClearedSet
    <2>2. thread'[t].pc = "forget" /\ thread'[t].fd = fd
      BY <1>2, GoFields DEF Unlink
    <2>3. /\ open = live \ {fd} /\ watched \subseteq live
          /\ live \ watched \subseteq Deaf
      BY <2>1 DEF TablesAt, Told
    <2>4. Told(thread[t].pc, thread[t].fd)' = live \ {fd}
      BY <2>1, <2>2 DEF Told
    <2>5. CASE fd \in live
      <3>1. watched' = watched \ {fd} /\ Deaf' = Deaf
        BY <2>1, <2>5 DEF Deaf
      <3>2. watched' \subseteq live \ {fd} /\ (live \ {fd}) \ watched' \subseteq Deaf'
        BY <2>3, <3>1
      <3> QED
        BY <2>1, <2>2, <2>3, <2>4, <3>2 DEF TablesAt
    <2>6. CASE fd \notin live
      <3>1. /\ watched' = watched \ {WrapFd} /\ Deaf' = {WrapFd}
            /\ Deaf \subseteq {WrapFd}
        BY <2>1, <2>6 DEF Deaf
      <3>2. watched' \subseteq live \ {fd} /\ (live \ {fd}) \ watched' \subseteq Deaf'
        BY <2>3, <2>6, <3>1
      <3> QED
        BY <2>1, <2>2, <2>3, <2>4, <3>2 DEF TablesAt
    <2> QED
      BY <2>5, <2>6
  <1>3. CASE Forget(t)
    <2>1. /\ thread[t].pc = "forget" /\ live' = live \ {fd}
          /\ UNCHANGED <<open, watched, closedTwice>>
      BY <1>3 DEF Forget, At
    <2>2. thread'[t].pc \in {"serve", "take", "leave", "shut"}
      BY <1>3, GoFields DEF Forget
    <2> QED
      BY <2>1, <2>2 DEF TablesAt, Told, Deaf
  <1> QED
    BY <1>1, <1>2, <1>3 DEF Close

(* The network thread's steps: accepting opens before it records.          *)
LEMMA NetFollows ==
    ASSUME TypeOK, Net, TablesAt(thread["net"].pc, thread["net"].fd)
    PROVE  TablesAt(thread["net"].pc, thread["net"].fd)'
  <1> USE DEF Threads, At, Starts
  <1>1. CASE NetAccept
    <2>1. /\ thread["net"].pc = "accept" /\ open' = open \cup {thread'["net"].fd}
          /\ thread'["net"].pc = "register" /\ UNCHANGED <<live, watched, closedTwice>>
      BY <1>1, GoFields DEF NetAccept
    <2> QED
      BY <2>1 DEF TablesAt, Told, Deaf
  <1>2. CASE NetRegister
    <2>1. /\ thread["net"].pc = "register" /\ live' = live \cup {thread["net"].fd}
          /\ watched' = watched \cup {thread["net"].fd} /\ open' = open
          /\ thread'["net"].pc = "serve" /\ closedTwice' = closedTwice
      BY <1>2, GoFields DEF NetRegister
    <2> QED
      BY <2>1 DEF TablesAt, Told, Deaf
  <1>3. ASSUME UNCHANGED <<open, live, watched, closedTwice>>,
               thread["net"].pc \notin {"unlink", "forget", "register"},
               thread'["net"].pc \notin {"unlink", "forget", "register"}
        PROVE  TablesAt(thread["net"].pc, thread["net"].fd)'
    BY <1>3 DEF TablesAt, Told, Deaf
  <1>4. CASE NetCopySet \/ NetSelect \/ NetNoAccept \/ NetReadFails \/ NetEnd
    <2>1. /\ UNCHANGED <<open, live, watched, closedTwice>>
          /\ thread["net"].pc \in {"serve", "selecting", "accept"}
          /\ \E pc \in {"selecting", "accept", "ended", "serve", "close"} : \E fd :
               Go("net", pc, fd, Empty)
      BY <1>4 DEF NetCopySet, NetSelect, NetNoAccept, NetReadFails, NetEnd, tables
    <2>2. thread'["net"].pc \in {"selecting", "accept", "ended", "serve", "close"}
      BY <2>1, GoFields
    <2> QED
      BY <1>3, <2>1, <2>2
  <1>5. CASE NetRead
    BY <1>3, <1>5 DEF NetRead, tables
  <1>6. CASE Close("net")
    BY <1>6, CloseFollows
  <1> QED
    BY <1>1, <1>2, <1>4, <1>5, <1>6 DEF Net

(* The engine's steps: only closing changes the three.                     *)
LEMMA EngineFollows ==
    ASSUME TypeOK, Engine, TablesAt(thread["engine"].pc, thread["engine"].fd)
    PROVE  TablesAt(thread["engine"].pc, thread["engine"].fd)'
  <1>1. CASE Close("engine")
    BY <1>1, CloseFollows DEF Threads
  <1>2. CASE ~Close("engine")
    <2> DEFINE mid == {"unlink", "forget", "register"}
    <2>1. /\ UNCHANGED <<open, live, watched, closedTwice>>
          /\ thread["engine"].pc \notin mid
          /\ \E pc \in EnginePCs \ mid : \E fd, c : Go("engine", pc, fd, c)
      BY <1>2 DEF Engine, EngCheck, NextCheck, EngTick, EngAuthorize, EngBind, EngReject,
                  EngCommand, EngUse, EngLeave, EngExit, EngShut, EngTake, Starts, At,
                  EnginePCs, tables
    <2>2. thread'["engine"].pc \notin mid
      BY <2>1, GoFields DEF Threads
    <2> QED
      BY <2>1, <2>2 DEF TablesAt, Told, Deaf
  <1> QED
    BY <1>1, <1>2

(* Between handlers every connection that is open is recorded, and select  *)
(* is told exactly those, but for the one descriptor whose bit the second  *)
(* closing of a connection clears: for every number of descriptors and     *)
(* clients and whichever thread closes, as long as handlers do not overlap.*)
THEOREM OpenAlwaysWatched == ASSUME ~Overlap PROVE Spec => []OpenWatched
  <1>1. Init => TablesFollow /\ Exclusive /\ TypeOK
    <2> SUFFICES ASSUME Init PROVE TablesFollow /\ Exclusive
      BY InitType
    <2>1. thread["engine"].pc = "check" /\ thread["net"].pc = "serve"
      BY DEF Init, Threads
    <2> QED
      BY <2>1 DEF Init, TablesFollow, TablesAt, Told, Exclusive, BetweenHandlers, Threads
  <1>2. (TablesFollow /\ Exclusive /\ TypeOK) /\ [Next]_vars
          => (TablesFollow /\ Exclusive /\ TypeOK)'
    <2> SUFFICES ASSUME TablesFollow, Exclusive, TypeOK, [Next]_vars
                 PROVE  (TablesFollow /\ Exclusive /\ TypeOK)'
      OBVIOUS
    <2>1. TypeOK'
      BY TypeStep
    <2>2. CASE Net
      <3>1. BetweenHandlers("engine") /\ thread'["engine"] = thread["engine"]
        BY <2>2, OneThreadSteps
      <3>2. TablesAt(thread["net"].pc, thread["net"].fd)
        BY <3>1 DEF TablesFollow, Threads, Other
      <3> QED
        BY <2>1, <2>2, <3>1, <3>2, NetFollows, FollowStep, ExclusiveStep DEF Threads, Other, Next
    <2>3. CASE Engine
      <3>1. BetweenHandlers("net") /\ thread'["net"] = thread["net"]
        BY <2>3, OneThreadSteps
      <3>2. TablesAt(thread["engine"].pc, thread["engine"].fd)
        BY <3>1 DEF TablesFollow, Threads, Other
      <3> QED
        BY <2>1, <2>3, <3>1, <3>2, EngineFollows, FollowStep, ExclusiveStep
        DEF Threads, Other, Next
    <2>4. CASE UNCHANGED vars
      BY <2>1, <2>4 DEF TablesFollow, TablesAt, Told, Deaf, Exclusive, BetweenHandlers, vars, tables
    <2> QED
      BY <2>2, <2>3, <2>4 DEF Next
  <1>3. TablesFollow => OpenWatched
    BY TablesSettled DEF TablesFollow, Settled, OpenWatched, Threads, Other
  <1> QED
    BY <1>1, <1>2, <1>3, PTL DEF Spec
=============================================================================
