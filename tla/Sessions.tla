------------------------------ MODULE Sessions ------------------------------
(***************************************************************************)
(* Connections and the clients bound to them: the tables the network       *)
(* thread (networks/netadapter_in.c) and the engine thread                 *)
(* (core/engine_run.c) share without a lock.  Both close connections       *)
(* (netadapter_close_connection), the network thread accepts new ones and  *)
(* the engine binds them to clients.                                       *)
(*                                                                         *)
(* A connection record has the index of its descriptor, and the kernel     *)
(* gives the lowest descriptor that is free to the next connection.        *)
(* A handler is several steps.  With Overlap FALSE a thread starts one     *)
(* only while the other is between handlers, which shows what the handlers *)
(* do in every order; with Overlap TRUE their steps interleave.            *)
(***************************************************************************)
EXTENDS Integers, Sequences

CONSTANTS NumFds,      \* bound: descriptors below connections_length
          NumClients,  \* resources.clients_length
          MaxAccepts,  \* bound: connections accepted
          MaxQueue,    \* bound: commands waiting (the ring is in CmdQueue)
          WrapFd,      \* the descriptor whose bit FD_CLR of -1 clears: 63, or
                       \* 0 for a table that ends before it
          Overlap      \* whether handlers of the two threads overlap

ASSUME SessionsAssumption ==
    /\ NumFds \in Nat \ {0} /\ NumClients \in Nat \ {0}
    /\ MaxAccepts \in Nat /\ MaxQueue \in Nat \ {0}
    /\ WrapFd \in 0 .. NumFds
    /\ Overlap \in BOOLEAN

VARIABLES
    open,       \* the descriptors the kernel has open for connections
    live,       \* those with connections[fd].socket = fd, not -1
    watched,    \* netadapter.client_socks
    ready,      \* the set select filled, less what was served
    conToCli,   \* resources.con_to_cli
    beforeMap,  \* con_to_cli[-1]: whatever memory lies before the array
    cli,        \* of resources.clients: status and connection
    queue,      \* the command queue: origin_socket and kind of each command
    thread,     \* where each thread is, and the connection and client its
                \* handler works on
    accepted,   \* connections accepted so far
    closedTwice \* whether a connection was closed that had no socket any
                \* more (history)

tables == <<open, live, watched, conToCli, beforeMap, cli, closedTwice>>
vars == <<tables, ready, queue, thread, accepted>>

Fds == 1 .. NumFds
Clients == 1 .. NumClients
Empty == 0               \* ITEM_EMPTY in con_to_cli, NULL in net_client
Exiting == NumClients + 1  \* in place of a client: closing to shut down
Threads == {"net", "engine"}
Other(t) == IF t = "net" THEN "engine" ELSE "net"

(* CONNECTED also stands for PLAYING: no handler here tells them apart.    *)
Statuses == {"EMPTY", "CONNECTED", "DISCONNECTED"}

(* A command introduces its sender, is one the handlers answer, is the     *)
(* peer's goodbye, or is one too many that is not legal.                   *)
Kinds == {"introduce", "command", "exit", "illegal"}
Command == [fd: Fds, kind: Kinds]

Lowest(S) == CHOOSE x \in S : \A y \in S : x <= y

Init ==
    /\ open = {} /\ live = {} /\ watched = {} /\ ready = {}
    /\ conToCli = [fd \in Fds |-> Empty]
    /\ beforeMap \in Clients \cup {Empty}
    /\ cli = [c \in Clients |-> [status |-> "EMPTY", conn |-> Empty]]
    /\ queue = <<>>
    /\ thread = [t \in Threads |->
                   IF t = "net" THEN [pc |-> "serve", fd |-> Empty, client |-> Empty]
                                ELSE [pc |-> "check", fd |-> Empty, client |-> 1]]
    /\ accepted = 0 /\ closedTwice = FALSE

BetweenHandlers(t) ==
    thread[t].pc \in {"selecting", "accept", "serve", "check", "take", "shut", "done", "ended"}

(* A NULL pointer used in one thread is the end of both.                   *)
Crashed == thread["engine"].pc = "crashed"

At(t, pc) == thread[t].pc = pc /\ ~Crashed

Starts(t, pc) == At(t, pc) /\ (Overlap \/ BetweenHandlers(Other(t)))

Go(t, pc, fd, c) == thread' = [thread EXCEPT ![t] = [pc |-> pc, fd |-> fd, client |-> c]]

-----------------------------------------------------------------------------
(* netadapter_close_connection, by either thread, of connection fd.  A     *)
(* record whose socket is -1 already is closed all the same.               *)

CloseSocket(t) ==
    LET fd == thread[t].fd
    IN  /\ At(t, "close")
        /\ open' = open \ (live \cap {fd})
        /\ Go(t, "unlink", fd, thread[t].client)
        /\ UNCHANGED <<live, watched, ready, conToCli, beforeMap, cli, queue, accepted, closedTwice>>

(* The client the connection belongs to, as con_to_cli has it              *)
Owner(fd) == IF fd \in live THEN conToCli[fd] ELSE beforeMap

Unbound(c) == [d \in Clients |-> IF d = c THEN [cli[d] EXCEPT !.conn = Empty] ELSE cli[d]]

(* Variants: the descriptor stays in the set; the map entry stays.         *)
ClearedSetKept(fd) == watched
ClearedMapKept(fd) == conToCli

(* FD_CLR, and con_to_cli[socket] = -1.  With socket -1 FD_CLR shifts by   *)
(* -1 % 64 in word -1 / 64, which on x86-64 is bit 63 of the first word.   *)
ClearedSet(fd) == watched \ {IF fd \in live THEN fd ELSE WrapFd}
ClearedMap(fd) == IF fd \in live THEN [conToCli EXCEPT ![fd] = Empty] ELSE conToCli

(* The connection is taken out of the tables.  With socket -1 it is        *)
(* con_to_cli[-1] that is read, used and overwritten.                      *)
Unlink(t) ==
    LET fd == thread[t].fd
    IN  /\ At(t, "unlink")
        /\ watched' = ClearedSet(fd)
        /\ conToCli' = ClearedMap(fd)
        /\ beforeMap' = IF fd \in live THEN beforeMap ELSE Empty
        /\ cli' = Unbound(Owner(fd))
        /\ closedTwice' = (closedTwice \/ fd \notin live)
        /\ Go(t, "forget", fd, thread[t].client)
        /\ UNCHANGED <<open, live, ready, queue, accepted>>

(* p_con->socket = -1, and the handler goes on: a client that said goodbye *)
(* leaves, and the loop that shuts down comes to the next connection.      *)
Forget(t) ==
    LET fd == thread[t].fd
        c == thread[t].client
    IN  /\ At(t, "forget")
        /\ live' = live \ {fd}
        /\ \/ t = "net" /\ Go(t, "serve", Empty, c)
           \/ t = "engine" /\ c = Empty /\ Go(t, "take", Empty, c)
           \/ t = "engine" /\ c \in Clients /\ Go(t, "leave", Empty, c)
           \/ t = "engine" /\ c = Exiting /\ Go(t, "shut", fd + 1, Empty)
        /\ UNCHANGED <<open, watched, ready, conToCli, beforeMap, cli, queue, accepted, closedTwice>>

Close(t) == CloseSocket(t) \/ Unlink(t) \/ Forget(t)

-----------------------------------------------------------------------------
(* The network thread: netadapter_thread_select                            *)

(* The engine has left its loop and closes the connections, or has.        *)
Stopped == thread["engine"].pc \in {"shut", "done"} \/ thread["engine"].client = Exiting

(* Variant: the status is never changed.                                   *)
ShutDownUnset == FALSE

(* netadapter.status is no longer NETADAPTER_STATUS_OK.                    *)
ShutDown == thread["engine"].pc = "done"

NetCopySet ==
    /\ Starts("net", "serve") /\ ~ShutDown
    /\ ready = {}
    /\ ready' = watched
    /\ Go("net", "selecting", Empty, Empty)
    /\ UNCHANGED <<tables, queue, accepted>>

(* select fails when one of the set is not open any more; the thread ends. *)
(* The engine may have run between the copy and the call.                  *)
NetSelect ==
    /\ Starts("net", "selecting")
    /\ IF ready \subseteq open
         THEN ready' \in SUBSET ready /\ Go("net", "accept", Empty, Empty)
         ELSE ready' = {} /\ Go("net", "ended", Empty, Empty)
    /\ UNCHANGED <<tables, queue, accepted>>

(* _netadapter_ts_process_server_socket; the server socket comes first     *)
NetAccept ==
    /\ Starts("net", "accept") /\ ~ShutDown
    /\ accepted < MaxAccepts
    /\ open # Fds
    /\ accepted' = accepted + 1
    /\ open' = open \cup {Lowest(Fds \ open)}
    /\ Go("net", "register", Lowest(Fds \ open), Empty)
    /\ UNCHANGED <<live, watched, ready, conToCli, beforeMap, cli, queue, closedTwice>>

NetRegister ==
    /\ At("net", "register")
    /\ live' = live \cup {thread["net"].fd}
    /\ watched' = watched \cup {thread["net"].fd}
    /\ Go("net", "serve", Empty, Empty)
    /\ UNCHANGED <<open, ready, conToCli, beforeMap, cli, queue, accepted, closedTwice>>

NetNoAccept ==
    /\ Starts("net", "accept")
    /\ Go("net", "serve", Empty, Empty)
    /\ UNCHANGED <<tables, ready, queue, accepted>>

(* _netadapter_ts_process_remote_socket: a command is read and queued.     *)
(* What comes after the engine's last tick is never taken, and left out.   *)
NetRead ==
    LET fd == Lowest(ready)
    IN  /\ Starts("net", "serve")
        /\ ready # {}
        /\ fd \in live \cap open
        /\ \/ /\ ~Stopped /\ Len(queue) < MaxQueue
              /\ \E kind \in Kinds : queue' = Append(queue, [fd |-> fd, kind |-> kind])
           \/ Stopped /\ UNCHANGED queue
        /\ ready' = ready \ {fd}
        /\ UNCHANGED <<tables, thread, accepted>>

(* ... or there is nothing to read: the peer is gone, or the engine closed *)
(* the connection since select; or what was read is too long or malformed. *)
NetReadFails ==
    /\ Starts("net", "serve")
    /\ ready # {}
    /\ ready' = ready \ {Lowest(ready)}
    /\ Go("net", "close", Lowest(ready), Empty)
    /\ UNCHANGED <<tables, queue, accepted>>

(* The loop ends once the adapter is shutting down; what select found is   *)
(* served before.                                                          *)
NetEnd ==
    /\ Starts("net", "serve") /\ ShutDown
    /\ ready = {}
    /\ Go("net", "ended", Empty, Empty)
    /\ UNCHANGED <<tables, ready, queue, accepted>>

Net ==
    \/ NetCopySet \/ NetSelect \/ NetAccept \/ NetRegister \/ NetNoAccept
    \/ NetRead \/ NetReadFails \/ NetEnd \/ Close("net")

-----------------------------------------------------------------------------
(* The engine thread: engine_run                                           *)

(* engine_client_disconnected: wiped, or kept for a return when its room   *)
(* stays open.                                                             *)
Gone(c) ==
    \/ cli' = [cli EXCEPT ![c] = [status |-> "EMPTY", conn |-> Empty]]
    \/ cli' = [cli EXCEPT ![c].status = "DISCONNECTED"]

(* Variants: the loop runs past the last client; it stops before it.       *)
NextCheckPastEnd(c) ==
    IF c <= NumClients THEN Go("engine", "check", Empty, c + 1)
                       ELSE Go("engine", "take", Empty, Empty)

NextCheckShort(c) ==
    IF c < NumClients - 1 THEN Go("engine", "check", Empty, c + 1)
                          ELSE Go("engine", "take", Empty, Empty)

NextCheck(c) ==
    IF c < NumClients THEN Go("engine", "check", Empty, c + 1)
                      ELSE Go("engine", "take", Empty, Empty)

(* _engine_check_active_clients                                            *)
EngCheck ==
    LET c == thread["engine"].client
    IN  /\ Starts("engine", "check")
        /\ IF cli[c].conn = Empty /\ cli[c].status = "CONNECTED"
             THEN Gone(c) ELSE UNCHANGED cli
        /\ NextCheck(c)
        /\ UNCHANGED <<open, live, watched, ready, conToCli, beforeMap, queue, accepted, closedTwice>>

(* _engine_process_command_queue takes the next command, if the sender's   *)
(* client is as expected: known (c) or not (Empty).                        *)
EngTake(c, kinds) ==
    /\ Starts("engine", "take")
    /\ queue # <<>>
    /\ Head(queue).kind \in kinds
    /\ conToCli[Head(queue).fd] = c
    /\ queue' = Tail(queue)

EngTick ==
    /\ Starts("engine", "take")
    /\ queue = <<>>
    /\ Go("engine", "check", Empty, 1)
    /\ UNCHANGED <<tables, ready, queue, accepted>>

Free == {c \in Clients : cli[c].status = "EMPTY"}
Away == {c \in Clients : cli[c].status = "DISCONNECTED"}

(* Who an introduction may be: the first client that is free, or one that  *)
(* is away and whose secret is given.                                      *)
Candidates == Away \cup (IF Free = {} THEN {} ELSE {Lowest(Free)})

(* Variant: the map does not learn of the client.                          *)
MapToNobody(fd, c) == conToCli

MapTo(fd, c) == [conToCli EXCEPT ![fd] = c]

(* _engine_authorize_connection, first con_to_cli                          *)
EngAuthorize ==
    /\ EngTake(Empty, {"introduce"})
    /\ \E c \in Candidates :
         /\ conToCli' = MapTo(Head(queue).fd, c)
         /\ Go("engine", "bind", Head(queue).fd, c)
    /\ UNCHANGED <<open, live, watched, ready, beforeMap, cli, accepted, closedTwice>>

(* ... then the client                                                     *)
EngBind ==
    LET e == thread["engine"]
    IN  /\ At("engine", "bind")
        /\ cli' = [cli EXCEPT ![e.client] = [status |-> "CONNECTED", conn |-> e.fd]]
        /\ Go("engine", "take", Empty, Empty)
        /\ UNCHANGED <<open, live, watched, ready, conToCli, beforeMap, queue, accepted, closedTwice>>

(* A sender that is no client and does not become one is closed.  An       *)
(* introduction fails when it is too short, when no client is free, or     *)
(* when the client whose secret it gives is not away.                      *)
EngReject ==
    /\ EngTake(Empty, Kinds)
    /\ Go("engine", "close", Head(queue).fd, Empty)
    /\ UNCHANGED <<tables, ready, accepted>>

(* _engine_process_command looks the client up ...                         *)
EngCommand ==
    /\ \E c \in Clients :
         \/ EngTake(c, {"command"}) /\ Go("engine", "answer", Empty, c)
         \/ EngTake(c, {"exit"}) /\ Go("engine", "exit", Empty, c)
         \/ EngTake(c, {"illegal", "introduce"}) /\ Go("engine", "refuse", Empty, c)
    /\ UNCHANGED <<tables, ready, accepted>>

(* ... and uses its connection; without one, that is a NULL pointer.       *)
(* A command that needs no answer does not look.                           *)
EngUse ==
    LET e == thread["engine"]
        conn == cli[e.client].conn
    IN  /\ \/ At("engine", "answer") /\ Go("engine", "take", Empty, Empty)
           \/ At("engine", "exit") /\ conn # Empty /\ Go("engine", "close", conn, e.client)
           \/ At("engine", "refuse") /\ conn # Empty /\ Go("engine", "close", conn, Empty)
           \/ /\ At("engine", "answer") \/ At("engine", "exit") \/ At("engine", "refuse")
              /\ conn = Empty
              /\ Go("engine", "crashed", Empty, e.client)
        /\ UNCHANGED <<tables, ready, queue, accepted>>

(* _exe_solo_lead_disconnect, after the connection is closed               *)
EngLeave ==
    /\ At("engine", "leave")
    /\ Gone(thread["engine"].client)
    /\ Go("engine", "take", Empty, Empty)
    /\ UNCHANGED <<open, live, watched, ready, conToCli, beforeMap, queue, accepted, closedTwice>>

(* The console's exit has cleared keep_running, and the loop of engine_run *)
(* ends.                                                                   *)
EngExit ==
    /\ Starts("engine", "take")
    /\ queue = <<>>
    /\ Go("engine", "shut", 1, Empty)
    /\ UNCHANGED <<tables, ready, queue, accepted>>

PastLast(fd) == fd > NumFds

(* _netadapter_shutdown_connections, for the next connection; then         *)
(* netadapter_shutdown sets the status and closes the server socket.       *)
EngShut ==
    LET fd == thread["engine"].fd
    IN  /\ Starts("engine", "shut")
        /\ \/ PastLast(fd) /\ Go("engine", "done", Empty, Empty)
           \/ ~PastLast(fd) /\ fd \in live /\ Go("engine", "close", fd, Exiting)
           \/ ~PastLast(fd) /\ fd \notin live /\ Go("engine", "shut", fd + 1, Empty)
        /\ UNCHANGED <<tables, ready, queue, accepted>>

Engine ==
    \/ EngCheck \/ EngTick \/ EngAuthorize \/ EngBind \/ EngReject
    \/ EngCommand \/ EngUse \/ EngLeave \/ EngExit \/ EngShut \/ Close("engine")

-----------------------------------------------------------------------------
Next == Net \/ Engine

Spec == Init /\ [][Next]_vars

(* The scheduler runs both threads for ever.  The engine's is strong: with  *)
(* Overlap FALSE its turn comes and goes with the handlers of the network  *)
(* thread, and the loop over the commands ends when it finds none.         *)
FairSpec ==
    /\ Spec
    /\ WF_vars(Net)
    /\ SF_vars(Engine)
    /\ SF_vars(EngTick)

-----------------------------------------------------------------------------
NetPCs == {"serve", "selecting", "accept", "register", "close", "unlink", "forget", "ended"}
EnginePCs == {"check", "take", "bind", "answer", "exit", "refuse", "close", "unlink",
              "forget", "leave", "shut", "done", "crashed"}

TypeOK ==
    /\ open \subseteq Fds /\ live \subseteq Fds /\ watched \subseteq Fds
    /\ ready \subseteq Fds
    /\ conToCli \in [Fds -> Clients \cup {Empty}]
    /\ beforeMap \in Clients \cup {Empty}
    /\ cli \in [Clients -> [status: Statuses, conn: Fds \cup {Empty}]]
    /\ queue \in Seq(Command)
    /\ thread \in [Threads -> [pc: NetPCs \cup EnginePCs,
                                fd: Fds \cup {Empty, NumFds + 1},
                                client: Clients \cup {Empty, Exiting}]]
    /\ thread["engine"].pc # "shut" => thread["engine"].fd \in Fds \cup {Empty}
    /\ thread["net"].fd \in Fds \cup {Empty} /\ thread["net"].client \in Clients \cup {Empty}
    /\ thread["net"].pc \in NetPCs /\ thread["engine"].pc \in EnginePCs
    /\ thread["net"].pc = "register" => thread["net"].fd \in Fds
    /\ thread["engine"].pc \in {"check", "bind", "answer", "exit", "refuse"}
         => thread["engine"].client \in Clients
    /\ accepted \in 0 .. MaxAccepts
    /\ closedTwice \in BOOLEAN

(* The descriptor that may be open and not heard: none, until a connection *)
(* is closed a second time.                                                *)
Deaf == IF closedTwice THEN {WrapFd} ELSE {}

(* Between handlers, what the kernel has open and what the records say are *)
(* the same descriptors; select is given none that is closed, and is given *)
(* them all except the one a second closing may clear (accepting and       *)
(* closing in both threads, client_socks against connections).             *)
OpenWatched ==
    BetweenHandlers("net") /\ BetweenHandlers("engine") =>
      open = live /\ watched \subseteq live /\ live \ watched \subseteq Deaf

(* A client's connection leads back to that client, so no two clients ever *)
(* share one, whatever was closed, accepted again or bound in between      *)
(* (net_client.connection against con_to_cli).                             *)
ConnKnown ==
    \A c \in Clients : cli[c].conn # Empty => conToCli[cli[c].conn] = c

(* A command handler always finds the connection of its client, unless     *)
(* some connection was closed twice: the map and the clients go apart in   *)
(* no other way (engine_client_by_socket against p_cli->connection).       *)
HandlersFindConnection == Crashed => closedTwice

(* A client that lost its connection does not stay CONNECTED: the engine   *)
(* notices, or the client has a connection again.  The engine looks only   *)
(* when it has caught up with the commands, which it does again and again. *)
CatchesUp == []<>(queue = <<>> /\ thread["engine"].pc = "take")

LossNoticed ==
    CatchesUp => \A c \in Clients :
      (cli[c].status = "CONNECTED" /\ cli[c].conn = Empty)
        ~> (cli[c].status # "CONNECTED" \/ cli[c].conn # Empty \/ Crashed)

(* After exit both threads end, so that main can join them, whatever the   *)
(* network thread is doing when the status changes.                        *)
ExitEnds ==
    thread["engine"].pc = "shut" ~>
      Crashed \/ (thread["engine"].pc = "done" /\ thread["net"].pc = "ended")

(* What the comments "connection is open" and "connection is not open" in  *)
(* _engine_check_active_clients say: a client whose connection is not NULL *)
(* has an open one.                                                        *)
ConnectionTested ==
    BetweenHandlers("net") /\ BetweenHandlers("engine") =>
      \A c \in Clients : cli[c].conn # Empty => cli[c].conn \in open

(* What the log line "has been added to socket set" says: an accepted      *)
(* connection is watched for as long as it is open.                        *)
AcceptedWatched ==
    BetweenHandlers("net") /\ BetweenHandlers("engine") => open \subseteq watched
=============================================================================
