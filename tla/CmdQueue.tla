------------------------------ MODULE CmdQueue ------------------------------
(***************************************************************************)
(* The ring buffer of structures/cmd_queue.c, with the one producer (the   *)
(* network thread, in engine_handle_command) and the one consumer (the     *)
(* engine thread, in _engine_process_command_queue) that share it.         *)
(*                                                                         *)
(* cmd_queue_get and cmd_queue_put hold the mutex, so each is one step.    *)
(* cmd_queue_is_full and cmd_queue_is_empty do not: each is a step of its  *)
(* own, and what it saw may no longer hold when the ring is used.          *)
(* A command is the number of its arrival: 1, 2, ...                       *)
(***************************************************************************)
EXTENDS Integers, Sequences

CONSTANTS QueueSize,       \* QUEUE_SIZE, 42 in the code
          MaxCommands      \* bound: commands the network thread handles

ASSUME QueueAssumption ==
    /\ QueueSize \in Nat /\ QueueSize >= 2
    /\ MaxCommands \in Nat

VARIABLES
    slots,       \* cmd_queue.commands
    putIndex,    \* cmd_queue.put_index, written by the network thread only
    getIndex,    \* cmd_queue.get_index, written by the engine thread only
    netPC,       \* the network thread: reading a command, or about to put it
    engPC,       \* the engine thread: elsewhere in its tick, about to test
                 \* for an empty queue, or about to get
    handled,     \* commands the network thread is done with (history)
    refused,     \* "Command queue is full" lines logged (history)
    delivered,   \* the last command the engine got, 0 if none (history)
    taken,       \* how many commands the engine got (history)
    overloaded   \* whether a command arrived with a full ring's worth of
                 \* others outstanding (history)

vars == <<slots, putIndex, getIndex, netPC, engPC, handled, refused, delivered, taken,
          overloaded>>

Indices == 0 .. QueueSize - 1

(* The remainder of C, which takes the sign of the dividend.              *)
CRem(a, n) == IF a >= 0 THEN a % n ELSE -((-a) % n)

(* Variants: an emptiness test that ignores wrapping round, in either way. *)
IsEmptyBehind == getIndex > putIndex
IsEmptyAhead == getIndex >= putIndex

IsEmpty == getIndex = putIndex

(* Variant: a ring that is full one slot too early.                        *)
IsFullEarly == (putIndex + 2) % QueueSize = getIndex

IsFull == CRem(putIndex, QueueSize) = CRem(getIndex - 1, QueueSize)

(* Variant: the index does not wrap.                                       *)
AfterNoWrap(i) == i + 1

(* The index after i, as cmd_queue_get and cmd_queue_put compute it.       *)
After(i) == (i + 1) % QueueSize

Init ==
    /\ slots = [i \in Indices |-> 0]
    /\ putIndex = 0 /\ getIndex = 0
    /\ netPC = "read" /\ engPC = "elsewhere"
    /\ handled = 0 /\ refused = 0 /\ delivered = 0 /\ taken = 0
    /\ overloaded = FALSE

-----------------------------------------------------------------------------
(* The network thread: engine_handle_command.                              *)

(* A parsed command arrives and the ring is tested; a full ring is logged  *)
(* and the command dropped.                                                *)
NetCheck ==
    /\ netPC = "read"
    /\ handled < MaxCommands
    /\ overloaded' = (overloaded \/ handled - delivered >= QueueSize - 1)
    /\ IF IsFull
         THEN handled' = handled + 1 /\ refused' = refused + 1 /\ UNCHANGED netPC
         ELSE netPC' = "put" /\ UNCHANGED <<handled, refused>>
    /\ UNCHANGED <<slots, putIndex, getIndex, engPC, delivered, taken>>

NetPut ==
    /\ netPC = "put"
    /\ slots' = [slots EXCEPT ![putIndex] = handled + 1]
    /\ putIndex' = After(putIndex)
    /\ netPC' = "read"
    /\ handled' = handled + 1
    /\ UNCHANGED <<getIndex, engPC, refused, delivered, taken, overloaded>>

-----------------------------------------------------------------------------
(* The engine thread: _engine_process_command_queue, once in every tick.   *)

EngStart ==
    /\ engPC = "elsewhere"
    /\ engPC' = "test"
    /\ UNCHANGED <<slots, putIndex, getIndex, netPC, handled, refused, delivered, taken, overloaded>>

EngTest ==
    /\ engPC = "test"
    /\ engPC' = IF IsEmpty THEN "elsewhere" ELSE "get"
    /\ UNCHANGED <<slots, putIndex, getIndex, netPC, handled, refused, delivered, taken, overloaded>>

EngGet ==
    /\ engPC = "get"
    /\ delivered' = slots[getIndex]
    /\ taken' = taken + 1
    /\ getIndex' = After(getIndex)
    /\ engPC' = "test"
    /\ UNCHANGED <<slots, putIndex, netPC, handled, refused, overloaded>>

Net == NetCheck \/ NetPut
Engine == EngStart \/ EngTest \/ EngGet

Next == Net \/ Engine

Spec == Init /\ [][Next]_vars

(* Both threads run for as long as the server does, and neither waits for  *)
(* the other outside the mutex.                                            *)
FairSpec == Spec /\ WF_vars(NetPut) /\ WF_vars(Engine)

-----------------------------------------------------------------------------
(* The commands the engine can still get.  An engine already past its      *)
(* emptiness test gets a slot even if the indices have met again since,    *)
(* so it then has the whole ring in front of it.                           *)
PendingCount ==
    IF engPC = "get" /\ IsEmpty THEN QueueSize ELSE (putIndex - getIndex) % QueueSize

Pending == [k \in 1 .. PendingCount |-> slots[(getIndex + k - 1) % QueueSize]]

Channel == INSTANCE CommandChannel
             WITH Capacity <- QueueSize, pending <- Pending

TypeOK ==
    /\ slots \in [Indices -> Nat]
    /\ putIndex \in Indices /\ getIndex \in Indices
    /\ netPC \in {"read", "put"}
    /\ engPC \in {"elsewhere", "test", "get"}
    /\ handled \in 0 .. MaxCommands
    /\ refused \in Nat /\ delivered \in Nat /\ taken \in Nat
    /\ overloaded \in BOOLEAN

(* The ring behaves as the channel: whatever the interleaving of the tests *)
(* and the moves, a command is lost or refused only while the ring holds   *)
(* QueueSize - 1 commands or more (cmd_queue.c, engine_handle_command).    *)
ImplementsChannel == Channel!ChannelSpec

(* Every command the engine gets is newer than the one it got before: none *)
(* is processed twice or out of order, even when the ring overruns.        *)
InOrder == [][getIndex' # getIndex => delivered' > delivered]_vars

(* Until a command arrives while QueueSize - 1 others are outstanding,     *)
(* nothing is refused and nothing is lost: what the engine got is every    *)
(* command up to the last, and the rest of what was handled is waiting in  *)
(* the ring (cmd_queue_is_full, wherever the indices stand).               *)
Lossless ==
    ~overloaded =>
      /\ refused = 0
      /\ delivered = taken
      /\ handled = taken + PendingCount

(* Until then, too, every command the network thread accepted reaches the  *)
(* engine: the unlocked tests cannot strand one.                           *)
EveryCommandDelivered ==
    \A n \in 1 .. MaxCommands : (handled >= n) ~> (delivered >= n \/ overloaded)

(* What the log line "Command queue is full" says: a command that does not *)
(* fit is refused, and every other one waits or has been delivered.        *)
OnlyFullQueueDrops == handled = taken + refused + PendingCount
=============================================================================
