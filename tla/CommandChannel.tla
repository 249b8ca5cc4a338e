--------------------------- MODULE CommandChannel ---------------------------
(***************************************************************************)
(* What the command queue between the network thread and the engine        *)
(* promises, with no ring, no indices and no threads.  Commands are        *)
(* numbered 1, 2, ... in the order the network thread parsed them.         *)
(*                                                                         *)
(* The promise is weak on purpose, because the code keeps no more: a       *)
(* command is delivered at most once and in order, and one may be refused  *)
(* or lost, but only while Capacity - 1 or more commands are waiting.      *)
(***************************************************************************)
EXTENDS Naturals, Sequences

CONSTANTS Capacity,     \* QUEUE_SIZE, the slots of the ring
          MaxCommands   \* how many commands the network thread handles

VARIABLES pending,      \* the commands waiting, oldest first
          handled,      \* number of the last command accepted or refused
          delivered     \* number of the last command delivered, 0 if none

channelVars == <<pending, handled, delivered>>

ChannelInit == pending = <<>> /\ handled = 0 /\ delivered = 0

Crowded == Len(pending) >= Capacity - 1

Offer == handled < MaxCommands /\ handled' = handled + 1

Accept ==
    /\ Offer
    /\ Len(pending) < Capacity
    /\ pending' = Append(pending, handled + 1)
    /\ UNCHANGED delivered

Refuse == Offer /\ Crowded /\ UNCHANGED <<pending, delivered>>

(* The writer laps the reader: everything waiting is forgotten, the new   *)
(* command with it unless the reader is already committed to a slot.       *)
Overrun ==
    /\ Offer
    /\ Crowded
    /\ pending' \in {<<>>, <<handled + 1>>}
    /\ UNCHANGED delivered

Take ==
    /\ pending # <<>>
    /\ pending' = Tail(pending)
    /\ delivered' = Head(pending)
    /\ UNCHANGED handled

ChannelNext == Accept \/ Refuse \/ Overrun \/ Take

ChannelSpec == ChannelInit /\ [][ChannelNext]_channelVars
=============================================================================
