------------------------------ MODULE Framing ------------------------------
(***************************************************************************)
(* One connection, from the bytes in the kernel to the commands passed on: *)
(* the receive buffer and the loops of                                     *)
(* _netadapter_ts_process_remote_socket (networks/netadapter_in.c).        *)
(* The peer sends and hangs up at any time in between.                     *)
(*                                                                         *)
(* The operators on lines are those of LineChannel.  The engine counts     *)
(* invalid commands of its own on the same connection and may close it as  *)
(* well; that is left out here (Sessions has the closing).                 *)
(***************************************************************************)
EXTENDS Integers, Sequences

CONSTANTS HeaderSize, Capacity, AllowedInvalid,
          MaxSent    \* bound: bytes the peer sends

ASSUME FramingAssumption ==
    /\ HeaderSize \in Nat \ {0} /\ Capacity \in Nat /\ Capacity > HeaderSize
    /\ AllowedInvalid \in Nat /\ MaxSent \in Nat

VARIABLES
    unread,   \* bytes sent and not read
    hungUp,   \* whether the peer has closed its end
    buffer,   \* _in_buffer, its first _in_buffer_ptr bytes
    a2read,   \* what FIONREAD found, less what was read since
    pc,       \* "select", "read" or "line"
    invalid,  \* invalid_counter
    last,     \* the line passed on last (history)
    why,      \* why the connection was closed, or "open"
    sent      \* bytes sent

vars == <<unread, hungUp, buffer, a2read, pc, invalid, last, why, sent>>

Lines == INSTANCE LineChannel WITH text <- buffer \o unread

Init ==
    /\ unread = <<>> /\ hungUp = FALSE /\ sent = 0
    /\ buffer = <<>> /\ a2read = 0 /\ pc = "select"
    /\ invalid = 0 /\ last = <<>> /\ why = "open"

At(point) == pc = point /\ why = "open"

-----------------------------------------------------------------------------
(* The peer                                                                *)

PeerSends ==
    /\ why = "open" /\ ~hungUp /\ sent < MaxSent
    /\ \E b \in Lines!Bytes : unread' = Append(unread, b)
    /\ sent' = sent + 1
    /\ UNCHANGED <<hungUp, buffer, a2read, pc, invalid, last, why>>

PeerHangsUp ==
    /\ why = "open" /\ ~hungUp
    /\ hungUp' = TRUE
    /\ UNCHANGED <<unread, buffer, a2read, pc, invalid, last, why, sent>>

-----------------------------------------------------------------------------
(* The network thread.  A handler that fails closes the connection.        *)

CloseFor(reason) ==
    /\ why' = reason
    /\ UNCHANGED <<unread, hungUp, buffer, a2read, pc, last, sent>>

(* select finds the socket readable; FIONREAD                              *)
Select ==
    /\ At("select")
    /\ unread # <<>> \/ hungUp
    /\ a2read' = Len(unread)
    /\ pc' = "read"
    /\ UNCHANGED <<unread, hungUp, buffer, invalid, last, why, sent>>

(* Variant: the room is what the whole buffer has.                         *)
RoomWhole == Capacity

Room == Capacity - Len(buffer)

ReadNothing ==
    /\ At("read") /\ a2read <= 0
    /\ CloseFor("gone") /\ UNCHANGED invalid

ReadTooLong ==
    /\ At("read") /\ a2read > 0 /\ Room < 1
    /\ CloseFor("long") /\ UNCHANGED invalid

(* With no line feed in the buffer yet, the rest waits for the next select *)
ReadSome ==
    LET size == IF a2read < Room THEN a2read ELSE Room
    IN  /\ At("read") /\ size >= 1
        /\ buffer' = buffer \o SubSeq(unread, 1, size)
        /\ unread' = SubSeq(unread, size + 1, Len(unread))
        /\ a2read' = a2read - size
        /\ pc' = IF Lines!HasLine(buffer') THEN "line" ELSE "select"
        /\ UNCHANGED <<hungUp, invalid, last, why, sent>>

(* Variant: one line for each reading.                                     *)
AfterLineOnce(s) == IF a2read > 0 THEN "read" ELSE "select"

(* Where the loops go with s left in the buffer                            *)
AfterLine(s) ==
    IF Lines!HasLine(s) THEN "line" ELSE IF a2read > 0 THEN "read" ELSE "select"

Shift ==
    /\ buffer' = Lines!Rest(buffer)
    /\ pc' = AfterLine(buffer')
    /\ UNCHANGED <<unread, hungUp, a2read, why, sent>>

LineTooShort ==
    /\ At("line") /\ Lines!TooShort(Lines!Line(buffer))
    /\ CloseFor("short") /\ UNCHANGED invalid

LinePassed ==
    /\ At("line") /\ ~Lines!TooShort(Lines!Line(buffer))
    /\ Lines!Typed(Lines!Line(buffer))
    /\ last' = Lines!Line(buffer)
    /\ Shift
    /\ UNCHANGED invalid

LineInvalid ==
    /\ At("line") /\ ~Lines!TooShort(Lines!Line(buffer))
    /\ ~Lines!Typed(Lines!Line(buffer))
    /\ invalid' = invalid + 1
    /\ \/ invalid' > AllowedInvalid /\ CloseFor("invalid")
       \/ invalid' <= AllowedInvalid /\ Shift /\ UNCHANGED last

Reader ==
    \/ Select \/ ReadNothing \/ ReadTooLong \/ ReadSome
    \/ LineTooShort \/ LinePassed \/ LineInvalid

-----------------------------------------------------------------------------
Next == PeerSends \/ PeerHangsUp \/ Reader

Spec == Init /\ [][Next]_vars

(* The network thread comes round to every socket that is readable.        *)
FairSpec == Spec /\ WF_vars(Reader)

-----------------------------------------------------------------------------
(* What was found readable is still there, and the buffer is never filled  *)
(* past its capacity, which leaves the zero that ends the string           *)
(* (_netadapter_ts_process_raw_connection).                                *)
TypeOK ==
    /\ unread \in Seq(Lines!Bytes) /\ buffer \in Seq(Lines!Bytes)
    /\ Len(buffer) <= Capacity
    /\ a2read \in 0 .. Len(unread)
    /\ pc \in {"select", "read", "line"}
    /\ invalid \in 0 .. AllowedInvalid + 1
    /\ last \in Seq(Lines!Bytes)
    /\ hungUp \in BOOLEAN
    /\ why \in Lines!Reasons \cup {"open"}
    /\ sent \in 0 .. MaxSent

(* However the bytes are cut up on their way, the lines are taken whole    *)
(* and in order; every line that has arrived is passed on or refused or    *)
(* ends the connection; and a peer that hangs up is noticed when the last  *)
(* of its lines is taken, not before.                                      *)
ImplementsLines == Lines!FairSpec
=============================================================================
