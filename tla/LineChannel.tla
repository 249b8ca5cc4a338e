---------------------------- MODULE LineChannel ----------------------------
(***************************************************************************)
(* What a connection promises its peer: the bytes sent are taken line by   *)
(* line, in order, however they were cut up on their way, and every line   *)
(* is passed on, refused, or the end of the connection                     *)
(* (networks/netadapter_in.c).                                             *)
(***************************************************************************)
EXTENDS Integers, Sequences

CONSTANTS HeaderSize,     \* NETWORK_COMMAND_HEADER_SIZE, 4
          Capacity,       \* NETADAPTER_BUFFER_SIZE - 2, 510
          AllowedInvalid  \* ALLOWED_INVALLID_MSG_COUNT, 3

VARIABLES
    text,     \* what was sent and not taken
    hungUp,   \* whether the peer has closed its end
    invalid,  \* the connection's invalid_counter
    last,     \* the line passed on last (history)
    why       \* why the connection was closed, or "open"

vars == <<text, hungUp, invalid, last, why>>

(* A digit of the type (other than 0), any other character, and the two    *)
(* that are seen wherever they stand.                                      *)
Bytes == {"digit", "other", "lf", "nul"}
Reasons == {"gone", "long", "short", "invalid"}

(* strpos(s, "\n"): a NUL ends the string, whatever follows.               *)
LineEnds(s) ==
    {i \in 1 .. Len(s) : s[i] = "lf" /\ \A j \in 1 .. i - 1 : s[j] \notin {"lf", "nul"}}
HasLine(s) == LineEnds(s) # {}
LineEnd(s) == CHOOSE i \in LineEnds(s) : TRUE
Line(s) == SubSeq(s, 1, LineEnd(s) - 1)

(* strshift                                                                *)
Rest(s) == SubSeq(s, LineEnd(s) + 1, Len(s))

TooShort(line) == Len(line) < HeaderSize

(* network_command_from_string: the type is read up to what is no digit,   *)
(* and 0 is no type.                                                       *)
Typed(line) == line[1] = "digit"

Init == text = <<>> /\ hungUp = FALSE /\ invalid = 0 /\ last = <<>> /\ why = "open"

Sends ==
    /\ why = "open" /\ ~hungUp
    /\ \E b \in Bytes : text' = Append(text, b)
    /\ UNCHANGED <<hungUp, invalid, last, why>>

HangsUp ==
    /\ why = "open" /\ ~hungUp
    /\ hungUp' = TRUE
    /\ UNCHANGED <<text, invalid, last, why>>

(* The first line, if it fits                                              *)
Complete == why = "open" /\ \E i \in LineEnds(text) : i <= Capacity

Passes ==
    /\ Complete /\ ~TooShort(Line(text)) /\ Typed(Line(text))
    /\ last' = Line(text)
    /\ text' = Rest(text)
    /\ UNCHANGED <<hungUp, invalid, why>>

Refuses ==
    /\ Complete /\ ~TooShort(Line(text)) /\ ~Typed(Line(text))
    /\ invalid' = invalid + 1
    /\ \/ invalid' <= AllowedInvalid /\ text' = Rest(text) /\ UNCHANGED why
       \/ invalid' > AllowedInvalid /\ why' = "invalid" /\ UNCHANGED text
    /\ UNCHANGED <<hungUp, last>>

(* The connection is closed for a line that is too short, for one that     *)
(* does not fit, or when the peer is gone and no line is left.             *)
Closes ==
    /\ \/ Complete /\ TooShort(Line(text)) /\ why' = "short"
       \/ why = "open" /\ ~Complete /\ Len(text) > Capacity /\ why' = "long"
       \/ why = "open" /\ ~Complete /\ hungUp /\ Len(text) <= Capacity /\ why' = "gone"
    /\ UNCHANGED <<text, hungUp, invalid, last>>

Takes == Passes \/ Refuses \/ Closes

Next == Sends \/ HangsUp \/ Takes

Spec == Init /\ [][Next]_vars

(* Whatever has arrived is dealt with.                                     *)
FairSpec == Spec /\ WF_vars(Takes)
=============================================================================
