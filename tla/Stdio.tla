-------------------------------- MODULE Stdio --------------------------------
(***************************************************************************)
(* The MCP server's standard input and output (maestro, mcp/transport.rs): *)
(* lines cut from reads of any length, each bounded, and responses bounded *)
(* and written whole beside the refusals of lines nobody could answer.     *)
(*                                                                         *)
(* A byte is "x", or "n" for a newline, "r" for a carriage return.  What a *)
(* frame says is external: one that is blank is skipped, and one that is   *)
(* not a request is refused.                                               *)
(***************************************************************************)
EXTENDS Integers, Sequences, FiniteSets, SequencesExt, FiniteSetsExt

CONSTANTS Inputs,   \* what the client may write: sequences of bytes
          LimitBytes, \* INPUT_LIMIT_BYTES
          MaxRead   \* bytes one read may return

VARIABLES unread,   \* bytes the client wrote that no read returned
          written,  \* history: all it wrote
          pending, discarding, eof,
          frames,   \* lines handed on, and refusals, in their order
          errors,   \* refusals waiting for the writer: pending_errors
          flushers, \* tasks that will write them
          closed
lineVars == <<unread, written, pending, discarding, eof, frames>>
stdioVars == <<lineVars, errors, flushers, closed>>

Refusal == <<"refused">>

StdioInit ==
    /\ written \in Inputs /\ unread = written
    /\ pending = << >> /\ discarding = FALSE /\ eof = FALSE
    /\ frames = << >> /\ errors = 0 /\ flushers = 0 /\ closed = FALSE

Newlines == {i \in DOMAIN pending : pending[i] = "n"}
Newline == Min(Newlines)
AfterNewline == SubSeq(pending, Newline + 1, Len(pending))

(* A carriage return before the newline belongs to it. *)
Line(bytes) ==
    IF bytes # << >> /\ bytes[Len(bytes)] = "r" THEN SubSeq(bytes, 1, Len(bytes) - 1)
    ELSE bytes

(* invalid_request queues the refusal and spawns a task that writes it. *)
Refuse ==
    /\ frames' = Append(frames, Refusal)
    /\ errors' = errors + 1 /\ flushers' = flushers + 1

(* Mutant: the end of a line that is being discarded starts a line. *)
MutTooLong == Newline > LimitBytes

(* A newline at the zero-based index LimitBytes or after it. *)
TooLong == discarding \/ Newline > LimitBytes

CutLine ==
    /\ ~closed /\ Newlines # {}
    /\ pending' = AfterNewline
    /\ IF TooLong
       THEN discarding' = FALSE /\ Refuse
       ELSE /\ frames' = Append(frames, Line(SubSeq(pending, 1, Newline - 1)))
            /\ UNCHANGED <<discarding, errors, flushers>>
    /\ UNCHANGED <<unread, written, eof, closed>>

(* What line() does before it reads again, with no newline pending. *)
Discards == discarding \/ Len(pending) > LimitBytes

EndOfInput ==
    /\ ~closed /\ Newlines = {} /\ eof
    /\ pending' = << >> /\ discarding' = FALSE /\ closed' = TRUE
    /\ IF Discards THEN Refuse
       ELSE /\ frames' = IF pending = << >> THEN frames ELSE Append(frames, pending)
            /\ UNCHANGED <<errors, flushers>>
    /\ UNCHANGED <<unread, written, eof>>

ReadMore ==
    /\ ~closed /\ Newlines = {} /\ ~eof
    /\ discarding' = Discards
    /\ IF unread = << >>
       THEN eof' = TRUE /\ pending' = (IF Discards THEN << >> ELSE pending) /\ UNCHANGED unread
       ELSE \E n \in 1 .. Min({MaxRead, Len(unread)}) :
              /\ pending' = (IF Discards THEN << >> ELSE pending) \o SubSeq(unread, 1, n)
              /\ unread' = SubSeq(unread, n + 1, Len(unread))
              /\ UNCHANGED eof
    /\ UNCHANGED <<written, frames, errors, flushers, closed>>

(* A task takes every refusal that waits, under the writer's lock. *)
FlushErrors ==
    /\ flushers > 0
    /\ flushers' = flushers - 1 /\ errors' = 0
    /\ UNCHANGED <<lineVars, closed>>

StdioNext == CutLine \/ EndOfInput \/ ReadMore \/ FlushErrors

-----------------------------------------------------------------------------
(* The lines of what the client wrote, without looking at the reads. *)
Ends == {i \in DOMAIN written : written[i] = "n"}
From(i) == Max({0} \cup {j \in Ends : j < i}) + 1
Whole(i) == IF i - From(i) >= LimitBytes THEN Refusal
            ELSE Line(SubSeq(written, From(i), i - 1))
LineEnd(k) == CHOOSE i \in Ends : Cardinality({j \in Ends : j <= i}) = k
LastPart == SubSeq(written, Max({0} \cup Ends) + 1, Len(written))
Reference ==
    LET lines == [k \in 1 .. Cardinality(Ends) |-> Whole(LineEnd(k))]
    IN  IF LastPart = << >> THEN lines
        ELSE Append(lines, IF Len(LastPart) > LimitBytes THEN Refusal ELSE LastPart)

(* However the reads cut what the client wrote, the frames handed on and
   the refusals are those of its lines, in their order: an oversized line is
   refused once and the line after it is whole; and every refusal is
   written. *)
FramesAreLines ==
    /\ IsPrefix(frames, Reference)
    /\ closed => frames = Reference
    /\ flushers = 0 => errors = 0
=============================================================================
