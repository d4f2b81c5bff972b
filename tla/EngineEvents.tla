---------------------------- MODULE EngineEvents ----------------------------
(***************************************************************************)
(* harness2/events.py: the strict parsers of what OpenCode and Prime write *)
(* to standard output.  A line is an event [type, part]; every line that   *)
(* is no JSON object or not shaped as its type demands is "noise".         *)
(***************************************************************************)
EXTENDS Naturals, Sequences, SequencesExt

CONSTANT MaxEvents  \* lines a parser reads

ASSUME MaxEventsAssumption == MaxEvents \in Nat \ {0}

NoError == "no error"

Event(type, part) == [type |-> type, part |-> part]

Noise == Event("noise", "none")

\* ParseResult; last is the terminal event or the message that came last.
Nothing ==
    [text |-> <<>>, error |-> NoError, events |-> 0, terminal |-> FALSE,
     malformed |-> FALSE, trailing |-> FALSE, last |-> "none"]

\* The malformed line of either parser.
Malformed(r) == [r EXCEPT !.malformed = TRUE, !.trailing = @ \/ r.terminal]

-----------------------------------------------------------------------------
(***************************************************************************)
(* parse_opencode().  A session ends with an error or with a step that     *)
(* finishes for one of these reasons, or for none; further errors may      *)
(* follow an error, and the last one counts.  NoError is also the part of  *)
(* an error with an empty text, which success takes for none.              *)
(***************************************************************************)
Endings == {"none", "stop", "error", "aborted", "max-turns"}

OpenCodeEvent(r, t) ==
    LET again == r.last = "error" /\ t.type = "error"
        s == [r EXCEPT !.trailing = @ \/ (r.terminal /\ ~again)]
    IN CASE t.type = "text"  -> [s EXCEPT !.text = Append(@, t.part)]
         [] t.type = "error" -> [s EXCEPT !.terminal = TRUE, !.last = "error", !.error = t.part]
         [] t.type = "step_finish" /\ t.part \in Endings ->
                                [s EXCEPT !.terminal = TRUE, !.last = "step_finish"]
         [] OTHER            -> s

(***************************************************************************)
(* parse_prime().  message_end and turn_end carry the same message, which  *)
(* agent_end ends its list with: one that came last is not appended again. *)
(***************************************************************************)
\* Mutant: every message is appended.
SaidAgain(r, message) ==
    IF message = "none" THEN r ELSE [r EXCEPT !.text = Append(@, message), !.last = message]

Said(r, message) ==
    IF message \in {"none", r.last} THEN r
    ELSE [r EXCEPT !.text = Append(@, message), !.last = message]

\* _prime_record_error(): a message that says so, which later ones do not undo.
Failing == "failed"

Recorded(r, message) == IF message = Failing THEN [r EXCEPT !.error = Failing] ELSE r

PrimeEvent(r, t) ==
    LET s == [r EXCEPT !.trailing = @ \/ r.terminal]
        m == Recorded(Said(s, t.part), t.part)
    IN CASE t.type = "agent_end"                 -> [m EXCEPT !.terminal = TRUE]
         [] t.type \in {"message_end", "turn_end"} -> m
         [] OTHER                                -> s

-----------------------------------------------------------------------------
(***************************************************************************)
(* The loop over the lines, and _strict_result().                          *)
(***************************************************************************)
EventLimit == "event_limit"

Line(format, r, t) ==
    IF r.error = EventLimit THEN r
    ELSE LET s == [r EXCEPT !.events = @ + 1]
         IN IF s.events > MaxEvents THEN [s EXCEPT !.error = EventLimit]
            ELSE IF t.type = "noise" THEN Malformed(s)
            ELSE IF format = "opencode" THEN OpenCodeEvent(s, t) ELSE PrimeEvent(s, t)

Strict(r) ==
    IF r.error # NoError THEN r
    ELSE IF r.malformed THEN [r EXCEPT !.error = "malformed_stream"]
    ELSE IF r.trailing THEN [r EXCEPT !.error = "trailing_stream"]
    ELSE r

Parse(format, lines) == Strict(FoldLeft(LAMBDA r, t : Line(format, r, t), Nothing, lines))

\* ParseResult.success
Clean(r) == r.error = NoError /\ r.terminal

=============================================================================
