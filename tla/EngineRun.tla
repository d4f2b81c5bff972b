------------------------------ MODULE EngineRun ------------------------------
(***************************************************************************)
(* run() of the engine adapters (harness2/adapters): OpenCode, Prime and   *)
(* Hermes run a process and read its output; the local engine and the      *)
(* direct one send an HTTP request.  Every run has an EngineResult, unless *)
(* the adapter raises.                                                     *)
(***************************************************************************)
EXTENDS EngineEvents, ProcessBoundary

CONSTANTS
    Engines,    \* engines that run
    Streams,    \* what each of them may write to standard output
    BodyLimit   \* http_body_limit of the local engine, in chunks

ASSUME EngineConstantsOK ==
    /\ Engines \subseteq {"opencode", "prime", "hermes", "local", "direct"}
    /\ BodyLimit \in Nat \ {0}

VARIABLES
    engine,  \* the engine that runs
    body,    \* the HTTP exchange
    result   \* EngineResult

vars == <<boundary, engine, body, result>>

Streaming == engine \in {"opencode", "prime"}

Lines == UNION {Range(stream) : stream \in UNION {Streams[e] : e \in Engines}}

ASSUME StreamsOK ==
    /\ \A e \in Engines : Streams[e] \subseteq Seq(Lines)
    /\ \A t \in Lines : t # Noisy

OverHTTP == engine \in {"local", "direct"}

-----------------------------------------------------------------------------
Result(success, text, code) == [success |-> success, text |-> text, code |-> code]

Failure(code) == Result(FALSE, <<>>, code)

Pending == Failure("pending")

Init ==
    /\ BoundaryInit
    /\ engine \in Engines
    /\ body = [at |-> "request", size |-> 0, got |-> 0]
    /\ result = Pending

\* The engine writes a line of one of its streams.
Writes ==
    {t \in Lines : \E stream \in Streams[engine] : IsPrefix(Append(said, t), stream)}

Processes ==
    \/ \E t \in Writes : Say(t)
    \/ Flood \/ Exit \/ HelperLives \/ HelperSays

-----------------------------------------------------------------------------
(***************************************************************************)
(* From a ProcessResult to an EngineResult.                                *)
(***************************************************************************)
\* normalize_failure(): OpenCode's codes become classes of failures, which are not
\* told apart here.
Normalized(code) == IF engine = "opencode" THEN "failure class" ELSE code

\* The end of OpenCodeAdapter.run() and PrimeAdapter.run().
Streamed(o) ==
    LET parsed == Parse(engine, o.stdout)
        ended == o.code = "ended"
    IN CASE ended /\ Clean(parsed)   -> Result(TRUE, parsed.text, NoError)
         [] parsed.error # NoError   -> Result(FALSE, parsed.text, Normalized(parsed.error))
         [] ~ended                   -> Result(FALSE, parsed.text, Normalized("process_error"))
         [] OTHER                    -> Result(FALSE, parsed.text, Normalized("truncated_stream"))

\* The end of HermesAdapter.run().
Plain(o) ==
    CASE o.code # "ended"  -> Result(FALSE, o.stdout, "process_error")
      [] o.stdout = <<>>   -> Result(FALSE, <<>>, NoError)
      [] OTHER             -> Result(TRUE, o.stdout, NoError)

Outcome(o) ==
    IF o.timed_out THEN Failure("timeout")
    ELSE IF o.limited THEN Result(FALSE, o.stdout, "output_limit")
    ELSE IF Streaming THEN Streamed(o) ELSE Plain(o)

\* The checks of an adapter before it runs anything: the executable, the policy,
\* the working directory, for Prime the daemon and for direct the model and key.
Refusals ==
    CASE engine = "opencode" -> {"unavailable", "invalid_execution"}
      [] engine = "prime"    -> {"unavailable", "invalid_execution", "daemon_unavailable"}
      [] engine = "hermes"   -> {"unavailable", "invalid_execution", "disabled"}
      [] engine = "local"    -> {"disabled", "unsafe_endpoint"}
      [] engine = "direct"   -> {"invalid_request", "unknown_provider_failure",
                                 "missing_credential"}

Refuse ==
    /\ result = Pending
    /\ At("spawn")
    /\ body.at = "request"
    /\ \E code \in Refusals : result' = Failure(code)
    /\ UNCHANGED <<boundary, engine, body>>

Answer ==
    /\ result = Pending
    /\ \/ At("refused") /\ result' \in {Failure("spawn_error"), Failure("invalid_execution")}
       \/ At("returned") /\ ~control.raised /\ result' = Outcome(out)
       \/ At("returned") /\ control.raised /\ result' = Failure("raised")
    /\ UNCHANGED <<boundary, engine, body>>

-----------------------------------------------------------------------------
(***************************************************************************)
(* The HTTP engines.  A body of size chunks arrives one by one; what is cut*)
(* short is no JSON.  Each wait for a chunk has a timeout of its own; the  *)
(* local engine has a deadline and a limit for all of them besides.        *)
(***************************************************************************)
Ends(r) ==
    /\ result' = r
    /\ body' = [body EXCEPT !.at = "ended"]

Error == IF engine = "local" THEN "local_error" ELSE "unknown_provider_failure"

Request ==
    /\ OverHTTP
    /\ result = Pending
    /\ body.at = "request"
    /\ \/ \E n \in 1..(BodyLimit + 1) :
             body' = [at |-> "body", size |-> n, got |-> 0] /\ UNCHANGED result
       \/ Ends(Failure(IF engine = "local" THEN "local_error" ELSE "network_failure"))
       \/ engine = "local" /\ Ends(Failure("unsafe_endpoint"))
       \/ engine = "direct" /\ Ends(Failure("status"))
    /\ UNCHANGED <<boundary, engine>>

BodyLate ==
    /\ body.at = "body"
    /\ ~late
    /\ late' = TRUE
    /\ UNCHANGED <<processes, reader, limited, control, out, engine, body, result>>

\* read_bounded_body() and the read() of the direct engine: a chunk, the end, or
\* a connection that is cut, which no adapter catches if http.client notices it.
Chunk ==
    /\ body.at = "body"
    /\ CASE engine = "local" /\ late -> Ends(Failure("timeout"))
         [] engine = "local" /\ body.got = BodyLimit /\ body.got < body.size ->
              Ends(Failure("output_limit"))
         [] body.got = body.size -> Ends(Result(TRUE, <<body.got>>, NoError))
         [] OTHER -> \/ body' = [body EXCEPT !.got = @ + 1] /\ UNCHANGED result
                     \/ \E code \in {Error, "raised"} : Ends(Failure(code))
    /\ UNCHANGED <<boundary, engine>>

\* The server is silent for the timeout of its headers or of a read, which
\* LocalAdapter.run() does not catch.
Silence ==
    /\ OverHTTP
    /\ result = Pending
    /\ body.at \in {"request", "body"}
    /\ Ends(Failure(IF engine = "local" THEN "raised" ELSE "timeout"))
    /\ UNCHANGED <<boundary, engine>>

HTTP == Request \/ Chunk \/ Silence

-----------------------------------------------------------------------------
Boundary(Action) ==
    /\ ~OverHTTP
    /\ Action
    /\ UNCHANGED <<engine, body, result>>

Run == result = Pending /\ Boundary(Controls)

Cancelled == result = Pending /\ Boundary(Cancel)

ReaderRuns == Boundary(Reads)

TimePasses == Boundary(Expire)

Next ==
    \/ Refuse \/ Run \/ Cancelled \/ Answer
    \/ Boundary(Processes) \/ ReaderRuns \/ TimePasses
    \/ HTTP \/ BodyLate

Spec == Init /\ [][Next]_vars

\* The controller and the reader are threads that run, and time passes; nothing is
\* asked of the engine, its helper or the server.
FairSpec ==
    /\ Spec
    /\ WF_vars(Run)
    /\ WF_vars(ReaderRuns)
    /\ WF_vars(TimePasses)

-----------------------------------------------------------------------------
(***************************************************************************)
(* Properties.                                                             *)
(***************************************************************************)
\* Lines without the helper's, and what the events of one type among them carry.
Own(lines) ==
    FoldLeft(LAMBDA own, t : IF t = Noisy THEN own ELSE Append(own, t), <<>>, lines)

PartsOf(type, lines) ==
    FoldLeft(LAMBDA parts, t : IF t.type = type THEN Append(parts, t.part) ELSE parts, <<>>, lines)

\* What an engine is taken to do: no line of its helper is an event, no error has an
\* empty text, which the parser takes for none (events.py:260-262), and Prime sends
\* each message once as message_end, never the same twice in a row, while turn_end and
\* agent_end repeat the last one or carry none.
Repeats(lines, i) ==
    \/ lines[i].part = "none"
    \/ \E k \in 1..(i - 1) :
          /\ lines[k].type = "message_end" /\ lines[k].part = lines[i].part
          /\ \A m \in (k + 1)..(i - 1) : lines[m].type # "message_end"

PrimeSpeaks(lines) ==
    \A i \in 1..Len(lines) :
        CASE lines[i].type = "message_end"              -> ~Repeats(lines, i)
          [] lines[i].type \in {"turn_end", "agent_end"} -> Repeats(lines, i)
          [] OTHER                                      -> lines[i].part # Failing

WellSpoken ==
    /\ Noisy.type = "noise"
    /\ \A t \in Lines : t.type = "error" => t.part # NoError
    /\ "prime" \in Engines => \A stream \in Streams["prime"] : PrimeSpeaks(stream)

\* A run that succeeds gives all that the engine said and nothing twice, although
\* its output is limited, its readers are left behind when a helper keeps the pipe
\* and Prime repeats its messages: the process ended with status zero, its whole
\* output was collected, and a stream ended where it said it did, without an
\* error; a body came whole (run_process, parse_opencode, parse_prime, the
\* adapters' run).
SuccessIsWhole ==
    result.success =>
        IF OverHTTP THEN body.got = body.size
        ELSE /\ leader = "ended"
             /\ Own(out.stdout) = Own(said)
             /\ CASE engine = "opencode" ->
                       /\ Last(said).type = "step_finish" /\ Last(said).part \in Endings
                       /\ PartsOf("error", said) = <<>>
                       /\ result.text = PartsOf("text", said)
                  [] engine = "prime" ->
                       /\ Last(said).type = "agent_end"
                       /\ \A i \in 1..Len(said) : said[i].part # Failing
                       /\ result.text = PartsOf("message_end", said)
                  [] OTHER -> TRUE

=============================================================================
