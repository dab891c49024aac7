----------------------------- MODULE StreamedUsage -----------------------------
(***************************************************************************)
(* An answer on its way from the upstream to the client, and the tokens    *)
(* its row is charged with.  A stream is relayed chunk by chunk and        *)
(* captured on the way; what was captured is parsed when the relay ends,   *)
(* however it ends.  Any other answer is read to its end first.            *)
(***************************************************************************)
EXTENDS Naturals, Sequences, SequencesExt

CONSTANTS
    MaxEvents,     \* bound on the events of an answer
    MaxTokens      \* bound on a count

StreamedUsageAssumption == MaxEvents \in Nat /\ MaxTokens \in Nat \ {0}

VARIABLES
    format,     \* the streams "openai", "anthropic", "bedrock", "gemini-sse"; "gemini": a JSON array
    buf,        \* the events captured
    total,      \* history: the tokens counted by the events that came whole
    pc,         \* "relay"; "ended", "left" or "broke": the relay is over; then "logged" or "failed"
    torn,       \* "no", or the last event captured is not whole: cut "within", or so "short" that it has no length
    usage       \* of the row

vars == <<format, buf, total, pc, torn, usage>>

Formats == {"openai", "anthropic", "bedrock", "gemini", "gemini-sse"}
Counts == [in : 0..MaxTokens, out : 0..MaxTokens]
Zero   == [in |-> 0, out |-> 0]
Events == [tokens : Counts, has : SUBSET {"in", "out"}, long : BOOLEAN]

TypeOK ==
    /\ format \in Formats
    /\ buf \in Seq(Events) /\ Len(buf) <= MaxEvents
    /\ total \in Counts /\ usage \in Counts /\ torn \in {"no", "short", "within"}
    /\ pc \in {"relay", "ended", "left", "broke", "logged", "failed"}

Init ==
    /\ format \in Formats
    /\ buf = <<>> /\ total = Zero
    /\ pc = "relay" /\ torn = "no"
    /\ usage = Zero

(***************************************************************************)
(* The upstream.  Counts are cumulative, and an event carries all of them, *)
(* or for Anthropic after the first one the output only, or none at all.   *)
(***************************************************************************)
Carries == IF format = "anthropic" /\ buf # <<>> THEN {"out"} ELSE {"in", "out"}

Emit(cut) ==
    /\ pc = "relay" /\ Len(buf) < MaxEvents
    /\ \E t \in Counts, has \in {{}, Carries}, long \in BOOLEAN :
          /\ \A f \in {"in", "out"} : t[f] >= total[f] /\ (f \notin has => t[f] = total[f])
          /\ long => format \in {"openai", "anthropic"}
          /\ buf' = Append(buf, [tokens |-> t, has |-> has, long |-> long])
          /\ total' = IF cut = "no" THEN t ELSE total
    /\ torn' = cut

(***************************************************************************)
(* The relay: io.Copy from a tee into the flushing writer.                 *)
(***************************************************************************)
Relayed   == Emit("no") /\ UNCHANGED <<format, pc, usage>>
Ended     == pc = "relay" /\ pc' = "ended" /\ UNCHANGED <<format, buf, total, torn, usage>>

\* The client goes or the upstream breaks off, between two events or within one.
Over(how) == /\ \/ \E cut \in {"short", "within"} : (cut = "short" => format = "bedrock") /\ Emit(cut)
                \/ pc = "relay" /\ UNCHANGED <<buf, total, torn>>
             /\ pc' = how /\ UNCHANGED <<format, usage>>
ClientLeaves    == format # "gemini" /\ Over("left")
UpstreamBreaks  == Over("broke")

(***************************************************************************)
(* The parsers.                                                            *)
(***************************************************************************)
Whole == IF torn = "no" THEN buf ELSE Front(buf)

\* A line longer than the scanner's buffer ends the scan; one that is not whole
\* is not decoded.
Scanned ==
    LET long == {i \in DOMAIN Whole : Whole[i].long} IN
    IF long = {} THEN Whole ELSE SubSeq(Whole, 1, (CHOOSE i \in long : \A j \in long : i <= j) - 1)

\* Of Anthropic's message_start only the input is taken.
Taken(events, i) == IF format = "anthropic" /\ i = 1 THEN events[i].has \ {"out"} ELSE events[i].has

FirstCount(events, f) ==      \* mutant: the first count of a stream is taken for the last
    LET at == {i \in DOMAIN events : f \in Taken(events, i)} IN
    IF at = {} THEN 0 ELSE events[CHOOSE i \in at : \A j \in at : i <= j].tokens[f]

LastCount(events, f) ==
    LET at == {i \in DOMAIN events : f \in Taken(events, i)} IN
    IF at = {} THEN 0 ELSE events[CHOOSE i \in at : \A j \in at : i >= j].tokens[f]

Count(events) == [in |-> LastCount(events, "in"), out |-> LastCount(events, "out")]

\* A frame that is cut is a parse error, which costs everything, unless too little
\* of it came to tell its length.
BedrockParser == IF torn = "within" THEN Zero ELSE Count(Whole)

\* The last element of an array is taken for the totals.  Events are no JSON.
GeminiParser == IF format = "gemini" /\ buf # <<>> THEN Count(<<Last(buf)>>) ELSE Zero

ParseResponse ==
    CASE format \in {"openai", "anthropic"} -> Count(Scanned)
      [] format = "bedrock" -> BedrockParser
      [] OTHER -> GeminiParser

LogRequest ==
    /\ pc \in {"ended", "left", "broke"}
    /\ ~(format = "gemini" /\ pc = "broke")
    /\ pc' = "logged" /\ usage' = ParseResponse
    /\ UNCHANGED <<format, buf, total, torn>>

\* A buffered answer that breaks off is answered with 502 and leaves no row.
Fail ==
    /\ format = "gemini" /\ pc = "broke"
    /\ pc' = "failed"
    /\ UNCHANGED <<format, buf, total, torn, usage>>

Next == Relayed \/ Ended \/ ClientLeaves \/ UpstreamBreaks \/ LogRequest \/ Fail

Spec == Init /\ [][Next]_vars
-----------------------------------------------------------------------------
\* However the relay ends, the row is charged with what the events that came whole
\* had counted, and with less only if a line was too long for the scanner, if an
\* Anthropic stream ended before any message_delta, whose output then goes uncharged,
\* if the cut went through a Bedrock frame, if the last element of a Gemini array
\* carries no counts, or if Gemini answered with a stream of events.  It is never
\* charged with more.
UsageLostOnlyByCut ==
    pc = "logged" =>
        /\ \/ usage = total
           \/ \E i \in DOMAIN buf : buf[i].long
           \/ /\ format = "anthropic" /\ usage.in = total.in
              /\ \A i \in 2..Len(Whole) : "out" \notin Whole[i].has
           \/ format = "bedrock" /\ torn = "within"
           \/ format = "gemini" /\ buf # <<>> /\ Last(buf).has # {"in", "out"}
           \/ format = "gemini-sse"
        /\ usage.in <= total.in /\ usage.out <= total.out
=============================================================================
