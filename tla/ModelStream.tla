------------------------------ MODULE ModelStream ------------------------------
(***************************************************************************)
(* One request to an OpenAI-compatible provider (providers/openai:         *)
(* client.go, timeout.go, stream.go) and the runtime's loop that consumes  *)
(* its stream (agent/runtime.go).  Four parties run at the same time: the  *)
(* provider, which answers, streams its frames, stalls or hangs up; the    *)
(* consumer, which retries the request and reads the frames; the watchdog, *)
(* whose timer calls back on a goroutine of its own; and the owner, who    *)
(* may stop the run.                                                       *)
(*                                                                         *)
(* What the model says comes down to tool calls, cut to pieces the way     *)
(* the dialects of the providers do it; text is left out, and so is a      *)
(* failure of the sink.  A read hands over one frame, or a comment.  Time  *)
(* is a bounded count.                                                     *)
(***************************************************************************)
EXTENDS Naturals, Sequences, SequencesExt

CONSTANTS
  Calls,         \* the tool calls of the answer, as indices
  Pieces,        \* pieces the arguments of a call come in
  Dialects,      \* of "chat", "noids", "whole", "responses", "json"
  MaxAttempts,   \* requests that are made at most
  FirstByte,     \* budget until the first byte of the body
  Idle,          \* budget between two reads of it
  InitialBackoff, MaxBackoff, MaxRetryAfter, RetryHints,
  MaxEvents,     \* events one stream may hand over
  MaxWire,       \* frames on the wire that were not read
  None,
  Horizon

\* The budgets are numbers of ticks.
StreamAssumption == FirstByte \in Nat /\ Idle \in Nat

VARIABLES
  dialect,   \* how the provider writes
  request,   \* what the request is doing, its attempt, and when it wakes up
  watchdog,  \* the deadline of the stream
  expiring,  \* its timer has called back and the callback has not run
  owner,     \* the owner has stopped the run
  cut,       \* the context of the request is cancelled
  sent,      \* how much of every call is sent, and of the end
  wire,      \* frames that were not read
  net,       \* the connection: "open", "eof", "torn" or "reset"
  reader,    \* the stream the consumer holds
  built,     \* the tool calls it has put together, in order
  result,    \* how the consumer's loop ended
  now,
  lastRead   \* when the last byte was read

provider == <<dialect, sent, wire, net>>
vars == <<dialect, request, watchdog, expiring, owner, cut, sent, wire, net, reader, built,
          result, now, lastRead>>

-----------------------------------------------------------------------------
(* What a provider sends.                                                  *)

Id(c) == <<"id", c>>
Item(c) == <<"item", c>>
Whole(c) == [k \in 1..Pieces |-> <<c, k>>]

Chunk(index, id, named, args) ==
  [kind |-> "chunk", index |-> index, id |-> id, named |-> named, args |-> args]
Part(kind, item, id, named, args) ==
  [kind |-> kind, index |-> item, id |-> id, named |-> named, args |-> args]
Mark(kind) == Part(kind, None, None, FALSE, <<>>)

FramesOf(c) ==
  CASE dialect = "chat" ->
         [k \in 1..Pieces |-> Chunk(c, IF k = 1 THEN Id(c) ELSE None, k = 1, <<<<c, k>>>>)]
    [] dialect = "noids" -> [k \in 1..Pieces |-> Chunk(c, None, k = 1, <<<<c, k>>>>)]
    [] dialect = "whole" -> <<Chunk(None, Id(c), TRUE, Whole(c))>>
    [] dialect = "responses" ->
         <<Part("added", Item(c), Id(c), TRUE, <<>>)>>
           \o [k \in 1..Pieces |-> Part("delta", Item(c), None, FALSE, <<<<c, k>>>>)]
           \o <<Part("done", Item(c), Id(c), TRUE, Whole(c))>>
    [] OTHER -> <<>>

\* How an answer ends: a finish reason, the usage and a marker, or one event.
Ending ==
  CASE dialect = "responses" -> <<Mark("completed")>>
    [] dialect = "json" -> <<Mark("body")>>
    [] OTHER -> <<Mark("completed"), Mark("completed"), Mark("[DONE]")>>

AllSent == \A c \in Calls : sent[c] = Len(FramesOf(c))
Finished == AllSent /\ sent[0] = Len(Ending)

-----------------------------------------------------------------------------
(* The watchdog.                                                           *)

Armed(w, budget) == [w EXCEPT !.due = now + budget, !.armedAt = now, !.budget = budget]

\* Activity retires the first budget and arms the idle one.
activity(w) == IF w.stopped \/ w.fired THEN w ELSE Armed([w EXCEPT !.saw = TRUE], Idle)

stop(w) == [w EXCEPT !.stopped = TRUE, !.due = None]

\* The timer calls back on its own goroutine.
TimerFires ==
  /\ watchdog.due # None /\ watchdog.due <= now
  /\ watchdog' = [watchdog EXCEPT !.due = None] /\ expiring' = TRUE
  /\ UNCHANGED <<provider, request, owner, cut, reader, built, result, now, lastRead>>

\* It does nothing after a stop, waits on when activity has armed the timer
\* again in the meantime, and otherwise cancels the request.
expire ==
  /\ expiring /\ expiring' = FALSE
  /\ IF watchdog.stopped \/ watchdog.fired THEN UNCHANGED <<watchdog, cut>>
     ELSE IF now - watchdog.armedAt < watchdog.budget THEN
       /\ watchdog' = Armed(watchdog, watchdog.budget - (now - watchdog.armedAt))
       /\ UNCHANGED cut
     ELSE
       /\ watchdog' = [stop(watchdog) EXCEPT !.fired = TRUE, !.idle = watchdog.saw,
                                             !.quiet = now - lastRead]
       /\ cut' = TRUE
  /\ UNCHANGED <<provider, request, owner, reader, built, result, now, lastRead>>

TimeoutKind == IF watchdog.idle THEN "stalled" ELSE "no first byte"

-----------------------------------------------------------------------------
(* The request.                                                            *)

\* Start gives up: the watchdog stops, the request's context is cancelled.
GivesUp(kind) ==
  /\ result' = [kind |-> kind, stopped |-> owner]
  /\ request' = [request EXCEPT !.phase = "over"] /\ watchdog' = stop(watchdog) /\ cut' = TRUE

\* A cancelled request is the owner's stop, or a time out of the watchdog.
StoppedKind == IF ~owner /\ watchdog.fired THEN TimeoutKind ELSE "cancelled"

Start ==
  /\ request.phase = "idle"
  /\ IF owner THEN
       /\ result' = [kind |-> "cancelled", stopped |-> TRUE]
       /\ request' = [request EXCEPT !.phase = "over"] /\ UNCHANGED <<watchdog, cut>>
     ELSE
       /\ request' = [phase |-> "sending", attempt |-> 1, wake |-> 0]
       /\ watchdog' = Armed(watchdog, FirstByte) /\ lastRead' = now
       /\ UNCHANGED <<result, cut>>
  /\ (owner => UNCHANGED lastRead)
  /\ UNCHANGED <<provider, expiring, owner, reader, built, now>>

Doubled[n \in 1..MaxAttempts] ==
  IF n = 1 THEN InitialBackoff
  ELSE IF 2 * Doubled[n - 1] >= MaxBackoff THEN MaxBackoff ELSE 2 * Doubled[n - 1]

\* A hint of the provider is capped; without one the delays double.
Backoff(hint) ==
  IF hint > 0 THEN (IF hint > MaxRetryAfter THEN MaxRetryAfter ELSE hint)
  ELSE Doubled[request.attempt]

waitBackoff(hint) ==
  /\ request' = [request EXCEPT !.phase = "backoff", !.wake = now + Backoff(hint)]
  /\ UNCHANGED <<watchdog, cut, result>>

\* The provider answers one attempt, the connection fails, or the wait ends.
Attempt ==
  /\ request.phase = "sending"
  /\ \/ cut /\ GivesUp(StoppedKind)
     \/ ~cut /\ request' = [request EXCEPT !.phase = "open"] /\ UNCHANGED <<watchdog, cut, result>>
     \/ ~cut /\ GivesUp("http")                                           \* not worth a retry
     \/ \E hint \in RetryHints :
          ~cut /\ IF request.attempt = MaxAttempts THEN GivesUp("http") ELSE waitBackoff(hint)
     \/ ~cut /\ IF request.attempt = MaxAttempts THEN GivesUp("network") ELSE waitBackoff(0)
  /\ UNCHANGED <<provider, expiring, owner, reader, built, now, lastRead>>

Retry ==
  /\ request.phase = "backoff"
  /\ \/ cut /\ GivesUp(StoppedKind)
     \/ request.wake <= now
        /\ request' = [request EXCEPT !.phase = "sending", !.attempt = @ + 1]
        /\ UNCHANGED <<watchdog, cut, result>>
  /\ UNCHANGED <<provider, expiring, owner, reader, built, now, lastRead>>

-----------------------------------------------------------------------------
(* Parsing.                                                                *)

Event(kind, id, named, args) == [kind |-> kind, id |-> id, named |-> named, args |-> args]
Completed == Event("completed", None, FALSE, <<>>)

Remembered(ids, key, id) == [k \in DOMAIN ids \cup {key} |-> IF k = key THEN id ELSE ids[k]]

\* A piece without an id belongs to the call its index was last used for.
chatToolCallEvents(f, ids) ==
  LET index == IF f.index = None THEN 0 ELSE f.index
      id == IF f.id # None THEN f.id
            ELSE IF index \in DOMAIN ids THEN ids[index] ELSE <<"call", index>>
  IN  [ids |-> Remembered(ids, index, id),
       events |-> IF f.named THEN <<Event("started", id, TRUE, <<>>), Event("delta", id, FALSE, f.args)>>
                  ELSE <<Event("delta", id, FALSE, f.args)>>]

CallOf(f, ids) == IF f.index \in DOMAIN ids THEN ids[f.index] ELSE f.index

\* An item of the output starts a call, or has the whole of it.
responsesOutputItem(f, ids, done) ==
  [ids |-> Remembered(ids, f.index, f.id),
   events |-> <<Event(IF done THEN "done" ELSE "started", f.id, TRUE, f.args)>>]

parseResponses(f, ids) ==
  CASE f.kind = "added" -> responsesOutputItem(f, ids, FALSE)
    [] f.kind = "delta" -> [ids |-> ids, events |-> <<Event("delta", CallOf(f, ids), FALSE, f.args)>>]
    [] f.kind = "done" -> responsesOutputItem(f, ids, TRUE)
    [] OTHER -> [ids |-> ids, events |-> <<Completed>>]

\* A finish reason and a last usage each say that the answer is complete.
parseChat(f, ids) ==
  IF f.kind = "chunk" THEN chatToolCallEvents(f, ids) ELSE [ids |-> ids, events |-> <<Completed>>]

\* A body that was not streamed has every call whole, and ends the answer.
parseJSON ==
  LET calls == SetToSeq(Calls)
  IN  FlattenSeq([i \in DOMAIN calls |-> <<Event("started", Id(calls[i]), TRUE, <<>>),
                                          Event("done", Id(calls[i]), TRUE, Whole(calls[i]))>>])
        \o <<Completed>>

Parsed(f, ids) == IF dialect = "responses" THEN parseResponses(f, ids) ELSE parseChat(f, ids)

-----------------------------------------------------------------------------
(* The consumer.                                                           *)

Open == request.phase = "open" /\ result.kind = "none"

Ends(kind) == result' = [kind |-> kind, stopped |-> owner]

\* At the end of the stream a call without a name fails the answer.
Flushes == Ends(IF \A i \in DOMAIN built : built[i].named THEN "ok" ELSE "nameless")

\* Recv: a stopped run, then what is pending, then the limit, then a read.
Recv ==
  /\ Open /\ ~reader.reading /\ (owner \/ reader.pending = <<>>)
  /\ IF owner THEN Ends("cancelled") /\ UNCHANGED reader
     ELSE IF reader.events >= MaxEvents THEN Ends("stream") /\ UNCHANGED reader
     ELSE IF reader.bodyConsumed THEN Flushes /\ UNCHANGED reader
     ELSE reader' = [reader EXCEPT !.reading = TRUE] /\ UNCHANGED result
  /\ UNCHANGED <<provider, request, watchdog, expiring, owner, cut, built, now, lastRead>>

\* What an event does to the call it is about.
Extended(b, e) ==
  [b EXCEPT !.named = @ \/ e.named,
            !.args = IF e.kind = "delta" THEN @ \o e.args
                     ELSE IF e.args # <<>> THEN e.args ELSE @]

normalizeCallID(id) == IF id = None THEN <<"call", Len(built) + 1>> ELSE id

consumed(e) ==
  LET id == normalizeCallID(e.id)
      known == \E i \in DOMAIN built : built[i].id = id
      fresh == [id |-> id, named |-> FALSE, args |-> <<>>]
  IN  IF known THEN [i \in DOMAIN built |-> IF built[i].id = id THEN Extended(built[i], e) ELSE built[i]]
      ELSE Append(built, Extended(fresh, e))

\* Recv hands over what is pending, and consumeStream puts it together.
consumeStream ==
  /\ Open /\ ~reader.reading /\ reader.pending # <<>> /\ ~owner
  /\ reader' = [reader EXCEPT !.pending = Tail(@), !.events = @ + 1]
  /\ built' = IF Head(reader.pending).kind = "completed" THEN built ELSE consumed(Head(reader.pending))
  /\ UNCHANGED <<provider, request, watchdog, expiring, owner, cut, result, now, lastRead>>

\* The end marker says that the answer is complete, unless one before it has.
finish ==
  IF reader.completed THEN Flushes /\ UNCHANGED reader
  ELSE /\ reader' = [reader EXCEPT !.completed = TRUE, !.reading = FALSE, !.pending = <<Completed>>]
       /\ UNCHANGED result

\* A frame is parsed to the events that the stream hands over.
recvFrame(f) ==
  IF f.kind = "[DONE]" THEN finish
  ELSE LET p == Parsed(f, reader.ids) IN
    /\ reader' = [reader EXCEPT !.ids = p.ids, !.pending = p.events, !.reading = FALSE]
    /\ UNCHANGED result

\* A read that gets bytes is activity.
nextFrame ==
  /\ Open /\ reader.reading /\ wire # <<>> /\ dialect # "json" /\ ~cut
  /\ wire' = Tail(wire) /\ watchdog' = activity(watchdog) /\ lastRead' = now
  /\ recvFrame(Head(wire))
  /\ UNCHANGED <<dialect, sent, net, request, expiring, owner, cut, built, now>>

\* A body that is not streamed is read to its end before it is parsed.
recvJSON ==
  /\ Open /\ reader.reading /\ wire # <<>> /\ dialect = "json" /\ net = "eof" /\ ~cut
  /\ wire' = <<>> /\ watchdog' = stop(watchdog) /\ cut' = TRUE /\ lastRead' = now
  /\ reader' = [reader EXCEPT !.pending = parseJSON, !.reading = FALSE,
                              !.completed = TRUE, !.bodyConsumed = TRUE]
  /\ UNCHANGED <<dialect, sent, net, request, expiring, owner, built, result, now>>

\* A comment, or a part of the body, keeps the connection alive.
Comment ==
  /\ Open /\ reader.reading /\ (wire = <<>> \/ dialect = "json") /\ net = "open" /\ ~cut /\ lastRead < now
  /\ watchdog' = activity(watchdog) /\ lastRead' = now
  /\ UNCHANGED <<provider, request, expiring, owner, cut, reader, built, result, now>>

\* The end of the body releases the watchdog, wherever the answer is cut; half
\* a frame cannot be decoded, nor half a body.
ReadsEnd ==
  /\ Open /\ reader.reading /\ wire = <<>> /\ net \in {"eof", "torn"} /\ ~cut
  /\ watchdog' = stop(watchdog) /\ cut' = TRUE
  /\ IF net = "torn" \/ dialect = "json" THEN Ends("stream") ELSE Flushes
  /\ UNCHANGED <<provider, request, expiring, owner, reader, built, now, lastRead>>

\* A read that fails names the watchdog's time out if there was one; any other
\* error, a cancelled context among them, becomes an error of the stream.
ReadFails ==
  /\ Open /\ reader.reading /\ (cut \/ (net = "reset" /\ (wire = <<>> \/ dialect = "json")))
  /\ Ends(IF watchdog.fired THEN TimeoutKind ELSE "stream")
  /\ UNCHANGED <<provider, request, watchdog, expiring, owner, cut, reader, built, now, lastRead>>

\* Mutant: closing the stream cancels the request and leaves the timer.
CloseCancels ==
  /\ request.phase = "open" /\ result.kind # "none"
  /\ request' = [request EXCEPT !.phase = "over"]
  /\ cut' = TRUE
  /\ UNCHANGED <<provider, watchdog, expiring, owner, reader, built, result, now, lastRead>>

\* The consumer closes the stream however its loop ended.
Close ==
  /\ request.phase = "open" /\ result.kind # "none"
  /\ request' = [request EXCEPT !.phase = "over"]
  /\ watchdog' = stop(watchdog) /\ cut' = TRUE
  /\ UNCHANGED <<provider, expiring, owner, reader, built, result, now, lastRead>>

-----------------------------------------------------------------------------
(* The provider, the owner, and time.                                      *)

Sends ==
  /\ request.phase = "open" /\ net = "open" /\ Len(wire) < MaxWire
  /\ \/ \E c \in Calls :
          /\ sent[c] < Len(FramesOf(c))
          /\ wire' = Append(wire, FramesOf(c)[sent[c] + 1])
          /\ sent' = [sent EXCEPT ![c] = @ + 1]
     \/ /\ AllSent /\ sent[0] < Len(Ending)
        /\ wire' = Append(wire, Ending[sent[0] + 1]) /\ sent' = [sent EXCEPT ![0] = @ + 1]
  /\ UNCHANGED <<dialect, net, request, watchdog, expiring, owner, cut, reader, built, result, now, lastRead>>

HangsUp ==
  /\ request.phase = "open" /\ net = "open" /\ net' \in {"eof", "reset", "torn"}
  /\ net' = "torn" => ~Finished
  /\ UNCHANGED <<dialect, sent, wire, request, watchdog, expiring, owner, cut, reader, built, result, now, lastRead>>

OwnerStops ==
  /\ ~owner /\ owner' = TRUE
  /\ cut' = (cut \/ request.phase # "idle")
  /\ UNCHANGED <<provider, request, watchdog, expiring, reader, built, result, now, lastRead>>

Tick ==
  /\ now < Horizon /\ now' = now + 1
  /\ UNCHANGED <<provider, request, watchdog, expiring, owner, cut, reader, built, result, lastRead>>

Init ==
  /\ dialect \in Dialects
  /\ request = [phase |-> "idle", attempt |-> 0, wake |-> 0]
  /\ watchdog = [due |-> None, armedAt |-> 0, budget |-> 0, stopped |-> FALSE, fired |-> FALSE,
                 idle |-> FALSE, saw |-> FALSE, quiet |-> 0]
  /\ expiring = FALSE /\ owner = FALSE /\ cut = FALSE
  /\ sent = [c \in Calls \cup {0} |-> 0] /\ wire = <<>> /\ net = "open"
  /\ reader = [pending |-> <<>>, reading |-> FALSE, completed |-> FALSE, bodyConsumed |-> FALSE,
               events |-> 0, ids |-> <<>>]
  /\ built = <<>> /\ result = [kind |-> "none", stopped |-> FALSE]
  /\ now = 0 /\ lastRead = 0

Next ==
  \/ Start \/ Attempt \/ Retry
  \/ Recv \/ consumeStream \/ nextFrame \/ recvJSON \/ Comment \/ ReadsEnd \/ ReadFails \/ Close
  \/ TimerFires \/ expire
  \/ Sends \/ HangsUp \/ OwnerStops \/ Tick

Spec == Init /\ [][Next]_vars

-----------------------------------------------------------------------------
(* Properties.                                                             *)

\* Whatever the dialect, and however the pieces of several tool calls are mixed
\* on the wire, a consumer that read a finished answer to its end holds exactly
\* the calls the model made: each once, named, with its arguments in order
\* (providers/openai/stream.go:310-344, 549-603; agent/runtime.go:338-448).
CallsAreWhole ==
  result.kind = "ok" /\ Finished /\ wire = <<>> =>
    /\ Len(built) = Len(SetToSeq(Calls))
    /\ \A c \in Calls : \E i \in DOMAIN built : built[i].named /\ built[i].args = Whole(c)

\* Only silence times a request out: the watchdog fires when nothing was read
\* for the whole budget of its phase, also when bytes arrive while its timer's
\* callback is on the way (providers/openai/timeout.go:11-22, 112-136).
TimeoutIsReal ==
  watchdog.fired => watchdog.quiet >= IF watchdog.idle THEN Idle ELSE FirstByte

\* A request that is over holds nothing: its context is cancelled and its timer
\* will not fire again, whichever of the consumer, the watchdog, the provider
\* and the owner ended it (providers/openai/timeout.go:98-110, client.go:104-137).
NothingLeaks ==
  request.phase = "over" /\ request.attempt > 0 => cut /\ watchdog.stopped /\ watchdog.due = None

\* A run the owner stopped ends with the error of its context, so that it can
\* be told from a failure of the provider: the comment on ErrorKindTimeout
\* (providers/openai/errors.go:25-28) and the one in Start (client.go:106-107).
CancellationKeepsItsError ==
  result.stopped /\ net = "open" /\ ~watchdog.fired => result.kind \in {"ok", "cancelled"}
=============================================================================
