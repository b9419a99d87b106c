---------------------------- MODULE PluginSession ----------------------------
(***************************************************************************)
(* One session with a plugin process: the host's plugins.Client            *)
(* (plugins/stdio.go) with its caller, writer, reader, waiter and closer   *)
(* goroutines, two pipes, and the plugin's Server of the SDK               *)
(* (sdk/plugin-go/server.go) with a goroutine per tool.                    *)
(*                                                                         *)
(* Whatever ends a session ends it once, under the client's mutex, and     *)
(* answers every request that is still pending.  A request is known by the *)
(* call that made it: ids are never reused.  A frame is what it asks or    *)
(* answers; every way a frame can be malformed is "garbage".  Deadlines    *)
(* and timeouts may pass at any time, and the plugin may do nothing.       *)
(***************************************************************************)
EXTENDS Naturals, Sequences, FiniteSets

CONSTANTS
  Handshake, Healths, Tools, Shutdowns, \* calls, by the method they invoke
  QueueDepth,    \* writeQueueDepth
  EventDepth,    \* eventQueueDepth
  PipeDepth,     \* frames a pipe holds
  MaxConcurrent, \* ServerOptions.MaxConcurrentTools
  MaxEvents      \* bound on the events a plugin emits

ASSUME CallsAssumption ==
  /\ Handshake \notin Healths \cup Tools \cup Shutdowns
  /\ Healths \cap Tools = {} /\ (Healths \cup Tools) \cap Shutdowns = {}
ASSUME DepthAssumption ==
  /\ QueueDepth \in Nat \ {0} /\ EventDepth \in Nat /\ PipeDepth \in Nat \ {0}
  /\ MaxConcurrent \in Nat \ {0} /\ MaxEvents \in Nat

VARIABLES
  call,    \* where every call is, or how it ended
  ack,     \* what the writer told the call of its frame
  answer,  \* the call's response channel, of capacity one
  pending, \* Client.pending
  cancels, \* requests whose cancellation is waiting to be queued
  queue, writer, stdin,    \* Client.writes, the frame being written, the pipe
  stdout, reader, events,  \* the pipe back, the reader, Client.events
  session, \* whether it is done, being closed, its pipes open; who ended it
  server,  \* the plugin's Server
  process  \* "running", or how it ended

host == <<call, ack, answer, pending, cancels, queue, writer, reader, events, session>>
plugin == <<server, process>>
vars == <<host, stdin, stdout, plugin>>

Calls == {Handshake} \cup Healths \cup Tools \cup Shutdowns
NoFrame == <<>>

Underway == {"queueing", "writing", "waiting"}
Ended == {"answered", "refused", "exited", "unsent", "abandoned"}

Request(c) == [type |-> "request", call |-> c]
Cancel(c) == [type |-> "cancel", call |-> c]
Reply(type, c) == [type |-> type, call |-> c]
Event == [type |-> "event", call |-> Handshake]
Garbage == [type |-> "garbage", call |-> Handshake]

Returns(c, how) == call' = [call EXCEPT ![c] = how]

-----------------------------------------------------------------------------
(* The end of a session.                                                   *)

\* Every pending request gets the error; later ones see that it is done.
FinishBy(why) ==
  IF session.done THEN UNCHANGED <<answer, pending, session>>
  ELSE /\ session' = [session EXCEPT !.done = TRUE, !.why = why]
       /\ answer' = [c \in Calls |-> IF c \in pending THEN "exit" ELSE answer[c]]
       /\ pending' = {}

-----------------------------------------------------------------------------
(* A call: register, queue the frame, await the write, await the answer.   *)

\* A start shakes hands, asks for health, and only then are tools called.
Ready(c) ==
  \/ c = Handshake
  \/ c \in Healths /\ call[Handshake] = "answered"
  \/ c \in Tools \cup Shutdowns /\ \A h \in Healths \cup {Handshake} : call[h] = "answered"

Invoke(c) ==
  /\ call[c] = "idle" /\ Ready(c)
  /\ IF session.done THEN Returns(c, "exited") /\ UNCHANGED pending
     ELSE Returns(c, "queueing") /\ pending' = pending \cup {c}
  /\ UNCHANGED <<ack, answer, cancels, queue, writer, reader, events, session, stdin, stdout, plugin>>

\* A frame above the size limit is refused before it is queued.
Oversized(c) ==
  /\ call[c] = "queueing" /\ c \in Tools
  /\ Returns(c, "unsent") /\ pending' = pending \ {c}
  /\ UNCHANGED <<ack, answer, cancels, queue, writer, reader, events, session, stdin, stdout, plugin>>

Enqueue(c) ==
  /\ call[c] = "queueing" /\ Len(queue) < QueueDepth
  /\ Returns(c, "writing") /\ queue' = Append(queue, Request(c))
  /\ UNCHANGED <<ack, answer, pending, cancels, writer, reader, events, session, stdin, stdout, plugin>>

Written(c) ==
  /\ call[c] = "writing" /\ ack[c] # "none"
  /\ IF ack[c] = "ok" THEN Returns(c, "waiting") /\ UNCHANGED pending
     ELSE Returns(c, "unsent") /\ pending' = pending \ {c}
  /\ UNCHANGED <<ack, answer, cancels, queue, writer, reader, events, session, stdin, stdout, plugin>>

Outcome(response) ==
  CASE response = "reply" -> "answered"
    [] response = "error" -> "refused"
    [] OTHER -> "exited"

Answered(c) ==
  /\ call[c] = "waiting" /\ answer[c] # "none"
  /\ Returns(c, Outcome(answer[c]))
  /\ UNCHANGED <<ack, answer, pending, cancels, queue, writer, reader, events, session, stdin, stdout, plugin>>

\* Mutant: an ended session is reported even to a call whose answer is there.
AfterExitAtOnce(c) == "exited"

\* What a call that is past its write returns when the session is done.
AfterExit(c) == Outcome(answer[c])

\* Mutant: only a call that awaits its answer watches the session's end.
WatchesAnswer(c) == call[c] = "waiting"

Watches(c) == call[c] \in Underway

\* A select with several channels ready takes any: the end of the session may
\* be seen while the write has been acknowledged and the answer is there.
SeeExit(c) ==
  /\ Watches(c) /\ session.done
  /\ Returns(c, IF call[c] = "waiting" THEN AfterExit(c) ELSE "unsent")
  /\ pending' = pending \ {c}
  /\ UNCHANGED <<ack, answer, cancels, queue, writer, reader, events, session, stdin, stdout, plugin>>

Forgotten(c) == pending \ {c}

\* The call's context ends; the plugin is told by a goroutine of its own.
GiveUp(c) ==
  /\ call[c] \in Underway
  /\ Returns(c, "abandoned") /\ pending' = Forgotten(c)
  /\ cancels' = IF session.done THEN cancels ELSE cancels \cup {c}
  /\ UNCHANGED <<ack, answer, queue, writer, reader, events, session, stdin, stdout, plugin>>

EnqueueCancel(c) ==
  /\ c \in cancels /\ Len(queue) < QueueDepth /\ ~session.done
  /\ cancels' = cancels \ {c} /\ queue' = Append(queue, Cancel(c))
  /\ UNCHANGED <<call, ack, answer, pending, writer, reader, events, session, stdin, stdout, plugin>>

\* It is given up when it could not be queued in time or the session ended.
CancelExpires(c) ==
  /\ c \in cancels /\ (Len(queue) = QueueDepth \/ session.done)
  /\ cancels' = cancels \ {c}
  /\ UNCHANGED <<call, ack, answer, pending, queue, writer, reader, events, session, stdin, stdout, plugin>>

-----------------------------------------------------------------------------
(* The writer, the only goroutine that touches stdin.                      *)

Acked(frame, result) ==
  IF frame.type = "request" THEN [ack EXCEPT ![frame.call] = result] ELSE ack

TakeFrame ==
  /\ writer.at = "idle" /\ queue # <<>>
  /\ writer' = [at |-> "writing", frame |-> Head(queue)] /\ queue' = Tail(queue)
  /\ UNCHANGED <<call, ack, answer, pending, cancels, reader, events, session, stdin, stdout, plugin>>

WriteFrame ==
  /\ writer.at = "writing"
  /\ process = "running" /\ session.stdin /\ Len(stdin) < PipeDepth
  /\ stdin' = Append(stdin, writer.frame)
  /\ ack' = Acked(writer.frame, "ok")
  /\ writer' = [at |-> "idle", frame |-> NoFrame]
  /\ UNCHANGED <<call, answer, pending, cancels, queue, reader, events, session, stdout, plugin>>

\* A full pipe for too long, a closed one, or a plugin that is gone: the
\* session is ended before the caller is told.
WriteFails ==
  /\ writer.at = "writing"
  /\ process # "running" \/ ~session.stdin \/ Len(stdin) = PipeDepth
  /\ FinishBy(IF process = "running" THEN "write" ELSE "gone")
  /\ writer' = [writer EXCEPT !.at = "failing"]
  /\ UNCHANGED <<call, ack, cancels, queue, reader, events, stdin, stdout, plugin>>

TellFailure ==
  /\ writer.at = "failing"
  /\ ack' = Acked(writer.frame, "error")
  /\ writer' = [at |-> "gone", frame |-> NoFrame]
  /\ UNCHANGED <<call, answer, pending, cancels, queue, reader, events, session, stdin, stdout, plugin>>

WriterEnds ==
  /\ writer.at = "idle" /\ session.done
  /\ writer' = [at |-> "gone", frame |-> NoFrame]
  /\ UNCHANGED <<call, ack, answer, pending, cancels, queue, reader, events, session, stdin, stdout, plugin>>

-----------------------------------------------------------------------------
(* The reader, and the waiter that reaps the process.                      *)

\* A response is for the call that is still pending under its id; taking it
\* and sending it are two steps.  Events beyond the buffer are dropped, and a
\* frame that does not parse or is too long ends the session.
ReadFrame ==
  /\ reader.at = "reading" /\ session.stdout /\ stdout # <<>>
  /\ LET m == Head(stdout) IN
     CASE m.type \in {"reply", "error"} ->
            /\ reader' = IF m.call \in pending THEN [at |-> "delivering", frame |-> m] ELSE reader
            /\ pending' = pending \ {m.call}
            /\ UNCHANGED <<answer, events, session>>
       [] m.type = "event" ->
            /\ events' = IF events < EventDepth THEN events + 1 ELSE events
            /\ UNCHANGED <<answer, pending, reader, session>>
       [] m.type = "garbage" ->
            /\ FinishBy("garbage")
            /\ reader' = [at |-> "eof", frame |-> NoFrame]
            /\ UNCHANGED events
  /\ stdout' = Tail(stdout)
  /\ UNCHANGED <<call, ack, cancels, queue, writer, stdin, plugin>>

Deliver ==
  /\ reader.at = "delivering"
  /\ answer' = [answer EXCEPT ![reader.frame.call] = reader.frame.type]
  /\ reader' = [at |-> "reading", frame |-> NoFrame]
  /\ UNCHANGED <<call, ack, pending, cancels, queue, writer, events, session, stdin, stdout, plugin>>

ReadEnd ==
  /\ reader.at = "reading"
  /\ ~session.stdout \/ (stdout = <<>> /\ process # "running")
  /\ reader' = [at |-> "eof", frame |-> NoFrame]
  /\ UNCHANGED <<call, ack, answer, pending, cancels, queue, writer, events, session, stdin, stdout, plugin>>

\* The process was reaped: what it wrote is read first, for a while.
Reaped(drained) ==
  /\ process # "running" /\ session.reaped = FALSE
  /\ drained <=> reader.at = "eof"
  /\ IF session.done THEN session' = [session EXCEPT !.reaped = TRUE] /\ UNCHANGED <<answer, pending>>
     ELSE /\ session' = [session EXCEPT !.done = TRUE, !.reaped = TRUE,
                                        !.why = IF drained THEN "exit" ELSE "timeout"]
          /\ answer' = [c \in Calls |-> IF c \in pending THEN "exit" ELSE answer[c]]
          /\ pending' = {}
  /\ UNCHANGED <<call, ack, cancels, queue, writer, reader, events, stdin, stdout, plugin>>

\* A done session lets go of its pipes.
Release ==
  /\ session.done /\ (session.stdin \/ session.stdout)
  /\ session' = [session EXCEPT !.stdin = FALSE, !.stdout = FALSE]
  /\ UNCHANGED <<call, ack, answer, pending, cancels, queue, writer, reader, events, stdin, stdout, plugin>>

-----------------------------------------------------------------------------
(* Closing: by the owner's stop, or when the lifecycle context is cancelled. *)

CloseStdin ==
  /\ session.closing = "no"
  /\ session' = [session EXCEPT !.closing = "waiting", !.stdin = FALSE]
  /\ UNCHANGED <<call, ack, answer, pending, cancels, queue, writer, reader, events, stdin, stdout, plugin>>

Killed == IF process = "running" THEN "killed" ELSE process

\* Out of patience, with a process that did not end by itself.
CloseKills ==
  /\ session.closing = "waiting" /\ ~session.done
  /\ process' = Killed
  /\ session' = [session EXCEPT !.closing = "killed"]
  /\ UNCHANGED <<call, ack, answer, pending, cancels, queue, writer, reader, events, stdin, stdout, server>>

\* A close finds the session done already, or waits until it is.
CloseEnds ==
  /\ session.closing \in {"waiting", "killed"} /\ session.done
  /\ session' = [session EXCEPT !.closing = "closed"]
  /\ UNCHANGED <<call, ack, answer, pending, cancels, queue, writer, reader, events, stdin, stdout, plugin>>

-----------------------------------------------------------------------------
(* The plugin.                                                             *)

Says(m) ==
  IF session.stdout THEN Len(stdout) < PipeDepth /\ stdout' = Append(stdout, m)
  ELSE stdout' = stdout

\* The requests a server answers at once: the handshake, health, one it is
\* not ready for, and a tool whose arguments, deadline or number it refuses.
Inline(c) ==
  CASE c = Handshake -> {"reply"}
    [] ~server.ready -> {"error"}
    [] c \in Healths -> {"reply"}
    [] c \in Tools -> {"error"}
    [] OTHER -> {}

HandleInline ==
  /\ process = "running" /\ server.at = "reading" /\ stdin # <<>>
  /\ Head(stdin).type = "request"
  /\ \E kind \in Inline(Head(stdin).call) :
       /\ Says(Reply(kind, Head(stdin).call))
       /\ server' = [server EXCEPT !.ready = @ \/ Head(stdin).call = Handshake,
                                   !.said = @ \cup {Head(stdin).call}]
  /\ stdin' = Tail(stdin)
  /\ UNCHANGED <<host, process>>

\* A tool runs in a goroutine of its own, below the limit.
HandleTool ==
  /\ process = "running" /\ server.at = "reading" /\ stdin # <<>>
  /\ Head(stdin).type = "request" /\ Head(stdin).call \in Tools /\ server.ready
  /\ Cardinality(server.inflight) < MaxConcurrent
  /\ server' = [server EXCEPT !.inflight = @ \cup {Head(stdin).call}]
  /\ stdin' = Tail(stdin)
  /\ UNCHANGED <<host, stdout, process>>

HandleCancel ==
  /\ process = "running" /\ server.at = "reading" /\ stdin # <<>>
  /\ Head(stdin).type = "cancel"
  /\ server' = [server EXCEPT !.cancelled = @ \cup (server.inflight \cap {Head(stdin).call})]
  /\ stdin' = Tail(stdin)
  /\ UNCHANGED <<host, stdout, process>>

\* A shutdown cancels what runs and waits for it, reading nothing meanwhile.
HandleShutdown ==
  /\ process = "running" /\ server.at = "reading" /\ stdin # <<>>
  /\ Head(stdin).type = "request" /\ Head(stdin).call \in Shutdowns /\ server.ready
  /\ server' = [server EXCEPT !.at = "stopping", !.asked = {Head(stdin).call},
                              !.cancelled = @ \cup server.inflight]
  /\ stdin' = Tail(stdin)
  /\ UNCHANGED <<host, stdout, process>>

ToolEnds(c) ==
  /\ process = "running" /\ c \in server.inflight
  /\ \E kind \in {"reply", "error"} : Says(Reply(kind, c))
  /\ server' = [server EXCEPT !.inflight = @ \ {c}, !.cancelled = @ \ {c}, !.said = @ \cup {c}]
  /\ UNCHANGED <<host, stdin, process>>

ShutdownAnswered ==
  /\ process = "running" /\ server.at = "stopping" /\ server.inflight = {}
  /\ \E c \in server.asked :
       /\ Says(Reply("reply", c))
       /\ server' = [server EXCEPT !.at = "stopped", !.ready = FALSE, !.asked = {},
                                   !.said = @ \cup {c}]
  /\ UNCHANGED <<host, stdin, process>>

\* The end of stdin ends the server the same way, without an answer.
InputEnds ==
  /\ process = "running" /\ server.at = "reading" /\ stdin = <<>> /\ ~session.stdin
  /\ server' = [server EXCEPT !.at = "stopped", !.cancelled = @ \cup server.inflight]
  /\ UNCHANGED <<host, stdin, stdout, process>>

Exits ==
  /\ process = "running" /\ server.at = "stopped" /\ server.inflight = {}
  /\ process' = "exited"
  /\ UNCHANGED <<host, stdin, stdout, server>>

Emit ==
  /\ process = "running" /\ server.ready /\ server.emitted < MaxEvents
  /\ Says(Event)
  /\ server' = [server EXCEPT !.emitted = @ + 1]
  /\ UNCHANGED <<host, stdin, process>>

\* A plugin may crash, and it may write what is not a frame.
Crashes ==
  /\ process = "running" /\ process' = "crashed"
  /\ UNCHANGED <<host, stdin, stdout, server>>

Babbles ==
  /\ process = "running" /\ server.emitted < MaxEvents
  /\ Says(Garbage)
  /\ server' = [server EXCEPT !.emitted = MaxEvents]
  /\ UNCHANGED <<host, stdin, process>>

-----------------------------------------------------------------------------
\* A session in which the calls of A have been answered.
InitAfter(A) ==
  /\ call = [c \in Calls |-> IF c \in A THEN "answered" ELSE "idle"]
  /\ ack = [c \in Calls |-> IF c \in A THEN "ok" ELSE "none"]
  /\ answer = [c \in Calls |-> IF c \in A THEN "reply" ELSE "none"]
  /\ pending = {} /\ cancels = {}
  /\ queue = <<>> /\ stdin = <<>> /\ stdout = <<>> /\ events = 0
  /\ writer = [at |-> "idle", frame |-> NoFrame]
  /\ reader = [at |-> "reading", frame |-> NoFrame]
  /\ session = [done |-> FALSE, why |-> "none", closing |-> "no", stdin |-> TRUE,
                stdout |-> TRUE, reaped |-> FALSE]
  /\ server = [at |-> "reading", ready |-> A # {}, inflight |-> {}, cancelled |-> {},
               asked |-> {}, said |-> A, emitted |-> 0]
  /\ process = "running"

Init == InitAfter({})

\* What a call does without its context or the plugin.
Proceeds(c) ==
  Enqueue(c) \/ Written(c) \/ Answered(c) \/ SeeExit(c)

Writer == TakeFrame \/ WriteFrame \/ WriteFails \/ TellFailure \/ WriterEnds
Reader == ReadFrame \/ Deliver \/ ReadEnd
Waiter == \E drained \in BOOLEAN : Reaped(drained)
Closer == CloseKills \/ CloseEnds

Plugin ==
  \/ HandleInline \/ HandleTool \/ HandleCancel \/ HandleShutdown
  \/ \E c \in Tools : ToolEnds(c)
  \/ ShutdownAnswered \/ InputEnds \/ Exits \/ Emit \/ Crashes \/ Babbles

Next ==
  \/ \E c \in Calls : \/ Invoke(c) \/ Oversized(c) \/ Proceeds(c) \/ GiveUp(c)
                      \/ EnqueueCancel(c) \/ CancelExpires(c)
  \/ Writer \/ Reader \/ Waiter \/ Release \/ CloseStdin \/ Closer \/ Plugin

\* The host's goroutines run; nothing is asked of the plugin, of contexts, or
\* of the owner, who need not close.
Fairness ==
  /\ \A c \in Calls : WF_vars(Proceeds(c))
  /\ WF_vars(Writer) /\ WF_vars(Reader) /\ WF_vars(Waiter)
  /\ WF_vars(Release) /\ WF_vars(Closer)

Spec == Init /\ [][Next]_vars /\ Fairness
=============================================================================
