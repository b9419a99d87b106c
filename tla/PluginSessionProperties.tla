----------------------- MODULE PluginSessionProperties -----------------------
(* What a caller of a plugin may rely on, however the session ends. *)
EXTENDS PluginSession

Frames == [type : {"request", "cancel"}, call : Calls]

\* The values, and that only a call that still waits is pending: one that
\* returned left nothing behind, one that was answered or whose answer is
\* being delivered is not answered again, and a done session has none
\* (plugins/stdio.go:283, 329).
SessionTypeOK ==
  /\ call \in [Calls -> Underway \cup Ended \cup {"idle"}]
  /\ Len(queue) <= QueueDepth /\ Len(stdin) <= PipeDepth /\ Len(stdout) <= PipeDepth
  /\ \A i \in DOMAIN queue : queue[i] \in Frames
  /\ events <= EventDepth
  /\ \A c \in pending : call[c] \in Underway /\ answer[c] = "none"
  /\ session.done => pending = {}
  /\ reader.at = "delivering" => reader.frame.call \notin pending

\* stdio.go:308: draining first keeps a short-lived plugin's result from being
\* replaced by its exit.  A call that awaits its answer when the session ends
\* because the process was reaped with its output read gets what the plugin said.
RepliesBeatTheExit ==
  \A c \in Calls :
    call[c] = "exited" /\ c \in server.said => session.why # "exit"

\* The caller of a plugin: the session keeps its books, and what the plugin said
\* before it went reaches the caller.
SessionHolds == SessionTypeOK /\ RepliesBeatTheExit

\* However a session ends, nobody is left waiting in it: a writer that is gone,
\* a full queue and a process that ignores its stdin included; and a close does
\* end it (stdio.go:411, 683).
EndReleasesEveryone ==
  /\ session.done ~> \A c \in Calls : call[c] \notin Underway
  /\ session.closing # "no" ~> session.done

\* stdio.go:565: prefer the response the plugin actually sent to its exit.  So
\* no call ends on the exit of a plugin that had answered and was read to the end.
AnswerIsPreferred ==
  \A c \in Calls :
    call[c] \in {"exited", "unsent"} /\ c \in server.said => session.why # "exit"

=============================================================================
