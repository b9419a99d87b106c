---------------------------- MODULE SessionProofs ----------------------------
(***************************************************************************)
(* Proofs about PluginSession and PluginPackages.                          *)
(*                                                                         *)
(* For any calls, depths and bounds: whatever ends a session, its books    *)
(* stay in order, and a caller to whom the plugin spoke is not told that   *)
(* the plugin went.  The reason for the second lies before the end: what   *)
(* the plugin said to a pending call is still in the pipe, so a session    *)
(* that ends with its pipe read to the end has nobody pending to whom the  *)
(* plugin spoke.                                                           *)
(*                                                                         *)
(* For any packages, slots and bounds: rows, directories and grants agree. *)
(* The reason lies in what overlaps: a consent that meets no other change  *)
(* is alone with its plugin (Unmet), so what it compared it also writes.   *)
(***************************************************************************)
EXTENDS PluginSessionProperties, PluginPackages, TLAPS

-----------------------------------------------------------------------------
(* The inductive invariant.                                                *)

\* The requests and cancellations of calls that were made.
Made == {f \in Frames : call[f.call] # "idle"}

\* What a plugin writes.
Words == [type : {"reply", "error", "event", "garbage"}, call : Calls]

WriterType ==
  [at : {"idle", "writing", "failing", "gone"}, frame : Frames \cup {NoFrame}]

ReaderType == [at : {"reading", "delivering", "eof"}, frame : Words \cup {NoFrame}]

SessionType ==
  [done : BOOLEAN, why : {"none", "write", "gone", "garbage", "exit", "timeout"},
   closing : {"no", "waiting", "killed", "closed"}, stdin : BOOLEAN, stdout : BOOLEAN,
   reaped : BOOLEAN]

ServerType ==
  [at : {"reading", "stopping", "stopped"}, ready : BOOLEAN, inflight : SUBSET Calls,
   cancelled : SUBSET Calls, asked : SUBSET Calls, said : SUBSET Calls, emitted : Nat]

\* The shape of every variable that is needed.
HostTyped ==
  /\ call \in [Calls -> Underway \cup Ended \cup {"idle"}]
  /\ answer \in [Calls -> {"none", "reply", "error", "exit"}]
  /\ pending \subseteq Calls /\ cancels \subseteq Calls
  /\ writer \in WriterType /\ reader \in ReaderType /\ events \in 0..EventDepth
  /\ session \in SessionType

WireTyped ==
  /\ queue \in Seq(Made) /\ Len(queue) <= QueueDepth
  /\ stdin \in Seq(Made) /\ Len(stdin) <= PipeDepth
  /\ stdout \in Seq(Words) /\ Len(stdout) <= PipeDepth
  /\ server \in ServerType

\* Nobody handles the request of a call that was not made.
MadeFirst ==
  /\ writer.at \in {"writing", "failing"} => writer.frame \in Made
  /\ \A c \in cancels \cup server.inflight \cup server.asked \cup server.said : call[c] # "idle"

\* A pending call is under way and has no answer.
PendingFits == \A c \in pending : call[c] \in Underway /\ answer[c] = "none"

\* Before the end nobody was told of it; after it nothing is pending.
DoneFits ==
  /\ session.done => pending = {}
  /\ ~session.done =>
       /\ session.stdout /\ session.why = "none"
       /\ \A c \in Calls : answer[c] # "exit" /\ call[c] # "exited"
       /\ reader.at = "eof" => stdout = <<>> /\ process # "running"

\* The answer in the reader's hands belongs to no pending call any more.
DeliverFits ==
  reader.at = "delivering" =>
    /\ reader.frame \in Words /\ reader.frame.type \in {"reply", "error"}
    /\ reader.frame.call \notin pending /\ call[reader.frame.call] # "idle"

\* A call that was not made has no answer.
Unmade == \A c \in Calls : call[c] = "idle" => answer[c] = "none"

\* A call under way is pending, has its answer, or it is being delivered.
WaitFits ==
  \A c \in Calls : call[c] \in Underway =>
    \/ c \in pending \/ answer[c] # "none"
    \/ reader.at = "delivering" /\ reader.frame.call = c

\* What the plugin said to a pending call is still in the pipe.
Speaks(s, c) == \E i \in DOMAIN s : s[i].call = c /\ s[i].type \in {"reply", "error"}

SaidFits == \A c \in server.said : c \in pending => Speaks(stdout, c)

\* A session that ended with its output read has told nobody to whom the
\* plugin had spoken that the plugin is gone.
ExitFits ==
  session.why = "exit" =>
    /\ session.done /\ reader.at = "eof" /\ process # "running"
    /\ \A c \in server.said : call[c] # "exited" /\ answer[c] # "exit"

IInv ==
  /\ HostTyped /\ WireTyped /\ MadeFirst /\ PendingFits /\ DoneFits /\ DeliverFits /\ WaitFits
  /\ Unmade /\ SaidFits /\ ExitFits

-----------------------------------------------------------------------------
(* Pipes.                                                                  *)

\* A sequence of a set is one of any larger set.
LEMMA SeqWider ==
  ASSUME NEW S, NEW T, S \subseteq T, NEW s \in Seq(S)
  PROVE  s \in Seq(T)
  OBVIOUS

\* One more frame in a pipe with room.
LEMMA PipeFilled ==
  ASSUME NEW S, NEW s \in Seq(S), NEW x \in S, NEW n \in Nat, Len(s) < n
  PROVE  Append(s, x) \in Seq(S) /\ Len(Append(s, x)) <= n
  OBVIOUS

\* The first frame of a pipe, and the rest.
LEMMA PipeEmptied ==
  ASSUME NEW S, NEW s \in Seq(S), s # <<>>, NEW n \in Nat, Len(s) <= n
  PROVE  Head(s) \in S /\ Tail(s) \in Seq(S) /\ Len(Tail(s)) <= n
  OBVIOUS

\* A further word silences nobody, and an answer speaks to its call.
LEMMA SpeaksOn ==
  ASSUME NEW s \in Seq(Words), NEW m \in Words, NEW c
  PROVE  /\ Speaks(s, c) => Speaks(Append(s, m), c)
         /\ m.call = c /\ m.type \in {"reply", "error"} => Speaks(Append(s, m), c)
  <1> DEFINE t == Append(s, m)
  <1>1. /\ DOMAIN s = 1..Len(s) /\ Len(s) \in Nat /\ DOMAIN t = 1..Len(s) + 1
        /\ \A i \in 1..Len(s) : t[i] = s[i]
        /\ t[Len(s) + 1] = m
    OBVIOUS
  <1> HIDE DEF t
  <1>2. Speaks(s, c) => Speaks(t, c)
    BY <1>1 DEF Speaks
  <1>3. m.call = c /\ m.type \in {"reply", "error"} => Speaks(t, c)
    <2>1. Len(s) + 1 \in DOMAIN t
      BY <1>1
    <2> QED BY <1>1, <2>1 DEF Speaks
  <1> QED BY <1>2, <1>3 DEF t

\* Taking a word that is not for a call leaves what is for it.
LEMMA SpeaksLess ==
  ASSUME NEW s \in Seq(Words), s # <<>>, NEW c, Speaks(s, c),
         ~(Head(s).call = c /\ Head(s).type \in {"reply", "error"})
  PROVE  Speaks(Tail(s), c)
  <1> DEFINE t == Tail(s)
  <1>1. /\ DOMAIN s = 1..Len(s) /\ Len(s) \in Nat /\ Len(s) > 0 /\ DOMAIN t = 1..Len(s) - 1
        /\ \A i \in 1..Len(s) - 1 : t[i] = s[i + 1]
        /\ s[1] = Head(s)
    OBVIOUS
  <1> HIDE DEF t
  <1>2. PICK i \in 1..Len(s) : s[i].call = c /\ s[i].type \in {"reply", "error"}
    BY <1>1 DEF Speaks
  <1>3. i # 1
    BY <1>1, <1>2
  <1>4. i - 1 \in 1..Len(s) - 1 /\ (i - 1) + 1 = i
    BY <1>1, <1>3
  <1>5. t[i - 1] = s[i]
    BY <1>1, <1>4
  <1> QED BY <1>1, <1>2, <1>4, <1>5 DEF Speaks, t

-----------------------------------------------------------------------------
(* Calls.                                                                  *)

\* A call that moves on keeps the others, and stays made.
LEMMA CallWritten ==
  ASSUME HostTyped, NEW c \in Calls, NEW how \in Underway \cup Ended, Returns(c, how)
  PROVE  /\ call' \in [Calls -> Underway \cup Ended \cup {"idle"}] /\ call'[c] = how
         /\ \A e \in Calls \ {c} : call'[e] = call[e]
         /\ \A e \in Calls : call[e] # "idle" => call'[e] # "idle"
         /\ Made \subseteq Made'
  <1>1. how # "idle"
    BY DEF Underway, Ended
  <1>2. /\ call' \in [Calls -> Underway \cup Ended \cup {"idle"}] /\ call'[c] = how
        /\ \A e \in Calls \ {c} : call'[e] = call[e]
    BY DEF HostTyped, Returns
  <1>3. \A e \in Calls : call[e] # "idle" => call'[e] # "idle"
    BY <1>1, <1>2
  <1>4. \A f \in Frames : f.call \in Calls
    BY DEF Frames
  <1>5. Made \subseteq Made'
    BY <1>3, <1>4 DEF Made
  <1> QED BY <1>2, <1>3, <1>5

\* A step of one call that leaves both processes and the pipes alone.
LEMMA CallStep ==
  ASSUME IInv, NEW c \in Calls, NEW how \in Underway \cup Ended, Returns(c, how),
         UNCHANGED <<answer, writer, reader, events, session, stdin, stdout, server, process>>,
         pending' \subseteq Calls, \A e \in Calls \ {c} : e \in pending' <=> e \in pending,
         queue' \in Seq(Made'), Len(queue') <= QueueDepth, cancels' \subseteq cancels \cup {c},
         c \in pending' =>
           /\ how \in Underway /\ answer[c] = "none" /\ ~session.done
           /\ c \in server.said => c \in pending
           /\ reader.at = "delivering" => reader.frame.call # c,
         how \in Underway =>
           \/ c \in pending' \/ answer[c] # "none"
           \/ reader.at = "delivering" /\ reader.frame.call = c,
         how = "exited" => session.done /\ (session.why = "exit" => c \notin server.said)
  PROVE  IInv'
  <1>1. /\ call' \in [Calls -> Underway \cup Ended \cup {"idle"}] /\ call'[c] = how
        /\ \A e \in Calls \ {c} : call'[e] = call[e]
        /\ \A e \in Calls : call[e] # "idle" => call'[e] # "idle"
        /\ Made \subseteq Made'
    BY CallWritten DEF IInv
  <1>2. /\ answer' = answer /\ writer' = writer /\ reader' = reader /\ events' = events
        /\ session' = session /\ stdin' = stdin /\ stdout' = stdout /\ server' = server
        /\ process' = process
    OBVIOUS
  <1>3. HostTyped'
    BY <1>1, <1>2 DEF IInv, HostTyped
  <1>4. WireTyped'
    <2>1. stdin \in Seq(Made')
      BY <1>1, SeqWider DEF IInv, WireTyped
    <2> QED BY <1>2, <2>1 DEF IInv, WireTyped
  <1>5. MadeFirst'
    <2>1. \A e \in cancels' \cup server.inflight \cup server.asked \cup server.said :
            e \in Calls /\ (call[e] # "idle" \/ e = c)
      BY DEF IInv, MadeFirst, HostTyped, WireTyped, ServerType
    <2>2. call'[c] # "idle"
      BY <1>1 DEF Underway, Ended
    <2> QED BY <1>1, <1>2, <2>1, <2>2 DEF IInv, MadeFirst
  <1>6. PendingFits'
    BY <1>1, <1>2 DEF IInv, PendingFits, HostTyped
  <1>7. DoneFits'
    BY <1>1, <1>2 DEF IInv, DoneFits, HostTyped
  <1>8. DeliverFits'
    <2>1. \A w \in Words : w.call \in Calls
      BY DEF Words
    <2> QED BY <1>1, <1>2, <2>1 DEF IInv, DeliverFits
  <1>9. WaitFits'
    BY <1>1, <1>2 DEF IInv, WaitFits
  <1>10. Unmade'
    BY <1>1, <1>2 DEF IInv, Unmade
  <1>11. SaidFits'
    BY <1>1, <1>2 DEF IInv, SaidFits, HostTyped
  <1>12. ExitFits'
    <2>1. server.said \subseteq Calls
      BY DEF IInv, WireTyped, ServerType
    <2> QED BY <1>1, <1>2, <2>1 DEF IInv, ExitFits
  <1> QED BY <1>3, <1>4, <1>5, <1>6, <1>7, <1>8, <1>9, <1>10, <1>11, <1>12 DEF IInv

\* An untouched queue still holds frames of calls that were made.
LEMMA QueueStays ==
  ASSUME IInv, NEW c \in Calls, NEW how \in Underway \cup Ended, Returns(c, how), queue' = queue
  PROVE  queue' \in Seq(Made') /\ Len(queue') <= QueueDepth
  BY CallWritten, SeqWider DEF IInv, WireTyped

\* A new call has no answer, nobody handles it and nobody spoke to it.
LEMMA InvokeStep ==
  ASSUME IInv, NEW c \in Calls, Invoke(c)
  PROVE  IInv'
  <1> DEFINE how == IF session.done THEN "exited" ELSE "queueing"
  <1>1. how \in Underway \cup Ended /\ Returns(c, how) /\ queue' = queue /\ cancels' = cancels
    BY DEF Invoke, Underway, Ended
  <1>2. call[c] = "idle" /\ c \notin server.said /\ c \notin pending /\ answer[c] = "none"
    BY DEF Invoke, IInv, MadeFirst, PendingFits, Unmade, Underway
  <1>3. reader.at = "delivering" => reader.frame.call # c
    BY <1>2 DEF IInv, DeliverFits
  <1>4. pending' = IF session.done THEN pending ELSE pending \cup {c}
    BY DEF Invoke
  <1>5. queue' \in Seq(Made') /\ Len(queue') <= QueueDepth
    BY <1>1, QueueStays
  <1>6. how \in Underway => ~session.done
    BY DEF Underway
  <1>7. how = "exited" => session.done
    OBVIOUS
  <1>8. UNCHANGED <<answer, writer, reader, events, session, stdin, stdout, server, process>>
    BY DEF Invoke, plugin
  <1>9. pending' \subseteq Calls /\ (c \in pending' => how \in Underway /\ ~session.done)
    BY <1>2, <1>4 DEF IInv, HostTyped, Underway
  <1> HIDE DEF how
  <1> QED BY <1>1, <1>2, <1>3, <1>4, <1>5, <1>6, <1>7, <1>8, <1>9, CallStep

\* A call that goes on, or returns.
LEMMA CallGoesOn ==
  ASSUME IInv, NEW c \in Calls, NEW how \in Underway \cup Ended, Returns(c, how),
         call[c] \in Underway,
         UNCHANGED <<answer, writer, reader, events, session, stdin, stdout, server, process>>,
         queue' \in Seq(Made'), Len(queue') <= QueueDepth, cancels' \subseteq cancels \cup {c},
         \/ how \in Underway /\ pending' = pending
         \/ how \in Ended /\ pending' = pending \ {c},
         how = "exited" => session.done /\ (session.why = "exit" => c \notin server.said)
  PROVE  IInv'
  <1>1. c \in pending => answer[c] = "none" /\ ~session.done
    BY DEF IInv, PendingFits, DoneFits
  <1>2. reader.at = "delivering" /\ c \in pending => reader.frame.call # c
    BY DEF IInv, DeliverFits
  <1>3. \/ c \in pending \/ answer[c] # "none"
        \/ reader.at = "delivering" /\ reader.frame.call = c
    BY DEF IInv, WaitFits
  <1>4. \A x \in Ended : x \notin Underway
    BY DEF Underway, Ended
  <1>5. /\ pending' \subseteq Calls /\ \A e \in Calls \ {c} : e \in pending' <=> e \in pending
        /\ c \in pending' => how \in Underway /\ c \in pending
        /\ how \in Underway => pending' = pending
    BY <1>4 DEF IInv, HostTyped
  <1> QED BY <1>1, <1>2, <1>3, <1>5, CallStep

\* Its frame is queued.
LEMMA EnqueueStep ==
  ASSUME IInv, NEW c \in Calls, Enqueue(c)
  PROVE  IInv'
  <1>1. Returns(c, "writing") /\ "writing" \in Underway /\ call[c] \in Underway
    BY DEF Enqueue, Underway
  <1>2. Made \subseteq Made' /\ call'[c] = "writing"
    BY <1>1, CallWritten DEF IInv
  <1>3. Request(c) \in Made'
    BY <1>2 DEF Made, Frames, Request
  <1>4. queue \in Seq(Made') /\ queue' = Append(queue, Request(c)) /\ Len(queue) < QueueDepth
    BY <1>2, SeqWider DEF IInv, WireTyped, Enqueue
  <1>5. queue' \in Seq(Made') /\ Len(queue') <= QueueDepth
    BY <1>3, <1>4, PipeFilled, DepthAssumption
  <1>6. pending' = pending /\ cancels' = cancels
    BY DEF Enqueue
  <1>7. UNCHANGED <<answer, writer, reader, events, session, stdin, stdout, server, process>>
    BY DEF Enqueue, plugin
  <1> QED BY <1>1, <1>5, <1>6, <1>7, CallGoesOn

\* What a waiting call gets when the session has ended as it should.
LEMMA OutcomeFits ==
  ASSUME IInv, NEW c \in Calls, session.done \/ answer[c] # "none", call[c] \in Underway
  PROVE  /\ Outcome(answer[c]) \in Ended
         /\ Outcome(answer[c]) = "exited" =>
              session.done /\ (session.why = "exit" => c \notin server.said)
  <1>1. answer[c] \in {"none", "reply", "error", "exit"}
    BY DEF IInv, HostTyped
  <1>2. /\ Outcome(answer[c]) \in Ended
        /\ Outcome(answer[c]) = "exited" => answer[c] \in {"none", "exit"}
    BY <1>1 DEF Outcome, Ended
  <1>3. answer[c] = "exit" => session.done
    BY DEF IInv, DoneFits
  <1>4. ASSUME session.why = "exit", c \in server.said PROVE answer[c] \notin {"none", "exit"}
    <2>1. /\ session.done /\ reader.at = "eof" /\ answer[c] # "exit"
      BY <1>4 DEF IInv, ExitFits
    <2>2. c \notin pending
      BY <2>1 DEF IInv, DoneFits
    <2> QED BY <2>1, <2>2 DEF IInv, WaitFits
  <1> QED BY <1>2, <1>3, <1>4

\* A call returns, or goes on to await its answer.
LEMMA ReturnSteps ==
  ASSUME IInv, NEW c \in Calls, Oversized(c) \/ Written(c) \/ Answered(c) \/ SeeExit(c) \/ GiveUp(c)
  PROVE  IInv'
  <1>0. /\ UNCHANGED <<answer, writer, reader, events, session, stdin, stdout, server, process>>
        /\ queue' = queue /\ cancels' \subseteq cancels \cup {c} /\ call[c] \in Underway
    BY DEF Oversized, Written, Answered, SeeExit, GiveUp, Watches, plugin, Underway
  <1> SUFFICES \E how \in Underway \cup Ended :
                 /\ Returns(c, how)
                 /\ \/ how \in Underway /\ pending' = pending
                    \/ how \in Ended /\ pending' = pending \ {c}
                 /\ how = "exited" => session.done /\ (session.why = "exit" => c \notin server.said)
    BY <1>0, QueueStays, CallGoesOn
  <1>1. CASE Oversized(c) \/ GiveUp(c)
    BY <1>1 DEF Oversized, GiveUp, Forgotten, Ended
  <1>2. CASE Written(c)
    BY <1>2 DEF Written, Underway, Ended
  <1>3. CASE Answered(c)
    <2>1. Returns(c, Outcome(answer[c])) /\ answer[c] # "none" /\ pending' = pending
      BY <1>3 DEF Answered
    <2>2. c \notin pending
      BY <2>1 DEF IInv, PendingFits
    <2>3. pending' = pending \ {c}
      BY <2>1, <2>2
    <2> QED BY <1>0, <2>1, <2>3, OutcomeFits
  <1>4. CASE SeeExit(c)
    <2>1. session.done /\ pending' = pending \ {c}
      BY <1>4 DEF SeeExit
    <2>2. CASE call[c] = "waiting"
      <3>1. Returns(c, Outcome(answer[c]))
        BY <1>4, <2>2 DEF SeeExit, AfterExit
      <3> QED BY <1>0, <2>1, <3>1, OutcomeFits
    <2>3. CASE call[c] # "waiting"
      <3>1. Returns(c, "unsent")
        BY <1>4, <2>3 DEF SeeExit
      <3> QED BY <2>1, <3>1 DEF Ended
    <2> QED BY <2>2, <2>3
  <1> QED BY <1>1, <1>2, <1>3, <1>4
-----------------------------------------------------------------------------
(* The writer, and the end of a session.                                   *)

\* A step on the way from the queue to the plugin.
LEMMA WriterStep ==
  ASSUME IInv, UNCHANGED <<call, answer, pending, reader, events, session, stdout, server, process>>,
         cancels' \subseteq cancels, writer' \in WriterType,
         writer'.at \in {"writing", "failing"} => writer'.frame \in Made,
         queue' \in Seq(Made), Len(queue') <= QueueDepth,
         stdin' \in Seq(Made), Len(stdin') <= PipeDepth
  PROVE  IInv'
  <1>1. Made' = Made
    BY DEF Made
  <1>2. HostTyped'
    BY DEF IInv, HostTyped
  <1>3. WireTyped'
    BY <1>1 DEF IInv, WireTyped
  <1>4. MadeFirst'
    BY <1>1 DEF IInv, MadeFirst
  <1>5. PendingFits' /\ DoneFits' /\ WaitFits' /\ Unmade'
    BY DEF IInv, PendingFits, DoneFits, WaitFits, Unmade
  <1>6. DeliverFits' /\ SaidFits' /\ ExitFits'
    BY DEF IInv, DeliverFits, SaidFits, ExitFits
  <1> QED BY <1>2, <1>3, <1>4, <1>5, <1>6 DEF IInv

\* A writer.
LEMMA WriterTyped ==
  ASSUME NEW at \in {"idle", "writing", "failing", "gone"}, NEW f \in Frames \cup {NoFrame}
  PROVE  [at |-> at, frame |-> f] \in WriterType
  BY DEF WriterType

\* A frame of a call that was made is a frame.
LEMMA MadeFrames ==
  ASSUME NEW f \in Made
  PROVE  f \in Frames
  BY DEF Made

\* The cancellation of a call that was given up.
LEMMA CancelSteps ==
  ASSUME IInv, NEW c \in Calls, EnqueueCancel(c) \/ CancelExpires(c)
  PROVE  IInv'
  <1>1. UNCHANGED <<call, answer, pending, writer, reader, events, session, stdin, stdout, server, process>>
    BY DEF EnqueueCancel, CancelExpires, plugin
  <1>2. cancels' \subseteq cancels /\ c \in cancels
    BY DEF EnqueueCancel, CancelExpires
  <1>3. queue' \in Seq(Made) /\ Len(queue') <= QueueDepth
    <2>1. CASE EnqueueCancel(c)
      <3>1. call[c] # "idle"
        BY <1>2 DEF IInv, MadeFirst
      <3>2. Cancel(c) \in Made
        BY <3>1 DEF Made, Frames, Cancel
      <3>3. queue' = Append(queue, Cancel(c)) /\ Len(queue) < QueueDepth /\ queue \in Seq(Made)
        BY <2>1 DEF EnqueueCancel, IInv, WireTyped
      <3> QED BY <3>2, <3>3, PipeFilled, DepthAssumption
    <2>2. CASE CancelExpires(c)
      BY <2>2 DEF CancelExpires, IInv, WireTyped
    <2> QED BY <2>1, <2>2
  <1>4. /\ writer \in WriterType /\ stdin \in Seq(Made) /\ Len(stdin) <= PipeDepth
        /\ writer.at \in {"writing", "failing"} => writer.frame \in Made
    BY DEF IInv, HostTyped, WireTyped, MadeFirst
  <1> QED BY <1>1, <1>2, <1>3, <1>4, WriterStep

\* The writer, unless a write fails.
LEMMA WriterSteps ==
  ASSUME IInv, TakeFrame \/ WriteFrame \/ TellFailure \/ WriterEnds
  PROVE  IInv'
  <1>1. /\ UNCHANGED <<call, answer, pending, reader, events, session, stdout, server, process>>
        /\ cancels' = cancels
    BY DEF TakeFrame, WriteFrame, TellFailure, WriterEnds, plugin
  <1>2. /\ queue \in Seq(Made) /\ Len(queue) <= QueueDepth
        /\ stdin \in Seq(Made) /\ Len(stdin) <= PipeDepth
        /\ writer.at \in {"writing", "failing"} => writer.frame \in Made
    BY DEF IInv, WireTyped, MadeFirst
  <1>3. NoFrame \in Frames \cup {NoFrame}
    OBVIOUS
  <1>4. CASE TakeFrame
    <2>1. /\ queue # <<>> /\ queue' = Tail(queue) /\ stdin' = stdin
          /\ writer' = [at |-> "writing", frame |-> Head(queue)]
      BY <1>4 DEF TakeFrame
    <2>2. Head(queue) \in Made /\ queue' \in Seq(Made) /\ Len(queue') <= QueueDepth
      BY <1>2, <2>1, PipeEmptied, DepthAssumption
    <2>3. writer' \in WriterType /\ writer'.frame \in Made
      BY <2>1, <2>2, WriterTyped, MadeFrames
    <2> QED BY <1>1, <1>2, <2>1, <2>2, <2>3, WriterStep
  <1>5. CASE WriteFrame
    <2>1. /\ writer.frame \in Made /\ stdin' = Append(stdin, writer.frame) /\ queue' = queue
          /\ Len(stdin) < PipeDepth /\ writer' = [at |-> "idle", frame |-> NoFrame]
      BY <1>2, <1>5 DEF WriteFrame
    <2>2. stdin' \in Seq(Made) /\ Len(stdin') <= PipeDepth
      BY <1>2, <2>1, PipeFilled, DepthAssumption
    <2>3. writer' \in WriterType /\ writer'.at = "idle"
      BY <1>3, <2>1, WriterTyped
    <2> QED BY <1>1, <1>2, <2>1, <2>2, <2>3, WriterStep
  <1>6. CASE TellFailure \/ WriterEnds
    <2>1. writer' = [at |-> "gone", frame |-> NoFrame] /\ queue' = queue /\ stdin' = stdin
      BY <1>6 DEF TellFailure, WriterEnds
    <2>2. writer' \in WriterType /\ writer'.at = "gone"
      BY <1>3, <2>1, WriterTyped
    <2> QED BY <1>1, <1>2, <2>1, <2>2, WriterStep
  <1> QED BY <1>4, <1>5, <1>6

\* The end of a session leaves the parts that speak of calls in order.
LEMMA Finished ==
  ASSUME IInv, ~session.done, session'.done,
         answer' = [c \in Calls |-> IF c \in pending THEN "exit" ELSE answer[c]],
         pending' = {}, UNCHANGED <<call, server, process>>,
         reader.at = "delivering" => reader' = reader,
         session'.why = "exit" =>
           /\ reader.at = "eof" /\ reader' = reader /\ process # "running"
  PROVE  /\ answer' \in [Calls -> {"none", "reply", "error", "exit"}]
         /\ PendingFits' /\ DoneFits' /\ WaitFits' /\ Unmade' /\ SaidFits' /\ ExitFits'
  <1>1. \A c \in Calls : /\ c \in pending => answer'[c] = "exit"
                         /\ c \notin pending => answer'[c] = answer[c]
    OBVIOUS
  <1>2. answer' \in [Calls -> {"none", "reply", "error", "exit"}]
    BY DEF IInv, HostTyped
  <1>3. PendingFits' /\ DoneFits' /\ SaidFits'
    BY DEF PendingFits, DoneFits, SaidFits
  <1>4. WaitFits'
    BY <1>1 DEF IInv, WaitFits
  <1>5. Unmade'
    BY <1>1 DEF IInv, Unmade, PendingFits, Underway
  <1>6. ExitFits'
    <2> SUFFICES ASSUME session'.why = "exit", NEW c \in server.said
                 PROVE  call[c] # "exited" /\ answer'[c] # "exit"
      BY DEF ExitFits
    <2>1. c \in Calls
      BY DEF IInv, WireTyped, ServerType
    <2>2. call[c] # "exited" /\ answer[c] # "exit" /\ stdout = <<>>
      BY <2>1 DEF IInv, DoneFits
    <2>3. ~Speaks(stdout, c)
      BY <2>2 DEF Speaks
    <2>4. c \notin pending
      BY <2>3 DEF IInv, SaidFits
    <2> QED BY <1>1, <2>1, <2>2, <2>4
  <1> QED BY <1>2, <1>3, <1>4, <1>5, <1>6

\* A writer whose write failed still holds its frame.
LEMMA WriterFailing ==
  ASSUME NEW w \in WriterType
  PROVE  /\ [w EXCEPT !.at = "failing"] \in WriterType
         /\ [w EXCEPT !.at = "failing"].frame = w.frame
  BY DEF WriterType

\* A session that has ended, for a reason.
LEMMA SessionDone ==
  ASSUME NEW s \in SessionType,
         NEW why \in {"none", "write", "gone", "garbage", "exit", "timeout"}
  PROVE  /\ [s EXCEPT !.done = TRUE, !.why = why] \in SessionType
         /\ [s EXCEPT !.done = TRUE, !.why = why].done
         /\ [s EXCEPT !.done = TRUE, !.why = why].why = why
         /\ [s EXCEPT !.done = TRUE, !.reaped = TRUE, !.why = why] \in SessionType
         /\ [s EXCEPT !.done = TRUE, !.reaped = TRUE, !.why = why].done
         /\ [s EXCEPT !.done = TRUE, !.reaped = TRUE, !.why = why].why = why
  BY DEF SessionType

\* A failed write ends the session, if nothing did before.
LEMMA WriteFailsStep ==
  ASSUME IInv, WriteFails
  PROVE  IInv'
  <1>1. /\ UNCHANGED <<call, cancels, queue, reader, events, stdin, stdout, server, process>>
        /\ writer' = [writer EXCEPT !.at = "failing"] /\ writer.at = "writing"
    BY DEF WriteFails, plugin
  <1>2. writer' \in WriterType /\ writer'.frame = writer.frame
    BY <1>1, WriterFailing DEF IInv, HostTyped
  <1>3. writer.frame \in Made
    BY <1>1 DEF IInv, MadeFirst
  <1>4. CASE session.done
    <2>1. UNCHANGED <<answer, pending, session>>
      BY <1>4 DEF WriteFails, FinishBy
    <2>2. /\ queue' \in Seq(Made) /\ Len(queue') <= QueueDepth
          /\ stdin' \in Seq(Made) /\ Len(stdin') <= PipeDepth
      BY <1>1 DEF IInv, WireTyped
    <2> QED BY <1>1, <1>2, <1>3, <2>1, <2>2, WriterStep
  <1>5. CASE ~session.done
    <2> DEFINE why == IF process = "running" THEN "write" ELSE "gone"
    <2>0. why \in {"write", "gone"}
      OBVIOUS
    <2>1. /\ session' = [session EXCEPT !.done = TRUE, !.why = why]
          /\ answer' = [c \in Calls |-> IF c \in pending THEN "exit" ELSE answer[c]]
          /\ pending' = {}
      BY <1>5, SMTT(40) DEF WriteFails, FinishBy
    <2> HIDE DEF why
    <2>2. session' \in SessionType /\ session'.done /\ session'.why = why
      <3>1. session \in SessionType /\ why \in {"none", "write", "gone", "garbage", "exit", "timeout"}
        BY <2>0 DEF IInv, HostTyped
      <3> QED BY <2>1, <3>1, SessionDone, ZenonT(60)
    <2>3. /\ answer' \in [Calls -> {"none", "reply", "error", "exit"}]
          /\ PendingFits' /\ DoneFits' /\ WaitFits' /\ Unmade' /\ SaidFits' /\ ExitFits'
      BY <1>1, <1>5, <2>0, <2>1, <2>2, Finished
    <2>4. Made' = Made
      BY <1>1 DEF Made
    <2>5. HostTyped' 
      BY <1>1, <1>2, <2>1, <2>2, <2>3 DEF IInv, HostTyped
    <2>6. WireTyped'
      BY <1>1, <2>4 DEF IInv, WireTyped
    <2>7. MadeFirst'
      BY <1>1, <1>2, <1>3, <2>4 DEF IInv, MadeFirst
    <2>8. DeliverFits'
      BY <1>1, <2>1 DEF IInv, DeliverFits
    <2> QED BY <2>3, <2>5, <2>6, <2>7, <2>8 DEF IInv
  <1> QED BY <1>4, <1>5
-----------------------------------------------------------------------------
(* The reader and the waiter.                                              *)

\* A reader.
LEMMA ReaderTyped ==
  ASSUME NEW at \in {"reading", "delivering", "eof"}, NEW f \in Words \cup {NoFrame}
  PROVE  [at |-> at, frame |-> f] \in ReaderType
  BY DEF ReaderType

\* The reader takes a frame: an answer, an event, or what is no frame.
LEMMA ReadSteps ==
  ASSUME IInv, ReadFrame
  PROVE  IInv'
  <1>1. /\ UNCHANGED <<call, cancels, queue, writer, stdin, server, process>>
        /\ stdout' = Tail(stdout) /\ stdout # <<>> /\ reader.at = "reading"
    BY DEF ReadFrame, plugin
  <1> DEFINE m == Head(stdout)
  <1>2. m \in Words /\ stdout \in Seq(Words) /\ stdout' \in Seq(Words) /\ Len(stdout') <= PipeDepth
    BY <1>1, PipeEmptied, DepthAssumption DEF IInv, WireTyped
  <1>3. m.type \in {"reply", "error", "event", "garbage"} /\ m.call \in Calls
    BY <1>2 DEF Words
  <1>4. Made' = Made
    BY <1>1 DEF Made
  <1>5. WireTyped'
    BY <1>1, <1>2, <1>4 DEF IInv, WireTyped
  <1>6. MadeFirst'
    BY <1>1, <1>4 DEF IInv, MadeFirst
  <1>7. CASE m.type = "garbage"
    <2>1. /\ FinishBy("garbage") /\ reader' = [at |-> "eof", frame |-> NoFrame] /\ events' = events
      BY <1>7 DEF ReadFrame
    <2>2. reader' \in ReaderType /\ reader'.at = "eof"
      BY <2>1, ReaderTyped
    <2>3. CASE session.done
      <3>1. UNCHANGED <<answer, pending, session>> /\ pending = {}
        BY <2>1, <2>3 DEF FinishBy, IInv, DoneFits
      <3>2. HostTyped'
        BY <1>1, <2>1, <2>2, <3>1 DEF IInv, HostTyped
      <3>3. PendingFits' /\ DoneFits' /\ Unmade' /\ SaidFits' /\ DeliverFits'
        BY <1>1, <2>2, <2>3, <3>1 DEF IInv, PendingFits, DoneFits, Unmade, SaidFits, DeliverFits
      <3>4. WaitFits'
        BY <1>1, <2>2, <3>1 DEF IInv, WaitFits
      <3>5. ExitFits'
        BY <1>1, <2>2, <2>3, <3>1 DEF IInv, ExitFits
      <3> QED BY <1>5, <1>6, <3>2, <3>3, <3>4, <3>5 DEF IInv
    <2>4. CASE ~session.done
      <3>1. /\ session' = [session EXCEPT !.done = TRUE, !.why = "garbage"]
            /\ answer' = [c \in Calls |-> IF c \in pending THEN "exit" ELSE answer[c]]
            /\ pending' = {}
        BY <2>1, <2>4 DEF FinishBy
      <3>2. session' \in SessionType /\ session'.done /\ session'.why = "garbage"
        <4>1. session \in SessionType
          BY DEF IInv, HostTyped
        <4> QED BY <3>1, <4>1, SessionDone
      <3>3. /\ answer' \in [Calls -> {"none", "reply", "error", "exit"}]
            /\ PendingFits' /\ DoneFits' /\ WaitFits' /\ Unmade' /\ SaidFits' /\ ExitFits'
        BY <1>1, <2>4, <3>1, <3>2, Finished
      <3>4. HostTyped'
        BY <1>1, <2>1, <2>2, <3>1, <3>2, <3>3 DEF IInv, HostTyped
      <3>5. DeliverFits'
        BY <2>2 DEF DeliverFits
      <3> QED BY <1>5, <1>6, <3>3, <3>4, <3>5 DEF IInv
    <2> QED BY <2>3, <2>4
  <1>8. CASE m.type = "event"
    <2>1. /\ events' = IF events < EventDepth THEN events + 1 ELSE events
          /\ UNCHANGED <<answer, pending, reader, session>>
      BY <1>8 DEF ReadFrame
    <2>2. HostTyped'
      BY <1>1, <2>1, DepthAssumption DEF IInv, HostTyped
    <2>3. PendingFits' /\ DoneFits' /\ WaitFits' /\ Unmade' /\ DeliverFits' /\ ExitFits'
      BY <1>1, <2>1 DEF IInv, PendingFits, DoneFits, WaitFits, Unmade, DeliverFits, ExitFits
    <2>4. SaidFits'
      <3> SUFFICES ASSUME NEW c \in server.said, c \in pending PROVE Speaks(stdout', c)
        BY <1>1, <2>1 DEF SaidFits
      <3> QED BY <1>1, <1>2, <1>8, SpeaksLess DEF IInv, SaidFits
    <2> QED BY <1>5, <1>6, <2>2, <2>3, <2>4 DEF IInv
  <1>9. CASE m.type \in {"reply", "error"}
    <2>1. /\ reader' = IF m.call \in pending THEN [at |-> "delivering", frame |-> m] ELSE reader
          /\ pending' = pending \ {m.call}
          /\ UNCHANGED <<answer, events, session>>
      BY <1>9 DEF ReadFrame
    <2>2. reader' \in ReaderType
      BY <1>2, <2>1, ReaderTyped DEF IInv, HostTyped
    <2>3. HostTyped'
      BY <1>1, <2>1, <2>2 DEF IInv, HostTyped
    <2>4. PendingFits' /\ Unmade'
      BY <1>1, <2>1 DEF IInv, PendingFits, Unmade
    <2>5. DoneFits'
      BY <1>1, <2>1 DEF IInv, DoneFits
    <2>6. DeliverFits'
      <3>1. m.call \in pending => call[m.call] # "idle"
        BY DEF IInv, PendingFits, Underway
      <3> QED BY <1>1, <1>2, <1>9, <2>1, <3>1 DEF DeliverFits
    <2>7. WaitFits'
      BY <1>1, <2>1 DEF IInv, WaitFits
    <2>8. SaidFits'
      <3> SUFFICES ASSUME NEW c \in server.said, c \in pending, c # m.call PROVE Speaks(stdout', c)
        BY <1>1, <2>1 DEF SaidFits
      <3> QED BY <1>1, <1>2, SpeaksLess DEF IInv, SaidFits
    <2>9. ExitFits'
      BY <1>1, <2>1 DEF IInv, ExitFits
    <2> QED BY <1>5, <1>6, <2>3, <2>4, <2>5, <2>6, <2>7, <2>8, <2>9 DEF IInv
  <1> QED BY <1>3, <1>7, <1>8, <1>9

\* The answer reaches the call, which nobody else answers.
LEMMA DeliverStep ==
  ASSUME IInv, Deliver
  PROVE  IInv'
  <1> DEFINE d == reader.frame.call
  <1>1. /\ UNCHANGED <<call, pending, cancels, queue, writer, events, session, stdin, stdout, server, process>>
        /\ answer' = [answer EXCEPT ![d] = reader.frame.type]
        /\ reader' = [at |-> "reading", frame |-> NoFrame] /\ reader.at = "delivering"
    BY DEF Deliver, plugin
  <1>2. /\ reader.frame \in Words /\ reader.frame.type \in {"reply", "error"}
        /\ d \notin pending /\ call[d] # "idle"
    BY <1>1 DEF IInv, DeliverFits
  <1>3. d \in Calls
    BY <1>2 DEF Words
  <1> HIDE DEF d
  <1>4. /\ answer' \in [Calls -> {"none", "reply", "error", "exit"}]
        /\ answer'[d] \in {"reply", "error"} /\ \A c \in Calls : c # d => answer'[c] = answer[c]
    BY <1>1, <1>2, <1>3 DEF IInv, HostTyped
  <1>5. reader' \in ReaderType /\ reader'.at = "reading"
    BY <1>1, ReaderTyped
  <1>6. Made' = Made
    BY <1>1 DEF Made
  <1>7. HostTyped'
    BY <1>1, <1>4, <1>5 DEF IInv, HostTyped
  <1>8. WireTyped' /\ MadeFirst'
    BY <1>1, <1>6 DEF IInv, WireTyped, MadeFirst
  <1>9. PendingFits'
    BY <1>1, <1>2, <1>4 DEF IInv, PendingFits, HostTyped
  <1>10. DoneFits' /\ DeliverFits'
    BY <1>1, <1>4, <1>5 DEF IInv, DoneFits, DeliverFits
  <1>11. WaitFits'
    BY <1>1, <1>3, <1>4 DEF IInv, WaitFits, d
  <1>12. Unmade'
    BY <1>1, <1>2, <1>4 DEF IInv, Unmade
  <1>13. SaidFits' /\ ExitFits'
    BY <1>1 DEF IInv, SaidFits, ExitFits
  <1> QED BY <1>7, <1>8, <1>9, <1>10, <1>11, <1>12, <1>13 DEF IInv

\* The reader stops at a closed pipe, or at the end of what a dead process wrote.
LEMMA ReadEndStep ==
  ASSUME IInv, ReadEnd
  PROVE  IInv'
  <1>1. /\ UNCHANGED <<call, answer, pending, cancels, queue, writer, events, session, stdin, stdout, server, process>>
        /\ reader' = [at |-> "eof", frame |-> NoFrame] /\ reader.at = "reading"
        /\ ~session.stdout \/ (stdout = <<>> /\ process # "running")
    BY DEF ReadEnd, plugin
  <1>2. reader' \in ReaderType /\ reader'.at = "eof"
    BY <1>1, ReaderTyped
  <1>3. Made' = Made
    BY <1>1 DEF Made
  <1>4. HostTyped'
    BY <1>1, <1>2 DEF IInv, HostTyped
  <1>5. WireTyped' /\ MadeFirst'
    BY <1>1, <1>3 DEF IInv, WireTyped, MadeFirst
  <1>6. PendingFits' /\ Unmade' /\ SaidFits'
    BY <1>1 DEF IInv, PendingFits, Unmade, SaidFits
  <1>7. DoneFits' /\ DeliverFits'
    BY <1>1, <1>2 DEF IInv, DoneFits, DeliverFits
  <1>8. WaitFits' /\ ExitFits'
    BY <1>1, <1>2 DEF IInv, WaitFits, ExitFits
  <1> QED BY <1>4, <1>5, <1>6, <1>7, <1>8 DEF IInv

\* A step of the session that neither ends it nor takes its output away.
LEMMA SessionStep ==
  ASSUME IInv, UNCHANGED <<call, answer, pending, cancels, queue, writer, reader, events, stdin, stdout, server>>,
         session' \in SessionType, session'.done = session.done, session'.why = session.why,
         ~session.done => session'.stdout = session.stdout,
         process' = process \/ process' # "running"
  PROVE  IInv'
  <1>1. Made' = Made
    BY DEF Made
  <1>2. HostTyped'
    BY DEF IInv, HostTyped
  <1>3. WireTyped' /\ MadeFirst'
    BY <1>1 DEF IInv, WireTyped, MadeFirst
  <1>4. PendingFits' /\ Unmade' /\ SaidFits' /\ DeliverFits' /\ WaitFits'
    BY DEF IInv, PendingFits, Unmade, SaidFits, DeliverFits, WaitFits
  <1>5. DoneFits'
    BY DEF IInv, DoneFits
  <1>6. ExitFits'
    BY DEF IInv, ExitFits
  <1> QED BY <1>2, <1>3, <1>4, <1>5, <1>6 DEF IInv

\* The waiter ends the session, if nothing did before.
LEMMA ReapedStep ==
  ASSUME IInv, NEW drained \in BOOLEAN, Reaped(drained)
  PROVE  IInv'
  <1>0. session \in SessionType
    BY DEF IInv, HostTyped
  <1>1. /\ UNCHANGED <<call, cancels, queue, writer, reader, events, stdin, stdout, server, process>>
        /\ process # "running" /\ (drained <=> reader.at = "eof")
    BY DEF Reaped, plugin
  <1>2. CASE session.done
    <2>1. UNCHANGED <<answer, pending>> /\ session' = [session EXCEPT !.reaped = TRUE]
      BY <1>2 DEF Reaped
    <2>2. /\ session' \in SessionType /\ session'.done = session.done /\ session'.why = session.why
      BY <1>0, <2>1 DEF SessionType
    <2> QED BY <1>1, <1>2, <2>1, <2>2, SessionStep
  <1>3. CASE ~session.done
    <2> DEFINE why == IF drained THEN "exit" ELSE "timeout"
    <2>1. /\ session' = [session EXCEPT !.done = TRUE, !.reaped = TRUE, !.why = why]
          /\ answer' = [c \in Calls |-> IF c \in pending THEN "exit" ELSE answer[c]]
          /\ pending' = {}
      BY <1>3 DEF Reaped
    <2>2. why \in {"none", "write", "gone", "garbage", "exit", "timeout"} /\ (why = "exit" => drained)
      OBVIOUS
    <2> HIDE DEF why
    <2>3. session' \in SessionType /\ session'.done /\ session'.why = why
      BY <1>0, <2>1, <2>2, SessionDone, ZenonT(60)
    <2>4. /\ answer' \in [Calls -> {"none", "reply", "error", "exit"}]
          /\ PendingFits' /\ DoneFits' /\ WaitFits' /\ Unmade' /\ SaidFits' /\ ExitFits'
      BY <1>1, <1>3, <2>1, <2>2, <2>3, Finished
    <2>5. Made' = Made
      BY <1>1 DEF Made
    <2>6. HostTyped'
      BY <1>1, <2>1, <2>3, <2>4 DEF IInv, HostTyped
    <2>7. WireTyped' /\ MadeFirst'
      BY <1>1, <2>5 DEF IInv, WireTyped, MadeFirst
    <2>8. DeliverFits'
      BY <1>1, <2>1 DEF IInv, DeliverFits
    <2> QED BY <2>4, <2>6, <2>7, <2>8 DEF IInv
  <1> QED BY <1>2, <1>3

\* Letting go of the pipes, and closing.
LEMMA CloserSteps ==
  ASSUME IInv, Release \/ CloseStdin \/ CloseKills \/ CloseEnds
  PROVE  IInv'
  <1>0. session \in SessionType
    BY DEF IInv, HostTyped
  <1>1. UNCHANGED <<call, answer, pending, cancels, queue, writer, reader, events, stdin, stdout, server>>
    BY DEF Release, CloseStdin, CloseKills, CloseEnds, plugin
  <1>2. process' = process \/ process' # "running"
    BY DEF Release, CloseStdin, CloseKills, CloseEnds, plugin, Killed
  <1>3. session' \in SessionType /\ session'.done = session.done /\ session'.why = session.why
    BY <1>0 DEF Release, CloseStdin, CloseKills, CloseEnds, SessionType
  <1>4. ~session.done => session'.stdout = session.stdout
    BY <1>0 DEF Release, CloseStdin, CloseKills, CloseEnds, SessionType
  <1> QED BY <1>1, <1>2, <1>3, <1>4, SessionStep
-----------------------------------------------------------------------------
(* The plugin.                                                             *)

\* What a step of a running plugin may do: read a frame, say a word, and say
\* that a call was answered only with its answer.
LEMMA PluginStep ==
  ASSUME IInv, host' = host, process = "running", process' = process \/ process' # "running",
         stdin' \in Seq(Made), Len(stdin') <= PipeDepth,
         stdout' \in Seq(Words), Len(stdout') <= PipeDepth,
         server' \in ServerType,
         \A c \in server'.inflight \cup server'.asked \cup server'.said : call[c] # "idle",
         \A c \in pending : Speaks(stdout, c) => Speaks(stdout', c),
         \A c \in server'.said : c \in pending => c \in server.said \/ Speaks(stdout', c)
  PROVE  IInv'
  <1>1. UNCHANGED <<call, answer, pending, cancels, queue, writer, reader, events, session>>
    BY DEF host
  <1>2. Made' = Made
    BY <1>1 DEF Made
  <1>3. HostTyped' /\ PendingFits' /\ DeliverFits' /\ WaitFits' /\ Unmade'
    BY <1>1 DEF IInv, HostTyped, PendingFits, DeliverFits, WaitFits, Unmade
  <1>4. WireTyped'
    BY <1>1, <1>2 DEF IInv, WireTyped
  <1>5. MadeFirst'
    BY <1>1, <1>2 DEF IInv, MadeFirst
  <1>6. DoneFits'
    BY <1>1 DEF IInv, DoneFits
  <1>7. SaidFits'
    BY <1>1 DEF IInv, SaidFits
  <1>8. ExitFits'
    BY <1>1 DEF IInv, ExitFits
  <1> QED BY <1>3, <1>4, <1>5, <1>6, <1>7, <1>8 DEF IInv

\* What the plugin says while the session is open gets into the pipe.
LEMMA SaysKeeps ==
  ASSUME IInv, NEW m \in Words, Says(m)
  PROVE  /\ stdout' \in Seq(Words) /\ Len(stdout') <= PipeDepth
         /\ \A c \in pending : Speaks(stdout, c) => Speaks(stdout', c)
         /\ m.type \in {"reply", "error"} /\ m.call \in pending => Speaks(stdout', m.call)
  <1>0. stdout \in Seq(Words) /\ Len(stdout) <= PipeDepth
    BY DEF IInv, WireTyped
  <1>1. CASE session.stdout
    <2>1. Len(stdout) < PipeDepth /\ stdout' = Append(stdout, m)
      BY <1>1 DEF Says
    <2>2. stdout' \in Seq(Words) /\ Len(stdout') <= PipeDepth
      BY <1>0, <2>1, PipeFilled, DepthAssumption
    <2> QED BY <1>0, <2>1, <2>2, SpeaksOn
  <1>2. CASE ~session.stdout
    <2>1. stdout' = stdout /\ pending = {}
      BY <1>2 DEF Says, IInv, DoneFits
    <2> QED BY <1>0, <2>1
  <1> QED BY <1>1, <1>2

\* An answer is a word.
LEMMA Spoken ==
  ASSUME NEW kind \in {"reply", "error"}, NEW c \in Calls
  PROVE  /\ Reply(kind, c) \in Words /\ Reply(kind, c).type \in {"reply", "error"}
         /\ Reply(kind, c).call = c
  BY DEF Reply, Words

\* The plugin takes the next frame.
LEMMA TakesFrame ==
  ASSUME IInv, stdin # <<>>
  PROVE  /\ Head(stdin) \in Frames /\ Head(stdin).call \in Calls /\ call[Head(stdin).call] # "idle"
         /\ Tail(stdin) \in Seq(Made) /\ Len(Tail(stdin)) <= PipeDepth
  <1>1. /\ Head(stdin) \in Made
        /\ Tail(stdin) \in Seq(Made) /\ Len(Tail(stdin)) <= PipeDepth
    BY PipeEmptied, DepthAssumption DEF IInv, WireTyped
  <1> QED BY <1>1 DEF Made, Frames

\* What a step of the plugin may leave as it is.
LEMMA Stays ==
  ASSUME IInv
  PROVE  /\ stdin \in Seq(Made) /\ Len(stdin) <= PipeDepth
         /\ stdout \in Seq(Words) /\ Len(stdout) <= PipeDepth
         /\ server \in ServerType
         /\ \A c \in server.inflight \cup server.asked \cup server.said : call[c] # "idle"
         /\ server.inflight \subseteq Calls
  BY DEF IInv, WireTyped, MadeFirst, ServerType

\* What the plugin does to its own books.
LEMMA ServerMoved ==
  ASSUME NEW s \in ServerType, NEW c \in Calls
  PROVE  /\ \A r \in BOOLEAN : [s EXCEPT !.ready = r, !.said = @ \cup {c}] \in ServerType
         /\ [s EXCEPT !.inflight = @ \cup {c}] \in ServerType
         /\ [s EXCEPT !.cancelled = @ \cup (s.inflight \cap {c})] \in ServerType
         /\ [s EXCEPT !.at = "stopping", !.asked = {c}, !.cancelled = @ \cup s.inflight] \in ServerType
         /\ [s EXCEPT !.inflight = @ \ {c}, !.cancelled = @ \ {c}, !.said = @ \cup {c}] \in ServerType
         /\ [s EXCEPT !.at = "stopped", !.ready = FALSE, !.asked = {}, !.said = @ \cup {c}] \in ServerType
         /\ [s EXCEPT !.at = "stopped", !.cancelled = @ \cup s.inflight] \in ServerType
         /\ \A n \in Nat : [s EXCEPT !.emitted = n] \in ServerType
  <1>1. \A r \in BOOLEAN : [s EXCEPT !.ready = r, !.said = @ \cup {c}] \in ServerType
    BY DEF ServerType
  <1>2. [s EXCEPT !.inflight = @ \cup {c}] \in ServerType
    BY DEF ServerType
  <1>3. [s EXCEPT !.cancelled = @ \cup (s.inflight \cap {c})] \in ServerType
    BY DEF ServerType
  <1>4. [s EXCEPT !.at = "stopping", !.asked = {c}, !.cancelled = @ \cup s.inflight] \in ServerType
    BY DEF ServerType
  <1>5. [s EXCEPT !.inflight = @ \ {c}, !.cancelled = @ \ {c}, !.said = @ \cup {c}] \in ServerType
    BY DEF ServerType
  <1>6. [s EXCEPT !.at = "stopped", !.ready = FALSE, !.asked = {}, !.said = @ \cup {c}] \in ServerType
    BY DEF ServerType
  <1>7. [s EXCEPT !.at = "stopped", !.cancelled = @ \cup s.inflight] \in ServerType
    BY DEF ServerType
  <1>8. \A n \in Nat : [s EXCEPT !.emitted = n] \in ServerType
    BY DEF ServerType
  <1> QED BY <1>1, <1>2, <1>3, <1>4, <1>5, <1>6, <1>7, <1>8

\* A request that is answered at once.
LEMMA HandleInlineStep ==
  ASSUME IInv, HandleInline
  PROVE  IInv'
  <1> DEFINE c == Head(stdin).call
  <1>1. /\ process = "running" /\ stdin # <<>> /\ stdin' = Tail(stdin)
        /\ host' = host /\ process' = process
    BY DEF HandleInline
  <1>2. PICK kind \in Inline(c) :
          /\ Says(Reply(kind, c))
          /\ server' = [server EXCEPT !.ready = @ \/ c = Handshake, !.said = @ \cup {c}]
    BY DEF HandleInline
  <1>3. c \in Calls /\ call[c] # "idle" /\ stdin' \in Seq(Made) /\ Len(stdin') <= PipeDepth
    BY <1>1, TakesFrame
  <1>4. kind \in {"reply", "error"}
    BY DEF Inline
  <1> DEFINE ready == server.ready \/ c = Handshake
  <1>5. server \in ServerType /\ server.ready \in BOOLEAN /\ ready \in BOOLEAN
    BY SMTT(40) DEF IInv, WireTyped, ServerType
  <1>6. server' = [server EXCEPT !.ready = ready, !.said = @ \cup {c}]
    BY <1>2, <1>5, SMTT(40)
  <1> HIDE DEF c, ready
  <1>7. server' \in ServerType
    BY <1>3, <1>5, <1>6, ServerMoved
  <1>8. /\ server'.inflight = server.inflight /\ server'.asked = server.asked
        /\ server'.said = server.said \cup {c}
    BY <1>5, <1>6 DEF ServerType
  <1>9. /\ stdout' \in Seq(Words) /\ Len(stdout') <= PipeDepth
        /\ \A e \in pending : Speaks(stdout, e) => Speaks(stdout', e)
        /\ c \in pending => Speaks(stdout', c)
    BY <1>2, <1>3, <1>4, Spoken, SaysKeeps
  <1>10. \A e \in server'.inflight \cup server'.asked \cup server'.said : call[e] # "idle"
    BY <1>3, <1>8, Stays
  <1> QED BY <1>1, <1>3, <1>7, <1>8, <1>9, <1>10, PluginStep

\* A request or a cancellation that is not answered at once.
LEMMA HandleSteps ==
  ASSUME IInv, HandleTool \/ HandleCancel \/ HandleShutdown
  PROVE  IInv'
  <1> DEFINE c == Head(stdin).call
  <1>1. /\ process = "running" /\ stdin # <<>> /\ stdin' = Tail(stdin) /\ stdout' = stdout
        /\ host' = host /\ process' = process
    BY DEF HandleTool, HandleCancel, HandleShutdown
  <1>2. c \in Calls /\ call[c] # "idle" /\ stdin' \in Seq(Made) /\ Len(stdin') <= PipeDepth
    BY <1>1, TakesFrame
  <1>3. \/ server' = [server EXCEPT !.inflight = @ \cup {c}]
        \/ server' = [server EXCEPT !.cancelled = @ \cup (server.inflight \cap {c})]
        \/ server' = [server EXCEPT !.at = "stopping", !.asked = {c},
                                    !.cancelled = @ \cup server.inflight]
    BY DEF HandleTool, HandleCancel, HandleShutdown
  <1> HIDE DEF c
  <1>4. server \in ServerType
    BY SMTT(40) DEF IInv, WireTyped
  <1>5. server' \in ServerType
    BY <1>2, <1>3, <1>4, ServerMoved, ZenonT(60)
  <1>6. /\ server'.inflight \subseteq server.inflight \cup {c}
        /\ server'.asked \subseteq server.asked \cup {c} /\ server'.said = server.said
    BY <1>3, <1>4 DEF ServerType
  <1>7. \A e \in server'.inflight \cup server'.asked \cup server'.said : call[e] # "idle"
    BY <1>2, <1>6, Stays
  <1>8. stdout' \in Seq(Words) /\ Len(stdout') <= PipeDepth
    BY <1>1, Stays
  <1> QED BY <1>1, <1>2, <1>5, <1>6, <1>7, <1>8, PluginStep

\* A running tool ends, or the shutdown is answered.
LEMMA AnswerSteps ==
  ASSUME IInv, (\E c \in Tools : ToolEnds(c)) \/ ShutdownAnswered
  PROVE  IInv'
  <1>0. server \in ServerType
    BY DEF IInv, WireTyped
  <1>1. /\ process = "running" /\ stdin' = stdin /\ host' = host /\ process' = process
    BY ZenonT(60) DEF ToolEnds, ShutdownAnswered
  <1>2. PICK c \in server.inflight \cup server.asked, kind \in {"reply", "error"} :
          /\ Says(Reply(kind, c))
          /\ \/ server' = [server EXCEPT !.inflight = @ \ {c}, !.cancelled = @ \ {c},
                                         !.said = @ \cup {c}]
             \/ server' = [server EXCEPT !.at = "stopped", !.ready = FALSE, !.asked = {},
                                         !.said = @ \cup {c}]
    BY DEF ToolEnds, ShutdownAnswered
  <1>3. c \in Calls /\ call[c] # "idle"
    BY <1>0, Stays, SMTT(40) DEF ServerType
  <1>4. server' \in ServerType
    BY <1>0, <1>2, <1>3, ServerMoved
  <1>5. /\ server'.inflight \subseteq server.inflight /\ server'.asked \subseteq server.asked
        /\ server'.said = server.said \cup {c}
    BY <1>0, <1>2, ZenonT(60) DEF ServerType
  <1>6. /\ stdout' \in Seq(Words) /\ Len(stdout') <= PipeDepth
        /\ \A e \in pending : Speaks(stdout, e) => Speaks(stdout', e)
        /\ c \in pending => Speaks(stdout', c)
    BY <1>2, <1>3, Spoken, SaysKeeps
  <1>7. \A e \in server'.inflight \cup server'.asked \cup server'.said : call[e] # "idle"
    BY <1>3, <1>5, Stays
  <1>8. stdin' \in Seq(Made) /\ Len(stdin') <= PipeDepth
    BY <1>1, Stays
  <1> QED BY <1>1, <1>4, <1>5, <1>6, <1>7, <1>8, PluginStep

\* Steps that answer nobody.
LEMMA QuietSteps ==
  ASSUME IInv, InputEnds \/ Exits \/ Emit \/ Crashes \/ Babbles
  PROVE  IInv'
  <1>0. server \in ServerType /\ server.emitted \in Nat
    BY DEF IInv, WireTyped, ServerType
  <1>1. /\ process = "running" /\ stdin' = stdin /\ host' = host
        /\ process' \in {"running", "exited", "crashed"}
    BY DEF InputEnds, Exits, Emit, Crashes, Babbles
  <1>2. \/ stdout' = stdout
        \/ process' = process /\ (Says(Event) \/ Says(Garbage))
    BY DEF InputEnds, Exits, Emit, Crashes, Babbles
  <1>3. Event \in Words /\ Garbage \in Words
    BY DEF Event, Garbage, Words, Calls
  <1>4. /\ stdout' \in Seq(Words) /\ Len(stdout') <= PipeDepth
        /\ \A e \in pending : Speaks(stdout, e) => Speaks(stdout', e)
    BY <1>2, <1>3, Stays, SaysKeeps
  <1>5. \/ server' = server
        \/ server' = [server EXCEPT !.at = "stopped", !.cancelled = @ \cup server.inflight]
        \/ \E n \in Nat : server' = [server EXCEPT !.emitted = n]
    BY <1>0, DepthAssumption, SMTT(40) DEF InputEnds, Exits, Emit, Crashes, Babbles
  <1>6. server' \in ServerType
    <2>1. Handshake \in Calls
      BY DEF Calls
    <2> QED BY <1>0, <1>5, <2>1, ServerMoved
  <1>7. /\ server'.inflight = server.inflight /\ server'.asked = server.asked
        /\ server'.said = server.said
    BY <1>0, <1>5 DEF ServerType
  <1>8. /\ stdin' \in Seq(Made) /\ Len(stdin') <= PipeDepth
        /\ \A e \in server'.inflight \cup server'.asked \cup server'.said : call[e] # "idle"
    BY <1>1, <1>7, Stays
  <1> QED BY <1>1, <1>2, <1>4, <1>6, <1>7, <1>8, PluginStep

-----------------------------------------------------------------------------
(* The specification.                                                      *)

\* A session begins, or is looked at after its start.
LEMMA Begins ==
  ASSUME NEW A \in SUBSET Calls, InitAfter(A)
  PROVE  IInv
  <1>1. HostTyped
    <2>1. call \in [Calls -> Underway \cup Ended \cup {"idle"}]
      BY DEF InitAfter, Ended
    <2>2. answer \in [Calls -> {"none", "reply", "error", "exit"}]
      BY DEF InitAfter
    <2>3. pending \subseteq Calls /\ cancels \subseteq Calls /\ events \in 0..EventDepth
      BY DepthAssumption DEF InitAfter
    <2>4. writer \in WriterType /\ reader \in ReaderType
      BY WriterTyped, ReaderTyped DEF InitAfter
    <2>5. session \in SessionType
      BY DEF InitAfter, SessionType
    <2> QED BY <2>1, <2>2, <2>3, <2>4, <2>5 DEF HostTyped
  <1>2. WireTyped
    <2>1. queue = <<>> /\ stdin = <<>> /\ stdout = <<>>
      BY DEF InitAfter
    <2>2. /\ \A S : <<>> \in Seq(S)
          /\ Len(<<>>) = 0
      OBVIOUS
    <2>3. server \in ServerType
      BY DEF InitAfter, ServerType
    <2> QED BY <2>1, <2>2, <2>3, DepthAssumption DEF WireTyped
  <1>3. MadeFirst
    BY DEF InitAfter, MadeFirst
  <1>4. PendingFits /\ DeliverFits /\ SaidFits /\ ExitFits
    BY DEF InitAfter, PendingFits, DeliverFits, SaidFits, ExitFits
  <1>5. DoneFits
    BY DEF InitAfter, DoneFits
  <1>6. WaitFits /\ Unmade
    BY DEF InitAfter, WaitFits, Unmade, Underway
  <1> QED BY <1>1, <1>2, <1>3, <1>4, <1>5, <1>6 DEF IInv

\* Every step keeps the invariant.
LEMMA EveryStep ==
  ASSUME IInv, [Next]_vars
  PROVE  IInv'
  <1>1. CASE UNCHANGED vars
    <2>1. /\ UNCHANGED <<call, answer, pending, cancels, reader, events, session, stdout, server, process>>
          /\ UNCHANGED <<writer, queue, stdin>>
      BY <1>1 DEF vars, host, plugin
    <2>2. /\ writer \in WriterType /\ (writer.at \in {"writing", "failing"} => writer.frame \in Made)
          /\ queue \in Seq(Made) /\ Len(queue) <= QueueDepth
          /\ stdin \in Seq(Made) /\ Len(stdin) <= PipeDepth
      BY DEF IInv, HostTyped, WireTyped, MadeFirst
    <2> QED BY <2>1, <2>2, WriterStep
  <1>2. ASSUME NEW c \in Calls,
               \/ Invoke(c) \/ Oversized(c) \/ Proceeds(c) \/ GiveUp(c)
               \/ EnqueueCancel(c) \/ CancelExpires(c)
        PROVE  IInv'
    <2>1. CASE Invoke(c)
      BY <2>1, InvokeStep
    <2>2. CASE Enqueue(c)
      BY <2>2, EnqueueStep
    <2>3. CASE Oversized(c) \/ Written(c) \/ Answered(c) \/ SeeExit(c) \/ GiveUp(c)
      BY <2>3, ReturnSteps
    <2>4. CASE EnqueueCancel(c) \/ CancelExpires(c)
      BY <2>4, CancelSteps
    <2> QED BY <1>2, <2>1, <2>2, <2>3, <2>4 DEF Proceeds
  <1>3. CASE Writer
    BY <1>3, WriterSteps, WriteFailsStep DEF Writer
  <1>4. CASE Reader
    BY <1>4, ReadSteps, DeliverStep, ReadEndStep DEF Reader
  <1>5. CASE Waiter
    BY <1>5, ReapedStep DEF Waiter
  <1>6. CASE Release \/ CloseStdin \/ Closer
    BY <1>6, CloserSteps DEF Closer
  <1>7. CASE Plugin
    BY <1>7, HandleInlineStep, HandleSteps, AnswerSteps, QuietSteps DEF Plugin
  <1> QED BY <1>1, <1>2, <1>3, <1>4, <1>5, <1>6, <1>7 DEF Next

\* The invariant contains what the session promises.
LEMMA Promised ==
  ASSUME IInv
  PROVE  SessionHolds
  <1>1. SessionTypeOK
    <2>1. \A i \in DOMAIN queue : queue[i] \in Frames
      <3>1. queue \in Seq(Frames)
        BY SeqWider DEF IInv, WireTyped, Made
      <3> QED BY <3>1
    <2>2. events <= EventDepth
      BY DepthAssumption DEF IInv, HostTyped
    <2>3. reader.at = "delivering" => reader.frame.call \notin pending
      BY DEF IInv, DeliverFits
    <2>4. /\ call \in [Calls -> Underway \cup Ended \cup {"idle"}]
          /\ Len(queue) <= QueueDepth /\ Len(stdin) <= PipeDepth /\ Len(stdout) <= PipeDepth
          /\ \A c \in pending : call[c] \in Underway /\ answer[c] = "none"
          /\ session.done => pending = {}
      BY DEF IInv, HostTyped, WireTyped, PendingFits, DoneFits
    <2> QED BY <2>1, <2>2, <2>3, <2>4 DEF SessionTypeOK
  <1>2. RepliesBeatTheExit
    BY DEF IInv, ExitFits, RepliesBeatTheExit
  <1> QED BY <1>1, <1>2 DEF SessionHolds

\* For any calls and bounds: the session keeps its books, and a caller to whom
\* the plugin spoke is not told that it went, if the session ended with the
\* plugin's output read to the end (plugins/stdio.go:308, 329, 565).
THEOREM SessionHoldsAlways == Spec => []SessionHolds
  <1>1. Init => IInv
    BY Begins DEF Init
  <1>2. IInv /\ [Next]_vars => IInv'
    BY EveryStep
  <1>3. IInv => SessionHolds
    BY Promised
  <1> QED BY <1>1, <1>2, <1>3, PTL DEF Spec

\* The same of a session that is looked at when some of its calls have been
\* answered, as the run does with a plugin that was started.
THEOREM SessionHoldsAfterStart ==
  ASSUME NEW A \in SUBSET Calls
  PROVE  InitAfter(A) /\ [][Next]_vars => []SessionHolds
  <1>1. InitAfter(A) => IInv
    BY Begins
  <1>2. IInv /\ [Next]_vars => IInv'
    BY EveryStep
  <1>3. IInv => SessionHolds
    BY Promised
  <1> QED BY <1>1, <1>2, <1>3, PTL

-----------------------------------------------------------------------------
(* Packages: rows, directories, grants and the publishers that are trusted. *)

Caps == UNION {Declares[p] : p \in Packages}
Rows == [version : Versions, package : Packages, enabled : BOOLEAN]
Installs ==
  [kind : {"install"}, pc : {"get", "copy", "place", "verify", "record"}, plugin : Plugins,
   version : Versions, inspected : Packages, decision : {"unsigned", "verified", "unverified"},
   content : Packages \cup {None}]
Enables ==
  [kind : {"enable"}, pc : {"previous", "grants", "enabled"}, plugin : Plugins,
   consents : SUBSET Caps, previous : SUBSET Caps]
Removals ==
  [kind : Removal, pc : {"stop", "remove", "row"}, plugin : Plugins, version : Versions]
Startings ==
  [kind : {"start"}, pc : {"verify", "run"}, plugin : Plugins, version : Versions,
   package : Packages, shut : SUBSET Keys, dev : BOOLEAN, seen : Packages \cup {None}]
TrustEdits ==
  [kind : {"trust", "revoke"}, pc : {"write"}, plugin : {None}, keys : SUBSET Keys]
Works == {Idle} \cup Installs \cup Enables \cup Removals \cup Startings \cup TrustEdits

PackagesTyped ==
  /\ source \in Packages /\ disk \in [Plugins \X Versions -> Packages \cup {None}]
  /\ row \in [Plugins -> Rows \cup {None}] /\ grants \in [Plugins -> SUBSET Caps]
  /\ trust \subseteq Keys /\ revoked \subseteq Keys /\ devMode \in BOOLEAN
  /\ work \in [Slots -> Works]
  /\ \A t \in Slots : work[t].kind = "install" /\ work[t].pc \in {"place", "verify", "record"}
                      => work[t].content \in Packages

FilesFit == RowsDescribeTheFiles /\ NothingIsLeftBehind

\* A call that may change what a consent of the plugin is compared with.
Competes(c) == c.kind \in {"enable", "install", "uninstall"}

\* What a consent that met no other change is about to write, and to write back,
\* is what the row's manifest declares.
Suits(r, g, c) ==
  LET d == Declares[r.package] IN
    /\ r # None /\ c.consents \subseteq d
    /\ c.pc = "enabled" => g \subseteq d
    /\ c.pc \in {"grants", "enabled"} /\ r.enabled => c.previous \subseteq d
Considered(i, c) == Suits(row[i], grants[i], c)
Unmet(i) ==
  /\ row[i] # None /\ row[i].enabled => grants[i] \subseteq Declares[row[i].package]
  /\ \A t \in Consents(i) : /\ Considered(i, work[t])
                            /\ \A u \in Busy(i) : Competes(work[u]) => u = t
ConsentsFit == \A i \in Plugins \ crossed : Unmet(i)

\* What a start has verified, it found signed by somebody it trusts.
StartsFit ==
  /\ trust \cap revoked = {}
  /\ \A t \in Slots : At(t, "start", "run") /\ ~work[t].dev
                      => work[t].seen \in Packages /\ Signer[work[t].seen] \notin work[t].shut \cup {None}

PackagesInv == PackagesTyped /\ FilesFit /\ ConsentsFit /\ StartsFit

-----------------------------------------------------------------------------
LEMMA IdleIsNothing ==
  /\ Idle \in Works /\ Idle.kind = "idle" /\ Idle.pc = "idle" /\ ~Competes(Idle)
  BY DEF Idle, Works, Competes

\* What a call is shows in its kind.
LEMMA KindsOfWork ==
  ASSUME NEW c \in Works
  PROVE  /\ c.kind = "install" => c \in Installs
         /\ c.kind = "enable" => c \in Enables
         /\ c.kind \in Removal => c \in Removals
         /\ c.kind = "start" => c \in Startings
         /\ c.kind \in {"trust", "revoke"} => c \in TrustEdits
<1>1. CASE c = Idle
  BY <1>1 DEF Idle, Removal
<1>2. CASE c \in Installs
  BY <1>2 DEF Installs, Removal
<1>3. CASE c \in Enables
  BY <1>3 DEF Enables, Removal
<1>4. CASE c \in Removals
  BY <1>4 DEF Removals, Removal
<1>5. CASE c \in Startings
  BY <1>5 DEF Startings, Removal
<1>6. CASE c \in TrustEdits
  BY <1>6 DEF TrustEdits, Removal
<1> QED
  BY <1>1, <1>2, <1>3, <1>4, <1>5, <1>6 DEF Works

LEMMA PackagesStart ==
  ASSUME PackagesAssumption, PackagesInit
  PROVE  PackagesInv
<1>1. PackagesTyped
  BY IdleIsNothing DEF PackagesInit, PackagesTyped
<1>2. FilesFit
  <2>1. /\ \A i \in Plugins : row[i] = None
        /\ \A i \in Plugins, v \in Versions : disk[<<i, v>>] = None
    BY DEF PackagesInit
  <2> QED
    BY <2>1 DEF FilesFit, RowsDescribeTheFiles, NothingIsLeftBehind
<1>3. ConsentsFit
  <2>1. ASSUME NEW i \in Plugins
        PROVE  Unmet(i)
    <3>1. row[i] = None /\ \A t \in Slots : work[t].kind = "idle"
      BY IdleIsNothing DEF PackagesInit
    <3> QED
      BY <3>1 DEF Unmet, Consents
  <2> QED
    BY <2>1 DEF ConsentsFit
<1>4. StartsFit
  BY IdleIsNothing DEF PackagesInit, StartsFit, At
<1> QED
  BY <1>1, <1>2, <1>3, <1>4 DEF PackagesInv

-----------------------------------------------------------------------------
(* A step of one call: what it leaves alone stays as it was.               *)

Turns(s, c) == c \in Works /\ work' = [work EXCEPT ![s] = c]
Whole(c) == c.kind = "install" /\ c.pc \in {"place", "verify", "record"} => c.content \in Packages

LEMMA OthersWork ==
  ASSUME PackagesTyped, NEW s \in Slots, NEW c, Turns(s, c)
  PROVE  work'[s] = c /\ \A t \in Slots \ {s} : work'[t] = work[t]
  BY DEF PackagesTyped, Turns

LEMMA TypedTurn ==
  ASSUME PackagesTyped, NEW s \in Slots, NEW c, Turns(s, c), Whole(c),
         source' \in Packages, disk' \in [Plugins \X Versions -> Packages \cup {None}],
         row' \in [Plugins -> Rows \cup {None}], grants' \in [Plugins -> SUBSET Caps],
         trust' \subseteq Keys, revoked' \subseteq Keys, devMode' \in BOOLEAN
  PROVE  PackagesTyped'
<1>1. work' \in [Slots -> Works]
  BY DEF PackagesTyped, Turns
<1>2. ASSUME NEW t \in Slots, work'[t].kind = "install", work'[t].pc \in {"place", "verify", "record"}
      PROVE  work'[t].content \in Packages
  BY <1>2, OthersWork DEF PackagesTyped, Whole
<1> QED
  BY <1>1, <1>2 DEF PackagesTyped

Placer(c, i, v) ==
  c.plugin = i /\ c.kind = "install" /\ c.pc \in {"verify", "record"} /\ c.version = v

LEMMA PlacersPlace ==
  ASSUME NEW i, NEW v
  PROVE  Placing(i, v) <=> \E t \in Slots : Placer(work[t], i, v)
  BY DEF Placing, Placer, Busy

LEMMA PlacingTurns ==
  ASSUME PackagesTyped, NEW s \in Slots, NEW c, Turns(s, c), NEW i, NEW v
  PROVE  /\ Placing(i, v)' <=> (Placer(c, i, v) \/ \E t \in Slots \ {s} : Placer(work[t], i, v))
         /\ Placing(i, v) <=> (Placer(work[s], i, v) \/ \E t \in Slots \ {s} : Placer(work[t], i, v))
<1>1. Placing(i, v)' <=> \E t \in Slots : Placer(work'[t], i, v)
  BY DEF Placing, Placer, Busy
<1>2. Placing(i, v) <=> \E t \in Slots : Placer(work[t], i, v)
  BY PlacersPlace
<1> QED
  BY <1>1, <1>2, OthersWork

\* Nothing happens to the files, and an install that places still does.
LEMMA FilesRest ==
  ASSUME PackagesInv, NEW s \in Slots, NEW c, Turns(s, c),
         UNCHANGED <<disk, orphaned>>,
         \A i \in Plugins : /\ row'[i] = None <=> row[i] = None
                            /\ row[i] # None => /\ row'[i].version = row[i].version
                                                /\ row'[i].package = row[i].package,
         \A i, v : Placer(work[s], i, v) => Placer(c, i, v)
  PROVE  FilesFit'
<1>0. PackagesTyped /\ RowsDescribeTheFiles /\ NothingIsLeftBehind
  BY DEF PackagesInv, FilesFit
<1>1. \A i, v : Placing(i, v) => Placing(i, v)'
  BY <1>0, PlacingTurns
<1>2. RowsDescribeTheFiles'
  BY <1>0, <1>1 DEF RowsDescribeTheFiles
<1>3. NothingIsLeftBehind'
  BY <1>0, <1>1 DEF NothingIsLeftBehind
<1> QED
  BY <1>2, <1>3 DEF FilesFit

\* A directory is removed by the call that put it there, or by an uninstall.
LEMMA DirectoryGoes ==
  ASSUME PackagesInv, NEW s \in Slots, NEW c, Turns(s, c), row' = row,
         removeOwnedPluginDirectory(s), Place(s) \in Plugins \X Versions,
         \A i, v : Placer(work[s], i, v) => Placer(c, i, v) \/ <<i, v>> = Place(s)
  PROVE  FilesFit'
<1>0. PackagesTyped /\ RowsDescribeTheFiles /\ NothingIsLeftBehind
  BY DEF PackagesInv, FilesFit
<1> DEFINE d == Place(s)
<1>1. d \in Plugins \X Versions /\ disk' = [disk EXCEPT ![d] = None] /\ orphaned' = orphaned \ {d}
  BY DEF removeOwnedPluginDirectory
<1>2. \A i, v : Placing(i, v) => Placing(i, v)' \/ <<i, v>> = d
  BY <1>0, PlacingTurns
<1> HIDE DEF d
<1>3. ASSUME NEW i \in Plugins, NEW v \in Versions
      PROVE  IF <<i, v>> = d THEN disk'[<<i, v>>] = None
             ELSE /\ disk'[<<i, v>>] = disk[<<i, v>>] /\ (<<i, v>> \in orphaned => <<i, v>> \in orphaned')
                  /\ (Placing(i, v) => Placing(i, v)')
  BY <1>0, <1>1, <1>2 DEF PackagesTyped
<1>4. ASSUME NEW i \in Plugins, row[i] # None
      PROVE  row[i].version \in Versions
  BY <1>0, <1>4 DEF PackagesTyped, Rows
<1>5. RowsDescribeTheFiles'
  BY <1>0, <1>3, <1>4 DEF RowsDescribeTheFiles
<1>6. NothingIsLeftBehind'
  BY <1>0, <1>3 DEF NothingIsLeftBehind
<1> QED
  BY <1>5, <1>6 DEF FilesFit

\* A call that does not compete with consents, or goes on competing with them.
LEMMA ConsentsRest ==
  ASSUME PackagesInv, NEW s \in Slots, NEW c, Turns(s, c),
         UNCHANGED <<row, grants>>, crossed \subseteq crossed',
         Competes(c) => /\ c.kind \in {"install", "uninstall"}
                        /\ c.plugin \in crossed' \/ Consents(c.plugin) = {}
                           \/ (c.kind = work[s].kind /\ c.plugin = work[s].plugin)
  PROVE  ConsentsFit'
<1> SUFFICES ASSUME NEW i \in Plugins \ crossed'
             PROVE  Unmet(i)'
  BY DEF ConsentsFit
<1>0. PackagesTyped /\ Unmet(i)
  BY DEF PackagesInv, ConsentsFit
<1>1. row' = row /\ grants' = grants
  OBVIOUS
<1>2. work'[s] = c /\ \A t \in Slots \ {s} : work'[t] = work[t]
  BY <1>0, OthersWork, SMTT(40)
<1>3. \A t \in Consents(i)' : t \in Slots /\ t # s /\ t \in Consents(i) /\ work'[t] = work[t]
  BY <1>2 DEF Consents, Competes
<1>4. ASSUME NEW t \in Consents(i)'
      PROVE  Considered(i, work[t])'
  <2>1. Considered(i, work[t])
    BY <1>0, <1>3 DEF Unmet
  <2> QED
    BY <1>1, <1>3, <2>1 DEF Considered, Suits
<1>5. ASSUME NEW t \in Consents(i)', NEW u \in Busy(i)', Competes(work'[u])
      PROVE  u = t
  <2>1. CASE u # s
    <3>1. u \in Busy(i) /\ Competes(work[u])
      BY <1>2, <1>5, <2>1 DEF Busy
    <3> QED
      BY <1>0, <1>3, <3>1 DEF Unmet
  <2>2. CASE u = s
    <3>1. c.plugin = i /\ Competes(c)
      BY <1>2, <1>5, <2>2 DEF Busy
    <3>2. s \in Busy(i) /\ Competes(work[s])
      BY <3>1, <1>3 DEF Busy, Competes
    <3> QED
      BY <1>0, <1>3, <2>2, <3>2 DEF Unmet
  <2> QED
    BY <2>1, <2>2
<1> QED
  <2>1. row'[i] # None /\ row'[i].enabled => grants'[i] \subseteq Declares[row'[i].package]
    BY <1>0, <1>1 DEF Unmet
  <2> QED
    BY <1>4, <1>5, <2>1 DEF Unmet

\* A call that is no start about to run.
LEMMA StartsRest ==
  ASSUME PackagesInv, NEW s \in Slots, NEW c, Turns(s, c), UNCHANGED <<trust, revoked>>,
         ~(c.kind = "start" /\ c.pc = "run")
  PROVE  StartsFit'
<1>1. work'[s] = c /\ \A t \in Slots \ {s} : work'[t] = work[t]
  BY OthersWork DEF PackagesInv
<1> QED
  BY <1>1 DEF PackagesInv, StartsFit, At

-----------------------------------------------------------------------------
(* One lemma for each call.                                                *)

\* A call that only moves on, and is no enable, no start about to run, and no
\* install that has placed its directory.
LEMMA MovesOnKeeps ==
  ASSUME PackagesAssumption, PackagesInv, NEW s \in Slots, NEW c, Turns(s, c), Whole(c),
         UNCHANGED <<installed, grants, trust, devMode, revoked>>, crossed \subseteq crossed',
         source' \in Packages,
         \A i, v : Placer(work[s], i, v) => Placer(c, i, v),
         Competes(c) => /\ c.kind \in {"install", "uninstall"}
                        /\ c.plugin \in crossed' \/ Consents(c.plugin) = {}
                           \/ (c.kind = work[s].kind /\ c.plugin = work[s].plugin),
         ~(c.kind = "start" /\ c.pc = "run")
  PROVE  PackagesInv'
<1>1. PackagesTyped /\ UNCHANGED <<disk, row, orphaned>>
  BY DEF PackagesInv, installed
<1>2. PackagesTyped'
  BY <1>1, TypedTurn DEF PackagesTyped
<1>3. FilesFit'
  BY <1>1, FilesRest
<1> QED
  BY <1>1, <1>2, <1>3, ConsentsRest, StartsRest DEF PackagesInv

LEMMA EndsKeeps ==
  ASSUME PackagesAssumption, PackagesInv, NEW s \in Slots, work' = [work EXCEPT ![s] = Idle],
         UNCHANGED <<source, installed, grants, trust, devMode, revoked>>, crossed \subseteq crossed',
         ~(work[s].kind = "install" /\ work[s].pc \in {"verify", "record"})
  PROVE  PackagesInv'
<1>1. Turns(s, Idle) /\ Whole(Idle)
  BY IdleIsNothing DEF Turns, Whole
<1>2. source' \in Packages
  BY DEF PackagesInv, PackagesTyped
<1>3. \A i, v : ~Placer(work[s], i, v)
  BY DEF Placer
<1> QED
  BY <1>1, <1>2, <1>3, IdleIsNothing, MovesOnKeeps

LEMMA inspectKeeps ==
  ASSUME PackagesAssumption, PackagesInv, NEW s \in Slots, inspectPluginPackage(s)
  PROVE  PackagesInv'
<1> DEFINE c == [kind |-> "install", pc |-> "get", plugin |-> PluginOf[source], version |-> Version[source],
                 inspected |-> source, decision |-> VerifyPackage(source), content |-> None]
<1>1. /\ work[s] = Idle /\ UNCHANGED <<source, installed, grants, trust, devMode, revoked>>
      /\ \/ work' = [work EXCEPT ![s] = Idle] /\ UNCHANGED crossed
         \/ /\ work' = [work EXCEPT ![s] = c] /\ Crosses(PluginOf[source], Consents(PluginOf[source]))
  BY DEF inspectPluginPackage, Begin, settings
<1>2. source \in Packages /\ source' \in Packages
  BY <1>1 DEF PackagesInv, PackagesTyped
<1>3. PluginOf[source] \in Plugins /\ Version[source] \in Versions
  BY <1>2 DEF Plugins, Versions
<1>4. VerifyPackage(source) \in {"unsigned", "verified", "unverified"}
  BY DEF VerifyPackage
<1>5. c \in Installs
  BY <1>2, <1>3, <1>4 DEF Installs
<1>6. c \in Works /\ c.kind = "install" /\ c.pc = "get" /\ c.plugin = PluginOf[source]
  BY <1>5 DEF Works
<1> HIDE DEF c
<1>7. CASE work' = [work EXCEPT ![s] = Idle] /\ UNCHANGED crossed
  BY <1>1, <1>7, IdleIsNothing, EndsKeeps
<1>8. CASE work' = [work EXCEPT ![s] = c] /\ Crosses(PluginOf[source], Consents(PluginOf[source]))
  <2>1. Turns(s, c) /\ Whole(c)
    BY <1>6, <1>8 DEF Turns, Whole
  <2>2. crossed \subseteq crossed' /\ (c.plugin \in crossed' \/ Consents(c.plugin) = {})
    BY <1>6, <1>8 DEF Crosses
  <2>3. \A i, v : ~Placer(work[s], i, v)
    BY <1>1, IdleIsNothing DEF Placer
  <2> QED
    BY <1>1, <1>2, <1>6, <2>1, <2>2, <2>3, MovesOnKeeps
<1> QED
  BY <1>1, <1>7, <1>8

\* An install that has not placed its directory yet.
LEMMA InstallMoves ==
  ASSUME PackagesAssumption, PackagesInv, NEW s \in Slots, NEW c \in Installs,
         work[s].kind = "install", work[s].pc \in {"get", "copy"},
         work' = [work EXCEPT ![s] = c], c.plugin = work[s].plugin, c.pc \in {"copy", "place"},
         c.pc = "place" => c.content \in Packages,
         UNCHANGED <<source, installed, grants, trust, devMode, revoked, crossed>>
  PROVE  PackagesInv'
<1>1. Turns(s, c) /\ Whole(c) /\ c.kind = "install"
  BY DEF Turns, Whole, Works, Installs
<1>2. \A i, v : ~Placer(work[s], i, v)
  BY DEF Placer
<1>3. source' \in Packages
  BY DEF PackagesInv, PackagesTyped
<1> QED
  BY <1>1, <1>2, <1>3, MovesOnKeeps

LEMMA InstallPluginKeeps ==
  ASSUME PackagesAssumption, PackagesInv, NEW s \in Slots, InstallPlugin(s)
  PROVE  PackagesInv'
<1> DEFINE r == work[s]
           c == [r EXCEPT !.pc = "copy"]
<1>1. /\ r.kind = "install" /\ r.pc = "get"
      /\ UNCHANGED <<source, installed, grants, trust, devMode, revoked, crossed>>
      /\ work' = [work EXCEPT ![s] = Idle] \/ work' = [work EXCEPT ![s] = c]
  BY DEF InstallPlugin, At, Goes, settings
<1>2. r \in Installs
  BY <1>1, KindsOfWork DEF PackagesInv, PackagesTyped
<1>3. CASE work' = [work EXCEPT ![s] = Idle]
  BY <1>1, <1>3, EndsKeeps
<1>4. CASE work' = [work EXCEPT ![s] = c]
  <2> HIDE DEF r
  <2>1. c \in Installs /\ c.pc = "copy" /\ c.plugin = r.plugin
    BY <1>2 DEF Installs
  <2> HIDE DEF c
  <2> QED
    BY <1>1, <1>4, <2>1, InstallMoves DEF r
<1> QED
  BY <1>1, <1>3, <1>4

LEMMA copyPluginTreeKeeps ==
  ASSUME PackagesAssumption, PackagesInv, NEW s \in Slots, copyPluginTree(s)
  PROVE  PackagesInv'
<1> DEFINE r == work[s]
           c == [r EXCEPT !.pc = "place", !.content = source]
<1>1. /\ r.kind = "install" /\ r.pc = "copy"
      /\ UNCHANGED <<source, installed, grants, trust, devMode, revoked, crossed>>
      /\ work' = [work EXCEPT ![s] = Idle] \/ work' = [work EXCEPT ![s] = c]
  BY DEF copyPluginTree, At, Goes, Fails, settings
<1>2. r \in Installs /\ source \in Packages
  BY <1>1, KindsOfWork DEF PackagesInv, PackagesTyped
<1>3. CASE work' = [work EXCEPT ![s] = Idle]
  BY <1>1, <1>3, EndsKeeps
<1>4. CASE work' = [work EXCEPT ![s] = c]
  <2> HIDE DEF r
  <2>1. c \in Installs /\ c.pc = "place" /\ c.plugin = r.plugin /\ c.content = source
    BY <1>2 DEF Installs
  <2> HIDE DEF c
  <2> QED
    BY <1>1, <1>2, <1>4, <2>1, InstallMoves DEF r
<1> QED
  BY <1>1, <1>3, <1>4

\* What an install that has the directory in hand does to the rest.
LEMMA InstallSettles ==
  ASSUME PackagesAssumption, PackagesInv, NEW s \in Slots, NEW c, Turns(s, c), Whole(c),
         work[s].kind = "install", c = Idle \/ (c.kind = "install" /\ c.plugin = work[s].plugin),
         UNCHANGED <<source, grants, trust, devMode, revoked, row, crossed>>,
         disk' \in [Plugins \X Versions -> Packages \cup {None}], FilesFit'
  PROVE  PackagesInv'
<1>1. PackagesTyped'
  BY TypedTurn DEF PackagesInv, PackagesTyped
<1>2. ConsentsFit'
  <2>1. Competes(c) => c.kind = "install" /\ c.kind = work[s].kind /\ c.plugin = work[s].plugin
    BY IdleIsNothing
  <2> QED
    BY <2>1, ConsentsRest
<1>3. StartsFit'
  BY IdleIsNothing, StartsRest
<1> QED
  BY <1>1, <1>2, <1>3 DEF PackagesInv

LEMMA PlaceIsOne ==
  ASSUME PackagesInv, NEW s \in Slots, work[s].kind \in {"install", "start"} \cup Removal
  PROVE  Place(s) \in Plugins \X Versions
<1>1. work[s] \in Installs \/ work[s] \in Removals \/ work[s] \in Startings
  BY KindsOfWork DEF PackagesInv, PackagesTyped
<1> QED
  BY <1>1 DEF Place, Installs, Removals, Startings

LEMMA installPluginDirectoryKeeps ==
  ASSUME PackagesAssumption, PackagesInv, NEW s \in Slots, installPluginDirectory(s)
  PROVE  PackagesInv'
<1> DEFINE r == work[s]
           c == [r EXCEPT !.pc = "verify"]
           d == Place(s)
<1>1. /\ r.kind = "install" /\ r.pc = "place"
      /\ UNCHANGED <<source, row, orphaned, grants, trust, devMode, revoked, crossed>>
      /\ \/ disk' = disk /\ work' = [work EXCEPT ![s] = Idle]
         \/ disk' = [disk EXCEPT ![d] = r.content] /\ work' = [work EXCEPT ![s] = c]
  BY DEF installPluginDirectory, At, Goes, settings
<1>2. r \in Installs /\ r.content \in Packages /\ r.plugin \in Plugins /\ r.version \in Versions
  BY <1>1, KindsOfWork DEF PackagesInv, PackagesTyped, Installs
<1>3. CASE disk' = disk /\ work' = [work EXCEPT ![s] = Idle]
  BY <1>1, <1>3, EndsKeeps DEF installed
<1>4. CASE disk' = [disk EXCEPT ![d] = r.content] /\ work' = [work EXCEPT ![s] = c]
  <2>1. d = <<r.plugin, r.version>>
    BY DEF Place
  <2>2. d \in Plugins \X Versions
    BY <1>2, <2>1
  <2> HIDE DEF r, d
  <2>3. c \in Installs /\ c.pc = "verify" /\ c.kind = "install" /\ c.plugin = r.plugin /\ c.version = r.version
        /\ c.content = r.content
    BY <1>2 DEF Installs
  <2> HIDE DEF c
  <2>4. Turns(s, c) /\ Whole(c)
    BY <1>2, <1>4, <2>3 DEF Turns, Whole, Works
  <2>5. PackagesTyped /\ RowsDescribeTheFiles /\ NothingIsLeftBehind
    BY DEF PackagesInv, FilesFit
  <2>6. disk' \in [Plugins \X Versions -> Packages \cup {None}]
    BY <1>2, <1>4, <2>5 DEF PackagesTyped
  <2>7. \A i, v : Placing(i, v)' <=> (Placer(c, i, v) \/ Placing(i, v))
    <3>1. \A i, v : ~Placer(work[s], i, v)
      BY <1>1 DEF Placer, r
    <3> QED
      BY <2>4, <2>5, <3>1, PlacingTurns
  <2>8. ASSUME NEW i \in Plugins, NEW v \in Versions
        PROVE  Placing(i, v)' \/ (disk'[<<i, v>>] = disk[<<i, v>>] /\ ~Placing(i, v))
    <3>1. CASE <<i, v>> = d
      BY <2>1, <2>3, <2>7, <3>1 DEF Placer
    <3>2. CASE <<i, v>> # d
      BY <1>4, <2>2, <2>5, <2>7, <3>2 DEF PackagesTyped
    <3> QED
      BY <3>1, <3>2
  <2>9. ASSUME NEW i \in Plugins, row[i] # None
        PROVE  row[i].version \in Versions
    BY <2>5, <2>9 DEF PackagesTyped, Rows
  <2>10. RowsDescribeTheFiles'
    BY <1>1, <2>5, <2>8, <2>9 DEF RowsDescribeTheFiles
  <2>11. NothingIsLeftBehind'
    BY <1>1, <2>5, <2>8 DEF NothingIsLeftBehind
  <2> QED
    BY <1>1, <2>3, <2>4, <2>6, <2>10, <2>11, InstallSettles DEF FilesFit, r
<1> QED
  BY <1>1, <1>3, <1>4

\* The directory is removed and the call ends, or an uninstall goes on.
LEMMA RemovedIsTyped ==
  ASSUME PackagesInv, NEW s \in Slots, removeOwnedPluginDirectory(s)
  PROVE  disk' \in [Plugins \X Versions -> Packages \cup {None}]
  BY DEF PackagesInv, PackagesTyped, removeOwnedPluginDirectory

LEMMA InstallGivesUp ==
  ASSUME PackagesAssumption, PackagesInv, NEW s \in Slots, work[s].kind = "install",
         removeOwnedPluginDirectory(s), work' = [work EXCEPT ![s] = Idle],
         UNCHANGED <<source, grants, trust, devMode, revoked, row, crossed>>
  PROVE  PackagesInv'
<1>1. Turns(s, Idle) /\ Whole(Idle)
  BY IdleIsNothing DEF Turns, Whole
<1>2. \A i, v : Placer(work[s], i, v) => <<i, v>> = Place(s)
  BY DEF Placer, Place
<1>3. FilesFit'
  BY <1>1, <1>2, PlaceIsOne, DirectoryGoes
<1> QED
  BY <1>1, <1>3, RemovedIsTyped, InstallSettles

LEMMA verifyInstalledKeeps ==
  ASSUME PackagesAssumption, PackagesInv, NEW s \in Slots, verifyInstalled(s)
  PROVE  PackagesInv'
<1> DEFINE r == work[s]
           p == disk[Place(s)]
           c == [r EXCEPT !.pc = "record", !.content = p]
<1>1. /\ r.kind = "install" /\ r.pc = "verify"
      /\ UNCHANGED <<source, row, grants, trust, devMode, revoked, crossed>>
      /\ \/ work' = [work EXCEPT ![s] = c] /\ UNCHANGED <<disk, orphaned>> /\ p # None
         \/ removeOwnedPluginDirectory(s) /\ work' = [work EXCEPT ![s] = Idle]
  BY DEF verifyInstalled, At, Goes, settings, Sound
<1>2. r \in Installs /\ p \in Packages \cup {None}
  <2>1. Place(s) \in Plugins \X Versions
    BY <1>1, PlaceIsOne
  <2> QED
    BY <1>1, <2>1, KindsOfWork DEF PackagesInv, PackagesTyped
<1>3. CASE removeOwnedPluginDirectory(s) /\ work' = [work EXCEPT ![s] = Idle]
  BY <1>1, <1>3, InstallGivesUp
<1>4. CASE work' = [work EXCEPT ![s] = c] /\ UNCHANGED <<disk, orphaned>> /\ p # None
  <2> HIDE DEF r, p
  <2>1. c \in Installs /\ c.kind = "install" /\ c.pc = "record" /\ c.plugin = r.plugin /\ c.version = r.version
        /\ c.content = p
    BY <1>2 DEF Installs
  <2> HIDE DEF c
  <2>2. Turns(s, c) /\ Whole(c)
    BY <1>2, <1>4, <2>1 DEF Turns, Whole, Works
  <2>3. \A i, v : Placer(work[s], i, v) => Placer(c, i, v)
    BY <2>1 DEF Placer, r
  <2>4. FilesFit'
    BY <1>1, <1>4, <2>2, <2>3, FilesRest
  <2>5. disk' \in [Plugins \X Versions -> Packages \cup {None}]
    BY <1>4 DEF PackagesInv, PackagesTyped
  <2> QED
    BY <1>1, <2>1, <2>2, <2>4, <2>5, InstallSettles DEF r
<1> QED
  BY <1>1, <1>3, <1>4

\* An install records its row: what it met, it leaves behind on the list.
LEMMA UpsertFiles ==
  ASSUME PackagesAssumption, PackagesInv, NEW s \in Slots, work[s] \in Installs,
         work[s].kind = "install", work[s].content \in Packages,
         work' = [work EXCEPT ![s] = Idle], disk' = disk, orphaned' = orphaned \cup Overtaken(s),
         NEW n \in Rows, row' = [row EXCEPT ![work[s].plugin] = n],
         n.version = work[s].version, n.package = work[s].content
  PROVE  FilesFit'
<1> DEFINE r == work[s]
           d == Place(s)
           e == IF disk[d] \in {None, r.content} THEN {} ELSE {d}
<1>0. PackagesTyped /\ RowsDescribeTheFiles /\ NothingIsLeftBehind
  BY DEF PackagesInv, FilesFit
<1>1. d = <<r.plugin, r.version>> /\ r.plugin \in Plugins /\ r.version \in Versions
  BY DEF Place, Installs
<1>2. orphaned' = orphaned \cup (Left(r.plugin) \ {d}) \cup e
  BY DEF Overtaken
<1>3. Turns(s, Idle)
  BY IdleIsNothing DEF Turns
<1>4. \A i, v : Placer(work[s], i, v) => <<i, v>> = d
  BY DEF Placer, Place
<1>5. \A i, v : Placing(i, v) => Placing(i, v)' \/ <<i, v>> = d
  BY <1>0, <1>3, <1>4, PlacingTurns
<1>6. n # None
  BY DEF Rows, PackagesAssumption
<1> HIDE DEF d, e
<1>7. RowsDescribeTheFiles'
  <2> SUFFICES ASSUME NEW i \in Plugins, row'[i] # None
               PROVE  \/ disk'[<<i, row'[i].version>>] \in {None, row'[i].package}
                      \/ \E t \in Slots : Placer(work'[t], i, row'[i].version)
                      \/ <<i, row'[i].version>> \in orphaned'
    BY DEF RowsDescribeTheFiles, Placing, Placer, Busy
  <2>1. CASE i = r.plugin
    <3>1. row'[i] = n
      BY <1>0, <2>1 DEF PackagesTyped
    <3>2. disk[d] \in {None, r.content} \/ d \in e
      BY DEF e
    <3> QED
      BY <1>1, <1>2, <2>1, <3>1, <3>2
  <2>2. CASE i # r.plugin
    <3>1. row'[i] = row[i] /\ \A v : <<i, v>> # d
      BY <1>0, <1>1, <2>2 DEF PackagesTyped
    <3>2. ASSUME NEW v, Placing(i, v)
          PROVE  \E t \in Slots : Placer(work'[t], i, v)
      <4>1. Placing(i, v)'
        BY <1>5, <3>1, <3>2
      <4> QED
        BY <4>1 DEF Placing, Placer, Busy
    <3> QED
      BY <1>0, <1>2, <3>1, <3>2 DEF RowsDescribeTheFiles
  <2> QED
    BY <2>1, <2>2
<1>8. NothingIsLeftBehind'
  <2> SUFFICES ASSUME NEW i \in Plugins, NEW v \in Versions, disk[<<i, v>>] # None
               PROVE  (row'[i] # None /\ row'[i].version = v) \/ <<i, v>> \in orphaned' \/ Placing(i, v)'
    BY DEF NothingIsLeftBehind
  <2>1. (row[i] # None /\ row[i].version = v) \/ <<i, v>> \in orphaned \/ Placing(i, v)
    BY <1>0 DEF NothingIsLeftBehind
  <2>2. CASE <<i, v>> = d
    <3>1. row'[i] = n /\ v = r.version
      BY <1>0, <1>1, <2>2 DEF PackagesTyped
    <3> QED
      BY <1>6, <3>1
  <2>3. CASE <<i, v>> # d /\ i = r.plugin
    <3>1. row[i] # None /\ row[i].version = v => <<i, v>> \in Left(i)
      BY DEF Left
    <3> QED
      BY <1>2, <1>5, <2>1, <2>3, <3>1
  <2>4. CASE i # r.plugin
    <3>1. row'[i] = row[i] /\ <<i, v>> # d
      BY <1>0, <1>1, <2>4 DEF PackagesTyped
    <3> QED
      BY <1>2, <1>5, <2>1, <3>1
  <2> QED
    BY <2>2, <2>3, <2>4
<1> QED
  BY <1>7, <1>8 DEF FilesFit

\* A row that comes, goes or is disabled meets no consent, or has it crossed.
LEMMA RowChanges ==
  ASSUME PackagesInv, NEW s \in Slots, ~(work[s].kind = "enable"),
         work' = [work EXCEPT ![s] = Idle],
         UNCHANGED <<grants, crossed>>, NEW i \in Plugins, NEW n \in Rows \cup {None},
         row' = [row EXCEPT ![i] = n], n # None => ~n.enabled,
         i \in crossed \/ Consents(i) = {} \/ (row[i] # None /\ n # None /\ n.package = row[i].package)
  PROVE  ConsentsFit'
<1> SUFFICES ASSUME NEW j \in Plugins \ crossed'
             PROVE  Unmet(j)'
  BY DEF ConsentsFit
<1>0. PackagesTyped /\ Unmet(j) /\ j \notin crossed
  BY DEF PackagesInv, ConsentsFit
<1>1. work'[s] = Idle /\ \A t \in Slots \ {s} : work'[t] = work[t]
  BY <1>0, OthersWork, IdleIsNothing DEF Turns
<1>2. \A t \in Consents(j)' : t \in Slots /\ t # s /\ t \in Consents(j) /\ work'[t] = work[t]
  BY <1>1, IdleIsNothing DEF Consents
<1>3. \A t \in Consents(j)', u \in Busy(j)' : Competes(work'[u]) => u = t
  <2>1. \A u \in Busy(j)' : Competes(work'[u]) => u \in Busy(j) /\ Competes(work[u])
    BY <1>1, IdleIsNothing DEF Busy
  <2> QED
    BY <1>0, <1>2, <2>1 DEF Unmet
<1>4. CASE j # i
  <2>1. row'[j] = row[j] /\ grants' = grants
    BY <1>0, <1>4 DEF PackagesTyped
  <2>2. ASSUME NEW t \in Consents(j)'
        PROVE  Considered(j, work[t])'
    <3>1. Considered(j, work[t])
      BY <1>0, <1>2 DEF Unmet
    <3> QED
      BY <1>2, <2>1, <3>1 DEF Considered, Suits
  <2> QED
    BY <1>0, <1>3, <2>1, <2>2 DEF Unmet
<1>5. CASE j = i
  <2>1. row'[j] = n /\ grants' = grants
    BY <1>0, <1>5 DEF PackagesTyped
  <2>2. ASSUME NEW t \in Consents(j)'
        PROVE  Considered(j, work[t])'
    <3>1. Considered(j, work[t])
      BY <1>0, <1>2 DEF Unmet
    <3>2. row[i] # None /\ n # None /\ n.package = row[i].package
      BY <1>0, <1>2, <1>5
    <3> QED
      BY <1>2, <1>5, <2>1, <3>1, <3>2 DEF Considered, Suits
  <2> QED
    BY <1>3, <2>1, <2>2 DEF Unmet
<1> QED
  BY <1>4, <1>5

\* A removal, or an install, overlaps no consent that is not crossed.
LEMMA CompetesAlone ==
  ASSUME PackagesInv, NEW s \in Slots, work[s].kind \in {"install", "uninstall"}, work[s].plugin \in Plugins
  PROVE  work[s].plugin \in crossed \/ Consents(work[s].plugin) = {}
<1> SUFFICES ASSUME work[s].plugin \notin crossed, NEW t \in Consents(work[s].plugin)
             PROVE  FALSE
  OBVIOUS
<1>1. Unmet(work[s].plugin)
  BY DEF PackagesInv, ConsentsFit
<1>2. s \in Busy(work[s].plugin) /\ Competes(work[s])
  BY DEF Busy, Competes
<1>3. s = t
  BY <1>1, <1>2 DEF Unmet
<1> QED
  BY <1>3 DEF Consents

LEMMA UpsertKeeps ==
  ASSUME PackagesAssumption, PackagesInv, NEW s \in Slots, Upsert(s)
  PROVE  PackagesInv'
<1> DEFINE r == work[s]
           n == [version |-> r.version, package |-> r.content, enabled |-> FALSE]
<1>1. /\ r.kind = "install" /\ r.pc = "record"
      /\ UNCHANGED <<source, grants, trust, devMode, revoked, crossed>>
      /\ work' = [work EXCEPT ![s] = Idle]
      /\ \/ /\ row' = [row EXCEPT ![r.plugin] = n] /\ orphaned' = orphaned \cup Overtaken(s) /\ disk' = disk
         \/ removeOwnedPluginDirectory(s) /\ UNCHANGED row
  BY DEF Upsert, At, Goes, Fails, settings
<1>2. r \in Installs /\ r.content \in Packages /\ r.plugin \in Plugins /\ r.version \in Versions
  BY <1>1, KindsOfWork DEF PackagesInv, PackagesTyped, Installs
<1>3. CASE removeOwnedPluginDirectory(s) /\ UNCHANGED row
  BY <1>1, <1>3, InstallGivesUp
<1>4. CASE row' = [row EXCEPT ![r.plugin] = n] /\ orphaned' = orphaned \cup Overtaken(s) /\ disk' = disk
  <2>1. n \in Rows /\ n.version = r.version /\ n.package = r.content /\ ~n.enabled
    BY <1>2 DEF Rows
  <2> HIDE DEF n
  <2>2. FilesFit'
    BY <1>1, <1>2, <1>4, <2>1, UpsertFiles
  <2>3. r.plugin \in crossed \/ Consents(r.plugin) = {}
    BY <1>1, <1>2, CompetesAlone
  <2>4. ConsentsFit'
    BY <1>1, <1>2, <1>4, <2>1, <2>3, RowChanges
  <2>5. Turns(s, Idle) /\ Whole(Idle)
    BY <1>1, IdleIsNothing DEF Turns, Whole
  <2>6. StartsFit'
    BY <1>1, <2>5, IdleIsNothing, StartsRest
  <2>7. row' \in [Plugins -> Rows \cup {None}]
    BY <1>2, <1>4, <2>1 DEF PackagesInv, PackagesTyped
  <2>8. PackagesTyped'
    BY <1>1, <1>4, <2>5, <2>7, TypedTurn DEF PackagesInv, PackagesTyped
  <2> QED
    BY <2>2, <2>4, <2>6, <2>8 DEF PackagesInv
<1> QED
  BY <1>1, <1>3, <1>4

-----------------------------------------------------------------------------
(* Removals.                                                               *)

\* A call that stops the plugin, or gives its grants back, or goes on.
LEMMA RemovalMoves ==
  ASSUME PackagesAssumption, PackagesInv, NEW s \in Slots, NEW c \in Removals,
         work[s] \in Removals, work' = [work EXCEPT ![s] = c],
         c.kind = work[s].kind, c.plugin = work[s].plugin,
         UNCHANGED <<source, installed, grants, trust, devMode, revoked, crossed>>
  PROVE  PackagesInv'
<1>1. c.kind \in Removal /\ c.kind # "install" /\ c.kind # "start" /\ c.kind # "enable"
      /\ work[s].kind # "install"
  BY DEF Removals, Removal
<1>2. Turns(s, c) /\ Whole(c)
  BY <1>1 DEF Turns, Whole, Works
<1>3. \A i, v : ~Placer(work[s], i, v)
  BY <1>1 DEF Placer
<1>4. source' \in Packages
  BY DEF PackagesInv, PackagesTyped
<1>5. Competes(c) => c.kind \in {"install", "uninstall"}
  BY <1>1 DEF Competes
<1> QED
  BY <1>1, <1>2, <1>3, <1>4, <1>5, MovesOnKeeps

LEMMA StartsKeeps ==
  ASSUME PackagesAssumption, PackagesInv, NEW s \in Slots, Starts(s)
  PROVE  PackagesInv'
<1>1. PICK i \in Plugins, kind \in Removal :
        /\ row[i] # None /\ work[s] = Idle
        /\ work' = [work EXCEPT ![s] = [kind |-> kind, pc |-> "stop", plugin |-> i, version |-> row[i].version]]
        /\ Crosses(i, IF kind = "uninstall" THEN Consents(i) ELSE {})
        /\ UNCHANGED <<source, installed, grants, trust, devMode, revoked>>
  BY DEF Starts, Begin, settings
<1> DEFINE c == [kind |-> kind, pc |-> "stop", plugin |-> i, version |-> row[i].version]
<1>2. row[i].version \in Versions /\ source' \in Packages
  BY <1>1 DEF PackagesInv, PackagesTyped, Rows
<1>3. c \in Removals /\ c.kind = kind /\ c.plugin = i
  BY <1>1, <1>2 DEF Removals
<1>4. work' = [work EXCEPT ![s] = c]
  BY <1>1
<1> HIDE DEF c
<1>5. c.kind # "install" /\ c.kind # "start" /\ c.kind # "enable"
  BY <1>3 DEF Removal
<1>6. Turns(s, c) /\ Whole(c)
  BY <1>3, <1>4, <1>5 DEF Turns, Whole, Works
<1>7. \A j, v : ~Placer(work[s], j, v)
  BY <1>1, IdleIsNothing DEF Placer
<1>8. crossed \subseteq crossed'
  BY <1>1 DEF Crosses
<1>9. Competes(c) => c.kind = "uninstall" /\ (i \in crossed' \/ Consents(i) = {})
  BY <1>1, <1>3, <1>5 DEF Competes, Crosses
<1> QED
  BY <1>1, <1>2, <1>3, <1>5, <1>6, <1>7, <1>8, <1>9, MovesOnKeeps

LEMMA StopPluginKeeps ==
  ASSUME PackagesAssumption, PackagesInv, NEW s \in Slots, StopPlugin(s)
  PROVE  PackagesInv'
<1> DEFINE r == work[s]
           c == [r EXCEPT !.pc = "remove"]
<1>1. /\ r.kind \in Removal
      /\ UNCHANGED <<source, installed, grants, trust, devMode, revoked, crossed>>
      /\ work' = [work EXCEPT ![s] = Idle] \/ work' = [work EXCEPT ![s] = c]
  BY DEF StopPlugin, Goes, settings
<1>2. r \in Removals /\ r.kind # "install"
  BY <1>1, KindsOfWork DEF PackagesInv, PackagesTyped, Removal
<1>3. CASE work' = [work EXCEPT ![s] = Idle]
  BY <1>1, <1>2, <1>3, EndsKeeps
<1>4. CASE work' = [work EXCEPT ![s] = c]
  <2> HIDE DEF r
  <2>1. c \in Removals /\ c.kind = r.kind /\ c.plugin = r.plugin
    BY <1>2 DEF Removals
  <2> HIDE DEF c
  <2> QED
    BY <1>1, <1>2, <1>4, <2>1, RemovalMoves DEF r
<1> QED
  BY <1>1, <1>3, <1>4

LEMMA RemovalWork ==
  ASSUME PackagesInv, NEW s \in Slots, work[s].kind \in Removal
  PROVE  /\ work[s] \in Removals /\ work[s].plugin \in Plugins /\ work[s].kind # "install"
         /\ Place(s) \in Plugins \X Versions
<1>1. work[s] \in Removals
  BY KindsOfWork DEF PackagesInv, PackagesTyped
<1> QED
  BY <1>1, PlaceIsOne DEF Removals, Removal

\* Grants that are given back fit every manifest.
LEMMA RevokeGrantsKeeps ==
  ASSUME PackagesAssumption, PackagesInv, NEW s \in Slots, RevokeGrants(s)
  PROVE  PackagesInv'
<1> DEFINE r == work[s]
           c == [r EXCEPT !.pc = "row"]
<1>1. /\ r.kind = "disable" /\ UNCHANGED <<source, installed, trust, devMode, revoked, crossed>>
      /\ \/ grants' = [grants EXCEPT ![r.plugin] = {}] /\ work' = [work EXCEPT ![s] = c]
         \/ UNCHANGED grants /\ work' = [work EXCEPT ![s] = Idle]
  BY DEF RevokeGrants, At, Goes, Fails, settings
<1>2. r \in Removals /\ r.plugin \in Plugins /\ r.kind # "install"
  BY <1>1, RemovalWork DEF Removal
<1>3. CASE UNCHANGED grants /\ work' = [work EXCEPT ![s] = Idle]
  BY <1>1, <1>2, <1>3, EndsKeeps
<1>4. CASE grants' = [grants EXCEPT ![r.plugin] = {}] /\ work' = [work EXCEPT ![s] = c]
  <2> DEFINE i == r.plugin
  <2>0. PackagesTyped /\ UNCHANGED <<disk, row, orphaned>>
    BY <1>1 DEF PackagesInv, installed
  <2> HIDE DEF r
  <2>1. c \in Removals /\ c.kind = "disable" /\ c.plugin = i
    BY <1>1, <1>2 DEF Removals
  <2> HIDE DEF c
  <2>2. Turns(s, c) /\ Whole(c)
    BY <1>4, <2>1 DEF Turns, Whole, Works
  <2>3. grants' \in [Plugins -> SUBSET Caps]
    BY <1>4, <2>0 DEF PackagesTyped
  <2>4. PackagesTyped'
    BY <1>1, <2>0, <2>2, <2>3, TypedTurn DEF PackagesTyped
  <2>5. \A j, v : ~Placer(work[s], j, v)
    BY <1>2 DEF Placer, r
  <2>6. FilesFit'
    BY <2>0, <2>2, <2>5, FilesRest
  <2>7. StartsFit'
    BY <1>1, <2>1, <2>2, StartsRest
  <2>8. ConsentsFit'
    <3> SUFFICES ASSUME NEW j \in Plugins \ crossed'
                 PROVE  Unmet(j)'
      BY DEF ConsentsFit
    <3>0. Unmet(j) /\ row' = row
      BY <1>1, <2>0 DEF PackagesInv, ConsentsFit
    <3>1. grants'[j] = grants[j] \/ grants'[j] = {}
      BY <1>4, <2>0 DEF PackagesTyped
    <3>2. work'[s] = c /\ \A t \in Slots \ {s} : work'[t] = work[t]
      BY <2>0, <2>2, OthersWork
    <3>3. \A t \in Consents(j)' : t \in Slots /\ t # s /\ t \in Consents(j) /\ work'[t] = work[t]
      BY <2>1, <3>2 DEF Consents
    <3>4. \A t \in Consents(j)', u \in Busy(j)' : Competes(work'[u]) => u = t
      <4>1. \A u \in Busy(j)' : Competes(work'[u]) => u \in Busy(j) /\ Competes(work[u])
        BY <2>1, <3>2 DEF Busy, Competes
      <4> QED
        BY <3>0, <3>3, <4>1 DEF Unmet
    <3>5. ASSUME NEW t \in Consents(j)'
          PROVE  Considered(j, work[t])'
      <4>1. Considered(j, work[t])
        BY <3>0, <3>3 DEF Unmet
      <4> QED
        BY <3>0, <3>1, <3>3, <4>1 DEF Considered, Suits
    <3> QED
      BY <3>0, <3>1, <3>4, <3>5 DEF Unmet
  <2> QED
    BY <2>4, <2>6, <2>7, <2>8 DEF PackagesInv
<1> QED
  BY <1>1, <1>3, <1>4

LEMMA DisablePluginKeeps ==
  ASSUME PackagesAssumption, PackagesInv, NEW s \in Slots, DisablePlugin(s)
  PROVE  PackagesInv'
<1> DEFINE r == work[s]
           i == r.plugin
           n == IF row[i] = None THEN None ELSE [row[i] EXCEPT !.enabled = FALSE]
<1>1. /\ r.kind = "disable" /\ work' = [work EXCEPT ![s] = Idle]
      /\ UNCHANGED <<source, disk, orphaned, grants, trust, devMode, revoked, crossed>>
      /\ row' = [row EXCEPT ![i] = n] \/ UNCHANGED row
  BY DEF DisablePlugin, At, Goes, Fails, settings
<1>2. r \in Removals /\ i \in Plugins /\ r.kind # "install" /\ r.kind # "enable"
  BY <1>1, RemovalWork DEF Removal
<1>3. CASE UNCHANGED row
  BY <1>1, <1>2, <1>3, EndsKeeps DEF installed
<1>4. CASE row' = [row EXCEPT ![i] = n]
  <2>0. PackagesTyped
    BY DEF PackagesInv
  <2> DEFINE o == row[i]
  <2>1. o \in Rows \cup {None}
    BY <1>2, <2>0 DEF PackagesTyped
  <2> HIDE DEF o
  <2>2. o # None => /\ [o EXCEPT !.enabled = FALSE] \in Rows /\ [o EXCEPT !.enabled = FALSE].version = o.version
                    /\ [o EXCEPT !.enabled = FALSE].package = o.package /\ ~[o EXCEPT !.enabled = FALSE].enabled
    BY <2>1 DEF Rows
  <2>3. /\ n \in Rows \cup {None} /\ (n = None <=> row[i] = None)
        /\ row[i] # None => n.version = row[i].version /\ n.package = row[i].package /\ ~n.enabled
    BY <2>1, <2>2 DEF o, Rows, PackagesAssumption
  <2> HIDE DEF n
  <2>4. row' \in [Plugins -> Rows \cup {None}]
    BY <1>2, <1>4, <2>0, <2>3 DEF PackagesTyped
  <2>5. \A j \in Plugins : /\ row'[j] = None <=> row[j] = None
                           /\ row[j] # None => row'[j].version = row[j].version /\ row'[j].package = row[j].package
    BY <1>4, <2>0, <2>3 DEF PackagesTyped
  <2>6. Turns(s, Idle) /\ Whole(Idle)
    BY <1>1, IdleIsNothing DEF Turns, Whole
  <2>7. \A j, v : ~Placer(work[s], j, v)
    BY <1>2 DEF Placer
  <2>8. FilesFit'
    BY <1>1, <2>5, <2>6, <2>7, FilesRest
  <2>9. StartsFit'
    BY <1>1, <2>6, IdleIsNothing, StartsRest
  <2>10. PackagesTyped'
    BY <1>1, <2>0, <2>4, <2>6, TypedTurn DEF PackagesTyped
  <2>11. Consents(i) = {} \/ i \in crossed \/ row[i] # None
    <3>1. i \notin crossed /\ Consents(i) # {} => row[i] # None
      BY <1>2 DEF PackagesInv, ConsentsFit, Unmet, Considered, Suits
    <3> QED
      BY <3>1
  <2>12. ConsentsFit'
    <3>1. i \in crossed \/ Consents(i) = {} \/ (row[i] # None /\ n # None /\ n.package = row[i].package)
      BY <2>3, <2>11
    <3>2. n # None => ~n.enabled
      BY <2>3
    <3> HIDE DEF i
    <3> QED
      BY <1>1, <1>2, <1>4, <2>3, <3>1, <3>2, RowChanges
  <2> QED
    BY <2>8, <2>9, <2>10, <2>12 DEF PackagesInv
<1> QED
  BY <1>1, <1>3, <1>4

LEMMA UninstallPluginKeeps ==
  ASSUME PackagesAssumption, PackagesInv, NEW s \in Slots, UninstallPlugin(s)
  PROVE  PackagesInv'
<1> DEFINE r == work[s]
           c == [r EXCEPT !.pc = "row"]
<1>1. /\ r.kind = "uninstall" /\ removeOwnedPluginDirectory(s) /\ work' = [work EXCEPT ![s] = c]
      /\ UNCHANGED <<source, row, grants, trust, devMode, revoked, crossed>>
  BY DEF UninstallPlugin, At, Goes, settings
<1>2. r \in Removals /\ r.kind # "install" /\ Place(s) \in Plugins \X Versions
  BY <1>1, RemovalWork DEF Removal
<1> HIDE DEF r
<1>3. c \in Removals /\ c.kind = r.kind /\ c.plugin = r.plugin
  BY <1>2 DEF Removals
<1> HIDE DEF c
<1>4. Turns(s, c) /\ Whole(c)
  BY <1>1, <1>3 DEF Turns, Whole, Works
<1>5. \A i, v : ~Placer(work[s], i, v)
  BY <1>2 DEF Placer, r
<1>6. FilesFit'
  BY <1>1, <1>2, <1>4, <1>5, DirectoryGoes
<1>7. PackagesTyped'
  BY <1>1, <1>4, RemovedIsTyped, TypedTurn DEF PackagesInv, PackagesTyped
<1>8. c.kind = work[s].kind /\ c.plugin = work[s].plugin /\ c.kind = "uninstall"
  BY <1>1, <1>3 DEF r
<1>9. ConsentsFit'
  BY <1>1, <1>4, <1>8, ConsentsRest
<1>10. StartsFit'
  BY <1>1, <1>4, <1>8, StartsRest
<1> QED
  BY <1>6, <1>7, <1>9, <1>10 DEF PackagesInv

LEMMA DeleteKeeps ==
  ASSUME PackagesAssumption, PackagesInv, NEW s \in Slots, Delete(s)
  PROVE  PackagesInv'
<1> DEFINE r == work[s]
           i == r.plugin
<1>1. /\ r.kind = "uninstall" /\ work' = [work EXCEPT ![s] = Idle]
      /\ UNCHANGED <<source, disk, grants, trust, devMode, revoked, crossed>>
      /\ \/ row' = [row EXCEPT ![i] = None] /\ orphaned' = orphaned \cup Left(i)
         \/ UNCHANGED <<row, orphaned>>
  BY DEF Delete, At, Goes, Fails, settings
<1>2. r \in Removals /\ i \in Plugins /\ r.kind # "install" /\ r.kind # "enable"
  BY <1>1, RemovalWork DEF Removal
<1>3. CASE UNCHANGED <<row, orphaned>>
  BY <1>1, <1>2, <1>3, EndsKeeps DEF installed
<1>4. CASE row' = [row EXCEPT ![i] = None] /\ orphaned' = orphaned \cup Left(i)
  <2>0. PackagesTyped /\ RowsDescribeTheFiles /\ NothingIsLeftBehind
    BY DEF PackagesInv, FilesFit
  <2>1. Turns(s, Idle) /\ Whole(Idle)
    BY <1>1, IdleIsNothing DEF Turns, Whole
  <2>2. \A j, v : ~Placer(work[s], j, v)
    BY <1>2 DEF Placer
  <2>3. \A j, v : Placing(j, v) => Placing(j, v)'
    BY <2>0, <2>1, <2>2, PlacingTurns
  <2>4. i \in crossed \/ Consents(i) = {}
    BY <1>1, <1>2, CompetesAlone
  <2> HIDE DEF i
  <2>5. \A j \in Plugins : row'[j] = IF j = i THEN None ELSE row[j]
    BY <1>4, <2>0 DEF PackagesTyped
  <2>6. RowsDescribeTheFiles'
    BY <1>1, <1>4, <2>0, <2>3, <2>5 DEF RowsDescribeTheFiles
  <2>7. NothingIsLeftBehind'
    <3> SUFFICES ASSUME NEW j \in Plugins, NEW v \in Versions, disk[<<j, v>>] # None
                 PROVE  (row'[j] # None /\ row'[j].version = v) \/ <<j, v>> \in orphaned' \/ Placing(j, v)'
      BY <1>1 DEF NothingIsLeftBehind
    <3>1. (row[j] # None /\ row[j].version = v) \/ <<j, v>> \in orphaned \/ Placing(j, v)
      BY <2>0 DEF NothingIsLeftBehind
    <3>2. row[j] # None /\ row[j].version = v => <<j, v>> \in Left(j)
      BY DEF Left
    <3> QED
      BY <1>4, <2>3, <2>5, <3>1, <3>2
  <2>8. StartsFit'
    BY <1>1, <2>1, IdleIsNothing, StartsRest
  <2>9. row' \in [Plugins -> Rows \cup {None}]
    BY <1>2, <1>4, <2>0 DEF PackagesTyped
  <2>10. PackagesTyped'
    BY <1>1, <2>0, <2>1, <2>9, TypedTurn DEF PackagesTyped
  <2>11. ConsentsFit'
    BY <1>1, <1>2, <1>4, <2>4, RowChanges
  <2> QED
    BY <2>6, <2>7, <2>8, <2>10, <2>11 DEF PackagesInv, FilesFit
<1> QED
  BY <1>1, <1>3, <1>4

-----------------------------------------------------------------------------
(* Consents.                                                               *)

\* A step of one consent, which meets no other change unless it is crossed.
LEMMA ConsentMoves ==
  ASSUME PackagesInv, NEW s \in Slots, NEW c, Turns(s, c), NEW i \in Plugins, crossed \subseteq crossed',
         \A j \in Plugins \ {i} : row'[j] = row[j] /\ grants'[j] = grants[j],
         c = Idle \/ (c.kind = "enable" /\ c.plugin = i),
         i \notin crossed' =>
           /\ row'[i] # None /\ row'[i].enabled => grants'[i] \subseteq Declares[row'[i].package]
           /\ \A u \in Busy(i) \ {s} : ~Competes(work[u])
           /\ c.kind = "enable" => Suits(row'[i], grants'[i], c)
  PROVE  ConsentsFit'
<1> SUFFICES ASSUME NEW j \in Plugins \ crossed'
             PROVE  Unmet(j)'
  BY DEF ConsentsFit
<1>0. PackagesTyped /\ Unmet(j) /\ j \notin crossed /\ j \notin crossed'
  BY DEF PackagesInv, ConsentsFit
<1>1. work'[s] = c /\ \A t \in Slots \ {s} : work'[t] = work[t]
  BY <1>0, OthersWork
<1>2. CASE j = i
  <2>1. \A u \in Busy(i)' : Competes(work'[u]) => u = s
    BY <1>0, <1>1, <1>2 DEF Busy
  <2>2. \A t \in Consents(i)' : t = s /\ c.kind = "enable"
    BY <1>1, <2>1 DEF Consents, Competes, Busy
  <2>3. ASSUME NEW t \in Consents(i)'
        PROVE  Considered(i, work[t])'
    BY <1>0, <1>1, <1>2, <2>2 DEF Considered
  <2>4. row'[i] # None /\ row'[i].enabled => grants'[i] \subseteq Declares[row'[i].package]
    BY <1>0, <1>2
  <2> QED
    BY <1>2, <2>1, <2>2, <2>3, <2>4 DEF Unmet
<1>3. CASE j # i
  <2>1. row'[j] = row[j] /\ grants'[j] = grants[j]
    BY <1>3
  <2>2. \A t \in Consents(j)' : t \in Slots /\ t # s /\ t \in Consents(j) /\ work'[t] = work[t]
    BY <1>1, <1>3, IdleIsNothing DEF Consents
  <2>3. \A u \in Busy(j)' : Competes(work'[u]) => u \in Busy(j) /\ Competes(work[u])
    BY <1>1, <1>3, IdleIsNothing DEF Busy
  <2>4. ASSUME NEW t \in Consents(j)'
        PROVE  Considered(j, work[t])'
    <3>1. Considered(j, work[t])
      BY <1>0, <2>2 DEF Unmet
    <3> QED
      BY <2>1, <2>2, <3>1 DEF Considered
  <2>5. \A t \in Consents(j)', u \in Busy(j)' : Competes(work'[u]) => u = t
    BY <1>0, <2>2, <2>3 DEF Unmet
  <2> QED
    BY <1>0, <2>1, <2>4, <2>5 DEF Unmet
<1> QED
  BY <1>2, <1>3

\* What is known of a consent under way.
LEMMA ConsentAlone ==
  ASSUME PackagesInv, NEW s \in Slots, work[s].kind = "enable"
  PROVE  /\ work[s] \in Enables /\ work[s].plugin \in Plugins
         /\ work[s].plugin \notin crossed =>
              /\ \A u \in Busy(work[s].plugin) \ {s} : ~Competes(work[u])
              /\ Suits(row[work[s].plugin], grants[work[s].plugin], work[s])
              /\ row[work[s].plugin].enabled
                   => grants[work[s].plugin] \subseteq Declares[row[work[s].plugin].package]
<1>1. work[s] \in Enables /\ work[s].plugin \in Plugins
  BY KindsOfWork DEF PackagesInv, PackagesTyped, Enables
<1> DEFINE i == work[s].plugin
<1>2. ASSUME i \notin crossed
      PROVE  Unmet(i)
  BY <1>1, <1>2 DEF PackagesInv, ConsentsFit
<1>3. s \in Consents(i)
  BY DEF Consents
<1>4. i \notin crossed => Considered(i, work[s])
  BY <1>2, <1>3 DEF Unmet
<1>5. i \notin crossed => \A u \in Busy(i) \ {s} : ~Competes(work[u])
  BY <1>2, <1>3 DEF Unmet
<1>6. i \notin crossed /\ row[i].enabled => grants[i] \subseteq Declares[row[i].package]
  BY <1>2, <1>4 DEF Unmet, Considered, Suits
<1> QED
  BY <1>1, <1>4, <1>5, <1>6 DEF Considered

\* What a consent does not touch.
LEMMA ConsentTurns ==
  ASSUME PackagesInv, NEW s \in Slots, NEW c, Turns(s, c), c = Idle \/ c.kind = "enable",
         work[s].kind # "install",
         UNCHANGED <<source, disk, orphaned, trust, devMode, revoked>>,
         row' \in [Plugins -> Rows \cup {None}], grants' \in [Plugins -> SUBSET Caps],
         \A j \in Plugins : /\ row'[j] = None <=> row[j] = None
                            /\ row[j] # None => row'[j].version = row[j].version /\ row'[j].package = row[j].package,
         ConsentsFit'
  PROVE  PackagesInv'
<1>1. Whole(c) /\ ~(c.kind = "start" /\ c.pc = "run") /\ \A j, v : ~Placer(work[s], j, v)
  BY IdleIsNothing DEF Whole, Placer
<1>2. PackagesTyped'
  BY <1>1, TypedTurn DEF PackagesInv, PackagesTyped
<1>3. FilesFit'
  BY <1>1, FilesRest
<1>4. StartsFit'
  BY <1>1, StartsRest
<1> QED
  BY <1>2, <1>3, <1>4 DEF PackagesInv

LEMMA EnablePluginKeeps ==
  ASSUME PackagesAssumption, PackagesInv, NEW s \in Slots, EnablePlugin(s)
  PROVE  PackagesInv'
<1>1. PICK i \in Plugins, confirmed \in BOOLEAN : \E g \in pluginConsentGrants(row[i].package, confirmed) :
        /\ row[i] # None /\ work[s] = Idle
        /\ work' = [work EXCEPT ![s] = [kind |-> "enable", pc |-> "previous", plugin |-> i,
                                        consents |-> g, previous |-> {}]]
        /\ Crosses(i, {t \in Busy(i) : work[t].kind \in {"enable", "install", "uninstall"}})
        /\ UNCHANGED <<source, installed, grants, trust, devMode, revoked>>
  BY DEF EnablePlugin, Begin, settings
<1>2. PICK g \in pluginConsentGrants(row[i].package, confirmed) :
        work' = [work EXCEPT ![s] = [kind |-> "enable", pc |-> "previous", plugin |-> i,
                                     consents |-> g, previous |-> {}]]
  BY <1>1
<1> DEFINE c == [kind |-> "enable", pc |-> "previous", plugin |-> i, consents |-> g, previous |-> {}]
<1>3. PackagesTyped /\ row[i] \in Rows /\ row[i].package \in Packages
  BY <1>1 DEF PackagesInv, PackagesTyped, Rows
<1>4. g \subseteq Declares[row[i].package] /\ g \subseteq Caps
  BY <1>3 DEF pluginConsentGrants, Caps
<1>5. c \in Enables /\ c.kind = "enable" /\ c.plugin = i
  BY <1>4 DEF Enables
<1>6. Turns(s, c)
  BY <1>2, <1>5 DEF Turns, Works
<1>7. Suits(row[i], grants[i], c)
  BY <1>1, <1>4 DEF Suits
<1> HIDE DEF c
<1>8. UNCHANGED <<source, disk, row, orphaned, grants, trust, devMode, revoked>>
  BY <1>1 DEF installed
<1>9. crossed \subseteq crossed' /\ (i \notin crossed' => \A u \in Busy(i) : ~Competes(work[u]))
  BY <1>1 DEF Crosses, Competes
<1>10. i \notin crossed' => (row[i] # None /\ row[i].enabled => grants[i] \subseteq Declares[row[i].package])
  BY <1>9 DEF PackagesInv, ConsentsFit, Unmet
<1>11. ConsentsFit'
  BY <1>5, <1>6, <1>7, <1>8, <1>9, <1>10, ConsentMoves
<1>12. work[s].kind # "install"
  BY <1>1, IdleIsNothing
<1> QED
  BY <1>3, <1>5, <1>6, <1>8, <1>11, <1>12, ConsentTurns DEF PackagesTyped

LEMMA GrantsKeeps ==
  ASSUME PackagesAssumption, PackagesInv, NEW s \in Slots, Grants(s)
  PROVE  PackagesInv'
<1> DEFINE r == work[s]
           i == r.plugin
           g == grants[i]
           c == [r EXCEPT !.pc = "grants", !.previous = g]
<1>1. /\ r.kind = "enable" /\ work' = [work EXCEPT ![s] = c]
      /\ UNCHANGED <<source, disk, row, orphaned, grants, trust, devMode, revoked, crossed>>
  BY DEF Grants, At, Goes, settings, installed
<1>2. /\ PackagesTyped /\ r \in Enables /\ i \in Plugins
      /\ i \notin crossed => /\ \A u \in Busy(i) \ {s} : ~Competes(work[u])
                             /\ Suits(row[i], grants[i], r)
                             /\ row[i].enabled => g \subseteq Declares[row[i].package]
  BY <1>1, ConsentAlone DEF PackagesInv
<1>3. g \in SUBSET Caps
  BY <1>2 DEF PackagesTyped
<1> HIDE DEF r, g
<1>4. c \in Enables /\ c.kind = "enable" /\ c.pc = "grants" /\ c.plugin = i /\ c.consents = r.consents
      /\ c.previous = g
  BY <1>1, <1>2, <1>3 DEF Enables
<1> HIDE DEF c
<1>5. Turns(s, c)
  BY <1>1, <1>4 DEF Turns, Works
<1>6. i \notin crossed => Suits(row[i], grants[i], c)
  BY <1>2, <1>4 DEF Suits
<1>7. i \notin crossed' =>
        /\ row'[i] # None /\ row'[i].enabled => grants'[i] \subseteq Declares[row'[i].package]
        /\ \A u \in Busy(i) \ {s} : ~Competes(work[u])
        /\ c.kind = "enable" => Suits(row'[i], grants'[i], c)
  BY <1>1, <1>2, <1>6 DEF g
<1> HIDE DEF i
<1>8. ConsentsFit'
  BY <1>1, <1>2, <1>4, <1>5, <1>7, ConsentMoves
<1>9. work[s].kind # "install"
  BY <1>1 DEF r
<1> QED
  BY <1>1, <1>2, <1>4, <1>5, <1>8, <1>9, ConsentTurns DEF PackagesTyped

LEMMA ReplaceGrantsKeeps ==
  ASSUME PackagesAssumption, PackagesInv, NEW s \in Slots, ReplaceGrants(s)
  PROVE  PackagesInv'
<1> DEFINE r == work[s]
           i == r.plugin
           c == [r EXCEPT !.pc = "enabled"]
<1>1. /\ r.kind = "enable" /\ r.pc = "grants"
      /\ UNCHANGED <<source, disk, row, orphaned, trust, devMode, revoked, crossed>>
      /\ \/ grants' = [grants EXCEPT ![i] = r.consents] /\ work' = [work EXCEPT ![s] = c]
         \/ UNCHANGED grants /\ work' = [work EXCEPT ![s] = Idle]
  BY DEF ReplaceGrants, At, Goes, Fails, settings, installed
<1>2. /\ PackagesTyped /\ r \in Enables /\ i \in Plugins
      /\ i \notin crossed => /\ \A u \in Busy(i) \ {s} : ~Competes(work[u])
                             /\ Suits(row[i], grants[i], r)
  BY <1>1, ConsentAlone DEF PackagesInv
<1>3. CASE UNCHANGED grants /\ work' = [work EXCEPT ![s] = Idle]
  BY <1>1, <1>3, EndsKeeps DEF installed
<1>4. CASE grants' = [grants EXCEPT ![i] = r.consents] /\ work' = [work EXCEPT ![s] = c]
  <2>0. work[s].kind # "install"
    BY <1>1
  <2> HIDE DEF r
  <2>1. c \in Enables /\ c.kind = "enable" /\ c.pc = "enabled" /\ c.plugin = i /\ c.consents = r.consents
        /\ c.previous = r.previous /\ r.consents \in SUBSET Caps
    BY <1>1, <1>2 DEF Enables
  <2> HIDE DEF c, i
  <2>2. Turns(s, c)
    BY <1>4, <2>1 DEF Turns, Works
  <2>3. grants' \in [Plugins -> SUBSET Caps] /\ grants'[i] = r.consents
        /\ \A j \in Plugins \ {i} : row'[j] = row[j] /\ grants'[j] = grants[j]
    BY <1>1, <1>2, <1>4, <2>1 DEF PackagesTyped
  <2>4. i \notin crossed' =>
          /\ row'[i] # None /\ row'[i].enabled => grants'[i] \subseteq Declares[row'[i].package]
          /\ \A u \in Busy(i) \ {s} : ~Competes(work[u])
          /\ c.kind = "enable" => Suits(row'[i], grants'[i], c)
    BY <1>1, <1>2, <2>1, <2>3 DEF Suits
  <2>5. ConsentsFit'
    BY <1>1, <1>2, <2>1, <2>2, <2>3, <2>4, ConsentMoves
  <2> QED
    BY <1>1, <1>2, <2>0, <2>1, <2>2, <2>3, <2>5, ConsentTurns DEF PackagesTyped
<1> QED
  BY <1>1, <1>3, <1>4

LEMMA SetEnabledKeeps ==
  ASSUME PackagesAssumption, PackagesInv, NEW s \in Slots, SetEnabled(s)
  PROVE  PackagesInv'
<1> DEFINE r == work[s]
           i == r.plugin
           o == row[i]
           n == [o EXCEPT !.enabled = TRUE]
<1>1. /\ r.kind = "enable" /\ r.pc = "enabled" /\ work' = [work EXCEPT ![s] = Idle]
      /\ UNCHANGED <<source, disk, orphaned, trust, devMode, revoked, crossed>>
      /\ \/ row[i] # None /\ row' = [row EXCEPT ![i] = n] /\ UNCHANGED grants
         \/ UNCHANGED row /\ grants' = [grants EXCEPT ![i] = r.previous]
  BY DEF SetEnabled, At, Goes, Fails, settings
<1>2. /\ PackagesTyped /\ r \in Enables /\ i \in Plugins
      /\ i \notin crossed => /\ \A u \in Busy(i) \ {s} : ~Competes(work[u])
                             /\ Suits(row[i], grants[i], r)
  BY <1>1, ConsentAlone DEF PackagesInv
<1>3. Turns(s, Idle) /\ work[s].kind # "install" /\ Idle.kind # "enable"
  BY <1>1, IdleIsNothing DEF Turns
<1>4. CASE row[i] # None /\ row' = [row EXCEPT ![i] = n] /\ UNCHANGED grants
  <2>1. o \in Rows
    BY <1>2, <1>4 DEF PackagesTyped
  <2> HIDE DEF o
  <2>2. n \in Rows /\ n.version = o.version /\ n.package = o.package
    BY <2>1 DEF Rows
  <2>3. n # None
    BY <2>2 DEF PackagesAssumption, Rows
  <2> HIDE DEF n, i
  <2>4. row' \in [Plugins -> Rows \cup {None}] /\ row'[i] = n
        /\ \A j \in Plugins \ {i} : row'[j] = row[j] /\ grants'[j] = grants[j]
    BY <1>2, <1>4, <2>2 DEF PackagesTyped
  <2>5. i \notin crossed => grants'[i] \subseteq Declares[row'[i].package]
    BY <1>1, <1>2, <1>4, <2>2, <2>4 DEF Suits, o
  <2>6. ConsentsFit'
    BY <1>1, <1>2, <1>3, <2>4, <2>5, ConsentMoves
  <2>7. \A j \in Plugins : /\ row'[j] = None <=> row[j] = None
                           /\ row[j] # None => row'[j].version = row[j].version /\ row'[j].package = row[j].package
    BY <1>4, <2>2, <2>3, <2>4 DEF o
  <2>8. grants' \in [Plugins -> SUBSET Caps]
    BY <1>2, <1>4 DEF PackagesTyped
  <2> QED
    BY <1>1, <1>3, <2>4, <2>6, <2>7, <2>8, ConsentTurns
<1>5. CASE UNCHANGED row /\ grants' = [grants EXCEPT ![i] = r.previous]
  <2>1. r.previous \in SUBSET Caps
    BY <1>2 DEF Enables
  <2> HIDE DEF r, i
  <2>2. grants' \in [Plugins -> SUBSET Caps] /\ grants'[i] = r.previous
        /\ \A j \in Plugins \ {i} : row'[j] = row[j] /\ grants'[j] = grants[j]
    BY <1>2, <1>5, <2>1 DEF PackagesTyped
  <2>3. i \notin crossed => (row'[i] # None /\ row'[i].enabled => grants'[i] \subseteq Declares[row'[i].package])
    BY <1>1, <1>2, <1>5, <2>2 DEF Suits
  <2>4. ConsentsFit'
    BY <1>1, <1>2, <1>3, <2>2, <2>3, ConsentMoves
  <2> QED
    BY <1>1, <1>2, <1>3, <1>5, <2>2, <2>4, ConsentTurns DEF PackagesTyped
<1> QED
  BY <1>1, <1>4, <1>5


-----------------------------------------------------------------------------
(* Starts and trust.                                                       *)

LEMMA StartPluginKeeps ==
  ASSUME PackagesAssumption, PackagesInv, NEW s \in Slots, StartPlugin(s)
  PROVE  PackagesInv'
<1>1. PICK i \in Plugins :
        /\ row[i] # None
        /\ IF row[i].enabled
           THEN Begin(s, [kind |-> "start", pc |-> "verify", plugin |-> i, version |-> row[i].version,
                          package |-> row[i].package, shut |-> revoked, dev |-> FALSE, seen |-> None])
           ELSE Begin(s, Idle)
  BY DEF StartPlugin
<1>2. work[s] = Idle /\ UNCHANGED <<source, installed, grants, trust, devMode, revoked, crossed>>
  BY <1>1 DEF StartPlugin, Begin, settings
<1> DEFINE c == [kind |-> "start", pc |-> "verify", plugin |-> i, version |-> row[i].version,
                 package |-> row[i].package, shut |-> revoked, dev |-> FALSE, seen |-> None]
<1>3. PackagesTyped /\ row[i] \in Rows
  BY <1>1 DEF PackagesInv, PackagesTyped
<1>4. row[i].version \in Versions /\ row[i].package \in Packages
  BY <1>3 DEF Rows
<1>5. revoked \in SUBSET Keys
  BY <1>3 DEF PackagesTyped
<1>6. c \in Startings /\ c.kind = "start" /\ c.pc = "verify"
  BY <1>4, <1>5 DEF Startings
<1>7. work' = [work EXCEPT ![s] = Idle] \/ work' = [work EXCEPT ![s] = c]
  BY <1>1 DEF Begin
<1> HIDE DEF c
<1>8. CASE work' = [work EXCEPT ![s] = Idle]
  BY <1>2, <1>8, IdleIsNothing, EndsKeeps
<1>9. CASE work' = [work EXCEPT ![s] = c]
  <2>1. Turns(s, c) /\ Whole(c) /\ ~Competes(c)
    BY <1>6, <1>9 DEF Turns, Whole, Works, Competes
  <2>2. \A k, v : ~Placer(work[s], k, v)
    BY <1>2, IdleIsNothing DEF Placer
  <2>3. source' \in Packages
    BY <1>2, <1>3 DEF PackagesTyped
  <2> QED
    BY <1>2, <1>6, <2>1, <2>2, <2>3, MovesOnKeeps
<1> QED
  BY <1>7, <1>8, <1>9

LEMMA VerifiedIsTrusted ==
  ASSUME PackagesAssumption, PackagesTyped, NEW p, VerifyPackage(p) = "verified"
  PROVE  Signer[p] \in trust \ {None}
<1>0. None \notin trust
  BY DEF PackagesAssumption, PackagesTyped
<1>1. CASE Signer[p] = None
  BY <1>0, <1>1 DEF VerifyPackage
<1>2. CASE Signer[p] # None
  BY <1>2 DEF VerifyPackage
<1> QED
  BY <1>1, <1>2

LEMMA verifyInstalledPluginKeeps ==
  ASSUME PackagesAssumption, PackagesInv, NEW s \in Slots, verifyInstalledPlugin(s)
  PROVE  PackagesInv'
<1> DEFINE r == work[s]
           p == disk[Place(s)]
           c == [r EXCEPT !.pc = "run", !.dev = devMode, !.shut = @ \cap revoked, !.seen = p]
<1>1. /\ r.kind = "start" /\ r.pc = "verify"
      /\ UNCHANGED <<source, installed, grants, trust, devMode, revoked, crossed>>
      /\ \/ work' = [work EXCEPT ![s] = Idle]
         \/ /\ Sound(p) /\ (VerifyPackage(p) = "verified" \/ devMode)
            /\ work' = [work EXCEPT ![s] = c]
  BY DEF verifyInstalledPlugin, At, Goes, settings
<1>2. PackagesTyped /\ r \in Startings
  BY <1>1, KindsOfWork DEF PackagesInv, PackagesTyped
<1>3. CASE work' = [work EXCEPT ![s] = Idle]
  BY <1>1, <1>3, EndsKeeps
<1>4. CASE /\ Sound(p) /\ (VerifyPackage(p) = "verified" \/ devMode)
           /\ work' = [work EXCEPT ![s] = c]
  <2>1. r.plugin \in Plugins /\ r.version \in Versions /\ r.shut \in SUBSET Keys
    BY <1>2 DEF Startings
  <2>2. p \in Packages
    BY <1>2, <1>4, <2>1 DEF PackagesTyped, Place, Sound
  <2>3. ~devMode => Signer[p] \in trust \ {None}
    BY <1>2, <1>4, VerifiedIsTrusted
  <2>4. devMode \in BOOLEAN /\ trust \cap revoked = {} /\ r.shut \cap revoked \in SUBSET Keys
    BY <1>2, <2>1 DEF PackagesTyped, PackagesInv, StartsFit
  <2> HIDE DEF p, r
  <2>5. c \in Startings
    BY <1>2, <2>2, <2>4 DEF Startings
  <2>6. c.kind = "start" /\ c.pc = "run" /\ c.dev = devMode /\ c.seen = p /\ c.shut = r.shut \cap revoked
    BY <1>1, <1>2, <2>4 DEF Startings
  <2> HIDE DEF c
  <2>7. Turns(s, c) /\ Whole(c) /\ ~Competes(c)
    BY <1>4, <2>5, <2>6 DEF Turns, Whole, Works, Competes
  <2>8. \A k, v : ~Placer(work[s], k, v)
    BY <1>1 DEF Placer, r
  <2>9. UNCHANGED <<disk, row, orphaned>>
    BY <1>1 DEF installed
  <2>10. PackagesTyped'
    BY <1>1, <1>2, <2>7, <2>9, TypedTurn DEF PackagesTyped
  <2>11. FilesFit'
    BY <2>7, <2>8, <2>9, FilesRest
  <2>12. ConsentsFit'
    BY <1>1, <2>7, <2>9, ConsentsRest
  <2>13. StartsFit'
    <3>1. work'[s] = c /\ \A t \in Slots \ {s} : work'[t] = work[t]
      BY <1>2, <2>7, OthersWork
    <3>2. ~c.dev => c.seen \in Packages /\ Signer[c.seen] \notin c.shut \cup {None}
      BY <2>2, <2>3, <2>4, <2>6
    <3>3. ASSUME NEW t \in Slots, work'[t].kind = "start", work'[t].pc = "run", ~work'[t].dev
          PROVE  work'[t].seen \in Packages /\ Signer[work'[t].seen] \notin work'[t].shut \cup {None}
      <4>1. CASE t = s
        BY <3>1, <3>2, <3>3, <4>1
      <4>2. CASE t # s
        BY <3>1, <3>3, <4>2 DEF PackagesInv, StartsFit, At
      <4> QED
        BY <4>1, <4>2
    <3> QED
      BY <1>1, <2>4, <3>3 DEF StartsFit, At
  <2> QED
    BY <2>10, <2>11, <2>12, <2>13 DEF PackagesInv
<1> QED
  BY <1>1, <1>3, <1>4

LEMMA RunKeeps ==
  ASSUME PackagesAssumption, PackagesInv, NEW s \in Slots, Run(s)
  PROVE  PackagesInv'
<1>1. /\ work[s].kind = "start" /\ work' = [work EXCEPT ![s] = Idle]
      /\ UNCHANGED <<source, installed, grants, trust, devMode, revoked, crossed>>
  BY DEF Run, At, Goes, settings
<1> QED
  BY <1>1, EndsKeeps

\* The store of publishers is edited: no start is about to be run by this call.
LEMMA EditKeeps ==
  ASSUME PackagesAssumption, PackagesInv, NEW s \in Slots, NEW c, Turns(s, c), Whole(c), ~Competes(c),
         c.kind # "start", work[s].kind # "install",
         UNCHANGED <<source, installed, grants, devMode, crossed>>,
         trust' \subseteq Keys, revoked' \subseteq Keys, trust' \cap revoked' = {}
  PROVE  PackagesInv'
<1>1. PackagesTyped /\ UNCHANGED <<disk, row, orphaned>>
  BY DEF PackagesInv, installed
<1>2. PackagesTyped'
  BY <1>1, TypedTurn DEF PackagesTyped
<1>3. FilesFit'
  BY <1>1, FilesRest DEF Placer
<1>4. ConsentsFit'
  BY <1>1, ConsentsRest
<1>5. StartsFit'
  <2>1. work'[s] = c /\ \A t \in Slots \ {s} : work'[t] = work[t]
    BY <1>1, OthersWork
  <2> QED
    BY <2>1 DEF PackagesInv, StartsFit, At
<1> QED
  BY <1>2, <1>3, <1>4, <1>5 DEF PackagesInv

LEMMA TrustPluginPublisherKeeps ==
  ASSUME PackagesAssumption, PackagesInv, NEW s \in Slots, TrustPluginPublisher(s)
  PROVE  PackagesInv'
<1>1. PICK k \in Keys :
        /\ IF k \in trust THEN Begin(s, Idle)
           ELSE Begin(s, [kind |-> "trust", pc |-> "write", plugin |-> None, keys |-> trust \cup {k}])
        /\ revoked' = IF k \in trust THEN revoked ELSE {}
        /\ UNCHANGED <<source, installed, grants, trust, devMode, running, faults, crossed>>
  BY DEF TrustPluginPublisher
<1> DEFINE c == [kind |-> "trust", pc |-> "write", plugin |-> None, keys |-> trust \cup {k}]
<1>2. trust \subseteq Keys /\ revoked \subseteq Keys /\ trust \cap revoked = {}
  BY DEF PackagesInv, PackagesTyped, StartsFit
<1>3. c \in TrustEdits /\ c.kind = "trust"
  BY <1>2 DEF TrustEdits
<1>4. work[s] = Idle /\ (work' = [work EXCEPT ![s] = Idle] \/ work' = [work EXCEPT ![s] = c])
  BY <1>1 DEF Begin
<1> HIDE DEF c
<1>5. PICK w \in {Idle, c} : work' = [work EXCEPT ![s] = w]
  BY <1>4
<1>6. w \in Works /\ w.kind \in {"idle", "trust"}
  BY <1>3, <1>5, IdleIsNothing DEF Works
<1>7. Turns(s, w) /\ Whole(w) /\ ~Competes(w) /\ w.kind # "start" /\ work[s].kind # "install"
  BY <1>4, <1>5, <1>6, IdleIsNothing DEF Turns, Whole, Competes
<1> QED
  BY <1>1, <1>2, <1>7, EditKeeps

LEMMA RevokePluginPublisherKeeps ==
  ASSUME PackagesAssumption, PackagesInv, NEW s \in Slots, RevokePluginPublisher(s)
  PROVE  PackagesInv'
<1>1. PICK k \in Keys :
        IF k \notin trust THEN Begin(s, Idle)
        ELSE Begin(s, [kind |-> "revoke", pc |-> "write", plugin |-> None, keys |-> trust \ {k}])
  BY DEF RevokePluginPublisher
<1>2. UNCHANGED <<source, installed, grants, trust, revoked, devMode, crossed>>
  BY DEF RevokePluginPublisher, settings
<1> DEFINE c == [kind |-> "revoke", pc |-> "write", plugin |-> None, keys |-> trust \ {k}]
<1>3. trust \subseteq Keys /\ revoked \subseteq Keys /\ trust \cap revoked = {}
  BY DEF PackagesInv, PackagesTyped, StartsFit
<1>4. c \in TrustEdits /\ c.kind = "revoke"
  BY <1>3 DEF TrustEdits
<1>5. work[s] = Idle /\ (work' = [work EXCEPT ![s] = Idle] \/ work' = [work EXCEPT ![s] = c])
  BY <1>1 DEF Begin
<1> HIDE DEF c
<1>6. PICK w \in {Idle, c} : work' = [work EXCEPT ![s] = w]
  BY <1>5
<1>7. w \in Works /\ w.kind \in {"idle", "revoke"}
  BY <1>4, <1>6, IdleIsNothing DEF Works
<1>8. Turns(s, w) /\ Whole(w) /\ ~Competes(w) /\ w.kind # "start" /\ work[s].kind # "install"
  BY <1>5, <1>6, <1>7, IdleIsNothing DEF Turns, Whole, Competes
<1> QED
  BY <1>2, <1>3, <1>8, EditKeeps

LEMMA writeTrustStoreKeeps ==
  ASSUME PackagesAssumption, PackagesInv, NEW s \in Slots, writeTrustStore(s)
  PROVE  PackagesInv'
<1> DEFINE keys == work[s].keys
<1>1. /\ work[s].kind \in {"trust", "revoke"} /\ work' = [work EXCEPT ![s] = Idle]
      /\ UNCHANGED <<source, installed, grants, devMode, crossed>>
      /\ \/ trust' = keys /\ (revoked' = (revoked \cup trust) \ keys \/ revoked' = {})
         \/ UNCHANGED <<trust, revoked>>
  BY DEF writeTrustStore, Edits, Goes, Fails
<1>2. work[s] \in TrustEdits /\ trust \subseteq Keys /\ revoked \subseteq Keys /\ trust \cap revoked = {}
  BY <1>1, KindsOfWork DEF PackagesInv, PackagesTyped, StartsFit
<1>3. keys \subseteq Keys
  BY <1>2 DEF TrustEdits
<1> HIDE DEF keys
<1>4. trust' \subseteq Keys /\ revoked' \subseteq Keys /\ trust' \cap revoked' = {}
  BY <1>1, <1>2, <1>3
<1>5. Turns(s, Idle) /\ Whole(Idle) /\ work[s].kind # "install"
  BY <1>1, IdleIsNothing DEF Turns, Whole
<1> QED
  BY <1>1, <1>4, <1>5, IdleIsNothing, EditKeeps

-----------------------------------------------------------------------------
(* The rest of the world, and every step.                                  *)

LEMMA RestKeeps ==
  ASSUME PackagesInv, UNCHANGED <<disk, row, orphaned, grants, trust, revoked, work, crossed>>,
         source' \in Packages, devMode' \in BOOLEAN
  PROVE  PackagesInv'
<1>1. PackagesTyped'
  BY DEF PackagesInv, PackagesTyped
<1>2. FilesFit'
  <2>1. \A i, v : Placing(i, v) <=> Placing(i, v)'
    BY DEF Placing, Busy
  <2> QED
    BY <2>1 DEF PackagesInv, FilesFit, RowsDescribeTheFiles, NothingIsLeftBehind
<1>3. ConsentsFit'
  BY DEF PackagesInv, ConsentsFit, Unmet, Consents, Considered, Busy
<1>4. StartsFit'
  BY DEF PackagesInv, StartsFit, At
<1> QED
  BY <1>1, <1>2, <1>3, <1>4 DEF PackagesInv

LEMMA PackagesCrash ==
  ASSUME PackagesAssumption, PackagesInv, Crash
  PROVE  PackagesInv'
<1> DEFINE left == {Place(t) : t \in {t \in Slots : work[t].kind = "install" /\ work[t].pc \in {"verify", "record"}}}
<1>1. /\ UNCHANGED <<source, disk, row, grants, trust, devMode, crossed>>
      /\ work' = [t \in Slots |-> Idle] /\ orphaned' = orphaned \cup left
      /\ revoked' = revoked \/ revoked' = {}
  BY DEF Crash
<1>2. PackagesTyped /\ FilesFit /\ ConsentsFit /\ StartsFit
  BY DEF PackagesInv
<1>3. \A t \in Slots : work'[t].kind = "idle"
  BY <1>1, IdleIsNothing
<1>4. PackagesTyped'
  BY <1>1, <1>2, <1>3, IdleIsNothing DEF PackagesTyped
<1>5. \A i, v : Placing(i, v) => <<i, v>> \in left
  BY DEF Placing, Busy, Place
<1> HIDE DEF left
<1>6. FilesFit'
  BY <1>1, <1>2, <1>5 DEF FilesFit, RowsDescribeTheFiles, NothingIsLeftBehind
<1>7. ConsentsFit'
  <2>1. ASSUME NEW i \in Plugins \ crossed'
        PROVE  Unmet(i)'
    BY <1>1, <1>2, <1>3 DEF ConsentsFit, Unmet, Consents
  <2> QED
    BY <2>1 DEF ConsentsFit
<1>8. StartsFit'
  BY <1>1, <1>2, <1>3 DEF StartsFit, At
<1> QED
  BY <1>4, <1>6, <1>7, <1>8 DEF PackagesInv

LEMMA PackagesStep ==
  ASSUME PackagesAssumption, PackagesInv, [PackagesNext]_packageVars
  PROVE  PackagesInv'
<1>1. CASE UNCHANGED packageVars
  BY <1>1, RestKeeps DEF packageVars, installed, settings, PackagesInv, PackagesTyped
<1>2. CASE SetPluginDevMode
  BY <1>2, RestKeeps DEF SetPluginDevMode, installed, PackagesInv, PackagesTyped
<1>3. CASE Rebuild
  BY <1>3, RestKeeps DEF Rebuild, installed, settings, PackagesInv, PackagesTyped
<1>4. ASSUME NEW s \in Slots,
             \/ inspectPluginPackage(s) \/ InstallPlugin(s) \/ copyPluginTree(s) \/ installPluginDirectory(s)
             \/ verifyInstalled(s) \/ Upsert(s)
      PROVE  PackagesInv'
  BY <1>4, inspectKeeps, InstallPluginKeeps, copyPluginTreeKeeps, installPluginDirectoryKeeps,
     verifyInstalledKeeps, UpsertKeeps
<1>5. ASSUME NEW s \in Slots,
             EnablePlugin(s) \/ Grants(s) \/ ReplaceGrants(s) \/ SetEnabled(s)
      PROVE  PackagesInv'
  BY <1>5, EnablePluginKeeps, GrantsKeeps, ReplaceGrantsKeeps, SetEnabledKeeps
<1>6. ASSUME NEW s \in Slots,
             \/ Starts(s) \/ StopPlugin(s) \/ RevokeGrants(s) \/ DisablePlugin(s)
             \/ UninstallPlugin(s) \/ Delete(s)
      PROVE  PackagesInv'
  BY <1>6, StartsKeeps, StopPluginKeeps, RevokeGrantsKeeps, DisablePluginKeeps, UninstallPluginKeeps, DeleteKeeps
<1>7. ASSUME NEW s \in Slots,
             \/ StartPlugin(s) \/ verifyInstalledPlugin(s) \/ Run(s)
             \/ TrustPluginPublisher(s) \/ RevokePluginPublisher(s) \/ writeTrustStore(s)
      PROVE  PackagesInv'
  BY <1>7, StartPluginKeeps, verifyInstalledPluginKeeps, RunKeeps, TrustPluginPublisherKeeps,
     RevokePluginPublisherKeeps, writeTrustStoreKeeps
<1> QED
  BY <1>1, <1>2, <1>3, <1>4, <1>5, <1>6, <1>7, PackagesCrash DEF PackagesNext

\* What the invariant says of a start, said of the step that runs it.
LEMMA StartsAreTrusted ==
  ASSUME PackagesInv
  PROVE  \A s \in Slots : At(s, "start", "run") /\ work'[s] = Idle /\ ~work[s].dev =>
           \A i \in Plugins : running'[i] \notin {None, running[i]} /\ running'[i] = work[s].seen
                              => Signer[running'[i]] \notin work[s].shut \cup {None}
  BY DEF PackagesInv, StartsFit

LEMMA GrantsAreDeclared ==
  ASSUME PackagesInv
  PROVE  RowsDescribeTheFiles /\ NothingIsLeftBehind /\ GrantsFitTheManifest
  BY DEF PackagesInv, FilesFit, ConsentsFit, Unmet, GrantsFitTheManifest

\* Rows, directories and grants agree through every overlap of installs, removals
\* and consents, every failed write and every interruption, and what was verified
\* starts only if its publisher is trusted (desktop/plugins_install.go,
\* plugins_consent.go, plugins_lifecycle_authz.go, plugins/truststore.go).
THEOREM PackagesKept ==
  ASSUME PackagesAssumption
  PROVE  PackagesSpec => PackagesHold
<1>1. PackagesInit => PackagesInv
  BY PackagesStart
<1>2. PackagesInv /\ [PackagesNext]_packageVars => PackagesInv'
  BY PackagesStep
<1>3. PackagesInv => RowsDescribeTheFiles /\ NothingIsLeftBehind /\ GrantsFitTheManifest
  BY GrantsAreDeclared
<1>4. PackagesInv =>
        \A s \in Slots : At(s, "start", "run") /\ work'[s] = Idle /\ ~work[s].dev =>
           \A i \in Plugins : running'[i] \notin {None, running[i]} /\ running'[i] = work[s].seen
                              => Signer[running'[i]] \notin work[s].shut \cup {None}
  BY StartsAreTrusted
<1> QED
  BY <1>1, <1>2, <1>3, <1>4, PTL DEF PackagesSpec, PackagesHold, RevokedDoNotStart
=============================================================================
