-------------------------- MODULE StreamSupervisor --------------------------
(***************************************************************************)
(* The connection behind the quotes: ZerodhaKiteTicker                     *)
(* (src/src/quant_ai/marketdata/ticker_stream.py) and its counters         *)
(* (stream_progress.py, feed_watchdog.py) under                            *)
(* DaemonRunner._supervise_stream (daemon.py).  Three threads of control   *)
(* meet: the reactor of the client library, which owns the sockets and     *)
(* calls back; the calls it schedules on the event loop, run in order; and *)
(* the supervisor, a task of that loop.  A callback first looks whether    *)
(* its socket is the current one and acts afterwards, and the supervisor   *)
(* may replace the socket between the two.                                 *)
(*                                                                         *)
(* Sockets are numbered by the connection generation.  The library retries *)
(* by itself until it gives up; delays, times and event texts are left     *)
(* out, and so is the contents of the ticks (see TickFeed).                *)
(***************************************************************************)
EXTENDS Integers, Sequences, FiniteSets

CONSTANTS
  MaxSockets,
  MaxCallbacks,   \* callbacks of the library that are acted on
  MaxQueued       \* calls scheduled and not run yet

VARIABLES
  sockets,     \* state of every socket in the library
  closing,     \* sockets the reactor was asked to close
  callback,    \* a callback that passed _current_callback, or Quiet
  acted,       \* callbacks acted on
  scheduled,   \* run_coroutine_threadsafe: scheduled on the event loop
  errors,      \* AbstractTickerStream._connection_errors, of size one
  supervisor,  \* where _supervise_stream is
  progress,    \* StreamProgress
  alerts       \* DaemonRunner._feed_alerts

streamVars ==
  <<sockets, closing, callback, acted, scheduled, errors, supervisor, progress, alerts>>

Quiet == [event |-> "none"]
CurrentSocket == Len(sockets)

NoProgress == [generation |-> 0, pending |-> 0, current |-> 0, failures |-> 0,
               since |-> FALSE, retrying |-> FALSE, subscription |-> "not_requested"]

StreamInit ==
  /\ sockets = << >>
  /\ closing = {}
  /\ callback = Quiet
  /\ acted = 0
  /\ scheduled = << >>
  /\ errors = << >>
  /\ supervisor = "start"
  /\ progress = NoProgress
  /\ alerts = 0

-----------------------------------------------------------------------------
(* _supervise_stream.                                                      *)

\* start: the new socket becomes the current one, its counters begin again.
Start ==
  /\ supervisor = "start"
  /\ CurrentSocket < MaxSockets
  /\ sockets' = Append(sockets, "connecting")
  /\ progress' = [NoProgress EXCEPT !.generation = progress.generation + 1,
                                    !.pending = progress.pending]
  /\ supervisor' \in {"waiting", "report", "abandon"}  \* a connection error, or another one
  /\ UNCHANGED <<closing, callback, acted, scheduled, errors, alerts>>

\* recovers_in_place.
RecoversInPlace(error) == error = "drop"

\* wait_for_connection_error, then the event is written.
TakeError ==
  /\ supervisor = "waiting"
  /\ errors # << >>
  /\ supervisor' = Head(errors)
  /\ errors' = << >>
  /\ UNCHANGED <<sockets, closing, callback, acted, scheduled, progress, alerts>>

\* _write_event, or the OSError of it: that of a disconnection is reported like a failed
\* start, that of the report itself ends the task.
WriteEvent ==
  /\ \/ /\ supervisor \in {"drop", "giveup"}
        /\ supervisor' \in {IF RecoversInPlace(supervisor) THEN "waiting" ELSE "stop", "report"}
     \/ /\ supervisor = "report"
        /\ supervisor' \in {"stop", "abandon"}
  /\ UNCHANGED <<sockets, closing, callback, acted, scheduled, errors, progress, alerts>>

\* _safe_stop, and the delay before the next attempt; after an error nobody handles the task
\* ends, and nobody looks at it before the shutdown.
Stop ==
  /\ supervisor \in {"stop", "abandon"}
  /\ closing' = closing \cup {CurrentSocket}
  /\ supervisor' = IF supervisor = "stop" THEN "start" ELSE "ended"
  /\ UNCHANGED <<sockets, callback, acted, scheduled, errors, progress, alerts>>

-----------------------------------------------------------------------------
(* The reactor.                                                            *)

\* Defect: any socket's callback is listened to.
AnySocket(g) == TRUE

\* _current_callback.
CurrentCallback(g) == g = CurrentSocket

\* A socket of the library moves, and its callback is let through or ignored.
Fires(g, state, event) ==
  /\ callback = Quiet
  /\ acted < MaxCallbacks
  /\ sockets' = [sockets EXCEPT ![g] = state]
  /\ IF CurrentCallback(g)
     THEN callback' = [event |-> event, socket |-> g] /\ acted' = acted + 1
     ELSE UNCHANGED <<callback, acted>>
  /\ UNCHANGED <<scheduled, errors, supervisor, progress, alerts>>

\* KiteTicker: after a drop it connects again by itself, until it gives up; an
\* error may still be reported then (on_connection_error provides for it).
LibraryMoves(g) ==
  /\ g \notin closing
  /\ UNCHANGED closing
  /\ \/ sockets[g] \in {"connecting", "retrying"} /\ Fires(g, "open", "connect")
     \/ sockets[g] = "open" /\ Fires(g, "open", "ticks")
     \/ sockets[g] \in {"open", "gaveUp"} /\ Fires(g, sockets[g], "error")
     \/ sockets[g] \in {"open", "connecting"} /\ Fires(g, "retrying", "close")
     \/ sockets[g] = "retrying" /\ Fires(g, "retrying", "reconnect")
     \/ sockets[g] = "retrying" /\ Fires(g, "gaveUp", "noreconnect")

\* close stops the retries of the socket and closes it if it is open.
LibraryCloses(g) ==
  /\ g \in closing
  /\ closing' = closing \ {g}
  /\ IF sockets[g] = "open"
     THEN Fires(g, "closed", "close")
     ELSE /\ callback = Quiet
          /\ sockets' = [sockets EXCEPT ![g] = "closed"]
          /\ UNCHANGED <<callback, acted, scheduled, errors, supervisor, progress, alerts>>

Schedule(call) == Len(scheduled) < MaxQueued /\ scheduled' = Append(scheduled, call)

\* queued: the future belongs to the generation that is current now.
Queued ==
  [progress EXCEPT !.pending = @ + 1, !.current = @ + 1, !.since = TRUE]

\* The rest of _on_connect, _on_ticks, _on_error, _on_close, _on_noreconnect
\* and _on_reconnect.
Act ==
  /\ callback # Quiet
  /\ callback' = Quiet
  /\ \/ /\ callback.event = "connect"
        /\ \E sent \in {"sent_unconfirmed", "send_failed"} :
             progress' = [progress EXCEPT !.retrying = FALSE, !.subscription = sent]
        /\ UNCHANGED scheduled
     \/ /\ callback.event = "ticks"
        /\ Schedule([kind |-> "ingest", generation |-> progress.generation])
        /\ progress' = Queued
     \/ /\ callback.event = "error"
        /\ Schedule([kind |-> "drop"])
        /\ UNCHANGED progress
     \/ /\ callback.event = "close"
        /\ Schedule([kind |-> "drop"])
        /\ progress' = [progress EXCEPT !.retrying = TRUE]
     \/ /\ callback.event = "noreconnect"
        /\ Schedule([kind |-> "giveup"])
        /\ progress' = [progress EXCEPT !.retrying = FALSE]
     \/ /\ callback.event = "reconnect"
        /\ progress' = [progress EXCEPT !.retrying = TRUE]
        /\ UNCHANGED scheduled
  /\ UNCHANGED <<sockets, closing, acted, errors, supervisor, alerts>>

-----------------------------------------------------------------------------
(* The event loop.                                                         *)

\* Defect: the queue keeps the newest error.
Newest(queued, error) == error

\* on_connection_error: a drop never displaces a give-up.
Kept(queued, error) ==
  IF queued # << >> /\ RecoversInPlace(error) /\ ~RecoversInPlace(Head(queued))
  THEN Head(queued) ELSE error

\* Defect: an ingestion of any generation is taken off the current count.
AllOfOne(generation) == TRUE

\* finished looks whether the future is one of this connection.
OfThisConnection(generation) == generation = progress.generation

Finished(generation, failed) ==
  LET left == progress.current - 1
      counted == [progress EXCEPT !.pending = @ - 1]
  IN IF ~OfThisConnection(generation) THEN counted
     ELSE [counted EXCEPT !.current = left,
                          !.since = IF left = 0 THEN FALSE ELSE @,
                          !.failures = IF failed THEN @ + 1 ELSE @]

RunCall ==
  /\ scheduled # << >>
  /\ scheduled' = Tail(scheduled)
  /\ LET call == Head(scheduled) IN
     IF call.kind = "ingest"
     THEN /\ \E failed \in BOOLEAN :
               progress' = Finished(call.generation, failed /\ progress.failures = 0)
          /\ UNCHANGED errors
     ELSE errors' = <<Kept(errors, call.kind)>> /\ UNCHANGED progress
  /\ UNCHANGED <<sockets, closing, callback, acted, supervisor, alerts>>

\* progress_issue, for a connection past its grace period; seen says what the
\* stamps of the frames and ticks received show.
ProgressIssue(seen) ==
  IF progress.retrying THEN "native_retry_active"
  ELSE IF progress.failures > 0 THEN "consumer_future_failed_manual_recovery"
  ELSE IF progress.pending > 0 THEN "consumer_future_pending_no_recovery"
  ELSE IF progress.subscription = "send_failed" THEN "subscription_send_failed_manual_recovery"
  ELSE seen

Silent == {"silent_raw_feed", "raw_frames_without_tick_callbacks",
           "connection_callback_missing"}

\* _check_silent_feeds: one report, and only while the book is halted; it
\* replaces no socket.
Watch(seen, halted) ==
  /\ progress.generation > 0
  /\ ProgressIssue(seen) \in Silent
  /\ halted
  /\ alerts < 1
  /\ alerts' = alerts + 1
  /\ UNCHANGED <<sockets, closing, callback, acted, scheduled, errors, supervisor, progress>>

StreamNext ==
  \/ Start \/ TakeError \/ WriteEvent \/ Stop \/ Act \/ RunCall
  \/ \E g \in DOMAIN sockets : LibraryMoves(g) \/ LibraryCloses(g)
  \/ \E seen \in Silent \cup {"receiving_tick_callbacks"}, halted \in BOOLEAN :
       Watch(seen, halted)

StreamSpec == StreamInit /\ [][StreamNext]_streamVars

-----------------------------------------------------------------------------
(* Properties.                                                             *)

\* Where the supervisor is on its way to a new socket, or out of the loop for good.
Leaving == {"giveup", "report", "stop", "start", "abandon", "ended"}

\* The client of the current socket has given up and nobody else will
\* reconnect it: the news is with a callback, the loop, the queue or the
\* supervisor, or the supervisor failed twice and took the socket down.
GiveUpNotLost ==
  CurrentSocket > 0 /\ sockets[CurrentSocket] = "gaveUp" =>
    \/ callback.event = "noreconnect"
    \/ \E i \in DOMAIN scheduled : scheduled[i].kind = "giveup"
    \/ errors = <<"giveup">>
    \/ supervisor \in Leaving

Ingestions == {i \in DOMAIN scheduled : scheduled[i].kind = "ingest"}

PendingCountsFutures ==
  /\ progress.pending = Cardinality(Ingestions)
  /\ progress.current =
       Cardinality({i \in Ingestions : scheduled[i].generation = progress.generation})
  /\ progress.since <=> progress.current > 0

RetryFlagDown ==
  CurrentSocket > 0 /\ sockets[CurrentSocket] = "open" /\ callback = Quiet => ~progress.retrying

\* SocketAccountedFor: a socket whose client gave up is always about to be replaced,
\* whatever routine drops arrive with the news and however late the callbacks of older
\* sockets come, unless the supervisor has ended itself; and the watchdog sees of this
\* connection what is true of it: no retry while the socket is open, and as many unfinished
\* ingestions as there are (ticker_stream.py on_connection_error, stream_progress.py
\* finished, daemon.py _supervise_stream).
SocketAccountedFor == GiveUpNotLost /\ PendingCountsFutures /\ RetryFlagDown
=============================================================================
